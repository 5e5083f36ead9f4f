---------------------------- MODULE DeadlineHeap ----------------------------
(***************************************************************************)
(* The per-session query heap of the delayed scheduler                     *)
(* (ModelSessionContext::sorted_queries in dispatcher.cpp) as pure         *)
(* operators.  A query is a record [global_id, deadline]; the vector is a  *)
(* TLA+ sequence, and the heap arithmetic of std::push_heap keeps the      *)
(* code's 0-based positions, i at sequence index i + 1.                    *)
(***************************************************************************)
EXTENDS Integers, Sequences

\* Variant for checking the properties: the comparison the other way round.
OrderQueryContextByDeadlineDESC(lhs, rhs) == lhs.deadline < rhs.deadline

\* The comparator handed to std::push_heap: lhs "less than" rhs when lhs has
\* the later deadline, so the heap top is the earliest deadline.
OrderQueryContextByDeadlineASC(lhs, rhs) == lhs.deadline > rhs.deadline

HeapParent(i) == (i - 1) \div 2

(***************************************************************************)
(* std::push_heap(first, last, comp) after push_back(v): the hole starts  *)
(* at the last position; while its parent compares less than v, the       *)
(* parent moves down into the hole and the hole moves up; v is stored     *)
(* where the hole stops.                                                   *)
(***************************************************************************)
RECURSIVE SiftUp(_, _, _)
SiftUp(h, hole, v) ==
    IF hole > 0 /\ OrderQueryContextByDeadlineASC(h[HeapParent(hole) + 1], v)
    THEN SiftUp([h EXCEPT ![hole + 1] = h[HeapParent(hole) + 1]],
                HeapParent(hole), v)
    ELSE [h EXCEPT ![hole + 1] = v]

\* mctx->sorted_queries.push_back(qctx); std::push_heap(...).
PushHeap(h, q) == SiftUp(Append(h, q), Len(h), q)

=============================================================================
