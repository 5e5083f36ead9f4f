---------------------------- MODULE SessionQueue ----------------------------
(***************************************************************************)
(* The sorted_queries vector of one ModelSessionContext, as the locked    *)
(* block of DelayedScheduler::EnqueueQuery grows it for a session that is *)
(* in models_: a global id already in queries_ is refused, any other      *)
(* query is pushed onto the heap.  Nothing in the sources pops it         *)
(* (WorkFullSchedule is empty), so the vector only grows.                 *)
(***************************************************************************)
EXTENDS DeadlineHeap, SequencesExt

CONSTANTS
    GlobalIds,   \* global ids of the queries of this session
    Deadlines    \* frontend_recv_ns + latency_sla of those queries

Queries == [global_id : GlobalIds, deadline : Deadlines]

VARIABLES
    queries,          \* keys of queries_ that belong to this session
    sorted_queries    \* the heap

vars == <<queries, sorted_queries>>

Init ==
    /\ queries = {}
    /\ sorted_queries = << >>

\* The queries_.count check, push_back and push_heap of EnqueueQuery.
EnqueueQuery(q) ==
    /\ q.global_id \notin queries
    /\ queries' = queries \cup {q.global_id}
    /\ sorted_queries' = PushHeap(sorted_queries, q)

Next == \E q \in Queries : EnqueueQuery(q)

Spec == Init /\ [][Next]_vars

-----------------------------------------------------------------------------
\* The queries of the vector with the earliest deadline.
Earliest ==
    { q \in ToSet(sorted_queries) :
        \A p \in ToSet(sorted_queries) : q.deadline <= p.deadline }

(***************************************************************************)
(* The front of sorted_queries is a query with the earliest deadline, as  *)
(* the "ORDER BY deadline ASC" comment on the vector says, although the   *)
(* comparator OrderQueryContextByDeadlineASC returns lhs > rhs: with      *)
(* std::push_heap the greatest element under the comparator, here the     *)
(* earliest deadline, is the one at the front.                            *)
(***************************************************************************)
FrontIsEarliest ==
    sorted_queries # << >> => sorted_queries[1] \in Earliest

=============================================================================
