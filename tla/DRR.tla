-------------------------------- MODULE DRR --------------------------------
(***************************************************************************)
(* The deficit-round-robin route table of the dispatcher (class ModelRoute *)
(* in src/src/nexus/dispatcher/dispatcher.cpp) as pure operators over a    *)
(* route record.  A route record holds the fields of ModelRoute:           *)
(*   backends : the backend_rate entries of the last ModelRouteProto, a    *)
(*              sequence of [id |-> node id, tp |-> throughput];           *)
(*   quanta   : backend_quanta_, node id -> remaining quantum;             *)
(*   idx      : current_drr_index_, 0-based as in the code;               *)
(*   min_rate : min_rate_.                                                 *)
(* Throughputs are doubles in the code; the model gives them small        *)
(* natural values, for which every sum and difference the code computes   *)
(* is exact, so the arithmetic is the code's.  total_throughput_ is only   *)
(* logged and is left out.                                                 *)
(***************************************************************************)
EXTENDS Integers, Sequences, SequencesExt, FiniteSetsExt

CONSTANT DblMax   \* std::numeric_limits<double>::max(), above every rate

IdsOf(route) == { route[i].id : i \in DOMAIN route }

\* The 0-based position of the first entry for node b (backend_idx keeps
\* the first index emplaced for an id).
PosOf(route, b) == SelectInSeq(route, LAMBDA e : e.id = b) - 1

\* min_rate_: the smallest throughput of the route, DBL_MAX when empty.
MinRate(route) ==
    IF route = <<>> THEN DblMax ELSE Min({ route[i].tp : i \in DOMAIN route })

\* A ModelRoute as default-constructed when HandleLoadModel creates it.
EmptyRoute ==
    [backends |-> << >>, quanta |-> [b \in {} |-> 0], idx |-> 0, min_rate |-> DblMax]

(***************************************************************************)
(* ModelRoute::Update(route).  The backend under current_drr_index_ is    *)
(* remembered (node id 0 when the table was empty); the entries are      *)
(* replaced; quanta are emplaced, so a backend that stays keeps its old    *)
(* quantum and only a new one is seeded with its rate; quanta of removed  *)
(* backends are erased; the index moves to the remembered backend if it   *)
(* stays, else it is reduced modulo the new size (0 for an empty route).  *)
(***************************************************************************)
\* Variant for checking the properties: the loop that erases the quanta of
\* backends no longer in the route is missing.
UpdateRouteNoErase(mr, route) ==
    LET cur == IF mr.backends = << >> THEN 0 ELSE mr.backends[mr.idx + 1].id
        ids == IdsOf(route)
    IN  [backends |-> route,
         min_rate |-> MinRate(route),
         quanta   |-> [b \in ids \cup DOMAIN mr.quanta |->
                         IF b \in DOMAIN mr.quanta THEN mr.quanta[b]
                         ELSE route[PosOf(route, b) + 1].tp],
         idx      |-> IF cur \in ids THEN PosOf(route, cur)
                      ELSE IF route = << >> THEN 0
                      ELSE mr.idx % Len(route)]

UpdateRoute(mr, route) ==
    LET cur == IF mr.backends = << >> THEN 0 ELSE mr.backends[mr.idx + 1].id
        ids == IdsOf(route)
    IN  [backends |-> route,
         min_rate |-> MinRate(route),
         quanta   |-> [b \in ids |-> IF b \in DOMAIN mr.quanta
                                     THEN mr.quanta[b]
                                     ELSE route[PosOf(route, b) + 1].tp],
         idx      |-> IF cur \in ids THEN PosOf(route, cur)
                      ELSE IF route = << >> THEN 0
                      ELSE mr.idx % Len(route)]

(***************************************************************************)
(* The loop of ModelRoute::GetBackend for a non-empty route.  At step i   *)
(* the backend under the index is returned, its quantum lowered by       *)
(* min_rate, if its quantum reaches min_rate; otherwise its rate is added *)
(* to its quantum, the index advances, and CHECK_LE(i, size) aborts the   *)
(* process once i exceeds the number of backends.  The result records    *)
(* the route after the call, the node chosen and whether the CHECK held.  *)
(***************************************************************************)
\* Variant for checking the properties: the refill of a short quantum is
\* dropped.
RECURSIVE DrrLoopNoRefill(_, _)
DrrLoopNoRefill(mr, i) ==
    LET e == mr.backends[mr.idx + 1]
    IN  IF mr.quanta[e.id] >= mr.min_rate
        THEN [route  |-> [mr EXCEPT !.quanta[e.id] = @ - mr.min_rate],
              chosen |-> e.id, ok |-> TRUE]
        ELSE LET next == [mr EXCEPT !.idx = (mr.idx + 1) % Len(mr.backends)]
             IN  IF i > Len(mr.backends)
                 THEN [route |-> next, chosen |-> 0, ok |-> FALSE]
                 ELSE DrrLoopNoRefill(next, i + 1)

RECURSIVE DrrLoop(_, _)
DrrLoop(mr, i) ==
    LET e == mr.backends[mr.idx + 1]
    IN  IF mr.quanta[e.id] >= mr.min_rate
        THEN [route  |-> [mr EXCEPT !.quanta[e.id] = @ - mr.min_rate],
              chosen |-> e.id, ok |-> TRUE]
        ELSE LET next == [mr EXCEPT !.quanta[e.id] = @ + e.tp,
                                    !.idx = (mr.idx + 1) % Len(mr.backends)]
             IN  IF i > Len(mr.backends)
                 THEN [route |-> next, chosen |-> 0, ok |-> FALSE]
                 ELSE DrrLoop(next, i + 1)

GetBackend(mr) == DrrLoop(mr, 0)

=============================================================================
