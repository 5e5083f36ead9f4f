------------------------------ MODULE Scheduler ------------------------------
(***************************************************************************)
(* The Nexus global scheduler (src/unnamed/part_001, scheduler.cpp).       *)
(* Every handler runs under the scheduler mutex, so each is one atomic     *)
(* step.  A handler is written as a function from a scheduler state        *)
(* record to the SET of states it may produce: where the code iterates an  *)
(* unordered_map or breaks a sort tie, every order is possible.            *)
(*                                                                         *)
(* Rates and throughputs are integers in units of 0.1 req/s, so the 1e-3   *)
(* tests become "> 0" and the 0.1 floor of estimate_rps is 1.              *)
(*                                                                         *)
(* The BackendDelegate is not part of the sources; its operations are      *)
(* modelled from the specification: a backend serves at most Cap units,    *)
(* PrepareLoadModel refuses a session the backend already serves,          *)
(* IsIdle means nothing is loaded, and Assign copies the whole model       *)
(* table and workload id onto an idle backend of the same GPU type.        *)
(***************************************************************************)
EXTENDS Integers, FiniteSets, SequencesExt

CONSTANTS
    Frontends,        \* frontend node ids
    Backends,         \* backend node ids
    Sessions,         \* model session ids
    Cap,              \* throughput of one fully occupied backend
    StaticWorkloads,  \* static_workloads_: a sequence of [session -> throughput]
    Rates,            \* estimate_workload of LoadModel and reported rates
    HistoryLen,       \* history_len_
    Gpu               \* gpu_device_ of each backend

NoWorkload == -1       \* workload_id() of a backend with no static workload

ASSUME /\ Cap \in Nat \ {0}
       /\ Rates \subseteq Nat
       /\ HistoryLen \in Nat \ {0}
       /\ \A i \in DOMAIN StaticWorkloads :
            /\ DOMAIN StaticWorkloads[i] \subseteq Sessions
            /\ \A s \in DOMAIN StaticWorkloads[i] : StaticWorkloads[i][s] \in 1..Cap

StaticIds == 0 .. Len(StaticWorkloads) - 1

VARIABLES
    frontends,   \* keys of frontends_
    subs,        \* FrontendDelegate::subscribe_models() of each frontend
    froute,      \* the route each frontend last received for each session
    backends,    \* keys of backends_
    load,        \* each BackendDelegate's model table: session -> throughput
    wid,         \* BackendDelegate::workload_id()
    static,      \* assigned_static_workloads_: workload id -> backend id
    table,       \* session_table_: session id -> SessionInfo
    epochDue,    \* a BeaconCheck ran since the last EpochSchedule
    crash        \* an at() threw or a null BackendDelegate was used

vars == <<frontends, subs, froute, backends, load, wid, static, table,
          epochDue, crash>>

-----------------------------------------------------------------------------
(* Helpers on maps.                                                        *)

\* std::map::emplace: insert only when the key is absent.
Emplace(f, k, v) == IF k \in DOMAIN f THEN f ELSE f @@ (k :> v)

EraseKey(f, k) == [x \in DOMAIN f \ {k} |-> f[x]]

Used(ld, b) == SumFunction(ld[b])

Idle(ld, b) == \A s \in Sessions : ld[b][s] = 0

\* A SessionInfo as make_shared<SessionInfo>() leaves it.
NewSession(isStatic) ==
    [weights |-> [b \in {} |-> 0], unassigned |-> 0, subscribers |-> {},
     static |-> isStatic, history |-> << >>, workloads |-> [f \in {} |-> 0]]

\* A frontend that has received no route yet.
NoRoutes == [s \in {} |-> [b \in {} |-> 0]]

TotalThroughput(si) == SumFunction(si.weights)

(* The scheduler's mutable state, as one record handed through a handler.  *)
State == [tbl |-> table, ld |-> load, wid |-> wid, static |-> static,
          regs |-> backends, changed |-> {}, crash |-> crash]

-----------------------------------------------------------------------------
(* Placement.                                                              *)

\* BackendDelegate::PrepareLoadModel: the throughput it can plan for s at
\* the requested rate, 0 when it refuses.
Prepare(st, b, s, rate) ==
    LET free == Cap - Used(st.ld, b)
    IN  IF st.ld[b][s] > 0 THEN 0
        ELSE IF rate = 0 THEN free ELSE Min({rate, free})

\* Scheduler::FindBestBackend: the possible [b, tp] results, {} for nullptr.
FindBestBackend(st, s, rate, skips) ==
    LET cand == {b \in st.regs \ skips :
                    /\ st.wid[b] = NoWorkload
                    /\ rate = 0 => Idle(st.ld, b)
                    /\ Prepare(st, b, s, rate) > 0}
        tp(b) == Prepare(st, b, s, rate)
        occ(b) == Used(st.ld, b) + tp(b)
        maxTp == Max({tp(b) : b \in cand})
        maxOcc == Max({occ(b) : b \in cand})
        best == IF rate = 0 \/ maxTp < rate
                THEN {b \in cand : tp(b) = maxTp}
                ELSE {b \in cand : occ(b) = maxOcc}
    IN  IF cand = {} THEN {} ELSE {[b |-> b, tp |-> tp(b)] : b \in best}

\* The inner while loop of AllocateUnassignedWorkloads for one session.
RECURSIVE AllocSession(_, _, _)
AllocSession(st, s, rate) ==
    LET found == FindBestBackend(st, s, rate, {})
    IN  IF rate <= 0 \/ found = {}
        THEN {[st EXCEPT !.tbl[s].unassigned = Max({0, rate})]}
        ELSE UNION {AllocSession(
                      [st EXCEPT !.ld[c.b][s] = c.tp,
                                 !.tbl[s].weights = Emplace(@, c.b, c.tp),
                                 !.changed = @ \cup {s}],
                      s, rate - c.tp) : c \in found}

\* Variant for checking the properties: the break that ends the while loop
\* for a session no backend can take ends the for loop over sessions too.
RECURSIVE AllocInOrderStopAtUnplaced(_, _)
AllocInOrderStopAtUnplaced(st, order) ==
    IF order = << >> THEN {st}
    ELSE UNION {IF r.tbl[Head(order)].unassigned > 0 THEN {r}
                ELSE AllocInOrderStopAtUnplaced(r, Tail(order)) :
                  r \in AllocSession(st, Head(order),
                                     st.tbl[Head(order)].unassigned)}

RECURSIVE AllocInOrder(_, _)
AllocInOrder(st, order) ==
    IF order = << >> THEN {st}
    ELSE UNION {AllocInOrder(r, Tail(order)) :
                  r \in AllocSession(st, Head(order),
                                     st.tbl[Head(order)].unassigned)}

\* Scheduler::AllocateUnassignedWorkloads: sessions by descending
\* unassigned_workload, equal ones in any order.
AllocateUnassignedWorkloads(st) ==
    LET owed == {s \in DOMAIN st.tbl : st.tbl[s].unassigned > 0}
        orders == {o \in SetToSeqs(owed) :
                     \A i, j \in DOMAIN o :
                        i < j => st.tbl[o[i]].unassigned >= st.tbl[o[j]].unassigned}
    IN  UNION {AllocInOrder(st, o) : o \in orders}

\* Scheduler::UpdateModelRoutes: every registered subscriber of a changed
\* session receives its route; GetModelRoute's backends_.at throws for a
\* routed backend that is gone.
RouteUpdates(st) ==
    [f \in Frontends |->
        LET pushed == {s \in st.changed \cap DOMAIN st.tbl :
                         f \in st.tbl[s].subscribers /\ f \in frontends}
        IN  [s \in pushed |-> st.tbl[s].weights] @@ froute[f]]

RouteThrows(st) ==
    \E s \in st.changed \cap DOMAIN st.tbl :
        DOMAIN st.tbl[s].weights \ st.regs # {}

\* Commit a handler's resulting state.
Commit(st) ==
    /\ table' = st.tbl
    /\ load' = st.ld
    /\ wid' = st.wid
    /\ static' = st.static
    /\ backends' = st.regs
    /\ froute' = RouteUpdates(st)
    /\ crash' = IF st.crash = "none" /\ RouteThrows(st) THEN "at_throw" ELSE st.crash

-----------------------------------------------------------------------------
(* Backend join and leave.                                                 *)

\* The static branch of Scheduler::AddBackend: pin b to workload id, load
\* its sessions and record b's weight, creating static sessions on demand.
AssignStatic(st, b, id) ==
    LET wl == StaticWorkloads[id + 1]
        si(s) == IF s \in DOMAIN st.tbl THEN st.tbl[s] ELSE NewSession(TRUE)
    IN  [st EXCEPT
           !.ld[b] = [s \in Sessions |-> IF s \in DOMAIN wl THEN wl[s] ELSE 0],
           !.wid[b] = id,
           !.static = @ @@ (id :> b),
           !.tbl = [s \in DOMAIN st.tbl \cup DOMAIN wl |->
                      IF s \in DOMAIN wl
                      THEN [si(s) EXCEPT !.weights = Emplace(@, b, wl[s])]
                      ELSE st.tbl[s]],
           !.changed = DOMAIN wl]

\* Scheduler::AddBackend: the lowest unassigned static workload, else the
\* new capacity goes to unassigned workloads.
AddBackend(st, b) ==
    LET freeIds == {id \in StaticIds : id \notin DOMAIN st.static}
    IN  IF freeIds # {} THEN {AssignStatic(st, b, Min(freeIds))}
        ELSE AllocateUnassignedWorkloads(st)

\* Assign: the idle peer p takes over b's model table and workload id, and
\* each of b's sessions records p with emplace, as does the static map.
Migrate(st, b, p, ms) ==
    IF ms \ DOMAIN st.tbl # {} THEN [st EXCEPT !.crash = "at_throw"]
    ELSE [st EXCEPT
            !.ld[p] = st.ld[b],
            !.wid[p] = st.wid[b],
            !.tbl = [s \in DOMAIN st.tbl |->
                       IF s \in ms
                       THEN [st.tbl[s] EXCEPT !.weights = Emplace(@, p, st.ld[b][s])]
                       ELSE st.tbl[s]],
            !.static = IF st.wid[b] # NoWorkload
                       THEN Emplace(st.static, st.wid[b], p) ELSE st.static]

\* Mutant: the departing throughput is not credited to unassigned_workload.
RequeueNoCredit(st, b, ms) ==
    IF ms \ DOMAIN st.tbl # {} THEN {[st EXCEPT !.crash = "at_throw"]}
    ELSE AllocateUnassignedWorkloads(st)

\* A dynamic backend's throughput is owed again to its sessions.
Requeue(st, b, ms) ==
    IF ms \ DOMAIN st.tbl # {} THEN {[st EXCEPT !.crash = "at_throw"]}
    ELSE AllocateUnassignedWorkloads(
           [st EXCEPT !.tbl = [s \in DOMAIN st.tbl |->
                                 IF s \in ms
                                 THEN [st.tbl[s] EXCEPT !.unassigned = @ + st.ld[b][s]]
                                 ELSE st.tbl[s]]])

\* Mutant: the removed backend stays in its sessions' backend_weights.
RemoveBackendKeepWeights(st, b) ==
    LET ms == {s \in Sessions : st.ld[b][s] > 0}
        st1 == [st EXCEPT !.changed = ms \cap DOMAIN st.tbl]
        peers == {p \in st.regs : Idle(st.ld, p) /\ Gpu[p] = Gpu[b]}
    IN  IF ms = {} THEN {st}
        ELSE IF peers # {} THEN {Migrate(st1, b, p, ms) : p \in peers}
        ELSE IF st.wid[b] # NoWorkload
             THEN {[st1 EXCEPT !.static = EraseKey(@, st.wid[b])]}
        ELSE Requeue(st1, b, ms)

\* Scheduler::RemoveBackend, with b already erased from backends_.
RemoveBackend(st, b) ==
    LET ms == {s \in Sessions : st.ld[b][s] > 0}
        st1 == [st EXCEPT
                  !.tbl = [s \in DOMAIN st.tbl |->
                             IF s \in ms
                             THEN [st.tbl[s] EXCEPT !.weights = EraseKey(@, b)]
                             ELSE st.tbl[s]],
                  !.changed = ms \cap DOMAIN st.tbl]
        peers == {p \in st.regs : Idle(st.ld, p) /\ Gpu[p] = Gpu[b]}
    IN  IF ms = {} THEN {st}
        ELSE IF peers # {} THEN {Migrate(st1, b, p, ms) : p \in peers}
        ELSE IF st.wid[b] # NoWorkload
             THEN {[st1 EXCEPT !.static = EraseKey(@, st.wid[b])]}
        ELSE Requeue(st1, b, ms)

\* Scheduler::RemoveFrontend: f leaves every session it subscribed to; a
\* session left without subscribers is unloaded from its backends and
\* erased.
RemoveFrontend(st, f) ==
    LET ss == subs[f] \cap DOMAIN st.tbl
        gone == {s \in ss : st.tbl[s].subscribers = {f}}
        unload(b, s) == s \in gone /\ b \in DOMAIN st.tbl[s].weights
    IN  IF subs[f] \ DOMAIN st.tbl # {} THEN [st EXCEPT !.crash = "at_throw"]
        ELSE IF \E s \in gone : DOMAIN st.tbl[s].weights \ st.regs # {}
             THEN [st EXCEPT !.crash = "null_backend"]
        ELSE [st EXCEPT
                !.ld = [b \in Backends |-> [s \in Sessions |->
                          IF unload(b, s) THEN 0 ELSE st.ld[b][s]]],
                !.tbl = [s \in DOMAIN st.tbl \ gone |->
                           IF s \in ss
                           THEN [st.tbl[s] EXCEPT !.subscribers = @ \ {f},
                                                  !.workloads = EraseKey(@, f)]
                           ELSE st.tbl[s]]]

-----------------------------------------------------------------------------
(* LoadModel.                                                              *)

\* The while loop of Scheduler::LoadModel for workload > 0: the possible
\* assign_backends as [backend -> throughput], or ok = FALSE when
\* FindBestBackend returns nullptr (NOT_ENOUGH_BACKENDS, nothing loaded).
RECURSIVE LoadPlans(_, _, _, _)
LoadPlans(st, s, work, plan) ==
    LET found == FindBestBackend(st, s, work, DOMAIN plan)
    IN  IF work <= 0 THEN {[ok |-> TRUE, plan |-> plan]}
        ELSE IF found = {} THEN {[ok |-> FALSE, plan |-> plan]}
        ELSE UNION {LoadPlans(st, s, work - c.tp, plan @@ (c.b :> c.tp)) :
                      c \in found}

Plans(st, s, work) ==
    IF work = 0
    THEN LET found == FindBestBackend(st, s, 0, {})
         IN  IF found = {} THEN {[ok |-> FALSE, plan |-> [b \in {} |-> 0]]}
             ELSE {[ok |-> TRUE, plan |-> (c.b :> c.tp)] : c \in found}
    ELSE LoadPlans(st, s, work, [b \in {} |-> 0])

-----------------------------------------------------------------------------
(* Beacon and epoch.                                                       *)

\* The request rate a frontend last reported for a session, summed over
\* frontends (SessionInfo::workloads, rates never negative).
Rps(si) == SumFunction(si.workloads)

\* Mutant: the history is trimmed one entry late.
PushRpsLateTrim(si) ==
    LET h == IF Len(si.history) > 0 \/ Rps(si) > 0
             THEN Append(si.history, Rps(si)) ELSE si.history
    IN  [si EXCEPT !.history = IF Len(h) > HistoryLen + 1 THEN Tail(h) ELSE h]

\* One session of BeaconCheck step 2: push the rate unless the history is
\* still empty and the rate 0, and keep the last history_len_ entries.
PushRps(si) ==
    LET h == IF Len(si.history) > 0 \/ Rps(si) > 0
             THEN Append(si.history, Rps(si)) ELSE si.history
    IN  [si EXCEPT !.history = IF Len(h) > HistoryLen THEN Tail(h) ELSE h]

\* BackendDelegate::UpdateModelThroughput, from the specification: the
\* instance is resized to the requested rate, at most one whole GPU.
NewThroughput(e) == Min({e, Cap})

\* Mutant: a backend unloaded by the epoch keeps its backend_weights entry.
AdjustStepKeepWeight(acc, s, b, w, grow) ==
    IF acc.est <= 0
    THEN [acc EXCEPT !.st.ld[b][s] = 0]
    ELSE IF ~grow /\ w <= acc.est THEN [acc EXCEPT !.est = @ - w]
    ELSE LET nt == NewThroughput(acc.est)
             st == [acc.st EXCEPT !.ld[b][s] = nt, !.tbl[s].weights[b] = nt]
         IN  [st |-> st, est |-> acc.est - nt,
              over |-> IF grow /\ 100 * Used(st.ld, b) > 105 * Cap
                       THEN Append(acc.over, b) ELSE acc.over]

\* One backend of the adjust_backends loop of EpochSchedule; acc carries
\* the state, the remaining estimate_rps and overload_backends.
AdjustStep(acc, s, b, w, grow) ==
    IF acc.est <= 0
    THEN [acc EXCEPT !.st.ld[b][s] = 0, !.st.tbl[s].weights = EraseKey(@, b)]
    ELSE IF ~grow /\ w <= acc.est THEN [acc EXCEPT !.est = @ - w]
    ELSE LET nt == NewThroughput(acc.est)
             st == [acc.st EXCEPT !.ld[b][s] = nt, !.tbl[s].weights[b] = nt]
         IN  [st |-> st, est |-> acc.est - nt,
              over |-> IF grow /\ 100 * Used(st.ld, b) > 105 * Cap
                       THEN Append(acc.over, b) ELSE acc.over]

RECURSIVE AdjustLoop(_, _, _, _, _)
AdjustLoop(acc, s, w, order, grow) ==
    IF order = << >> THEN acc
    ELSE AdjustLoop(AdjustStep(acc, s, Head(order), w[Head(order)], grow),
                    s, w, Tail(order), grow)

\* EpochSchedule step 1 for one session: release backends when the
\* estimate is below 0.97 of the throughput, grow them when above it.
EpochSession(acc, s) ==
    LET si == acc.st.tbl[s]
        n == Len(si.history)
        tp == TotalThroughput(si)
        est == Max({si.history[n], 1})
        pinned == {b \in DOMAIN si.weights : acc.st.wid[b] # NoWorkload}
        dyn == DOMAIN si.weights \ pinned
        orders == {o \in SetToSeqs(dyn) :
                     \A i, j \in DOMAIN o : i < j => si.weights[o[i]] >= si.weights[o[j]]}
        grow == est > tp
        st1 == [acc.st EXCEPT !.tbl[s].unassigned = Max({0, est - tp}),
                              !.changed = @ \cup {s}]
        start == [st |-> st1, est |-> est - SumFunctionOnSet(si.weights, pinned),
                  over |-> acc.over]
        final(r) == IF grow THEN [r.st EXCEPT !.tbl[s].unassigned = Max({0, r.est})]
                    ELSE r.st
    IN  IF n < HistoryLen THEN {acc}
        ELSE IF DOMAIN si.weights \ acc.st.regs # {}
             THEN {[acc EXCEPT !.st.crash = "at_throw"]}
        ELSE IF 100 * est < 97 * tp \/ grow
             THEN {LET r == AdjustLoop(start, s, si.weights, o, grow)
                   IN  [st |-> final(r), over |-> r.over] : o \in orders}
        ELSE {[acc EXCEPT !.st.tbl[s].unassigned = Max({0, est - tp})]}

RECURSIVE EpochInOrder(_, _)
EpochInOrder(acc, order) ==
    IF order = << >> THEN {acc}
    ELSE UNION {EpochInOrder(r, Tail(order)) : r \in EpochSession(acc, Head(order))}

\* BackendDelegate::SpillOutWorkload, from the specification: an overloaded
\* backend unloads sessions, one at a time in some order, until it fits;
\* each is dropped from backend_weights and owed again.
SpillOut(st, b) ==
    LET loaded == {s \in Sessions : st.ld[b][s] > 0}
        rest(R) == Used(st.ld, b) - SumFunctionOnSet(st.ld[b], R)
        choices == {R \in SUBSET loaded :
                      rest(R) <= Cap /\ \E x \in R : rest(R \ {x}) > Cap}
    IN  IF Used(st.ld, b) <= Cap THEN {st}
        ELSE {IF R \ DOMAIN st.tbl # {} THEN [st EXCEPT !.crash = "at_throw"]
              ELSE [st EXCEPT
                      !.ld[b] = [s \in Sessions |-> IF s \in R THEN 0 ELSE @[s]],
                      !.tbl = [s \in DOMAIN st.tbl |->
                                 IF s \in R
                                 THEN [st.tbl[s] EXCEPT !.weights = EraseKey(@, b),
                                                        !.unassigned = @ + st.ld[b][s]]
                                 ELSE st.tbl[s]]] : R \in choices}

RECURSIVE SpillAll(_, _)
SpillAll(st, over) ==
    IF over = << >> THEN {st}
    ELSE UNION {SpillAll(r, Tail(over)) : r \in SpillOut(st, Head(over))}

\* Scheduler::EpochSchedule: adjust every session, spill overloaded
\* backends, place unassigned workloads, push routes of changed sessions.
EpochOutcomes ==
    LET adjusted == UNION {EpochInOrder([st |-> State, over |-> << >>], o) :
                             o \in SetToSeqs(DOMAIN table)}
        spilled == UNION {SpillAll(a.st, a.over) : a \in adjusted}
    IN  UNION {AllocateUnassignedWorkloads(st) : st \in spilled}

-----------------------------------------------------------------------------
(* Actions.                                                                *)

Init ==
    /\ frontends = {}
    /\ subs = [f \in Frontends |-> {}]
    /\ froute = [f \in Frontends |-> NoRoutes]
    /\ backends = {}
    /\ load = [b \in Backends |-> [s \in Sessions |-> 0]]
    /\ wid = [b \in Backends |-> NoWorkload]
    /\ static = [id \in {} |-> 0]
    /\ table = [s \in {} |-> NewSession(FALSE)]
    /\ epochDue = FALSE
    /\ crash = "none"

RegisterFrontend(f) ==
    /\ crash = "none"
    /\ f \notin frontends
    /\ frontends' = frontends \cup {f}
    /\ UNCHANGED <<subs, froute, backends, load, wid, static, table, epochDue, crash>>

UnregisterFrontend(f) ==
    /\ crash = "none"
    /\ f \in frontends
    /\ LET st == RemoveFrontend(State, f)
       IN  /\ table' = st.tbl
           /\ load' = st.ld
           /\ crash' = st.crash
    /\ frontends' = frontends \ {f}
    /\ subs' = [subs EXCEPT ![f] = {}]
    /\ froute' = [froute EXCEPT ![f] = NoRoutes]
    /\ UNCHANGED <<backends, wid, static, epochDue>>

RegisterBackend(b) ==
    /\ crash = "none"
    /\ b \notin backends
    /\ \E st \in AddBackend([State EXCEPT !.regs = @ \cup {b}], b) : Commit(st)
    /\ UNCHANGED <<frontends, subs, epochDue>>

\* The delegate of b is destroyed: a later registration of b starts afresh.
UnregisterBackend(b) ==
    /\ crash = "none"
    /\ b \in backends
    /\ \E st \in RemoveBackend([State EXCEPT !.regs = @ \ {b}], b) :
          Commit([st EXCEPT !.ld[b] = [s \in Sessions |-> 0],
                            !.wid[b] = NoWorkload])
    /\ UNCHANGED <<frontends, subs, epochDue>>

\* Scheduler::LoadModel from a registered frontend; a request that ends in
\* NOT_ENOUGH_BACKENDS changes nothing and is not a step.
LoadModel(f, s, w) ==
    /\ crash = "none"
    /\ f \in frontends
    /\ subs' = [subs EXCEPT ![f] = @ \cup {s}]
    /\ IF s \in DOMAIN table
       THEN /\ table' = [table EXCEPT ![s].subscribers = @ \cup {f}]
            /\ froute' = [froute EXCEPT ![f] = (s :> table[s].weights) @@ @]
            /\ crash' = IF DOMAIN table[s].weights \ backends # {}
                        THEN "at_throw" ELSE crash
            /\ UNCHANGED load
       ELSE \E p \in Plans(State, s, w) :
              /\ p.ok
              /\ load' = [b \in Backends |->
                            IF b \in DOMAIN p.plan
                            THEN [load[b] EXCEPT ![s] = p.plan[b]] ELSE load[b]]
              /\ table' = table @@ (s :> [NewSession(FALSE) EXCEPT
                                            !.weights = p.plan, !.subscribers = {f}])
              /\ froute' = [froute EXCEPT ![f] = (s :> p.plan) @@ @]
              /\ UNCHANGED crash
    /\ UNCHANGED <<frontends, backends, wid, static, epochDue>>

\* Scheduler::ReportWorkload for one model_stats entry of frontend f.
ReportWorkload(f, s, r) ==
    /\ crash = "none"
    /\ f \in frontends
    /\ s \in subs[f]
    /\ IF s \in DOMAIN table
       THEN /\ table' = [table EXCEPT ![s].workloads = (f :> r) @@ @]
            /\ UNCHANGED crash
       ELSE /\ crash' = "at_throw"
            /\ UNCHANGED table
    /\ UNCHANGED <<frontends, subs, froute, backends, load, wid, static, epochDue>>

\* Scheduler::BeaconCheck; the trigger it returns only decides when the
\* next EpochSchedule runs, and time is not modelled.
BeaconCheck ==
    /\ crash = "none"
    /\ table' = [s \in DOMAIN table |-> PushRps(table[s])]
    /\ epochDue' = TRUE
    /\ UNCHANGED <<frontends, subs, froute, backends, load, wid, static, crash>>

\* Scheduler::EpochSchedule, run by Scheduler::Run after a BeaconCheck.
EpochSchedule ==
    /\ crash = "none"
    /\ epochDue
    /\ epochDue' = FALSE
    /\ \E st \in EpochOutcomes : Commit(st)
    /\ UNCHANGED <<frontends, subs>>

Next ==
    \/ \E f \in Frontends :
          \/ RegisterFrontend(f)
          \/ UnregisterFrontend(f)
          \/ \E s \in Sessions, w \in Rates : LoadModel(f, s, w)
          \/ \E s \in Sessions, r \in Rates : ReportWorkload(f, s, r)
    \/ \E b \in Backends : RegisterBackend(b) \/ UnregisterBackend(b)
    \/ BeaconCheck
    \/ EpochSchedule

Spec == Init /\ [][Next]_vars

-----------------------------------------------------------------------------
(* Properties.                                                             *)

Weights == UNION {[B -> 1 .. Cap] : B \in SUBSET Backends}

TypeOK ==
    /\ frontends \subseteq Frontends
    /\ subs \in [Frontends -> SUBSET Sessions]
    /\ \A f \in Frontends : DOMAIN froute[f] \subseteq Sessions
          /\ \A s \in DOMAIN froute[f] : froute[f][s] \in Weights
    /\ backends \subseteq Backends
    /\ load \in [Backends -> [Sessions -> 0 .. Cap]]
    /\ wid \in [Backends -> StaticIds \cup {NoWorkload}]
    /\ DOMAIN static \subseteq StaticIds
    /\ \A id \in DOMAIN static : static[id] \in Backends
    /\ DOMAIN table \subseteq Sessions
    /\ \A s \in DOMAIN table :
          /\ table[s].weights \in Weights
          /\ table[s].unassigned \in Nat
          /\ table[s].subscribers \subseteq Frontends
          /\ Len(table[s].history) <= HistoryLen
    /\ epochDue \in BOOLEAN
    /\ crash \in {"none", "at_throw", "null_backend"}

\* No handler throws from session_table_.at or backends_.at, or
\* dereferences the null BackendDelegate GetBackend returns for an
\* unregistered id.
NoCrash == crash = "none"

\* assigned_static_workloads_ is a bijection between the assigned workload
\* ids and the registered backends pinned to them (AddBackend pins,
\* RemoveBackend migrates or releases).
StaticMapSound ==
    /\ \A id \in DOMAIN static : static[id] \in backends /\ wid[static[id]] = id
    /\ \A b \in backends : wid[b] # NoWorkload =>
          wid[b] \in DOMAIN static /\ static[wid[b]] = b

\* backend_weights, the scheduler's view of placement, agrees with what the
\* backends have loaded: every weighted backend is registered and serves
\* the session at that throughput, and every session a registered backend
\* serves is weighted there (LoadModel, AddBackend, RemoveBackend,
\* RemoveFrontend, EpochSchedule and AllocateUnassignedWorkloads).
WeightsMatchLoads ==
    \A s \in Sessions, b \in Backends :
        /\ s \in DOMAIN table /\ b \in DOMAIN table[s].weights =>
              b \in backends /\ load[b][s] = table[s].weights[b]
        /\ b \in backends /\ load[b][s] > 0 =>
              s \in DOMAIN table /\ b \in DOMAIN table[s].weights

\* Every registered frontend holds, for each session it subscribes to, the
\* route the scheduler has in backend_weights: every handler that changes
\* a session's weights pushes it through UpdateModelRoutes.
RoutesCurrent ==
    \A f \in frontends : \A s \in subs[f] \cap DOMAIN table :
        s \in DOMAIN froute[f] /\ froute[f][s] = table[s].weights

\* The throughput a session is owed, placed or not.
Owed(s) == TotalThroughput(table[s]) + table[s].unassigned

\* Removing a backend without a static workload moves its throughput back
\* to its sessions' unassigned_workload, or to an idle peer, and
\* AllocateUnassignedWorkloads only moves it between the two: no session
\* loses or gains owed throughput.
OwedPreserved ==
    [][\A b \in Backends :
          (b \in backends /\ b \notin backends' /\ wid[b] = NoWorkload
           /\ crash' = "none") =>
             \A s \in DOMAIN table : Owed(s)' = Owed(s)]_vars

\* Unassigned workload of s that FindBestBackend could place now.
Placeable(s) ==
    /\ s \in DOMAIN table
    /\ table[s].unassigned > 0
    /\ FindBestBackend(State, s, table[s].unassigned, {}) # {}

\* Workload left unassigned is not forgotten by an epoch: when
\* EpochSchedule ends (after adjust, spill-out and
\* AllocateUnassignedWorkloads), no session has unassigned_workload that a
\* registered backend could take.  Scheduler::Run calls EpochSchedule again
\* at least every epoch interval while running_, which nothing clears, so
\* placeable workload waits at most one epoch.
EpochPlacesAll ==
    [][epochDue /\ ~epochDue' /\ crash' = "none" =>
         \A s \in Sessions : ~Placeable(s)']_vars

=============================================================================
