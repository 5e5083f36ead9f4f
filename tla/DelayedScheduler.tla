-------------------------- MODULE DelayedScheduler --------------------------
(***************************************************************************)
(* The delayed scheduler of the dispatcher (delayed_scheduler.cpp, in      *)
(* src/src/nexus/dispatcher/dispatcher.cpp).  AddModelSession, AddBackend *)
(* and the locked block of EnqueueQuery run under mutex_, so each is one  *)
(* atomic step; the rest of EnqueueQuery touches only its own query.      *)
(* EnqueueQuery posts WorkFullSchedule to the io_context, which the       *)
(* thread in RunAsWorker runs until Stop has dropped the work guard and   *)
(* nothing is left to run.                                                 *)
(*                                                                         *)
(* crash records how the process dies: "use_after_move" for a             *)
(* dereference of a shared_ptr the code has moved from (a null pointer,   *)
(* so a segmentation fault), "at_throw" for the std::out_of_range of      *)
(* models_.at, which no code in the sources catches.                      *)
(***************************************************************************)
EXTENDS DeadlineHeap, FiniteSets, TLC

CONSTANTS
    Sessions,     \* model session ids
    BackendIds,   \* backend node ids
    GlobalIds,    \* global ids of queries
    Deadlines     \* frontend_recv_ns + latency_sla of a query

Queries == [global_id : GlobalIds, session : Sessions, deadline : Deadlines]

VARIABLES
    models,     \* models_: session -> [instances, sorted_queries]
    backends,   \* backends_: backend -> its instances (session ids)
    queries,    \* keys of queries_
    posted,     \* WorkFullSchedule handlers posted and not yet run
    guard,      \* io_context_work_guard_ still holds work
    worker,     \* the RunAsWorker thread: "idle", "running" or "returned"
    crash

vars == <<models, backends, queries, posted, guard, worker, crash>>

Init ==
    /\ models = [s \in {} |-> 0]
    /\ backends = [b \in {} |-> {}]
    /\ queries = {}
    /\ posted = 0
    /\ guard = TRUE
    /\ worker = "idle"
    /\ crash = "none"

(***************************************************************************)
(* AddModelSession: a known session is refused.  Otherwise the context is *)
(* moved into models_, and the next line reads mctx->model_session        *)
(* through the moved-from, now null, mctx.                                *)
(***************************************************************************)
AddModelSession(s) ==
    /\ crash = "none"
    /\ s \notin DOMAIN models
    /\ models' = models @@ (s :> [instances |-> {}, sorted_queries |-> << >>])
    /\ crash' = "use_after_move"
    /\ UNCHANGED <<backends, queries, posted, guard, worker>>

(***************************************************************************)
(* AddBackend: when dispatcher_.GetBackend finds no delegate, or the      *)
(* backend is known, it returns and nothing changes (a stuttering step).  *)
(* Otherwise bctx is moved into backends_ and the                          *)
(* instance loop over models_ reads bctx->delegate through the moved-from *)
(* bctx as soon as models_ has a session.                                  *)
(***************************************************************************)
AddBackend(b) ==
    /\ crash = "none"
    /\ b \notin DOMAIN backends
    /\ backends' = backends @@ (b :> {})
    /\ crash' = IF DOMAIN models = {} THEN "none" ELSE "use_after_move"
    /\ UNCHANGED <<models, queries, posted, guard, worker>>

(***************************************************************************)
(* EnqueueQuery: a global id already in queries_ is refused and nothing   *)
(* is posted.  Otherwise the query goes into queries_ first; models_.at   *)
(* then throws for an unknown session, else the query is pushed onto the  *)
(* session's heap, the lock is released and WorkFullSchedule is posted.   *)
(***************************************************************************)
EnqueueQuery(q) ==
    /\ crash = "none"
    /\ q.global_id \notin queries
    /\ queries' = queries \cup {q.global_id}
    /\ IF q.session \in DOMAIN models
       THEN /\ models' = [models EXCEPT ![q.session].sorted_queries =
                            PushHeap(@, [global_id |-> q.global_id,
                                         deadline |-> q.deadline])]
            /\ posted' = posted + 1
            /\ UNCHANGED crash
       ELSE /\ crash' = "at_throw"
            /\ UNCHANGED <<models, posted>>
    /\ UNCHANGED <<backends, guard, worker>>

RunAsWorker ==
    /\ crash = "none"
    /\ worker = "idle"
    /\ worker' = "running"
    /\ UNCHANGED <<models, backends, queries, posted, guard, crash>>

\* io_context_.run() runs one posted WorkFullSchedule, whose body is empty.
WorkFullSchedule ==
    /\ crash = "none"
    /\ worker = "running"
    /\ posted > 0
    /\ posted' = posted - 1
    /\ UNCHANGED <<models, backends, queries, guard, worker, crash>>

Stop ==
    /\ crash = "none"
    /\ guard
    /\ guard' = FALSE
    /\ UNCHANGED <<models, backends, queries, posted, worker, crash>>

\* io_context_.run() returns once there is no work guard and nothing posted.
WorkerReturns ==
    /\ crash = "none"
    /\ worker = "running"
    /\ ~guard
    /\ posted = 0
    /\ worker' = "returned"
    /\ UNCHANGED <<models, backends, queries, posted, guard, crash>>

Next ==
    \/ \E s \in Sessions : AddModelSession(s)
    \/ \E b \in BackendIds : AddBackend(b)
    \/ \E q \in Queries : EnqueueQuery(q)
    \/ RunAsWorker
    \/ WorkFullSchedule
    \/ Stop
    \/ WorkerReturns

Spec == Init /\ [][Next]_vars

-----------------------------------------------------------------------------
(***************************************************************************)
(* AddModelSession and AddBackend never dereference the context they have *)
(* just moved into models_ or backends_: a session can be added, and once *)
(* one is, a backend can be added, without the process dying.             *)
(***************************************************************************)
NoUseAfterMove == crash # "use_after_move"

=============================================================================
