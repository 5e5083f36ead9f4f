----------------------------- MODULE Dispatcher -----------------------------
(***************************************************************************)
(* The dispatcher process of src/src/nexus/dispatcher/dispatcher.cpp.     *)
(*                                                                         *)
(* Threads.  Each UDP worker (UdpRpcServer::WorkerThread) runs            *)
(* Dispatcher::DispatchRequest for the queries it receives; the single    *)
(* gRPC thread (rpc_service_ is built with one thread) runs the control   *)
(* handlers one at a time.  Dispatcher::mutex_ guards frontends_,         *)
(* backends_, sessions_ and models_; every step below that touches them   *)
(* is a whole critical section.  Two steps run outside the mutex and are  *)
(* separate actions: the second half of DispatchRequest (instance lookup, *)
(* plan id, EnqueueBatchPlan) and the loading of instances on a newly     *)
(* registered backend in HandleRegister.                                   *)
(*                                                                         *)
(* A process that dereferences a missing object or fails a CHECK is       *)
(* modelled by crash, after which nothing happens.                        *)
(***************************************************************************)
EXTENDS DRR, FiniteSets, TLC

CONSTANTS
    Backends,      \* backend node ids
    Frontends,     \* frontend node ids
    Sessions,      \* model session ids known to the model database
    Workers,       \* UDP worker threads
    Profiles,      \* pairs <<b, s>> for which GetModelProfile succeeds
    PushedRoutes,  \* [sid, route] an UpdateModelRoutes request may carry
    MaxReq         \* bound on the queries received

ASSUME Profiles \subseteq Backends \X Sessions
ASSUME MaxReq \in Nat \ {0}

VARIABLES
    frontends,     \* frontends_ keys
    backends,      \* backends_ keys
    sessions,      \* sessions_ keys
    instances,     \* b -> sessions with an InstanceInfo in BackendDelegate b
    models,        \* models_: session id -> ModelRoute record
    rpc,           \* the gRPC thread: idle, or loading instances on rpc.b
    wpc,           \* worker -> "none" (no server yet), "started" (its Run
                   \* thread started), "head", "idle", "lookup", "instance",
                   \* "enqueue" or "exited"
    wq,            \* worker -> the query it handles [gid, sid]
    wb,            \* worker -> backend chosen by DRR
    wplan,         \* worker -> plan id taken
    nextGid,       \* next_global_id_
    nextPlan,      \* next_plan_id_
    plans,         \* b -> BatchPlans enqueued on b, in order
    replies,       \* DispatchReplies sent: [gid, status]
    crash,         \* "none" or why the process died
    servers,       \* udp_rpc_servers_ (and workers_), in creation order
    running,       \* worker -> running_ of its UdpRpcServer
    stop,          \* Dispatcher::Stop: "none" (running_ set), "servers"
                   \* (stopping udp_rpc_servers_[si]), "threads" (joining
                   \* workers_) or "done"
    si             \* index into servers of the server Stop is at

vars == <<frontends, backends, sessions, instances, models, rpc, wpc, wq,
          wb, wplan, nextGid, nextPlan, plans, replies, crash, servers,
          running, stop, si>>

Alive == crash = "none"
RpcIdle == rpc.pc = "idle" /\ stop = "none"

TypeOK ==
    /\ frontends \subseteq Frontends
    /\ backends \subseteq Backends
    /\ sessions \subseteq Sessions
    /\ instances \in [Backends -> SUBSET Sessions]
    /\ DOMAIN models \subseteq Sessions
    /\ \A s \in DOMAIN models : DOMAIN models[s].quanta = IdsOf(models[s].backends)
    /\ rpc.pc \in {"idle", "load"}
    /\ wpc \in [Workers -> {"none", "started", "head", "idle", "lookup",
                            "instance", "enqueue", "exited"}]
    /\ nextGid \in 0..MaxReq
    /\ plans \in [Backends -> Seq([plan : Nat, gid : Nat, sid : Sessions])]
    /\ replies \subseteq [gid : Nat, status : {"CTRL_OK", "MODEL_NOT_FOUND"}]
    /\ crash \in {"none", "empty_route", "drr_check", "no_instance", "load_check",
                  "join_unstarted"}
    /\ servers \in Seq(Workers)
    /\ running \in [Workers -> BOOLEAN]
    /\ stop \in {"none", "servers", "threads", "done"}
    /\ si \in 1 .. Len(servers) + 1

Init ==
    /\ frontends = {}
    /\ backends = {}
    /\ sessions = {}
    /\ instances = [b \in Backends |-> {}]
    /\ models = [s \in {} |-> EmptyRoute]
    /\ rpc = [pc |-> "idle", b |-> 0, todo |-> {}]
    /\ wpc = [w \in Workers |-> "none"]
    /\ wq = [w \in Workers |-> [gid |-> 0, sid |-> CHOOSE s \in Sessions : TRUE]]
    /\ wb = [w \in Workers |-> 0]
    /\ wplan = [w \in Workers |-> 0]
    /\ nextGid = 0
    /\ nextPlan = 0
    /\ plans = [b \in Backends |-> << >>]
    /\ replies = {}
    /\ crash = "none"
    /\ servers = << >>
    /\ running = [w \in Workers |-> FALSE]
    /\ stop = "none"
    /\ si = 1

-----------------------------------------------------------------------------
(* Control RPCs, on the gRPC thread.                                      *)

\* HandleRegister, FRONTEND_NODE: refused on a node id conflict.  The
\* UpdateBackendList RPC it then sends carries no state of the dispatcher.
RegisterFrontend(f) ==
    /\ Alive /\ RpcIdle
    /\ f \notin frontends
    /\ frontends' = frontends \cup {f}
    /\ UNCHANGED <<backends, sessions, instances, models, rpc, wpc, wq, wb,
                   wplan, nextGid, nextPlan, plans, replies, crash,
                   servers, running, stop, si>>

\* HandleRegister, BACKEND_NODE, the critical section: the delegate is added
\* to backends_ and sessions_ is copied; the models are loaded after unlock.
RegisterBackend(b) ==
    /\ Alive /\ RpcIdle
    /\ b \notin backends
    /\ backends' = backends \cup {b}
    /\ rpc' = [pc |-> "load", b |-> b, todo |-> sessions]
    /\ UNCHANGED <<frontends, sessions, instances, models, wpc, wq, wb,
                   wplan, nextGid, nextPlan, plans, replies, crash,
                   servers, running, stop, si>>

\* One iteration of the load loop of HandleRegister, outside the mutex:
\* with a profile, an InstanceInfo is added to the backend (the
\* SendLoadModelCommand RPC follows); without one, the session is skipped.
RegisterLoadInstance(s) ==
    /\ Alive /\ rpc.pc = "load"
    /\ s \in rpc.todo
    /\ instances' = IF <<rpc.b, s>> \in Profiles
                    THEN [instances EXCEPT ![rpc.b] = @ \cup {s}]
                    ELSE instances
    /\ rpc' = [rpc EXCEPT !.todo = @ \ {s}]
    /\ UNCHANGED <<frontends, backends, sessions, models, wpc, wq, wb,
                   wplan, nextGid, nextPlan, plans, replies, crash,
                   servers, running, stop, si>>

\* End of HandleRegister: UpdateBackendList to every frontend, reply OK.
RegisterFinish ==
    /\ Alive /\ rpc.pc = "load"
    /\ rpc.todo = {}
    /\ rpc' = [pc |-> "idle", b |-> 0, todo |-> {}]
    /\ UNCHANGED <<frontends, backends, sessions, instances, models, wpc, wq,
                   wb, wplan, nextGid, nextPlan, plans, replies, crash,
                   servers, running, stop, si>>

(***************************************************************************)
(* HandleLoadModel for a known model.  A loaded session is skipped.       *)
(* Otherwise CHECK_EQ(models_.count(id), 0) must hold; a new ModelRoute   *)
(* gets every registered backend, in map order, with throughput 1; the    *)
(* session is added, and every backend with a profile gets an instance.  *)
(***************************************************************************)
LoadModel(s) ==
    /\ Alive /\ RpcIdle
    /\ s \notin sessions
    /\ IF s \in DOMAIN models
       THEN /\ crash' = "load_check"
            /\ UNCHANGED <<sessions, instances, models>>
       ELSE /\ \E order \in SetToSeqs(backends) :
                 models' = models @@ (s :> UpdateRoute(EmptyRoute,
                              [i \in DOMAIN order |-> [id |-> order[i], tp |-> 1]]))
            /\ sessions' = sessions \cup {s}
            /\ instances' = [b \in Backends |->
                               IF b \in backends /\ <<b, s>> \in Profiles
                               THEN instances[b] \cup {s} ELSE instances[b]]
            /\ UNCHANGED crash
    /\ UNCHANGED <<frontends, backends, rpc, wpc, wq, wb, wplan, nextGid,
                   nextPlan, plans, replies, servers, running, stop, si>>

\* Dispatcher::UpdateModelRoutes for one ModelRouteProto: the route of the
\* session is created if absent and updated.
UpdateModelRoutes(p) ==
    /\ Alive /\ RpcIdle
    /\ models' = IF p.sid \in DOMAIN models
                 THEN [models EXCEPT ![p.sid] = UpdateRoute(@, p.route)]
                 ELSE models @@ (p.sid :> UpdateRoute(EmptyRoute, p.route))
    /\ UNCHANGED <<frontends, backends, sessions, instances, rpc, wpc, wq, wb,
                   wplan, nextGid, nextPlan, plans, replies, crash,
                   servers, running, stop, si>>

-----------------------------------------------------------------------------
(* DispatchRequest, on a UDP worker.                                      *)

\* HandleRequest hands a parsed query to DispatchRequest, which stamps it
\* and takes a global id with next_global_id_.fetch_add(1).
Receive(w, s) ==
    /\ Alive
    /\ wpc[w] = "idle"
    /\ running[w]
    /\ nextGid < MaxReq
    /\ wq' = [wq EXCEPT ![w] = [gid |-> nextGid, sid |-> s]]
    /\ nextGid' = nextGid + 1
    /\ wpc' = [wpc EXCEPT ![w] = "lookup"]
    /\ UNCHANGED <<frontends, backends, sessions, instances, models, rpc, wb,
                   wplan, nextPlan, plans, replies, crash,
                   servers, running, stop, si>>

Reply(w, status) == replies' = replies \cup {[gid |-> wq[w].gid, status |-> status]}

(***************************************************************************)
(* The critical section of DispatchRequest.  Unknown session: the reply   *)
(* is MODEL_NOT_FOUND.  Otherwise GetBackend runs: on an empty route it   *)
(* reads backends_[0] of an empty vector, which the build turns into a    *)
(* crash; its CHECK may abort.  The status is set to CTRL_OK; when the    *)
(* chosen node has no BackendDelegate the function returns and that OK    *)
(* reply is sent without any plan.                                        *)
(***************************************************************************)
Lookup(w) ==
    /\ Alive
    /\ wpc[w] = "lookup"
    /\ LET s == wq[w].sid IN
       IF s \notin DOMAIN models
       THEN /\ Reply(w, "MODEL_NOT_FOUND")
            /\ wpc' = [wpc EXCEPT ![w] = "head"]
            /\ UNCHANGED <<models, wb, crash, servers, running, stop, si>>
       ELSE IF models[s].backends = << >>
       THEN /\ crash' = "empty_route"
            /\ UNCHANGED <<models, wpc, wb, replies>>
       ELSE LET res == GetBackend(models[s]) IN
            IF ~res.ok
            THEN /\ crash' = "drr_check"
                 /\ UNCHANGED <<models, wpc, wb, replies>>
            ELSE /\ models' = [models EXCEPT ![s] = res.route]
                 /\ UNCHANGED crash
                 /\ IF res.chosen \in backends
                    THEN /\ wb' = [wb EXCEPT ![w] = res.chosen]
                         /\ wpc' = [wpc EXCEPT ![w] = "instance"]
                         /\ UNCHANGED replies
                    ELSE /\ Reply(w, "CTRL_OK")
                         /\ wpc' = [wpc EXCEPT ![w] = "head"]
                         /\ UNCHANGED wb
    /\ UNCHANGED <<frontends, backends, sessions, instances, rpc, wq, wplan,
                   nextGid, nextPlan, plans, servers, running, stop, si>>

\* After the unlock: backend->GetInstanceInfo(session) and its profile are
\* dereferenced (a missing instance crashes the process), then a plan id is
\* taken with next_plan_id_.fetch_add(1).
TakePlanId(w) ==
    /\ Alive
    /\ wpc[w] = "instance"
    /\ IF wq[w].sid \notin instances[wb[w]]
       THEN /\ crash' = "no_instance"
            /\ UNCHANGED <<wpc, wplan, nextPlan>>
       ELSE /\ wplan' = [wplan EXCEPT ![w] = nextPlan]
            /\ nextPlan' = nextPlan + 1
            /\ wpc' = [wpc EXCEPT ![w] = "enqueue"]
            /\ UNCHANGED crash
    /\ UNCHANGED <<frontends, backends, sessions, instances, models, rpc, wq,
                   wb, nextGid, plans, replies, servers, running, stop, si>>

\* The BatchPlan is built and EnqueueBatchPlan sends it; the reply is OK.
Enqueue(w) ==
    /\ Alive
    /\ wpc[w] = "enqueue"
    /\ plans' = [plans EXCEPT ![wb[w]] =
                   Append(@, [plan |-> wplan[w], gid |-> wq[w].gid, sid |-> wq[w].sid])]
    /\ Reply(w, "CTRL_OK")
    /\ wpc' = [wpc EXCEPT ![w] = "head"]
    /\ UNCHANGED <<frontends, backends, sessions, instances, models, rpc, wq,
                   wb, wplan, nextGid, nextPlan, crash,
                   servers, running, stop, si>>

(***************************************************************************)
(* Start-up.  Dispatcher::Run, after rpc_service_.Start(), creates one    *)
(* UdpRpcServer per UDP thread and a thread running its Run; Run then     *)
(* sleeps forever.  UdpRpcServer::Run opens the sockets, sets running_,   *)
(* starts the worker thread, posts the first receive and runs its         *)
(* io_context.                                                            *)
(***************************************************************************)
CreateServer(w) ==
    /\ Alive
    /\ wpc[w] = "none"
    /\ servers' = Append(servers, w)
    /\ wpc' = [wpc EXCEPT ![w] = "started"]
    /\ UNCHANGED <<frontends, backends, sessions, instances, models, rpc, wq,
                   wb, wplan, nextGid, nextPlan, plans, replies, crash,
                   running, stop, si>>

ServerRun(w) ==
    /\ Alive
    /\ wpc[w] = "started"
    /\ running' = [running EXCEPT ![w] = TRUE]
    /\ wpc' = [wpc EXCEPT ![w] = "head"]
    /\ UNCHANGED <<frontends, backends, sessions, instances, models, rpc, wq,
                   wb, wplan, nextGid, nextPlan, plans, replies, crash,
                   servers, stop, si>>

(***************************************************************************)
(* The head of the while (running_) loop of UdpRpcServer::WorkerThread.   *)
(* While running_ holds the worker takes queue_mutex_ and, the queue      *)
(* being empty, waits on queue_cv_ for !queue_.empty() ("idle": only a    *)
(* received request wakes it); otherwise the thread ends.                 *)
(***************************************************************************)
LoopHead(w) ==
    /\ Alive
    /\ wpc[w] = "head"
    /\ wpc' = [wpc EXCEPT ![w] = IF running[w] THEN "idle" ELSE "exited"]
    /\ UNCHANGED <<frontends, backends, sessions, instances, models, rpc, wq,
                   wb, wplan, nextGid, nextPlan, plans, replies, crash,
                   servers, running, stop, si>>

(***************************************************************************)
(* Dispatcher::Stop, once the gRPC handler in progress has finished and   *)
(* Dispatcher::Run has created every server (before that, Stop would read *)
(* udp_rpc_servers_ while Run appends to it): running_ = false and        *)
(* rpc_service_.Stop(), then the servers one at a time.                   *)
(***************************************************************************)
Stop ==
    /\ Alive /\ RpcIdle
    /\ Len(servers) = Cardinality(Workers)
    /\ stop' = "servers"
    /\ si' = 1
    /\ UNCHANGED <<frontends, backends, sessions, instances, models, rpc, wpc,
                   wq, wb, wplan, nextGid, nextPlan, plans, replies, crash,
                   servers, running>>

(***************************************************************************)
(* UdpRpcServer::Stop of udp_rpc_servers_[si], up to the join: running_ = *)
(* false, io_context_.stop() (no request is received any more), the       *)
(* sockets cancelled.  Nothing notifies queue_cv_.  If the server's Run   *)
(* has not yet started worker_thread_, join() of the empty std::thread    *)
(* throws std::system_error, which ends the process.                      *)
(***************************************************************************)
SignalServer ==
    /\ Alive
    /\ stop = "servers" /\ si <= Len(servers)
    /\ LET w == servers[si] IN
       /\ running[w] \/ wpc[w] = "started"
       /\ running' = [running EXCEPT ![w] = FALSE]
       /\ crash' = IF wpc[w] = "started" THEN "join_unstarted" ELSE crash
    /\ UNCHANGED <<frontends, backends, sessions, instances, models, rpc, wpc,
                   wq, wb, wplan, nextGid, nextPlan, plans, replies, servers,
                   stop, si>>

\* worker_thread_.join() returns once the worker has left its loop.
JoinWorker ==
    /\ Alive
    /\ stop = "servers" /\ si <= Len(servers)
    /\ wpc[servers[si]] = "exited"
    /\ si' = si + 1
    /\ UNCHANGED <<frontends, backends, sessions, instances, models, rpc, wpc,
                   wq, wb, wplan, nextGid, nextPlan, plans, replies, crash,
                   servers, running, stop>>

\* Every server stopped, the joins of workers_ return (each io_context_.run()
\* has returned after its stop()), and so does Dispatcher::Stop.
StopReturns ==
    /\ Alive
    /\ stop = "servers" /\ si > Len(servers)
    /\ stop' = "done"
    /\ UNCHANGED <<frontends, backends, sessions, instances, models, rpc, wpc,
                   wq, wb, wplan, nextGid, nextPlan, plans, replies, crash,
                   servers, running, si>>

\* A crashed process, or one whose Stop has returned, takes no further step.
Halted ==
    /\ ~Alive \/ stop = "done"
    /\ UNCHANGED vars

Next ==
    \/ \E f \in Frontends : RegisterFrontend(f)
    \/ \E b \in Backends : RegisterBackend(b)
    \/ \E s \in Sessions : RegisterLoadInstance(s)
    \/ RegisterFinish
    \/ \E s \in Sessions : LoadModel(s)
    \/ \E p \in PushedRoutes : UpdateModelRoutes(p)
    \/ \E w \in Workers, s \in Sessions : Receive(w, s)
    \/ \E w \in Workers : \/ CreateServer(w) \/ ServerRun(w) \/ LoopHead(w)
                         \/ Lookup(w) \/ TakePlanId(w) \/ Enqueue(w)
    \/ Stop
    \/ SignalServer
    \/ JoinWorker
    \/ StopReturns
    \/ Halted

Spec == Init /\ [][Next]_vars

\* Every thread keeps running while it is not blocked: the thread in
\* Dispatcher::Run, each server's Run thread and worker thread, and the
\* thread in Dispatcher::Stop, which returns from a join once it can.
Fairness ==
    /\ WF_vars(\E w \in Workers : CreateServer(w))
    /\ \A w \in Workers :
          WF_vars(ServerRun(w) \/ LoopHead(w) \/ Lookup(w) \/ TakePlanId(w) \/ Enqueue(w))
    /\ WF_vars(SignalServer \/ JoinWorker \/ StopReturns)

FairSpec == Spec /\ Fairness

-----------------------------------------------------------------------------
(***************************************************************************)
(* A backend holding an instance of a loaded session is one of the        *)
(* session's routes: HandleRegister loads every session on a new backend, *)
(* which is only worth it if queries can reach it.                        *)
(***************************************************************************)
InstancesAreRouted ==
    \A s \in sessions \cap DOMAIN models : \A b \in backends :
        s \in instances[b] => b \in IdsOf(models[s].backends)

(***************************************************************************)
(* HandleLoadModel never aborts: CHECK_EQ(models_.count(id), 0) holds for *)
(* every session not yet in sessions_ (spec 7 lists no fatal error here). *)
(***************************************************************************)
LoadModelNeverAborts == crash # "load_check"

(***************************************************************************)
(* DispatchRequest never runs GetBackend on an empty route (spec 4.1: it  *)
(* must fail and the dispatcher must report no backend available).        *)
(***************************************************************************)
NoDispatchOnEmptyRoute == crash # "empty_route"

(***************************************************************************)
(* The backend DRR chooses holds an InstanceInfo for the session, which   *)
(* DispatchRequest dereferences after the unlock (spec 7: a backend       *)
(* without a profile is skipped and the session loads elsewhere).         *)
(***************************************************************************)
ChosenBackendHasInstance == crash # "no_instance"

(***************************************************************************)
(* Dispatcher::Stop returns: once it is called, every UDP worker thread   *)
(* leaves its loop and the joins complete (the destructor calls Stop).    *)
(***************************************************************************)
StopCompletes == stop = "servers" ~> stop = "done" \/ ~Alive

=============================================================================
