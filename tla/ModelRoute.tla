----------------------------- MODULE ModelRoute -----------------------------
(***************************************************************************)
(* One ModelRoute object of the dispatcher driven by its two operations:  *)
(* Update, called by HandleLoadModel and UpdateModelRoutes with a new     *)
(* ModelRouteProto, and GetBackend, called by DispatchRequest for every   *)
(* query of the session.  Both run under the dispatcher mutex, so each is *)
(* one atomic step.  GetBackend is only called on a non-empty route here; *)
(* the call on an empty route is modelled in Dispatcher.  Successive     *)
(* routes may drop, add and reorder backends and change their rates, as   *)
(* the scheduler's epochs do.                                             *)
(***************************************************************************)
EXTENDS DRR, FiniteSets

CONSTANT Routes   \* the ModelRouteProto contents an Update may carry

ASSUME RoutesOK ==
    \A r \in Routes : \A i, j \in DOMAIN r : i # j => r[i].id # r[j].id

VARIABLES
    mr,         \* the ModelRoute record (see DRR)
    aborted     \* the CHECK in GetBackend has failed and the process died

vars == <<mr, aborted>>

TypeOK ==
    /\ mr.backends \in Seq([id : Nat, tp : Nat])
    /\ mr.idx \in 0..Len(mr.backends)
    /\ DOMAIN mr.quanta = IdsOf(mr.backends)
    /\ \A b \in DOMAIN mr.quanta : mr.quanta[b] \in Int
    /\ aborted \in BOOLEAN

Init ==
    /\ mr = EmptyRoute
    /\ aborted = FALSE

Update(r) ==
    /\ ~aborted
    /\ mr' = UpdateRoute(mr, r)
    /\ UNCHANGED aborted

Select ==
    /\ ~aborted
    /\ mr.backends # << >>
    /\ LET res == GetBackend(mr)
       IN  /\ mr' = res.route
           /\ aborted' = ~res.ok

Next ==
    \/ \E r \in Routes : Update(r)
    \/ Select

Spec == Init /\ [][Next]_vars

-----------------------------------------------------------------------------
(***************************************************************************)
(* GetBackend always decides: the CHECK_LE(i, backends_.size()) in the    *)
(* DRR loop of ModelRoute::GetBackend never fires, whatever sequence of   *)
(* Updates left the quanta where they are.                                *)
(***************************************************************************)
DrrDecides == ~aborted
=============================================================================
