---------------------------- MODULE MCDispatcher ----------------------------
EXTENDS Dispatcher

\* Two GPU backends, both with profiles for the session.
MCProfiles == {1, 2} \X {"s1"}

\* Routes a scheduler may push for s1: over registered backends, rates 1..2.
MCPushedRoutes ==
    { [sid |-> "s1", route |-> <<[id |-> 1, tp |-> 2], [id |-> 2, tp |-> 1]>>],
      [sid |-> "s1", route |-> <<[id |-> 2, tp |-> 1]>>] }
=============================================================================
