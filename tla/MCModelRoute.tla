---------------------------- MODULE MCModelRoute ----------------------------
EXTENDS ModelRoute

\* Routes over up to three of the backends 1..3 in any order, each backend
\* with a throughput of 1 or 3, so an Update can drop, add or reorder a
\* backend and change its rate in either direction.
MCRoutes ==
    UNION { { [i \in DOMAIN p |-> [id |-> p[i], tp |-> t[i]]] :
                t \in [DOMAIN p -> {1, 3}] } :
            p \in UNION { SetToAllKPermutations(S) : S \in SUBSET {1, 2, 3} \ {{}} } }
=============================================================================
