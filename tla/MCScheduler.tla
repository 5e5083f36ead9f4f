---------------------------- MODULE MCScheduler ----------------------------
(* Constant values for checking Scheduler with TLC.                        *)
EXTENDS Scheduler

\* One static workload: session s2 at throughput 1 on whichever backend
\* registers first.
MCStaticWorkloads == << ("s2" :> 1) >>

\* All backends have the same GPU, so Assign can migrate between any two.
MCGpu == [b \in Backends |-> "gpu0"]

=============================================================================
