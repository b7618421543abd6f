----------------------------- MODULE MCWorkflow ------------------------------
(* Small instances of Workflow for TLC. *)
EXTENDS Workflow, TLC

CONSTANTS AttemptLimit, Crashes, Throttles, CancelLimit,
          Upstream,   \* jobs without dependencies; the others depend on all of them
          Lenient     \* whether the dependents have policy allow_failed

MCPriorities == {5}
MCReadyKeys == <<<<CHOOSE q \in Queues : TRUE, 5>>>>
MCMaxAttempts == [j \in Jobs |-> AttemptLimit]
MCBudget == [e \in EnvKinds |->
               CASE e = "crash" -> Crashes
                 [] e = "throttle" -> Throttles
                 [] e = "cancel" -> CancelLimit
                 [] OTHER -> 0]
MCDeps == [j \in Jobs |-> IF j \in Upstream THEN {} ELSE Upstream]
MCAllowFailed == IF Lenient THEN Jobs \ Upstream ELSE {}

SlotSymmetry == Permutations(Slots)
\* So are the jobs without dependencies.
UpstreamSymmetry == SlotSymmetry \cup Permutations(Upstream)
=============================================================================
