----------------------------- MODULE MCJobBroker -----------------------------
(* Small instances of JobBroker for TLC. *)
EXTENDS JobBroker, TLC

CONSTANTS AttemptLimit, Crashes, Throttles, Retries, Cancels, Unblocks

MCPriorities == {5}
\* One list per queue, scanned in any fixed order.
MCReadyKeys == LET q == CHOOSE f \in [1..Cardinality(Queues) -> Queues] :
                           \A a, b \in DOMAIN f : f[a] = f[b] => a = b
               IN  [i \in DOMAIN q |-> <<q[i], 5>>]
MCMaxAttempts == [j \in Jobs |-> AttemptLimit]
MCBudget == [e \in EnvKinds |->
               CASE e = "crash" -> Crashes
                 [] e = "throttle" -> Throttles
                 [] e = "retry" -> Retries
                 [] e = "cancel" -> Cancels
                 [] e = "unblock" -> Unblocks]

\* Worker slots are interchangeable.
SlotSymmetry == Permutations(Slots)
=============================================================================
