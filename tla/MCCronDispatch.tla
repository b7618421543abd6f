--------------------------- MODULE MCCronDispatch ----------------------------
(* Small instances of CronDispatch for TLC. *)
EXTENDS CronDispatch, TLC

CONSTANTS Crashes, Errors, Edits

MCBudget == [e \in EnvKinds |->
               CASE e = "crash" -> Crashes
                 [] e = "error" -> Errors
                 [] e = "edit" -> Edits]

\* Schedulers are interchangeable.
SchedulerSymmetry == Permutations(Schedulers)
=============================================================================
