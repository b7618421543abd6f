------------------------------ MODULE MCConsole -------------------------------
(* Small instances of Console for TLC. *)
EXTENDS Console

MCInitialState(i) == IF i \in {11, 21} THEN "failed" ELSE "queued"
MCKeyTexts == {"", "k"}
Draft(payload, key, later, dependencies, queue) ==
  [payload |-> payload, key |-> key, later |-> later, dependencies |-> dependencies, queue |-> queue]
MCDraft == {Draft("valid", "", FALSE, FALSE, "default")}
MCDrafts == {Draft("valid", "k", FALSE, FALSE, "default"), Draft("valid", "", TRUE, FALSE, "default"),
             Draft("valid", "", FALSE, TRUE, "default"), Draft("broken", "", FALSE, FALSE, "default")}
=============================================================================
