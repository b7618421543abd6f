------------------------------ MODULE MCLiveData ------------------------------
(* Small instances of LiveData for TLC. *)
EXTENDS LiveData, TLC

CONSTANT Home  \* the server the page is loaded with

MCDefaults == [liveMode |-> TRUE, liveUpdates |-> TRUE, poll |-> 5, url |-> Home]

\* The defaults, with polling paused, and the demo; a change reaches the rest.
MCStored ==
  {[liveMode |-> TRUE, liveUpdates |-> TRUE, poll |-> p, url |-> Home] : p \in Presets}
    \cup {[liveMode |-> FALSE, liveUpdates |-> TRUE, poll |-> 5, url |-> Home]}
=============================================================================
