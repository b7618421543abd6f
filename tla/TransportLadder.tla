--------------------------- MODULE TransportLadder ---------------------------
(***************************************************************************)
(* What the dashboard's realtime transport promises, without sockets,      *)
(* timers or callbacks: a ladder of three rungs.  A failed attempt is      *)
(* retried on its rung until the rung's limit, then the transport goes one *)
(* rung down and never up; only a new beginning (start, a probe, a manual  *)
(* reconnect) returns to the top.  The limit counts the attempts since the *)
(* rung was entered, including the ones that succeeded and dropped later.  *)
(***************************************************************************)
EXTENDS Naturals

CONSTANT Limit  \* [{"websocket", "sse"} -> attempts allowed on the rung]

Streams == {"websocket", "sse"}
Rungs == Streams \cup {"polling", "off"}

VARIABLES
  can,    \* can.socket, can.sse: what the URL and the browser allow
  rung,   \* the transport in use
  live,   \* the rung's stream is open
  tries   \* failed attempts on the rung so far

ladder == <<can, rung, live, tries>>

Abilities == [socket : BOOLEAN, sse : BOOLEAN]

LadderTypeOK ==
  /\ can \in Abilities
  /\ rung \in Rungs
  /\ live \in BOOLEAN
  /\ tries \in Nat
  /\ rung \in Streams => tries < Limit[rung]
  /\ live => rung \in Streams

Init == can \in Abilities /\ rung = "off" /\ live = FALSE /\ tries = 0

At(r, n) == rung' = r /\ tries' = n /\ live' = FALSE

\* One rung down: polling is skipped to only where there is no SSE.
Below(abilities, r) == IF r = "websocket" /\ abilities.sse THEN "sse" ELSE "polling"

\* From anywhere to the top.  A socket that cannot even be constructed has
\* already used its first attempt, and where no socket can be addressed the
\* transport begins at the bottom.
Begin ==
  /\ rung # "off" => can' = can
  /\ can' \in Abilities
  /\ \/ \E n \in {0, 1} : n < Limit["websocket"] /\ At("websocket", n)
     \/ Limit["websocket"] = 1 /\ At(Below(can', "websocket"), 0)
     \/ ~can'.socket /\ At("polling", 0)

Open ==
  /\ rung \in Streams /\ ~live
  /\ live' = TRUE
  /\ UNCHANGED <<can, rung, tries>>

Retry ==
  /\ rung \in Streams /\ tries + 1 < Limit[rung]
  /\ At(rung, tries + 1)
  /\ UNCHANGED can

Descend ==
  /\ rung \in Streams /\ tries + 1 = Limit[rung]
  /\ At(Below(can, rung), 0)
  /\ UNCHANGED can

Stop == At("off", 0) /\ UNCHANGED can

Next == Begin \/ Open \/ Retry \/ Descend \/ Stop

Spec == Init /\ [][Next]_ladder

(***************************************************************************)
(* Every attempt to connect comes to an end: the stream opens, the ladder  *)
(* ends at polling, or the transport is stopped.                           *)
(***************************************************************************)
Settles == (rung \in Streams /\ ~live) ~> (live \/ rung \in {"polling", "off"})
=============================================================================
