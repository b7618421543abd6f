------------------------- MODULE LiveTransportProofs -------------------------
(***************************************************************************)
(* Proofs about LiveTransport for any number of connections, any attempt   *)
(* limits and any number of calls from the hook: its safety invariants,    *)
(* and that the manager implements the ladder.                             *)
(***************************************************************************)
EXTENDS LiveTransport, TLAPS

(***************************************************************************)
(* The inductive invariant: a manager that runs is in one of five          *)
(* situations, each with its own timers, connection and status.            *)
(***************************************************************************)

\* The timer of start is armed and nothing has been tried yet.
Beginning ==
  /\ state = "idle" /\ nextRetryAt = FALSE
  /\ retryTimer = [mode |-> "websocket", attempt |-> 0] /\ probeTimer = FALSE
  /\ socket = None /\ eventSource = None

\* scheduleRetry waits to connect again, perhaps beside a probe.
RetryWaits ==
  /\ mode \in Streams /\ state = "connecting" /\ nextRetryAt = TRUE
  /\ retryTimer \in Timer
  /\ retryTimer.mode = mode /\ retryTimer.attempt < Limit[mode]
  /\ socket = None /\ eventSource = None

\* A connection of the mode's kind is being made or is open.
InUse(c) ==
  /\ c \in Conns
  /\ conn[c].kind = mode /\ conn[c].attempt < Limit[mode] /\ ~conn[c].doomed
  /\ \/ state = "connecting" /\ conn[c].phase = "connecting" /\ probeTimer = FALSE
     \/ /\ state = "live" /\ conn[c].phase = "open"
        /\ IF mode = "sse" THEN nextRetryAt = TRUE /\ probeTimer = TRUE
                           ELSE nextRetryAt = FALSE /\ probeTimer = FALSE
  /\ retryTimer = None

SocketInUse == mode = "websocket" /\ InUse(socket) /\ eventSource = None
SourceInUse == mode = "sse" /\ InUse(eventSource) /\ socket = None

\* enterPolling has armed the probe.
PollingWithProbe ==
  /\ mode = "polling" /\ state = "polling" /\ nextRetryAt = TRUE
  /\ retryTimer = None /\ probeTimer = TRUE
  /\ socket = None /\ eventSource = None

\* A manager that stopped left nothing behind.
AtRest ==
  /\ state \notin {"live", "connecting"} /\ nextRetryAt = FALSE
  /\ retryTimer = None /\ probeTimer = FALSE
  /\ socket = None /\ eventSource = None

Situation ==
  \/ stopped /\ AtRest
  \/ ~stopped /\ (Beginning \/ RetryWaits \/ SocketInUse \/ SourceInUse \/ PollingWithProbe)

\* Nobody uses the connection any more, and it is closed or will close itself.
Forgotten(r) == r.phase = "closed" \/ (r.phase = "connecting" /\ r.doomed)

\* SSE is only tried where there is an EventSource.
SourceNeedsSse == ~stopped /\ state # "idle" /\ mode = "sse" => can.sse

TransportInv ==
  /\ TransportTypeOK
  /\ Situation
  /\ \A c \in Conns : c \notin {socket, eventSource} => Forgotten(conn[c])
  /\ SourceNeedsSse

-----------------------------------------------------------------------------
(* What the effects leave.                                                 *)

\* Connections of which none is in use.
Clean(cs) == cs \in [Conns -> Connection] /\ \A c \in Conns : Forgotten(cs[c])

\* What every task of a running manager leaves alone or counts.
Frame == stopped' \in BOOLEAN /\ ~stopped' /\ can' \in Abilities /\ calls' \in 0..MaxCalls

\* closeCurrent leaves no connection in use and none that stays open.
LEMMA CloseCurrentCleans ==
  ASSUME TransportInv
  PROVE  Clean(AfterCloseCurrent(conn))
  <1> DEFINE cs == AfterCloseCurrent(conn)
  <1>1. ASSUME NEW c \in Conns PROVE cs[c] \in Connection /\ Forgotten(cs[c])
    <2>0. conn[c] \in Connection
      BY DEF TransportInv, TransportTypeOK
    <2>1. CASE c \notin {socket, eventSource}
      BY <2>0, <2>1 DEF TransportInv, AfterCloseCurrent
    <2>2. CASE c = socket /\ conn[c].phase = "connecting"
      <3>1. cs[c] = [conn[c] EXCEPT !.doomed = TRUE]
        BY <2>2 DEF AfterCloseCurrent
      <3> QED BY <2>0, <2>2, <3>1 DEF Connection, Forgotten
    <2>3. CASE c \in {socket, eventSource} /\ ~(c = socket /\ conn[c].phase = "connecting")
      <3>1. cs[c] = Closed
        BY <2>3 DEF AfterCloseCurrent
      <3> QED BY <3>1 DEF Closed, Connection, Forgotten, Streams
    <2> QED BY <2>1, <2>2, <2>3
  <1> QED BY <1>1 DEF Clean, AfterCloseCurrent

\* The connection in use is dropped when it closes.
LEMMA DropCleans ==
  ASSUME TransportInv, NEW c \in Conns,
         \A d \in Conns : d \in {socket, eventSource} => d = c
  PROVE  Clean([conn EXCEPT ![c] = Closed])
  <1>1. Closed \in Connection /\ Forgotten(Closed)
    BY DEF Closed, Connection, Forgotten, Streams
  <1> QED BY <1>1 DEF TransportInv, TransportTypeOK, Clean

\* The polling fallback.
LEMMA PollingEffect ==
  ASSUME Frame, NEW cs, Clean(cs), EnterPolling(cs)
  PROVE  TransportInv' /\ Ladder!At("polling", 0)
  <1>1. TransportTypeOK'
    BY DEF Frame, Clean, EnterPolling, Status, TransportTypeOK, States
  <1>2. Situation' /\ SourceNeedsSse'
    BY DEF Frame, EnterPolling, Status, Situation, PollingWithProbe, SourceNeedsSse
  <1>3. \A c \in Conns : Forgotten(conn'[c])
    BY DEF EnterPolling, Clean
  <1>4. Ladder!At("polling", 0)
    BY DEF Frame, EnterPolling, Status, Ladder!At, Rung, Tries
  <1> QED BY <1>1, <1>2, <1>3, <1>4 DEF TransportInv, Forgotten

\* A retry that waits.
LEMMA RetryEffect ==
  ASSUME Frame, NEW m \in Streams, NEW n \in Nat, n < Limit[m], m = "sse" => can'.sse,
         NEW cs, Clean(cs), NEW probe \in BOOLEAN, ScheduleRetry(m, n, cs, probe)
  PROVE  TransportInv' /\ Ladder!At(m, n)
  <1>0. [mode |-> m, attempt |-> n] \in Timer
    BY DEF Timer
  <1>1. TransportTypeOK'
    BY <1>0 DEF Frame, Clean, ScheduleRetry, Status, TransportTypeOK, States
  <1>2. RetryWaits'
    BY <1>0 DEF ScheduleRetry, Status, RetryWaits
  <1>3. Situation' /\ SourceNeedsSse'
    BY <1>2 DEF Frame, ScheduleRetry, Status, Situation, SourceNeedsSse
  <1>4. \A c \in Conns : Forgotten(conn'[c])
    BY DEF ScheduleRetry, Clean
  <1>5. Ladder!At(m, n)
    <2>1. retryTimer' # None /\ retryTimer'.attempt = n
      BY <1>0, TransportAssumption DEF ScheduleRetry, Timer
    <2> QED BY <2>1 DEF Frame, ScheduleRetry, Status, Ladder!At, Rung, Tries
  <1> QED BY <1>1, <1>3, <1>4, <1>5 DEF TransportInv, Forgotten

\* A new connection is in use, alone.
LEMMA OpeningEffect ==
  ASSUME NEW c \in Conns, NEW kind \in Streams, NEW n \in Nat, NEW cs, Clean(cs),
         Opening(c, kind, n, cs)
  PROVE  /\ conn' \in [Conns -> Connection]
         /\ conn'[c] = [phase |-> "connecting", kind |-> kind, attempt |-> n, doomed |-> FALSE]
         /\ \A d \in Conns \ {c} : Forgotten(conn'[d])
  BY DEF Clean, Opening, Connection

\* connect("sse", n) where there is an EventSource.
LEMMA SourceEffect ==
  ASSUME Frame, can' = can, can.sse, NEW n \in Nat, n < Limit["sse"],
         NEW cs, Clean(cs), NEW announced \in BOOLEAN, ConnectEventSource(n, cs, announced)
  PROVE  TransportInv' /\ Ladder!At("sse", n)
  <1>1. PICK c \in Conns : Opening(c, "sse", n, cs) /\ eventSource' = c
    BY DEF ConnectEventSource
  <1>2. /\ Status("sse", "connecting", n, announced)
        /\ retryTimer' = None /\ probeTimer' = FALSE /\ socket' = None
    BY DEF ConnectEventSource
  <1>3. /\ conn' \in [Conns -> Connection]
        /\ conn'[c] = [phase |-> "connecting", kind |-> "sse", attempt |-> n, doomed |-> FALSE]
        /\ \A d \in Conns \ {c} : Forgotten(conn'[d])
    BY <1>1, OpeningEffect DEF Streams
  <1>4. TransportTypeOK'
    BY <1>1, <1>2, <1>3 DEF Frame, Status, TransportTypeOK, States, Streams
  <1>5. SourceInUse'
    BY <1>1, <1>2, <1>3 DEF Status, SourceInUse, InUse
  <1>6. Situation' /\ SourceNeedsSse'
    BY <1>5 DEF Frame, Situation, SourceNeedsSse
  <1>7. Ladder!At("sse", n)
    <2>1. eventSource' # None
      BY <1>1, TransportAssumption
    <2> QED BY <1>1, <1>2, <1>3, <2>1 DEF Frame, Status, Ladder!At, Rung, Tries
  <1>8. \A d \in Conns : d \notin {socket', eventSource'} => Forgotten(conn'[d])
    BY <1>1, <1>3
  <1> QED BY <1>4, <1>6, <1>7, <1>8 DEF TransportInv, Forgotten

\* What becomes of the failed attempt n of stream m: one more attempt, or one
\* rung down after the last.
FailureOutcome(m, n) ==
  \/ n + 1 < Limit[m] /\ Ladder!At(m, n + 1)
  \/ n + 1 = Limit[m] /\ Ladder!At(Ladder!Below(can, m), 0)

LEMMA FailureEffect ==
  ASSUME Frame, can' = can, NEW m \in Streams, NEW n \in Nat, n < Limit[m],
         m = "sse" => can.sse, NEW cs, Clean(cs),
         NEW announced \in BOOLEAN, NEW probe \in BOOLEAN,
         HandleRealtimeFailure(m, n, cs, announced, probe)
  PROVE  TransportInv' /\ FailureOutcome(m, n)
  <1> USE TransportAssumption
  <1>1. CASE n + 1 < Limit[m]
    <2>1. ScheduleRetry(m, n + 1, cs, probe)
      BY <1>1 DEF HandleRealtimeFailure
    <2>2. TransportInv' /\ Ladder!At(m, n + 1)
      BY <1>1, <2>1, RetryEffect
    <2> QED BY <1>1, <2>2 DEF FailureOutcome
  <1>2. CASE n + 1 = Limit[m] /\ m = "websocket" /\ can.sse
    <2>1. ConnectEventSource(0, cs, announced)
      BY <1>2 DEF HandleRealtimeFailure
    <2>2. TransportInv' /\ Ladder!At("sse", 0)
      BY <1>2, <2>1, SourceEffect DEF Streams
    <2> QED BY <1>2, <2>2 DEF FailureOutcome, Ladder!Below
  <1>3. CASE n + 1 = Limit[m] /\ ~(m = "websocket" /\ can.sse)
    <2>1. EnterPolling(cs)
      BY <1>3 DEF HandleRealtimeFailure, ConnectEventSource
    <2>2. TransportInv' /\ Ladder!At("polling", 0)
      BY <2>1, PollingEffect
    <2>3. Ladder!Below(can, m) = "polling"
      BY <1>3 DEF Ladder!Below
    <2> QED BY <1>3, <2>2, <2>3 DEF FailureOutcome
  <1>4. n + 1 < Limit[m] \/ n + 1 = Limit[m]
    OBVIOUS
  <1> QED BY <1>1, <1>2, <1>3, <1>4

\* connect("websocket", n).
LEMMA SocketEffect ==
  ASSUME TransportInv, Frame, can' = can, NEW n \in Nat, n < Limit["websocket"],
         NEW announced \in BOOLEAN, ConnectWebSocket(n, announced)
  PROVE  /\ TransportInv'
         /\ \/ Ladder!At("websocket", n)
            \/ FailureOutcome("websocket", n)
            \/ ~can.socket /\ Ladder!At("polling", 0)
  <1> DEFINE cs == AfterCloseCurrent(conn)
  <1>0. Clean(cs)
    BY CloseCurrentCleans
  <1> HIDE DEF cs
  <1>1. CASE ~can.socket /\ EnterPolling(cs)
    BY <1>0, <1>1, PollingEffect
  <1>2. CASE can.socket /\ HandleRealtimeFailure("websocket", n, cs, announced, FALSE)
    BY <1>0, <1>2, FailureEffect DEF Streams
  <1>3. ASSUME Status("websocket", "connecting", n, announced),
               retryTimer' = None, probeTimer' = FALSE, eventSource' = None,
               NEW c \in Conns, Opening(c, "websocket", n, cs), socket' = c
        PROVE  TransportInv' /\ Ladder!At("websocket", n)
    <2>1. /\ conn' \in [Conns -> Connection]
          /\ conn'[c] = [phase |-> "connecting", kind |-> "websocket", attempt |-> n,
                         doomed |-> FALSE]
          /\ \A d \in Conns \ {c} : Forgotten(conn'[d])
      BY <1>0, <1>3, OpeningEffect DEF Streams
    <2>2. TransportTypeOK'
      BY <1>3, <2>1 DEF Frame, Status, TransportTypeOK, States, Streams
    <2>3. SocketInUse'
      BY <1>3, <2>1 DEF Status, SocketInUse, InUse
    <2>4. Situation' /\ SourceNeedsSse'
      BY <1>3, <2>3 DEF Frame, Status, Situation, SourceNeedsSse
    <2>5. Ladder!At("websocket", n)
      <3>1. socket' # None
        BY <1>3, TransportAssumption
      <3> QED BY <1>3, <2>1, <3>1 DEF Frame, Status, Ladder!At, Rung, Tries
    <2>6. \A d \in Conns : d \notin {socket', eventSource'} => Forgotten(conn'[d])
      BY <1>3, <2>1
    <2> QED BY <2>2, <2>4, <2>5, <2>6 DEF TransportInv, Forgotten
  <1>4. \/ ~can.socket /\ EnterPolling(cs)
        \/ can.socket /\ HandleRealtimeFailure("websocket", n, cs, announced, FALSE)
        \/ /\ Status("websocket", "connecting", n, announced)
           /\ retryTimer' = None /\ probeTimer' = FALSE /\ eventSource' = None
           /\ \E c \in Conns : Opening(c, "websocket", n, cs) /\ socket' = c
    BY DEF ConnectWebSocket, cs
  <1> QED BY <1>1, <1>2, <1>3, <1>4

-----------------------------------------------------------------------------
(* The actions.  Each keeps the invariant and is a step of the ladder.     *)

LadderStep == Ladder!Next \/ UNCHANGED <<can, Rung, (state = "live"), Tries>>

\* Facts of the five situations that the actions begin from.
LEMMA RunningFacts ==
  ASSUME TransportInv, ~stopped
  PROVE  /\ retryTimer # None =>
              /\ retryTimer \in Timer
              /\ retryTimer.attempt < Limit[retryTimer.mode]
              /\ retryTimer.mode = "sse" => can.sse /\ state # "idle"
              /\ Rung = retryTimer.mode /\ Tries = retryTimer.attempt
              /\ state # "live"
         /\ Rung # "off"
  <1> USE TransportAssumption
  <1>1. CASE Beginning
    <2>1. [mode |-> "websocket", attempt |-> 0] \in Timer
      BY DEF Timer, Streams
    <2> QED BY <1>1, <2>1 DEF Beginning, Rung, Tries, Streams, Timer
  <1>2. CASE RetryWaits
    BY <1>2 DEF RetryWaits, Rung, Tries, TransportInv, SourceNeedsSse, Streams, Timer
  <1>3. CASE SocketInUse \/ SourceInUse \/ PollingWithProbe
    BY <1>3 DEF SocketInUse, SourceInUse, InUse, PollingWithProbe, Rung
  <1> QED BY <1>1, <1>2, <1>3 DEF TransportInv, Situation

\* A socket in use is the only connection in use, and its attempt counts.
LEMMA SocketFacts ==
  ASSUME TransportInv, NEW c \in Conns, c = socket
  PROVE  /\ ~stopped /\ SocketInUse /\ eventSource = None
         /\ conn[c] \in Connection /\ conn[c].attempt < Limit["websocket"]
         /\ Rung = "websocket" /\ Tries = conn[c].attempt
  <1>1. socket # None
    BY TransportAssumption
  <1>2. ~stopped /\ SocketInUse
    BY <1>1 DEF TransportInv, Situation, AtRest, Beginning, RetryWaits, SourceInUse,
                PollingWithProbe
  <1>3. conn[c] \in Connection
    BY DEF TransportInv, TransportTypeOK
  <1> QED BY <1>1, <1>2, <1>3 DEF SocketInUse, InUse, Rung, Tries

\* The same for an event source.
LEMMA SourceFacts ==
  ASSUME TransportInv, NEW c \in Conns, c = eventSource
  PROVE  /\ ~stopped /\ SourceInUse /\ socket = None /\ can.sse
         /\ conn[c] \in Connection /\ conn[c].attempt < Limit["sse"]
         /\ Rung = "sse" /\ Tries = conn[c].attempt
  <1>1. eventSource # None
    BY TransportAssumption
  <1>2. ~stopped /\ SourceInUse
    BY <1>1 DEF TransportInv, Situation, AtRest, Beginning, RetryWaits, SocketInUse,
                PollingWithProbe
  <1>3. conn[c] \in Connection
    BY DEF TransportInv, TransportTypeOK
  <1>4. can.sse
    BY <1>2 DEF TransportInv, SourceNeedsSse, SourceInUse, InUse
  <1> QED BY <1>1, <1>2, <1>3, <1>4 DEF SourceInUse, InUse, Rung, Tries

\* Start.
LEMMA StartStep ==
  ASSUME TransportInv, Start
  PROVE  TransportInv' /\ LadderStep
  <1> USE TransportAssumption
  <1>0. [mode |-> "websocket", attempt |-> 0] \in Timer
    BY DEF Timer, Streams
  <1>1. TransportTypeOK'
    <2>1. calls' \in 0..MaxCalls
      BY DEF Start, Call, TransportInv, TransportTypeOK
    <2> QED BY <1>0, <2>1 DEF TransportInv, TransportTypeOK, Start, Status, States
  <1>2. Situation' /\ SourceNeedsSse'
    BY DEF Start, Status, Situation, Beginning, SourceNeedsSse
  <1>3. socket = None /\ eventSource = None
    BY DEF TransportInv, Situation, AtRest, Start
  <1>4. \A c \in Conns : c \notin {socket', eventSource'} => Forgotten(conn'[c])
    BY <1>3 DEF TransportInv, Start
  <1>5. Ladder!Begin
    <2>1. Rung = "off" /\ can' \in Abilities
      BY DEF Start, Rung
    <2>2. retryTimer' # None /\ retryTimer'.attempt = 0
      BY <1>0 DEF Start, Timer
    <2>3. Ladder!At("websocket", 0)
      BY <2>2 DEF Start, Status, Ladder!At, Rung, Tries
    <2>4. 0 < Limit["websocket"]
      BY DEF Streams
    <2> QED BY <2>1, <2>3, <2>4 DEF Ladder!Begin, Ladder!Abilities, Abilities
  <1> QED BY <1>1, <1>2, <1>4, <1>5 DEF TransportInv, LadderStep, Ladder!Next, Forgotten

\* stop.
LEMMA StopStep ==
  ASSUME TransportInv, NEW next \in {"idle", "polling", "paused", "demo"}, Stop(next)
  PROVE  TransportInv' /\ LadderStep
  <1>0. Clean(conn')
    BY CloseCurrentCleans DEF Stop
  <1>1. TransportTypeOK'
    <2>1. calls' \in 0..MaxCalls
      BY TransportAssumption DEF Stop, Call, TransportInv, TransportTypeOK
    <2> QED BY <1>0, <2>1 DEF TransportInv, TransportTypeOK, Stop, Status, States, Clean
  <1>2. Situation' /\ SourceNeedsSse'
    BY DEF Stop, Status, Situation, AtRest, SourceNeedsSse
  <1>3. \A c \in Conns : Forgotten(conn'[c])
    BY <1>0 DEF Clean
  <1>4. Ladder!Stop
    BY DEF Stop, Status, Ladder!Stop, Ladder!At, Rung, Tries
  <1> QED BY <1>1, <1>2, <1>3, <1>4 DEF TransportInv, LadderStep, Ladder!Next, Forgotten

\* A step that connects to the websocket from the first attempt begins again.
LEMMA BeginAgain ==
  ASSUME TransportInv, ~stopped, Frame, can' = can, ConnectWebSocket(0, FALSE)
  PROVE  TransportInv' /\ LadderStep
  <1> USE TransportAssumption
  <1>0. Limit["websocket"] \in Nat /\ 0 < Limit["websocket"] /\ can \in Abilities
    BY DEF Streams, TransportInv, TransportTypeOK
  <1>1. /\ TransportInv'
        /\ \/ Ladder!At("websocket", 0)
           \/ FailureOutcome("websocket", 0)
           \/ ~can.socket /\ Ladder!At("polling", 0)
    BY <1>0, SocketEffect
  <1>2. Ladder!Begin
    BY <1>0, <1>1 DEF FailureOutcome, Ladder!Begin, Ladder!Abilities, Abilities
  <1> QED BY <1>1, <1>2 DEF LadderStep, Ladder!Next

\* retryNow and the probe.
LEMMA ProbeStep ==
  ASSUME TransportInv, RetryNow \/ ProbeTimerFires
  PROVE  TransportInv' /\ LadderStep
  <1>1. ~stopped
    BY DEF RetryNow, ProbeTimerFires, TransportInv, Situation, AtRest
  <1>2. /\ calls' = calls \/ Call
        /\ can' = can /\ stopped' = stopped /\ ConnectWebSocket(0, FALSE)
    BY DEF RetryNow, ProbeTimerFires
  <1>3. calls' \in 0..MaxCalls
    BY <1>2, TransportAssumption DEF Call, TransportInv, TransportTypeOK
  <1>4. Frame
    BY <1>1, <1>2, <1>3 DEF Frame, TransportInv, TransportTypeOK
  <1> QED BY <1>1, <1>2, <1>4, BeginAgain

\* A failure on the rung with its count of tries is a retry or a descent.
LEMMA FailureIsLadderStep ==
  ASSUME NEW m \in Streams, Rung = m, NEW n \in Nat, Tries = n, can' = can,
         FailureOutcome(m, n)
  PROVE  LadderStep
  BY DEF FailureOutcome, LadderStep, Ladder!Next, Ladder!Retry, Ladder!Descend,
         Ladder!Streams, Streams

\* The timer of start or of a retry.
LEMMA RetryTimerStep ==
  ASSUME TransportInv, RetryTimerFires
  PROVE  TransportInv' /\ LadderStep
  <1> USE TransportAssumption
  <1> DEFINE n == retryTimer.attempt
  <1>1. ~stopped /\ Frame /\ can' = can
    BY DEF RetryTimerFires, TransportInv, Situation, AtRest, Frame, TransportTypeOK
  <1>2. /\ retryTimer \in Timer /\ n \in Nat /\ n < Limit[retryTimer.mode]
        /\ retryTimer.mode \in Streams /\ nextRetryAt \in BOOLEAN
        /\ retryTimer.mode = "sse" => can.sse
        /\ Rung = retryTimer.mode /\ Tries = n /\ state # "live"
    BY <1>1, RunningFacts DEF RetryTimerFires, Timer, TransportInv, TransportTypeOK
  <1>3. CASE retryTimer.mode = "websocket"
    <2>1. ConnectWebSocket(n, nextRetryAt)
      BY <1>3 DEF RetryTimerFires
    <2>2. /\ TransportInv'
          /\ \/ Ladder!At("websocket", n)
             \/ FailureOutcome("websocket", n)
             \/ ~can.socket /\ Ladder!At("polling", 0)
      BY <1>1, <1>2, <1>3, <2>1, SocketEffect
    <2>3. CASE Ladder!At("websocket", n)
      <3>1. state' # "live" /\ Rung' = Rung /\ Tries' = Tries
        BY <1>2, <1>3, <2>3 DEF Ladder!At
      <3> QED BY <1>1, <1>2, <2>2, <3>1 DEF LadderStep
    <2>4. CASE FailureOutcome("websocket", n)
      BY <1>1, <1>2, <1>3, <2>2, <2>4, FailureIsLadderStep
    <2>5. CASE ~can.socket /\ Ladder!At("polling", 0)
      <3>1. can' \in Abilities /\ can' = can
        BY <1>1 DEF Frame
      <3> QED BY <2>2, <2>5, <3>1 DEF LadderStep, Ladder!Next, Ladder!Begin, Ladder!Abilities, Abilities
    <2> QED BY <2>2, <2>3, <2>4, <2>5
  <1>4. CASE retryTimer.mode = "sse"
    <2>1. ConnectEventSource(n, AfterCloseCurrent(conn), nextRetryAt)
      BY <1>4 DEF RetryTimerFires
    <2>2. TransportInv' /\ Ladder!At("sse", n)
      BY <1>1, <1>2, <1>4, <2>1, CloseCurrentCleans, SourceEffect
    <2>3. state' # "live" /\ Rung' = Rung /\ Tries' = Tries
      BY <1>2, <1>4, <2>2 DEF Ladder!At
    <2> QED BY <1>1, <1>2, <2>2, <2>3 DEF LadderStep
  <1> QED BY <1>2, <1>3, <1>4 DEF Streams

\* A stream opens.
LEMMA OpensStep ==
  ASSUME TransportInv, NEW c \in Conns, SocketOpens(c) \/ SourceOpens(c)
  PROVE  TransportInv' /\ LadderStep
  <1> DEFINE r == [conn[c] EXCEPT !.phase = "open"]
  <1>1. conn[c] \in Connection /\ conn \in [Conns -> Connection]
    BY DEF TransportInv, TransportTypeOK
  <1>2. conn' = [conn EXCEPT ![c] = r]
    BY <1>1 DEF SocketOpens, SourceOpens
  <1>3. /\ r \in Connection /\ r.phase = "open" /\ r.attempt = conn[c].attempt
        /\ r.kind = conn[c].kind /\ r.doomed = conn[c].doomed
    BY <1>1 DEF Connection
  <1>4. conn' \in [Conns -> Connection] /\ conn'[c] = r /\ \A d \in Conns \ {c} : conn'[d] = conn[d]
    BY <1>1, <1>2, <1>3
  <1> HIDE DEF r
  <1>5. TransportTypeOK'
    <2>1. CASE SocketOpens(c)
      BY <1>4, <2>1 DEF SocketOpens, Status, TransportInv, TransportTypeOK, States, Streams,
                        timers
    <2>2. CASE SourceOpens(c)
      BY <1>4, <2>2 DEF SourceOpens, Status, TransportInv, TransportTypeOK, States, Streams
    <2> QED BY <2>1, <2>2
  <1>6. \A d \in Conns : d \notin {socket', eventSource'} => Forgotten(conn'[d])
    BY <1>4 DEF SocketOpens, SourceOpens, TransportInv
  <1>7. CASE SocketOpens(c)
    <2>1. /\ ~stopped /\ SocketInUse /\ eventSource = None
          /\ Rung = "websocket" /\ Tries = conn[c].attempt
      BY <1>7, SocketFacts DEF SocketOpens
    <2>2. SocketInUse' /\ ~stopped'
      BY <1>3, <1>4, <1>7, <2>1 DEF SocketOpens, Connecting, Status, timers, SocketInUse, InUse
    <2>3. Situation' /\ SourceNeedsSse'
      BY <2>2 DEF Situation, SourceNeedsSse, SocketInUse
    <2>4. Rung' = Rung /\ Tries' = Tries /\ state' = "live" /\ state # "live" /\ can' = can
      BY <1>3, <1>4, <1>7, <2>1, <2>2
         DEF SocketOpens, Connecting, Status, timers, SocketInUse, InUse, Rung, Tries
    <2>5. Ladder!Open
      BY <2>1, <2>4 DEF Ladder!Open, Ladder!Streams
    <2> QED BY <1>5, <1>6, <2>3, <2>5 DEF TransportInv, LadderStep, Ladder!Next, Forgotten
  <1>8. CASE SourceOpens(c)
    <2>1. /\ ~stopped /\ SourceInUse /\ socket = None /\ can.sse
          /\ Rung = "sse" /\ Tries = conn[c].attempt
      BY <1>8, SourceFacts DEF SourceOpens
    <2>2. SourceInUse' /\ ~stopped' /\ can' = can
      BY <1>3, <1>4, <1>8, <2>1 DEF SourceOpens, Connecting, Status, SourceInUse, InUse
    <2>3. Situation' /\ SourceNeedsSse'
      BY <2>1, <2>2 DEF Situation, SourceNeedsSse, SourceInUse
    <2>4. Rung' = Rung /\ Tries' = Tries /\ state' = "live" /\ state # "live" /\ can' = can
      BY <1>3, <1>4, <1>8, <2>1, <2>2
         DEF SourceOpens, Connecting, Status, SourceInUse, InUse, Rung, Tries
    <2>5. Ladder!Open
      BY <2>1, <2>4 DEF Ladder!Open, Ladder!Streams
    <2> QED BY <1>5, <1>6, <2>3, <2>5 DEF TransportInv, LadderStep, Ladder!Next, Forgotten
  <1> QED BY <1>7, <1>8

\* A stream fails to open, or drops.
LEMMA FailsStep ==
  ASSUME TransportInv, NEW c \in Conns, SocketCloses(c) \/ SourceFails(c)
  PROVE  TransportInv' /\ LadderStep
  <1> DEFINE cs == [conn EXCEPT ![c] = Closed]
             n == conn[c].attempt
  <1>0. nextRetryAt \in BOOLEAN /\ probeTimer \in BOOLEAN /\ n \in Nat
    BY DEF TransportInv, TransportTypeOK, Connection
  <1>1. /\ can' = can /\ stopped' = stopped /\ stopped' \in BOOLEAN
        /\ can' \in Abilities /\ calls' \in 0..MaxCalls
    BY DEF SocketCloses, SourceFails, TransportInv, TransportTypeOK
  <1>2. CASE SocketCloses(c)
    <2>1. /\ ~stopped /\ c = socket /\ eventSource = None
          /\ n < Limit["websocket"] /\ Rung = "websocket" /\ Tries = n
      BY <1>2, SocketFacts DEF SocketCloses
    <2>2. Clean(cs) /\ Frame
      <3>1. \A d \in Conns : d \in {socket, eventSource} => d = c
        BY <2>1, TransportAssumption
      <3> QED BY <1>1, <2>1, <3>1, DropCleans DEF Frame
    <2>3. TransportInv' /\ FailureOutcome("websocket", n)
      BY <1>0, <1>1, <1>2, <2>1, <2>2, FailureEffect DEF SocketCloses, Streams
    <2> QED BY <1>0, <1>1, <2>1, <2>3, FailureIsLadderStep DEF Streams
  <1>3. CASE SourceFails(c)
    <2>1. /\ ~stopped /\ c = eventSource /\ socket = None /\ can.sse
          /\ n < Limit["sse"] /\ Rung = "sse" /\ Tries = n
      BY <1>3, SourceFacts DEF SourceFails
    <2>2. Clean(cs) /\ Frame
      <3>1. \A d \in Conns : d \in {socket, eventSource} => d = c
        BY <2>1, TransportAssumption
      <3> QED BY <1>1, <2>1, <3>1, DropCleans DEF Frame
    <2>3. TransportInv' /\ FailureOutcome("sse", n)
      BY <1>0, <1>1, <1>3, <2>1, <2>2, FailureEffect DEF SourceFails, Streams
    <2> QED BY <1>0, <1>1, <2>1, <2>3, FailureIsLadderStep DEF Streams
  <1> QED BY <1>2, <1>3

\* A connection nobody uses opens and closes itself, or fails.
LEMMA AbandonedStep ==
  ASSUME TransportInv, NEW c \in Conns, AbandonedResolves(c)
  PROVE  TransportInv' /\ LadderStep
  <1>1. conn[c].phase = "connecting" /\ conn[c].doomed
    BY DEF AbandonedResolves, Connecting, TransportInv, Forgotten
  <1>2. conn' = [conn EXCEPT ![c] = Closed]
    BY <1>1 DEF AbandonedResolves
  <1>3. Closed \in Connection /\ Forgotten(Closed)
    BY DEF Closed, Connection, Forgotten, Streams
  <1>4. /\ conn' \in [Conns -> Connection]
        /\ \A d \in Conns : d # c => conn'[d] = conn[d]
        /\ Forgotten(conn'[c])
    BY <1>2, <1>3 DEF TransportInv, TransportTypeOK
  <1>5. /\ can' = can /\ stopped' = stopped /\ mode' = mode /\ state' = state
        /\ attempt' = attempt /\ nextRetryAt' = nextRetryAt
        /\ retryTimer' = retryTimer /\ probeTimer' = probeTimer
        /\ socket' = socket /\ eventSource' = eventSource /\ calls' = calls
        /\ c # socket /\ c # eventSource
    BY DEF AbandonedResolves, status, timers
  <1>6. TransportTypeOK'
    BY <1>4, <1>5 DEF TransportInv, TransportTypeOK
  <1>7. /\ socket # None => socket \in Conns /\ conn'[socket] = conn[socket]
        /\ eventSource # None => eventSource \in Conns /\ conn'[eventSource] = conn[eventSource]
    BY <1>4, <1>5 DEF TransportInv, TransportTypeOK
  <1>8. Situation'
    <2>1. SocketInUse => SocketInUse'
      BY <1>4, <1>5 DEF SocketInUse, InUse
    <2>2. SourceInUse => SourceInUse'
      BY <1>4, <1>5 DEF SourceInUse, InUse
    <2>3. /\ AtRest => AtRest'
          /\ Beginning => Beginning'
          /\ RetryWaits => RetryWaits'
          /\ PollingWithProbe => PollingWithProbe'
      BY <1>5 DEF AtRest, Beginning, RetryWaits, PollingWithProbe
    <2> QED BY <1>5, <2>1, <2>2, <2>3 DEF TransportInv, Situation
  <1>9. SourceNeedsSse' /\ \A d \in Conns : d \notin {socket', eventSource'} => Forgotten(conn'[d])
    BY <1>4, <1>5 DEF TransportInv, SourceNeedsSse
  <1>10. LadderStep
    <2>1. Rung' = Rung
      BY <1>5 DEF Rung
    <2>2. Tries' = Tries
      BY <1>5, <1>7 DEF Tries
    <2> QED BY <1>5, <2>1, <2>2 DEF LadderStep
  <1> QED BY <1>6, <1>8, <1>9, <1>10 DEF TransportInv, Forgotten

\* A step that changes nothing.
LEMMA StutterStep ==
  ASSUME TransportInv, UNCHANGED vars
  PROVE  TransportInv' /\ LadderStep
  <1>1. TransportTypeOK' /\ SourceNeedsSse'
    BY DEF TransportInv, TransportTypeOK, SourceNeedsSse, vars, status, timers
  <1>2. Situation'
    BY DEF TransportInv, Situation, AtRest, Beginning, RetryWaits, SocketInUse, SourceInUse,
           InUse, PollingWithProbe, vars, status, timers
  <1>3. \A c \in Conns : c \notin {socket', eventSource'} => Forgotten(conn'[c])
    BY DEF TransportInv, vars
  <1>4. LadderStep
    BY DEF LadderStep, Rung, Tries, vars, status, timers
  <1> QED BY <1>1, <1>2, <1>3, <1>4 DEF TransportInv, Forgotten

\* The inductive step and the refinement step together: one case per action.
LEMMA TransportStep == TransportInv /\ [Next]_vars => TransportInv' /\ LadderStep
  BY StartStep, StopStep, ProbeStep, RetryTimerStep, OpensStep, FailsStep, AbandonedStep,
     StutterStep
  DEF Next

\* A manager that was never started is at rest, and the ladder is off.
LEMMA TransportInitially == Init => TransportInv /\ Ladder!Init
  <1> SUFFICES ASSUME Init PROVE TransportInv /\ Ladder!Init
    OBVIOUS
  <1>1. Closed \in Connection /\ Forgotten(Closed)
    BY DEF Closed, Connection, Forgotten, Streams
  <1>2. calls \in 0..MaxCalls
    BY TransportAssumption DEF Init
  <1>3. TransportTypeOK
    BY <1>1, <1>2 DEF Init, TransportTypeOK, States
  <1>4. Situation /\ SourceNeedsSse
    BY DEF Init, Situation, AtRest, SourceNeedsSse
  <1>5. \A c \in Conns : Forgotten(conn[c])
    BY <1>1 DEF Init
  <1>6. Ladder!Init
    BY DEF Init, Ladder!Init, Ladder!Abilities, Abilities, Rung, Tries
  <1> QED BY <1>3, <1>4, <1>5, <1>6 DEF TransportInv

-----------------------------------------------------------------------------
(* The theorems.                                                           *)

\* The inductive invariant holds in every reachable state.
LEMMA TransportInvariant == Spec => []TransportInv
  BY TransportInitially, TransportStep, PTL DEF Spec

\* Every field of the manager keeps its type.
THEOREM TransportTypeCorrect == Spec => []TransportTypeOK
  <1>1. TransportInv => TransportTypeOK
    BY DEF TransportInv
  <1> QED BY <1>1, TransportInvariant, PTL

\* A running manager always has a timer or a connection to go on with, and a
\* stopped one has neither, whatever connections fail in whatever order.
THEOREM ManagerNeverStranded == Spec => []NeverStranded
  <1>1. TransportInv => NeverStranded
    <2> SUFFICES ASSUME TransportInv PROVE NeverStranded
      OBVIOUS
    <2> USE TransportAssumption
    <2>1. CASE stopped
      BY <2>1 DEF TransportInv, Situation, AtRest, NeverStranded
    <2>2. CASE ~stopped /\ Beginning
      <3>1. retryTimer \in Timer
        BY <2>2 DEF Beginning, Timer, Streams
      <3>2. retryTimer # None
        BY <3>1 DEF Timer
      <3> QED BY <2>2, <3>2 DEF NeverStranded
    <2>3. CASE ~stopped /\ RetryWaits
      BY <2>3 DEF RetryWaits, NeverStranded, Timer
    <2>4. CASE ~stopped /\ (SocketInUse \/ SourceInUse)
      BY <2>4 DEF SocketInUse, SourceInUse, InUse, NeverStranded
    <2>5. CASE ~stopped /\ PollingWithProbe
      BY <2>5 DEF PollingWithProbe, NeverStranded
    <2> QED BY <2>1, <2>2, <2>3, <2>4, <2>5 DEF TransportInv, Situation
  <1> QED BY <1>1, TransportInvariant, PTL

\* A connection that is not in use is closed or closes itself, and there is
\* never a socket beside an event source.
THEOREM NoConnectionLeaks == Spec => []NoLeakedConnection
  <1>1. TransportInv => NoLeakedConnection
    <2> SUFFICES ASSUME TransportInv PROVE NoLeakedConnection
      OBVIOUS
    <2>1. socket = None \/ eventSource = None
      BY DEF TransportInv, Situation, AtRest, Beginning, RetryWaits, SocketInUse, SourceInUse,
             PollingWithProbe
    <2>2. \A c \in Conns \ {socket, eventSource} :
            conn[c].phase = "closed" \/ (Connecting(c) /\ conn[c].doomed)
      BY DEF TransportInv, Forgotten, Connecting
    <2> QED BY <2>1, <2>2 DEF NoLeakedConnection
  <1> QED BY <1>1, TransportInvariant, PTL

\* The status the console shows is true: live means an open stream, and a
\* retry is announced exactly when a timer stands behind it.
THEOREM StatusTellsTheTruth == Spec => []StatusIsTrue
  <1>1. TransportInv => StatusIsTrue
    <2> SUFFICES ASSUME TransportInv PROVE StatusIsTrue
      OBVIOUS
    <2> USE TransportAssumption
    <2>1. CASE stopped /\ AtRest
      BY <2>1 DEF AtRest, StatusIsTrue
    <2>2. CASE Beginning \/ RetryWaits \/ PollingWithProbe
      BY <2>2 DEF Beginning, RetryWaits, PollingWithProbe, StatusIsTrue
    <2>3. CASE SocketInUse
      BY <2>3 DEF SocketInUse, InUse, StatusIsTrue
    <2>4. CASE SourceInUse
      BY <2>4 DEF SourceInUse, InUse, StatusIsTrue
    <2> QED BY <2>1, <2>2, <2>3, <2>4 DEF TransportInv, Situation
  <1> QED BY <1>1, TransportInvariant, PTL

\* Refinement: with sockets, timers, probes and late events the manager still
\* only climbs down the ladder rung by rung, and up only by beginning again.
THEOREM TransportRefinesLadder == Spec => ImplementsLadder
  <1>1. TransportInv /\ [Next]_vars => [Ladder!Next]_(Ladder!ladder)
    BY TransportStep DEF LadderStep, Ladder!ladder
  <1> QED BY <1>1, TransportInitially, TransportInvariant, PTL
          DEF Spec, ImplementsLadder, Ladder!Spec

=============================================================================
