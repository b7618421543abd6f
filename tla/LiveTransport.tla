---------------------------- MODULE LiveTransport ----------------------------
(***************************************************************************)
(* LiveTransportManager of src/lib/live-transport.ts: the dashboard's      *)
(* realtime stream, websocket first, then server-sent events, then         *)
(* polling, with retries, probes and the browser's connections.            *)
(*                                                                         *)
(* A JavaScript task (a timer, an event of a connection, a call from the   *)
(* hook) is one step: everything it calls runs before the next task.  A    *)
(* cleared timer never fires.  Delays are left out, so a timer fires at    *)
(* any time after it is armed.  The reasons and dates of the status are    *)
(* left out too; mode, state, attempt and whether a retry is announced     *)
(* are the fields emitStatus reports, at the end of every task below.      *)
(***************************************************************************)
EXTENDS Naturals, FiniteSets

CONSTANTS
  Conns,     \* names for connections that are not closed yet
  None,
  Limit,     \* WEBSOCKET_ATTEMPT_LIMIT and SSE_ATTEMPT_LIMIT
  MaxCalls   \* bound on the calls from the hook (start, stop, retryNow)

Streams == {"websocket", "sse"}

ASSUME TransportAssumption ==
  /\ None \notin Conns \cup [mode : Streams, attempt : Nat]
  /\ Limit \in [Streams -> Nat \ {0}]
  /\ MaxCalls \in Nat

VARIABLES
  can,        \* can.socket: the socket URL is valid; can.sse: EventSource
              \* exists and its URL is valid
  stopped,    \* no manager runs: none was created yet or stop was called
  mode, state, attempt, nextRetryAt,
  retryTimer, \* None or the mode and attempt the timer will connect with
  probeTimer, \* armed?  The probe connects to the websocket, attempt 0
  socket,     \* the connection in use, or None
  eventSource,
  conn,       \* [Conns -> Connection]: the browser's side
  calls

status == <<mode, state, attempt, nextRetryAt>>
timers == <<retryTimer, probeTimer>>
vars == <<can, stopped, status, timers, socket, eventSource, conn, calls>>

Abilities == [socket : BOOLEAN, sse : BOOLEAN]
States == {"idle", "connecting", "live", "polling", "paused", "demo"}
Timer == [mode : Streams, attempt : Nat]

\* doomed: the handlers are gone and the socket closes itself once it opens.
\* attempt is the one the handlers of the connection were created with.
Closed == [phase |-> "closed", kind |-> "websocket", attempt |-> 0, doomed |-> FALSE]
Connection == [phase : {"closed", "connecting", "open"}, kind : Streams,
               attempt : Nat, doomed : BOOLEAN]

TransportTypeOK ==
  /\ can \in Abilities /\ stopped \in BOOLEAN
  /\ mode \in Streams \cup {"polling"} /\ state \in States
  /\ attempt \in Nat /\ nextRetryAt \in BOOLEAN
  /\ retryTimer \in Timer \cup {None} /\ probeTimer \in BOOLEAN
  /\ socket \in Conns \cup {None} /\ eventSource \in Conns \cup {None}
  /\ conn \in [Conns -> Connection]
  /\ calls \in 0..MaxCalls

Init ==
  /\ can \in Abilities
  /\ stopped = TRUE
  /\ mode = "polling" /\ state = "idle" /\ attempt = 0 /\ nextRetryAt = FALSE
  /\ retryTimer = None /\ probeTimer = FALSE
  /\ socket = None /\ eventSource = None
  /\ conn = [c \in Conns |-> Closed]
  /\ calls = 0

-----------------------------------------------------------------------------
(* The private methods, as the effects a task composes.                    *)

Status(m, s, n, announced) ==
  mode' = m /\ state' = s /\ attempt' = n /\ nextRetryAt' = announced

\* Mutant: closeCurrent forgets a socket that is still connecting.
ForgetsConnecting(cs) ==
  [c \in Conns |->
     IF c \notin {socket, eventSource} THEN cs[c]
     ELSE IF c = socket /\ cs[c].phase = "connecting" THEN cs[c] ELSE Closed]

\* closeCurrent: what becomes of the connections cs.  A socket that is still
\* connecting cannot be closed quietly; it closes when it opens.
AfterCloseCurrent(cs) ==
  [c \in Conns |->
     IF c \notin {socket, eventSource} THEN cs[c]
     ELSE IF c = socket /\ cs[c].phase = "connecting" THEN [cs[c] EXCEPT !.doomed = TRUE]
     ELSE Closed]

\* Mutant: the polling fallback forgets to probe.
EnterPollingForGood(cs) ==
  /\ Status("polling", "polling", 0, TRUE)
  /\ retryTimer' = None /\ probeTimer' = FALSE
  /\ socket' = None /\ eventSource' = None
  /\ conn' = cs

\* enterPolling with scheduleProbe; cs are the connections closeCurrent leaves.
EnterPolling(cs) ==
  /\ Status("polling", "polling", 0, TRUE)
  /\ retryTimer' = None /\ probeTimer' = TRUE
  /\ socket' = None /\ eventSource' = None
  /\ conn' = cs

\* Mutant: the retry is made with the attempt that failed.
ScheduleSameAttempt(m, n, cs, probe) ==
  /\ Status(m, "connecting", n, TRUE)
  /\ retryTimer' = [mode |-> m, attempt |-> n - 1] /\ probeTimer' = probe
  /\ socket' = None /\ eventSource' = None
  /\ conn' = cs

\* scheduleRetry arms its timer beside the probe, if one is armed.
ScheduleRetry(m, n, cs, probe) ==
  /\ Status(m, "connecting", n, TRUE)
  /\ retryTimer' = [mode |-> m, attempt |-> n] /\ probeTimer' = probe
  /\ socket' = None /\ eventSource' = None
  /\ conn' = cs

\* A new connection of the given kind takes a closed name.
Opening(c, kind, n, cs) ==
  /\ cs[c].phase = "closed"
  /\ conn' = [cs EXCEPT ![c] = [phase |-> "connecting", kind |-> kind,
                                attempt |-> n, doomed |-> FALSE]]

\* connect("sse", n): clearTimers, closeCurrent, openEventSource.  The status
\* keeps the retry it announced before.
ConnectEventSource(n, cs, announced) ==
  IF can.sse
  THEN /\ Status("sse", "connecting", n, announced)
       /\ retryTimer' = None /\ probeTimer' = FALSE
       /\ socket' = None
       /\ \E c \in Conns : Opening(c, "sse", n, cs) /\ eventSource' = c
  ELSE EnterPolling(cs)

\* Mutant: a stream that dropped goes straight to polling.
SkipsARung(m, n, cs, announced, probe) ==
  IF n + 1 < Limit[m] THEN ScheduleRetry(m, n + 1, cs, probe) ELSE EnterPolling(cs)

\* handleRealtimeFailure for the failed attempt n of stream m; cs are the
\* connections that remain.
HandleRealtimeFailure(m, n, cs, announced, probe) ==
  IF n + 1 < Limit[m] THEN ScheduleRetry(m, n + 1, cs, probe)
  ELSE IF m = "websocket" THEN ConnectEventSource(0, cs, announced)
  ELSE EnterPolling(cs)

\* connect("websocket", n): clearTimers, closeCurrent, openWebSocket, whose
\* constructor may throw.
ConnectWebSocket(n, announced) ==
  LET cs == AfterCloseCurrent(conn)
  IN  \/ ~can.socket /\ EnterPolling(cs)
      \/ can.socket /\ HandleRealtimeFailure("websocket", n, cs, announced, FALSE)
      \/ /\ can.socket
         /\ Status("websocket", "connecting", n, announced)
         /\ retryTimer' = None /\ probeTimer' = FALSE
         /\ eventSource' = None
         /\ \E c \in Conns : Opening(c, "websocket", n, cs) /\ socket' = c

-----------------------------------------------------------------------------
(* Calls from the hook.                                                    *)

Call == calls < MaxCalls /\ calls' = calls + 1

\* Mutant: the manager begins in the mode it was created with.
StartInOwnMode ==
  /\ stopped /\ Call
  /\ stopped' = FALSE
  /\ can' \in Abilities
  /\ Status("polling", "idle", 0, FALSE)
  /\ retryTimer' = [mode |-> "polling", attempt |-> 0] /\ probeTimer' = FALSE
  /\ socket' = None /\ eventSource' = None
  /\ UNCHANGED conn

\* new LiveTransportManager(...).start().  The hook stops the manager it has
\* before it makes another; the URL may be another one.
Start ==
  /\ stopped /\ Call
  /\ stopped' = FALSE
  /\ can' \in Abilities
  /\ Status("polling", "idle", 0, FALSE)
  /\ retryTimer' = [mode |-> "websocket", attempt |-> 0] /\ probeTimer' = FALSE
  /\ socket' = None /\ eventSource' = None
  /\ UNCHANGED conn

\* stop(nextState)
Stop(next) ==
  /\ ~stopped /\ Call
  /\ stopped' = TRUE
  /\ Status(mode, next, 0, FALSE)
  /\ retryTimer' = None /\ probeTimer' = FALSE
  /\ socket' = None /\ eventSource' = None
  /\ conn' = AfterCloseCurrent(conn)
  /\ UNCHANGED can

\* retryNow
RetryNow ==
  /\ ~stopped /\ Call
  /\ ConnectWebSocket(0, FALSE)
  /\ UNCHANGED <<can, stopped>>

-----------------------------------------------------------------------------
(* Timers.                                                                 *)

\* The timer of start or of scheduleRetry.  nextRetryAt is left as it was.
RetryTimerFires ==
  /\ retryTimer # None
  /\ IF retryTimer.mode = "websocket"
     THEN ConnectWebSocket(retryTimer.attempt, nextRetryAt)
     ELSE ConnectEventSource(retryTimer.attempt, AfterCloseCurrent(conn), nextRetryAt)
  /\ UNCHANGED <<can, stopped, calls>>

\* The timer of scheduleProbe: back to the websocket, from SSE or polling.
ProbeTimerFires ==
  /\ probeTimer
  /\ ConnectWebSocket(0, FALSE)
  /\ UNCHANGED <<can, stopped, calls>>

-----------------------------------------------------------------------------
(* Events of the connections.  Messages and a socket's error event change  *)
(* none of the state kept here; LiveData has the events they deliver.      *)

Connecting(c) == conn[c].phase = "connecting"

\* Mutant: the status keeps announcing a retry.
SocketOpensAnnouncing(c) ==
  /\ c = socket /\ Connecting(c)
  /\ conn' = [conn EXCEPT ![c].phase = "open"]
  /\ Status("websocket", "live", 0, nextRetryAt)
  /\ UNCHANGED <<can, stopped, timers, socket, eventSource, calls>>

\* socket.onopen
SocketOpens(c) ==
  /\ c = socket /\ Connecting(c)
  /\ conn' = [conn EXCEPT ![c].phase = "open"]
  /\ Status("websocket", "live", 0, FALSE)
  /\ UNCHANGED <<can, stopped, timers, socket, eventSource, calls>>

\* source.onopen with scheduleProbe: SSE is kept for a while only.
SourceOpens(c) ==
  /\ c = eventSource /\ Connecting(c)
  /\ conn' = [conn EXCEPT ![c].phase = "open"]
  /\ Status("sse", "live", 0, TRUE)
  /\ probeTimer' = TRUE
  /\ UNCHANGED <<can, stopped, retryTimer, socket, eventSource, calls>>

\* socket.onclose, of a failed upgrade or of a stream that was open.  The
\* attempt is the one the socket was made with.
SocketCloses(c) ==
  /\ c = socket
  /\ HandleRealtimeFailure("websocket", conn[c].attempt, [conn EXCEPT ![c] = Closed],
                           nextRetryAt, probeTimer)
  /\ UNCHANGED <<can, stopped, calls>>

\* source.onerror
SourceFails(c) ==
  /\ c = eventSource
  /\ HandleRealtimeFailure("sse", conn[c].attempt, [conn EXCEPT ![c] = Closed],
                           nextRetryAt, probeTimer)
  /\ UNCHANGED <<can, stopped, calls>>

\* A connection no longer in use opens, and closes itself, or fails.  With its
\* handlers in place it would be ignored: it is not the current one.
AbandonedResolves(c) ==
  /\ c \notin {socket, eventSource} /\ Connecting(c)
  /\ \E after \in {Closed, IF conn[c].doomed THEN Closed ELSE [conn[c] EXCEPT !.phase = "open"]} :
       conn' = [conn EXCEPT ![c] = after]
  /\ UNCHANGED <<can, stopped, status, timers, socket, eventSource, calls>>

ConnectionResolves(c) ==
  \/ SocketOpens(c) \/ SourceOpens(c) \/ AbandonedResolves(c)
  \/ Connecting(c) /\ (SocketCloses(c) \/ SourceFails(c))

Next ==
  \/ Start \/ RetryNow
  \/ \E next \in {"idle", "polling", "paused", "demo"} : Stop(next)
  \/ RetryTimerFires \/ ProbeTimerFires
  \/ \E c \in Conns :
       \/ SocketOpens(c) \/ SocketCloses(c)
       \/ SourceOpens(c) \/ SourceFails(c)
       \/ AbandonedResolves(c)

\* The browser runs due timers and reports the outcome of every connection
\* it is asked to make.
Fairness ==
  /\ WF_vars(RetryTimerFires) /\ WF_vars(ProbeTimerFires)
  /\ \A c \in Conns : WF_vars(ConnectionResolves(c))

Spec == Init /\ [][Next]_vars /\ Fairness

-----------------------------------------------------------------------------
(* Properties.                                                             *)

(***************************************************************************)
(* A running transport is never stranded: a timer is armed or a connection *)
(* is in use, whatever failed in whatever order; and a stopped one is      *)
(* silent: no timer, no connection, no retry announced.                    *)
(***************************************************************************)
NeverStranded ==
  IF stopped
  THEN retryTimer = None /\ ~probeTimer /\ socket = None /\ eventSource = None /\ ~nextRetryAt
  ELSE retryTimer # None \/ probeTimer \/ socket # None \/ eventSource # None

(***************************************************************************)
(* No connection leaks: one that is not in use is still connecting and     *)
(* will close itself when it opens, so the server never keeps a stream     *)
(* nobody reads; and socket and event source are not in use together.      *)
(***************************************************************************)
NoLeakedConnection ==
  /\ socket = None \/ eventSource = None
  /\ \A c \in Conns \ {socket, eventSource} :
       conn[c].phase = "closed" \/ (Connecting(c) /\ conn[c].doomed)

(***************************************************************************)
(* The status tells the truth about retries: the retry it announces while  *)
(* live or polling is an armed probe, a retry that is armed is announced   *)
(* (save the timer of start), and live means that the stream is open.      *)
(***************************************************************************)
StatusIsTrue ==
  /\ state = "live" =>
       LET c == IF mode = "sse" THEN eventSource ELSE socket
       IN  c # None /\ conn[c].phase = "open" /\ conn[c].kind = mode
  /\ state \in {"live", "polling"} /\ nextRetryAt => probeTimer
  /\ (retryTimer # None /\ state # "idle") \/ probeTimer => nextRetryAt

\* The refinement mapping: before the timer of start fires, the transport is
\* about to try the websocket; a retry counts from the attempt its timer or its
\* connection carries, not from the attempt the status shows.
Rung == IF stopped THEN "off" ELSE IF state = "idle" THEN "websocket" ELSE mode
Tries ==
  IF retryTimer # None THEN retryTimer.attempt
  ELSE IF socket # None THEN conn[socket].attempt
  ELSE IF eventSource # None THEN conn[eventSource].attempt ELSE 0

Ladder == INSTANCE TransportLadder
            WITH rung <- Rung, live <- (state = "live"), tries <- Tries

(***************************************************************************)
(* The manager implements the ladder: it goes down one rung at a time and  *)
(* only after the rung's limit of attempts, and returns to the top only by *)
(* beginning again.                                                        *)
(***************************************************************************)
ImplementsLadder == Ladder!Spec

(***************************************************************************)
(* Every attempt to connect comes to an end: a stream opens, or the        *)
(* transport polls, or it is stopped.                                      *)
(***************************************************************************)
AttemptsSettle == Ladder!Settles
=============================================================================
