------------------------------- MODULE LiveData -------------------------------
(***************************************************************************)
(* The console refresh of src/hooks/useDashboardLiveData.ts: requests      *)
(* shared through a map, abort controllers, the polling loop, refreshes    *)
(* caused by events, the switch between live and demo data, a hidden tab   *)
(* and the end of the page, over the transport TransportLadder promises    *)
(* and the requests of RequestClient.                                      *)
(*                                                                         *)
(* A JavaScript task is one step.  The rejections of an aborted request    *)
(* are microtasks: they are steps of their own, and no task begins while   *)
(* one is due (Calm).  Effects run with the change that causes them,       *)
(* except the polling effect after a change of the transport's mode, which *)
(* React renders later.  What a request returns is the version of the      *)
(* server's content it read.                                               *)
(***************************************************************************)
EXTENDS Naturals, FiniteSets, RequestClient

CONSTANTS
  Servers,     \* API base URLs
  NoUrl,       \* a base URL that normalizeBaseUrl rejects
  Keys,        \* the requests of one refresh: snapshot, jobs, schedules, workers
  Presets,     \* polling intervals in seconds; 0 is paused
  MaxVersion,  \* the servers' content changes this often
  MaxSlots,    \* refreshes in flight at once, at most
  Stored,      \* the settings the page may be loaded with at first
  Defaults,    \* the settings of a page that finds none stored
  MaxMoves     \* bound on the steps of the operator, failures and events, see Spend

ASSUME LiveDataAssumption ==
  /\ NoUrl \notin Servers /\ Servers # {} /\ Keys # {}
  /\ Presets \subseteq Nat /\ MaxVersion \in Nat
  /\ MaxSlots \in Nat \ {0} /\ MaxMoves \in Nat

VARIABLES
  settings,  \* liveMode, liveUpdates, poll (the preset) and url
  page,      \* "visible", "hidden" or "gone" (unmounted)
  version,   \* 0..MaxVersion: how often the servers' content has changed
  fetch,     \* the refs and state of the refresh, see Fetch0
  data,      \* consoleData
  loop,      \* the polling effect in force
  events,    \* pending: events to flush; flush and debounce: timers armed
  rung, live, \* the transport, as TransportLadder has it
  status,    \* transportStatus: mode and state
  spent

vars == <<settings, page, version, fetch, data, loop, events, rung, live, status, spent>>

\* The URL is valid and EventSource exists; retries on a rung show no
\* difference here.
Transport == INSTANCE TransportLadder
  WITH Limit <- [m \in {"websocket", "sse"} |-> 1],
       can <- [socket |-> TRUE, sse |-> TRUE], tries <- 0

-----------------------------------------------------------------------------
(* The parts of the state.                                                 *)

Gens == {1, 2}
Slots == 1..MaxSlots
Settings == [liveMode : BOOLEAN, liveUpdates : BOOLEAN, poll : Presets, url : Servers \cup {NoUrl}]

ASSUME SettingsAssumption == Stored \subseteq Settings /\ Defaults \in Settings

\* The part of the console data one request fills: whose content and which.
NoRow == [url |-> NoUrl, v |-> 0]
NoRows == [k \in Keys |-> NoRow]

\* A call: "none", "sent" or "aborted"; by is the refresh whose controller can
\* abort it, if any, row the server it went to and the content there when it was made.
NoRequest == [state |-> "none", by |-> 0, row |-> NoRow]

\* A refresh in flight: the calls it waits for and what it got.
NoRefresh == [active |-> FALSE, aborted |-> FALSE, quiet |-> FALSE,
              wait |-> [k \in Keys |-> 0], got |-> NoRows]

Fetch0 == [
  refresh |-> [r \in Slots |-> NoRefresh],
  req |-> [q \in Keys \X Gens |-> NoRequest],
  map |-> [k \in Keys |-> 0],          \* requestMapRef: the call of each key
  promise |-> 0,                       \* fetchPromiseRef: the refresh
  controller |-> 0,                    \* fetchControllerRef: the refresh
  loading |-> TRUE, refreshing |-> FALSE,
  error |-> "",                        \* globalError
  failures |-> 0,                      \* consecutiveFailures
  succeeded |-> FALSE]                 \* lastSuccessfulAt is set

\* formatRequestError: the messages a property tells apart
FormatRequestError(kind) == IF kind \in {"aborted", "config"} THEN kind ELSE "failed"

\* events: the log holds events of the stream
EmptyLive == [source |-> "live", rows |-> NoRows, events |-> FALSE]
DemoData == [source |-> "demo", rows |-> NoRows, events |-> FALSE]

\* phase: "off", "awaiting" the refresh on, or its timer "armed"; mode: the
\* transport mode the effect was made for.
NoLoop == [phase |-> "off", on |-> 0, mode |-> "none"]

NoEvents == [pending |-> FALSE, flush |-> FALSE, debounce |-> FALSE]

-----------------------------------------------------------------------------
(* What the page shows.                                                    *)

\* The transport badge, from the settings s, the status st and the refresh f.
TransportMode(s, st, f) ==
  IF ~s.liveMode THEN "demo"
  ELSE IF s.url = NoUrl THEN "offline"
  ELSE IF s.liveUpdates /\ st.state = "live" /\ st.mode \in {"websocket", "sse"} THEN st.mode
  ELSE IF s.poll > 0 THEN (IF f.failures > 0 /\ ~f.succeeded THEN "offline" ELSE "polling")
  ELSE IF f.failures > 0 THEN "degraded" ELSE "offline"

\* liveHealth
LiveHealth(s, st, f) ==
  IF ~s.liveMode THEN "demo"
  ELSE IF s.url = NoUrl THEN "offline"
  ELSE IF s.poll = 0 /\ ~s.liveUpdates THEN "paused"
  ELSE IF f.failures > 0 THEN (IF f.succeeded THEN "degraded" ELSE "offline")
  ELSE IF s.liveUpdates /\ st.state = "connecting" /\ f.succeeded THEN "reconnecting"
  ELSE IF s.liveUpdates /\ TransportMode(s, st, f) = "polling" THEN "degraded"
  ELSE "live"

-----------------------------------------------------------------------------
(* The refresh.                                                            *)

\* Aborting the controller of refresh r rejects the calls made with it.
Abort(f, r) ==
  IF r = 0 THEN f
  ELSE [f EXCEPT !.refresh[r].aborted = TRUE,
                 !.req = [q \in Keys \X Gens |->
                            IF f.req[q].by = r /\ f.req[q].state # "none"
                            THEN [f.req[q] EXCEPT !.state = "aborted"] ELSE f.req[q]]]

HasSlot(f) == \E r \in Slots : ~f.refresh[r].active
FreeSlot(f) == CHOOSE r \in Slots : ~f.refresh[r].active
FreeGen(f, k) == IF f.req[<<k, 1>>].state = "none" THEN 1 ELSE 2

\* Mutant: every refresh makes its own calls and nothing can abort them.
NoDedupe(f, s, quiet) ==
  LET r == FreeSlot(f)
      gen == [k \in Keys |-> FreeGen(f, k)]
  IN  [f EXCEPT
         !.refresh[r] = [NoRefresh EXCEPT !.active = TRUE, !.quiet = quiet, !.wait = gen],
         !.req = [q \in Keys \X Gens |->
                    IF gen[q[1]] = q[2]
                    THEN [state |-> "sent", by |-> r, row |-> [url |-> s.url, v |-> version]]
                    ELSE f.req[q]],
         !.map = gen, !.promise = r]

\* The calls of a refresh, through requestJson of the hook: a call in flight
\* under the same key is joined, whoever made it and for whichever server.
MakeRequests(f, s, quiet) ==
  LET r == FreeSlot(f)
      gen == [k \in Keys |-> IF f.map[k] # 0 THEN f.map[k] ELSE FreeGen(f, k)]
  IN  [f EXCEPT
         !.refresh[r] = [NoRefresh EXCEPT !.active = TRUE, !.quiet = quiet, !.wait = gen],
         !.req = [q \in Keys \X Gens |->
                    IF f.map[q[1]] = 0 /\ gen[q[1]] = q[2]
                    THEN [state |-> "sent", by |-> r, row |-> [url |-> s.url, v |-> version]]
                    ELSE f.req[q]],
         !.map = gen, !.promise = r, !.controller = r]

\* refreshConsole
RefreshConsole(f, s, force, quiet) ==
  IF ~s.liveMode THEN f
  ELSE IF s.url = NoUrl
  THEN [f EXCEPT !.loading = FALSE, !.refreshing = @ /\ quiet, !.error = "config",
                 !.failures = IF @ = 0 THEN 1 ELSE @]
  ELSE IF f.promise # 0 /\ ~force THEN f
  ELSE LET g == MakeRequests(Abort(f, f.controller), s, quiet)
       IN  IF ~f.succeeded THEN [g EXCEPT !.loading = TRUE]
           ELSE IF ~quiet THEN [g EXCEPT !.refreshing = TRUE] ELSE g

\* The calls that outlive the refreshes in done: nothing refers to the controller
\* of a refresh that has ended.
Orphaned(req, done) ==
  [q \in Keys \X Gens |-> IF req[q].by \in done THEN [req[q] EXCEPT !.by = 0] ELSE req[q]]

\* Mutant: only a refresh that was not aborted cleans up after itself.
FinallyUnlessAborted(f, done) ==
  LET over == {r \in done : ~f.refresh[r].aborted}
  IN  [f EXCEPT !.controller = IF @ \in over THEN 0 ELSE @,
                !.promise = IF over = {} THEN @ ELSE 0,
                !.loading = @ /\ over = {},
                !.refreshing = @ /\ \A r \in over : f.refresh[r].quiet,
                !.req = Orphaned(@, done),
                !.refresh = [r \in Slots |-> IF r \in done THEN NoRefresh ELSE f.refresh[r]]]

\* The finally block of each refresh in done.  It forgets the promise even when
\* that is another refresh's.
Finally(f, done) ==
  [f EXCEPT !.controller = IF @ \in done THEN 0 ELSE @,
            !.promise = IF done = {} THEN @ ELSE 0,
            !.loading = @ /\ done = {},
            !.refreshing = @ /\ \A r \in done : f.refresh[r].quiet,
            !.req = Orphaned(@, done),
            !.refresh = [r \in Slots |-> IF r \in done THEN NoRefresh ELSE f.refresh[r]]]

\* The call q ends: it leaves the map, and its row reaches the refreshes that
\* wait for it.
Deliver(f, q, row) ==
  [f EXCEPT !.req[q] = NoRequest, !.map[q[1]] = 0,
            !.refresh = [r \in Slots |->
               IF f.refresh[r].active /\ f.refresh[r].wait[q[1]] = q[2]
               THEN [f.refresh[r] EXCEPT !.wait[q[1]] = 0, !.got[q[1]] = row]
               ELSE f.refresh[r]]]

Waiting(f, q) == {r \in Slots : f.refresh[r].active /\ f.refresh[r].wait[q[1]] = q[2]}

\* Of the refreshes that end here, the one whose controller is not aborted.
Unaborted(f, done) == {r \in done : ~f.refresh[r].aborted}

\* Mutant: polling ends with a refresh that failed.
LoopEndsOnFailure(f, done) ==
  IF loop.phase = "awaiting" /\ loop.on \in done
  THEN IF settings.poll = 0 \/ f.failures > 0 THEN [loop EXCEPT !.phase = "off", !.on = 0]
       ELSE [loop EXCEPT !.phase = "armed", !.on = 0]
  ELSE loop

\* The polling effect goes on when the refresh it awaits has ended: scheduleNext
\* arms the timer unless polling is paused.  Its delay (getNextPollDelay) is
\* left out: the timer fires at some time.
LoopAfter(f, done) ==
  IF loop.phase = "awaiting" /\ loop.on \in done
  THEN IF settings.poll = 0 THEN [loop EXCEPT !.phase = "off", !.on = 0]
       ELSE [loop EXCEPT !.phase = "armed", !.on = 0]
  ELSE loop

-----------------------------------------------------------------------------
(* Effects.                                                                *)

\* Mutant: a switch between live and demo lets the refresh go on.
ModeEffectWithoutAbort(f, on) ==
  [f EXCEPT !.loading = on, !.refreshing = FALSE, !.error = "", !.failures = 0, !.succeeded = FALSE]

\* The effect on liveMode, as far as the refresh is concerned.  It keeps the
\* promise and the map.
ModeEffect(f, on) ==
  [Abort(f, f.controller) EXCEPT
     !.loading = on, !.refreshing = FALSE, !.error = "", !.failures = 0, !.succeeded = FALSE]

\* Whether the transport effect makes a manager.
WantsStream(s, p) == s.liveMode /\ s.url # NoUrl /\ p = "visible" /\ s.liveUpdates

\* The status once the cleanup has stopped the manager, if there was one: a
\* manager that never connected reports its initial mode.
StoppedStatus ==
  IF rung = "off" THEN status
  ELSE [mode |-> IF status.state \in {"connecting", "live"} THEN status.mode ELSE "polling",
        state |-> IF page = "visible" THEN "polling" ELSE "paused"]

\* The transport effect's own status, over the status st it finds.
StatusEffect(s, p, st) ==
  IF ~s.liveMode THEN st
  ELSE IF s.url = NoUrl THEN [mode |-> "offline", state |-> "offline"]
  ELSE IF p # "visible" THEN [st EXCEPT !.state = "paused"]
  ELSE IF s.liveUpdates THEN st
  ELSE IF s.poll > 0 THEN [mode |-> "polling", state |-> "polling"]
  ELSE [mode |-> "offline", state |-> "paused"]

TransportEffect(s, p, st) ==
  /\ IF WantsStream(s, p) THEN Transport!At("websocket", 0) ELSE Transport!Stop
  /\ status' = StatusEffect(s, p, st)

\* The polling effect begins with a refresh ...
PollingEffect(f, s, p) ==
  IF ~s.liveMode \/ (s.url # NoUrl /\ p # "visible") THEN f
  ELSE RefreshConsole(f, s, FALSE, s.url = NoUrl \/ f.succeeded)

\* Mutant: the polling effect ignores that the tab is hidden.
LoopWhenHidden(f, s, p, mode) ==
  IF s.liveMode /\ s.url # NoUrl
  THEN [phase |-> "awaiting", on |-> f.promise, mode |-> mode]
  ELSE NoLoop

\* ... and waits for it; f is what PollingEffect left.
LoopEffect(f, s, p, mode) ==
  IF s.liveMode /\ s.url # NoUrl /\ p = "visible"
  THEN [phase |-> "awaiting", on |-> f.promise, mode |-> mode]
  ELSE NoLoop

ModeStatus(on) == IF on THEN [mode |-> "offline", state |-> "idle"] ELSE [mode |-> "demo", state |-> "demo"]

\* The page is loaded with settings s, in front or in the background.
Load(s, p) ==
  LET st == StatusEffect(s, p, ModeStatus(s.liveMode))
      f == PollingEffect(ModeEffect(Fetch0, s.liveMode), s, p)
  IN  [data |-> IF s.liveMode THEN EmptyLive ELSE DemoData, status |-> st, fetch |-> f,
       loop |-> LoopEffect(f, s, p, st.mode), rung |-> IF WantsStream(s, p) THEN "websocket" ELSE "off"]

Init ==
  /\ settings \in Stored /\ page \in {"visible", "hidden"}
  /\ version = 0
  /\ LET l == Load(settings, page)
     IN  data = l.data /\ status = l.status /\ fetch = l.fetch /\ loop = l.loop /\ rung = l.rung
  /\ events = NoEvents /\ live = FALSE
  /\ spent = 0

\* What usePersistentState reads of the settings s it wrote: a blank URL is
\* removed from the store, and without a store all are the defaults.
Restored(s) ==
  {s, Defaults} \cup (IF s.url = NoUrl THEN {[s EXCEPT !.url = Defaults.url]} ELSE {})

-----------------------------------------------------------------------------
(* Steps.                                                                  *)

\* No rejection of an aborted call is due: the next task may begin.
Calm == \A q \in Keys \X Gens : fetch.req[q].state # "aborted"

Task == Calm /\ page # "gone"

Spend == spent < MaxMoves /\ spent' = spent + 1

\* One render with the settings s; the effects follow.
ApplySettings(s) ==
  /\ Task /\ page = "visible" /\ HasSlot(fetch) /\ Spend
  /\ s # settings
  /\ settings' = s
  /\ LET switched == s.liveMode # settings.liveMode
         f == IF switched THEN ModeEffect(fetch, s.liveMode) ELSE fetch
         st == IF switched THEN ModeStatus(s.liveMode) ELSE StoppedStatus
     IN  /\ TransportEffect(s, page, st)
         /\ fetch' = PollingEffect(f, s, page)
         /\ data' = IF ~switched THEN data ELSE IF s.liveMode THEN EmptyLive ELSE DemoData
         /\ events' = IF switched THEN NoEvents ELSE events
  /\ loop' = LoopEffect(fetch', s, page, status'.mode)
  /\ UNCHANGED <<page, version>>

\* The operator changes one setting ...
ChangeSettings(s) ==
  /\ Cardinality({x \in DOMAIN s : s[x] # settings[x]}) = 1
  /\ ApplySettings(s)

\* ... or restores the endpoint and both live switches in one render.
ResetConnectionSettings ==
  ApplySettings([settings EXCEPT !.url = Defaults.url, !.liveMode = TRUE, !.liveUpdates = TRUE])

\* The tab is hidden or comes back.
VisibilityChanges ==
  /\ Task /\ HasSlot(fetch) /\ Spend
  /\ page' = IF page = "visible" THEN "hidden" ELSE "visible"
  /\ TransportEffect(settings, page', StoppedStatus)
  /\ fetch' = PollingEffect(fetch, settings, page')
  /\ loop' = LoopEffect(fetch', settings, page', status'.mode)
  /\ UNCHANGED <<settings, version, data, events>>

\* The console is unmounted.
Unmount ==
  /\ Task /\ Spend
  /\ page' = "gone"
  /\ fetch' = Abort(fetch, fetch.controller)
  /\ loop' = NoLoop /\ events' = NoEvents
  /\ Transport!Stop
  /\ UNCHANGED <<settings, version, data, status>>

\* The page is loaded again: its calls, timers and streams are gone.
Reload(s, p) ==
  /\ Calm /\ s \in Restored(settings) /\ Spend
  /\ settings' = s /\ page' = p
  /\ LET l == Load(s, p)
     IN  data' = l.data /\ status' = l.status /\ fetch' = l.fetch /\ loop' = l.loop /\ rung' = l.rung
  /\ events' = NoEvents /\ live' = FALSE
  /\ UNCHANGED version

\* The polling effect runs again for a new transport mode.
PollingEffectReruns ==
  /\ Task /\ HasSlot(fetch)
  /\ loop.phase # "off" \/ (settings.liveMode /\ settings.url # NoUrl /\ page = "visible")
  /\ loop.mode # status.mode
  /\ fetch' = PollingEffect(fetch, settings, page)
  /\ loop' = LoopEffect(fetch', settings, page, status.mode)
  /\ UNCHANGED <<settings, page, version, data, events, rung, live, status, spent>>

\* The polling timer: run(true).
PollFires ==
  /\ Task /\ HasSlot(fetch)
  /\ loop.phase = "armed"
  /\ fetch' = RefreshConsole(fetch, settings, FALSE, TRUE)
  /\ loop' = [loop EXCEPT !.phase = "awaiting", !.on = fetch'.promise]
  /\ UNCHANGED <<settings, page, version, data, events, rung, live, status, spent>>

\* A refresh forced by the refresh button (not quiet), by a manual reconnect or
\* by the answer to an operator's command, which may find the tab hidden.
ForcedRefresh(quiet) ==
  /\ Task /\ (quiet \/ page = "visible") /\ HasSlot(fetch) /\ settings.liveMode /\ Spend
  /\ fetch' = RefreshConsole(fetch, settings, TRUE, quiet)
  /\ status' = IF settings.url = NoUrl THEN [mode |-> "offline", state |-> "offline"] ELSE status
  /\ UNCHANGED <<settings, page, version, data, loop, events, rung, live>>

\* The status updateTransportStatus stores for the transport's new state.
Report ==
  status' = [mode |-> rung', state |-> IF live' THEN "live"
                                       ELSE IF rung' = "polling" THEN "polling" ELSE "connecting"]

\* The stream opens.
TransportOpens ==
  /\ Task
  /\ Transport!Open /\ Report
  /\ UNCHANGED <<settings, page, version, fetch, data, loop, events, spent>>

\* The stream fails or is probed, and the transport goes down or begins again.
TransportMoves ==
  /\ Task /\ rung # "off" /\ Spend
  /\ Transport!Begin \/ Transport!Descend
  /\ Report
  /\ UNCHANGED <<settings, page, version, fetch, data, loop, events>>

\* A message of the open stream: onmessage and queueLiveEvent.
EventArrives ==
  /\ Task /\ live /\ Spend
  /\ events' = [events EXCEPT !.pending = TRUE, !.flush = TRUE]
  /\ UNCHANGED <<settings, page, version, fetch, data, loop, rung, live, status>>

\* flushPendingEvents
FlushFires ==
  /\ Task /\ events.flush
  /\ data' = [data EXCEPT !.events = @ \/ events.pending]
  /\ events' = [pending |-> FALSE, flush |-> FALSE, debounce |-> events.debounce \/ events.pending]
  /\ UNCHANGED <<settings, page, version, fetch, loop, rung, live, status, spent>>

\* The timer of scheduleConsoleRefresh.
DebounceFires ==
  /\ Task /\ HasSlot(fetch) /\ events.debounce
  /\ events' = [events EXCEPT !.debounce = FALSE]
  /\ fetch' = RefreshConsole(fetch, settings, FALSE, TRUE)
  /\ UNCHANGED <<settings, page, version, data, loop, rung, live, status, spent>>

\* The platform's state changes.
ServerChanges ==
  /\ Calm /\ version < MaxVersion
  /\ version' = version + 1
  /\ UNCHANGED <<settings, page, fetch, data, loop, events, rung, live, status, spent>>

\* An answer is accepted: the server read its content v at some time after the
\* call was made.  The last answer completes the refresh.
RequestSucceeds(q, v) ==
  /\ Calm /\ fetch.req[q].state = "sent"
  /\ v \in fetch.req[q].row.v .. version
  /\ LET g == Deliver(fetch, q, [url |-> fetch.req[q].row.url, v |-> v])
         done == {r \in Waiting(fetch, q) : \A k \in Keys : g.refresh[r].wait[k] = 0}
         winners == Unaborted(g, done)
         f == IF winners = {} THEN g
              ELSE [g EXCEPT !.succeeded = TRUE, !.failures = 0, !.error = ""]
     IN  /\ fetch' = Finally(f, done)
         /\ data' = IF winners = {} THEN data
                    ELSE [source |-> "live", rows |-> g.refresh[CHOOSE r \in winners : TRUE].got,
                          events |-> data.events /\ data.source = "live"]
         /\ loop' = LoopAfter(f, done)
  /\ UNCHANGED <<settings, page, version, events, rung, live, status, spent>>

\* Promise.all rejects with the first rejection; the other calls go on.
Reject(q, kind) ==
  /\ LET g == Deliver(fetch, q, NoRow)
         done == Waiting(fetch, q)
         f == IF Unaborted(g, done) = {} THEN g
              ELSE [g EXCEPT !.failures = @ + 1, !.error = FormatRequestError(kind)]
     IN  /\ fetch' = Finally(f, done)
         /\ loop' = LoopAfter(f, done)
  /\ UNCHANGED <<settings, page, version, data, events, rung, live, status>>

\* The call times out, the network fails, or the answer is refused.
RequestFails(q, kind) ==
  /\ Calm /\ fetch.req[q].state = "sent" /\ Spend
  /\ Reject(q, kind)

\* The microtask of an aborted call.
AbortedRequestRejects(q) ==
  /\ fetch.req[q].state = "aborted"
  /\ Reject(q, ClassifyFetchError("abort"))
  /\ UNCHANGED spent

RequestAnswered(q) == \E v \in 0..MaxVersion : RequestSucceeds(q, v)

Next ==
  \/ \E s \in Settings : ChangeSettings(s) \/ \E p \in {"visible", "hidden"} : Reload(s, p)
  \/ ResetConnectionSettings \/ VisibilityChanges \/ Unmount
  \/ PollingEffectReruns \/ PollFires \/ FlushFires \/ DebounceFires
  \/ \E quiet \in BOOLEAN : ForcedRefresh(quiet)
  \/ TransportOpens \/ TransportMoves \/ EventArrives
  \/ ServerChanges
  \/ \E q \in Keys \X Gens :
       \/ RequestAnswered(q) \/ AbortedRequestRejects(q)
       \/ \E kind \in Failures : RequestFails(q, kind)

\* The browser runs due timers, effects and microtasks, and every call ends:
\* its timeout sees to that.
Fairness ==
  /\ WF_vars(PollingEffectReruns) /\ WF_vars(PollFires)
  /\ WF_vars(FlushFires) /\ WF_vars(DebounceFires)
  /\ WF_vars(\E q \in Keys \X Gens : RequestAnswered(q))
  /\ WF_vars(\E q \in Keys \X Gens : AbortedRequestRejects(q))

Spec == Init /\ [][Next]_vars /\ Fairness

-----------------------------------------------------------------------------
(* Properties.                                                             *)

(***************************************************************************)
(* Demo data stays demo data: no refresh that was in flight, no event and  *)
(* no timer of the live mode changes what the demo shows after the switch. *)
(***************************************************************************)
DemoStaysDemo ==
  ~settings.liveMode => data = DemoData /\ events = NoEvents /\ loop = NoLoop

(***************************************************************************)
(* An answer never replaces a newer one of the same server, however calls  *)
(* overlap, fail and are joined.                                           *)
(***************************************************************************)
DataNeverGoesBack ==
  [][\A k \in Keys : data'.rows[k].url = data.rows[k].url => data'.rows[k].v >= data.rows[k].v]_vars

(***************************************************************************)
(* The spinners tell the truth: a visible live console that is loading or  *)
(* refreshing has a refresh in flight.                                     *)
(***************************************************************************)
BusyFlagsMeanWork ==
  page = "visible" =>
    /\ fetch.loading => \E r \in Slots : fetch.refresh[r].active
    /\ fetch.refreshing => \E r \in Slots : fetch.refresh[r].active /\ ~fetch.refresh[r].quiet

(***************************************************************************)
(* "Request was cancelled." is never shown: the hook aborts refreshes to   *)
(* replace them, and the replacement is no failure of the API.             *)
(***************************************************************************)
CancellationIsSilent == fetch.error # "aborted"

Watching == settings.liveMode /\ settings.url # NoUrl /\ settings.poll > 0 /\ page = "visible"
UpToDate ==
  /\ data.source = "live"
  /\ \A k \in Keys : data.rows[k] = [url |-> settings.url, v |-> version]
  /\ LiveHealth(settings, status, fetch) # "offline"

(***************************************************************************)
(* A console that polls catches up: once the operator lets the settings be *)
(* and the calls no longer fail, it shows what the chosen server has, even *)
(* after answers of another server were joined or refreshes were lost.     *)
(***************************************************************************)
CatchesUp == <>[]Watching => <>[]UpToDate

(***************************************************************************)
(* A tab that stays hidden, and a page that is gone, come to rest: no      *)
(* timer, no stream, no call.                                              *)
(***************************************************************************)
HiddenComesToRest ==
  <>[](page # "visible") =>
    <>[](/\ loop.phase = "off" /\ events = NoEvents /\ rung = "off"
         /\ \A q \in Keys \X Gens : fetch.req[q].state = "none")
=============================================================================
