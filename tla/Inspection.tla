------------------------------ MODULE Inspection ------------------------------
(***************************************************************************)
(* The details of the job in the drawer: refreshInspection and the effects *)
(* around it in src/hooks/useDashboardLiveData.ts.  A job's details are    *)
(* fetched when it is selected, on an interval and after its events; a     *)
(* failed fetch leaves the cached details, or ones made up from the job's  *)
(* row; the row of the console's list overlays the cached one.             *)
(*                                                                         *)
(* The rows come from the refresh of LiveData and from the answers of      *)
(* Console: a row that arrives may be older than the one it replaces, and  *)
(* nothing but that refreshes go on is used of either.  What a row or a    *)
(* part of the details says is the version of the job it shows.            *)
(* An effect runs with the change that causes it, and the rejection of an  *)
(* aborted call comes before the next task (Calm), as in LiveData.         *)
(***************************************************************************)
EXTENDS Naturals, FiniteSets

CONSTANTS
  LiveJobs, DemoJobs,
  NoJob,
  MaxVersion,  \* a job changes this often, at most
  MaxMoves     \* bound on the steps of the operator, failures and events, see Spend

ASSUME InspectionAssumption ==
  /\ LiveJobs \cap DemoJobs = {} /\ NoJob \notin LiveJobs \cup DemoJobs
  /\ MaxVersion \in Nat \ {0} /\ MaxMoves \in Nat

VARIABLES
  mode,      \* liveMode: "live" or "demo"
  page,      \* "visible", "hidden" or "gone" (unmounted)
  polls,     \* pollIntervalMs > 0
  rows,      \* consoleData.jobs: the version of each job's row, 0 when not listed
  selected,  \* selectedJobId
  detail,    \* per job: cache, sig (inspectionSignatureRef), meta and call
  debounce,  \* the jobs with a timer in inspectionDebounceRef
  srv,       \* the version of each job at the server
  spent

vars == <<mode, page, polls, rows, selected, detail, debounce, srv, spent>>

Jobs == LiveJobs \cup DemoJobs

\* JobInspection: the job's row, the rest (attempts, events, graph, records) and
\* who made it.  A part the server could not read is empty: rest 0.
Details(job, rest, by) == [job |-> job, rest |-> rest, by |-> by]
None == Details(0, 0, "nobody")

\* InspectionMeta; at: lastUpdatedAt is set
Meta(busy, error, at) == [busy |-> busy, error |-> error, at |-> at]
NoMeta == Meta(FALSE, FALSE, FALSE)

\* A call of the job's inspection in flight, its promise and its controller: v
\* is the job's version when it was made, prev the signature to compare with.
NoCall == [state |-> "none", v |-> 0, prev |-> None]
Call(j, prev) == [state |-> "sent", v |-> srv[j], prev |-> prev]

NoDetail == [cache |-> None, sig |-> None, meta |-> NoMeta, call |-> NoCall]

Listed(m) == [j \in Jobs |-> IF m = "demo" /\ j \in DemoJobs THEN 1 ELSE 0]

-----------------------------------------------------------------------------
(* Operators on the details.                                               *)

\* createInspectionFallback, from the row
CreateInspectionFallback(row) == Details(row, row, "console")

\* getInspection: what is cached, or else the fallback for a listed job.
GetInspection(x, row) ==
  IF x.cache # None THEN x.cache ELSE IF row # 0 THEN CreateInspectionFallback(row) ELSE None

\* Mutant: the fallback replaces what is cached.
OverwritingFallback(x, row) ==
  IF row = 0 THEN x
  ELSE [x EXCEPT !.sig = CreateInspectionFallback(row), !.cache = CreateInspectionFallback(row)]

\* The signature is the serialized value: equal for equal details only.
ApplyInspectionFallback(x, row) ==
  LET fallback == GetInspection(x, row)
  IN  IF fallback \in {None, x.sig} THEN x ELSE [x EXCEPT !.sig = fallback, !.cache = fallback]

\* refreshInspection, up to its await.  No caller forces it: a call in flight is
\* joined.
RefreshInspection(x, j) ==
  IF mode = "demo"
  THEN [ApplyInspectionFallback(x, rows[j]) EXCEPT !.meta = Meta(FALSE, FALSE, TRUE)]
  ELSE IF x.call.state # "none" THEN x
  ELSE [x EXCEPT !.call = Call(j, x.sig), !.meta = Meta(TRUE, FALSE, x.meta.at)]

\* The effect on the rows and the selection: the row goes into the cached
\* details of the selected job.
SyncRow(ds, rs, sel) ==
  IF sel = NoJob THEN ds
  ELSE IF ds[sel].cache = None \/ rs[sel] = 0 THEN ds
  ELSE [ds EXCEPT ![sel].cache.job = rs[sel]]

\* What the drawer shows.
SelectedInspection(j) ==
  LET x == GetInspection(detail[j], rows[j])
  IN  IF rows[j] = 0 THEN x ELSE [x EXCEPT !.job = rows[j]]

-----------------------------------------------------------------------------
(* Steps.                                                                  *)

\* The job the address names when the page is loaded, if any: the effects fetch
\* its details and then drop the selection unless the job is listed: no job
\* is at first in live mode.
Linked(j) ==
  /\ mode = "live" => j \notin DemoJobs
  /\ selected = IF j # NoJob /\ rows[j] # 0 THEN j ELSE NoJob
  /\ detail = [k \in Jobs |-> IF k = j THEN RefreshInspection(NoDetail, k) ELSE NoDetail]

Init ==
  /\ mode \in {"live", "demo"} /\ page \in {"visible", "hidden"} /\ polls \in BOOLEAN
  /\ rows = Listed(mode) /\ srv = [j \in LiveJobs |-> 1]
  /\ \E j \in Jobs \cup {NoJob} : Linked(j)
  /\ debounce = {} /\ spent = 0

Calm == \A j \in Jobs : detail[j].call.state # "aborted"
Task == Calm /\ page # "gone"
Spend == spent < MaxMoves /\ spent' = spent + 1

\* A job is opened in the drawer, or the drawer is closed.
SelectJob(j) ==
  /\ Task /\ page = "visible" /\ Spend
  /\ j # selected /\ (j # NoJob => rows[j] # 0)
  /\ selected' = j
  /\ detail' = IF j = NoJob THEN detail
               ELSE SyncRow([detail EXCEPT ![j] = RefreshInspection(@, j)], rows, j)
  /\ UNCHANGED <<mode, page, polls, rows, debounce, srv>>

\* getDrawerRefreshInterval: no interval while polling is paused
DrawerRefreshes == selected # NoJob /\ mode = "live" /\ page = "visible" /\ polls

\* The drawer's interval.
IntervalFires ==
  /\ Task /\ DrawerRefreshes
  /\ detail' = [detail EXCEPT ![selected] = RefreshInspection(@, selected)]
  /\ UNCHANGED <<mode, page, polls, rows, selected, debounce, srv, spent>>

\* A message about the selected job: onEvent and scheduleInspectionRefresh.
EventArrives ==
  /\ Task /\ mode = "live" /\ page = "visible" /\ selected # NoJob /\ Spend
  /\ debounce' = debounce \cup {selected}
  /\ UNCHANGED <<mode, page, polls, rows, selected, detail, srv>>

\* The timer, whichever job is selected by now and though the tab be hidden.
DebounceFires(j) ==
  /\ Task /\ j \in debounce
  /\ debounce' = debounce \ {j}
  /\ detail' = [detail EXCEPT ![j] = RefreshInspection(@, j)]
  /\ UNCHANGED <<mode, page, polls, rows, selected, srv, spent>>

\* Mutant: the signatures outlive the cache they were taken from.
SwitchKeepsSignature(x) ==
  [x EXCEPT !.cache = None, !.meta = NoMeta, !.call.state = IF @ = "sent" THEN "aborted" ELSE @]

\* Mutant: the calls in flight go on.
SwitchWithoutAbort(x) == [NoDetail EXCEPT !.call = x.call]

\* The effect on liveMode forgets the details and aborts the calls, ...
SwitchDetail(x) == [NoDetail EXCEPT !.call = [x.call EXCEPT !.state = IF @ = "sent" THEN "aborted" ELSE @]]

\* ... replaces the rows, which closes the drawer, and clears the timers.
SwitchMode ==
  /\ Task /\ page = "visible" /\ Spend
  /\ mode' = IF mode = "live" THEN "demo" ELSE "live"
  /\ rows' = Listed(mode') /\ selected' = NoJob
  /\ detail' = [j \in Jobs |-> SwitchDetail(detail[j])]
  /\ debounce' = {}
  /\ UNCHANGED <<page, polls, srv>>

\* The tab is hidden or comes back; polling is paused or resumed.
ChangeView ==
  /\ Task /\ Spend
  /\ \/ page' = (IF page = "visible" THEN "hidden" ELSE "visible") /\ UNCHANGED polls
     \/ page = "visible" /\ polls' = ~polls /\ UNCHANGED page
  /\ UNCHANGED <<mode, rows, selected, detail, debounce, srv>>

\* The console is unmounted.
Unmount ==
  /\ Task /\ Spend
  /\ page' = "gone"
  /\ detail' = [j \in Jobs |-> [detail[j] EXCEPT !.call.state = IF @ = "sent" THEN "aborted" ELSE @]]
  /\ debounce' = {}
  /\ UNCHANGED <<mode, polls, rows, selected, srv>>

\* A refresh or a command's answer brings a newer row.
RowArrives(j, v) ==
  /\ Task /\ mode = "live"
  /\ v \in (rows[j] + 1) .. srv[j]
  /\ rows' = [rows EXCEPT ![j] = v]
  /\ detail' = SyncRow(detail, rows', selected)
  /\ UNCHANGED <<mode, page, polls, selected, debounce, srv, spent>>

\* A late answer of a command puts its row in (replaceJob) though the one shown
\* be newer or the console be in the demo; a refresh that joined a call left
\* over from a failed one may bring an older row too.
LateRow(j, v) ==
  /\ Task /\ Spend
  /\ v \in 1 .. srv[j] /\ (v < rows[j] \/ mode = "demo")
  /\ rows' = [rows EXCEPT ![j] = v]
  /\ detail' = SyncRow(detail, rows', selected)
  /\ UNCHANGED <<mode, page, polls, selected, debounce, srv>>

\* A refresh no longer lists a job, which closes its drawer.
RowLeaves(j) ==
  /\ Task /\ mode = "live" /\ rows[j] # 0 /\ Spend
  /\ rows' = [rows EXCEPT ![j] = 0]
  /\ selected' = IF selected = j THEN NoJob ELSE selected
  /\ UNCHANGED <<mode, page, polls, detail, debounce, srv>>

\* A command of the demo changes a row.
DemoRowChanges(j) ==
  /\ Task /\ mode = "demo" /\ page = "visible" /\ rows[j] \in 1 .. (MaxVersion - 1) /\ Spend
  /\ rows' = [rows EXCEPT ![j] = @ + 1]
  /\ detail' = SyncRow(detail, rows', selected)
  /\ UNCHANGED <<mode, page, polls, selected, debounce, srv>>

\* The platform changes a job.
ServerChanges(j) ==
  /\ Calm /\ srv[j] < MaxVersion
  /\ srv' = [srv EXCEPT ![j] = @ + 1]
  /\ UNCHANGED <<mode, page, polls, rows, selected, detail, debounce, spent>>

\* The rest of refreshInspection when the call succeeds.
Applied(x, answer) ==
  [x EXCEPT !.sig = answer, !.cache = IF answer = x.call.prev THEN @ ELSE answer,
            !.meta = Meta(FALSE, FALSE, TRUE), !.call = NoCall]

\* GetJobInspection reads the job first and then the rest; a part it cannot read
\* is left empty.
CallSucceeds(j, v, w) ==
  /\ Calm /\ detail[j].call.state = "sent"
  /\ detail[j].call.v <= v /\ v <= srv[j]
  /\ \/ v <= w /\ w <= srv[j] /\ UNCHANGED spent
     \/ w = 0 /\ Spend
  /\ detail' = [detail EXCEPT ![j] = Applied(@, Details(v, w, "server"))]
  /\ UNCHANGED <<mode, page, polls, rows, selected, debounce, srv>>

\* The rest of refreshInspection when it does not.
Failed(x, row) ==
  [ApplyInspectionFallback(x, row) EXCEPT !.meta = Meta(FALSE, TRUE, x.meta.at), !.call = NoCall]

\* The call times out, fails or its answer is refused.
CallFails(j) ==
  /\ Calm /\ detail[j].call.state = "sent" /\ Spend
  /\ detail' = [detail EXCEPT ![j] = Failed(@, rows[j])]
  /\ UNCHANGED <<mode, page, polls, rows, selected, debounce, srv>>

\* The microtask of an aborted call: nothing but the finally block.
AbortedCallRejects(j) ==
  /\ detail[j].call.state = "aborted"
  /\ detail' = [detail EXCEPT ![j].call = NoCall]
  /\ UNCHANGED <<mode, page, polls, rows, selected, debounce, srv, spent>>

Answer == \E j \in Jobs, v, w \in 0..MaxVersion : CallSucceeds(j, v, w)
NewRow == \E j \in LiveJobs, v \in 1..MaxVersion : RowArrives(j, v)
Reject == \E j \in Jobs : AbortedCallRejects(j)

Next ==
  \/ \E j \in Jobs \cup {NoJob} : SelectJob(j)
  \/ IntervalFires \/ EventArrives \/ SwitchMode \/ ChangeView \/ Unmount
  \/ NewRow \/ Answer \/ Reject
  \/ \E j \in Jobs : DebounceFires(j) \/ CallFails(j)
  \/ \E j \in LiveJobs, v \in 1..MaxVersion : LateRow(j, v)
  \/ \E j \in LiveJobs : RowLeaves(j) \/ ServerChanges(j)
  \/ \E j \in Jobs : DemoRowChanges(j)

\* Timers fire, every call ends by its timeout, and the console catches up
\* (LiveData!CatchesUp).
Fairness == WF_vars(IntervalFires) /\ WF_vars(NewRow) /\ WF_vars(Answer) /\ WF_vars(Reject)

Spec == Init /\ [][Next]_vars /\ Fairness

-----------------------------------------------------------------------------
(* Properties.                                                             *)

(***************************************************************************)
(* The drawer tells the truth: in live mode it is "updating" exactly while *)
(* a call is in flight, and "in sync" only with details the server sent;   *)
(* in the demo, whatever was in flight when the operator left live mode,   *)
(* nothing is the server's.                                                *)
(***************************************************************************)
DrawerIsTrue ==
  /\ mode = "live" /\ page # "gone" /\ selected # NoJob =>
       LET x == detail[selected]
       IN  /\ x.meta.busy <=> x.call.state = "sent"
           /\ x.meta.busy \/ x.meta.error \/ x.cache.by = "server"
  /\ mode = "demo" => \A j \in Jobs : detail[j].cache.by # "server" /\ ~detail[j].meta.busy

(***************************************************************************)
(* The details fetched of a job never go back, whatever failed, was joined *)
(* or answered late since: neither a failed fetch nor a row, however old,  *)
(* replaces the server's details by made up ones, and what the server said *)
(* of attempts, events and records is replaced by nothing older.  (The row *)
(* itself may go back, until the next refresh: see LateRow.)               *)
(***************************************************************************)
DetailsNeverGoBack ==
  [][\A j \in LiveJobs :
       LET old == SelectedInspection(j)
           new == SelectedInspection(j)'
       IN  mode' = mode /\ rows[j] # 0 /\ rows'[j] # 0 /\ old.by = "server" =>
             /\ new.by = "server"
             /\ new.rest # 0 => new.rest >= old.rest]_vars

(***************************************************************************)
(* A drawer left open catches up: while its job stays selected in a        *)
(* visible, polling, live console, it comes to show the job as it is, even *)
(* after the mode was switched to and fro and answers were lost.           *)
(***************************************************************************)
DetailsCatchUp ==
  \A j \in LiveJobs :
    <>[](DrawerRefreshes /\ selected = j) =>
      <>[](SelectedInspection(j) = Details(srv[j], srv[j], "server"))
=============================================================================
