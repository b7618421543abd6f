------------------------------- MODULE Console --------------------------------
(***************************************************************************)
(* The operator's commands in src/components/OpsConsole.tsx: in live mode  *)
(* a command is a POST whose answer, applied when it comes, may meet data  *)
(* that a refresh, another answer or the switch to the demo has replaced;  *)
(* in the demo it changes the console's own data at once.                  *)
(*                                                                         *)
(* A handler that awaits nothing is one step, the effects that follow the  *)
(* state it sets included.  The refresh is the one of LiveData: several    *)
(* GETs, each joined by its key while it is in flight.  A refresh that     *)
(* fails leaves its other calls behind, and the next one joins them even   *)
(* if they read the server before it began; a forced refresh aborts the    *)
(* calls of the one in flight and not those left behind before.  Which     *)
(* calls have been answered, and what each has read, is chosen when it     *)
(* first makes a difference: when they are joined or all have come.        *)
(***************************************************************************)
EXTENDS ConsoleData, ToastQueue

CONSTANTS
  NoId,
  DemoIds, LiveIds,          \* the jobs of the demo and the server's first jobs
  LocalIds, ServerIds,       \* identifiers for the jobs made later
  DemoPlans, LivePlans, LocalPlans,
  InitialState(_),           \* state of a first job; a failed one is dead-lettered
  Drafts,                    \* what the operator types into the job form
  MaxMoves                   \* bound on operator steps and failures, see Spend

ASSUME ConsoleAssumption ==
  /\ DemoIds \cup LiveIds \cup LocalIds \cup ServerIds \subseteq Ids /\ NoId \notin Ids
  /\ DemoPlans \cup LivePlans \cup LocalPlans \subseteq Plans
  /\ Queues # {} /\ MaxVersion # 0 /\ MaxMoves \in Nat
  /\ \A i \in Ids : InitialState(i) \in States
  /\ \A d \in Drafts : /\ d.queue \in Queues /\ d.key \in KeyTexts
                        /\ d.later \in BOOLEAN /\ d.dependencies \in BOOLEAN
  /\ {"done", "warn"} \subseteq ToastKeys

VARIABLES
  mode,      \* liveMode: "live" or "demo"
  data,      \* consoleData
  selected,  \* selectedJobId: the job in the drawer
  picked,    \* selectedDeadLetters
  busy,      \* the keys of busyMap
  calls,     \* POSTs in flight (requestMapRef)
  refresh,   \* the refresh in flight, the calls it made itself, and loading
  gets,      \* GETs that may be in flight (requestMapRef): what the server held since each was made
  srv,       \* the server: jobs, dead letters, schedules and the version of its last change
  toasts,    \* see ToastQueue
  spent

vars == <<mode, data, selected, picked, busy, calls, refresh, gets, srv, toasts, spent>>

-----------------------------------------------------------------------------
(* Types.                                                                  *)

PerJob == {"retry", "cancel", "replay"}
PerPlan == {"toggle", "trigger"}
Kinds == PerJob \cup PerPlan \cup {"submit", "bulkReplay", "bulkDelete", "save", "seed"}

\* A request body: on, the jobs or the schedule it names; with, what else
\* tells two bodies of one kind apart.
Command(kind, on, with) == [kind |-> kind, on |-> on, with |-> with]

\* The key of runBusy.
BusyKey(c) == IF c.kind \in PerJob \cup PerPlan THEN <<c.kind, c.on>> ELSE <<c.kind, {}>>

\* loading: nothing was fetched since the mode was entered, the tabs are hidden
NoRefresh(loading) == [on |-> FALSE, loading |-> loading, made |-> {}]
NoRows == [i \in {} |-> 0]

\* The calls of a refresh; the fourth asks for the workers, which the data leaves out.
Parts == {"jobs", "snapshot", "schedules"}
Read(k, s) == CASE k = "jobs" -> s.jobs [] k = "snapshot" -> s.dead [] k = "schedules" -> s.plans

FirstJobs(ids, by, v) ==
  [i \in ids |-> [state |-> InitialState(i), queue |-> CHOOSE q \in Queues : TRUE,
                  priority |-> 9, key |-> "", by |-> by, v |-> v]]
FirstDead(ids) == {i \in ids : InitialState(i) = "failed"}
FirstPlans(ids) == [p \in ids |-> TRUE]

EmptyLive == CreateConsoleData("live", NoRows, {}, NoRows)
Demo == CreateConsoleData("demo", FirstJobs(DemoIds, "console", 0), FirstDead(DemoIds), FirstPlans(DemoPlans))

\* The outcome of a call, filled in by the server: the job it answers with, if
\* the console uses it.
Call(c) == [cmd |-> c, stage |-> "sent", job |-> NoId, row |-> NoRows, copy |-> 1]

ConsoleTypeOK ==
  /\ mode \in {"live", "demo"} /\ Datas(data)
  /\ selected \in Ids \cup {NoId} /\ picked \subseteq Ids
  /\ \A b \in busy : b[1] \in Kinds
  /\ \A x \in calls : x.cmd.kind \in Kinds /\ x.stage \in {"sent", "served", "failed"} /\ x.job \in Ids \cup {NoId}
  /\ refresh.made \subseteq Parts /\ DOMAIN gets \subseteq Parts
  /\ DOMAIN srv.jobs \subseteq Ids /\ srv.dead \subseteq Ids /\ srv.v \in 1..MaxVersion
  /\ ToastsTypeOK(toasts)
  /\ spent \in 0..MaxMoves

Init ==
  /\ mode \in {"live", "demo"}
  /\ data = IF mode = "live" THEN EmptyLive ELSE Demo
  /\ selected \in DOMAIN data.jobs \cup {NoId}    \* the address may name a job
  /\ picked = {} /\ busy = {} /\ calls = {}
  /\ refresh = NoRefresh(mode = "live") /\ gets = NoRows
  /\ srv = [jobs |-> FirstJobs(LiveIds, "server", 1), dead |-> FirstDead(LiveIds),
            plans |-> FirstPlans(LivePlans), v |-> 1]
  /\ toasts = NoToasts
  /\ spent = 0

-----------------------------------------------------------------------------
(* Parts of steps.                                                         *)

Spend == spent < MaxMoves /\ spent' = spent + 1

Notify(key) == toasts' = EnqueueToast(toasts, key)

\* New data, with the effects that drop a selection it no longer holds.
Show(d, job, dead) ==
  /\ data' = d
  /\ selected' = IF job \in DOMAIN d.jobs THEN job ELSE NoId
  /\ picked' = dead \cap d.dead

\* requestJson: a call in flight with the same path and body is joined.
MakeCall(c) ==
  calls' = IF \E x \in calls : x.cmd = c THEN calls ELSE calls \cup {Call(c)}

\* runBusy around a live command, up to its await.
Send(c) ==
  /\ mode = "live" /\ Spend
  /\ busy' = busy \cup {BusyKey(c)}
  /\ MakeCall(c)
  /\ UNCHANGED <<mode, data, selected, picked, refresh, gets, srv, toasts>>

\* runBusy around a change of the demo's data: the key is set and cleared.
InDemo(c, d, job, dead, toast) ==
  /\ mode = "demo" /\ Spend
  /\ busy' = busy \ {BusyKey(c)}
  /\ Show(d, job, dead)
  /\ Notify(toast)
  /\ UNCHANGED <<mode, calls, refresh, gets, srv>>

-----------------------------------------------------------------------------
(* The operator's commands.                                                *)

FreshJob == CHOOSE i \in LocalIds : i \notin DOMAIN data.jobs
HasFresh(n) == Cardinality(LocalIds \ DOMAIN data.jobs) >= n

Refuse == Spend /\ Notify("warn") /\ UNCHANGED <<mode, data, selected, picked, busy, calls, refresh, gets, srv>>

\* submitJob
SubmitJob(draft) ==
  LET c == Command("submit", {}, draft)
      twins == {i \in DOMAIN data.jobs : draft.key # "" /\ data.jobs[i].key = draft.key}
  IN  IF draft.payload # "valid" THEN Refuse
      ELSE \/ Send(c)
           \/ \E i \in twins : InDemo(c, data, i, picked, "warn")
           \/ /\ twins = {} /\ HasFresh(1)
              /\ InDemo(c, AppendEvent(ReplaceJob(data, FreshJob, CreateJobFromDraft(draft))), FreshJob, picked, "done")

\* retryJob
RetryJob(i) ==
  LET c == Command("retry", {i}, "")
  IN  \/ Send(c)
      \/ InDemo(c, AppendEvent(RemoveDeadLetters(ReplaceJob(data, i, Local(data.jobs[i], "queued")), {i})),
                selected, picked, "done")

\* cancelJob
CancelJob(i) ==
  LET c == Command("cancel", {i}, "")
  IN  \/ Send(c)
      \/ InDemo(c, AppendEvent(ReplaceJob(data, i, Local(data.jobs[i], "canceled"))), selected, picked, "done")

\* Mutant: the control works in live mode as well.
AnywhereControl(d) ==
  /\ Spend
  /\ Show(AppendEvent(d), selected, picked)
  /\ Notify("done")
  /\ UNCHANGED <<mode, busy, calls, refresh, gets, srv>>

\* A control the live API does not have.
DemoControl(d) ==
  /\ mode = "demo" /\ Spend
  /\ Show(AppendEvent(d), selected, picked)
  /\ Notify("done")
  /\ UNCHANGED <<mode, busy, calls, refresh, gets, srv>>

\* adjustPriority
AdjustPriority(i, p) == DemoControl(ReplaceJob(data, i, [Local(data.jobs[i], data.jobs[i].state) EXCEPT !.priority = p]))

\* setQueueControl
SetQueueControl(q, action) ==
  LET drained == [i \in DOMAIN data.jobs |->
                    IF action = "drain" /\ data.jobs[i].queue = q /\ data.jobs[i].state \in Waiting
                    THEN Local(data.jobs[i], "canceled") ELSE data.jobs[i]]
  IN  DemoControl(Reconcile([data EXCEPT
        !.jobs = drained,
        !.paused = CASE action = "pause" -> @ \cup {q} [] action = "resume" -> @ \ {q} [] OTHER -> @,
        !.draining = IF action = "drain" THEN @ \cup {q} ELSE @ \ {q}]))

\* toggleWorkerCordon
ToggleWorkerCordon(cordoned) == DemoControl([data EXCEPT !.cordoned = cordoned])

\* replayJob, from the drawer: a dead letter is queued again, any other job is
\* cloned, and a payload that does not parse is refused.
ReplayJob(i, q) ==
  LET c == Command("replay", {i}, [queue |-> q, dead |-> i \in data.dead])
      again == [Local(data.jobs[i], "queued") EXCEPT !.queue = q]
  IN  \/ Refuse
      \/ Send(c)
      \/ /\ i \in data.dead
         /\ InDemo(c, AppendEvent(RemoveDeadLetters(ReplaceJob(data, i, again), {i})), selected, picked, "done")
      \/ /\ i \notin data.dead /\ HasFresh(1)
         /\ InDemo(c, AppendEvent(ReplaceJob(data, FreshJob, again)), FreshJob, picked, "done")

\* replaySelectedDeadLetters; refused without a selection or with an override
\* that does not parse.
ReplaySelected(q) ==
  LET c == Command("bulkReplay", picked, q)
      found == picked \cap DOMAIN data.jobs
      queued == [data EXCEPT !.jobs = [i \in DOMAIN data.jobs |->
                   IF i \in found THEN [Local(data.jobs[i], "queued") EXCEPT !.queue = q] ELSE data.jobs[i]]]
  IN  \/ Refuse
      \/ picked # {} /\ Send(c)
      \/ picked # {} /\ InDemo(c, AppendEvent(RemoveDeadLetters(queued, found)), selected, {}, "done")

\* deleteSelectedDeadLetters
DeleteSelected ==
  LET c == Command("bulkDelete", picked, "")
  IN  IF picked = {} THEN Refuse
      ELSE Send(c) \/ InDemo(c, AppendEvent(RemoveDeadLetters(data, picked)), selected, {}, "done")

\* submitSchedule
SubmitSchedule(valid) ==
  LET c == Command("save", {}, "")
  IN  IF ~valid THEN Refuse
      ELSE \/ Send(c)
           \/ \E p \in LocalPlans \ DOMAIN data.plans :
                InDemo(c, AppendEvent(Reconcile([data EXCEPT !.plans =
                  [x \in DOMAIN data.plans \cup {p} |-> IF x = p THEN TRUE ELSE data.plans[x]]])), selected, picked, "done")

\* toggleSchedule
ToggleSchedule(p) ==
  LET c == Command("toggle", {p}, ~data.plans[p])
  IN  Send(c) \/ InDemo(c, AppendEvent(Reconcile([data EXCEPT !.plans[p] = ~@])), selected, picked, "done")

\* triggerSchedule
TriggerSchedule(p) ==
  LET c == Command("trigger", {p}, "")
      job == CreateJobFromDraft([dependencies |-> FALSE, later |-> FALSE, key |-> "", queue |-> CHOOSE q \in Queues : TRUE])
  IN  \/ Send(c)
      \/ HasFresh(1) /\ InDemo(c, AppendEvent(ReplaceJob(data, FreshJob, job)), FreshJob, picked, "done")

\* seedWorkflow; one child stands for the three thumbnails.
SeedWorkflow ==
  LET c == Command("seed", {}, "")
      child == CHOOSE i \in LocalIds \ {FreshJob} : i \notin DOMAIN data.jobs
  IN  \/ Send(c)
      \/ HasFresh(2) /\ InDemo(c, AddLocalWorkflowJobs(data, FreshJob, {child}, CHOOSE q \in Queues : TRUE),
                               selected, picked, "done")

\* Opening a job in the drawer, closing it, and the check boxes.
SelectJob(i) ==
  /\ Spend /\ i # selected /\ Show(data, i, picked)
  /\ UNCHANGED <<mode, busy, calls, refresh, gets, srv, toasts>>

ToggleDeadLetter(i) ==
  /\ Spend /\ Show(data, selected, IF i \in picked THEN picked \ {i} ELSE picked \cup {i})
  /\ UNCHANGED <<mode, busy, calls, refresh, gets, srv, toasts>>

\* The live mode switch: the effects on liveMode replace the data and abort the
\* calls of the refresh; those left behind and the commands stay in flight.
SwitchMode ==
  /\ Spend
  /\ mode' = IF mode = "live" THEN "demo" ELSE "live"
  /\ Show(IF mode' = "live" THEN EmptyLive ELSE Demo, selected, picked)
  /\ refresh' = NoRefresh(mode' = "live")
  /\ gets' = [k \in DOMAIN gets \ refresh.made |-> gets[k]]
  /\ UNCHANGED <<busy, calls, srv, toasts>>

-----------------------------------------------------------------------------
(* The server.                                                             *)

\* Its jobs get new rows.
Write(rows) ==
  [srv EXCEPT !.jobs = [i \in DOMAIN srv.jobs \cup DOMAIN rows |->
                          IF i \in DOMAIN rows THEN [rows[i] EXCEPT !.by = "server", !.v = srv.v + 1]
                          ELSE srv.jobs[i]],
              !.v = @ + 1]

Plain == [dependencies |-> FALSE, later |-> FALSE, key |-> "", queue |-> CHOOSE q \in Queues : TRUE]

\* What becomes of the server, and the job it answers with.
Outcomes(c) ==
  LET fresh == ServerIds \ DOMAIN srv.jobs
      made(draft) == {[srv |-> Write([x \in {i} |-> CreateJobFromDraft(draft)]), job |-> i] :
                        i \in {j \in fresh : \A k \in fresh : j <= k}}
      requeued(ids, q) == LET s == Write([x \in ids |-> [srv.jobs[x] EXCEPT !.state = "queued", !.queue = q]])
                          IN  {[srv |-> [s EXCEPT !.dead = @ \ ids], job |-> NoId]}
      one == CHOOSE i \in c.on : TRUE
  IN  CASE c.kind = "submit" ->
             LET twins == {i \in DOMAIN srv.jobs : c.with.key # "" /\ srv.jobs[i].key = c.with.key}
             IN  IF twins # {} THEN {[srv |-> srv, job |-> i] : i \in twins} ELSE made(c.with)
        [] c.kind = "retry" ->
             {[o EXCEPT !.job = one] : o \in requeued(c.on, srv.jobs[one].queue)}
        [] c.kind = "cancel" ->
             {[srv |-> Write([x \in c.on |-> [srv.jobs[x] EXCEPT !.state =
                         IF @ \in Waiting \cup {"failed"} THEN "canceled" ELSE @]]), job |-> one]}
        [] c.kind = "replay" ->
             IF c.with.dead THEN requeued(c.on, c.with.queue) ELSE made([Plain EXCEPT !.queue = c.with.queue])
        [] c.kind = "bulkReplay" -> requeued(c.on, c.with)
        [] c.kind = "bulkDelete" -> {[srv |-> [srv EXCEPT !.dead = @ \ c.on], job |-> NoId]}
        [] c.kind = "toggle" -> {[srv |-> [srv EXCEPT !.plans = [p \in DOMAIN @ |-> IF p \in c.on THEN c.with ELSE @[p]]], job |-> NoId]}
        [] c.kind = "save" -> {[srv |-> srv, job |-> NoId]}
        [] OTHER -> made(Plain)

\* The calls in flight may read the server's new content as well.
ServerBecomes(s) ==
  /\ srv' = s
  /\ gets' = [k \in DOMAIN gets |-> gets[k] \cup {Read(k, s)}]

\* The server carries a command out; the answer is on its way.
Serve(x) ==
  /\ x.stage = "sent" /\ srv.v < MaxVersion
  /\ \E o \in Outcomes(x.cmd) :
       /\ ServerBecomes(o.srv)
       /\ calls' = (calls \ {x}) \cup
            {[x EXCEPT !.stage = "served", !.job = o.job, !.row = IF o.job = NoId THEN NoRows ELSE o.srv.jobs[o.job]]}
  /\ UNCHANGED <<mode, data, selected, picked, busy, refresh, toasts, spent>>

\* A worker ends a queued job.
JobEnds(i) ==
  /\ srv.v < MaxVersion /\ srv.jobs[i].state = "queued" /\ Spend
  /\ ServerBecomes(Write([x \in {i} |-> [srv.jobs[x] EXCEPT !.state = "completed"]]))
  /\ UNCHANGED <<mode, data, selected, picked, busy, calls, refresh, toasts>>

-----------------------------------------------------------------------------
(* Answers and refreshes.                                                  *)

\* What an answer changes in the data, whichever mode the console is in now.
Applied(x) ==
  CASE x.cmd.kind = "submit" -> ReplaceJob(data, x.job, x.row)
    [] x.cmd.kind = "retry" -> RemoveDeadLetters(ReplaceJob(data, x.job, x.row), x.cmd.on)
    [] x.cmd.kind = "cancel" -> ReplaceJob(data, x.job, x.row)
    [] OTHER -> data

\* A refresh asks for each part, joining the calls that are out.
Asked(out) == [k \in Parts |-> IF k \in out THEN gets[k] ELSE {Read(k, srv)}]
Begun(out, loading) == [on |-> TRUE, loading |-> loading, made |-> Parts \ out]

\* Mutant: a forced refresh joins the one in flight.
ForcedJoins == UNCHANGED <<refresh, gets>>

\* refreshConsole with force, which does nothing in the demo.  The refresh in
\* flight is aborted, and its finally ends the loading.  A call it made that is
\* still out is joined nevertheless, for requestMapRef holds it until it has
\* rejected: then the new refresh fails with it and leaves its other calls behind.
Forced ==
  \/ /\ mode = "live"
     /\ \E out \in SUBSET DOMAIN gets :
          \/ /\ refresh.made \cap out = {}
             /\ gets' = Asked(out) /\ refresh' = Begun(out, refresh.loading /\ ~refresh.on)
          \/ /\ refresh.on
             /\ gets' = [k \in Parts \ (refresh.made \cap out) |-> Asked(out)[k]]
             /\ refresh' = NoRefresh(FALSE)
  \/ mode = "demo" /\ UNCHANGED <<refresh, gets>>

\* The rest of the handler, after its await.
Answered(x) ==
  /\ x.stage = "served"
  /\ calls' = calls \ {x}
  /\ busy' = busy \ {BusyKey(x.cmd)}
  /\ Show(Applied(x), IF x.cmd.kind = "submit" THEN x.job ELSE selected,
          IF x.cmd.kind \in {"bulkReplay", "bulkDelete"} THEN {} ELSE picked)
  /\ Forced
  /\ Notify("done")
  /\ UNCHANGED <<mode, srv, spent>>

\* Mutant: a rejected command leaves its key behind.
BusyAfterFailureStays(x) == busy

BusyAfterFailure(x) == busy \ {BusyKey(x.cmd)}

\* The call fails, before or after the server carried it out: runBusy's finally,
\* and a rejection nobody handles.
CallFails(x) ==
  /\ Spend
  /\ calls' = calls \ {x}
  /\ busy' = BusyAfterFailure(x)
  /\ UNCHANGED <<mode, data, selected, picked, refresh, gets, srv, toasts>>

RefreshBegins ==
  /\ mode = "live" /\ ~refresh.on
  /\ \E out \in SUBSET DOMAIN gets : gets' = Asked(out) /\ refresh' = Begun(out, refresh.loading)
  /\ UNCHANGED <<mode, data, selected, picked, busy, calls, srv, toasts, spent>>

\* The refresh button, a manual reconnect, or a poll after the late finally of an
\* aborted refresh has cleared the promise of its successor.
RefreshForced ==
  /\ mode = "live" /\ Spend /\ Forced
  /\ UNCHANGED <<mode, data, selected, picked, busy, calls, srv, toasts>>

\* Mutant: the answer only adds what the console did not know.
MergedData(content) ==
  CreateConsoleDataFromApi(
    [content EXCEPT !.jobs = [i \in DOMAIN @ |-> IF i \in DOMAIN data.jobs THEN data.jobs[i] ELSE @[i]]], data)

\* stabilizeConsoleData keeps old objects for equal values only.  An answer with
\* the signature of the last one would be skipped, but the server stamps each
\* snapshot with its time (lastUpdatedAt): no two are equal.
RefreshedData(content) == CreateConsoleDataFromApi(content, data)

RefreshLands ==
  /\ refresh.on
  /\ \E jobs \in gets["jobs"], dead \in gets["snapshot"], plans \in gets["schedules"] :
       Show(RefreshedData([jobs |-> jobs, dead |-> dead, plans |-> plans]), selected, picked)
  /\ refresh' = NoRefresh(FALSE) /\ gets' = NoRows
  /\ UNCHANGED <<mode, busy, calls, srv, toasts, spent>>

\* One call fails and Promise.all rejects: the others are left behind.
RefreshFails ==
  /\ refresh.on /\ Spend
  /\ refresh' = NoRefresh(FALSE)
  /\ UNCHANGED <<mode, data, selected, picked, busy, calls, gets, srv, toasts>>

\* A toast's timer fires or the operator closes it.
ToastEnds(id) ==
  /\ id \in toasts.timers
  /\ toasts' = DismissToast(toasts, id)
  /\ UNCHANGED <<mode, data, selected, picked, busy, calls, refresh, gets, srv, spent>>

\* The cooldown, 8 s or 10 s, outlasts the toast; while a toast is active its
\* cooldown makes no difference.
CooldownPasses(k) ==
  /\ k \in toasts.cooling /\ toasts.activeKeys[k] = NoToast
  /\ toasts' = CooldownEnds(toasts, k)
  /\ UNCHANGED <<mode, data, selected, picked, busy, calls, refresh, gets, srv, spent>>

-----------------------------------------------------------------------------
(* The page: which commands it offers.                                     *)

Busy(kind, on) == <<kind, on>> \in busy

JobForm ==
  \/ ~Busy("submit", {}) /\ \E d \in Drafts : SubmitJob(d)
  \/ ~Busy("seed", {}) /\ SeedWorkflow

JobRow(i) ==
  \/ SelectJob(i)
  \/ ~Busy("retry", {i}) /\ RetryJob(i)
  \/ ~Busy("cancel", {i}) /\ CancelJob(i)
  \/ AdjustPriority(i, Raise(data.jobs[i].priority))

QueueCard(q) == \E action \in {"pause", "resume", "drain"} : SetQueueControl(q, action)

WorkerCard == \E cordoned \in BOOLEAN : ToggleWorkerCordon(cordoned)

ScheduleForm == ~Busy("save", {}) /\ \E valid \in BOOLEAN : SubmitSchedule(valid)

\* The buttons of a schedule are never disabled.
ScheduleRow(p) == ToggleSchedule(p) \/ TriggerSchedule(p)

DeadLetters ==
  \/ ~Busy("bulkReplay", {}) /\ \E q \in Queues : ReplaySelected(q)
  \/ ~Busy("bulkDelete", {}) /\ DeleteSelected
  \/ \E i \in data.dead : ToggleDeadLetter(i) \/ SelectJob(i)

\* Only a replay of its job disables the drawer's buttons.
Drawer(i) ==
  \/ SelectJob(NoId)
  \/ /\ ~Busy("replay", {i})
     /\ \/ RetryJob(i) \/ CancelJob(i) \/ \E q \in Queues : ReplayJob(i, q)
        \/ \E p \in {Raise(data.jobs[i].priority), Lower(data.jobs[i].priority)} : AdjustPriority(i, p)

Tabs ==
  /\ ~refresh.loading
  /\ \/ JobForm \/ WorkerCard \/ ScheduleForm \/ DeadLetters
     \/ \E i \in DOMAIN data.jobs : JobRow(i)
     \/ \E q \in Queues : QueueCard(q)
     \/ \E p \in DOMAIN data.plans : ScheduleRow(p)

Operator == Tabs \/ (selected # NoId /\ Drawer(selected)) \/ SwitchMode

ServeOne == \E x \in calls : Serve(x)
AnswerOne == \E x \in calls : Answered(x)

Next ==
  \/ Operator
  \/ ServeOne \/ AnswerOne \/ \E x \in calls : CallFails(x)
  \/ \E i \in DOMAIN srv.jobs : JobEnds(i)
  \/ RefreshBegins \/ RefreshForced \/ RefreshLands \/ RefreshFails
  \/ \E id \in ToastIds : ToastEnds(id)
  \/ \E k \in ToastKeys : CooldownPasses(k)

\* Calls end by their timeout at the latest, the console polls, timers fire.
Fairness ==
  /\ WF_vars(ServeOne) /\ WF_vars(AnswerOne)
  /\ WF_vars(RefreshBegins) /\ WF_vars(RefreshLands)

Spec == Init /\ [][Next]_vars /\ Fairness

-----------------------------------------------------------------------------
(* Properties.                                                             *)

(***************************************************************************)
(* The counts kept beside the jobs are those of the jobs, after any        *)
(* sequence of commands, answers and refreshes: a queue's backlog, taken   *)
(* from the overview, is what its card counts from the jobs itself.        *)
(***************************************************************************)
CountsAgree ==
  /\ \A q \in Queues : QueueView(data, q).backlog = QueueView(data, q).summary.queued
  /\ \A s \in States : data.overview.count[s] = Cardinality({i \in DOMAIN data.jobs : data.jobs[i].state = s})

(***************************************************************************)
(* Live mode shows the server's rows only: no job, event or control in it  *)
(* is the console's own invention, whatever was done in the demo before.   *)
(***************************************************************************)
LiveIsTheServers ==
  mode = "live" =>
    /\ \A i \in DOMAIN data.jobs : data.jobs[i].by = "server"
    /\ ~data.local /\ data.paused = {} /\ data.draining = {} /\ ~data.cordoned

(***************************************************************************)
(* "Demo data only": the demo shows no job of the server.                  *)
(***************************************************************************)
DemoDataOnly == mode = "demo" => \A i \in DOMAIN data.jobs : data.jobs[i].by = "console"

(***************************************************************************)
(* A button that is busy waits for a call: no key outlives its command,    *)
(* whether it was answered, failed or was given twice.                     *)
(***************************************************************************)
BusyMeansInFlight == \A b \in busy : \E x \in calls : BusyKey(x.cmd) = b

(***************************************************************************)
(* A refresh that asked for the jobs itself never takes back what an       *)
(* answer has shown: a row it brings is at least as new as the one it      *)
(* replaces, and a job just made stays, although refreshes are forced,     *)
(* aborted and fail, and answers come late.                                *)
(***************************************************************************)
RefreshKeepsAnswers ==
  [][RefreshLands /\ "jobs" \in refresh.made => \A i \in DOMAIN data.jobs :
       i \in DOMAIN data'.jobs /\ data'.jobs[i].v >= data.jobs[i].v]_vars

(***************************************************************************)
(* Any refresh keeps what the answers have shown.  This is not so: the     *)
(* refresh forced by an answer may join a call a failed refresh left       *)
(* behind, which read the jobs before the command was carried out.         *)
(***************************************************************************)
AnswersStay ==
  [][RefreshLands => \A i \in DOMAIN data.jobs :
       i \in DOMAIN data'.jobs /\ data'.jobs[i].v >= data.jobs[i].v]_vars

(***************************************************************************)
(* No notification is lost for good: every toast on the screen and every   *)
(* key that mutes others has a timer that ends it.                         *)
(***************************************************************************)
ToastsEnd == Tracked(toasts)

(***************************************************************************)
(* A console left in live mode comes to show the server's jobs, dead       *)
(* letters and schedules, even when answers arrive in another order than   *)
(* the server gave them.                                                   *)
(***************************************************************************)
SettlesToServer ==
  <>[](mode = "live") =>
    <>[](data.jobs = srv.jobs /\ data.dead = srv.dead /\ data.plans = srv.plans)
=============================================================================
