----------------------------- MODULE ConsoleData ------------------------------
(***************************************************************************)
(* The operations of src/lib/console-data.ts and src/lib/safe.ts on what   *)
(* the console shows: its jobs, dead letters and schedules, the counts     *)
(* kept beside them, and the local controls of the demo.  Timestamps,      *)
(* payloads and the order of the lists are left out.                       *)
(***************************************************************************)
EXTENDS Naturals, FiniteSets

CONSTANTS
  Ids,        \* identifiers of jobs
  Plans,      \* identifiers of schedules
  Queues,     \* QUEUES
  KeyTexts,   \* idempotency keys; "" is none
  MaxVersion  \* the server changes its jobs this often, at most

ASSUME ConsoleDataAssumption == "" \in KeyTexts /\ MaxVersion \in Nat

States == {"queued", "blocked", "throttled", "active", "failed", "retrying", "completed",
           "scheduled", "canceled"}
Waiting == {"queued", "retrying", "scheduled"}
Priorities == 0..9

\* by: who made this row, the server or the console; v: the server's version.
Job == [state : States, queue : Queues, priority : Priorities, key : KeyTexts,
        by : {"server", "console"}, v : 0..MaxVersion]

\* summarizeJobs: one count per state, and the work that waits in each queue.
SummarizeJobs(jobs) ==
  [count |-> [s \in States |-> Cardinality({i \in DOMAIN jobs : jobs[i].state = s})],
   queueLengths |-> [q \in Queues |-> Cardinality({i \in DOMAIN jobs : jobs[i].queue = q /\ jobs[i].state \in Waiting})]]

\* ConsoleData.  local: the event log holds events the console made itself.
Datas(d) ==
  /\ DOMAIN d = {"source", "jobs", "dead", "plans", "overview", "paused", "draining", "cordoned", "local"}
  /\ d.source \in {"live", "demo"}
  /\ DOMAIN d.jobs \subseteq Ids /\ \A i \in DOMAIN d.jobs : d.jobs[i] \in Job
  /\ d.dead \subseteq Ids
  /\ DOMAIN d.plans \subseteq Plans /\ \A p \in DOMAIN d.plans : d.plans[p] \in BOOLEAN
  /\ d.paused \subseteq Queues /\ d.draining \subseteq Queues
  /\ d.cordoned \in BOOLEAN /\ d.local \in BOOLEAN

\* reconcileConsoleData: the server's own counts give way to a recount.
Reconcile(d) == [d EXCEPT !.overview = SummarizeJobs(d.jobs)]

\* createConsoleDataFromApi
CreateConsoleDataFromApi(content, old) ==
  Reconcile([source |-> "live", jobs |-> content.jobs, dead |-> content.dead, plans |-> content.plans,
             overview |-> <<>>, paused |-> old.paused, draining |-> old.draining,
             cordoned |-> old.cordoned, local |-> old.local /\ old.source = "live"])

\* createEmptyConsoleData and createDemoConsoleData
CreateConsoleData(source, jobs, dead, plans) ==
  Reconcile([source |-> source, jobs |-> jobs, dead |-> dead, plans |-> plans, overview |-> <<>>,
             paused |-> {}, draining |-> {}, cordoned |-> FALSE, local |-> FALSE])

AppendEvent(d) == [d EXCEPT !.local = TRUE]

\* Mutant: a new job is put in the list without a recount.
PutJob(d, i, job) ==
  [d EXCEPT !.jobs = [x \in DOMAIN d.jobs \cup {i} |-> IF x = i THEN job ELSE d.jobs[x]]]

ReplaceJob(d, i, job) ==
  Reconcile([d EXCEPT !.jobs = [x \in DOMAIN d.jobs \cup {i} |-> IF x = i THEN job ELSE d.jobs[x]]])

RemoveDeadLetters(d, ids) == Reconcile([d EXCEPT !.dead = @ \ ids])

\* The console's own change to a job.
Local(job, state) == [job EXCEPT !.state = state, !.by = "console", !.v = 0]

\* createJobFromDraft: dependencies block a job, a time to come schedules it.
CreateJobFromDraft(draft) ==
  [state |-> IF draft.dependencies THEN "blocked" ELSE IF draft.later THEN "scheduled" ELSE "queued",
   queue |-> draft.queue, priority |-> 5, key |-> draft.key, by |-> "console", v |-> 0]

\* addLocalWorkflowJobs: a root, and jobs blocked on it.
AddLocalWorkflowJobs(d, root, children, queue) ==
  LET row(i) == [state |-> IF i = root THEN "queued" ELSE "blocked", queue |-> queue,
                 priority |-> IF i = root THEN 6 ELSE 5, key |-> "", by |-> "console", v |-> 0]
  IN  AppendEvent(Reconcile([d EXCEPT !.jobs =
        [i \in DOMAIN d.jobs \cup children \cup {root} |->
           IF i \in DOMAIN d.jobs THEN d.jobs[i] ELSE row(i)]]))

\* Mutant: no upper limit.
Unclamped(p) == p

\* clamp to 0..9, of a sum or, in Lower, of a difference
Clamp(p) == IF p > 9 THEN 9 ELSE p
Raise(p) == Clamp(p + 1)
Lower(p) == IF p = 0 THEN 0 ELSE p - 1

\* queueJobSummary: what the queue cards count from the jobs themselves.
QueueJobSummary(jobs, q) ==
  LET of(S) == Cardinality({i \in DOMAIN jobs : jobs[i].queue = q /\ jobs[i].state \in S})
  IN  [active |-> of({"active"}), queued |-> of({"queued", "retrying", "scheduled"}),
       throttled |-> of({"throttled"}), blocked |-> of({"blocked"}), completed |-> of({"completed"})]

\* queueViews: the card of a queue, its backlog from the overview.
QueueView(d, q) == [summary |-> QueueJobSummary(d.jobs, q), backlog |-> d.overview.queueLengths[q]]
=============================================================================
