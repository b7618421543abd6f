---------------------------- MODULE ConsoleProofs -----------------------------
(***************************************************************************)
(* Proofs about Console for any number of jobs, schedules, queues, drafts, *)
(* toasts, calls in flight and changes at the server: its invariants, and  *)
(* that a refresh that asked for the jobs itself never takes back what an  *)
(* answer has shown.                                                       *)
(***************************************************************************)
EXTENDS Console, ToastQueueProofs

(***************************************************************************)
(* The inductive invariant.  The server is a parameter of its parts, since *)
(* they go on to hold when it changes (ServerGrows).                       *)
(***************************************************************************)

JobMap(js) == DOMAIN js \subseteq Ids /\ \A i \in DOMAIN js : js[i] \in Job
PlanMap(ps) == DOMAIN ps \subseteq Plans /\ \A p \in DOMAIN ps : ps[p] \in BOOLEAN

\* The console's data, its counts those of its jobs.
Counted(d) == Datas(d) /\ d.overview = SummarizeJobs(d.jobs)

ServerOK(s) ==
  /\ DOMAIN s = {"jobs", "dead", "plans", "v"}
  /\ s.v \in 1..MaxVersion
  /\ JobMap(s.jobs) /\ PlanMap(s.plans)
  /\ s.dead \subseteq DOMAIN s.jobs
  /\ \A i \in DOMAIN s.jobs : s.jobs[i].by = "server" /\ s.jobs[i].v <= s.v

ServerGrows(s, t) ==
  \A i \in DOMAIN s.jobs : i \in DOMAIN t.jobs /\ s.jobs[i].v <= t.jobs[i].v

\* Rows the server had at some time.
Known(js, s) ==
  /\ JobMap(js)
  /\ \A i \in DOMAIN js : js[i].by = "server" /\ i \in DOMAIN s.jobs /\ js[i].v <= s.jobs[i].v

\* A command names jobs of the server: it was given in live mode.
CommandOK(c, s) ==
  /\ c.kind \in Kinds
  /\ c.kind = "submit" => c.with \in Drafts
  /\ c.kind \in PerJob => \E i \in DOMAIN s.jobs : c.on = {i}
  /\ c.kind = "replay" => c.with.queue \in Queues
  /\ c.kind = "bulkReplay" => c.on \subseteq DOMAIN s.jobs /\ c.with \in Queues
  /\ c.kind = "toggle" => c.with \in BOOLEAN

\* An answer that is applied carries a row the server had.
CallOK(x, s) ==
  /\ DOMAIN x = {"cmd", "stage", "job", "row", "copy"}
  /\ CommandOK(x.cmd, s)
  /\ x.stage \in {"sent", "served"} /\ x.job \in Ids \cup {NoId}
  /\ x.stage = "served" /\ x.cmd.kind \in {"submit", "retry", "cancel"} =>
       /\ x.job \in DOMAIN s.jobs
       /\ x.row \in Job /\ x.row.by = "server" /\ x.row.v <= s.jobs[x.job].v

\* Live mode shows what the server had, and nothing of the console's own.
LiveOK(d, s) ==
  /\ Known(d.jobs, s) /\ d.dead \subseteq DOMAIN s.jobs
  /\ ~d.local /\ d.paused = {} /\ d.draining = {} /\ ~d.cordoned

ContentOK(c, s) == Known(c.jobs, s) /\ c.dead \subseteq DOMAIN s.jobs /\ PlanMap(c.plans)

\* Every call in flight, one left behind too, brings what the server had.
PartOK(k, c, s) ==
  /\ k = "jobs" => Known(c, s)
  /\ k = "snapshot" => c \subseteq DOMAIN s.jobs
  /\ k = "schedules" => PlanMap(c)
GetsOK(g, s) == DOMAIN g \subseteq Parts /\ \A k \in DOMAIN g : \A c \in g[k] : PartOK(k, c, s)

AtLeast(new, old) == \A i \in DOMAIN old : i \in DOMAIN new /\ old[i].v <= new[i].v

\* A refresh that asked for the jobs itself brings nothing older than what is
\* shown: an answer ends it.
RefreshOK(r, g, d) ==
  /\ r.made \subseteq Parts
  /\ r.on => DOMAIN g = Parts
  /\ r.on /\ "jobs" \in r.made => \A c \in g["jobs"] : AtLeast(c, d.jobs)

ConsoleInv ==
  /\ mode \in {"live", "demo"} /\ Counted(data)
  /\ selected \in DOMAIN data.jobs \cup {NoId} /\ picked \subseteq data.dead
  /\ \A b \in busy : b[1] \in Kinds
  /\ ServerOK(srv)
  /\ \A x \in calls : CallOK(x, srv)
  /\ mode = "live" => LiveOK(data, srv)
  /\ refresh.on \in BOOLEAN
  /\ refresh.on => mode = "live"
  /\ RefreshOK(refresh, gets, data) /\ GetsOK(gets, srv)
  /\ BusyMeansInFlight
  /\ ToastInv(toasts)
  /\ spent \in 0..MaxMoves

-----------------------------------------------------------------------------
(* The operations on the data keep the counts.                             *)

LEMMA AQueue == (CHOOSE q \in Queues : TRUE) \in Queues
BY ConsoleAssumption

LEMMA NumbersAssumption == MaxVersion \in Nat /\ MaxVersion >= 1
<1>1. MaxVersion \in Nat
  BY ConsoleDataAssumption, Zenon
<1>2. MaxVersion # 0
  BY ConsoleAssumption, Zenon
<1> QED BY <1>1, <1>2

LEMMA NoKeyText == "" \in KeyTexts
BY ConsoleDataAssumption

LEMMA ReconcileCounts ==
  ASSUME NEW d, Datas(d)
  PROVE  /\ Counted(Reconcile(d))
         /\ Reconcile(d).jobs = d.jobs /\ Reconcile(d).dead = d.dead
         /\ Reconcile(d).plans = d.plans /\ Reconcile(d).paused = d.paused
         /\ Reconcile(d).draining = d.draining /\ Reconcile(d).cordoned = d.cordoned
         /\ Reconcile(d).local = d.local
<1> DEFINE e == Reconcile(d)
<1>0. DOMAIN d = {"source", "jobs", "dead", "plans", "overview", "paused", "draining", "cordoned", "local"}
  BY DEF Datas
<1>1. /\ DOMAIN e = DOMAIN d
      /\ e.source = d.source /\ e.jobs = d.jobs /\ e.dead = d.dead /\ e.plans = d.plans
      /\ e.paused = d.paused /\ e.draining = d.draining /\ e.cordoned = d.cordoned
      /\ e.local = d.local /\ e.overview = SummarizeJobs(d.jobs)
  BY <1>0 DEF Reconcile
<1> HIDE DEF e
<1>2. Datas(e)
  BY <1>1 DEF Datas
<1> QED BY <1>1, <1>2 DEF Counted, e

LEMMA AppendEventCounts ==
  ASSUME NEW d, Counted(d)
  PROVE  /\ Counted(AppendEvent(d))
         /\ AppendEvent(d).jobs = d.jobs /\ AppendEvent(d).dead = d.dead
<1> DEFINE e == AppendEvent(d)
<1>0. DOMAIN d = {"source", "jobs", "dead", "plans", "overview", "paused", "draining", "cordoned", "local"}
  BY DEF Datas, Counted
<1>1. /\ DOMAIN e = DOMAIN d
      /\ e.source = d.source /\ e.jobs = d.jobs /\ e.dead = d.dead /\ e.plans = d.plans
      /\ e.paused = d.paused /\ e.draining = d.draining /\ e.cordoned = d.cordoned
      /\ e.local = TRUE /\ e.overview = d.overview
  BY <1>0 DEF AppendEvent
<1> HIDE DEF e
<1>2. Datas(e)
  BY <1>1 DEF Datas, Counted
<1> QED BY <1>1, <1>2 DEF Counted, e

\* The data with other jobs.
LEMMA NewJobsCount ==
  ASSUME NEW d, Datas(d), NEW js, JobMap(js)
  PROVE  LET e == Reconcile([d EXCEPT !.jobs = js])
         IN  /\ Counted(e) /\ e.jobs = js /\ e.dead = d.dead /\ e.local = d.local
             /\ e.paused = d.paused /\ e.draining = d.draining /\ e.cordoned = d.cordoned
             /\ e.plans = d.plans
<1> DEFINE f == [d EXCEPT !.jobs = js]
           e == Reconcile(f)
<1>0. DOMAIN d = {"source", "jobs", "dead", "plans", "overview", "paused", "draining", "cordoned", "local"}
  BY DEF Datas
<1>1. /\ DOMAIN f = DOMAIN d
      /\ f.source = d.source /\ f.jobs = js /\ f.dead = d.dead /\ f.plans = d.plans
      /\ f.paused = d.paused /\ f.draining = d.draining /\ f.cordoned = d.cordoned
      /\ f.local = d.local
  BY <1>0
<1> HIDE DEF f
<1>2. Datas(f)
  BY <1>1 DEF Datas, JobMap
<1>3. /\ Counted(e) /\ e.jobs = f.jobs /\ e.dead = f.dead /\ e.local = f.local
      /\ e.paused = f.paused /\ e.draining = f.draining /\ e.cordoned = f.cordoned
      /\ e.plans = f.plans
  BY <1>2, ReconcileCounts
<1> HIDE DEF e
<1>4. /\ Counted(e) /\ e.jobs = js /\ e.dead = d.dead /\ e.local = d.local
      /\ e.paused = d.paused /\ e.draining = d.draining /\ e.cordoned = d.cordoned
      /\ e.plans = d.plans
  BY <1>1, <1>3
<1> QED BY <1>4 DEF e, f

LEMMA ReplaceJobCounts ==
  ASSUME NEW d, Counted(d), NEW i \in Ids, NEW job \in Job
  PROVE  LET e == ReplaceJob(d, i, job)
         IN  /\ Counted(e)
             /\ e.jobs = [x \in DOMAIN d.jobs \cup {i} |-> IF x = i THEN job ELSE d.jobs[x]]
             /\ e.dead = d.dead /\ e.local = d.local
             /\ e.paused = d.paused /\ e.draining = d.draining /\ e.cordoned = d.cordoned
<1> DEFINE js == [x \in DOMAIN d.jobs \cup {i} |-> IF x = i THEN job ELSE d.jobs[x]]
<1>1. JobMap(js) /\ Datas(d)
  BY DEF JobMap, Counted, Datas
<1>2. ReplaceJob(d, i, job) = Reconcile([d EXCEPT !.jobs = js])
  BY DEF ReplaceJob
<1> HIDE DEF js
<1>3. LET e == Reconcile([d EXCEPT !.jobs = js])
      IN  /\ Counted(e) /\ e.jobs = js /\ e.dead = d.dead /\ e.local = d.local
          /\ e.paused = d.paused /\ e.draining = d.draining /\ e.cordoned = d.cordoned
  BY <1>1, NewJobsCount
<1> QED BY <1>2, <1>3 DEF js

LEMMA RemoveDeadLettersCounts ==
  ASSUME NEW d, Counted(d), NEW ids
  PROVE  LET e == RemoveDeadLetters(d, ids)
         IN  /\ Counted(e) /\ e.jobs = d.jobs /\ e.dead = d.dead \ ids /\ e.local = d.local
             /\ e.paused = d.paused /\ e.draining = d.draining /\ e.cordoned = d.cordoned
<1> DEFINE f == [d EXCEPT !.dead = @ \ ids]
           e == Reconcile(f)
<1>0. DOMAIN d = {"source", "jobs", "dead", "plans", "overview", "paused", "draining", "cordoned", "local"}
  BY DEF Datas, Counted
<1>1. /\ DOMAIN f = DOMAIN d
      /\ f.source = d.source /\ f.jobs = d.jobs /\ f.dead = d.dead \ ids /\ f.plans = d.plans
      /\ f.paused = d.paused /\ f.draining = d.draining /\ f.cordoned = d.cordoned
      /\ f.local = d.local
  BY <1>0
<1>2. RemoveDeadLetters(d, ids) = e
  BY DEF RemoveDeadLetters
<1> HIDE DEF f
<1>3. Datas(f)
  BY <1>1 DEF Datas, Counted
<1>4. /\ Counted(e) /\ e.jobs = f.jobs /\ e.dead = f.dead /\ e.local = f.local
      /\ e.paused = f.paused /\ e.draining = f.draining /\ e.cordoned = f.cordoned
  BY <1>3, ReconcileCounts
<1> HIDE DEF e
<1> QED BY <1>1, <1>2, <1>4

LEMMA CreateCounts ==
  ASSUME NEW source \in {"live", "demo"}, NEW js, JobMap(js), NEW dead \in SUBSET Ids, NEW ps, PlanMap(ps)
  PROVE  LET e == CreateConsoleData(source, js, dead, ps)
         IN  /\ Counted(e) /\ e.jobs = js /\ e.dead = dead /\ ~e.local
             /\ e.paused = {} /\ e.draining = {} /\ ~e.cordoned
<1> DEFINE f == [source |-> source, jobs |-> js, dead |-> dead, plans |-> ps, overview |-> <<>>,
                 paused |-> {}, draining |-> {}, cordoned |-> FALSE, local |-> FALSE]
           e == Reconcile(f)
<1>1. Datas(f)
  BY DEF Datas, JobMap, PlanMap
<1>2. f.jobs = js /\ f.dead = dead /\ f.paused = {} /\ f.draining = {} /\ f.local = FALSE /\ f.cordoned = FALSE
  OBVIOUS
<1>3. CreateConsoleData(source, js, dead, ps) = e
  BY DEF CreateConsoleData
<1> HIDE DEF f
<1>4. /\ Counted(e) /\ e.jobs = f.jobs /\ e.dead = f.dead /\ e.local = f.local
      /\ e.paused = f.paused /\ e.draining = f.draining /\ e.cordoned = f.cordoned
  BY <1>1, ReconcileCounts
<1> HIDE DEF e
<1> QED BY <1>2, <1>3, <1>4, Zenon

LEMMA CreateFromApiCounts ==
  ASSUME NEW old, Datas(old), NEW c, JobMap(c.jobs), c.dead \subseteq Ids, PlanMap(c.plans)
  PROVE  LET e == CreateConsoleDataFromApi(c, old)
         IN  /\ Counted(e) /\ e.jobs = c.jobs /\ e.dead = c.dead /\ (e.local => old.local)
             /\ e.paused = old.paused /\ e.draining = old.draining /\ e.cordoned = old.cordoned
<1> DEFINE l == old.local /\ old.source = "live"
           f == [source |-> "live", jobs |-> c.jobs, dead |-> c.dead, plans |-> c.plans,
                 overview |-> <<>>, paused |-> old.paused, draining |-> old.draining,
                 cordoned |-> old.cordoned, local |-> l]
           e == Reconcile(f)
<1>0. l \in BOOLEAN /\ (l => old.local)
  OBVIOUS
<1>3. CreateConsoleDataFromApi(c, old) = e
  BY DEF CreateConsoleDataFromApi
<1> HIDE DEF l
<1>1. Datas(f)
  BY <1>0 DEF Datas, JobMap, PlanMap
<1>2. f.jobs = c.jobs /\ f.dead = c.dead /\ f.paused = old.paused /\ f.draining = old.draining
      /\ f.local = l /\ f.cordoned = old.cordoned
  BY Zenon
<1> HIDE DEF f
<1>4. /\ Counted(e) /\ e.jobs = f.jobs /\ e.dead = f.dead /\ e.local = f.local
      /\ e.paused = f.paused /\ e.draining = f.draining /\ e.cordoned = f.cordoned
  BY <1>1, ReconcileCounts
<1> HIDE DEF e
<1> QED BY <1>0, <1>2, <1>3, <1>4, Zenon

-----------------------------------------------------------------------------
(* Rows.                                                                   *)

LEMMA MadeRow ==
  ASSUME NEW st \in States, NEW q \in Queues, NEW p \in Priorities, NEW k \in KeyTexts,
         NEW by \in {"server", "console"}, NEW v \in 0..MaxVersion
  PROVE  [state |-> st, queue |-> q, priority |-> p, key |-> k, by |-> by, v |-> v] \in Job
BY Zenon DEF Job

\* What a row is made of.
LEMMA RowParts ==
  ASSUME NEW job \in Job
  PROVE  /\ job.state \in States /\ job.queue \in Queues /\ job.priority \in Priorities
         /\ job.key \in KeyTexts /\ job.by \in {"server", "console"} /\ job.v \in 0..MaxVersion
         /\ job = [state |-> job.state, queue |-> job.queue, priority |-> job.priority,
                   key |-> job.key, by |-> job.by, v |-> job.v]
         /\ DOMAIN job = {"state", "queue", "priority", "key", "by", "v"}
BY DEF Job

LEMMA LocalRows ==
  ASSUME NEW job \in Job, NEW st \in States, NEW q \in Queues, NEW p \in Priorities
  PROVE  /\ Local(job, st) \in Job
         /\ [Local(job, st) EXCEPT !.queue = q] \in Job
         /\ [Local(job, st) EXCEPT !.priority = p] \in Job
<1>1. 0 \in 0..MaxVersion
  BY NumbersAssumption
<1>2. Local(job, st) \in Job
  BY <1>1 DEF Local, Job
<1> QED BY <1>2 DEF Job

LEMMA DraftRows ==
  ASSUME NEW d, d.queue \in Queues, d.key \in KeyTexts, d.later \in BOOLEAN, d.dependencies \in BOOLEAN
  PROVE  CreateJobFromDraft(d) \in Job
<1> DEFINE st == IF d.dependencies THEN "blocked" ELSE IF d.later THEN "scheduled" ELSE "queued"
<1>1. 0 \in 0..MaxVersion /\ 5 \in Priorities
  BY NumbersAssumption DEF Priorities
<1>2. st \in States
  BY DEF States
<1>3. CreateJobFromDraft(d) = [state |-> st, queue |-> d.queue, priority |-> 5, key |-> d.key,
                               by |-> "console", v |-> 0]
  BY DEF CreateJobFromDraft
<1> HIDE DEF st
<1> QED BY <1>1, <1>2, <1>3 DEF Job

LEMMA PlainRow ==
  ASSUME NEW q \in Queues
  PROVE  CreateJobFromDraft([dependencies |-> FALSE, later |-> FALSE, key |-> "", queue |-> q]) \in Job
BY DraftRows, NoKeyText

LEMMA FirstRows ==
  ASSUME NEW ids \in SUBSET Ids, NEW by \in {"server", "console"}, NEW v \in 0..MaxVersion
  PROVE  /\ JobMap(FirstJobs(ids, by, v)) /\ DOMAIN FirstJobs(ids, by, v) = ids
         /\ \A i \in ids : FirstJobs(ids, by, v)[i].by = by /\ FirstJobs(ids, by, v)[i].v = v
         /\ FirstDead(ids) \subseteq ids
<1>1. 9 \in Priorities
  BY DEF Priorities
<1> QED BY <1>1, AQueue, NoKeyText, ConsoleAssumption DEF FirstJobs, JobMap, FirstDead, Job

LEMMA FirstPlansTyped ==
  ASSUME NEW ids \in SUBSET Plans
  PROVE  PlanMap(FirstPlans(ids))
BY DEF FirstPlans, PlanMap

\* Both data sets a mode begins with.
LEMMA FirstData ==
  /\ Counted(EmptyLive) /\ DOMAIN EmptyLive.jobs = {} /\ EmptyLive.dead = {} /\ ~EmptyLive.local
  /\ EmptyLive.paused = {} /\ EmptyLive.draining = {} /\ ~EmptyLive.cordoned
  /\ Counted(Demo)
<1>1. JobMap(NoRows) /\ PlanMap(NoRows) /\ DOMAIN NoRows = {}
  BY DEF NoRows, JobMap, PlanMap
<1>2. LET e == CreateConsoleData("live", NoRows, {}, NoRows)
      IN  /\ Counted(e) /\ e.jobs = NoRows /\ e.dead = {} /\ ~e.local
          /\ e.paused = {} /\ e.draining = {} /\ ~e.cordoned
  BY <1>1, CreateCounts
<1>3. JobMap(FirstJobs(DemoIds, "console", 0)) /\ FirstDead(DemoIds) \in SUBSET Ids
  <2>1. DemoIds \in SUBSET Ids /\ 0 \in 0..MaxVersion
    BY ConsoleAssumption, NumbersAssumption
  <2> QED BY <2>1, FirstRows
<1>4. PlanMap(FirstPlans(DemoPlans))
  BY FirstPlansTyped, ConsoleAssumption
<1>5. Counted(Demo)
  BY <1>3, <1>4, CreateCounts DEF Demo
<1> QED BY <1>1, <1>2, <1>5 DEF EmptyLive

-----------------------------------------------------------------------------
(* The server.                                                             *)

LEMMA GrowsReflexive ==
  ASSUME NEW s, ServerOK(s)
  PROVE  ServerGrows(s, s)
BY DEF ServerOK, ServerGrows, JobMap, Job

\* Its jobs get newer rows.
LEMMA WriteGrows ==
  ASSUME ServerOK(srv), srv.v < MaxVersion,
         NEW rows, DOMAIN rows \subseteq Ids, \A i \in DOMAIN rows : rows[i] \in Job
  PROVE  LET t == Write(rows)
         IN  /\ ServerOK(t) /\ ServerGrows(srv, t)
             /\ DOMAIN t.jobs = DOMAIN srv.jobs \cup DOMAIN rows
             /\ t.dead = srv.dead
<1> DEFINE row(i) == [rows[i] EXCEPT !.by = "server", !.v = srv.v + 1]
           js == [i \in DOMAIN srv.jobs \cup DOMAIN rows |-> IF i \in DOMAIN rows THEN row(i) ELSE srv.jobs[i]]
           t == Write(rows)
<1>0. DOMAIN srv = {"jobs", "dead", "plans", "v"}
  BY DEF ServerOK
<1>1. /\ DOMAIN t = {"jobs", "dead", "plans", "v"}
      /\ t.jobs = js /\ t.dead = srv.dead /\ t.plans = srv.plans /\ t.v = srv.v + 1
  BY <1>0 DEF Write
<1>2. srv.v \in 1..MaxVersion /\ srv.v + 1 \in 1..MaxVersion /\ srv.v + 1 \in 0..MaxVersion
  BY NumbersAssumption DEF ServerOK
<1>3. ASSUME NEW i \in DOMAIN rows
      PROVE  row(i) \in Job /\ row(i).by = "server" /\ row(i).v = srv.v + 1
  BY <1>2 DEF Job
<1> HIDE DEF row
<1>4. /\ DOMAIN js = DOMAIN srv.jobs \cup DOMAIN rows
      /\ \A i \in DOMAIN js : js[i] = IF i \in DOMAIN rows THEN row(i) ELSE srv.jobs[i]
  OBVIOUS
<1> HIDE DEF js, t
<1>5. JobMap(t.jobs)
  BY <1>1, <1>3, <1>4 DEF JobMap, ServerOK
<1>6. \A i \in DOMAIN srv.jobs : srv.jobs[i].v \in Nat /\ srv.jobs[i].v <= srv.v
  BY DEF ServerOK, JobMap, Job
<1>7. ASSUME NEW i \in DOMAIN t.jobs
      PROVE  t.jobs[i].by = "server" /\ t.jobs[i].v <= t.v
  <2>1. CASE i \in DOMAIN rows
    BY <2>1, <1>1, <1>2, <1>3, <1>4
  <2>2. CASE i \notin DOMAIN rows
    <3>1. i \in DOMAIN srv.jobs /\ t.jobs[i] = srv.jobs[i]
      BY <2>2, <1>1, <1>4
    <3> QED BY <3>1, <1>1, <1>2, <1>6 DEF ServerOK
  <2> QED BY <2>1, <2>2
<1>8. ServerOK(t)
  BY <1>1, <1>2, <1>4, <1>5, <1>7 DEF ServerOK
<1>9. ASSUME NEW i \in DOMAIN srv.jobs PROVE i \in DOMAIN t.jobs /\ srv.jobs[i].v <= t.jobs[i].v
  <2>1. CASE i \in DOMAIN rows
    BY <2>1, <1>1, <1>2, <1>3, <1>4, <1>6
  <2>2. CASE i \notin DOMAIN rows
    BY <2>2, <1>1, <1>4, <1>6
  <2> QED BY <2>1, <2>2
<1>10. ServerOK(t) /\ ServerGrows(srv, t) /\ DOMAIN t.jobs = DOMAIN srv.jobs \cup DOMAIN rows
       /\ t.dead = srv.dead
  BY <1>1, <1>4, <1>8, <1>9 DEF ServerGrows
<1> QED BY <1>10 DEF t

\* What is known of the server stays true when it grows.
LEMMA KnownGrows ==
  ASSUME NEW s, NEW t, ServerOK(s), ServerOK(t), ServerGrows(s, t), NEW js, Known(js, s)
  PROVE  Known(js, t)
<1>1. ASSUME NEW i \in DOMAIN js PROVE i \in DOMAIN t.jobs /\ js[i].v <= t.jobs[i].v
  <2>1. /\ i \in DOMAIN s.jobs /\ i \in DOMAIN t.jobs
        /\ js[i].v <= s.jobs[i].v /\ s.jobs[i].v <= t.jobs[i].v
    BY DEF Known, ServerGrows
  <2>2. js[i].v \in Nat /\ s.jobs[i].v \in Nat /\ t.jobs[i].v \in Nat
    BY <2>1 DEF Known, ServerOK, JobMap, Job
  <2> QED BY <2>1, <2>2
<1> QED BY <1>1 DEF Known

LEMMA CallGrows ==
  ASSUME NEW s, NEW t, ServerOK(s), ServerOK(t), ServerGrows(s, t), NEW x, CallOK(x, s)
  PROVE  CallOK(x, t)
<1>1. DOMAIN s.jobs \subseteq DOMAIN t.jobs
  BY DEF ServerGrows
<1>2. CommandOK(x.cmd, t)
  BY <1>1, Zenon DEF CallOK, CommandOK
<1>3. ASSUME x.stage = "served", x.cmd.kind \in {"submit", "retry", "cancel"}
      PROVE  x.job \in DOMAIN t.jobs /\ x.row.v <= t.jobs[x.job].v
  <2>1. /\ x.job \in DOMAIN s.jobs /\ x.job \in DOMAIN t.jobs /\ x.row \in Job
        /\ x.row.v <= s.jobs[x.job].v /\ s.jobs[x.job].v <= t.jobs[x.job].v
    BY <1>3 DEF CallOK, ServerGrows
  <2>2. x.row.v \in Nat /\ s.jobs[x.job].v \in Nat /\ t.jobs[x.job].v \in Nat
    BY <2>1 DEF ServerOK, JobMap, Job
  <2> QED BY <2>1, <2>2
<1> QED BY <1>2, <1>3 DEF CallOK

\* Dead letters are deleted.
LEMMA FewerDead ==
  ASSUME NEW s, ServerOK(s), NEW ids
  PROVE  LET t == [s EXCEPT !.dead = @ \ ids]
         IN  ServerOK(t) /\ t.jobs = s.jobs
<1> DEFINE t == [s EXCEPT !.dead = @ \ ids]
<1>0. DOMAIN s = {"jobs", "dead", "plans", "v"}
  BY DEF ServerOK
<1>1. /\ DOMAIN t = {"jobs", "dead", "plans", "v"}
      /\ t.jobs = s.jobs /\ t.dead = s.dead \ ids /\ t.plans = s.plans /\ t.v = s.v
  BY <1>0
<1> HIDE DEF t
<1>2. ServerOK(t) /\ t.jobs = s.jobs
  BY <1>1 DEF ServerOK
<1> QED BY <1>2 DEF t

\* A schedule is enabled or disabled.
LEMMA PlansSwitched ==
  ASSUME NEW s, ServerOK(s), NEW ids, NEW b \in BOOLEAN
  PROVE  LET t == [s EXCEPT !.plans = [p \in DOMAIN @ |-> IF p \in ids THEN b ELSE @[p]]]
         IN  ServerOK(t) /\ t.jobs = s.jobs
<1> DEFINE ps == [p \in DOMAIN s.plans |-> IF p \in ids THEN b ELSE s.plans[p]]
           t == [s EXCEPT !.plans = ps]
<1>0. DOMAIN s = {"jobs", "dead", "plans", "v"}
  BY DEF ServerOK
<1>1. PlanMap(ps)
  BY DEF PlanMap, ServerOK
<1>2. [s EXCEPT !.plans = [p \in DOMAIN @ |-> IF p \in ids THEN b ELSE @[p]]] = t
  OBVIOUS
<1> HIDE DEF ps
<1>3. /\ DOMAIN t = {"jobs", "dead", "plans", "v"}
      /\ t.jobs = s.jobs /\ t.dead = s.dead /\ t.plans = ps /\ t.v = s.v
  BY <1>0
<1> HIDE DEF t
<1>4. ServerOK(t) /\ t.jobs = s.jobs
  BY <1>1, <1>3 DEF ServerOK
<1> QED BY <1>2, <1>4

LEMMA RequeuedGrows ==
  ASSUME ServerOK(srv), srv.v < MaxVersion, NEW ids \in SUBSET DOMAIN srv.jobs, NEW q \in Queues
  PROVE  LET s == Write([x \in ids |-> [srv.jobs[x] EXCEPT !.state = "queued", !.queue = q]])
             t == [s EXCEPT !.dead = @ \ ids]
         IN  ServerOK(t) /\ ServerGrows(srv, t) /\ DOMAIN t.jobs = DOMAIN srv.jobs
<1> DEFINE rows == [x \in ids |-> [srv.jobs[x] EXCEPT !.state = "queued", !.queue = q]]
           s == Write(rows)
           t == [s EXCEPT !.dead = @ \ ids]
<1>1. "queued" \in States
  BY DEF States
<1>2. ASSUME NEW x \in ids PROVE rows[x] \in Job
  <2>1. srv.jobs[x] \in Job
    BY DEF ServerOK, JobMap
  <2> QED BY <1>1, <2>1 DEF Job
<1>3. DOMAIN rows = ids /\ ids \subseteq Ids
  BY DEF ServerOK, JobMap
<1> HIDE DEF rows
<1>4. ServerOK(s) /\ ServerGrows(srv, s) /\ DOMAIN s.jobs = DOMAIN srv.jobs \cup DOMAIN rows
  BY <1>2, <1>3, WriteGrows
<1> HIDE DEF s
<1>5. ServerOK(t) /\ t.jobs = s.jobs
  BY <1>4, FewerDead
<1> HIDE DEF t
<1>6. ServerOK(t) /\ ServerGrows(srv, t) /\ DOMAIN t.jobs = DOMAIN srv.jobs
  BY <1>3, <1>4, <1>5 DEF ServerGrows
<1> QED BY <1>6 DEF t, s, rows

LEMMA CanceledGrows ==
  ASSUME ServerOK(srv), srv.v < MaxVersion, NEW ids \in SUBSET DOMAIN srv.jobs
  PROVE  LET t == Write([x \in ids |-> [srv.jobs[x] EXCEPT !.state =
                           IF @ \in Waiting \cup {"failed"} THEN "canceled" ELSE @]])
         IN  ServerOK(t) /\ ServerGrows(srv, t) /\ DOMAIN t.jobs = DOMAIN srv.jobs
<1> DEFINE rows == [x \in ids |-> [srv.jobs[x] EXCEPT !.state =
                      IF @ \in Waiting \cup {"failed"} THEN "canceled" ELSE @]]
           t == Write(rows)
<1>1. "canceled" \in States
  BY DEF States
<1>2. ASSUME NEW x \in ids PROVE rows[x] \in Job
  <2> DEFINE st == IF srv.jobs[x].state \in Waiting \cup {"failed"} THEN "canceled" ELSE srv.jobs[x].state
  <2>1. srv.jobs[x] \in Job
    BY DEF ServerOK, JobMap
  <2>2. st \in States
    BY <1>1, <2>1, RowParts
  <2>3. rows[x] = [srv.jobs[x] EXCEPT !.state = st]
    OBVIOUS
  <2> HIDE DEF st, rows
  <2> QED BY <2>1, <2>2, <2>3 DEF Job
<1>3. DOMAIN rows = ids /\ ids \subseteq Ids
  BY DEF ServerOK, JobMap
<1> HIDE DEF rows
<1>4. ServerOK(t) /\ ServerGrows(srv, t) /\ DOMAIN t.jobs = DOMAIN srv.jobs \cup DOMAIN rows
  BY <1>2, <1>3, WriteGrows
<1>5. ServerOK(t) /\ ServerGrows(srv, t) /\ DOMAIN t.jobs = DOMAIN srv.jobs
  BY <1>3, <1>4
<1> QED BY <1>5 DEF rows

LEMMA MadeGrows ==
  ASSUME ServerOK(srv), srv.v < MaxVersion, NEW i \in Ids, NEW job \in Job
  PROVE  LET t == Write([x \in {i} |-> job])
         IN  ServerOK(t) /\ ServerGrows(srv, t) /\ i \in DOMAIN t.jobs
<1> DEFINE rows == [x \in {i} |-> job]
           t == Write(rows)
<1>1. DOMAIN rows = {i} /\ \A x \in DOMAIN rows : rows[x] \in Job
  OBVIOUS
<1> HIDE DEF rows
<1>2. ServerOK(t) /\ ServerGrows(srv, t) /\ DOMAIN t.jobs = DOMAIN srv.jobs \cup DOMAIN rows
  BY <1>1, WriteGrows
<1>3. ServerOK(t) /\ ServerGrows(srv, t) /\ i \in DOMAIN t.jobs
  BY <1>1, <1>2
<1> QED BY <1>3 DEF rows

\* What the server makes of a command.
OutcomeOK(o, c) ==
  /\ ServerOK(o.srv) /\ ServerGrows(srv, o.srv)
  /\ o.job \in Ids \cup {NoId}
  /\ c.kind \in {"submit", "retry", "cancel"} => o.job \in DOMAIN o.srv.jobs

LEMMA OutcomesOK ==
  ASSUME ServerOK(srv), srv.v < MaxVersion, NEW c, CommandOK(c, srv), NEW o \in Outcomes(c)
  PROVE  OutcomeOK(o, c)
<1> DEFINE fresh == ServerIds \ DOMAIN srv.jobs
           first == {j \in fresh : \A k \in fresh : j <= k}
           made(draft) == {[srv |-> Write([x \in {i} |-> CreateJobFromDraft(draft)]), job |-> i] : i \in first}
           back(ids, q) == LET s == Write([x \in ids |-> [srv.jobs[x] EXCEPT !.state = "queued", !.queue = q]])
                           IN  [s EXCEPT !.dead = @ \ ids]
           one == CHOOSE i \in c.on : TRUE
<1>1. ASSUME NEW draft, CreateJobFromDraft(draft) \in Job, o \in made(draft)
      PROVE  OutcomeOK(o, c)
  <2>1. PICK i \in first : o = [srv |-> Write([x \in {i} |-> CreateJobFromDraft(draft)]), job |-> i]
    BY <1>1
  <2>2. i \in Ids
    BY ConsoleAssumption
  <2> DEFINE t == Write([x \in {i} |-> CreateJobFromDraft(draft)])
  <2>3. ServerOK(t) /\ ServerGrows(srv, t) /\ i \in DOMAIN t.jobs
    BY <1>1, <2>2, MadeGrows
  <2>4. o.srv = t /\ o.job = i
    BY <2>1
  <2> HIDE DEF t
  <2> QED BY <2>2, <2>3, <2>4 DEF OutcomeOK
<1>2. ASSUME NEW ids \in SUBSET DOMAIN srv.jobs, NEW q \in Queues
      PROVE  /\ ServerOK(back(ids, q)) /\ ServerGrows(srv, back(ids, q))
             /\ DOMAIN back(ids, q).jobs = DOMAIN srv.jobs
  BY RequeuedGrows
<1>3. DOMAIN srv.jobs \subseteq Ids
  BY DEF ServerOK, JobMap
<1>4. ServerGrows(srv, srv)
  BY GrowsReflexive
<1>5. Plain.queue \in Queues /\ CreateJobFromDraft(Plain) \in Job
  BY AQueue, PlainRow DEF Plain
<1>6. ASSUME c.kind \in PerJob
      PROVE  one \in DOMAIN srv.jobs /\ c.on = {one} /\ c.on \in SUBSET DOMAIN srv.jobs
  <2>1. PICK i \in DOMAIN srv.jobs : c.on = {i}
    BY <1>6 DEF CommandOK
  <2> QED BY <2>1
<1>7. CASE c.kind = "submit"
  <2> DEFINE twins == {i \in DOMAIN srv.jobs : c.with.key # "" /\ srv.jobs[i].key = c.with.key}
  <2>1. o \in IF twins # {} THEN {[srv |-> srv, job |-> i] : i \in twins} ELSE made(c.with)
    BY <1>7 DEF Outcomes
  <2>2. CASE twins # {}
    <3>1. PICK i \in twins : o = [srv |-> srv, job |-> i]
      BY <2>1, <2>2
    <3>2. o.srv = srv /\ o.job = i /\ i \in DOMAIN srv.jobs
      BY <3>1
    <3> QED BY <3>2, <1>3, <1>4 DEF OutcomeOK
  <2>3. CASE twins = {}
    <3>1. o \in made(c.with)
      BY <2>1, <2>3
    <3>2. c.with \in Drafts
      BY <1>7 DEF CommandOK
    <3>3. CreateJobFromDraft(c.with) \in Job
      BY <3>2, ConsoleAssumption, DraftRows
    <3> HIDE DEF made
    <3> QED BY <3>1, <3>3, <1>1
  <2> QED BY <2>2, <2>3
<1>8. CASE c.kind = "retry"
  <2> DEFINE q == srv.jobs[one].queue
             t == back(c.on, q)
  <2>1. o \in {[u EXCEPT !.job = one] : u \in {[srv |-> t, job |-> NoId]}}
    BY <1>8 DEF Outcomes
  <2>2. o = [[srv |-> t, job |-> NoId] EXCEPT !.job = one]
    BY <2>1
  <2>3. q \in Queues /\ one \in DOMAIN srv.jobs /\ c.on \in SUBSET DOMAIN srv.jobs
    BY <1>6, <1>8, RowParts DEF PerJob, ServerOK, JobMap
  <2>4. ServerOK(t) /\ ServerGrows(srv, t) /\ DOMAIN t.jobs = DOMAIN srv.jobs
    BY <2>3, <1>2
  <2> HIDE DEF t, q, one
  <2>5. o.srv = t /\ o.job = one
    BY <2>2
  <2> QED BY <2>3, <2>4, <2>5, <1>3 DEF OutcomeOK
<1>9. CASE c.kind = "cancel"
  <2> DEFINE t == Write([x \in c.on |-> [srv.jobs[x] EXCEPT !.state =
                           IF @ \in Waiting \cup {"failed"} THEN "canceled" ELSE @]])
  <2>1. o = [srv |-> t, job |-> one]
    BY <1>9 DEF Outcomes
  <2>2. one \in DOMAIN srv.jobs /\ c.on \in SUBSET DOMAIN srv.jobs
    BY <1>6, <1>9 DEF PerJob
  <2>3. ServerOK(t) /\ ServerGrows(srv, t) /\ DOMAIN t.jobs = DOMAIN srv.jobs
    BY <2>2, CanceledGrows
  <2> HIDE DEF t, one
  <2>4. o.srv = t /\ o.job = one
    BY <2>1
  <2> QED BY <2>2, <2>3, <2>4, <1>3 DEF OutcomeOK
<1>10. CASE c.kind = "replay"
  <2> DEFINE q == c.with.queue
             draft == [Plain EXCEPT !.queue = q]
             t == back(c.on, q)
  <2>1. o \in IF c.with.dead THEN {[srv |-> t, job |-> NoId]} ELSE made(draft)
    BY <1>10 DEF Outcomes
  <2>2. q \in Queues /\ c.on \in SUBSET DOMAIN srv.jobs
    BY <1>6, <1>10 DEF PerJob, CommandOK
  <2>3. CASE c.with.dead
    <3>1. o = [srv |-> t, job |-> NoId]
      BY <2>1, <2>3
    <3>2. ServerOK(t) /\ ServerGrows(srv, t)
      BY <2>2, <1>2
    <3> HIDE DEF t
    <3>3. o.srv = t /\ o.job = NoId
      BY <3>1
    <3> QED BY <3>2, <3>3, <1>10 DEF OutcomeOK
  <2>4. CASE ~c.with.dead
    <3>1. o \in made(draft)
      BY <2>1, <2>4
    <3>2. draft.dependencies = FALSE /\ draft.later = FALSE /\ draft.key = "" /\ draft.queue = q
      <4>1. \A a : LET r == [dependencies |-> FALSE, later |-> FALSE, key |-> "", queue |-> a]
                       e == [r EXCEPT !.queue = q]
                   IN  e.dependencies = FALSE /\ e.later = FALSE /\ e.key = "" /\ e.queue = q
        OBVIOUS
      <4> QED BY <4>1, Zenon DEF Plain
    <3> HIDE DEF made, draft
    <3>3. CreateJobFromDraft(draft) \in Job
      BY <2>2, <3>2, NoKeyText, DraftRows
    <3> QED BY <3>1, <3>3, <1>1
  <2> QED BY <2>3, <2>4
<1>11. CASE c.kind = "bulkReplay"
  <2> DEFINE t == back(c.on, c.with)
  <2>1. o = [srv |-> t, job |-> NoId]
    BY <1>11 DEF Outcomes
  <2>2. ServerOK(t) /\ ServerGrows(srv, t)
    BY <1>11, <1>2 DEF CommandOK
  <2> HIDE DEF t
  <2>3. o.srv = t /\ o.job = NoId
    BY <2>1
  <2> QED BY <2>2, <2>3, <1>11 DEF OutcomeOK
<1>12. CASE c.kind = "bulkDelete"
  <2> DEFINE t == [srv EXCEPT !.dead = @ \ c.on]
  <2>1. o = [srv |-> t, job |-> NoId]
    BY <1>12 DEF Outcomes
  <2>2. ServerOK(t) /\ t.jobs = srv.jobs
    BY FewerDead
  <2> HIDE DEF t
  <2>3. o.srv = t /\ o.job = NoId /\ ServerGrows(srv, t)
    BY <2>1, <2>2, <1>4 DEF ServerGrows
  <2> QED BY <2>2, <2>3, <1>12 DEF OutcomeOK
<1>13. CASE c.kind = "toggle"
  <2> DEFINE t == [srv EXCEPT !.plans = [p \in DOMAIN @ |-> IF p \in c.on THEN c.with ELSE @[p]]]
  <2>1. o = [srv |-> t, job |-> NoId]
    BY <1>13 DEF Outcomes
  <2>2. ServerOK(t) /\ t.jobs = srv.jobs
    BY <1>13, PlansSwitched DEF CommandOK
  <2> HIDE DEF t
  <2>3. o.srv = t /\ o.job = NoId /\ ServerGrows(srv, t)
    BY <2>1, <2>2, <1>4 DEF ServerGrows
  <2> QED BY <2>2, <2>3, <1>13 DEF OutcomeOK
<1>14. CASE c.kind = "save"
  <2>1. o = [srv |-> srv, job |-> NoId]
    BY <1>14 DEF Outcomes
  <2>2. o.srv = srv /\ o.job = NoId
    BY <2>1
  <2> QED BY <2>2, <1>4, <1>14 DEF OutcomeOK
<1>15. CASE c.kind \in {"trigger", "seed"}
  <2>1. o \in made(Plain)
    BY <1>15 DEF Outcomes
  <2> HIDE DEF made
  <2> QED BY <2>1, <1>1, <1>5
<1> QED BY <1>7, <1>8, <1>9, <1>10, <1>11, <1>12, <1>13, <1>14, <1>15 DEF CommandOK, Kinds, PerJob, PerPlan

-----------------------------------------------------------------------------
(* Kinds of steps that keep the invariant.                                 *)

LEMMA SpendKeeps ==
  ASSUME spent \in 0..MaxMoves, Spend
  PROVE  spent' \in 0..MaxMoves
<1>1. MaxMoves \in Nat
  BY ConsoleAssumption, Zenon
<1> QED BY <1>1 DEF Spend

LEMMA NotifyKeeps ==
  ASSUME ToastInv(toasts), NEW key \in {"done", "warn"}, Notify(key)
  PROVE  ToastInv(toasts')
<1>1. key \in ToastKeys
  BY ConsoleAssumption, Zenon
<1> QED BY <1>1, EnqueueKeepsToasts DEF Notify

LEMMA ShowKeeps ==
  ASSUME NEW d, Counted(d), NEW job, NEW dead, Show(d, job, dead)
  PROVE  /\ data' = d /\ Counted(data')
         /\ selected' \in DOMAIN data'.jobs \cup {NoId} /\ picked' \subseteq data'.dead
BY DEF Show

LEMMA ServerParts ==
  ASSUME NEW s, ServerOK(s), NEW k \in Parts
  PROVE  PartOK(k, Read(k, s), s)
<1>1. Known(s.jobs, s)
  BY DEF ServerOK, Known, JobMap, Job
<1> QED BY <1>1 DEF PartOK, Read, ServerOK, Parts

LEMMA ServerIsNewest ==
  ASSUME NEW d, NEW s, LiveOK(d, s)
  PROVE  AtLeast(s.jobs, d.jobs)
BY DEF LiveOK, Known, AtLeast

\* What live mode shows and the commands in flight, when the server goes on.
LEMMA ShownGrows ==
  ASSUME ConsoleInv, NEW t, ServerOK(t), ServerGrows(srv, t)
  PROVE  /\ mode = "live" => LiveOK(data, t)
         /\ \A x \in calls : CallOK(x, t)
<1>1. DOMAIN srv.jobs \subseteq DOMAIN t.jobs /\ ServerOK(srv)
  BY DEF ServerGrows, ConsoleInv
<1>2. ASSUME mode = "live" PROVE LiveOK(data, t)
  <2>1. LiveOK(data, srv)
    BY <1>2 DEF ConsoleInv
  <2>2. Known(data.jobs, t)
    BY <2>1, <1>1, KnownGrows DEF LiveOK
  <2> QED BY <1>1, <2>1, <2>2 DEF LiveOK
<1>3. ASSUME NEW x \in calls PROVE CallOK(x, t)
  <2>1. CallOK(x, srv)
    BY DEF ConsoleInv
  <2> QED BY <2>1, <1>1, CallGrows
<1> QED BY <1>2, <1>3

\* The calls in flight may read what the server becomes, which is newer.
LEMMA ServerBecomesKeeps ==
  ASSUME ConsoleInv, NEW t, ServerOK(t), ServerGrows(srv, t), ServerBecomes(t), UNCHANGED <<mode, data, refresh>>
  PROVE  /\ srv' = t
         /\ RefreshOK(refresh', gets', data') /\ GetsOK(gets', srv')
<1>1. /\ srv' = t /\ DOMAIN gets' = DOMAIN gets /\ DOMAIN gets \subseteq Parts
      /\ \A k \in DOMAIN gets : gets'[k] = gets[k] \cup {Read(k, t)}
  BY DEF ServerBecomes, ConsoleInv, GetsOK
<1>2. ASSUME NEW k \in DOMAIN gets, NEW c \in gets'[k] PROVE PartOK(k, c, t)
  <2>1. CASE c \in gets[k]
    <3>1. PartOK(k, c, srv) /\ ServerOK(srv)
      BY <2>1 DEF ConsoleInv, GetsOK
    <3>2. k = "jobs" => Known(c, t)
      BY <3>1, KnownGrows DEF PartOK
    <3> QED BY <3>1, <3>2 DEF PartOK, ServerGrows
  <2>2. CASE c = Read(k, t)
    BY <1>1, <2>2, ServerParts
  <2> QED BY <1>1, <2>1, <2>2
<1>3. GetsOK(gets', srv')
  BY <1>1, <1>2 DEF GetsOK
<1>4. ASSUME refresh.on, "jobs" \in refresh.made, NEW c \in gets'["jobs"]
      PROVE  AtLeast(c, data.jobs)
  <2>1. "jobs" \in DOMAIN gets
    BY <1>4 DEF ConsoleInv, RefreshOK, Parts
  <2>2. CASE c \in gets["jobs"]
    BY <1>4, <2>2 DEF ConsoleInv, RefreshOK
  <2>3. CASE c = Read("jobs", t)
    <3>1. LiveOK(data, t)
      BY <1>4, ShownGrows DEF ConsoleInv
    <3> QED BY <2>3, <3>1, ServerIsNewest DEF Read
  <2> QED BY <1>1, <1>4, <2>1, <2>2, <2>3
<1>5. RefreshOK(refresh', gets', data')
  BY <1>1, <1>4 DEF ConsoleInv, RefreshOK
<1> QED BY <1>1, <1>3, <1>5

\* What a refresh asks for, joining the calls that are out.
LEMMA AskedOK ==
  ASSUME ServerOK(srv), GetsOK(gets, srv), NEW out \in SUBSET DOMAIN gets
  PROVE  /\ DOMAIN Asked(out) = Parts /\ GetsOK(Asked(out), srv)
         /\ "jobs" \notin out => Asked(out)["jobs"] = {srv.jobs}
<1>1. DOMAIN Asked(out) = Parts
  BY DEF Asked
<1>2. ASSUME NEW k \in Parts, NEW c \in Asked(out)[k] PROVE PartOK(k, c, srv)
  <2>1. CASE k \in out
    <3>1. c \in gets[k]
      BY <1>2, <2>1 DEF Asked
    <3> QED BY <2>1, <3>1 DEF GetsOK
  <2>2. CASE k \notin out
    <3>1. c = Read(k, srv)
      BY <1>2, <2>2 DEF Asked
    <3> QED BY <3>1, ServerParts
  <2> QED BY <2>1, <2>2
<1>3. "jobs" \notin out => Asked(out)["jobs"] = {srv.jobs}
  BY DEF Asked, Read, Parts
<1> QED BY <1>1, <1>2, <1>3 DEF GetsOK

\* A refresh that begins.
LEMMA BegunOK ==
  ASSUME ServerOK(srv), GetsOK(gets, srv), NEW out \in SUBSET DOMAIN gets, NEW d, LiveOK(d, srv), NEW l,
         gets' = Asked(out), refresh' = Begun(out, l)
  PROVE  refresh'.on = TRUE /\ RefreshOK(refresh', gets', d) /\ GetsOK(gets', srv)
<1>1. refresh'.on = TRUE /\ refresh'.made = Parts \ out
  BY DEF Begun
<1>2. /\ DOMAIN gets' = Parts /\ GetsOK(gets', srv)
      /\ "jobs" \notin out => gets'["jobs"] = {srv.jobs}
  BY AskedOK
<1>3. AtLeast(srv.jobs, d.jobs)
  BY ServerIsNewest
<1> QED BY <1>1, <1>2, <1>3 DEF RefreshOK

\* A refresh that ends.
LEMMA EndedOK ==
  ASSUME NEW l, refresh' = NoRefresh(l), NEW g, NEW d
  PROVE  refresh'.on = FALSE /\ RefreshOK(refresh', g, d)
<1>1. refresh'.on = FALSE /\ refresh'.made = {}
  BY DEF NoRefresh
<1> QED BY <1>1 DEF RefreshOK

\* Fewer calls in flight.
LEMMA FewerGets ==
  ASSUME NEW s, NEW g, GetsOK(g, s), NEW K \in SUBSET DOMAIN g
  PROVE  GetsOK([k \in K |-> g[k]], s)
BY DEF GetsOK

\* A step of the demo.
LEMMA DemoStep ==
  ASSUME ConsoleInv, mode = "demo", NEW d, Counted(d), NEW job, NEW dead, Show(d, job, dead),
         busy' \subseteq busy, NEW key \in {"done", "warn"}, Notify(key), Spend,
         UNCHANGED <<mode, calls, refresh, gets, srv>>
  PROVE  ConsoleInv'
<1>1. /\ Counted(data') /\ selected' \in DOMAIN data'.jobs \cup {NoId} /\ picked' \subseteq data'.dead
  BY ShowKeeps
<1>2. ToastInv(toasts') /\ spent' \in 0..MaxMoves
  BY NotifyKeeps, SpendKeeps DEF ConsoleInv
<1>3. ~refresh.on
  BY DEF ConsoleInv
<1>4. BusyMeansInFlight'
  BY DEF ConsoleInv, BusyMeansInFlight
<1> QED BY <1>1, <1>2, <1>3, <1>4 DEF ConsoleInv, RefreshOK

LEMMA InDemoKeeps ==
  ASSUME ConsoleInv, NEW c, NEW d, Counted(d), NEW job, NEW dead, NEW key \in {"done", "warn"},
         InDemo(c, d, job, dead, key)
  PROVE  ConsoleInv'
BY DemoStep, Zenon DEF InDemo

LEMMA DemoControlKeeps ==
  ASSUME ConsoleInv, NEW d, Counted(d), DemoControl(d)
  PROVE  ConsoleInv'
<1>1. Counted(AppendEvent(d))
  BY AppendEventCounts
<1> QED BY <1>1, DemoStep, Zenon DEF DemoControl

LEMMA RefuseKeeps ==
  ASSUME ConsoleInv, Refuse
  PROVE  ConsoleInv'
<1>1. ToastInv(toasts') /\ spent' \in 0..MaxMoves
  BY NotifyKeeps, SpendKeeps DEF ConsoleInv, Refuse
<1>2. UNCHANGED <<mode, data, selected, picked, busy, calls, refresh, gets, srv>>
  BY DEF Refuse
<1> QED BY <1>1, <1>2 DEF ConsoleInv, BusyMeansInFlight

LEMMA SendKeeps ==
  ASSUME ConsoleInv, NEW c, CommandOK(c, srv), Send(c)
  PROVE  ConsoleInv'
<1>1. /\ spent' \in 0..MaxMoves
      /\ UNCHANGED <<mode, data, selected, picked, refresh, gets, srv, toasts>>
      /\ busy' = busy \cup {BusyKey(c)}
  BY SpendKeeps DEF ConsoleInv, Send
<1>2. CallOK(Call(c), srv) /\ Call(c).cmd = c
  BY DEF CallOK, Call
<1>3. \A x \in calls' : CallOK(x, srv)
  BY <1>2 DEF ConsoleInv, Send, MakeCall
<1>4. calls \subseteq calls' /\ \E x \in calls' : x.cmd = c
  BY <1>2 DEF Send, MakeCall
<1>5. BusyMeansInFlight'
  BY <1>1, <1>4 DEF ConsoleInv, BusyMeansInFlight
<1>6. BusyKey(c)[1] \in Kinds
  BY DEF CommandOK, BusyKey
<1>7. \A b \in busy' : b[1] \in Kinds
  BY <1>1, <1>6 DEF ConsoleInv
<1> QED BY <1>1, <1>3, <1>5, <1>7 DEF ConsoleInv

\* The drawer and the check boxes.
LEMMA ShowSameKeeps ==
  ASSUME ConsoleInv, NEW job, NEW dead, Show(data, job, dead), Spend,
         UNCHANGED <<mode, busy, calls, refresh, gets, srv, toasts>>
  PROVE  ConsoleInv'
<1>1. data' = data /\ selected' \in DOMAIN data'.jobs \cup {NoId} /\ picked' \subseteq data'.dead
  BY ShowKeeps DEF ConsoleInv
<1>2. spent' \in 0..MaxMoves
  BY SpendKeeps DEF ConsoleInv
<1> QED BY <1>1, <1>2 DEF ConsoleInv, BusyMeansInFlight

-----------------------------------------------------------------------------
(* The server, answers and refreshes.                                      *)

LEMMA ServeKeeps ==
  ASSUME ConsoleInv, NEW x \in calls, Serve(x)
  PROVE  ConsoleInv'
<1>1. PICK o \in Outcomes(x.cmd) :
        /\ ServerBecomes(o.srv)
        /\ calls' = (calls \ {x}) \cup
             {[x EXCEPT !.stage = "served", !.job = o.job,
                        !.row = IF o.job = NoId THEN NoRows ELSE o.srv.jobs[o.job]]}
  BY DEF Serve
<1>2. /\ srv.v < MaxVersion
      /\ UNCHANGED <<mode, data, selected, picked, busy, refresh, toasts, spent>>
  BY DEF Serve
<1>3. ServerOK(srv) /\ CallOK(x, srv) /\ CommandOK(x.cmd, srv)
  BY DEF ConsoleInv, CallOK
<1>4. OutcomeOK(o, x.cmd)
  BY <1>2, <1>3, OutcomesOK
<1>5. /\ srv' = o.srv /\ ServerOK(srv') /\ ServerGrows(srv, srv')
      /\ RefreshOK(refresh', gets', data') /\ GetsOK(gets', srv')
  BY <1>1, <1>2, <1>4, ServerBecomesKeeps DEF OutcomeOK
<1>6. /\ mode = "live" => LiveOK(data, srv')
      /\ \A y \in calls : CallOK(y, srv')
  BY <1>5, ShownGrows
<1> DEFINE r == IF o.job = NoId THEN NoRows ELSE o.srv.jobs[o.job]
           y == [x EXCEPT !.stage = "served", !.job = o.job, !.row = r]
<1>7. /\ DOMAIN y = DOMAIN x /\ y.cmd = x.cmd /\ y.stage = "served" /\ y.job = o.job /\ y.row = r
  BY <1>3 DEF CallOK
<1>8. ASSUME x.cmd.kind \in {"submit", "retry", "cancel"}
      PROVE  /\ o.job \in DOMAIN srv'.jobs /\ r = srv'.jobs[o.job]
             /\ r \in Job /\ r.by = "server" /\ r.v <= srv'.jobs[o.job].v
  <2>1. o.job \in DOMAIN srv'.jobs /\ o.job \in Ids
    BY <1>8, <1>4, <1>5 DEF OutcomeOK, ServerOK, JobMap
  <2>2. r = srv'.jobs[o.job]
    BY <2>1, <1>5, ConsoleAssumption
  <2> HIDE DEF r
  <2>3. r \in Job /\ r.by = "server"
    BY <2>1, <2>2, <1>5 DEF ServerOK, JobMap
  <2>4. r.v \in Nat
    BY <2>3, RowParts
  <2> QED BY <2>1, <2>2, <2>3, <2>4
<1>9. calls' = (calls \ {x}) \cup {y}
  BY <1>1
<1> HIDE DEF y, r
<1>10. CallOK(y, srv')
  BY <1>3, <1>4, <1>6, <1>7, <1>8 DEF CallOK, OutcomeOK
<1>11. \A z \in calls' : CallOK(z, srv')
  BY <1>6, <1>9, <1>10
<1>12. BusyMeansInFlight'
  BY <1>2, <1>7, <1>9 DEF ConsoleInv, BusyMeansInFlight
<1> QED BY <1>2, <1>5, <1>6, <1>11, <1>12 DEF ConsoleInv

LEMMA JobEndsKeeps ==
  ASSUME ConsoleInv, NEW i \in DOMAIN srv.jobs, JobEnds(i)
  PROVE  ConsoleInv'
<1> DEFINE row == [srv.jobs[i] EXCEPT !.state = "completed"]
<1>1. /\ srv.v < MaxVersion /\ spent' \in 0..MaxMoves
      /\ UNCHANGED <<mode, data, selected, picked, busy, calls, refresh, toasts>>
  BY SpendKeeps DEF JobEnds, ConsoleInv
<1>2. ServerBecomes(Write([x \in {i} |-> row]))
  <2>1. [x \in {i} |-> [srv.jobs[x] EXCEPT !.state = "completed"]] = [x \in {i} |-> row]
    OBVIOUS
  <2> QED BY <2>1 DEF JobEnds
<1>3. srv.jobs[i] \in Job /\ i \in Ids /\ ServerOK(srv)
  BY DEF ConsoleInv, ServerOK, JobMap
<1>4. row \in Job
  <2>1. "completed" \in States
    BY DEF States
  <2> QED BY <1>3, <2>1 DEF Job
<1> HIDE DEF row
<1> DEFINE t == Write([x \in {i} |-> row])
<1>7. ServerOK(t) /\ ServerGrows(srv, t)
  BY <1>1, <1>3, <1>4, MadeGrows
<1> HIDE DEF t
<1>5. /\ ServerOK(srv') /\ ServerGrows(srv, srv')
      /\ RefreshOK(refresh', gets', data') /\ GetsOK(gets', srv')
  <2>1. ServerBecomes(t)
    BY <1>2 DEF t
  <2> QED BY <1>1, <1>7, <2>1, ServerBecomesKeeps
<1>6. /\ mode = "live" => LiveOK(data, srv')
      /\ \A y \in calls : CallOK(y, srv')
  BY <1>5, ShownGrows
<1> QED BY <1>1, <1>5, <1>6 DEF ConsoleInv, BusyMeansInFlight

\* A call that ends takes its key with it, and no other.
LEMMA EndOfCall ==
  ASSUME BusyMeansInFlight, NEW x \in calls, calls' = calls \ {x}, busy' = busy \ {BusyKey(x.cmd)}
  PROVE  BusyMeansInFlight'
BY DEF BusyMeansInFlight

LEMMA CallFailsKeeps ==
  ASSUME ConsoleInv, NEW x \in calls, CallFails(x)
  PROVE  ConsoleInv'
<1>1. /\ calls' = calls \ {x} /\ busy' = busy \ {BusyKey(x.cmd)} /\ spent' \in 0..MaxMoves
      /\ UNCHANGED <<mode, data, selected, picked, refresh, gets, srv, toasts>>
  BY SpendKeeps DEF CallFails, BusyAfterFailure, ConsoleInv
<1>2. BusyMeansInFlight'
  BY <1>1, EndOfCall DEF ConsoleInv
<1> QED BY <1>1, <1>2 DEF ConsoleInv

\* What an answer makes of the data.
LEMMA AppliedCounts ==
  ASSUME ConsoleInv, NEW x \in calls, x.stage = "served"
  PROVE  /\ Counted(Applied(x))
         /\ mode = "live" => LiveOK(Applied(x), srv)
<1>1. Counted(data) /\ CallOK(x, srv) /\ ServerOK(srv)
  BY DEF ConsoleInv
<1>2. CASE x.cmd.kind \notin {"submit", "retry", "cancel"}
  <2>1. Applied(x) = data
    BY <1>2 DEF Applied
  <2> QED BY <2>1, <1>1 DEF ConsoleInv
<1>3. CASE x.cmd.kind \in {"submit", "retry", "cancel"}
  <2> DEFINE e == ReplaceJob(data, x.job, x.row)
  <2>1. /\ x.job \in DOMAIN srv.jobs /\ x.job \in Ids
        /\ x.row \in Job /\ x.row.by = "server" /\ x.row.v <= srv.jobs[x.job].v
    BY <1>1, <1>3 DEF CallOK, ServerOK, JobMap
  <2>2. /\ Counted(e)
        /\ e.jobs = [i \in DOMAIN data.jobs \cup {x.job} |-> IF i = x.job THEN x.row ELSE data.jobs[i]]
        /\ e.dead = data.dead /\ e.local = data.local
        /\ e.paused = data.paused /\ e.draining = data.draining /\ e.cordoned = data.cordoned
    BY <1>1, <2>1, ReplaceJobCounts
  <2> HIDE DEF e
  <2>3. ASSUME mode = "live" PROVE LiveOK(e, srv)
    <3>1. LiveOK(data, srv)
      BY <2>3 DEF ConsoleInv
    <3>2. DOMAIN e.jobs = DOMAIN data.jobs \cup {x.job}
      BY <2>2
    <3>3. ASSUME NEW i \in DOMAIN e.jobs
          PROVE  e.jobs[i] \in Job /\ e.jobs[i].by = "server" /\ i \in Ids /\ i \in DOMAIN srv.jobs
                 /\ e.jobs[i].v <= srv.jobs[i].v
      <4>1. CASE i = x.job
        <5>1. e.jobs[i] = x.row
          BY <4>1, <2>2
        <5> QED BY <5>1, <4>1, <2>1
      <4>2. CASE i # x.job
        <5>1. i \in DOMAIN data.jobs /\ e.jobs[i] = data.jobs[i]
          BY <4>2, <2>2
        <5> QED BY <5>1, <3>1 DEF LiveOK, Known, JobMap
      <4> QED BY <4>1, <4>2
    <3>4. Known(e.jobs, srv)
      BY <3>3 DEF Known, JobMap
    <3> QED BY <3>1, <3>4, <2>2 DEF LiveOK
  <2>4. CASE x.cmd.kind \in {"submit", "cancel"}
    <3>1. Applied(x) = e
      BY <2>4 DEF Applied, e
    <3> QED BY <3>1, <2>2, <2>3
  <2>5. CASE x.cmd.kind = "retry"
    <3> DEFINE f == RemoveDeadLetters(e, x.cmd.on)
    <3>1. Applied(x) = f
      BY <2>5 DEF Applied, e
    <3>2. /\ Counted(f) /\ f.jobs = e.jobs /\ f.dead = e.dead \ x.cmd.on /\ f.local = e.local
          /\ f.paused = e.paused /\ f.draining = e.draining /\ f.cordoned = e.cordoned
      BY <2>2, RemoveDeadLettersCounts
    <3> HIDE DEF f
    <3>3. mode = "live" => LiveOK(f, srv)
      BY <2>3, <3>2 DEF LiveOK
    <3> QED BY <3>1, <3>2, <3>3
  <2> QED BY <1>3, <2>4, <2>5
<1> QED BY <1>2, <1>3

\* A forced refresh aborts the one in flight: what it goes on with, in live mode,
\* asks for the jobs anew or joins a call left behind.
LEMMA ForcedKeeps ==
  ASSUME ConsoleInv, Forced, NEW d, mode = "live" => LiveOK(d, srv)
  PROVE  /\ refresh'.on \in BOOLEAN /\ (refresh'.on => mode = "live")
         /\ RefreshOK(refresh', gets', d) /\ GetsOK(gets', srv)
<1>1. ServerOK(srv) /\ GetsOK(gets, srv) /\ RefreshOK(refresh, gets, data)
      /\ refresh.on \in BOOLEAN /\ (refresh.on => mode = "live")
  BY DEF ConsoleInv
<1>2. CASE mode = "demo" /\ UNCHANGED <<refresh, gets>>
  BY <1>1, <1>2 DEF RefreshOK
<1>3. ASSUME mode = "live", NEW out \in SUBSET DOMAIN gets,
             gets' = Asked(out), refresh' = Begun(out, refresh.loading /\ ~refresh.on)
      PROVE  refresh'.on = TRUE /\ RefreshOK(refresh', gets', d) /\ GetsOK(gets', srv)
  BY <1>1, <1>3, BegunOK
<1>4. ASSUME mode = "live", NEW out \in SUBSET DOMAIN gets,
             gets' = [k \in Parts \ (refresh.made \cap out) |-> Asked(out)[k]], refresh' = NoRefresh(FALSE)
      PROVE  refresh'.on = FALSE /\ RefreshOK(refresh', gets', d) /\ GetsOK(gets', srv)
  <2>1. DOMAIN Asked(out) = Parts /\ GetsOK(Asked(out), srv)
    BY <1>1, AskedOK
  <2>2. GetsOK(gets', srv)
    BY <1>4, <2>1, FewerGets
  <2> QED BY <1>4, <2>2, EndedOK
<1> QED BY <1>2, <1>3, <1>4 DEF Forced

LEMMA AnsweredKeeps ==
  ASSUME ConsoleInv, NEW x \in calls, Answered(x)
  PROVE  ConsoleInv'
<1>1. /\ x.stage = "served" /\ calls' = calls \ {x} /\ busy' = busy \ {BusyKey(x.cmd)}
      /\ Forced /\ UNCHANGED <<mode, srv, spent>>
  BY DEF Answered
<1>2. Counted(Applied(x)) /\ (mode = "live" => LiveOK(Applied(x), srv))
  BY <1>1, AppliedCounts
<1>3. /\ data' = Applied(x) /\ Counted(data')
      /\ selected' \in DOMAIN data'.jobs \cup {NoId} /\ picked' \subseteq data'.dead
  BY <1>2, ShowKeeps DEF Answered
<1>4. ToastInv(toasts')
  BY NotifyKeeps DEF Answered, ConsoleInv
<1>5. /\ refresh'.on \in BOOLEAN /\ (refresh'.on => mode = "live")
      /\ RefreshOK(refresh', gets', data') /\ GetsOK(gets', srv)
  BY <1>1, <1>2, <1>3, ForcedKeeps
<1>6. BusyMeansInFlight'
  BY <1>1, EndOfCall DEF ConsoleInv
<1> QED BY <1>1, <1>2, <1>3, <1>4, <1>5, <1>6 DEF ConsoleInv

LEMMA RefreshBeginsKeeps ==
  ASSUME ConsoleInv, RefreshBegins
  PROVE  ConsoleInv'
<1>1. /\ mode = "live"
      /\ UNCHANGED <<mode, data, selected, picked, busy, calls, srv, toasts, spent>>
  BY DEF RefreshBegins
<1>2. PICK out \in SUBSET DOMAIN gets : gets' = Asked(out) /\ refresh' = Begun(out, refresh.loading)
  BY DEF RefreshBegins
<1>3. LiveOK(data, srv) /\ ServerOK(srv) /\ GetsOK(gets, srv)
  BY <1>1 DEF ConsoleInv
<1>4. refresh'.on = TRUE /\ RefreshOK(refresh', gets', data) /\ GetsOK(gets', srv)
  BY <1>2, <1>3, BegunOK
<1> QED BY <1>1, <1>4 DEF ConsoleInv, BusyMeansInFlight

LEMMA RefreshForcedKeeps ==
  ASSUME ConsoleInv, RefreshForced
  PROVE  ConsoleInv'
<1>1. /\ Forced /\ spent' \in 0..MaxMoves
      /\ UNCHANGED <<mode, data, selected, picked, busy, calls, srv, toasts>>
  BY SpendKeeps DEF RefreshForced, ConsoleInv
<1>2. mode = "live" => LiveOK(data, srv)
  BY DEF ConsoleInv
<1>3. /\ refresh'.on \in BOOLEAN /\ (refresh'.on => mode = "live")
      /\ RefreshOK(refresh', gets', data) /\ GetsOK(gets', srv)
  BY <1>1, <1>2, ForcedKeeps
<1> QED BY <1>1, <1>3 DEF ConsoleInv, BusyMeansInFlight

\* What a refresh brings.
LEMMA RefreshContent ==
  ASSUME ConsoleInv, refresh.on,
         NEW jobs \in gets["jobs"], NEW dead \in gets["snapshot"], NEW plans \in gets["schedules"]
  PROVE  LET content == [jobs |-> jobs, dead |-> dead, plans |-> plans]
         IN  /\ ContentOK(content, srv) /\ content.jobs = jobs
             /\ "jobs" \in refresh.made => AtLeast(jobs, data.jobs)
<1> DEFINE content == [jobs |-> jobs, dead |-> dead, plans |-> plans]
<1>1. DOMAIN gets = Parts /\ GetsOK(gets, srv)
      /\ ("jobs" \in refresh.made => AtLeast(jobs, data.jobs))
  BY DEF ConsoleInv, RefreshOK
<1>2. PartOK("jobs", jobs, srv) /\ PartOK("snapshot", dead, srv) /\ PartOK("schedules", plans, srv)
  BY <1>1 DEF GetsOK, Parts
<1>3. Known(jobs, srv) /\ dead \subseteq DOMAIN srv.jobs /\ PlanMap(plans)
  BY <1>2 DEF PartOK
<1>4. content.jobs = jobs /\ content.dead = dead /\ content.plans = plans
  OBVIOUS
<1> HIDE DEF content
<1>5. ContentOK(content, srv)
  BY <1>3, <1>4 DEF ContentOK
<1> QED BY <1>1, <1>4, <1>5 DEF content

LEMMA RefreshedCounts ==
  ASSUME ConsoleInv, refresh.on, NEW content, ContentOK(content, srv)
  PROVE  /\ Counted(RefreshedData(content)) /\ LiveOK(RefreshedData(content), srv)
         /\ RefreshedData(content).jobs = content.jobs
<1> DEFINE e == CreateConsoleDataFromApi(content, data)
<1>1. LiveOK(data, srv) /\ ServerOK(srv) /\ Datas(data)
  BY DEF ConsoleInv, Counted
<1>2. JobMap(content.jobs) /\ content.dead \subseteq Ids /\ PlanMap(content.plans)
  BY <1>1 DEF ContentOK, Known, ServerOK, JobMap
<1>3. /\ Counted(e) /\ e.jobs = content.jobs /\ e.dead = content.dead /\ (e.local => data.local)
      /\ e.paused = data.paused /\ e.draining = data.draining /\ e.cordoned = data.cordoned
  BY <1>1, <1>2, CreateFromApiCounts
<1>4. RefreshedData(content) = e
  BY DEF RefreshedData
<1> HIDE DEF e
<1>5. LiveOK(e, srv)
  BY <1>1, <1>3, Zenon DEF LiveOK, ContentOK
<1> QED BY <1>3, <1>4, <1>5

LEMMA RefreshLandsKeeps ==
  ASSUME ConsoleInv, RefreshLands
  PROVE  ConsoleInv'
<1>1. /\ refresh.on /\ refresh' = NoRefresh(FALSE) /\ gets' = NoRows
      /\ UNCHANGED <<mode, busy, calls, srv, toasts, spent>>
  BY DEF RefreshLands
<1>2. PICK jobs \in gets["jobs"], dead \in gets["snapshot"], plans \in gets["schedules"] :
        Show(RefreshedData([jobs |-> jobs, dead |-> dead, plans |-> plans]), selected, picked)
  BY DEF RefreshLands
<1> DEFINE content == [jobs |-> jobs, dead |-> dead, plans |-> plans]
<1>3. ContentOK(content, srv)
  BY <1>1, <1>2, RefreshContent
<1>4. Show(RefreshedData(content), selected, picked)
  BY <1>2
<1> HIDE DEF content
<1>5. Counted(RefreshedData(content)) /\ LiveOK(RefreshedData(content), srv)
  BY <1>1, <1>3, RefreshedCounts
<1>6. /\ data' = RefreshedData(content) /\ Counted(data')
      /\ selected' \in DOMAIN data'.jobs \cup {NoId} /\ picked' \subseteq data'.dead
  BY <1>4, <1>5, ShowKeeps
<1>7. refresh'.on = FALSE /\ RefreshOK(refresh', gets', data')
  BY <1>1, EndedOK
<1>8. GetsOK(gets', srv')
  BY <1>1 DEF GetsOK, NoRows
<1> QED BY <1>1, <1>5, <1>6, <1>7, <1>8 DEF ConsoleInv, BusyMeansInFlight

LEMMA RefreshFailsKeeps ==
  ASSUME ConsoleInv, RefreshFails
  PROVE  ConsoleInv'
<1>1. /\ refresh' = NoRefresh(FALSE) /\ spent' \in 0..MaxMoves
      /\ UNCHANGED <<mode, data, selected, picked, busy, calls, gets, srv, toasts>>
  BY SpendKeeps DEF RefreshFails, ConsoleInv
<1>2. refresh'.on = FALSE /\ RefreshOK(refresh', gets', data')
  BY <1>1, EndedOK
<1> QED BY <1>1, <1>2 DEF ConsoleInv, BusyMeansInFlight

LEMMA ToastStepsKeep ==
  ASSUME ConsoleInv,
         \/ \E id \in ToastIds : ToastEnds(id)
         \/ \E k \in ToastKeys : CooldownPasses(k)
  PROVE  ConsoleInv'
<1>1. ToastInv(toasts')
  BY DismissKeepsToasts, CooldownKeepsToasts DEF ToastEnds, CooldownPasses, ConsoleInv
<1>2. UNCHANGED <<mode, data, selected, picked, busy, calls, refresh, gets, srv, spent>>
  BY DEF ToastEnds, CooldownPasses
<1> QED BY <1>1, <1>2 DEF ConsoleInv, BusyMeansInFlight

-----------------------------------------------------------------------------
(* The operator.                                                           *)

LEMMA FreshIsNew ==
  ASSUME HasFresh(1)
  PROVE  FreshJob \in LocalIds /\ FreshJob \notin DOMAIN data.jobs /\ FreshJob \in Ids
<1> DEFINE S == LocalIds \ DOMAIN data.jobs
<1>1. S # {}
  <2>1. Cardinality({}) = 0
    BY FS_EmptySet
  <2> QED BY <2>1 DEF HasFresh
<1>2. \E i \in LocalIds : i \notin DOMAIN data.jobs
  BY <1>1
<1>3. FreshJob \in LocalIds /\ FreshJob \notin DOMAIN data.jobs
  BY <1>2 DEF FreshJob
<1> QED BY <1>3, ConsoleAssumption

LEMMA SecondFresh ==
  ASSUME HasFresh(2)
  PROVE  /\ FreshJob \in Ids
         /\ (CHOOSE i \in LocalIds \ {FreshJob} : i \notin DOMAIN data.jobs) \in Ids
<1> DEFINE S == LocalIds \ DOMAIN data.jobs
<1>1. S # {} /\ \A x : S # {x}
  <2>1. Cardinality({}) = 0
    BY FS_EmptySet
  <2>2. \A x : Cardinality({x}) = 1
    BY FS_Singleton
  <2> QED BY <2>1, <2>2 DEF HasFresh
<1>2. \E i \in LocalIds : i \notin DOMAIN data.jobs
  BY <1>1
<1>3. FreshJob \in LocalIds /\ FreshJob \notin DOMAIN data.jobs
  BY <1>2 DEF FreshJob
<1>4. \E i \in LocalIds \ {FreshJob} : i \notin DOMAIN data.jobs
  BY <1>1, <1>3
<1>5. (CHOOSE i \in LocalIds \ {FreshJob} : i \notin DOMAIN data.jobs) \in LocalIds
  BY <1>4
<1> QED BY <1>3, <1>5, ConsoleAssumption

\* In live mode the console names jobs of the server.
LEMMA LiveNames ==
  ASSUME ConsoleInv, mode = "live"
  PROVE  DOMAIN data.jobs \subseteq DOMAIN srv.jobs /\ data.dead \subseteq DOMAIN srv.jobs
BY DEF ConsoleInv, LiveOK, Known

LEMMA SendsOK ==
  ASSUME ConsoleInv, mode = "live"
  PROVE  /\ \A i \in DOMAIN data.jobs : \A kind \in PerJob : \A with :
              (kind = "replay" => with.queue \in Queues) => CommandOK(Command(kind, {i}, with), srv)
         /\ \A d \in Drafts : CommandOK(Command("submit", {}, d), srv)
         /\ \A q \in Queues : CommandOK(Command("bulkReplay", picked, q), srv)
         /\ CommandOK(Command("bulkDelete", picked, ""), srv)
         /\ CommandOK(Command("save", {}, ""), srv) /\ CommandOK(Command("seed", {}, ""), srv)
         /\ \A p : CommandOK(Command("trigger", {p}, ""), srv)
         /\ \A p : \A b \in BOOLEAN : CommandOK(Command("toggle", {p}, b), srv)
<1>1. DOMAIN data.jobs \subseteq DOMAIN srv.jobs /\ picked \subseteq DOMAIN srv.jobs
  BY LiveNames DEF ConsoleInv
<1>2. \A i \in DOMAIN data.jobs : \A kind \in PerJob : \A with :
        (kind = "replay" => with.queue \in Queues) => CommandOK(Command(kind, {i}, with), srv)
  BY <1>1 DEF CommandOK, Command, Kinds, PerJob, PerPlan
<1>3. \A d \in Drafts : CommandOK(Command("submit", {}, d), srv)
  BY DEF CommandOK, Command, Kinds, PerJob, PerPlan
<1>4. \A q \in Queues : CommandOK(Command("bulkReplay", picked, q), srv)
  BY <1>1 DEF CommandOK, Command, Kinds, PerJob, PerPlan
<1>5. /\ CommandOK(Command("bulkDelete", picked, ""), srv)
      /\ CommandOK(Command("save", {}, ""), srv) /\ CommandOK(Command("seed", {}, ""), srv)
      /\ \A p : CommandOK(Command("trigger", {p}, ""), srv)
  BY DEF CommandOK, Command, Kinds, PerJob, PerPlan
<1>6. \A p : \A b \in BOOLEAN : CommandOK(Command("toggle", {p}, b), srv)
  BY DEF CommandOK, Command, Kinds, PerJob, PerPlan
<1> QED BY <1>2, <1>3, <1>4, <1>5, <1>6

\* Parts of a command that end in AppendEvent.
LEMMA ReplaceAndLog ==
  ASSUME NEW d, Counted(d), NEW i \in Ids, NEW job \in Job
  PROVE  /\ Counted(ReplaceJob(d, i, job)) /\ Counted(AppendEvent(ReplaceJob(d, i, job)))
         /\ \A ids : Counted(AppendEvent(RemoveDeadLetters(ReplaceJob(d, i, job), ids)))
<1>1. Counted(ReplaceJob(d, i, job))
  BY ReplaceJobCounts
<1>2. ASSUME NEW e, Counted(e), NEW ids
      PROVE  Counted(AppendEvent(e)) /\ Counted(AppendEvent(RemoveDeadLetters(e, ids)))
  BY <1>2, AppendEventCounts, RemoveDeadLettersCounts
<1> QED BY <1>1, <1>2

LEMMA DataRow ==
  ASSUME ConsoleInv, NEW i \in DOMAIN data.jobs
  PROVE  data.jobs[i] \in Job /\ i \in Ids
BY DEF ConsoleInv, Counted, Datas

LEMMA SubmitJobKeeps ==
  ASSUME ConsoleInv, NEW d \in Drafts, SubmitJob(d)
  PROVE  ConsoleInv'
<1> DEFINE c == Command("submit", {}, d)
           twins == {i \in DOMAIN data.jobs : d.key # "" /\ data.jobs[i].key = d.key}
           new == AppendEvent(ReplaceJob(data, FreshJob, CreateJobFromDraft(d)))
<1>1. \/ Refuse \/ Send(c)
      \/ \E i \in twins : InDemo(c, data, i, picked, "warn")
      \/ HasFresh(1) /\ InDemo(c, new, FreshJob, picked, "done")
  BY DEF SubmitJob
<1>2. Counted(data) /\ CreateJobFromDraft(d) \in Job
  BY ConsoleAssumption, DraftRows DEF ConsoleInv
<1>3. CASE Refuse
  BY <1>3, RefuseKeeps
<1>4. CASE Send(c)
  <2>1. CommandOK(c, srv)
    BY <1>4, SendsOK DEF Send
  <2> QED BY <2>1, <1>4, SendKeeps
<1>5. CASE \E i \in twins : InDemo(c, data, i, picked, "warn")
  BY <1>2, <1>5, InDemoKeeps
<1>6. CASE HasFresh(1) /\ InDemo(c, new, FreshJob, picked, "done")
  <2>1. Counted(new)
    BY <1>2, <1>6, FreshIsNew, ReplaceAndLog
  <2> QED BY <2>1, <1>6, InDemoKeeps
<1> QED BY <1>1, <1>3, <1>4, <1>5, <1>6

LEMMA RetryJobKeeps ==
  ASSUME ConsoleInv, NEW i \in DOMAIN data.jobs, RetryJob(i)
  PROVE  ConsoleInv'
<1> DEFINE c == Command("retry", {i}, "")
           new == AppendEvent(RemoveDeadLetters(ReplaceJob(data, i, Local(data.jobs[i], "queued")), {i}))
<1>1. CASE Send(c)
  <2>1. CommandOK(c, srv)
    BY <1>1, SendsOK DEF Send, PerJob
  <2> QED BY <2>1, <1>1, SendKeeps
<1>2. CASE InDemo(c, new, selected, picked, "done")
  <2>1. Local(data.jobs[i], "queued") \in Job
    BY DataRow, LocalRows, RowParts DEF States
  <2>2. Counted(new)
    BY <2>1, DataRow, ReplaceAndLog DEF ConsoleInv
  <2> QED BY <2>2, <1>2, InDemoKeeps
<1> QED BY <1>1, <1>2 DEF RetryJob

LEMMA CancelJobKeeps ==
  ASSUME ConsoleInv, NEW i \in DOMAIN data.jobs, CancelJob(i)
  PROVE  ConsoleInv'
<1> DEFINE c == Command("cancel", {i}, "")
           new == AppendEvent(ReplaceJob(data, i, Local(data.jobs[i], "canceled")))
<1>1. CASE Send(c)
  <2>1. CommandOK(c, srv)
    BY <1>1, SendsOK DEF Send, PerJob
  <2> QED BY <2>1, <1>1, SendKeeps
<1>2. CASE InDemo(c, new, selected, picked, "done")
  <2>1. Local(data.jobs[i], "canceled") \in Job
    BY DataRow, LocalRows, RowParts DEF States
  <2>2. Counted(new)
    BY <2>1, DataRow, ReplaceAndLog DEF ConsoleInv
  <2> QED BY <2>2, <1>2, InDemoKeeps
<1> QED BY <1>1, <1>2 DEF CancelJob

LEMMA AdjustPriorityKeeps ==
  ASSUME ConsoleInv, NEW i \in DOMAIN data.jobs,
         NEW p \in {Raise(data.jobs[i].priority), Lower(data.jobs[i].priority)}, AdjustPriority(i, p)
  PROVE  ConsoleInv'
<1>1. data.jobs[i] \in Job /\ i \in Ids /\ Counted(data)
  BY DataRow DEF ConsoleInv
<1>2. p \in Priorities
  <2>1. data.jobs[i].priority \in 0..9
    BY <1>1, RowParts DEF Priorities
  <2> QED BY <2>1 DEF Priorities, Raise, Lower, Clamp
<1>3. [Local(data.jobs[i], data.jobs[i].state) EXCEPT !.priority = p] \in Job
  BY <1>1, <1>2, LocalRows, RowParts
<1>4. Counted(ReplaceJob(data, i, [Local(data.jobs[i], data.jobs[i].state) EXCEPT !.priority = p]))
  BY <1>1, <1>3, ReplaceAndLog
<1> QED BY <1>4, DemoControlKeeps DEF AdjustPriority

LEMMA SwitchModeKeeps ==
  ASSUME ConsoleInv, SwitchMode
  PROVE  ConsoleInv'
<1> DEFINE d == IF mode' = "live" THEN EmptyLive ELSE Demo
<1>1. /\ mode' \in {"live", "demo"} /\ refresh' = NoRefresh(mode' = "live")
      /\ UNCHANGED <<busy, calls, srv, toasts>> /\ spent' \in 0..MaxMoves
  BY SpendKeeps DEF SwitchMode, ConsoleInv
<1>2. Counted(d)
  BY FirstData
<1>3. Show(d, selected, picked)
  BY DEF SwitchMode
<1>4. mode' = "live" => LiveOK(d, srv)
  BY FirstData DEF LiveOK, Known, JobMap
<1> HIDE DEF d
<1>5. /\ data' = d /\ Counted(data')
      /\ selected' \in DOMAIN data'.jobs \cup {NoId} /\ picked' \subseteq data'.dead
  BY <1>2, <1>3, ShowKeeps
<1>6. refresh'.on = FALSE /\ RefreshOK(refresh', gets', data')
  BY <1>1, EndedOK
<1>7. GetsOK(gets', srv')
  <2>1. gets' = [k \in DOMAIN gets \ refresh.made |-> gets[k]] /\ GetsOK(gets, srv)
    BY DEF SwitchMode, ConsoleInv
  <2> QED BY <1>1, <2>1, FewerGets
<1> QED BY <1>1, <1>4, <1>5, <1>6, <1>7 DEF ConsoleInv, BusyMeansInFlight

LEMMA ReplayJobKeeps ==
  ASSUME ConsoleInv, NEW i \in DOMAIN data.jobs, NEW q \in Queues, ReplayJob(i, q)
  PROVE  ConsoleInv'
<1> DEFINE with == [queue |-> q, dead |-> i \in data.dead]
           c == Command("replay", {i}, with)
           again == [Local(data.jobs[i], "queued") EXCEPT !.queue = q]
           requeued == AppendEvent(RemoveDeadLetters(ReplaceJob(data, i, again), {i}))
           clone == AppendEvent(ReplaceJob(data, FreshJob, again))
<1>1. \/ Refuse \/ Send(c) \/ InDemo(c, requeued, selected, picked, "done")
      \/ HasFresh(1) /\ InDemo(c, clone, FreshJob, picked, "done")
  BY DEF ReplayJob
<1>2. again \in Job /\ i \in Ids /\ Counted(data)
  <2>1. data.jobs[i] \in Job /\ i \in Ids /\ Counted(data)
    BY DataRow DEF ConsoleInv
  <2>2. "queued" \in States /\ data.jobs[i].priority \in Priorities
    BY <2>1, RowParts DEF States
  <2> QED BY <2>1, <2>2, LocalRows
<1>3. with.queue = q
  OBVIOUS
<1>4. CASE Send(c)
  <2>1. CommandOK(c, srv)
    BY <1>3, <1>4, SendsOK DEF Send, PerJob
  <2> QED BY <2>1, <1>4, SendKeeps
<1> HIDE DEF again
<1>5. CASE InDemo(c, requeued, selected, picked, "done")
  <2>1. Counted(requeued)
    BY <1>2, ReplaceAndLog
  <2> QED BY <2>1, <1>5, InDemoKeeps
<1>6. CASE HasFresh(1) /\ InDemo(c, clone, FreshJob, picked, "done")
  <2>1. Counted(clone)
    BY <1>2, <1>6, FreshIsNew, ReplaceAndLog
  <2> QED BY <2>1, <1>6, InDemoKeeps
<1> QED BY <1>1, <1>4, <1>5, <1>6, RefuseKeeps

\* The data with other jobs, its counts not made yet.
LEMMA JobsReplaced ==
  ASSUME NEW d, Datas(d), NEW js, JobMap(js), NEW ids
  PROVE  Counted(RemoveDeadLetters([d EXCEPT !.jobs = js], ids))
<1> DEFINE f == [d EXCEPT !.jobs = js]
           g == [f EXCEPT !.dead = @ \ ids]
<1>0. DOMAIN d = {"source", "jobs", "dead", "plans", "overview", "paused", "draining", "cordoned", "local"}
  BY DEF Datas
<1>1. /\ DOMAIN f = DOMAIN d
      /\ f.source = d.source /\ f.jobs = js /\ f.dead = d.dead /\ f.plans = d.plans
      /\ f.paused = d.paused /\ f.draining = d.draining /\ f.cordoned = d.cordoned /\ f.local = d.local
  BY <1>0
<1> HIDE DEF f
<1>2. /\ DOMAIN g = DOMAIN d
      /\ g.source = f.source /\ g.jobs = f.jobs /\ g.dead = f.dead \ ids /\ g.plans = f.plans
      /\ g.paused = f.paused /\ g.draining = f.draining /\ g.cordoned = f.cordoned /\ g.local = f.local
  BY <1>0, <1>1
<1>3. RemoveDeadLetters(f, ids) = Reconcile(g)
  BY DEF RemoveDeadLetters
<1> HIDE DEF g
<1>4. Datas(g)
  BY <1>1, <1>2 DEF Datas, JobMap
<1>5. Counted(RemoveDeadLetters(f, ids))
  BY <1>3, <1>4, ReconcileCounts
<1> QED BY <1>5 DEF f

LEMMA ReplaySelectedKeeps ==
  ASSUME ConsoleInv, NEW q \in Queues, ReplaySelected(q)
  PROVE  ConsoleInv'
<1> DEFINE c == Command("bulkReplay", picked, q)
           found == picked \cap DOMAIN data.jobs
           again(i) == [Local(data.jobs[i], "queued") EXCEPT !.queue = q]
           js == [i \in DOMAIN data.jobs |-> IF i \in found THEN again(i) ELSE data.jobs[i]]
           new == AppendEvent(RemoveDeadLetters([data EXCEPT !.jobs = js], found))
<1>1. Refuse \/ Send(c) \/ InDemo(c, new, selected, {}, "done")
  BY DEF ReplaySelected
<1>2. CASE Send(c)
  <2>1. CommandOK(c, srv)
    BY <1>2, SendsOK DEF Send
  <2> QED BY <2>1, <1>2, SendKeeps
<1>3. CASE InDemo(c, new, selected, {}, "done")
  <2>1. ASSUME NEW i \in DOMAIN data.jobs PROVE again(i) \in Job /\ data.jobs[i] \in Job /\ i \in Ids
    BY DataRow, LocalRows, RowParts DEF States
  <2> HIDE DEF again
  <2>2. JobMap(js) /\ Datas(data)
    BY <2>1 DEF JobMap, ConsoleInv, Counted
  <2> HIDE DEF js, found
  <2>3. Counted(RemoveDeadLetters([data EXCEPT !.jobs = js], found))
    BY <2>2, JobsReplaced
  <2>4. Counted(new)
    BY <2>3, AppendEventCounts
  <2> HIDE DEF new
  <2> QED BY <2>4, <1>3, InDemoKeeps
<1> QED BY <1>1, <1>2, <1>3, RefuseKeeps

LEMMA DeleteSelectedKeeps ==
  ASSUME ConsoleInv, DeleteSelected
  PROVE  ConsoleInv'
<1> DEFINE c == Command("bulkDelete", picked, "")
           new == AppendEvent(RemoveDeadLetters(data, picked))
<1>1. Refuse \/ Send(c) \/ InDemo(c, new, selected, {}, "done")
  BY DEF DeleteSelected
<1>2. CASE Send(c)
  <2>1. CommandOK(c, srv)
    BY <1>2, SendsOK DEF Send
  <2> QED BY <2>1, <1>2, SendKeeps
<1>3. CASE InDemo(c, new, selected, {}, "done")
  <2>1. Counted(RemoveDeadLetters(data, picked))
    BY RemoveDeadLettersCounts DEF ConsoleInv
  <2>2. Counted(new)
    BY <2>1, AppendEventCounts
  <2> QED BY <2>2, <1>3, InDemoKeeps
<1> QED BY <1>1, <1>2, <1>3, RefuseKeeps

\* The data with other schedules.
LEMMA NewPlansCount ==
  ASSUME NEW d, Datas(d), NEW ps, PlanMap(ps)
  PROVE  Counted(AppendEvent(Reconcile([d EXCEPT !.plans = ps])))
<1> DEFINE f == [d EXCEPT !.plans = ps]
<1>0. DOMAIN d = {"source", "jobs", "dead", "plans", "overview", "paused", "draining", "cordoned", "local"}
  BY DEF Datas
<1>1. /\ DOMAIN f = DOMAIN d
      /\ f.source = d.source /\ f.jobs = d.jobs /\ f.dead = d.dead /\ f.plans = ps
      /\ f.paused = d.paused /\ f.draining = d.draining /\ f.cordoned = d.cordoned /\ f.local = d.local
  BY <1>0
<1> HIDE DEF f
<1>2. Datas(f)
  BY <1>1 DEF Datas, PlanMap
<1>3. Counted(AppendEvent(Reconcile(f)))
  BY <1>2, ReconcileCounts, AppendEventCounts
<1> QED BY <1>3 DEF f

LEMMA SubmitScheduleKeeps ==
  ASSUME ConsoleInv, NEW valid \in BOOLEAN, SubmitSchedule(valid)
  PROVE  ConsoleInv'
<1> DEFINE c == Command("save", {}, "")
           ps(p) == [x \in DOMAIN data.plans \cup {p} |-> IF x = p THEN TRUE ELSE data.plans[x]]
           new(p) == AppendEvent(Reconcile([data EXCEPT !.plans = ps(p)]))
<1>1. \/ Refuse \/ Send(c)
      \/ \E p \in LocalPlans : InDemo(c, new(p), selected, picked, "done")
  BY DEF SubmitSchedule
<1>2. CASE Send(c)
  <2>1. CommandOK(c, srv)
    BY <1>2, SendsOK DEF Send
  <2> QED BY <2>1, <1>2, SendKeeps
<1>3. CASE \E p \in LocalPlans : InDemo(c, new(p), selected, picked, "done")
  <2>1. PICK p \in LocalPlans : InDemo(c, new(p), selected, picked, "done")
    BY <1>3
  <2>2. p \in Plans
    BY ConsoleAssumption
  <2>3. Datas(data)
    BY DEF ConsoleInv, Counted
  <2>4. PlanMap(ps(p))
    BY <2>2, <2>3 DEF PlanMap, Datas
  <2> HIDE DEF ps
  <2>5. Counted(new(p))
    BY <2>3, <2>4, NewPlansCount
  <2> QED BY <2>1, <2>5, InDemoKeeps
<1> QED BY <1>1, <1>2, <1>3, RefuseKeeps

LEMMA ToggleScheduleKeeps ==
  ASSUME ConsoleInv, NEW p \in DOMAIN data.plans, ToggleSchedule(p)
  PROVE  ConsoleInv'
<1> DEFINE c == Command("toggle", {p}, ~data.plans[p])
           ps == [data.plans EXCEPT ![p] = ~@]
           new == AppendEvent(Reconcile([data EXCEPT !.plans = ps]))
<1>1. Datas(data) /\ data.plans[p] \in BOOLEAN
  BY DEF ConsoleInv, Counted, Datas
<1>2. [data EXCEPT !.plans[p] = ~@] = [data EXCEPT !.plans = ps]
  OBVIOUS
<1>3. Send(c) \/ InDemo(c, new, selected, picked, "done")
  BY <1>2 DEF ToggleSchedule
<1>4. CASE Send(c)
  <2>1. CommandOK(c, srv)
    BY <1>1, <1>4, SendsOK DEF Send
  <2> QED BY <2>1, <1>4, SendKeeps
<1>5. CASE InDemo(c, new, selected, picked, "done")
  <2>1. PlanMap(ps)
    BY <1>1 DEF PlanMap, Datas
  <2> HIDE DEF ps
  <2>2. Counted(new)
    BY <1>1, <2>1, NewPlansCount
  <2> QED BY <2>2, <1>5, InDemoKeeps
<1> QED BY <1>3, <1>4, <1>5

LEMMA TriggerScheduleKeeps ==
  ASSUME ConsoleInv, NEW p, TriggerSchedule(p)
  PROVE  ConsoleInv'
<1> DEFINE c == Command("trigger", {p}, "")
           job == CreateJobFromDraft([dependencies |-> FALSE, later |-> FALSE, key |-> "",
                                      queue |-> CHOOSE q \in Queues : TRUE])
           new == AppendEvent(ReplaceJob(data, FreshJob, job))
<1>1. Send(c) \/ (HasFresh(1) /\ InDemo(c, new, FreshJob, picked, "done"))
  BY DEF TriggerSchedule
<1>2. CASE Send(c)
  <2>1. CommandOK(c, srv)
    BY <1>2, SendsOK DEF Send
  <2> QED BY <2>1, <1>2, SendKeeps
<1>3. CASE HasFresh(1) /\ InDemo(c, new, FreshJob, picked, "done")
  <2>1. job \in Job
    BY AQueue, PlainRow
  <2> HIDE DEF job
  <2>2. Counted(new)
    BY <2>1, <1>3, FreshIsNew, ReplaceAndLog DEF ConsoleInv
  <2> QED BY <2>2, <1>3, InDemoKeeps
<1> QED BY <1>1, <1>2, <1>3

LEMMA WorkflowCounts ==
  ASSUME NEW d, Datas(d), NEW root \in Ids, NEW child \in Ids, NEW q \in Queues
  PROVE  Counted(AddLocalWorkflowJobs(d, root, {child}, q))
<1> DEFINE row(i) == [state |-> IF i = root THEN "queued" ELSE "blocked", queue |-> q,
                      priority |-> IF i = root THEN 6 ELSE 5, key |-> "", by |-> "console", v |-> 0]
           js == [i \in DOMAIN d.jobs \cup {child} \cup {root} |-> IF i \in DOMAIN d.jobs THEN d.jobs[i] ELSE row(i)]
<1>1. 0 \in 0..MaxVersion
  BY NumbersAssumption
<1>2. 5 \in Priorities /\ 6 \in Priorities
  BY DEF Priorities
<1>3. "queued" \in States /\ "blocked" \in States
  BY DEF States
<1>4. ASSUME NEW i PROVE row(i) \in Job
  <2>1. CASE i = root
    BY <2>1, <1>1, <1>2, <1>3, NoKeyText, MadeRow
  <2>2. CASE i # root
    BY <2>2, <1>1, <1>2, <1>3, NoKeyText, MadeRow
  <2> QED BY <2>1, <2>2
<1>5. AddLocalWorkflowJobs(d, root, {child}, q) = AppendEvent(Reconcile([d EXCEPT !.jobs = js]))
  BY DEF AddLocalWorkflowJobs
<1> HIDE DEF row
<1>6. JobMap(js)
  BY <1>4 DEF JobMap, Datas
<1> HIDE DEF js
<1>7. Counted(Reconcile([d EXCEPT !.jobs = js]))
  BY <1>6, NewJobsCount
<1> QED BY <1>5, <1>7, AppendEventCounts

LEMMA SeedWorkflowKeeps ==
  ASSUME ConsoleInv, SeedWorkflow
  PROVE  ConsoleInv'
<1> DEFINE c == Command("seed", {}, "")
           child == CHOOSE i \in LocalIds \ {FreshJob} : i \notin DOMAIN data.jobs
           new == AddLocalWorkflowJobs(data, FreshJob, {child}, CHOOSE q \in Queues : TRUE)
<1>1. Send(c) \/ (HasFresh(2) /\ InDemo(c, new, selected, picked, "done"))
  BY DEF SeedWorkflow
<1>2. CASE Send(c)
  <2>1. CommandOK(c, srv)
    BY <1>2, SendsOK DEF Send
  <2> QED BY <2>1, <1>2, SendKeeps
<1>3. CASE HasFresh(2) /\ InDemo(c, new, selected, picked, "done")
  <2>1. FreshJob \in Ids /\ child \in Ids
    BY <1>3, SecondFresh
  <2>2. Datas(data)
    BY DEF ConsoleInv, Counted
  <2> HIDE DEF child
  <2>3. Counted(new)
    BY <2>1, <2>2, AQueue, WorkflowCounts
  <2> QED BY <2>3, <1>3, InDemoKeeps
<1> QED BY <1>1, <1>2, <1>3

LEMMA SetQueueControlKeeps ==
  ASSUME ConsoleInv, NEW q \in Queues, NEW action \in {"pause", "resume", "drain"}, SetQueueControl(q, action)
  PROVE  ConsoleInv'
<1> DEFINE out(i) == action = "drain" /\ data.jobs[i].queue = q /\ data.jobs[i].state \in Waiting
           drained == [i \in DOMAIN data.jobs |-> IF out(i) THEN Local(data.jobs[i], "canceled") ELSE data.jobs[i]]
           pa == CASE action = "pause" -> data.paused \cup {q} [] action = "resume" -> data.paused \ {q}
                   [] OTHER -> data.paused
           dr == IF action = "drain" THEN data.draining \cup {q} ELSE data.draining \ {q}
           f == [data EXCEPT !.jobs = drained, !.paused = pa, !.draining = dr]
<1>0. Datas(data)
  BY DEF ConsoleInv, Counted
<1>1. DOMAIN data = {"source", "jobs", "dead", "plans", "overview", "paused", "draining", "cordoned", "local"}
  BY <1>0 DEF Datas
<1>2. DemoControl(Reconcile(f))
  BY DEF SetQueueControl
<1>3. pa \subseteq Queues /\ dr \subseteq Queues
  BY <1>0 DEF Datas
<1> HIDE DEF pa, dr, out
<1>4. JobMap(drained)
  <2>1. ASSUME NEW i \in DOMAIN data.jobs PROVE drained[i] \in Job /\ i \in Ids
    <3>1. data.jobs[i] \in Job /\ i \in Ids
      BY DataRow
    <3>2. Local(data.jobs[i], "canceled") \in Job
      BY <3>1, LocalRows, RowParts DEF States
    <3> QED BY <3>1, <3>2
  <2> QED BY <2>1 DEF JobMap
<1> HIDE DEF drained
<1>5. /\ DOMAIN f = DOMAIN data
      /\ f.source = data.source /\ f.jobs = drained /\ f.dead = data.dead /\ f.plans = data.plans
      /\ f.paused = pa /\ f.draining = dr /\ f.cordoned = data.cordoned /\ f.local = data.local
  BY <1>1
<1> HIDE DEF f
<1>6. Datas(f)
  BY <1>0, <1>3, <1>4, <1>5 DEF Datas, JobMap
<1>7. Counted(Reconcile(f))
  BY <1>6, ReconcileCounts
<1> QED BY <1>2, <1>7, DemoControlKeeps

LEMMA ToggleWorkerCordonKeeps ==
  ASSUME ConsoleInv, NEW cordoned \in BOOLEAN, ToggleWorkerCordon(cordoned)
  PROVE  ConsoleInv'
<1> DEFINE f == [data EXCEPT !.cordoned = cordoned]
<1>0. Datas(data) /\ data.overview = SummarizeJobs(data.jobs)
  BY DEF ConsoleInv, Counted
<1>1. DOMAIN data = {"source", "jobs", "dead", "plans", "overview", "paused", "draining", "cordoned", "local"}
  BY <1>0 DEF Datas
<1>2. DemoControl(f)
  BY DEF ToggleWorkerCordon
<1>3. /\ DOMAIN f = DOMAIN data
      /\ f.source = data.source /\ f.jobs = data.jobs /\ f.dead = data.dead /\ f.plans = data.plans
      /\ f.paused = data.paused /\ f.draining = data.draining /\ f.cordoned = cordoned
      /\ f.local = data.local /\ f.overview = data.overview
  BY <1>1
<1> HIDE DEF f
<1>4. Datas(f)
  BY <1>0, <1>3 DEF Datas
<1>5. Counted(f)
  BY <1>0, <1>3, <1>4 DEF Counted
<1> QED BY <1>2, <1>5, DemoControlKeeps

-----------------------------------------------------------------------------
(* The invariant.                                                          *)

LEMMA InitKeeps == Init => ConsoleInv
<1> SUFFICES ASSUME Init PROVE ConsoleInv
  OBVIOUS
<1>1. Counted(data)
  BY FirstData DEF Init
<1>2. ASSUME mode = "live" PROVE LiveOK(data, srv)
  <2>1. data = EmptyLive
    BY <1>2 DEF Init
  <2> QED BY <2>1, FirstData DEF LiveOK, Known, JobMap
<1>3. refresh.on = FALSE /\ refresh.made = {} /\ DOMAIN gets = {}
  BY DEF Init, NoRefresh, NoRows
<1>4. ServerOK(srv)
  <2>1. /\ DOMAIN srv = {"jobs", "dead", "plans", "v"}
        /\ srv.jobs = FirstJobs(LiveIds, "server", 1) /\ srv.dead = FirstDead(LiveIds)
        /\ srv.plans = FirstPlans(LivePlans) /\ srv.v = 1
    BY DEF Init
  <2>2. 1 \in 0..MaxVersion /\ 1 \in 1..MaxVersion
    BY NumbersAssumption
  <2>3. LiveIds \in SUBSET Ids /\ LivePlans \in SUBSET Plans
    BY ConsoleAssumption
  <2>4. /\ JobMap(FirstJobs(LiveIds, "server", 1)) /\ DOMAIN FirstJobs(LiveIds, "server", 1) = LiveIds
        /\ \A i \in LiveIds : /\ FirstJobs(LiveIds, "server", 1)[i].by = "server"
                              /\ FirstJobs(LiveIds, "server", 1)[i].v = 1
        /\ FirstDead(LiveIds) \subseteq LiveIds
    BY <2>2, <2>3, FirstRows
  <2>5. PlanMap(FirstPlans(LivePlans))
    BY <2>3, FirstPlansTyped
  <2>6. \A i \in DOMAIN srv.jobs : srv.jobs[i].by = "server" /\ srv.jobs[i].v = 1
    BY <2>1, <2>4
  <2>7. \A i \in DOMAIN srv.jobs : srv.jobs[i].v <= srv.v
    BY <2>1, <2>6
  <2> QED BY <2>1, <2>2, <2>4, <2>5, <2>6, <2>7 DEF ServerOK
<1>5. ToastInv(toasts)
  BY NoToastsInv DEF Init
<1>6. spent \in 0..MaxMoves
  <2>1. MaxMoves \in Nat
    BY ConsoleAssumption, Zenon
  <2> QED BY <2>1 DEF Init
<1>7. mode \in {"live", "demo"} /\ selected \in DOMAIN data.jobs \cup {NoId} /\ picked = {} /\ busy = {} /\ calls = {}
  BY DEF Init
<1> QED BY <1>1, <1>2, <1>3, <1>4, <1>5, <1>6, <1>7 DEF ConsoleInv, RefreshOK, GetsOK, BusyMeansInFlight

LEMMA JobActionsKeep ==
  ASSUME ConsoleInv, NEW i \in DOMAIN data.jobs, JobRow(i) \/ Drawer(i)
  PROVE  ConsoleInv'
<1>1. ASSUME NEW j, SelectJob(j) PROVE ConsoleInv'
  BY <1>1, ShowSameKeeps DEF SelectJob
<1>2. CASE RetryJob(i)
  BY <1>2, RetryJobKeeps
<1>3. CASE CancelJob(i)
  BY <1>3, CancelJobKeeps
<1>4. CASE \E q \in Queues : ReplayJob(i, q)
  BY <1>4, ReplayJobKeeps
<1>5. CASE \E p \in {Raise(data.jobs[i].priority), Lower(data.jobs[i].priority)} : AdjustPriority(i, p)
  BY <1>5, AdjustPriorityKeeps
<1> QED BY <1>1, <1>2, <1>3, <1>4, <1>5 DEF JobRow, Drawer

LEMMA TabsKeep ==
  ASSUME ConsoleInv, Tabs
  PROVE  ConsoleInv'
<1>1. CASE JobForm
  BY <1>1, SubmitJobKeeps, SeedWorkflowKeeps DEF JobForm
<1>2. CASE WorkerCard
  BY <1>2, ToggleWorkerCordonKeeps DEF WorkerCard
<1>3. CASE ScheduleForm
  BY <1>3, SubmitScheduleKeeps DEF ScheduleForm
<1>4. CASE DeadLetters
  <2>1. CASE \E q \in Queues : ReplaySelected(q)
    BY <2>1, ReplaySelectedKeeps
  <2>2. CASE DeleteSelected
    BY <2>2, DeleteSelectedKeeps
  <2>3. CASE \E i \in data.dead : ToggleDeadLetter(i) \/ SelectJob(i)
    BY <2>3, ShowSameKeeps DEF ToggleDeadLetter, SelectJob
  <2> QED BY <1>4, <2>1, <2>2, <2>3 DEF DeadLetters
<1>5. CASE \E i \in DOMAIN data.jobs : JobRow(i)
  BY <1>5, JobActionsKeep
<1>6. CASE \E q \in Queues : QueueCard(q)
  BY <1>6, SetQueueControlKeeps DEF QueueCard
<1>7. CASE \E p \in DOMAIN data.plans : ScheduleRow(p)
  BY <1>7, ToggleScheduleKeeps, TriggerScheduleKeeps DEF ScheduleRow
<1> QED BY <1>1, <1>2, <1>3, <1>4, <1>5, <1>6, <1>7 DEF Tabs

LEMMA NextKeeps ==
  ASSUME ConsoleInv, [Next]_vars
  PROVE  ConsoleInv'
<1>1. CASE Operator
  <2>1. CASE Tabs
    BY <2>1, TabsKeep
  <2>2. CASE selected # NoId /\ Drawer(selected)
    <3>1. selected \in DOMAIN data.jobs
      BY <2>2 DEF ConsoleInv
    <3> QED BY <3>1, <2>2, JobActionsKeep
  <2>3. CASE SwitchMode
    BY <2>3, SwitchModeKeeps
  <2> QED BY <1>1, <2>1, <2>2, <2>3 DEF Operator
<1>2. CASE ServeOne
  BY <1>2, ServeKeeps DEF ServeOne
<1>3. CASE AnswerOne
  BY <1>3, AnsweredKeeps DEF AnswerOne
<1>4. CASE \E x \in calls : CallFails(x)
  BY <1>4, CallFailsKeeps
<1>5. CASE \E i \in DOMAIN srv.jobs : JobEnds(i)
  BY <1>5, JobEndsKeeps
<1>6. CASE RefreshBegins \/ RefreshForced \/ RefreshLands \/ RefreshFails
  BY <1>6, RefreshBeginsKeeps, RefreshForcedKeeps, RefreshLandsKeeps, RefreshFailsKeeps
<1>7. CASE \E id \in ToastIds : ToastEnds(id)
  BY <1>7, ToastStepsKeep
<1>8. CASE \E k \in ToastKeys : CooldownPasses(k)
  BY <1>8, ToastStepsKeep
<1>9. CASE UNCHANGED vars
  BY <1>9 DEF vars, ConsoleInv, BusyMeansInFlight
<1> QED BY <1>1, <1>2, <1>3, <1>4, <1>5, <1>6, <1>7, <1>8, <1>9 DEF Next

(***************************************************************************)
(* The console always satisfies its inductive invariant: what live mode    *)
(* shows, what commands in flight name and what a refresh is about to      *)
(* bring are all rows the server had, and none is newer than its own.      *)
(***************************************************************************)
THEOREM ConsoleInvariant == Spec => []ConsoleInv
<1>1. Init => ConsoleInv
  BY InitKeeps
<1>2. ConsoleInv /\ [Next]_vars => ConsoleInv'
  BY NextKeeps
<1> QED BY <1>1, <1>2, PTL DEF Spec

(***************************************************************************)
(* Type correctness: the priorities stay in 0..9, the viewport holds at    *)
(* most MaxShown toasts, and every identifier is one of a job.             *)
(***************************************************************************)
THEOREM ConsoleTypeCorrect == Spec => []ConsoleTypeOK
<1>1. ASSUME ConsoleInv PROVE ConsoleTypeOK
  <2>1. ToastsTypeOK(toasts)
    BY <1>1, ToastsAreTracked DEF ConsoleInv
  <2>2. mode \in {"live", "demo"} /\ Datas(data) /\ spent \in 0..MaxMoves /\ \A b \in busy : b[1] \in Kinds
    BY <1>1 DEF ConsoleInv, Counted
  <2>3. selected \in Ids \cup {NoId} /\ picked \subseteq Ids
    BY <1>1 DEF ConsoleInv, Counted, Datas
  <2>4. \A x \in calls : /\ x.cmd.kind \in Kinds /\ x.stage \in {"sent", "served", "failed"}
                         /\ x.job \in Ids \cup {NoId}
    BY <1>1 DEF ConsoleInv, CallOK, CommandOK
  <2>5. DOMAIN srv.jobs \subseteq Ids /\ srv.dead \subseteq Ids /\ srv.v \in 1..MaxVersion
    BY <1>1 DEF ConsoleInv, ServerOK, JobMap
  <2>6. refresh.made \subseteq Parts /\ DOMAIN gets \subseteq Parts
    BY <1>1 DEF ConsoleInv, RefreshOK, GetsOK
  <2> QED BY <2>1, <2>2, <2>3, <2>4, <2>5, <2>6 DEF ConsoleTypeOK
<1> QED BY <1>1, ConsoleInvariant, PTL

(***************************************************************************)
(* CountsAgree: every operation on the data ends in reconcileConsoleData,  *)
(* or leaves the jobs alone, so that no sequence of them parts the counts  *)
(* from the jobs.                                                          *)
(***************************************************************************)
THEOREM CountsAlwaysAgree == Spec => []CountsAgree
<1>1. ASSUME ConsoleInv PROVE CountsAgree
  <2>1. data.overview = SummarizeJobs(data.jobs)
    BY <1>1 DEF ConsoleInv, Counted
  <2>2. /\ \A q \in Queues : data.overview.queueLengths[q] =
             Cardinality({i \in DOMAIN data.jobs : data.jobs[i].queue = q /\ data.jobs[i].state \in Waiting})
        /\ \A s \in States : data.overview.count[s] =
             Cardinality({i \in DOMAIN data.jobs : data.jobs[i].state = s})
    BY <2>1 DEF SummarizeJobs
  <2>3. ASSUME NEW q \in Queues
        PROVE  QueueView(data, q).backlog = QueueView(data, q).summary.queued
    <3>1. QueueView(data, q).backlog = data.overview.queueLengths[q]
      BY DEF QueueView
    <3>2. QueueView(data, q).summary.queued =
            Cardinality({i \in DOMAIN data.jobs : data.jobs[i].queue = q /\ data.jobs[i].state \in Waiting})
      BY DEF QueueView, QueueJobSummary, Waiting
    <3> QED BY <2>2, <3>1, <3>2
  <2> QED BY <2>2, <2>3 DEF CountsAgree
<1> QED BY <1>1, ConsoleInvariant, PTL

(***************************************************************************)
(* LiveIsTheServers: neither a command given in the demo nor an answer     *)
(* that comes after the switch leaves anything of the console's own in     *)
(* live mode.                                                              *)
(***************************************************************************)
THEOREM LiveShowsTheServer == Spec => []LiveIsTheServers
<1>1. ASSUME ConsoleInv PROVE LiveIsTheServers
  BY <1>1 DEF ConsoleInv, LiveIsTheServers, LiveOK, Known
<1> QED BY <1>1, ConsoleInvariant, PTL

(***************************************************************************)
(* BusyMeansInFlight: runBusy's finally clears the key of every command,   *)
(* answered or failed, also of one given again from the drawer.            *)
(***************************************************************************)
THEOREM NoKeyOutlivesItsCall == Spec => []BusyMeansInFlight
<1>1. ASSUME ConsoleInv PROVE BusyMeansInFlight
  BY <1>1 DEF ConsoleInv
<1> QED BY <1>1, ConsoleInvariant, PTL

(***************************************************************************)
(* ToastsEnd: every toast on the screen and every key that mutes others    *)
(* has a timer, for any number of keys and ids and any viewport.           *)
(***************************************************************************)
THEOREM EveryToastEnds == Spec => []ToastsEnd
<1>1. ASSUME ConsoleInv PROVE ToastsEnd
  BY <1>1, ToastsAreTracked DEF ConsoleInv, ToastsEnd
<1> QED BY <1>1, ConsoleInvariant, PTL

(***************************************************************************)
(* RefreshKeepsAnswers: a refresh that asked for the jobs itself takes     *)
(* back nothing an answer has shown, since the answer to a command ends    *)
(* the refresh in flight (force) and a call made later reads a server that *)
(* is at least as new, whatever other calls were left behind or joined.    *)
(***************************************************************************)
THEOREM RefreshTakesNothingBack == Spec => RefreshKeepsAnswers
<1>1. ASSUME ConsoleInv, RefreshLands, "jobs" \in refresh.made
      PROVE  \A i \in DOMAIN data.jobs : i \in DOMAIN data'.jobs /\ data'.jobs[i].v >= data.jobs[i].v
  <2>1. refresh.on
    BY <1>1 DEF RefreshLands
  <2>2. PICK jobs \in gets["jobs"], dead \in gets["snapshot"], plans \in gets["schedules"] :
          Show(RefreshedData([jobs |-> jobs, dead |-> dead, plans |-> plans]), selected, picked)
    BY <1>1 DEF RefreshLands
  <2> DEFINE content == [jobs |-> jobs, dead |-> dead, plans |-> plans]
  <2>3. ContentOK(content, srv) /\ content.jobs = jobs /\ AtLeast(jobs, data.jobs)
    BY <1>1, <2>1, <2>2, RefreshContent
  <2>4. Show(RefreshedData(content), selected, picked)
    BY <2>2
  <2> HIDE DEF content
  <2>5. data' = RefreshedData(content) /\ RefreshedData(content).jobs = content.jobs
    BY <1>1, <2>1, <2>3, <2>4, RefreshedCounts DEF Show
  <2> QED BY <2>3, <2>5 DEF AtLeast
<1>2. ConsoleInv /\ [Next]_vars =>
        [RefreshLands /\ "jobs" \in refresh.made => \A i \in DOMAIN data.jobs :
           i \in DOMAIN data'.jobs /\ data'.jobs[i].v >= data.jobs[i].v]_vars
  BY <1>1
<1> QED BY <1>2, ConsoleInvariant, PTL DEF Spec, RefreshKeepsAnswers
=============================================================================
