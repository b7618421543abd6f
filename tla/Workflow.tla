------------------------------ MODULE Workflow ------------------------------
(***************************************************************************)
(* Jobs with dependencies, across the two stores.  JobBroker has the job   *)
(* in Redis; this module composes it with the job's row in PostgreSQL and  *)
(* with everybody who copies the one to the other: the API (EnqueueJob,    *)
(* CancelJob), the workers (process, resolveDependents) and the scheduler  *)
(* (activateDue, recoverExpired).                                          *)
(*                                                                         *)
(* A call to one of the stores is one step.  The UPDATEs of a row are by   *)
(* id alone, so whoever writes last wins.  Jobs have no run time in the    *)
(* future, and nobody retries them by hand.                                *)
(***************************************************************************)
EXTENDS JobBroker

CONSTANTS
  Deps,        \* [Jobs -> SUBSET Jobs]: the edges of job_dependencies
  AllowFailed, \* jobs with dependency policy allow_failed; the others block
  LeasesLapse  \* whether a lease may run out under a worker that is alive

ASSUME DepsAssumption == Deps \in [Jobs -> SUBSET Jobs]
ASSUME PolicyAssumption == AllowFailed \subseteq Jobs /\ LeasesLapse \in BOOLEAN

VARIABLES
  db,         \* [Jobs -> States]: the state column of the job's row
  reason,     \* [Jobs -> Reasons]: the blocked_reason column
  col,        \* [Jobs -> Cols]: the attempts and lease_token columns
  submitting, \* EnqueueJob calls between CreateJobBundle and Broker.Enqueue
  task,       \* [Slots -> Tasks]: resolveDependents at each worker slot
  sched,      \* the scheduler's loop over what a script returned
  cancelJob,  \* [Jobs -> [pc, seen]]: CancelJob, with the state GetJob saw
  faults,     \* store calls that have failed
  succeeded,  \* history: jobs the broker has accepted a result of
  ended,      \* history: jobs that have ever been in a terminal state
  timely      \* history: jobs submitted before any of their dependencies ended

rowVars == <<db, reason, col>>
history == <<succeeded, ended, timely>>
brokerVars == <<hashVars, listVars, run, cancelCall, spent>>
allVars == <<vars, rowVars, submitting, task, sched, cancelJob, faults, history>>

\* blocked_reason: empty, "waiting on n dependencies", or the dependency that
\* failed and how, or that could not be loaded.
NoReason == <<>>
WaitingOn == <<"waiting">>
Reasons == {NoReason, WaitingOn} \cup (Jobs \X {"failed", "canceled", "unloaded"})

Cols == [attempts : Nat, token : Nat]
NewCol == [attempts |-> 0, token |-> 0]

\* resolveDependents: list the dependents; for each read its dependencies one
\* by one; then write the reason, or enqueue and afterwards mark the row.
\* copy is what was read of the dependent's row.
Copies == Jobs \X Reasons \X Cols
NoCopy == <<NoJob, NoReason, NewCol>>
NoTask == [pc |-> "none", todo |-> {}, copy |-> NoCopy, left |-> {},
           satisfied |-> TRUE, why |-> NoReason]
Tasks == [pc : {"none", "list", "each", "read", "explain", "enqueue", "mark"},
          todo : SUBSET Copies, copy : Copies \cup {NoCopy}, left : SUBSET Jobs,
          satisfied : BOOLEAN, why : Reasons]

\* The ids a script returned, with what it did to each job; then what LoadJob
\* found.
Outcomes == {"queued", "retrying", "failed", "canceled"}
SchedIdle == [todo |-> {}, item |-> <<NoJob, "none">>, seen |-> "none", attempts |-> 0]
Scheds == [todo : SUBSET (Jobs \X Outcomes),
           item : (Jobs \X Outcomes) \cup {<<NoJob, "none">>},
           seen : States, attempts : Nat]

NoCancel == [pc |-> "none", seen |-> "none"]
Cancels == [pc : {"none", "got", "loaded", "applied"}, seen : States]

WorkflowInit ==
  /\ Init
  /\ db = [j \in Jobs |-> "none"]
  /\ reason = [j \in Jobs |-> NoReason]
  /\ col = [j \in Jobs |-> NewCol]
  /\ submitting = {}
  /\ task = [w \in Slots |-> NoTask]
  /\ sched = SchedIdle
  /\ cancelJob = [j \in Jobs |-> NoCancel]
  /\ faults = 0
  /\ succeeded = {} /\ ended = {} /\ timely = {}

\* Crashes of processes and failing store calls share one bound.
FaultLeft == spent["crash"] + faults < Budget["crash"]
StoreFails == FaultLeft /\ faults' = faults + 1

\* An UPDATE of a row by id, or a failure of it, which its callers only log.
WriteRow(j, s, r, c) ==
  \/ /\ db' = [db EXCEPT ![j] = s]
     /\ reason' = [reason EXCEPT ![j] = r]
     /\ col' = [col EXCEPT ![j] = c]
     /\ UNCHANGED faults
  \/ StoreFails /\ UNCHANGED rowVars

\* What most UPDATEs do to the other columns: the lease token is cleared.
Unleased(j) == [col[j] EXCEPT !.token = 0]

\* The history of a step that may bring jobs to a terminal state.
RecordEnds == ended' = ended \cup {j \in Jobs : state'[j] \in Terminal}

-----------------------------------------------------------------------------
(* API.                                                                    *)

\* buildJob: a job whose request names dependencies starts blocked, whatever
\* their state.  It counts the ids of the request, Deps has those that
\* sanitizeDependencies leaves: a request is assumed to name one that stays, or
\* none at all.
FirstState(j) == IF Deps[j] = {} THEN "queued" ELSE "blocked"

\* EnqueueJob commits the row and its edges; the dependencies have rows.
CreateJobBundle(j) ==
  /\ db[j] = "none"
  /\ \A x \in Deps[j] : db[x] # "none"
  /\ \E l \in Lanes : rows' = rows \cup {<<j, l>>}
  /\ db' = [db EXCEPT ![j] = FirstState(j)]
  /\ reason' = [reason EXCEPT ![j] = IF Deps[j] = {} THEN NoReason ELSE WaitingOn]
  /\ submitting' = submitting \cup {j}
  /\ UNCHANGED <<brokerVars, col, task, sched, cancelJob, faults, history>>

\* It then writes the whole hash from the job it built, whatever others have
\* stored under that id in the meantime.
SubmitToBroker(j) ==
  /\ j \in submitting
  /\ \E l \in Lanes : <<j, l>> \in rows /\ PutJob(j, l, FirstState(j), FALSE)
  /\ submitting' = submitting \ {j}
  /\ timely' = IF Deps[j] \cap ended = {} THEN timely \cup {j} ELSE timely
  /\ UNCHANGED <<rows, spent, rowVars, task, sched, cancelJob, faults, succeeded, ended>>

\* The API process stops, or Broker.Enqueue fails, after the commit.
SubmitFails(j) ==
  /\ j \in submitting
  /\ StoreFails
  /\ submitting' = submitting \ {j}
  /\ UNCHANGED <<vars, rowVars, task, sched, cancelJob, history>>

\* CancelJob reads the row ...
CancelGetJob(j) ==
  /\ db[j] # "none" /\ cancelJob[j].pc = "none"
  /\ spent["cancel"] + Cardinality({x \in Jobs : cancelJob[x].pc = "got"})
       < Budget["cancel"]
  /\ cancelJob' = [cancelJob EXCEPT ![j] = [pc |-> "got", seen |-> db[j]]]
  /\ UNCHANGED <<vars, rowVars, submitting, task, sched, faults, history>>

\* ... calls Broker.Cancel, which reads the hash and then writes it ...
CancelBrokerLoad(j) ==
  /\ cancelJob[j].pc = "got"
  /\ CancelLoad(j)
  /\ cancelJob' = [cancelJob EXCEPT ![j].pc = "loaded"]
  /\ UNCHANGED <<rowVars, submitting, task, sched, faults, history>>

\* (without a hash the load fails, and CancelJob with it)
CancelNotFound(j) ==
  /\ cancelJob[j].pc = "got" /\ state[j] = "none"
  /\ cancelJob' = [cancelJob EXCEPT ![j] = NoCancel]
  /\ UNCHANGED <<vars, rowVars, submitting, task, sched, faults, history>>

CancelBrokerApply(j) ==
  /\ cancelJob[j].pc = "loaded"
  /\ CancelApply(j)
  /\ cancelJob' = [cancelJob EXCEPT ![j].pc = "applied"]
  /\ RecordEnds
  /\ UNCHANGED <<rowVars, submitting, task, sched, faults, succeeded, timely>>

\* (or Redis cannot be reached)
CancelBrokerFails(j) ==
  /\ cancelJob[j].pc \in {"got", "loaded"}
  /\ StoreFails
  /\ cancelCall' = [cancelCall EXCEPT ![j] = NoCall]
  /\ cancelJob' = [cancelJob EXCEPT ![j] = NoCancel]
  /\ UNCHANGED <<hashVars, listVars, rows, run, spent, rowVars, submitting,
                 task, sched, history>>

\* ... and writes the row from the state it read first: canceled only if that
\* was one of four states, otherwise that state again.
CancelMark(j) ==
  /\ cancelJob[j].pc = "applied"
  /\ LET seen == cancelJob[j].seen IN
       WriteRow(j, IF seen \in {"queued", "retrying", "scheduled", "failed"}
                   THEN "canceled" ELSE seen, reason[j], col[j])
  /\ cancelJob' = [cancelJob EXCEPT ![j] = NoCancel]
  /\ UNCHANGED <<vars, submitting, task, sched, history>>

-----------------------------------------------------------------------------
(* Worker.                                                                 *)

\* The calls of a worker that concern the broker alone.
WorkerPolls(w) ==
  /\ \/ \E j \in Jobs : DequeueGrant(w, j)
     \/ DequeueMiss(w) \/ LoadLeased(w) \/ Heartbeat(w)
     \/ FaultLeft /\ HeartbeatError(w)
     \/ Throttle(w) \/ AckRejected(w)
  /\ UNCHANGED <<rowVars, submitting, task, sched, cancelJob, faults, history>>

\* MarkJobActive, then the handler starts.
StartMarked(w) ==
  /\ Start(w)
  /\ WriteRow(run[w].job, "active", NoReason,
              [attempts |-> run[w].attempts, token |-> run[w].token])
  /\ UNCHANGED <<submitting, task, sched, cancelJob, history>>

\* The handler ends and the broker accepts its outcome.
CompleteRecorded(w) ==
  /\ Complete(w)
  /\ succeeded' = succeeded \cup {run[w].job}
  /\ RecordEnds
  /\ UNCHANGED <<rowVars, submitting, task, sched, cancelJob, faults, timely>>

FailRecorded(w) ==
  /\ Fail(w)
  /\ RecordEnds
  /\ UNCHANGED <<rowVars, submitting, task, sched, cancelJob, faults, succeeded, timely>>

\* Mutant: the dependents of a failed job are not looked at.
PersistOnlySuccess(w) ==
  /\ run[w].pc \in Acked /\ task[w].pc = "none"
  /\ WriteRow(run[w].job, run[w].pc, reason[run[w].job], Unleased(run[w].job))
  /\ IF run[w].pc = "completed"
     THEN task' = [task EXCEPT ![w].pc = "list"] /\ UNCHANGED vars
     ELSE Return(w) /\ UNCHANGED task
  /\ UNCHANGED <<submitting, sched, cancelJob, history>>

\* Mutant: the row is marked before the broker is asked.
PersistBeforeAck(w) ==
  /\ run[w].pc \in Acked \cup {"running"} /\ task[w].pc = "none"
  /\ WriteRow(run[w].job, IF run[w].pc = "running" THEN "completed" ELSE run[w].pc,
              reason[run[w].job], Unleased(run[w].job))
  /\ IF run[w].pc \in {"running", "completed", "failed"}
     THEN task' = [task EXCEPT ![w].pc = "list"] /\ UNCHANGED vars
     ELSE Return(w) /\ UNCHANGED task
  /\ UNCHANGED <<submitting, sched, cancelJob, history>>

\* MarkJobCompleted, MarkJobRetrying, MarkJobThrottled or MarkJobFailed; after
\* a final outcome process() goes on to the dependents.
Persist(w) ==
  /\ run[w].pc \in Acked /\ task[w].pc = "none"
  /\ WriteRow(run[w].job, run[w].pc, reason[run[w].job], Unleased(run[w].job))
  /\ IF run[w].pc \in {"completed", "failed"}
     THEN task' = [task EXCEPT ![w].pc = "list"] /\ UNCHANGED vars
     ELSE Return(w) /\ UNCHANGED task
  /\ UNCHANGED <<submitting, sched, cancelJob, history>>

\* ListDependentJobs: copies of the rows, of which the loop skips all that
\* are not blocked.
ListDependents(w) ==
  /\ task[w].pc = "list"
  /\ LET found == {d \in Jobs : run[w].job \in Deps[d] /\ db[d] = "blocked"} IN
       task' = [task EXCEPT ![w] = [NoTask EXCEPT !.pc = "each",
                  !.todo = {<<d, reason[d], col[d]>> : d \in found}]]
  /\ UNCHANGED <<vars, rowVars, submitting, sched, cancelJob, faults, history>>

\* ListDependencies of the next dependent.
TakeDependent(w) ==
  /\ task[w].pc = "each"
  /\ \E c \in task[w].todo :
       task' = [task EXCEPT ![w] = [NoTask EXCEPT !.pc = "read", !.copy = c,
                  !.todo = task[w].todo \ {c}, !.left = Deps[c[1]]]]
  /\ UNCHANGED <<vars, rowVars, submitting, sched, cancelJob, faults, history>>

\* Mutant: the policy is ignored.
VerdictAnyPolicy(d, x) == IF db[x] \in Terminal THEN "met" ELSE "open"

\* dependencyReadiness on one dependency.
Verdict(d, x) ==
  CASE db[x] = "completed" -> "met"
    [] db[x] \in {"failed", "canceled"} -> IF d \in AllowFailed THEN "met" ELSE "broken"
    [] OTHER -> "open"

\* Mutant: the last dependency read decides alone.
LastSatisfied(w, v) == v = "met"

AllSatisfied(w, v) == task[w].satisfied /\ v = "met"

\* The loop goes on to the next dependent.
NextDependent(w) == [NoTask EXCEPT !.pc = "each", !.todo = task[w].todo]

\* Not ready.  An unchanged reason is not written.
NotReady(w, why) ==
  IF why = task[w].copy[2] THEN NextDependent(w)
  ELSE [task[w] EXCEPT !.pc = "explain", !.left = {}, !.satisfied = TRUE, !.why = why]

\* GetJob of one dependency; a failed one ends the reading, and so does the
\* last.
ReadDependency(w) ==
  /\ task[w].pc = "read"
  /\ \E x \in task[w].left :
       LET v == Verdict(task[w].copy[1], x)
           rest == task[w].left \ {x}
           all == AllSatisfied(w, v) IN
       task' = [task EXCEPT ![w] =
         CASE v = "broken" -> NotReady(w, <<x, db[x]>>)
           [] v # "broken" /\ rest # {} -> [@ EXCEPT !.left = rest, !.satisfied = all]
           [] v # "broken" /\ rest = {} /\ ~all -> NotReady(w, WaitingOn)
           [] OTHER -> [@ EXCEPT !.pc = "enqueue", !.left = {}]]
  /\ UNCHANGED <<vars, rowVars, submitting, sched, cancelJob, faults, history>>

\* MarkJobQueued with the copy: the row is blocked again, with the reason.
ExplainDependent(w) ==
  /\ task[w].pc = "explain"
  /\ WriteRow(task[w].copy[1], "blocked", task[w].why,
              [task[w].copy[3] EXCEPT !.token = 0])
  /\ task' = [task EXCEPT ![w] = NextDependent(w)]
  /\ UNCHANGED <<vars, submitting, sched, cancelJob, history>>

\* Broker.Enqueue of the copy, with the row's attempts and lease token.
EnqueueDependent(w) ==
  LET d == task[w].copy[1]  c == task[w].copy[3] IN
  /\ task[w].pc = "enqueue"
  /\ \E l \in Lanes, cancel \in CopiedCancel :
       /\ <<d, l>> \in rows
       /\ WriteHash(d, l, "queued", [attempts |-> c.attempts, token |-> c.token,
                                     cancel |-> cancel])
  /\ task' = [task EXCEPT ![w].pc = "mark"]
  /\ UNCHANGED <<rows, spent, rowVars, submitting, sched, cancelJob, faults, history>>

\* MarkJobQueued.
MarkDependent(w) ==
  /\ task[w].pc = "mark"
  /\ WriteRow(task[w].copy[1], "queued", NoReason,
              [task[w].copy[3] EXCEPT !.token = 0])
  /\ task' = [task EXCEPT ![w] = NextDependent(w)]
  /\ UNCHANGED <<vars, submitting, sched, cancelJob, history>>

\* No dependent is left: process() returns.
ResolveDone(w) ==
  /\ task[w].pc = "each" /\ task[w].todo = {}
  /\ Return(w)
  /\ task' = [task EXCEPT ![w] = NoTask]
  /\ UNCHANGED <<rowVars, submitting, sched, cancelJob, faults, history>>

\* A failing ListDependentJobs ends the call, a failing ListDependencies or
\* Enqueue skips the dependent, a failing GetJob leaves it blocked.
ResolveFails(w) ==
  /\ StoreFails
  /\ \/ /\ task[w].pc = "list"
        /\ task' = [task EXCEPT ![w] = NoTask]
        /\ Return(w)
     \/ /\ task[w].pc = "each"
        /\ \E c \in task[w].todo : task' = [task EXCEPT ![w].todo = @ \ {c}]
        /\ UNCHANGED vars
     \/ /\ task[w].pc = "read"
        /\ \E x \in task[w].left :
             task' = [task EXCEPT ![w] = NotReady(w, <<x, "unloaded">>)]
        /\ UNCHANGED vars
     \/ /\ task[w].pc = "enqueue"
        /\ task' = [task EXCEPT ![w] = NextDependent(w)]
        /\ UNCHANGED vars
  /\ UNCHANGED <<rowVars, submitting, sched, cancelJob, history>>

\* The worker process stops at any point.
WorkerCrash(w) ==
  /\ FaultLeft
  /\ Crash(w)
  /\ task' = [task EXCEPT ![w] = NoTask]
  /\ UNCHANGED <<rowVars, submitting, sched, cancelJob, faults, history>>

-----------------------------------------------------------------------------
(* Scheduler.                                                              *)

\* A tick runs a script and starts to work through the ids it returned.
Tick(B) ==
  /\ sched = SchedIdle
  /\ \/ ActivateDue(B) /\ sched' = [sched EXCEPT !.todo = B \X {"queued"}]
     \/ /\ RecoverExpired(B)
        /\ sched' = [sched EXCEPT !.todo = {<<j, RecoveryState(j)>> : j \in B}]
  /\ RecordEnds
  /\ UNCHANGED <<rowVars, submitting, task, cancelJob, faults, succeeded, timely>>

\* LoadJob of the next id; the id is skipped if that fails.
SchedLoad(i) ==
  /\ sched.seen = "none" /\ i \in sched.todo
  /\ \/ /\ sched' = [todo |-> sched.todo \ {i}, item |-> i,
                     seen |-> state[i[1]], attempts |-> attempts[i[1]]]
        /\ UNCHANGED faults
     \/ StoreFails /\ sched' = [sched EXCEPT !.todo = @ \ {i}]
  /\ UNCHANGED <<vars, rowVars, submitting, task, cancelJob, history>>

\* The row is marked according to what the script did, but with the state that
\* was loaded: by MarkJobQueued, with the blocked_reason of the hash, by
\* MarkJobRetrying or MarkJobFailed, or by MarkJobCanceled.
SchedMark ==
  LET j == sched.item[1]  done == sched.item[2]
      hashReasons == {NoReason} \cup
        (IF sched.seen \in {"blocked", "canceled"} THEN {WaitingOn} ELSE {}) IN
  /\ sched.seen # "none"
  /\ \/ /\ done = "queued"
        /\ \E r \in hashReasons :
             WriteRow(j, sched.seen, r, [attempts |-> sched.attempts, token |-> 0])
     \/ done \in {"retrying", "failed"} /\ WriteRow(j, sched.seen, reason[j], Unleased(j))
     \/ done = "canceled" /\ WriteRow(j, sched.seen, reason[j], col[j])
  /\ sched' = [SchedIdle EXCEPT !.todo = sched.todo]
  /\ UNCHANGED <<vars, submitting, task, cancelJob, history>>

-----------------------------------------------------------------------------
TimePasses(j) ==
  /\ \/ ComesDue(j)
     \/ LeaseLapses(j) /\ (LeasesLapse \/ \A w \in Slots : run[w].job # j)
  /\ UNCHANGED <<rowVars, submitting, task, sched, cancelJob, faults, history>>

ApiStep(j) ==
  \/ CreateJobBundle(j) \/ SubmitToBroker(j) \/ SubmitFails(j)
  \/ CancelGetJob(j) \/ CancelBrokerLoad(j) \/ CancelNotFound(j)
  \/ CancelBrokerApply(j) \/ CancelBrokerFails(j) \/ CancelMark(j)

ResolveStep(w) ==
  \/ ListDependents(w) \/ TakeDependent(w) \/ ReadDependency(w)
  \/ ExplainDependent(w) \/ EnqueueDependent(w) \/ MarkDependent(w)
  \/ ResolveDone(w) \/ ResolveFails(w)

WorkStep(w) ==
  \/ WorkerPolls(w) \/ StartMarked(w) \/ CompleteRecorded(w)
  \/ FailRecorded(w) \/ Persist(w) \/ ResolveStep(w) \/ WorkerCrash(w)

SchedStep ==
  \/ \E B \in SUBSET Jobs : Tick(B)
  \/ \E i \in sched.todo : SchedLoad(i)
  \/ SchedMark

WorkflowNext ==
  \/ \E j \in Jobs : TimePasses(j) \/ ApiStep(j)
  \/ \E w \in Slots : WorkStep(w)
  \/ SchedStep

WorkflowSpec == WorkflowInit /\ [][WorkflowNext]_allVars

\* Every loop goes on as long as its process lives; submitting a job, and
\* canceling one, is up to the client.
WorkflowFairness ==
  /\ \A j \in Jobs : WF_allVars(SubmitToBroker(j)) /\ WF_allVars(TimePasses(j))
  /\ WF_allVars(\E w \in Slots, j \in Jobs : DequeueGrant(w, j) /\ WorkerPolls(w))
  /\ WF_allVars(\E w \in Slots : DequeueMiss(w) /\ WorkerPolls(w))
  /\ \A w \in Slots :
       /\ WF_allVars(LoadLeased(w) /\ WorkerPolls(w))
       /\ WF_allVars(StartMarked(w))
       /\ WF_allVars(CompleteRecorded(w) \/ FailRecorded(w)
                       \/ (AckRejected(w) /\ WorkerPolls(w)))
       /\ WF_allVars(Persist(w) \/ ResolveStep(w))
  /\ WF_allVars(SchedStep)

WorkflowFairSpec == WorkflowSpec /\ WorkflowFairness

-----------------------------------------------------------------------------
(* Properties.                                                             *)

WorkflowTypeOK ==
  /\ TypeOK
  /\ db \in [Jobs -> States]
  /\ reason \in [Jobs -> Reasons]
  /\ col \in [Jobs -> Cols]
  /\ submitting \subseteq Jobs
  /\ task \in [Slots -> Tasks]
  /\ sched \in Scheds
  /\ cancelJob \in [Jobs -> Cancels]
  /\ faults \in Nat
  /\ succeeded \subseteq Jobs /\ ended \subseteq Jobs /\ timely \subseteq Jobs

\* A worker holds a dependent job with policy block only after each of its
\* dependencies has really completed: a broker-accepted result, not just a
\* row somebody wrote.  resolveDependents decides from rows that lag behind
\* Redis and that workers, the scheduler and CancelJob overwrite.
BlockedUntilSuccess ==
  \A w \in Slots :
    run[w].pc # "idle" /\ run[w].job \notin AllowFailed
      => Deps[run[w].job] \subseteq succeeded

\* docs/architecture.md "Dependency Execution Rules": with policy allow_failed
\* a job becomes runnable only when all its dependencies are terminal.
AllowFailedWaits ==
  \A w \in Slots :
    run[w].pc # "idle" /\ run[w].job \in AllowFailed
      => Deps[run[w].job] \subseteq ended

\* A row says completed only of a job whose result the broker accepted: a
\* worker that lost its lease never gets its result into PostgreSQL.
CompletedRowIsTrue ==
  \A j \in Jobs : db[j] = "completed" => j \in succeeded

\* Without failures of processes, a dependent that was submitted before its
\* dependencies ended either finishes, or stays blocked with a reason that names
\* the dependency that failed.  Two workers that finish two of its dependencies
\* at once never both leave it to the other.
TimelyDependentSettles ==
  \A d \in Jobs :
    d \in timely ~> \/ state[d] \in Terminal
                    \/ \E x \in Deps[d] : reason[d] = <<x, "failed">>

\* docs/failure-scenarios.md "Dependency Failure": a job configured with
\* allow_failed can continue once all dependencies are terminal.
AllowFailedContinues ==
  \A d \in AllowFailed :
    (state[d] = "blocked" /\ \A x \in Deps[d] : state[x] \in Terminal)
      ~> (state[d] # "blocked")

\* The same for a job that was submitted before any of its dependencies ended.
TimelyAllowFailedContinues ==
  \A d \in AllowFailed :
    (/\ state[d] = "blocked" /\ d \in timely
     /\ \A x \in Deps[d] : state[x] \in Terminal)
      ~> (state[d] # "blocked")

\* Nobody is doing anything and nothing is queued.
AtRest ==
  /\ submitting = {} /\ sched = SchedIdle
  /\ \A w \in Slots : run[w].pc = "idle"
  /\ \A j \in Jobs : cancelJob[j].pc = "none" /\ \A l \in Lanes : ready[l][j] = 0
  /\ delayed = {} /\ leases = {}

\* docs/architecture.md "Data Plane": workers write the terminal state back to
\* Redis and PostgreSQL, so at rest both tell the same.
StoresAgreeAtRest ==
  AtRest => \A j \in Jobs : state[j] \in Terminal => db[j] = state[j]
=============================================================================
