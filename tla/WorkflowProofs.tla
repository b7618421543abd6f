--------------------------- MODULE WorkflowProofs ----------------------------
(***************************************************************************)
(* Proofs about Workflow for any jobs, dependencies, policies and worker   *)
(* slots, and any budget of crashes, failing store calls, throttles and    *)
(* cancellations.                                                          *)
(***************************************************************************)
EXTENDS Workflow, JobBrokerProofs, FiniteSetTheorems

\* The steps that write the broker's variables in ways JobBroker.Next does
\* not: a row appears, a hash is overwritten, a cancellation is given up.
LEMMA HashType ==
  ASSUME TypeOK, NEW j \in Jobs, NEW l \in Lanes,
         NEW s \in {"queued", "blocked"}, NEW a \in Nat, NEW t \in Nat, NEW c \in BOOLEAN,
         WriteHash(j, l, s, [attempts |-> a, token |-> t, cancel |-> c]),
         UNCHANGED <<rows, spent>>
  PROVE  TypeOK'
  <1>1. ready' \in [Lanes -> [Jobs -> Nat]]
    BY LPushType DEF WriteHash, TypeOK
  <1>2. UNCHANGED <<delayed, due, grants, leases, expired, dlq, run, cancelCall>>
    BY DEF WriteHash
  <1>3. /\ state' = [state EXCEPT ![j] = s] /\ attempts' = [attempts EXCEPT ![j] = a]
        /\ token' = [token EXCEPT ![j] = t] /\ lane' = [lane EXCEPT ![j] = l]
        /\ cancelReq' = [cancelReq EXCEPT ![j] = c]
    BY DEF WriteHash
  <1>4. /\ state' \in [Jobs -> States] /\ attempts' \in [Jobs -> Nat]
        /\ token' \in [Jobs -> Nat] /\ lane' \in [Jobs -> Lanes]
    BY <1>3 DEF TypeOK, States, JobStates
  <1>5. cancelReq' \in [Jobs -> BOOLEAN]
    BY <1>3, Zenon DEF TypeOK
  <1> QED BY <1>1, <1>2, <1>4, <1>5 DEF TypeOK

\* Every other step is a step of JobBroker or leaves the broker alone.
LEMMA BrokerSide ==
  ASSUME TypeOK, WorkflowTypeOK, [WorkflowNext]_allVars
  PROVE  TypeOK'
  <1>1. ASSUME [Next]_vars PROVE TypeOK'
    BY <1>1, TypeStep
  <1>2. ASSUME NEW j \in Jobs, TimePasses(j) PROVE TypeOK'
    BY <1>1, <1>2 DEF TimePasses, Next, TimeStep
  <1>3. ASSUME NEW j \in Jobs, CreateJobBundle(j) PROVE TypeOK'
    <2>1. PICK l \in Lanes : rows' = rows \cup {<<j, l>>}
      BY <1>3 DEF CreateJobBundle
    <2>2. UNCHANGED brokerVars
      BY <1>3 DEF CreateJobBundle
    <2> QED BY <2>1, <2>2 DEF brokerVars, hashVars, listVars, TypeOK
  <1>4. ASSUME NEW j \in Jobs, SubmitToBroker(j) PROVE TypeOK'
    <2>1. PICK l \in Lanes : PutJob(j, l, FirstState(j), FALSE)
      BY <1>4 DEF SubmitToBroker
    <2>2. /\ UNCHANGED <<rows, spent>> /\ FirstState(j) \in {"queued", "blocked"}
          /\ FALSE \in BOOLEAN /\ 0 \in Nat
          /\ WriteHash(j, l, FirstState(j), [attempts |-> 0, token |-> 0, cancel |-> FALSE])
      BY <1>4, <2>1 DEF SubmitToBroker, FirstState, PutJob
    <2> QED BY <2>2, HashType
  <1>5. ASSUME NEW j \in Jobs, CancelBrokerLoad(j) \/ CancelBrokerApply(j) PROVE TypeOK'
    BY <1>1, <1>5 DEF CancelBrokerLoad, CancelBrokerApply, Next, OperatorStep
  <1>6. ASSUME NEW j \in Jobs, CancelBrokerFails(j) PROVE TypeOK'
    <2>1. /\ cancelCall' = [cancelCall EXCEPT ![j] = NoCall]
          /\ UNCHANGED <<hashVars, listVars, rows, run, spent>>
      BY <1>6 DEF CancelBrokerFails
    <2>2. NoCall \in CancelCalls
      BY AnyLaneIsLane DEF NoCall, CancelCalls, States
    <2> QED BY <2>1, <2>2 DEF hashVars, listVars, TypeOK
  <1>7. ASSUME NEW j \in Jobs, SubmitFails(j) \/ CancelGetJob(j) \/ CancelNotFound(j) \/ CancelMark(j)
        PROVE  TypeOK'
    <2>1. UNCHANGED vars
      BY <1>7 DEF SubmitFails, CancelGetJob, CancelNotFound, CancelMark
    <2> QED BY <1>1, <2>1
  <1>8. ASSUME NEW w \in Slots, WorkerPolls(w) PROVE TypeOK'
    BY <1>1, <1>8 DEF WorkerPolls, Next, WorkerStep
  <1>9. ASSUME NEW w \in Slots, StartMarked(w) \/ CompleteRecorded(w) \/ FailRecorded(w)
                                 \/ ResolveDone(w) \/ WorkerCrash(w)
        PROVE  TypeOK'
    <2>1. Start(w) \/ Complete(w) \/ Fail(w) \/ Return(w) \/ Crash(w)
      BY <1>9 DEF StartMarked, CompleteRecorded, FailRecorded, ResolveDone, WorkerCrash
    <2> QED BY <1>1, <2>1 DEF Next, WorkerStep
  <1>10. ASSUME NEW w \in Slots, Persist(w) \/ ResolveFails(w) PROVE TypeOK'
    <2>1. Return(w) \/ UNCHANGED vars
      BY <1>10 DEF Persist, ResolveFails
    <2> QED BY <1>1, <2>1 DEF Next, WorkerStep
  <1>11. ASSUME NEW w \in Slots, ListDependents(w) \/ TakeDependent(w) \/ ReadDependency(w)
                                  \/ ExplainDependent(w) \/ MarkDependent(w)
         PROVE  TypeOK'
    <2>1. UNCHANGED vars
      BY <1>11 DEF ListDependents, TakeDependent, ReadDependency, ExplainDependent, MarkDependent
    <2> QED BY <1>1, <2>1
  <1>12. ASSUME NEW w \in Slots, EnqueueDependent(w) PROVE TypeOK'
    <2> DEFINE d == task[w].copy[1]  c == task[w].copy[3]
    <2>1. PICK l \in Lanes, cancel \in CopiedCancel :
            /\ <<d, l>> \in rows
            /\ WriteHash(d, l, "queued", [attempts |-> c.attempts, token |-> c.token,
                                          cancel |-> cancel])
      BY <1>12 DEF EnqueueDependent
    <2>2. d \in Jobs /\ cancel \in BOOLEAN /\ UNCHANGED <<rows, spent>>
      BY <1>12, <2>1 DEF TypeOK, CopiedCancel, EnqueueDependent
    <2>3. c.attempts \in Nat /\ c.token \in Nat
      <3>1. task[w].copy \in Copies \cup {NoCopy}
        BY DEF WorkflowTypeOK, Tasks
      <3>2. c \in Cols
        BY <3>1 DEF Copies, NoCopy, NewCol, Cols
      <3> QED BY <3>2 DEF Cols
    <2> HIDE DEF d, c
    <2> QED BY <2>1, <2>2, <2>3, HashType
  <1>13. CASE SchedStep
    <2>1. (\E B \in SUBSET Jobs : ActivateDue(B) \/ RecoverExpired(B)) \/ UNCHANGED vars
      BY <1>13 DEF SchedStep, Tick, SchedLoad, SchedMark
    <2> QED BY <1>1, <2>1 DEF Next, SchedulerStep
  <1>14. CASE UNCHANGED allVars
    BY <1>1, <1>14 DEF allVars
  <1> QED BY <1>2, <1>3, <1>4, <1>5, <1>6, <1>7, <1>8, <1>9, <1>10, <1>11, <1>12,
             <1>13, <1>14
          DEF WorkflowNext, ApiStep, WorkStep, ResolveStep

-----------------------------------------------------------------------------
(* The rows.                                                               *)

RowsTyped ==
  /\ db \in [Jobs -> States] /\ reason \in [Jobs -> Reasons]
  /\ col \in [Jobs -> Cols] /\ faults \in Nat

\* Where the state column's new value comes from.
RowSource(j) ==
  \/ db'[j] = db[j]
  \/ db'[j] \in {"queued", "blocked", "active"}
  \/ cancelJob[j].pc = "applied" /\ db'[j] \in {"canceled", cancelJob[j].seen}
  \/ \E w \in Slots : run[w].pc \in Acked /\ run[w].job = j /\ db'[j] = run[w].pc
  \/ sched.seen # "none" /\ sched.item[1] = j /\ db'[j] = sched.seen

\* A failing store call.
LEMMA FaultCounts ==
  ASSUME RowsTyped, StoreFails
  PROVE  faults' \in Nat
  BY DEF RowsTyped, StoreFails

\* An UPDATE by id.
LEMMA RowWritten ==
  ASSUME RowsTyped, NEW j \in Jobs, NEW s \in States, NEW r \in Reasons, NEW c \in Cols,
         WriteRow(j, s, r, c)
  PROVE  /\ RowsTyped'
         /\ \A i \in Jobs : db'[i] = db[i] \/ (i = j /\ db'[i] = s)
  <1>1. CASE StoreFails /\ UNCHANGED rowVars
    BY <1>1, FaultCounts DEF RowsTyped, rowVars
  <1>2. CASE /\ db' = [db EXCEPT ![j] = s]
             /\ reason' = [reason EXCEPT ![j] = r]
             /\ col' = [col EXCEPT ![j] = c]
             /\ UNCHANGED faults
    BY <1>2 DEF RowsTyped
  <1> QED BY <1>1, <1>2 DEF WriteRow

\* The simple reasons.
LEMMA SimpleReasons == NoReason \in Reasons /\ WaitingOn \in Reasons
  BY DEF Reasons

\* Columns stay columns.
LEMMA ColType ==
  ASSUME NEW c \in Cols
  PROVE  [c EXCEPT !.token = 0] \in Cols
  BY DEF Cols

\* A dependent a resolver works on is a job, and so is what it has read of it.
LEMMA CopyType ==
  ASSUME NEW c \in Copies
  PROVE  c[1] \in Jobs /\ c[2] \in Reasons /\ c[3] \in Cols
  BY DEF Copies

\* While it works on a dependent, a resolver has a copy of its row.
Working == {"read", "explain", "enqueue", "mark"}
CopyHeld == \A w \in Slots : task[w].pc \in Working => task[w].copy \in Copies

\* The rows keep their types, and every state written has a source.
LEMMA RowSide ==
  ASSUME WorkflowTypeOK, CopyHeld, [WorkflowNext]_allVars
  PROVE  RowsTyped' /\ \A j \in Jobs : RowSource(j)
  <1>0. RowsTyped /\ TypeOK
    BY DEF WorkflowTypeOK, RowsTyped
  <1>1. ASSUME UNCHANGED rowVars, faults' = faults \/ StoreFails
        PROVE  RowsTyped' /\ \A j \in Jobs : RowSource(j)
    BY <1>0, <1>1, FaultCounts DEF RowsTyped, rowVars, RowSource
  <1>2. ASSUME NEW j \in Jobs, CreateJobBundle(j)
        PROVE  RowsTyped' /\ \A i \in Jobs : RowSource(i)
    <2>1. /\ db' = [db EXCEPT ![j] = FirstState(j)]
          /\ reason' = [reason EXCEPT ![j] = IF Deps[j] = {} THEN NoReason ELSE WaitingOn]
          /\ UNCHANGED <<col, faults>>
      BY <1>2 DEF CreateJobBundle
    <2>2. FirstState(j) \in {"queued", "blocked"} /\ {"queued", "blocked"} \subseteq States
      BY DEF FirstState, States, JobStates
    <2>3. (IF Deps[j] = {} THEN NoReason ELSE WaitingOn) \in Reasons
      BY SimpleReasons
    <2>4. RowsTyped'
      BY <1>0, <2>1, <2>2, <2>3 DEF RowsTyped
    <2>5. \A i \in Jobs : db'[i] = db[i] \/ db'[i] \in {"queued", "blocked"}
      BY <1>0, <2>1, <2>2 DEF RowsTyped
    <2> QED BY <2>4, <2>5 DEF RowSource
  <1>3. ASSUME NEW j \in Jobs, CancelMark(j)
        PROVE  RowsTyped' /\ \A i \in Jobs : RowSource(i)
    <2> DEFINE seen == cancelJob[j].seen
               s == IF seen \in {"queued", "retrying", "scheduled", "failed"}
                    THEN "canceled" ELSE seen
    <2>1. WriteRow(j, s, reason[j], col[j]) /\ cancelJob[j].pc = "applied"
      BY <1>3 DEF CancelMark
    <2>2. seen \in States
      BY DEF WorkflowTypeOK, Cancels
    <2>3. s \in States /\ s \in {"canceled", seen} /\ reason[j] \in Reasons /\ col[j] \in Cols
      BY <1>0, <2>2 DEF RowsTyped, States, JobStates
    <2> HIDE DEF s
    <2> QED BY <1>0, <2>1, <2>3, RowWritten DEF RowSource
  <1>4. ASSUME NEW w \in Slots, StartMarked(w)
        PROVE  RowsTyped' /\ \A i \in Jobs : RowSource(i)
    <2> DEFINE c == [attempts |-> run[w].attempts, token |-> run[w].token]
    <2>1. WriteRow(run[w].job, "active", NoReason, c) /\ run[w].pc = "loaded"
      BY <1>4 DEF StartMarked, Start
    <2>2. run[w].job \in Jobs /\ c \in Cols /\ "active" \in States
      BY <1>0, <2>1, BusyFields DEF Cols, States, JobStates
    <2> HIDE DEF c
    <2> QED BY <1>0, <2>1, <2>2, RowWritten, SimpleReasons DEF RowSource
  <1>5. ASSUME NEW w \in Slots, Persist(w)
        PROVE  RowsTyped' /\ \A i \in Jobs : RowSource(i)
    <2> DEFINE j == run[w].job
    <2>1. WriteRow(j, run[w].pc, reason[j], Unleased(j)) /\ run[w].pc \in Acked
      BY <1>5 DEF Persist
    <2>2. run[w].pc # "idle" /\ run[w].pc \in States
      BY <2>1 DEF Acked, States, JobStates
    <2>3. j \in Jobs
      BY <1>0, <2>2, BusyFields
    <2>4. reason[j] \in Reasons /\ Unleased(j) \in Cols
      BY <1>0, <2>3, ColType DEF RowsTyped, Unleased
    <2> QED BY <1>0, <2>1, <2>2, <2>3, <2>4, RowWritten DEF RowSource
  <1>6. ASSUME NEW w \in Slots, ExplainDependent(w) \/ MarkDependent(w)
        PROVE  RowsTyped' /\ \A i \in Jobs : RowSource(i)
    <2> DEFINE d == task[w].copy[1]  c == [task[w].copy[3] EXCEPT !.token = 0]
    <2>1. task[w].pc \in Working
      BY <1>6 DEF ExplainDependent, MarkDependent, Working
    <2>2. d \in Jobs /\ task[w].copy[3] \in Cols
      BY <2>1, CopyType DEF CopyHeld
    <2>3. c \in Cols /\ task[w].why \in Reasons
      BY <2>2, ColType DEF WorkflowTypeOK, Tasks
    <2>4. \/ WriteRow(d, "blocked", task[w].why, c)
          \/ WriteRow(d, "queued", NoReason, c)
      BY <1>6 DEF ExplainDependent, MarkDependent
    <2>5. "blocked" \in States /\ "queued" \in States
      BY DEF States, JobStates
    <2> HIDE DEF d, c
    <2> QED BY <1>0, <2>2, <2>3, <2>4, <2>5, RowWritten, SimpleReasons DEF RowSource
  <1>7. CASE SchedMark
    <2> DEFINE j == sched.item[1]
    <2>1. sched.seen # "none" /\ sched.item[2] \in Outcomes
      BY <1>7 DEF SchedMark, Outcomes
    <2>2. /\ sched.item \in (Jobs \X Outcomes) \cup {<<NoJob, "none">>}
          /\ sched.seen \in States /\ sched.attempts \in Nat
      BY DEF WorkflowTypeOK, Scheds
    <2>3. j \in Jobs
      BY <2>1, <2>2 DEF Outcomes
    <2>4. PICK r \in Reasons, c \in Cols : WriteRow(j, sched.seen, r, c)
      <3>1. reason[j] \in Reasons /\ col[j] \in Cols /\ Unleased(j) \in Cols
        BY <1>0, <2>3, ColType DEF RowsTyped, Unleased
      <3>2. [attempts |-> sched.attempts, token |-> 0] \in Cols
        BY <2>2 DEF Cols
      <3>3. {NoReason} \cup (IF sched.seen \in {"blocked", "canceled"} THEN {WaitingOn} ELSE {})
              \subseteq Reasons
        BY SimpleReasons
      <3> QED BY <1>7, <3>1, <3>2, <3>3 DEF SchedMark
    <2> QED BY <1>0, <2>1, <2>2, <2>3, <2>4, RowWritten DEF RowSource
  <1>8. ASSUME NEW j \in Jobs, TimePasses(j) \/ SubmitToBroker(j) \/ SubmitFails(j)
                 \/ CancelGetJob(j) \/ CancelBrokerLoad(j) \/ CancelNotFound(j)
                 \/ CancelBrokerApply(j) \/ CancelBrokerFails(j)
        PROVE  UNCHANGED rowVars /\ (faults' = faults \/ StoreFails)
    BY <1>8 DEF TimePasses, SubmitToBroker, SubmitFails, CancelGetJob, CancelBrokerLoad,
                CancelNotFound, CancelBrokerApply, CancelBrokerFails
  <1>9. ASSUME NEW w \in Slots, WorkerPolls(w) \/ CompleteRecorded(w) \/ FailRecorded(w)
                 \/ ListDependents(w) \/ TakeDependent(w) \/ ReadDependency(w)
                 \/ EnqueueDependent(w) \/ ResolveDone(w) \/ ResolveFails(w) \/ WorkerCrash(w)
        PROVE  UNCHANGED rowVars /\ (faults' = faults \/ StoreFails)
    BY <1>9 DEF WorkerPolls, CompleteRecorded, FailRecorded, ListDependents, TakeDependent,
                ReadDependency, EnqueueDependent, ResolveDone, ResolveFails, WorkerCrash
  <1>10. ASSUME (\E B \in SUBSET Jobs : Tick(B)) \/ (\E i \in sched.todo : SchedLoad(i))
         PROVE  UNCHANGED rowVars /\ (faults' = faults \/ StoreFails)
    BY <1>10 DEF Tick, SchedLoad
  <1>11. CASE UNCHANGED allVars
    BY <1>1, <1>11 DEF allVars
  <1> QED BY <1>1, <1>2, <1>3, <1>4, <1>5, <1>6, <1>7, <1>8, <1>9, <1>10, <1>11
          DEF WorkflowNext, ApiStep, WorkStep, ResolveStep, SchedStep

-----------------------------------------------------------------------------
(* resolveDependents.                                                      *)

TaskPcs == {"none", "list", "each", "read", "explain", "enqueue", "mark"}

\* No task is a task.
LEMMA NoTaskType == NoTask \in Tasks
  <1>1. NoReason \in Reasons
    BY SimpleReasons
  <1> QED BY <1>1 DEF NoTask, Tasks

\* A task's place changes and nothing else.
LEMMA TaskPc ==
  ASSUME NEW t \in Tasks, NEW pc \in TaskPcs
  PROVE  /\ [t EXCEPT !.pc = pc] \in Tasks
         /\ [t EXCEPT !.pc = pc].pc = pc
         /\ [t EXCEPT !.pc = pc].copy = t.copy
  BY DEF Tasks, TaskPcs

\* A fresh task at some dependents.
LEMMA FreshTask ==
  ASSUME NEW pc \in TaskPcs, NEW todo \in SUBSET Copies
  PROVE  /\ [NoTask EXCEPT !.pc = pc, !.todo = todo] \in Tasks
         /\ [NoTask EXCEPT !.pc = pc, !.todo = todo].pc = pc
  <1>1. NoTask \in Tasks
    BY NoTaskType
  <1> QED BY <1>1 DEF Tasks, TaskPcs

\* The loop goes on to the next dependent.
LEMMA NextDependentType ==
  ASSUME NEW w \in Slots, task[w] \in Tasks
  PROVE  NextDependent(w) \in Tasks /\ NextDependent(w).pc = "each"
  <1>1. task[w].todo \in SUBSET Copies /\ "each" \in TaskPcs
    BY DEF Tasks, TaskPcs
  <1> QED BY <1>1, FreshTask DEF NextDependent

\* A dependent that is not ready is passed over or explained.
LEMMA NotReadyType ==
  ASSUME NEW w \in Slots, task[w] \in Tasks, NEW why \in Reasons
  PROVE  /\ NotReady(w, why) \in Tasks
         /\ NotReady(w, why).pc \in {"each", "explain"}
         /\ NotReady(w, why).pc = "explain" => NotReady(w, why).copy = task[w].copy
  <1>1. CASE why = task[w].copy[2]
    BY <1>1, NextDependentType DEF NotReady
  <1>2. CASE why # task[w].copy[2]
    <2>1. NotReady(w, why) = [task[w] EXCEPT !.pc = "explain", !.left = {},
                                             !.satisfied = TRUE, !.why = why]
      BY <1>2 DEF NotReady
    <2> QED BY <2>1 DEF Tasks
  <1> QED BY <1>1, <1>2

\* What a step may do to the resolver of a slot: leave it, take it to a place
\* where nothing is decided, start to read a dependent's dependencies, read
\* one that is not the last, or read the last one and find all satisfied.
TaskMoves(w) ==
  \/ task'[w] = task[w]
  \/ task'[w].pc \notin {"read", "enqueue"}
  \/ task'[w].pc = "read" /\ task'[w].left = Deps[task'[w].copy[1]]
  \/ /\ task[w].pc = "read" /\ task'[w].copy = task[w].copy
     /\ \E x \in task[w].left :
          /\ \/ task'[w].pc = "read" /\ task'[w].left = task[w].left \ {x}
             \/ task'[w].pc = "enqueue" /\ task[w].left = {x}
          /\ \/ task'[w].pc = "read" /\ ~task'[w].satisfied
             \/ task[w].satisfied /\ Verdict(task[w].copy[1], x) = "met"

\* One slot's resolver moves.
LEMMA TaskChanges ==
  ASSUME task \in [Slots -> Tasks], CopyHeld, NEW w \in Slots, NEW t \in Tasks,
         task' = [task EXCEPT ![w] = t], t.pc \in Working => t.copy \in Copies,
         t.pc \notin {"read", "enqueue"}
  PROVE  task' \in [Slots -> Tasks] /\ CopyHeld' /\ \A v \in Slots : TaskMoves(v)
  <1>1. task'[w] = t /\ \A v \in Slots \ {w} : task'[v] = task[v]
    OBVIOUS
  <1>2. CopyHeld'
    BY <1>1 DEF CopyHeld
  <1>3. \A v \in Slots : TaskMoves(v)
    BY <1>1 DEF TaskMoves
  <1> QED BY <1>2, <1>3

\* Reading a dependency, the step at which a dependent may be released.
LEMMA TaskReads ==
  ASSUME WorkflowTypeOK, CopyHeld, NEW w \in Slots, ReadDependency(w)
  PROVE  task' \in [Slots -> Tasks] /\ CopyHeld' /\ \A v \in Slots : TaskMoves(v)
  <1>1. task \in [Slots -> Tasks] /\ task[w] \in Tasks /\ db \in [Jobs -> States]
    BY DEF WorkflowTypeOK
  <1>2. task[w].pc = "read" /\ task[w].copy \in Copies
    BY DEF ReadDependency, CopyHeld, Working
  <1>3. PICK x \in task[w].left :
          LET v == Verdict(task[w].copy[1], x)
              rest == task[w].left \ {x}
              all == AllSatisfied(w, v) IN
          task' = [task EXCEPT ![w] =
            CASE v = "broken" -> NotReady(w, <<x, db[x]>>)
              [] v # "broken" /\ rest # {} -> [@ EXCEPT !.left = rest, !.satisfied = all]
              [] v # "broken" /\ rest = {} /\ ~all -> NotReady(w, WaitingOn)
              [] OTHER -> [@ EXCEPT !.pc = "enqueue", !.left = {}]]
    BY DEF ReadDependency
  <1> DEFINE v == Verdict(task[w].copy[1], x)
             rest == task[w].left \ {x}
             all == AllSatisfied(w, v)
             t == task'[w]
  <1>4. /\ task' = [task EXCEPT ![w] = t]
        /\ t = CASE v = "broken" -> NotReady(w, <<x, db[x]>>)
                 [] v # "broken" /\ rest # {} -> [task[w] EXCEPT !.left = rest, !.satisfied = all]
                 [] v # "broken" /\ rest = {} /\ ~all -> NotReady(w, WaitingOn)
                 [] OTHER -> [task[w] EXCEPT !.pc = "enqueue", !.left = {}]
    BY <1>1, <1>3
  <1>5. x \in Jobs /\ rest \subseteq Jobs /\ task[w].satisfied \in BOOLEAN
    BY <1>1 DEF Tasks
  <1>6. all \in BOOLEAN /\ (all => task[w].satisfied /\ v = "met")
    BY <1>5, Zenon DEF AllSatisfied
  <1>7. v = "broken" => <<x, db[x]>> \in Reasons
    BY <1>5 DEF Verdict, Reasons
  <1> HIDE DEF v, all
  <1>8. CASE v = "broken" \/ (rest = {} /\ ~all)
    <2>1. PICK why \in Reasons : t = NotReady(w, why)
      BY <1>4, <1>7, <1>8, SimpleReasons
    <2>2. t \in Tasks /\ t.pc \in {"each", "explain"} /\ (t.pc = "explain" => t.copy = task[w].copy)
      BY <1>1, <2>1, NotReadyType
    <2> HIDE DEF t
    <2> QED BY <1>1, <1>2, <1>4, <2>2, TaskChanges DEF Working
  <1>9. CASE v # "broken" /\ rest # {}
    <2>1. t = [task[w] EXCEPT !.left = rest, !.satisfied = all]
      BY <1>4, <1>9
    <2>2. /\ t \in Tasks /\ t.pc = "read" /\ t.copy = task[w].copy
          /\ t.left = rest /\ t.satisfied = all
      BY <1>1, <1>2, <1>5, <1>6, <2>1, Zenon DEF Tasks
    <2> HIDE DEF t
    <2>3. task'[w] = t /\ \A u \in Slots \ {w} : task'[u] = task[u]
      BY <1>1, <1>4
    <2>4. task' \in [Slots -> Tasks] /\ CopyHeld'
      BY <1>1, <1>2, <1>4, <2>2, <2>3 DEF CopyHeld
    <2>5. ~task'[w].satisfied \/ (task[w].satisfied /\ Verdict(task[w].copy[1], x) = "met")
      BY <1>6, <2>2, <2>3 DEF v
    <2>6. /\ task'[w].pc = "read" /\ task'[w].copy = task[w].copy
          /\ task'[w].left = task[w].left \ {x}
      BY <2>2, <2>3
    <2>7. \E y \in task[w].left :
            /\ \/ task'[w].pc = "read" /\ task'[w].left = task[w].left \ {y}
               \/ task'[w].pc = "enqueue" /\ task[w].left = {y}
            /\ \/ task'[w].pc = "read" /\ ~task'[w].satisfied
               \/ task[w].satisfied /\ Verdict(task[w].copy[1], y) = "met"
      <3> WITNESS x \in task[w].left
      <3> QED BY <2>5, <2>6, Zenon
    <2>8. TaskMoves(w)
      BY <1>2, <2>6, <2>7 DEF TaskMoves
    <2> QED BY <2>3, <2>4, <2>8 DEF TaskMoves
  <1>10. CASE v # "broken" /\ rest = {} /\ all
    <2>1. t = [task[w] EXCEPT !.pc = "enqueue", !.left = {}]
      BY <1>4, <1>10
    <2>2. t \in Tasks /\ t.pc = "enqueue" /\ t.copy = task[w].copy
      BY <1>1, <2>1 DEF Tasks
    <2> HIDE DEF t
    <2>3. task'[w] = t /\ \A u \in Slots \ {w} : task'[u] = task[u]
      BY <1>1, <1>4
    <2>4. task' \in [Slots -> Tasks] /\ CopyHeld'
      BY <1>1, <1>2, <1>4, <2>2, <2>3 DEF CopyHeld
    <2>5. task[w].satisfied /\ Verdict(task[w].copy[1], x) = "met" /\ task[w].left = {x}
      BY <1>6, <1>10 DEF v
    <2>6. TaskMoves(w)
      BY <1>2, <2>2, <2>3, <2>5 DEF TaskMoves
    <2> QED BY <2>3, <2>4, <2>6 DEF TaskMoves
  <1> QED BY <1>6, <1>8, <1>9, <1>10

\* Every step of a resolver, and what happens to it when its worker stops.
LEMMA TaskSide ==
  ASSUME WorkflowTypeOK, CopyHeld, [WorkflowNext]_allVars
  PROVE  task' \in [Slots -> Tasks] /\ CopyHeld' /\ \A v \in Slots : TaskMoves(v)
  <1> DEFINE Goal == task' \in [Slots -> Tasks] /\ CopyHeld' /\ \A v \in Slots : TaskMoves(v)
  <1>0. task \in [Slots -> Tasks] /\ \A w \in Slots : task[w] \in Tasks
    BY DEF WorkflowTypeOK
  <1>1. ASSUME task' = task PROVE Goal
    BY <1>0, <1>1 DEF CopyHeld, TaskMoves
  <1>2. ASSUME NEW w \in Slots, NEW t \in Tasks, task' = [task EXCEPT ![w] = t],
               t.pc \notin Working
        PROVE  Goal
    BY <1>0, <1>2, TaskChanges DEF Working
  <1>3. ASSUME NEW w \in Slots, task' = [task EXCEPT ![w] = NoTask] PROVE Goal
    <2>1. NoTask \in Tasks /\ NoTask.pc \notin Working
      BY NoTaskType DEF NoTask, Working
    <2> QED BY <1>2, <1>3, <2>1
  <1>4. ASSUME NEW w \in Slots, task' = [task EXCEPT ![w] = NextDependent(w)] PROVE Goal
    <2>1. NextDependent(w) \in Tasks /\ NextDependent(w).pc \notin Working
      BY <1>0, NextDependentType DEF Working
    <2> QED BY <1>2, <1>4, <2>1
  <1>5. ASSUME NEW w \in Slots, Persist(w) PROVE Goal
    <2>1. CASE task' = [task EXCEPT ![w].pc = "list"]
      <3> DEFINE t == [task[w] EXCEPT !.pc = "list"]
      <3>1. task' = [task EXCEPT ![w] = t]
        BY <1>0, <2>1
      <3>2. t \in Tasks /\ t.pc = "list"
        BY <1>0, TaskPc DEF TaskPcs
      <3> HIDE DEF t
      <3> QED BY <1>2, <3>1, <3>2 DEF Working
    <2> QED BY <1>1, <1>5, <2>1 DEF Persist
  <1>6. ASSUME NEW w \in Slots, ListDependents(w) PROVE Goal
    <2> DEFINE found == {d \in Jobs : run[w].job \in Deps[d] /\ db[d] = "blocked"}
               todo == {<<d, reason[d], col[d]>> : d \in found}
               t == [NoTask EXCEPT !.pc = "each", !.todo = todo]
    <2>1. task' = [task EXCEPT ![w] = t]
      BY <1>6 DEF ListDependents
    <2>2. todo \in SUBSET Copies
      BY DEF WorkflowTypeOK, Copies
    <2> HIDE DEF todo
    <2>3. t \in Tasks /\ t.pc = "each"
      BY <2>2, FreshTask DEF TaskPcs
    <2> HIDE DEF t
    <2> QED BY <1>2, <2>1, <2>3 DEF Working
  <1>7. ASSUME NEW w \in Slots, TakeDependent(w) PROVE Goal
    <2>1. PICK c \in task[w].todo :
            task' = [task EXCEPT ![w] = [NoTask EXCEPT !.pc = "read", !.copy = c,
                       !.todo = task[w].todo \ {c}, !.left = Deps[c[1]]]]
      BY <1>7 DEF TakeDependent
    <2>2. c \in Copies /\ task[w].todo \ {c} \in SUBSET Copies
      BY <1>0 DEF Tasks
    <2>3. Deps[c[1]] \in SUBSET Jobs
      BY <2>2, CopyType, DepsAssumption
    <2> DEFINE t == [NoTask EXCEPT !.pc = "read", !.copy = c,
                       !.todo = task[w].todo \ {c}, !.left = Deps[c[1]]]
    <2>4. t \in Tasks /\ t.pc = "read" /\ t.copy = c /\ t.left = Deps[c[1]]
      BY <2>2, <2>3, NoTaskType DEF Tasks
    <2>5. task' = [task EXCEPT ![w] = t]
      BY <2>1
    <2> HIDE DEF t
    <2>6. task'[w] = t /\ \A u \in Slots \ {w} : task'[u] = task[u]
      BY <1>0, <2>5
    <2>7. CopyHeld'
      BY <2>2, <2>4, <2>6 DEF CopyHeld
    <2>8. \A v \in Slots : TaskMoves(v)
      BY <2>4, <2>6 DEF TaskMoves
    <2> QED BY <1>0, <2>4, <2>5, <2>7, <2>8
  <1>8. ASSUME NEW w \in Slots, ExplainDependent(w) \/ MarkDependent(w) PROVE Goal
    BY <1>4, <1>8 DEF ExplainDependent, MarkDependent
  <1>9. ASSUME NEW w \in Slots, EnqueueDependent(w) PROVE Goal
    <2> DEFINE t == [task[w] EXCEPT !.pc = "mark"]
    <2>1. task' = [task EXCEPT ![w] = t] /\ task[w].pc \in Working
      BY <1>0, <1>9 DEF EnqueueDependent, Working
    <2>2. t \in Tasks /\ t.pc = "mark" /\ t.copy = task[w].copy
      BY <1>0, TaskPc DEF TaskPcs
    <2> HIDE DEF t
    <2>3. t.copy \in Copies /\ t.pc \notin {"read", "enqueue"}
      BY <2>1, <2>2 DEF CopyHeld
    <2> QED BY <1>0, <2>1, <2>2, <2>3, TaskChanges
  <1>10. ASSUME NEW w \in Slots, ResolveDone(w) \/ WorkerCrash(w) PROVE Goal
    BY <1>3, <1>10 DEF ResolveDone, WorkerCrash
  <1>11. ASSUME NEW w \in Slots, ResolveFails(w) PROVE Goal
    <2>1. CASE task[w].pc = "each" /\ \E c \in task[w].todo : task' = [task EXCEPT ![w].todo = @ \ {c}]
      <3>1. PICK c \in task[w].todo : task' = [task EXCEPT ![w].todo = @ \ {c}]
        BY <2>1
      <3> DEFINE t == [task[w] EXCEPT !.todo = @ \ {c}]
      <3>2. task' = [task EXCEPT ![w] = t]
        BY <1>0, <3>1
      <3>3. t \in Tasks /\ t.pc = "each"
        BY <1>0, <2>1 DEF Tasks
      <3> HIDE DEF t
      <3> QED BY <1>2, <3>2, <3>3 DEF Working
    <2>2. CASE task[w].pc = "read" /\ \E x \in task[w].left :
                 task' = [task EXCEPT ![w] = NotReady(w, <<x, "unloaded">>)]
      <3>1. PICK x \in task[w].left : task' = [task EXCEPT ![w] = NotReady(w, <<x, "unloaded">>)]
        BY <2>2
      <3>2. <<x, "unloaded">> \in Reasons
        BY <1>0 DEF Tasks, Reasons
      <3>3. task[w].copy \in Copies
        BY <2>2 DEF CopyHeld, Working
      <3> DEFINE t == NotReady(w, <<x, "unloaded">>)
      <3>4. t \in Tasks /\ t.pc \in {"each", "explain"} /\ (t.pc = "explain" => t.copy = task[w].copy)
        BY <1>0, <3>2, NotReadyType
      <3>5. task' = [task EXCEPT ![w] = t]
        BY <3>1
      <3> HIDE DEF t
      <3> QED BY <1>0, <3>3, <3>4, <3>5, TaskChanges DEF Working
    <2> QED BY <1>3, <1>4, <1>11, <2>1, <2>2 DEF ResolveFails
  <1>12. ASSUME NEW j \in Jobs, TimePasses(j) \/ ApiStep(j) PROVE task' = task
    BY <1>12 DEF TimePasses, ApiStep, CreateJobBundle, SubmitToBroker, SubmitFails,
                 CancelGetJob, CancelBrokerLoad, CancelNotFound, CancelBrokerApply,
                 CancelBrokerFails, CancelMark
  <1>13. ASSUME NEW w \in Slots, WorkerPolls(w) \/ StartMarked(w) \/ CompleteRecorded(w)
                                  \/ FailRecorded(w)
         PROVE  task' = task
    BY <1>13 DEF WorkerPolls, StartMarked, CompleteRecorded, FailRecorded
  <1>14. ASSUME SchedStep \/ UNCHANGED allVars PROVE task' = task
    BY <1>14 DEF SchedStep, Tick, SchedLoad, SchedMark, allVars
  <1>15. ASSUME NEW w \in Slots, ReadDependency(w) PROVE Goal
    BY <1>15, TaskReads
  <1> HIDE DEF Goal
  <1>16. Goal
    BY <1>1, <1>5, <1>6, <1>7, <1>8, <1>9, <1>10, <1>11, <1>12, <1>13, <1>14, <1>15
       DEF WorkflowNext, WorkStep, ResolveStep
  <1> QED BY <1>16 DEF Goal

-----------------------------------------------------------------------------
(* The scheduler's loop, CancelJob, submissions and the history.           *)

\* What the scheduler has seen of a job, it loaded from the broker.
SchedSource ==
  \/ sched' = sched
  \/ sched'.seen = "none"
  \/ sched'.item[1] \in Jobs /\ sched'.seen = state[sched'.item[1]]

\* The scheduler's loop keeps its type.
LEMMA SchedSide ==
  ASSUME WorkflowTypeOK, [WorkflowNext]_allVars
  PROVE  sched' \in Scheds /\ SchedSource
  <1>0. sched \in Scheds /\ state \in [Jobs -> States] /\ attempts \in [Jobs -> Nat]
    BY DEF WorkflowTypeOK, TypeOK
  <1>1. ASSUME sched' = sched PROVE sched' \in Scheds /\ SchedSource
    BY <1>0, <1>1 DEF SchedSource
  <1>2. ASSUME NEW todo \in SUBSET (Jobs \X Outcomes), sched.seen = "none",
               sched' = [sched EXCEPT !.todo = todo]
        PROVE  sched' \in Scheds /\ SchedSource
    BY <1>0, <1>2 DEF Scheds, SchedSource
  <1>3. ASSUME NEW B \in SUBSET Jobs, Tick(B) PROVE sched' \in Scheds /\ SchedSource
    <2>1. sched.seen = "none"
      BY <1>3 DEF Tick, SchedIdle
    <2>2. B \X {"queued"} \in SUBSET (Jobs \X Outcomes)
      BY DEF Outcomes
    <2>3. {<<j, RecoveryState(j)>> : j \in B} \in SUBSET (Jobs \X Outcomes)
      BY DEF Outcomes, RecoveryState
    <2>4. \/ sched' = [sched EXCEPT !.todo = B \X {"queued"}]
          \/ sched' = [sched EXCEPT !.todo = {<<j, RecoveryState(j)>> : j \in B}]
      BY <1>3 DEF Tick
    <2> QED BY <1>2, <2>1, <2>2, <2>3, <2>4
  <1>4. ASSUME NEW i \in sched.todo, SchedLoad(i) PROVE sched' \in Scheds /\ SchedSource
    <2>1. i \in Jobs \X Outcomes /\ sched.todo \ {i} \in SUBSET (Jobs \X Outcomes)
      BY <1>0 DEF Scheds
    <2>2. CASE sched' = [todo |-> sched.todo \ {i}, item |-> i,
                         seen |-> state[i[1]], attempts |-> attempts[i[1]]]
      <3>1. i[1] \in Jobs
        BY <2>1
      <3>2. sched' \in Scheds
        BY <1>0, <2>1, <2>2, <3>1 DEF Scheds
      <3>3. sched'.item = i /\ sched'.seen = state[i[1]]
        BY <2>2
      <3> QED BY <3>1, <3>2, <3>3 DEF SchedSource
    <2>3. CASE sched' = [sched EXCEPT !.todo = sched.todo \ {i}]
      <3>1. sched.seen = "none"
        BY <1>4 DEF SchedLoad
      <3> QED BY <1>2, <2>1, <2>3, <3>1
    <2> QED BY <1>4, <2>2, <2>3 DEF SchedLoad
  <1>5. CASE SchedMark
    <2>1. sched' = [SchedIdle EXCEPT !.todo = sched.todo]
      BY <1>5 DEF SchedMark
    <2> QED BY <1>0, <2>1 DEF SchedIdle, Scheds, States, SchedSource
  <1>6. ASSUME NEW j \in Jobs, TimePasses(j) \/ ApiStep(j) PROVE sched' = sched
    BY <1>6 DEF TimePasses, ApiStep, CreateJobBundle, SubmitToBroker, SubmitFails,
                CancelGetJob, CancelBrokerLoad, CancelNotFound, CancelBrokerApply,
                CancelBrokerFails, CancelMark
  <1>7. ASSUME NEW w \in Slots, WorkStep(w) PROVE sched' = sched
    <2>1. CASE ResolveStep(w)
      BY <2>1 DEF ResolveStep, ListDependents, TakeDependent, ReadDependency,
         ExplainDependent, EnqueueDependent, MarkDependent, ResolveDone, ResolveFails
    <2> QED BY <1>7, <2>1 DEF WorkStep, WorkerPolls, StartMarked, CompleteRecorded,
                              FailRecorded, Persist, WorkerCrash
  <1>8. ASSUME UNCHANGED allVars PROVE sched' = sched
    BY <1>8 DEF allVars
  <1> QED BY <1>1, <1>3, <1>4, <1>5, <1>6, <1>7, <1>8 DEF WorkflowNext, SchedStep

\* No client calls CancelJob.
NoCancels == Budget["cancel"] = 0

\* What CancelJob has seen of a job, it read from the row.
CancelSource(j) ==
  /\ cancelJob'[j].seen \in {cancelJob[j].seen, "none", db[j]}
  /\ NoCancels /\ (\A i \in Jobs : cancelJob[i].pc = "none") => cancelJob'[j].pc = "none"

\* CancelJob keeps its type.
LEMMA CancelSide ==
  ASSUME WorkflowTypeOK, [WorkflowNext]_allVars
  PROVE  cancelJob' \in [Jobs -> Cancels] /\ \A j \in Jobs : CancelSource(j)
  <1> DEFINE Goal == cancelJob' \in [Jobs -> Cancels] /\ \A j \in Jobs : CancelSource(j)
  <1>0. /\ cancelJob \in [Jobs -> Cancels] /\ db \in [Jobs -> States]
        /\ spent["cancel"] \in Nat
    BY DEF WorkflowTypeOK, TypeOK, EnvKinds
  <1>1. ASSUME cancelJob' = cancelJob PROVE Goal
    BY <1>0, <1>1 DEF CancelSource
  <1>2. ASSUME NEW j \in Jobs, NEW c \in Cancels, cancelJob' = [cancelJob EXCEPT ![j] = c],
               c.seen \in {cancelJob[j].seen, "none", db[j]},
               NoCancels /\ (\A i \in Jobs : cancelJob[i].pc = "none") => c.pc = "none"
        PROVE  Goal
    BY <1>0, <1>2 DEF CancelSource
  <1>3. ASSUME NEW j \in Jobs, CancelGetJob(j) PROVE Goal
    <2> DEFINE c == [pc |-> "got", seen |-> db[j]]
    <2>1. c \in Cancels /\ c.seen = db[j] /\ cancelJob' = [cancelJob EXCEPT ![j] = c]
      BY <1>0, <1>3 DEF Cancels, CancelGetJob
    <2>2. ~(NoCancels /\ \A i \in Jobs : cancelJob[i].pc = "none")
      <3> SUFFICES ASSUME NoCancels, \A i \in Jobs : cancelJob[i].pc = "none" PROVE FALSE
        OBVIOUS
      <3>1. {x \in Jobs : cancelJob[x].pc = "got"} = {}
        OBVIOUS
      <3>2. spent["cancel"] + Cardinality({}) < 0
        BY <1>3, <3>1 DEF CancelGetJob, NoCancels
      <3> QED BY <1>0, <3>2, FS_EmptySet
    <2> HIDE DEF c
    <2> QED BY <1>2, <2>1, <2>2
  <1>4. ASSUME NEW j \in Jobs, NEW pc \in {"loaded", "applied"}, cancelJob[j].pc # "none",
               cancelJob' = [cancelJob EXCEPT ![j].pc = pc]
        PROVE  Goal
    <2> DEFINE c == [cancelJob[j] EXCEPT !.pc = pc]
    <2>1. c \in Cancels /\ c.seen = cancelJob[j].seen
      BY <1>0 DEF Cancels
    <2>2. cancelJob' = [cancelJob EXCEPT ![j] = c]
      BY <1>0, <1>4
    <2> HIDE DEF c
    <2> QED BY <1>2, <1>4, <2>1, <2>2
  <1>5. ASSUME NEW j \in Jobs, cancelJob' = [cancelJob EXCEPT ![j] = NoCancel] PROVE Goal
    <2>1. NoCancel \in Cancels /\ NoCancel.seen = "none" /\ NoCancel.pc = "none"
      BY DEF NoCancel, Cancels, States
    <2> QED BY <1>2, <1>5, <2>1
  <1>6. ASSUME NEW j \in Jobs, ApiStep(j) PROVE Goal
    <2>1. CASE CancelBrokerLoad(j) \/ CancelBrokerApply(j)
      BY <1>4, <2>1 DEF CancelBrokerLoad, CancelBrokerApply
    <2>2. CASE CancelNotFound(j) \/ CancelBrokerFails(j) \/ CancelMark(j)
      BY <1>5, <2>2 DEF CancelNotFound, CancelBrokerFails, CancelMark
    <2>3. CASE CreateJobBundle(j) \/ SubmitToBroker(j) \/ SubmitFails(j)
      BY <1>1, <2>3 DEF CreateJobBundle, SubmitToBroker, SubmitFails
    <2> QED BY <1>3, <1>6, <2>1, <2>2, <2>3 DEF ApiStep
  <1>7. ASSUME NEW w \in Slots, WorkStep(w) PROVE cancelJob' = cancelJob
    <2>1. CASE ResolveStep(w)
      BY <2>1 DEF ResolveStep, ListDependents, TakeDependent, ReadDependency,
         ExplainDependent, EnqueueDependent, MarkDependent, ResolveDone, ResolveFails
    <2> QED BY <1>7, <2>1 DEF WorkStep, WorkerPolls, StartMarked, CompleteRecorded,
                              FailRecorded, Persist, WorkerCrash
  <1>8. ASSUME SchedStep \/ UNCHANGED allVars PROVE cancelJob' = cancelJob
    BY <1>8 DEF SchedStep, Tick, SchedLoad, SchedMark, allVars
  <1>9. ASSUME NEW j \in Jobs, TimePasses(j) PROVE cancelJob' = cancelJob
    BY <1>9 DEF TimePasses
  <1> HIDE DEF Goal
  <1>10. Goal
    BY <1>1, <1>6, <1>7, <1>8, <1>9 DEF WorkflowNext
  <1> QED BY <1>10 DEF Goal

\* The history only grows, and submissions are of jobs.
LEMMA HistorySide ==
  ASSUME WorkflowTypeOK, [WorkflowNext]_allVars
  PROVE  /\ submitting' \subseteq Jobs /\ timely' \subseteq Jobs
         /\ succeeded \subseteq succeeded' /\ succeeded' \subseteq Jobs
         /\ ended \subseteq ended' /\ ended' \subseteq Jobs
  <1> DEFINE Goal == /\ submitting' \subseteq Jobs /\ timely' \subseteq Jobs
                     /\ succeeded \subseteq succeeded' /\ succeeded' \subseteq Jobs
                     /\ ended \subseteq ended' /\ ended' \subseteq Jobs
  <1>0. /\ submitting \subseteq Jobs /\ timely \subseteq Jobs
        /\ succeeded \subseteq Jobs /\ ended \subseteq Jobs
    BY DEF WorkflowTypeOK
  <1>1. ASSUME UNCHANGED <<submitting, history>> PROVE Goal
    BY <1>0, <1>1 DEF history
  <1>2. ASSUME UNCHANGED <<submitting, timely>>, ended' = ended \/ RecordEnds,
               succeeded' = succeeded \/ \E j \in Jobs : succeeded' = succeeded \cup {j}
        PROVE  Goal
    BY <1>0, <1>2 DEF RecordEnds
  <1>3. ASSUME NEW j \in Jobs, ApiStep(j) PROVE Goal
    <2>1. CASE CreateJobBundle(j) \/ SubmitToBroker(j) \/ SubmitFails(j)
      <3>1. submitting' \in {submitting \cup {j}, submitting \ {j}}
        BY <2>1 DEF CreateJobBundle, SubmitToBroker, SubmitFails
      <3>2. UNCHANGED <<succeeded, ended>> /\ timely' \in {timely, timely \cup {j}}
        BY <2>1 DEF CreateJobBundle, SubmitToBroker, SubmitFails, history
      <3> QED BY <1>0, <3>1, <3>2
    <2>2. CASE CancelBrokerApply(j)
      BY <1>2, <2>2 DEF CancelBrokerApply
    <2>3. CASE CancelGetJob(j) \/ CancelBrokerLoad(j) \/ CancelNotFound(j)
                 \/ CancelBrokerFails(j) \/ CancelMark(j)
      BY <1>1, <2>3 DEF CancelGetJob, CancelBrokerLoad, CancelNotFound, CancelBrokerFails, CancelMark
    <2> QED BY <1>3, <2>1, <2>2, <2>3 DEF ApiStep
  <1>4. ASSUME NEW w \in Slots, CompleteRecorded(w) \/ FailRecorded(w) PROVE Goal
    <2>1. run[w].job \in Jobs
      <3>1. run[w].pc # "idle"
        BY <1>4 DEF CompleteRecorded, FailRecorded, Complete, Fail
      <3> QED BY <3>1, BusyFields DEF WorkflowTypeOK
    <2> QED BY <1>2, <1>4, <2>1 DEF CompleteRecorded, FailRecorded
  <1>5. ASSUME NEW w \in Slots, ResolveStep(w) PROVE UNCHANGED <<submitting, history>>
    BY <1>5 DEF ResolveStep, ListDependents, TakeDependent, ReadDependency,
       ExplainDependent, EnqueueDependent, MarkDependent, ResolveDone, ResolveFails
  <1>6. ASSUME NEW w \in Slots, WorkerPolls(w) \/ StartMarked(w) \/ Persist(w) \/ WorkerCrash(w)
        PROVE  UNCHANGED <<submitting, history>>
    BY <1>6 DEF WorkerPolls, StartMarked, Persist, WorkerCrash
  <1>7. ASSUME NEW B \in SUBSET Jobs, Tick(B) PROVE Goal
    BY <1>2, <1>7 DEF Tick
  <1>8. ASSUME (\E i \in sched.todo : SchedLoad(i)) \/ SchedMark \/ UNCHANGED allVars
               \/ \E j \in Jobs : TimePasses(j)
        PROVE  UNCHANGED <<submitting, history>>
    BY <1>8 DEF SchedLoad, SchedMark, allVars, TimePasses
  <1> HIDE DEF Goal
  <1>9. Goal
    BY <1>1, <1>3, <1>4, <1>5, <1>6, <1>7, <1>8 DEF WorkflowNext, WorkStep, SchedStep
  <1> QED BY <1>9 DEF Goal

-----------------------------------------------------------------------------
\* Every step keeps the types of both stores and of everybody's copies.
LEMMA WorkflowTypeStep ==
  ASSUME WorkflowTypeOK, CopyHeld, [WorkflowNext]_allVars
  PROVE  WorkflowTypeOK' /\ CopyHeld'
  <1>1. TypeOK'
    BY BrokerSide DEF WorkflowTypeOK
  <1>2. RowsTyped' /\ task' \in [Slots -> Tasks] /\ CopyHeld'
    BY RowSide, TaskSide
  <1>3. sched' \in Scheds /\ cancelJob' \in [Jobs -> Cancels]
    BY SchedSide, CancelSide
  <1> QED BY <1>1, <1>2, <1>3, HistorySide DEF WorkflowTypeOK, RowsTyped

\* The types hold at the start.
LEMMA WorkflowTypeInit == WorkflowInit => WorkflowTypeOK /\ CopyHeld
  <1> SUFFICES ASSUME WorkflowInit PROVE WorkflowTypeOK /\ CopyHeld
    OBVIOUS
  <1>1. TypeOK
    BY AnyLaneIsLane DEF WorkflowInit, Init, TypeOK, States, EnvKinds, CancelCalls, NoCall, Runs
  <1>2. NoTask \in Tasks /\ NoTask.pc \notin Working
    BY NoTaskType DEF NoTask, Working
  <1>3. SchedIdle \in Scheds /\ NoCancel \in Cancels /\ NewCol \in Cols /\ NoReason \in Reasons
    BY SimpleReasons DEF SchedIdle, Scheds, NoCancel, Cancels, NewCol, Cols, States
  <1>4. WorkflowTypeOK
    BY <1>1, <1>2, <1>3 DEF WorkflowInit, WorkflowTypeOK, States
  <1>5. CopyHeld
    BY <1>2 DEF WorkflowInit, CopyHeld
  <1> QED BY <1>4, <1>5

\* Both stores and everybody's copies keep their types.
THEOREM WorkflowTypeCorrect == WorkflowSpec => []WorkflowTypeOK
  <1>1. WorkflowTypeOK /\ CopyHeld /\ [WorkflowNext]_allVars => (WorkflowTypeOK /\ CopyHeld)'
    BY WorkflowTypeStep
  <1> QED BY <1>1, WorkflowTypeInit, PTL DEF WorkflowSpec

-----------------------------------------------------------------------------
(* What a step may do to the broker's jobs and to the runs: a terminal     *)
(* state is recorded, and a job gets on its way only if it was already, if *)
(* it has no dependencies, or if a resolver has found it ready.            *)

Aside == {"none", "blocked", "canceled"}
InBroker(j) ==
  \/ state[j] \notin Aside \/ j \in delayed \/ j \in leases
  \/ \E w \in Slots : run[w].pc # "idle" /\ run[w].job = j
FoundReady(j) == \E w \in Slots : task[w].pc = "enqueue" /\ task[w].copy[1] = j

StateTold(j) ==
  /\ state'[j] = "completed" => state[j] = "completed" \/ j \in succeeded'
  /\ state'[j] \in Terminal => state[j] \in Terminal \/ j \in ended'
  /\ InBroker(j)' => InBroker(j) \/ Deps[j] = {} \/ FoundReady(j)
RunTold(w) ==
  \/ run'[w] = run[w]
  \/ run'[w].pc \notin {"completed", "failed"}
  \/ /\ run'[w].job \in ended'
     /\ run'[w].pc = "completed" => run'[w].job \in succeeded'
BrokerTold == (\A j \in Jobs : StateTold(j)) /\ \A w \in Slots : RunTold(w)

\* A run ends or goes on with its job, and the queues stay as they are.
LEMMA ToldRun ==
  ASSUME TypeOK, NEW w \in Slots, NEW r, run' = [run EXCEPT ![w] = r],
         \/ r.pc = "idle"
         \/ run[w].pc # "idle" /\ r.job = run[w].job /\ r.pc \notin {"completed", "failed"},
         UNCHANGED <<state, delayed>>, leases' \subseteq leases \cup {run[w].job},
         leases' # leases => run[w].pc # "idle"
  PROVE  BrokerTold
  <1>1. run'[w] = r /\ \A v \in Slots \ {w} : run'[v] = run[v]
    BY DEF TypeOK
  <1>2. \A v \in Slots : RunTold(v)
    BY <1>1 DEF RunTold
  <1>3. \A j \in Jobs : InBroker(j)' => InBroker(j)
    BY <1>1 DEF InBroker
  <1> QED BY <1>2, <1>3 DEF BrokerTold, StateTold

\* The jobs and the runs stay as they are.
LEMMA ToldQuiet ==
  ASSUME UNCHANGED <<state, delayed, leases, run>>
  PROVE  BrokerTold
  BY DEF BrokerTold, StateTold, RunTold, InBroker

\* The worker's steps that settle nothing.
LEMMA ToldWorker ==
  ASSUME TypeOK, NEW w \in Slots,
         DequeueMiss(w) \/ LoadLeased(w) \/ Start(w) \/ Heartbeat(w) \/ HeartbeatError(w)
           \/ AckRejected(w) \/ Return(w) \/ Crash(w)
  PROVE  BrokerTold
  <1>1. CASE DequeueMiss(w)
    BY <1>1, ToldQuiet DEF DequeueMiss, hashVars
  <1>2. CASE LoadLeased(w)
    <2> DEFINE j == run[w].job
               r == [run[w] EXCEPT !.pc = "loaded", !.attempts = attempts[j], !.lane = lane[j]]
    <2>1. run' = [run EXCEPT ![w] = r] /\ run[w].pc # "idle"
      BY <1>2 DEF LoadLeased
    <2>2. r.pc = "loaded" /\ r.job = run[w].job
      BY <2>1, BusySlot
    <2>3. UNCHANGED <<state, delayed, leases>>
      BY <1>2 DEF LoadLeased, hashVars, listVars
    <2> HIDE DEF r
    <2> QED BY <2>1, <2>2, <2>3, ToldRun
  <1>3. CASE Start(w)
    <2> DEFINE r == [run[w] EXCEPT !.pc = "running", !.beating = TRUE]
    <2>1. run' = [run EXCEPT ![w] = r] /\ run[w].pc # "idle"
      BY <1>3 DEF Start
    <2>2. r.pc = "running" /\ r.job = run[w].job
      BY <2>1, BusySlot
    <2>3. UNCHANGED <<state, delayed, leases>>
      BY <1>3 DEF Start, hashVars, listVars
    <2> HIDE DEF r
    <2> QED BY <2>1, <2>2, <2>3, ToldRun
  <1>4. CASE Heartbeat(w) \/ HeartbeatError(w)
    <2>1. run[w].pc = "running" /\ UNCHANGED <<state, delayed>>
      BY <1>4 DEF Heartbeat, HeartbeatError, hashVars, listVars
    <2>2. CASE run' = run
      <3>1. run' = [run EXCEPT ![w] = run[w]] /\ leases' \subseteq leases \cup {run[w].job}
        BY <1>4, <2>2 DEF Heartbeat, HeartbeatError, Lease, listVars, TypeOK
      <3> QED BY <2>1, <3>1, ToldRun
    <2>3. CASE run' = [run EXCEPT ![w] = [@ EXCEPT !.beating = FALSE]] /\ leases' = leases
      <3> DEFINE r == [run[w] EXCEPT !.beating = FALSE]
      <3>1. run' = [run EXCEPT ![w] = r]
        BY <2>3
      <3>2. r.pc = "running" /\ r.job = run[w].job
        BY <2>1, BusySlot
      <3> HIDE DEF r
      <3> QED BY <2>1, <2>3, <3>1, <3>2, ToldRun
    <2> QED BY <1>4, <2>2, <2>3 DEF Heartbeat, HeartbeatError, listVars
  <1>5. CASE AckRejected(w) \/ Return(w) \/ Crash(w)
    <2>1. run' = [run EXCEPT ![w] = Idle] /\ UNCHANGED <<state, delayed, leases>>
      BY <1>5 DEF AckRejected, Return, Crash, Abandon, hashVars, listVars
    <2>2. Idle.pc = "idle"
      BY DEF Idle
    <2> QED BY <2>1, <2>2, ToldRun
  <1> QED BY <1>1, <1>2, <1>3, <1>4, <1>5

\* A grant is of a job that was in a leasable state.
LEMMA ToldGrant ==
  ASSUME TypeOK, NEW w \in Slots, NEW j \in Jobs, DequeueGrant(w, j)
  PROVE  BrokerTold
  <1>1. /\ state[j] \in Leasable /\ state' = [state EXCEPT ![j] = "active"]
        /\ leases' = leases \cup {j} /\ delayed' = delayed
        /\ run' = [run EXCEPT ![w] = Granted(j)]
    BY DEF DequeueGrant, Lease
  <1>2. /\ run'[w].pc = "granted" /\ run'[w].job = j
        /\ \A v \in Slots \ {w} : run'[v] = run[v]
    BY <1>1 DEF TypeOK, Granted
  <1>3. \A v \in Slots : RunTold(v)
    BY <1>2 DEF RunTold
  <1>4. InBroker(j) /\ state'[j] = "active" /\ \A i \in Jobs \ {j} : state'[i] = state[i]
    BY <1>1 DEF TypeOK, InBroker, Leasable, Aside
  <1>5. \A i \in Jobs : InBroker(i)' => InBroker(i)
    BY <1>1, <1>2, <1>4 DEF InBroker
  <1> QED BY <1>3, <1>4, <1>5 DEF BrokerTold, StateTold, Terminal

\* An accepted outcome is recorded if it is final.
LEMMA ToldSettle ==
  ASSUME TypeOK, NEW w \in Slots, NEW s \in Acked, run[w].pc # "idle", Settle(w, s),
         delayed' \subseteq delayed \cup {run[w].job},
         s \in Terminal => run[w].job \in ended',
         s = "completed" => run[w].job \in succeeded'
  PROVE  BrokerTold
  <1> DEFINE j == run[w].job
  <1>1. j \in Jobs
    BY BusyFields
  <1>2. /\ state' = [state EXCEPT ![j] = s] /\ leases' \subseteq leases
        /\ run' = [run EXCEPT ![w] = [@ EXCEPT !.pc = s, !.beating = FALSE]]
    BY DEF Settle, EndLeases
  <1>3. /\ run'[w].pc = s /\ run'[w].job = j
        /\ \A v \in Slots \ {w} : run'[v] = run[v]
    <2>1. run'[w] = [run[w] EXCEPT !.pc = s, !.beating = FALSE]
      BY <1>2 DEF TypeOK
    <2>2. run'[w].pc = s /\ run'[w].job = j
      BY <2>1, BusySlot
    <2> QED BY <1>2, <2>2 DEF TypeOK
  <1>4. \A v \in Slots : RunTold(v)
    BY <1>3 DEF RunTold, Terminal
  <1>5. InBroker(j) /\ state'[j] = s /\ \A i \in Jobs \ {j} : state'[i] = state[i]
    BY <1>1, <1>2 DEF TypeOK, InBroker
  <1>6. \A i \in Jobs : InBroker(i)' => InBroker(i)
    BY <1>2, <1>3, <1>5 DEF InBroker
  <1> QED BY <1>4, <1>5, <1>6 DEF BrokerTold, StateTold

\* The scheduler's scripts move jobs that were delayed or leased.
LEMMA ToldTick ==
  ASSUME TypeOK, NEW B \in SUBSET Jobs, Tick(B)
  PROVE  BrokerTold
  <1>1. run' = run /\ \A j \in Jobs : state'[j] \in Terminal => j \in ended'
    BY DEF Tick, ActivateDue, RecoverExpired, RecordEnds
  <1>2. /\ B \subseteq delayed \/ B \subseteq leases
        /\ \A j \in Jobs \ B : state'[j] = state[j]
        /\ delayed' \subseteq delayed \cup B /\ leases' \subseteq leases
        /\ \A j \in B : state'[j] # "completed"
    BY DEF Tick, ActivateDue, RecoverExpired, EndLeases, Delay, TypeOK, RecoveryState
  <1>3. \A j \in Jobs : InBroker(j)' => InBroker(j)
    BY <1>1, <1>2 DEF InBroker
  <1> QED BY <1>1, <1>2, <1>3 DEF BrokerTold, StateTold, RunTold

\* A hash is written: a job without dependencies, a blocked one, or one a
\* resolver has found ready.
LEMMA ToldHash ==
  ASSUME TypeOK, NEW j \in Jobs, NEW l, NEW h,
         \/ WriteHash(j, l, "blocked", h)
         \/ WriteHash(j, l, "queued", h) /\ (Deps[j] = {} \/ FoundReady(j))
  PROVE  BrokerTold
  <1>1. PICK s \in {"blocked", "queued"} :
          /\ state' = [state EXCEPT ![j] = s] /\ UNCHANGED <<delayed, leases, run>>
          /\ s = "queued" => Deps[j] = {} \/ FoundReady(j)
    BY DEF WriteHash
  <1>2. state'[j] = s /\ \A i \in Jobs \ {j} : state'[i] = state[i]
    BY <1>1 DEF TypeOK
  <1>3. \A i \in Jobs : InBroker(i)' => InBroker(i) \/ Deps[i] = {} \/ FoundReady(i)
    BY <1>1, <1>2 DEF InBroker, Aside
  <1> QED BY <1>1, <1>2, <1>3 DEF BrokerTold, StateTold, RunTold, Terminal

\* A cancellation takes a job out of the queues or leaves it.
LEMMA ToldCancel ==
  ASSUME TypeOK, NEW j \in Jobs, CancelBrokerApply(j)
  PROVE  BrokerTold
  <1>1. /\ run' = run /\ leases' = leases /\ delayed' \subseteq delayed
        /\ state' = state \/ state' = [state EXCEPT ![j] = "canceled"]
        /\ \A i \in Jobs : state'[i] \in Terminal => i \in ended'
    BY DEF CancelBrokerApply, CancelApply, RecordEnds
  <1>2. \A i \in Jobs : state'[i] = state[i] \/ state'[i] = "canceled"
    BY <1>1 DEF TypeOK
  <1>3. \A i \in Jobs : InBroker(i)' => InBroker(i)
    BY <1>1, <1>2 DEF InBroker, Aside
  <1> QED BY <1>1, <1>2, <1>3 DEF BrokerTold, StateTold, RunTold

\* Every step.
LEMMA BrokerMoves ==
  ASSUME WorkflowTypeOK, CopyHeld, [WorkflowNext]_allVars
  PROVE  BrokerTold
  <1>0. TypeOK
    BY DEF WorkflowTypeOK
  <1>1. ASSUME NEW j \in Jobs, TimePasses(j) \/ CreateJobBundle(j) \/ SubmitFails(j)
                 \/ CancelGetJob(j) \/ CancelBrokerLoad(j) \/ CancelNotFound(j)
                 \/ CancelBrokerFails(j) \/ CancelMark(j)
        PROVE  BrokerTold
    <2>1. UNCHANGED <<state, delayed, leases, run>>
      BY <1>1 DEF TimePasses, ComesDue, LeaseLapses, CreateJobBundle, SubmitFails,
         CancelGetJob, CancelBrokerLoad, CancelLoad, CancelNotFound, CancelBrokerFails,
         CancelMark, brokerVars, vars, hashVars, listVars
    <2> QED BY <2>1, ToldQuiet
  <1>2. ASSUME NEW j \in Jobs, SubmitToBroker(j) PROVE BrokerTold
    <2>1. PICK l \in Lanes : PutJob(j, l, FirstState(j), FALSE)
      BY <1>2 DEF SubmitToBroker
    <2>2. CASE Deps[j] = {}
      BY <1>0, <2>1, <2>2, ToldHash DEF PutJob, FirstState
    <2>3. CASE Deps[j] # {}
      BY <1>0, <2>1, <2>3, ToldHash DEF PutJob, FirstState
    <2> QED BY <2>2, <2>3
  <1>3. ASSUME NEW j \in Jobs, CancelBrokerApply(j) PROVE BrokerTold
    BY <1>0, <1>3, ToldCancel
  <1>4. ASSUME NEW w \in Slots, CompleteRecorded(w) \/ FailRecorded(w)
        PROVE  BrokerTold
    <2>1. run[w].pc # "idle" /\ run[w].job \in Jobs
      BY <1>0, <1>4, BusyFields DEF CompleteRecorded, FailRecorded, Complete, Fail
    <2>2. \A i \in Jobs : state'[i] \in Terminal => i \in ended'
      BY <1>4 DEF CompleteRecorded, FailRecorded, RecordEnds
    <2>3. PICK s \in Acked : /\ Settle(w, s) /\ delayed' \subseteq delayed \cup {run[w].job}
                             /\ s = "completed" => run[w].job \in succeeded'
      BY <1>4 DEF CompleteRecorded, FailRecorded, Complete, Fail, Acked, Delay
    <2>4. state'[run[w].job] = s
      BY <1>0, <2>1, <2>3 DEF Settle, TypeOK
    <2> QED BY <1>0, <2>1, <2>2, <2>3, <2>4, ToldSettle
  <1>5. ASSUME NEW w \in Slots, WorkerPolls(w) PROVE BrokerTold
    <2>1. CASE Throttle(w)
      <3>1. /\ run[w].pc # "idle" /\ Settle(w, "throttled") /\ "throttled" \in Acked
            /\ delayed' = delayed \cup {run[w].job} /\ "throttled" \notin Terminal
        BY <2>1 DEF Throttle, Delay, Acked, Terminal
      <3> QED BY <1>0, <3>1, ToldSettle
    <2> QED BY <1>0, <1>5, <2>1, ToldGrant, ToldWorker DEF WorkerPolls
  <1>6. ASSUME NEW w \in Slots, StartMarked(w) \/ ResolveDone(w) \/ WorkerCrash(w)
        PROVE  BrokerTold
    BY <1>0, <1>6, ToldWorker DEF StartMarked, ResolveDone, WorkerCrash
  <1>7. ASSUME UNCHANGED vars PROVE BrokerTold
    BY <1>7, ToldQuiet DEF vars, hashVars, listVars
  <1>8. ASSUME NEW w \in Slots, Persist(w) \/ ResolveFails(w) PROVE BrokerTold
    BY <1>0, <1>7, <1>8, ToldWorker DEF Persist, ResolveFails
  <1>9. ASSUME NEW w \in Slots, ListDependents(w) \/ TakeDependent(w) \/ ReadDependency(w)
                                 \/ ExplainDependent(w) \/ MarkDependent(w)
        PROVE  BrokerTold
    BY <1>7, <1>9 DEF ListDependents, TakeDependent, ReadDependency, ExplainDependent, MarkDependent
  <1>10. ASSUME NEW w \in Slots, EnqueueDependent(w) PROVE BrokerTold
    <2> DEFINE d == task[w].copy[1]
    <2>1. task[w].pc = "enqueue" /\ \E l \in Lanes : \E h : WriteHash(d, l, "queued", h)
      BY <1>10 DEF EnqueueDependent
    <2>2. d \in Jobs
      BY <2>1, CopyType DEF CopyHeld, Working
    <2>3. FoundReady(d)
      BY <2>1 DEF FoundReady
    <2> HIDE DEF d
    <2> QED BY <1>0, <2>1, <2>2, <2>3, ToldHash
  <1>11. CASE SchedStep
    BY <1>0, <1>7, <1>11, ToldTick DEF SchedStep, SchedLoad, SchedMark
  <1>12. CASE UNCHANGED allVars
    BY <1>7, <1>12 DEF allVars
  <1> QED BY <1>1, <1>2, <1>3, <1>4, <1>5, <1>6, <1>8, <1>9, <1>10, <1>11, <1>12
          DEF WorkflowNext, ApiStep, WorkStep, ResolveStep

-----------------------------------------------------------------------------
(* Rows lag behind the broker, and a row is a copy of a copy: of what a    *)
(* worker's broker call returned, of what the scheduler loaded, of what    *)
(* CancelJob read from the row before.  None of them says completed of a   *)
(* job the broker has not accepted a result of.                            *)

SaysCompleted(j) ==
  \/ db[j] = "completed" \/ state[j] = "completed" \/ cancelJob[j].seen = "completed"
  \/ sched.seen = "completed" /\ sched.item[1] = j
  \/ \E w \in Slots : run[w].pc = "completed" /\ run[w].job = j
CompletedIsTrue == \A j \in Jobs : SaysCompleted(j) => j \in succeeded

\* The same for the other terminal states.  CancelJob writes canceled into the
\* row of a job that may still be running, so rows count only without it.
SaysEnded(j) ==
  \/ state[j] \in Terminal
  \/ NoCancels /\ db[j] \in Terminal
  \/ sched.seen \in Terminal /\ sched.item[1] = j
  \/ \E w \in Slots : run[w].pc \in {"completed", "failed"} /\ run[w].job = j
EndedIsTrue ==
  /\ \A j \in Jobs : SaysEnded(j) => j \in ended
  /\ NoCancels => \A j \in Jobs : cancelJob[j].pc = "none"

\* A job on its way has been released: its dependencies have succeeded or, with
\* policy allow_failed and without cancellations, ended; and what a resolver
\* has read so far holds good until it has read the rest.
Met(d) == IF d \in AllowFailed THEN ended ELSE succeeded
Counts(d) == d \notin AllowFailed \/ NoCancels
Released(d) == Counts(d) => Deps[d] \subseteq Met(d)
ReadIsMet(w) ==
  task[w].pc = "read" /\ task[w].satisfied /\ Counts(task[w].copy[1])
    => Deps[task[w].copy[1]] \ task[w].left \subseteq Met(task[w].copy[1])
ReleasedInv ==
  /\ \A d \in Jobs : InBroker(d) \/ FoundReady(d) => Released(d)
  /\ \A w \in Slots : ReadIsMet(w)

WorkflowInv ==
  /\ WorkflowTypeOK /\ CopyHeld
  /\ CompletedIsTrue /\ EndedIsTrue /\ ReleasedInv

\* Nobody begins to say completed before the broker has accepted a result.
LEMMA CompletedStep ==
  ASSUME WorkflowInv, [WorkflowNext]_allVars
  PROVE  CompletedIsTrue'
  <1>0. WorkflowTypeOK /\ CopyHeld
    BY DEF WorkflowInv
  <1>1. /\ \A j \in Jobs : RowSource(j) /\ CancelSource(j) /\ StateTold(j)
        /\ \A w \in Slots : RunTold(w)
        /\ SchedSource /\ succeeded \subseteq succeeded'
    BY <1>0, RowSide, CancelSide, SchedSide, BrokerMoves, HistorySide DEF BrokerTold
  <1> SUFFICES ASSUME NEW j \in Jobs, SaysCompleted(j)'
               PROVE  SaysCompleted(j) \/ j \in succeeded'
    BY <1>1 DEF WorkflowInv, CompletedIsTrue
  <1>2. CASE db'[j] = "completed"
    BY <1>1, <1>2 DEF RowSource, SaysCompleted
  <1>3. CASE state'[j] = "completed"
    BY <1>1, <1>3 DEF StateTold, SaysCompleted
  <1>4. CASE cancelJob'[j].seen = "completed"
    BY <1>1, <1>4 DEF CancelSource, SaysCompleted
  <1>5. CASE sched'.seen = "completed" /\ sched'.item[1] = j
    BY <1>1, <1>5 DEF SchedSource, SaysCompleted
  <1>6. ASSUME NEW w \in Slots, run'[w].pc = "completed", run'[w].job = j
        PROVE  SaysCompleted(j) \/ j \in succeeded'
    BY <1>1, <1>6 DEF RunTold, SaysCompleted
  <1> QED BY <1>2, <1>3, <1>4, <1>5, <1>6 DEF SaysCompleted

\* Nobody begins to say that a job has ended before it has.
LEMMA EndedStep ==
  ASSUME WorkflowInv, [WorkflowNext]_allVars
  PROVE  EndedIsTrue'
  <1>0. WorkflowTypeOK /\ CopyHeld
    BY DEF WorkflowInv
  <1>1. /\ \A j \in Jobs : RowSource(j) /\ CancelSource(j) /\ StateTold(j)
        /\ \A w \in Slots : RunTold(w)
        /\ SchedSource /\ ended \subseteq ended'
    BY <1>0, RowSide, CancelSide, SchedSide, BrokerMoves, HistorySide DEF BrokerTold
  <1>2. NoCancels => \A j \in Jobs : cancelJob'[j].pc = "none"
    BY <1>1 DEF WorkflowInv, EndedIsTrue, CancelSource
  <1>3. NoCancels => \A j \in Jobs : cancelJob[j].pc = "none"
    BY DEF WorkflowInv, EndedIsTrue
  <1>4. ASSUME NEW j \in Jobs, SaysEnded(j)' PROVE SaysEnded(j) \/ j \in ended'
    <2>1. CASE NoCancels /\ db'[j] \in Terminal
      BY <1>1, <1>3, <2>1 DEF RowSource, SaysEnded, Terminal, Acked
    <2>2. CASE state'[j] \in Terminal
      BY <1>1, <2>2 DEF StateTold, SaysEnded
    <2>3. CASE sched'.seen \in Terminal /\ sched'.item[1] = j
      BY <1>1, <2>3 DEF SchedSource, SaysEnded, Terminal
    <2>4. ASSUME NEW w \in Slots, run'[w].pc \in {"completed", "failed"}, run'[w].job = j
          PROVE  SaysEnded(j) \/ j \in ended'
      BY <1>1, <2>4 DEF RunTold, SaysEnded
    <2> QED BY <1>4, <2>1, <2>2, <2>3, <2>4 DEF SaysEnded
  <1> QED BY <1>1, <1>2, <1>4 DEF WorkflowInv, EndedIsTrue

\* dependencyReadiness counts a dependency only if it is met.
LEMMA VerdictIsMet ==
  ASSUME WorkflowInv, NEW d, NEW x \in Jobs, Counts(d), Verdict(d, x) = "met"
  PROVE  x \in Met(d)
  <1>1. db[x] \in Terminal /\ (d \notin AllowFailed => db[x] = "completed")
    BY DEF Verdict, Terminal
  <1>2. db[x] = "completed" => x \in succeeded
    BY DEF WorkflowInv, CompletedIsTrue, SaysCompleted
  <1>3. NoCancels => x \in ended
    BY <1>1 DEF WorkflowInv, EndedIsTrue, SaysEnded
  <1> QED BY <1>1, <1>2, <1>3 DEF Met, Counts

\* No job gets on its way before it is released.
LEMMA ReleasedStep ==
  ASSUME WorkflowInv, [WorkflowNext]_allVars
  PROVE  ReleasedInv'
  <1>0. WorkflowTypeOK /\ CopyHeld
    BY DEF WorkflowInv
  <1>1. /\ \A j \in Jobs : StateTold(j)
        /\ \A w \in Slots : TaskMoves(w)
        /\ succeeded \subseteq succeeded' /\ ended \subseteq ended' /\ CopyHeld'
    BY <1>0, TaskSide, BrokerMoves, HistorySide DEF BrokerTold
  <1>2. \A d : Met(d) \subseteq Met(d)'
    BY <1>1 DEF Met
  <1>3. \A d \in Jobs : Released(d) => Released(d)'
    BY <1>2 DEF Released
  <1>4. ASSUME NEW w \in Slots, task[w].pc = "read", NEW x \in task[w].left,
               task[w].satisfied, Verdict(task[w].copy[1], x) = "met",
               Counts(task[w].copy[1])
        PROVE  Deps[task[w].copy[1]] \ (task[w].left \ {x}) \subseteq Met(task[w].copy[1])
    <2>1. x \in Jobs
      <3>1. task[w] \in Tasks
        BY <1>0 DEF WorkflowTypeOK
      <3> QED BY <3>1 DEF Tasks
    <2>2. x \in Met(task[w].copy[1])
      BY <1>4, <2>1, VerdictIsMet
    <2>3. ReadIsMet(w)
      BY DEF WorkflowInv, ReleasedInv
    <2> QED BY <1>4, <2>2, <2>3 DEF ReadIsMet
  <1>5. ASSUME NEW w \in Slots PROVE ReadIsMet(w)'
    <2> SUFFICES ASSUME NEW d, d = task'[w].copy[1], Counts(d),
                        task'[w].pc = "read", task'[w].satisfied
                 PROVE  Deps[d] \ task'[w].left
                          \subseteq IF d \in AllowFailed THEN ended' ELSE succeeded'
      BY Zenon DEF ReadIsMet, Counts, Met
    <2>0. Met(d) \subseteq IF d \in AllowFailed THEN ended' ELSE succeeded'
      BY <1>1 DEF Met
    <2>1. CASE task'[w] = task[w]
      <3>1. ReadIsMet(w)
        BY DEF WorkflowInv, ReleasedInv
      <3>2. Deps[d] \ task'[w].left \subseteq Met(d)
        BY <2>1, <3>1, Zenon DEF ReadIsMet
      <3> QED BY <2>0, <3>2
    <2>2. CASE task'[w].left = Deps[task'[w].copy[1]]
      BY <2>2
    <2>3. CASE /\ task[w].pc = "read" /\ task'[w].copy = task[w].copy
               /\ \E x \in task[w].left :
                    /\ task'[w].left = task[w].left \ {x}
                    /\ task[w].satisfied /\ Verdict(task[w].copy[1], x) = "met"
      <3>1. PICK x \in task[w].left :
              /\ task'[w].left = task[w].left \ {x}
              /\ task[w].satisfied /\ Verdict(task[w].copy[1], x) = "met"
        BY <2>3
      <3>2. task[w].copy[1] = d /\ task[w].pc = "read"
        BY <2>3
      <3>3. Deps[d] \ (task[w].left \ {x}) \subseteq Met(d)
        BY <1>4, <3>1, <3>2, Zenon
      <3> QED BY <2>0, <3>1, <3>3
    <2>4. TaskMoves(w)
      BY <1>1
    <2> QED BY <2>1, <2>2, <2>3, <2>4, Zenon DEF TaskMoves
  <1>6. ASSUME NEW d \in Jobs, FoundReady(d)' PROVE Released(d)'
    <2>1. PICK w \in Slots : task'[w].pc = "enqueue" /\ task'[w].copy[1] = d
      BY <1>6 DEF FoundReady
    <2>2. CASE task'[w] = task[w]
      <3>1. FoundReady(d)
        BY <2>1, <2>2 DEF FoundReady
      <3> QED BY <1>3, <3>1 DEF WorkflowInv, ReleasedInv
    <2>3. CASE /\ task[w].pc = "read" /\ task'[w].copy = task[w].copy
               /\ \E x \in task[w].left : /\ task[w].left = {x} /\ task[w].satisfied
                                          /\ Verdict(task[w].copy[1], x) = "met"
      <3>1. Released(d)
        BY <1>4, <2>1, <2>3 DEF Released
      <3> QED BY <1>3, <3>1
    <2> QED BY <1>1, <2>1, <2>2, <2>3 DEF TaskMoves
  <1>7. ASSUME NEW d \in Jobs, InBroker(d)' PROVE Released(d)'
    <2>1. InBroker(d) \/ FoundReady(d) => Released(d)
      BY DEF WorkflowInv, ReleasedInv
    <2>2. Deps[d] = {} => Released(d)
      BY DEF Released
    <2> QED BY <1>1, <1>3, <1>7, <2>1, <2>2 DEF StateTold
  <1> QED BY <1>5, <1>6, <1>7 DEF ReleasedInv

-----------------------------------------------------------------------------
\* Nobody says anything at the start.
LEMMA WorkflowInitially == WorkflowInit => WorkflowInv
  <1> SUFFICES ASSUME WorkflowInit PROVE WorkflowInv
    OBVIOUS
  <1>1. /\ \A j \in Jobs : /\ db[j] = "none" /\ state[j] = "none"
                           /\ cancelJob[j].seen = "none" /\ cancelJob[j].pc = "none"
        /\ sched.seen = "none" /\ delayed = {} /\ leases = {}
        /\ \A w \in Slots : run[w].pc = "idle" /\ task[w].pc = "none"
    BY DEF WorkflowInit, Init, NoCancel, SchedIdle, NoTask, Idle
  <1>2. CompletedIsTrue /\ EndedIsTrue
    BY <1>1 DEF CompletedIsTrue, SaysCompleted, EndedIsTrue, SaysEnded, Terminal
  <1>3. ReleasedInv
    BY <1>1 DEF ReleasedInv, InBroker, FoundReady, ReadIsMet, Aside
  <1> QED BY <1>2, <1>3, WorkflowTypeInit DEF WorkflowInv

\* The strengthened invariant of the two stores.
THEOREM WorkflowInvariant == WorkflowSpec => []WorkflowInv
  <1>1. WorkflowInv /\ [WorkflowNext]_allVars => WorkflowInv'
    <2> SUFFICES ASSUME WorkflowInv, [WorkflowNext]_allVars PROVE WorkflowInv'
      OBVIOUS
    <2>1. WorkflowTypeOK' /\ CopyHeld'
      BY WorkflowTypeStep DEF WorkflowInv
    <2> QED BY <2>1, CompletedStep, EndedStep, ReleasedStep DEF WorkflowInv
  <1> QED BY <1>1, WorkflowInitially, PTL DEF WorkflowSpec

\* A row says completed only of a job whose result the broker accepted,
\* whoever wrote the row last and however late.
THEOREM CompletedRowsAreTrue == WorkflowSpec => []CompletedRowIsTrue
  <1>1. WorkflowInv => CompletedRowIsTrue
    BY DEF WorkflowInv, CompletedIsTrue, SaysCompleted, CompletedRowIsTrue
  <1> QED BY <1>1, WorkflowInvariant, PTL

\* A worker holds a dependent with policy block only after every one of its
\* dependencies has really completed, under any crashes, lost leases, failing
\* store calls and cancellations.
THEOREM DependentsWaitForSuccess == WorkflowSpec => []BlockedUntilSuccess
  <1>1. WorkflowInv => BlockedUntilSuccess
    <2> SUFFICES ASSUME WorkflowInv, NEW w \in Slots, run[w].pc # "idle",
                        run[w].job \notin AllowFailed
                 PROVE  Deps[run[w].job] \subseteq succeeded
      BY DEF BlockedUntilSuccess
    <2>1. run[w].job \in Jobs
      BY BusyFields DEF WorkflowInv, WorkflowTypeOK
    <2>2. Released(run[w].job)
      BY <2>1 DEF WorkflowInv, ReleasedInv, InBroker
    <2> QED BY <2>2 DEF Released, Counts, Met
  <1> QED BY <1>1, WorkflowInvariant, PTL

\* Without cancellations a worker holds a dependent with policy allow_failed
\* only after every one of its dependencies has ended, under any crashes, lost
\* leases and failing store calls.
THEOREM AllowFailedWaitsForEnds ==
  ASSUME NoCancels
  PROVE  WorkflowSpec => []AllowFailedWaits
  <1>1. WorkflowInv => AllowFailedWaits
    <2> SUFFICES ASSUME WorkflowInv, NEW w \in Slots, run[w].pc # "idle",
                        run[w].job \in AllowFailed
                 PROVE  Deps[run[w].job] \subseteq ended
      BY DEF AllowFailedWaits
    <2>1. run[w].job \in Jobs
      BY BusyFields DEF WorkflowInv, WorkflowTypeOK
    <2>2. Released(run[w].job)
      BY <2>1 DEF WorkflowInv, ReleasedInv, InBroker
    <2> QED BY <2>2 DEF Released, Counts, Met
  <1> QED BY <1>1, WorkflowInvariant, PTL
=============================================================================
