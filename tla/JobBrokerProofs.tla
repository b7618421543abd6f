--------------------------- MODULE JobBrokerProofs ---------------------------
(***************************************************************************)
(* Proofs about JobBroker for any number of jobs, worker slots, queues and *)
(* priorities, and any budget of crashes, throttles and operator calls.    *)
(***************************************************************************)
EXTENDS JobBroker, TLAPS

\* There is a ready list: some queue and some priority exist.
LEMMA AnyLaneIsLane == AnyLane \in Lanes
  <1>1. PICK q \in Queues, p \in Priorities : TRUE
    BY LanesAssumption
  <1>2. <<q, p>> \in Lanes
    BY DEF Lanes
  <1> QED BY <1>2 DEF AnyLane

\* The first part of a lane is its queue, the key of a dead-letter list.
LEMMA LaneQueue == \A l \in Lanes : l[1] \in Queues
  BY DEF Lanes

\* A slot that is not idle has a job and a token.
LEMMA BusySlot ==
  ASSUME TypeOK, NEW w \in Slots, run[w].pc # "idle"
  PROVE  run[w] \in [pc : Stages, job : Jobs, token : Nat \ {0},
                     attempts : Nat, lane : Lanes, beating : BOOLEAN]
  BY DEF TypeOK, Runs, Idle

\* LPUSH keeps the occurrence counts well formed and adds one.
LEMMA LPushType ==
  ASSUME ready \in [Lanes -> [Jobs -> Nat]], NEW l \in Lanes, NEW j \in Jobs
  PROVE  /\ LPush(l, j) \in [Lanes -> [Jobs -> Nat]]
         /\ LPush(l, j)[l][j] > 0
         /\ \A m \in Lanes, i \in Jobs : LPush(l, j)[m][i] >= ready[m][i]
         /\ \A m \in Lanes, i \in Jobs :
              m # l \/ i # j => LPush(l, j)[m][i] = ready[m][i]
  BY DEF LPush

\* LREM keeps the occurrence counts well formed and touches one id.
LEMMA LRemType ==
  ASSUME ready \in [Lanes -> [Jobs -> Nat]], NEW l \in Lanes, NEW j \in Jobs
  PROVE  /\ LRem(l, j) \in [Lanes -> [Jobs -> Nat]]
         /\ \A m \in Lanes, i \in Jobs :
              i # j => LRem(l, j)[m][i] = ready[m][i]
  BY DEF LRem

\* What Enqueue's pipeline leaves in the hash and the queues.
LEMMA PutJobType ==
  ASSUME TypeOK, NEW j \in Jobs, NEW l \in Lanes,
         NEW s \in {"queued", "scheduled", "blocked"}, NEW c \in BOOLEAN,
         PutJob(j, l, s, c)
  PROVE  /\ state' \in [Jobs -> States]
         /\ attempts' \in [Jobs -> Nat]
         /\ token' \in [Jobs -> Nat]
         /\ cancelReq' \in [Jobs -> BOOLEAN]
         /\ lane' \in [Jobs -> Lanes]
         /\ ready' \in [Lanes -> [Jobs -> Nat]]
         /\ delayed' \subseteq Jobs /\ due' \subseteq delayed'
  <1>1. ready' \in [Lanes -> [Jobs -> Nat]]
    BY LPushType DEF PutJob, WriteHash, TypeOK
  <1>2. delayed' \subseteq Jobs /\ due' \subseteq delayed'
    BY DEF PutJob, WriteHash, TypeOK, Delay
  <1> QED BY <1>1, <1>2 DEF PutJob, WriteHash, TypeOK, States, JobStates

\* The ids a scan may pop are in their lists, so taking them out leaves a
\* proper count.
LEMMA PopsType ==
  ASSUME ready \in [Lanes -> [Jobs -> Nat]],
         NEW n, NEW pop \in [Lanes -> Jobs \cup {NoJob}], Scanned(pop, n)
  PROVE  AfterPops(pop) \in [Lanes -> [Jobs -> Nat]]
  <1>1. \A l \in Lanes, j \in Jobs : pop[l] = j => ready[l][j] > 0
    BY JobsAssumption DEF Scanned
  <1>2. \A l \in Lanes, j \in Jobs :
          (IF pop[l] = j THEN ready[l][j] - 1 ELSE ready[l][j]) \in Nat
    BY <1>1
  <1> QED BY <1>2 DEF AfterPops

\* The type invariant is inductive on its own.
LEMMA TypeStep == TypeOK /\ [Next]_vars => TypeOK'
  <1> USE AnyLaneIsLane
  <1> SUFFICES ASSUME TypeOK, [Next]_vars PROVE TypeOK'
    OBVIOUS
  <1>1. ASSUME NEW j \in Jobs, TimeStep(j) PROVE TypeOK'
    BY <1>1 DEF TypeOK, TimeStep, ComesDue, LeaseLapses, hashVars
  <1>2. ASSUME NEW j \in Jobs, NEW l \in Lanes, Enqueue(j, l) PROVE TypeOK'
    <2>1. PICK s \in {"queued", "scheduled", "blocked"} : PutJob(j, l, s, FALSE)
      BY <1>2 DEF Enqueue
    <2>2. rows' \in {rows, rows \cup {<<j, l>>}} /\ spent' = spent
      BY <1>2 DEF Enqueue
    <2>3. rows' \subseteq Jobs \X Lanes
      BY <2>2 DEF TypeOK
    <2> QED BY <2>1, <2>2, <2>3, PutJobType DEF TypeOK, PutJob, WriteHash
  <1>3. ASSUME NEW j \in Jobs, Unblock(j) PROVE TypeOK'
    <2>1. PICK l \in Lanes, s \in {"queued", "scheduled"}, c \in BOOLEAN :
            PutJob(j, l, s, c)
      BY <1>3 DEF Unblock, CopiedCancel
    <2>3. spent' \in [EnvKinds -> Nat] /\ rows' = rows
      BY <1>3 DEF Unblock, Spend, TypeOK, EnvKinds
    <2>4. s \in {"queued", "scheduled", "blocked"}
      OBVIOUS
    <2> QED BY <2>1, <2>3, <2>4, PutJobType DEF TypeOK, PutJob, WriteHash
  <1>4. ASSUME NEW j \in Jobs, NEW l \in Lanes, Retry(j, l) PROVE TypeOK'
    <2>1. l[1] \in Queues
      BY LaneQueue
    <2>2. ready' \in [Lanes -> [Jobs -> Nat]]
      BY <1>4, LPushType DEF Retry, TypeOK
    <2>3. spent' \in [EnvKinds -> Nat]
      BY <1>4 DEF Retry, Spend, TypeOK, EnvKinds
    <2> QED BY <1>4, <2>1, <2>2, <2>3 DEF TypeOK, Retry, States, JobStates
  <1>5. ASSUME NEW j \in Jobs, CancelLoad(j) PROVE TypeOK'
    BY <1>5 DEF TypeOK, CancelLoad, CancelCalls, Spend, EnvKinds, hashVars, listVars
  <1>6. ASSUME NEW j \in Jobs, CancelApply(j) PROVE TypeOK'
    <2>1. cancelCall[j].lane \in Lanes /\ cancelCall[j].lane[1] \in Queues
      BY DEF TypeOK, CancelCalls, Lanes
    <2>2. ready' \in [Lanes -> [Jobs -> Nat]]
      <3>1. ready' = ready \/ ready' = LRem(cancelCall[j].lane, j)
        BY <1>6 DEF CancelApply
      <3> QED BY <2>1, <3>1, LRemType DEF TypeOK
    <2>3. dlq' \in [Queues -> SUBSET Jobs]
      <3>1. \/ dlq' = dlq
            \/ dlq' = [dlq EXCEPT ![cancelCall[j].lane[1]] = @ \ {j}]
        BY <1>6 DEF CancelApply
      <3> QED BY <2>1, <3>1 DEF TypeOK
    <2>4. NoCall \in CancelCalls
      BY DEF NoCall, CancelCalls, States
    <2> QED BY <1>6, <2>2, <2>3, <2>4 DEF TypeOK, CancelApply, States, JobStates
  <1>7. ASSUME NEW w \in Slots, NEW j \in Jobs, DequeueGrant(w, j) PROVE TypeOK'
    <2>1. ready' \in [Lanes -> [Jobs -> Nat]]
      BY <1>7, PopsType DEF TypeOK, DequeueGrant
    <2>2. Granted(j) \in Runs
      BY DEF TypeOK, Granted, Runs, Stages
    <2>3. /\ state' \in [Jobs -> States] /\ run' \in [Slots -> Runs]
          /\ attempts' \in [Jobs -> Nat] /\ grants' \in [Jobs -> Nat]
          /\ token' \in [Jobs -> Nat]
          /\ leases' \subseteq Jobs /\ expired' \subseteq leases'
          /\ UNCHANGED <<cancelReq, lane, delayed, due, dlq, rows, cancelCall, spent>>
      BY <1>7, <2>2 DEF TypeOK, DequeueGrant, Lease, States, JobStates
    <2> QED BY <2>1, <2>3 DEF TypeOK
  <1>8. ASSUME NEW w \in Slots, DequeueMiss(w) PROVE TypeOK'
    <2>1. ready' \in [Lanes -> [Jobs -> Nat]]
      BY <1>8, PopsType DEF TypeOK, DequeueMiss
    <2> QED BY <1>8, <2>1 DEF TypeOK, DequeueMiss, hashVars
  <1>9. ASSUME NEW w \in Slots, LoadLeased(w) \/ Start(w) PROVE TypeOK'
    <2> DEFINE Busy == [pc : Stages, job : Jobs, token : Nat \ {0},
                        attempts : Nat, lane : Lanes, beating : BOOLEAN]
    <2>1. run[w] \in Busy
      BY <1>9, BusySlot DEF LoadLeased, Start
    <2>2. run'[w] \in Busy
      <3>1. CASE LoadLeased(w)
        <4>1. run'[w] = [run[w] EXCEPT !.pc = "loaded",
                   !.attempts = attempts[run[w].job], !.lane = lane[run[w].job]]
          BY <3>1 DEF LoadLeased, TypeOK
        <4>2. attempts[run[w].job] \in Nat /\ lane[run[w].job] \in Lanes
          BY <2>1 DEF TypeOK
        <4> QED BY <2>1, <4>1, <4>2 DEF Stages
      <3>2. CASE Start(w)
        <4>1. run'[w] = [run[w] EXCEPT !.pc = "running", !.beating = TRUE]
          BY <3>2 DEF Start, TypeOK
        <4> QED BY <2>1, <4>1 DEF Stages
      <3> QED BY <1>9, <3>1, <3>2
    <2>3. run' \in [Slots -> Runs]
      BY <1>9, <2>2 DEF TypeOK, LoadLeased, Start, Runs
    <2> QED BY <1>9, <2>3 DEF TypeOK, LoadLeased, Start, hashVars, listVars
  <1>10. ASSUME NEW w \in Slots, Heartbeat(w) \/ HeartbeatError(w) PROVE TypeOK'
    <2> DEFINE Busy == [pc : Stages, job : Jobs, token : Nat \ {0},
                        attempts : Nat, lane : Lanes, beating : BOOLEAN]
    <2>1. run[w] \in Busy
      BY <1>10, BusySlot DEF Heartbeat, HeartbeatError
    <2>2. run' \in [Slots -> Runs]
      <3>1. [run[w] EXCEPT !.beating = FALSE] \in Busy
        BY <2>1
      <3>2. run' = run \/ run' = [run EXCEPT ![w] = [run[w] EXCEPT !.beating = FALSE]]
        BY <1>10 DEF TypeOK, Heartbeat, HeartbeatError
      <3> QED BY <3>1, <3>2 DEF TypeOK, Runs
    <2>3. leases' \subseteq Jobs /\ expired' \subseteq leases'
      <3>1. run[w].job \in Jobs
        BY <2>1
      <3> QED BY <1>10, <3>1 DEF TypeOK, Heartbeat, HeartbeatError, Lease, listVars
    <2>4. spent' \in [EnvKinds -> Nat]
      <3>1. spent' = spent \/ Spend("crash")
        BY <1>10 DEF Heartbeat, HeartbeatError
      <3> QED BY <3>1 DEF TypeOK, Spend, EnvKinds
    <2> QED BY <1>10, <2>2, <2>3, <2>4
       DEF TypeOK, Heartbeat, HeartbeatError, hashVars, listVars
  <1>11. ASSUME NEW w \in Slots, AckRejected(w) \/ Return(w) \/ Crash(w)
         PROVE TypeOK'
    <2>1. run' \in [Slots -> Runs]
      BY <1>11 DEF TypeOK, AckRejected, Return, Crash, Abandon, Runs
    <2>2. spent' \in [EnvKinds -> Nat]
      BY <1>11 DEF TypeOK, AckRejected, Return, Crash, Spend, EnvKinds
    <2> QED BY <1>11, <2>1, <2>2
       DEF TypeOK, AckRejected, Return, Crash, hashVars, listVars
  <1>12. ASSUME NEW w \in Slots, Complete(w) \/ Fail(w) \/ Throttle(w)
         PROVE TypeOK'
    <2> DEFINE j == run[w].job
               Busy == [pc : Stages, job : Jobs, token : Nat \ {0},
                        attempts : Nat, lane : Lanes, beating : BOOLEAN]
    <2>1. run[w] \in Busy
      BY <1>12, BusySlot DEF Complete, Fail, Throttle
    <2>2. PICK s \in Acked : Settle(w, s)
      BY <1>12 DEF Complete, Fail, Throttle, Acked
    <2>3. run'[w] \in Busy /\ run' \in [Slots -> Runs]
      BY <2>1, <2>2 DEF TypeOK, Settle, Runs, Stages
    <2>4. /\ state' \in [Jobs -> States] /\ token' \in [Jobs -> Nat]
          /\ leases' \subseteq Jobs /\ expired' \subseteq leases'
      BY <2>1, <2>2 DEF TypeOK, Settle, EndLeases, Acked, States, JobStates
    <2>5. delayed' \subseteq Jobs /\ due' \subseteq delayed'
      BY <1>12, <2>1 DEF TypeOK, Complete, Fail, Throttle, Delay
    <2>6. dlq' \in [Queues -> SUBSET Jobs]
      BY <1>12, <2>1, LaneQueue DEF TypeOK, Complete, Fail, Throttle
    <2>7. spent' \in [EnvKinds -> Nat]
      BY <1>12 DEF TypeOK, Complete, Fail, Throttle, Spend, EnvKinds
    <2> QED BY <1>12, <2>3, <2>4, <2>5, <2>6, <2>7
       DEF TypeOK, Complete, Fail, Throttle
  <1>13. ASSUME NEW B \in SUBSET Jobs, ActivateDue(B) PROVE TypeOK'
    BY <1>13 DEF TypeOK, ActivateDue, States, JobStates
  <1>14. ASSUME NEW B \in SUBSET Jobs, RecoverExpired(B) PROVE TypeOK'
    <2>1. \A j \in Jobs : RecoveryState(j) \in States
      BY DEF RecoveryState, States, JobStates
    <2> QED BY <1>14, <2>1 DEF TypeOK, RecoverExpired, EndLeases, Delay
  <1>20. CASE UNCHANGED vars
    BY <1>20 DEF TypeOK, vars, hashVars, listVars
  <1> QED BY <1>1, <1>2, <1>3, <1>4, <1>5, <1>6, <1>7, <1>8, <1>9, <1>10,
             <1>11, <1>12, <1>13, <1>14, <1>20
          DEF Next, OperatorStep, WorkerStep, SchedulerStep

\* Every variable keeps its type; in particular only delayed jobs are due and
\* only leased jobs have an expired lease.
THEOREM TypeCorrect == Spec => []TypeOK
  <1>1. Init => TypeOK
    BY AnyLaneIsLane DEF Init, TypeOK, States, EnvKinds, CancelCalls, NoCall, Runs
  <1> QED BY <1>1, TypeStep, PTL DEF Spec

-----------------------------------------------------------------------------
(* The safety argument.  Every step that invalidates what a worker has     *)
(* loaded (a new grant, a retry, an enqueue, an activation, a recovery)    *)
(* replaces or clears the token, so a matching token means that nothing    *)
(* has changed since the grant.                                            *)

\* A token in the hash is the latest one granted and has its lease.
TokenIsLease ==
  \A j \in Jobs : token[j] # 0 => token[j] = grants[j] /\ j \in leases

\* No slot holds a token that was never granted.
RunsWereGranted ==
  \A w \in Slots : run[w].pc # "idle" => run[w].token <= grants[run[w].job]

\* A matching token vouches for the copies of attempts, queue and priority.
CopiesAreCurrent ==
  \A w \in Slots :
    run[w].pc \in {"loaded", "running"} /\ HoldsToken(w) =>
      /\ run[w].attempts = attempts[run[w].job]
      /\ run[w].lane = lane[run[w].job]

BrokerInv ==
  /\ TypeOK
  /\ TokenIsLease
  /\ RunsWereGranted
  /\ CopiesAreCurrent
  /\ ActiveIsLeased
  /\ NoJobLost
  /\ FailedIsDeadLettered

\* What every worker step but a grant and a load does to the runs: a run ends,
\* or goes on with the job, the token and the copies it has.
RunsOnlyAge ==
  \A w \in Slots :
    \/ run'[w].pc = "idle"
    \/ /\ run[w].pc # "idle"
       /\ run'[w].job = run[w].job
       /\ run'[w].token = run[w].token
       /\ run'[w].pc \in {"loaded", "running"} =>
            /\ run[w].pc \in {"loaded", "running"}
            /\ run'[w].attempts = run[w].attempts
            /\ run'[w].lane = run[w].lane

\* A slot that becomes idle starts no run.
LEMMA SlotEnds ==
  ASSUME TypeOK, NEW w \in Slots, run' = [run EXCEPT ![w] = Idle]
  PROVE  RunsOnlyAge
  BY DEF TypeOK, RunsOnlyAge, Idle

\* A slot whose handler starts keeps its job and its copies.
LEMMA SlotStarts ==
  ASSUME TypeOK, NEW w \in Slots, Start(w)
  PROVE  RunsOnlyAge
  <1>1. run'[w] = [run[w] EXCEPT !.pc = "running", !.beating = TRUE]
    BY DEF TypeOK, Start
  <1>0. run[w].pc # "idle"
    BY DEF Start
  <1>2. /\ run'[w].job = run[w].job /\ run'[w].token = run[w].token
        /\ run'[w].attempts = run[w].attempts /\ run'[w].lane = run[w].lane
    BY <1>0, <1>1, BusySlot
  <1>3. \A v \in Slots \ {w} : run'[v] = run[v]
    BY DEF TypeOK, Start
  <1> QED BY <1>2, <1>3 DEF RunsOnlyAge, Start

\* A slot whose outcome was accepted only changes its stage.
LEMMA SlotSettles ==
  ASSUME TypeOK, NEW w \in Slots, run[w].pc # "idle", NEW s \in Acked, Settle(w, s)
  PROVE  RunsOnlyAge
  <1>1. run'[w] = [run[w] EXCEPT !.pc = s, !.beating = FALSE]
    BY DEF TypeOK, Settle
  <1>2. run'[w].pc = s
    BY <1>1, BusySlot
  <1>3. run'[w].job = run[w].job /\ run'[w].token = run[w].token
    BY <1>1, BusySlot
  <1>4. \A v \in Slots \ {w} : run'[v] = run[v]
    BY DEF TypeOK, Settle
  <1> QED BY <1>2, <1>3, <1>4 DEF RunsOnlyAge, Acked

\* A slot whose heartbeat loop ends keeps its job and its copies.
LEMMA SlotStopsBeating ==
  ASSUME TypeOK, NEW w \in Slots, run[w].pc # "idle",
         run' = [run EXCEPT ![w] = [@ EXCEPT !.beating = FALSE]]
  PROVE  RunsOnlyAge
  <1>1. run'[w] = [run[w] EXCEPT !.beating = FALSE]
    BY DEF TypeOK
  <1>2. /\ run'[w].pc = run[w].pc /\ run'[w].job = run[w].job
        /\ run'[w].token = run[w].token
        /\ run'[w].attempts = run[w].attempts /\ run'[w].lane = run[w].lane
    BY <1>1, BusySlot
  <1>3. \A v \in Slots \ {w} : run'[v] = run[v]
    BY DEF TypeOK
  <1> QED BY <1>2, <1>3 DEF RunsOnlyAge

\* A slot's job and token are a job and a token when it is not idle.
LEMMA BusyFields ==
  ASSUME TypeOK, NEW w \in Slots, run[w].pc # "idle"
  PROVE  /\ run[w].job \in Jobs /\ run[w].token \in Nat \ {0}
         /\ run[w].attempts \in Nat /\ run[w].lane \in Lanes
  BY BusySlot

\* Runs that only age keep the two facts about runs as long as a token that
\* is still in the hash stands for the same attempts, queue and priority.
LEMMA AgingKeepsRuns ==
  ASSUME BrokerInv, TypeOK', RunsOnlyAge,
         \A j \in Jobs : grants'[j] = grants[j],
         \A j \in Jobs : token'[j] # 0 =>
            /\ token'[j] = token[j]
            /\ attempts'[j] = attempts[j] /\ lane'[j] = lane[j]
  PROVE  RunsWereGranted' /\ CopiesAreCurrent'
  <1>1. ASSUME NEW w \in Slots, run'[w].pc # "idle"
        PROVE  run'[w].token <= grants'[run'[w].job]
    BY <1>1, BusyFields DEF RunsOnlyAge, BrokerInv, RunsWereGranted
  <1>2. ASSUME NEW w \in Slots, run'[w].pc \in {"loaded", "running"},
               token'[run'[w].job] = run'[w].token
        PROVE  /\ run'[w].attempts = attempts'[run'[w].job]
               /\ run'[w].lane = lane'[run'[w].job]
    BY <1>2, BusyFields
       DEF RunsOnlyAge, BrokerInv, CopiesAreCurrent, HoldsToken
  <1> QED BY <1>1, <1>2 DEF RunsWereGranted, CopiesAreCurrent, HoldsToken

\* Steps of the clock, and steps of a worker that leave Redis alone.
LEMMA QuietStep ==
  ASSUME BrokerInv, TypeOK', RunsOnlyAge,
         UNCHANGED <<hashVars, ready, delayed, leases, dlq>>
  PROVE  BrokerInv'
  <1>1. RunsWereGranted' /\ CopiesAreCurrent'
    BY AgingKeepsRuns DEF hashVars
  <1>2. TokenIsLease' /\ ActiveIsLeased' /\ NoJobLost' /\ FailedIsDeadLettered'
    BY DEF BrokerInv, TokenIsLease, ActiveIsLeased, NoJobLost,
           FailedIsDeadLettered, hashVars
  <1> QED BY <1>1, <1>2 DEF BrokerInv

\* Enqueue of a new or of an unblocked job: the token is gone, and the job is
\* where its new state says.
LEMMA PutJobStep ==
  ASSUME BrokerInv, TypeOK', NEW j \in Jobs, NEW l \in Lanes,
         NEW s \in {"queued", "scheduled", "blocked"}, NEW c \in BOOLEAN,
         PutJob(j, l, s, c)
  PROVE  BrokerInv'
  <1>1. RunsOnlyAge
    BY DEF PutJob, WriteHash, RunsOnlyAge
  <1>2. RunsWereGranted' /\ CopiesAreCurrent'
    <2>1. \A i \in Jobs : token'[i] # 0 =>
             token'[i] = token[i] /\ attempts'[i] = attempts[i] /\ lane'[i] = lane[i]
      BY DEF PutJob, WriteHash, BrokerInv, TypeOK
    <2>2. \A i \in Jobs : grants'[i] = grants[i]
      BY DEF PutJob, WriteHash
    <2> QED BY <1>1, <2>1, <2>2, AgingKeepsRuns
  <1>3. TokenIsLease' /\ ActiveIsLeased' /\ FailedIsDeadLettered'
    BY DEF PutJob, WriteHash, BrokerInv, TypeOK, TokenIsLease, ActiveIsLeased,
           FailedIsDeadLettered
  <1>4. NoJobLost'
    <2>0. ready' = IF s = "queued" THEN LPush(l, j) ELSE ready
      BY Zenon DEF PutJob, WriteHash
    <2>1. ready' = LPush(l, j) \/ (ready' = ready /\ s # "queued")
      BY <2>0
    <2>2. s = "queued" => ready'[l][j] > 0
      BY <2>1, LPushType DEF BrokerInv, TypeOK
    <2>3. \A m \in Lanes, i \in Jobs : ready[m][i] > 0 => ready'[m][i] > 0
      <3>1. ready \in [Lanes -> [Jobs -> Nat]]
        BY DEF BrokerInv, TypeOK
      <3>2. /\ LPush(l, j) \in [Lanes -> [Jobs -> Nat]]
            /\ \A m \in Lanes, i \in Jobs : LPush(l, j)[m][i] >= ready[m][i]
        BY <3>1, LPushType
      <3> QED BY <2>1, <3>1, <3>2
    <2>4. delayed \subseteq delayed' /\ (s = "scheduled" => j \in delayed')
      BY DEF PutJob, WriteHash, Delay
    <2>5. /\ state' = [state EXCEPT ![j] = s] /\ lane' = [lane EXCEPT ![j] = l]
          /\ state \in [Jobs -> States] /\ lane \in [Jobs -> Lanes]
      BY DEF PutJob, WriteHash, BrokerInv, TypeOK
    <2> QED BY <2>2, <2>3, <2>4, <2>5 DEF BrokerInv, NoJobLost, Waiting
  <1> QED BY <1>2, <1>3, <1>4 DEF BrokerInv

\* Retry: as Enqueue, with the dead-letter entry of the target queue removed.
LEMMA RetryStep ==
  ASSUME BrokerInv, TypeOK', NEW j \in Jobs, NEW l \in Lanes, Retry(j, l)
  PROVE  BrokerInv'
  <1>1. RunsOnlyAge
    BY DEF Retry, RunsOnlyAge
  <1>2. RunsWereGranted' /\ CopiesAreCurrent'
    <2>1. \A i \in Jobs : token'[i] # 0 =>
             token'[i] = token[i] /\ attempts'[i] = attempts[i] /\ lane'[i] = lane[i]
      BY DEF Retry, BrokerInv, TypeOK
    <2>2. \A i \in Jobs : grants'[i] = grants[i]
      BY DEF Retry
    <2> QED BY <1>1, <2>1, <2>2, AgingKeepsRuns
  <1>3. TokenIsLease' /\ ActiveIsLeased'
    BY DEF Retry, BrokerInv, TypeOK, TokenIsLease, ActiveIsLeased
  <1>4. NoJobLost'
    <2>1. ready'[l][j] > 0
      BY LPushType DEF Retry, BrokerInv, TypeOK
    <2>2. \A m \in Lanes, i \in Jobs : ready[m][i] > 0 => ready'[m][i] > 0
      BY LPushType DEF Retry, BrokerInv, TypeOK
    <2> QED BY <2>1, <2>2 DEF Retry, BrokerInv, TypeOK, NoJobLost, Waiting
  <1>5. FailedIsDeadLettered'
    BY LaneQueue DEF Retry, BrokerInv, TypeOK, FailedIsDeadLettered
  <1> QED BY <1>2, <1>3, <1>4, <1>5 DEF BrokerInv

\* Cancel's pipeline: at most it takes the job out of the queues and makes it
\* canceled, which no promise about the queues speaks of; the lease and the
\* token of a run in progress stay.
LEMMA CancelStep ==
  ASSUME BrokerInv, TypeOK', NEW j \in Jobs, CancelApply(j)
  PROVE  BrokerInv'
  <1> DEFINE seen == cancelCall[j]
  <1>1. seen.lane \in Lanes /\ seen.lane[1] \in Queues
    BY LaneQueue DEF BrokerInv, TypeOK, CancelCalls
  <1>2. RunsWereGranted' /\ CopiesAreCurrent'
    <2>1. RunsOnlyAge
      BY DEF CancelApply, RunsOnlyAge
    <2> QED BY <2>1, AgingKeepsRuns DEF CancelApply
  <1>3. CASE seen.state \notin Cancelable
    <2>1. UNCHANGED <<state, ready, delayed, dlq, token, lane, grants, leases>>
      BY <1>3 DEF CancelApply
    <2> QED BY <1>2, <2>1 DEF BrokerInv, TokenIsLease, ActiveIsLeased, NoJobLost,
                              FailedIsDeadLettered
  <1>4. CASE seen.state \in Cancelable
    <2>1. /\ state' = [state EXCEPT ![j] = "canceled"]
          /\ ready' = LRem(seen.lane, j)
          /\ delayed' = delayed \ {j}
          /\ dlq' = [dlq EXCEPT ![seen.lane[1]] = @ \ {j}]
          /\ UNCHANGED <<token, lane, grants, leases>>
      BY <1>4 DEF CancelApply
    <2>2. \A m \in Lanes, i \in Jobs : i # j => ready'[m][i] = ready[m][i]
      BY <1>1, <2>1, LRemType DEF BrokerInv, TypeOK
    <2>3. NoJobLost'
      BY <2>1, <2>2 DEF BrokerInv, TypeOK, NoJobLost, Waiting
    <2>4. TokenIsLease' /\ ActiveIsLeased' /\ FailedIsDeadLettered'
      BY <1>1, <2>1 DEF BrokerInv, TypeOK, TokenIsLease, ActiveIsLeased,
                        FailedIsDeadLettered
    <2> QED BY <1>2, <2>3, <2>4 DEF BrokerInv
  <1> QED BY <1>3, <1>4

\* A grant: the scan drops no job that could run, the granted job gets a token
\* nobody has and a lease.
LEMMA GrantStep ==
  ASSUME BrokerInv, TypeOK', NEW w \in Slots, NEW j \in Jobs, DequeueGrant(w, j)
  PROVE  BrokerInv'
  <1>1. \A l \in Lanes, i \in Jobs :
          i # j /\ state[i] = "queued" => ready'[l][i] = ready[l][i]
    <2>1. PICK n \in 1..Len(ReadyKeys), pop \in [Lanes -> Jobs \cup {NoJob}] :
            /\ Scanned(pop, n)
            /\ pop[ReadyKeys[n]] = j
            /\ \A i \in 1..(n - 1) : Discarded(pop[ReadyKeys[i]])
            /\ ready' = AfterPops(pop)
      BY DEF DequeueGrant
    <2>2. ASSUME NEW l \in Lanes, NEW i \in Jobs, pop[l] = i, i # j
          PROVE  state[i] # "queued"
      <3>1. PICK k \in 1..n : ReadyKeys[k] = l
        BY <2>1, <2>2, JobsAssumption DEF Scanned
      <3>2. k # n /\ n \in Nat
        BY <2>1, <2>2, <3>1, ReadyKeysAssumption
      <3>3. k \in 1..(n - 1)
        BY <3>1, <3>2
      <3> QED BY <2>1, <2>2, <3>1, <3>3 DEF Discarded, Leasable
    <2> QED BY <2>1, <2>2 DEF AfterPops
  <1>2. /\ state' = [state EXCEPT ![j] = "active"]
        /\ grants' = [grants EXCEPT ![j] = @ + 1]
        /\ attempts' = [attempts EXCEPT ![j] = @ + 1]
        /\ token' = [token EXCEPT ![j] = grants[j] + 1]
        /\ leases' = leases \cup {j}
        /\ run' = [run EXCEPT ![w] = Granted(j)]
        /\ UNCHANGED <<lane, delayed, dlq>>
    BY DEF DequeueGrant, Lease
  <1>3. NoJobLost' /\ ActiveIsLeased' /\ TokenIsLease' /\ FailedIsDeadLettered'
    BY <1>1, <1>2 DEF BrokerInv, TypeOK, NoJobLost, ActiveIsLeased, TokenIsLease,
                      FailedIsDeadLettered, Waiting
  <1>4. /\ run'[w].pc = "granted" /\ run'[w].job = j
        /\ run'[w].token = grants[j] + 1
        /\ \A v \in Slots \ {w} : run'[v] = run[v]
    BY <1>2 DEF BrokerInv, TypeOK, Granted
  <1>5. RunsWereGranted'
    BY <1>2, <1>4, BusyFields DEF BrokerInv, TypeOK, RunsWereGranted
  <1>6. CopiesAreCurrent'
    <2>1. ASSUME NEW v \in Slots, run'[v].pc \in {"loaded", "running"},
                 token'[run'[v].job] = run'[v].token
          PROVE  /\ run'[v].attempts = attempts'[run'[v].job]
                 /\ run'[v].lane = lane'[run'[v].job]
      <3>1. v # w /\ run'[v] = run[v]
        BY <1>4, <2>1
      <3>2. /\ run[v].pc # "idle" /\ run[v].job \in Jobs /\ run[v].token \in Nat
            /\ run[v].token <= grants[run[v].job] /\ grants[j] \in Nat
        BY <2>1, <3>1, BusyFields DEF BrokerInv, RunsWereGranted, TypeOK
      <3>3. run[v].job # j
        BY <1>2, <2>1, <3>1, <3>2 DEF BrokerInv, TypeOK
      <3>4. HoldsToken(v)
        BY <1>2, <2>1, <3>1, <3>2, <3>3 DEF HoldsToken, BrokerInv, TypeOK
      <3> QED BY <1>2, <2>1, <3>1, <3>2, <3>3, <3>4
              DEF BrokerInv, CopiesAreCurrent, TypeOK
    <2> QED BY <2>1 DEF CopiesAreCurrent, HoldsToken
  <1> QED BY <1>3, <1>5, <1>6 DEF BrokerInv

\* A scan without a grant drops only ids of jobs that are not queued.
LEMMA MissStep ==
  ASSUME BrokerInv, TypeOK', NEW w \in Slots, DequeueMiss(w)
  PROVE  BrokerInv'
  <1>1. \A l \in Lanes, i \in Jobs :
          state[i] = "queued" => ready'[l][i] = ready[l][i]
    <2>1. PICK pop \in [Lanes -> Jobs \cup {NoJob}] :
            (\A l \in Lanes : Discarded(pop[l])) /\ ready' = AfterPops(pop)
      BY DEF DequeueMiss
    <2> QED BY <2>1 DEF AfterPops, Discarded, Leasable
  <1>2. UNCHANGED <<hashVars, delayed, leases, dlq, run>>
    BY DEF DequeueMiss
  <1>3. RunsOnlyAge
    BY <1>2 DEF RunsOnlyAge
  <1>4. RunsWereGranted' /\ CopiesAreCurrent'
    BY <1>2, <1>3, AgingKeepsRuns DEF hashVars
  <1>5. NoJobLost' /\ TokenIsLease' /\ ActiveIsLeased' /\ FailedIsDeadLettered'
    BY <1>1, <1>2 DEF BrokerInv, TypeOK, NoJobLost, TokenIsLease, ActiveIsLeased,
                      FailedIsDeadLettered, hashVars
  <1> QED BY <1>4, <1>5 DEF BrokerInv

\* Loading the hash makes the slot's copies current, whatever its token.
LEMMA LoadStep ==
  ASSUME BrokerInv, TypeOK', NEW w \in Slots, LoadLeased(w)
  PROVE  BrokerInv'
  <1>1. run'[w] = [run[w] EXCEPT !.pc = "loaded",
             !.attempts = attempts[run[w].job], !.lane = lane[run[w].job]]
    BY DEF LoadLeased, BrokerInv, TypeOK
  <1>2. \A v \in Slots \ {w} : run'[v] = run[v]
    BY DEF LoadLeased, BrokerInv, TypeOK
  <1>3. run[w].pc # "idle"
    BY DEF LoadLeased
  <1>4. /\ run'[w].job = run[w].job /\ run'[w].token = run[w].token
        /\ run'[w].attempts = attempts[run[w].job]
        /\ run'[w].lane = lane[run[w].job]
    BY <1>1, <1>3, BusySlot DEF BrokerInv
  <1>5. UNCHANGED <<hashVars, ready, delayed, leases, dlq>>
    BY DEF LoadLeased, listVars
  <1>6. RunsWereGranted'
    BY <1>2, <1>3, <1>4, <1>5 DEF BrokerInv, RunsWereGranted, hashVars
  <1>7. CopiesAreCurrent'
    BY <1>2, <1>4, <1>5 DEF BrokerInv, CopiesAreCurrent, HoldsToken, hashVars
  <1>8. NoJobLost' /\ TokenIsLease' /\ ActiveIsLeased' /\ FailedIsDeadLettered'
    BY <1>5 DEF BrokerInv, NoJobLost, TokenIsLease, ActiveIsLeased,
                FailedIsDeadLettered, hashVars
  <1> QED BY <1>6, <1>7, <1>8 DEF BrokerInv

\* A renewed lease stays a lease.
LEMMA HeartbeatStep ==
  ASSUME BrokerInv, TypeOK', NEW w \in Slots, Heartbeat(w)
  PROVE  BrokerInv'
  <1>1. UNCHANGED <<hashVars, ready, delayed, dlq>> /\ leases \subseteq leases'
    BY DEF Heartbeat, Lease
  <1>2. RunsOnlyAge
    <2>1. CASE run' = run
      BY <2>1 DEF RunsOnlyAge
    <2>2. CASE run' = [run EXCEPT ![w] = [@ EXCEPT !.beating = FALSE]]
      BY <2>2, SlotStopsBeating DEF Heartbeat, BrokerInv
    <2> QED BY <2>1, <2>2 DEF Heartbeat
  <1>3. RunsWereGranted' /\ CopiesAreCurrent'
    BY <1>1, <1>2, AgingKeepsRuns DEF hashVars
  <1>4. NoJobLost' /\ TokenIsLease' /\ ActiveIsLeased' /\ FailedIsDeadLettered'
    BY <1>1 DEF BrokerInv, NoJobLost, TokenIsLease, ActiveIsLeased,
                FailedIsDeadLettered, hashVars
  <1> QED BY <1>3, <1>4 DEF BrokerInv

\* An accepted acknowledgement: lease and token go together, and the job is
\* filed by the copies it was loaded with, which are current.
LEMMA SettleStep ==
  ASSUME BrokerInv, TypeOK', NEW w \in Slots,
         Complete(w) \/ Fail(w) \/ Throttle(w)
  PROVE  BrokerInv'
  <1> DEFINE j == run[w].job
  <1>1. run[w].pc \in {"loaded", "running"} /\ HoldsToken(w)
    BY DEF Complete, Fail, Throttle
  <1>2. j \in Jobs /\ run[w].lane = lane[j]
    BY <1>1, BusyFields DEF BrokerInv, CopiesAreCurrent
  <1>3. PICK s \in Acked : Settle(w, s)
    BY DEF Complete, Fail, Throttle, Acked
  <1>4. RunsOnlyAge
    BY <1>1, <1>3, SlotSettles DEF BrokerInv
  <1>5. UNCHANGED <<attempts, lane, grants, ready>>
    BY DEF Complete, Fail, Throttle
  <1>6. /\ token' = [i \in Jobs |-> IF i = j THEN 0 ELSE token[i]]
        /\ leases' = leases \ {j}
        /\ state' = [state EXCEPT ![j] = s]
    BY <1>3 DEF Settle, EndLeases
  <1>7. RunsWereGranted' /\ CopiesAreCurrent'
    <2>1. \A i \in Jobs : token'[i] # 0 => token'[i] = token[i]
      BY <1>6
    <2> QED BY <1>4, <1>5, <2>1, AgingKeepsRuns
  <1>8. TokenIsLease' /\ ActiveIsLeased'
    BY <1>2, <1>5, <1>6 DEF BrokerInv, TypeOK, TokenIsLease, ActiveIsLeased, Acked
  <1>9. state'[j] = s
    BY <1>2, <1>6 DEF BrokerInv, TypeOK
  <1>10. delayed \subseteq delayed' /\ (s \in Waiting => j \in delayed')
    <2>1. CASE Complete(w)
      BY <1>2, <1>9, <2>1 DEF Complete, Settle, Waiting, BrokerInv, TypeOK
    <2>2. CASE Fail(w)
      BY <1>2, <1>9, <2>2 DEF Fail, Settle, Delay, Waiting, BrokerInv, TypeOK
    <2>3. CASE Throttle(w)
      BY <2>3 DEF Throttle, Delay
    <2> QED BY <2>1, <2>2, <2>3
  <1>11. NoJobLost'
    BY <1>2, <1>5, <1>6, <1>10 DEF BrokerInv, TypeOK, NoJobLost, Acked
  <1>12. /\ \A q \in Queues : dlq[q] \subseteq dlq'[q]
         /\ s = "failed" => j \in dlq'[lane[j][1]]
    <2>0. lane[j][1] \in Queues
      BY <1>2, LaneQueue DEF BrokerInv, TypeOK
    <2>1. CASE Complete(w)
      BY <1>2, <1>9, <2>1 DEF Complete, Settle, BrokerInv, TypeOK
    <2>2. CASE Fail(w)
      BY <1>2, <1>9, <2>0, <2>2 DEF Fail, Settle, BrokerInv, TypeOK
    <2>3. CASE Throttle(w)
      BY <1>2, <1>9, <2>3 DEF Throttle, Settle, BrokerInv, TypeOK
    <2> QED BY <2>1, <2>2, <2>3
  <1>13. FailedIsDeadLettered'
    BY <1>2, <1>5, <1>6, <1>12, LaneQueue DEF BrokerInv, TypeOK, FailedIsDeadLettered
  <1> QED BY <1>7, <1>8, <1>11, <1>13 DEF BrokerInv

\* Activation clears the token of whatever it puts back into a ready list.
LEMMA ActivateStep ==
  ASSUME BrokerInv, TypeOK', NEW B \in SUBSET Jobs, ActivateDue(B)
  PROVE  BrokerInv'
  <1>1. RunsOnlyAge
    BY DEF ActivateDue, RunsOnlyAge
  <1>2. RunsWereGranted' /\ CopiesAreCurrent'
    BY <1>1, AgingKeepsRuns DEF ActivateDue
  <1>3. TokenIsLease' /\ ActiveIsLeased' /\ FailedIsDeadLettered'
    BY DEF ActivateDue, BrokerInv, TypeOK, TokenIsLease, ActiveIsLeased,
           FailedIsDeadLettered
  <1>4. NoJobLost'
    BY DEF ActivateDue, BrokerInv, TypeOK, NoJobLost, Waiting
  <1> QED BY <1>2, <1>3, <1>4 DEF BrokerInv

\* Recovery ends lease and token together and files the job by its new state.
LEMMA RecoverStep ==
  ASSUME BrokerInv, TypeOK', NEW B \in SUBSET Jobs, RecoverExpired(B)
  PROVE  BrokerInv'
  <1> DEFINE retried == {j \in B : RecoveryState(j) = "retrying"}
             dead == {j \in B : RecoveryState(j) = "failed"}
  <1>1. \A j \in Jobs : RecoveryState(j) \in {"canceled", "retrying", "failed"}
    BY DEF RecoveryState
  <1>2. /\ state' = [j \in Jobs |-> IF j \in B THEN RecoveryState(j) ELSE state[j]]
        /\ token' = [j \in Jobs |-> IF j \in B THEN 0 ELSE token[j]]
        /\ leases' = leases \ B
        /\ delayed' = delayed \cup retried
        /\ dlq' = [q \in Queues |-> dlq[q] \cup {j \in dead : lane[j][1] = q}]
        /\ UNCHANGED <<attempts, lane, grants, ready, run>>
    BY DEF RecoverExpired, EndLeases, Delay
  <1> HIDE DEF retried, dead
  <1>3. RunsWereGranted' /\ CopiesAreCurrent'
    <2>1. RunsOnlyAge
      BY <1>2 DEF RunsOnlyAge
    <2> QED BY <1>2, <2>1, AgingKeepsRuns
  <1>4. TokenIsLease' /\ ActiveIsLeased'
    BY <1>1, <1>2 DEF BrokerInv, TypeOK, TokenIsLease, ActiveIsLeased
  <1>5. NoJobLost'
    BY <1>1, <1>2 DEF BrokerInv, TypeOK, NoJobLost, Waiting, retried
  <1>6. FailedIsDeadLettered'
    BY <1>1, <1>2, LaneQueue DEF BrokerInv, TypeOK, FailedIsDeadLettered, dead
  <1> QED BY <1>3, <1>4, <1>5, <1>6 DEF BrokerInv

\* The inductive step: one case for every action of Next.
LEMMA BrokerStep == BrokerInv /\ [Next]_vars => BrokerInv'
  <1> SUFFICES ASSUME BrokerInv, [Next]_vars PROVE BrokerInv'
    OBVIOUS
  <1>0. TypeOK /\ TypeOK'
    BY TypeStep DEF BrokerInv
  <1>1. ASSUME run' = run PROVE RunsOnlyAge
    BY <1>1 DEF RunsOnlyAge
  <1>2. ASSUME NEW j \in Jobs, TimeStep(j) PROVE BrokerInv'
    BY <1>0, <1>1, <1>2, QuietStep DEF TimeStep, ComesDue, LeaseLapses
  <1>3. ASSUME NEW j \in Jobs, NEW l \in Lanes, Enqueue(j, l) PROVE BrokerInv'
    <2>1. PICK s \in {"queued", "scheduled", "blocked"} : PutJob(j, l, s, FALSE)
      BY <1>3 DEF Enqueue
    <2> QED BY <1>0, <2>1, PutJobStep
  <1>4. ASSUME NEW j \in Jobs, Unblock(j) PROVE BrokerInv'
    <2>1. PICK l \in Lanes, s \in {"queued", "scheduled", "blocked"}, c \in BOOLEAN :
            PutJob(j, l, s, c)
      BY <1>4 DEF Unblock, CopiedCancel
    <2> QED BY <1>0, <2>1, PutJobStep
  <1>5. ASSUME NEW j \in Jobs, CancelLoad(j) PROVE BrokerInv'
    BY <1>0, <1>1, <1>5, QuietStep DEF CancelLoad, listVars
  <1>6. ASSUME NEW w \in Slots, AckRejected(w) \/ Return(w) \/ Crash(w)
        PROVE  BrokerInv'
    <2>1. run' = [run EXCEPT ![w] = Idle]
      BY <1>6 DEF AckRejected, Return, Crash, Abandon
    <2>2. RunsOnlyAge
      BY <1>0, <2>1, SlotEnds
    <2> QED BY <1>0, <1>6, <2>2, QuietStep DEF AckRejected, Return, Crash, listVars
  <1>7. ASSUME NEW w \in Slots, Start(w) PROVE BrokerInv'
    BY <1>0, <1>7, SlotStarts, QuietStep DEF Start, listVars
  <1>8. ASSUME NEW w \in Slots, HeartbeatError(w) PROVE BrokerInv'
    BY <1>0, <1>8, SlotStopsBeating, QuietStep DEF HeartbeatError, listVars
  <1>9. CASE UNCHANGED vars
    BY <1>0, <1>1, <1>9, QuietStep DEF vars, listVars
  <1> QED BY <1>0, <1>2, <1>3, <1>4, <1>5, <1>6, <1>7, <1>8, <1>9, RetryStep,
             CancelStep, GrantStep, MissStep, LoadStep, HeartbeatStep, SettleStep,
             ActivateStep, RecoverStep
          DEF Next, OperatorStep, WorkerStep, SchedulerStep

\* The inductive invariant holds in every reachable state.
LEMMA BrokerInvariant == Spec => []BrokerInv
  <1>1. Init => BrokerInv
    <2>1. Init => TypeOK
      BY AnyLaneIsLane DEF Init, TypeOK, States, EnvKinds, CancelCalls, NoCall, Runs
    <2>2. ASSUME Init PROVE RunsWereGranted /\ CopiesAreCurrent
      <3>1. \A w \in Slots : run[w].pc = "idle"
        BY <2>2 DEF Init, Idle
      <3> QED BY <3>1 DEF RunsWereGranted, CopiesAreCurrent
    <2>3. Init => TokenIsLease /\ ActiveIsLeased /\ NoJobLost /\ FailedIsDeadLettered
      BY DEF Init, TokenIsLease, ActiveIsLeased, NoJobLost, FailedIsDeadLettered,
             Waiting
    <2> QED BY <2>1, <2>2, <2>3 DEF BrokerInv
  <1> QED BY <1>1, BrokerStep, PTL DEF Spec

\* No retry, replay, cancellation, repeated enqueue or stalled worker takes a
\* running job out of the lease scan.
THEOREM RunningJobsRecoverable == Spec => []ActiveIsLeased
  <1>1. BrokerInv => ActiveIsLeased
    BY DEF BrokerInv
  <1> QED BY <1>1, BrokerInvariant, PTL

\* A job that is to run later is always where Dequeue or the scheduler looks.
THEOREM JobsStayReachable == Spec => []NoJobLost
  <1>1. BrokerInv => NoJobLost
    BY DEF BrokerInv
  <1> QED BY <1>1, BrokerInvariant, PTL

\* A permanently failed job is in the dead-letter list of its queue, even after
\* replays into other queues.
THEOREM DeadLettersComplete == Spec => []FailedIsDeadLettered
  <1>1. BrokerInv => FailedIsDeadLettered
    BY DEF BrokerInv
  <1> QED BY <1>1, BrokerInvariant, PTL

\* Fencing: an acknowledgement the broker accepts comes from the latest grant,
\* with current copies, while the lease is still in the set.
THEOREM Fencing == Spec => []OnlyLatestGrantSettles
  <1>1. BrokerInv => OnlyLatestGrantSettles
    <2> SUFFICES ASSUME BrokerInv, NEW w \in Slots,
                        run[w].pc \in {"loaded", "running"}, HoldsToken(w)
                 PROVE  /\ run[w].token = grants[run[w].job]
                        /\ run[w].attempts = attempts[run[w].job]
                        /\ run[w].lane = lane[run[w].job]
                        /\ run[w].job \in leases
      BY DEF OnlyLatestGrantSettles
    <2>1. run[w].job \in Jobs /\ run[w].token # 0
      BY BusyFields DEF BrokerInv
    <2> QED BY <2>1 DEF BrokerInv, TokenIsLease, CopiesAreCurrent, HoldsToken
  <1> QED BY <1>1, BrokerInvariant, PTL

-----------------------------------------------------------------------------
(* The broker alone: nobody retries, cancels or enqueues a job a second    *)
(* time.  Workers may still crash, stall and lose their leases, and the    *)
(* limiter may throttle.                                                   *)

NoOperator == Budget["retry"] = 0 /\ Budget["cancel"] = 0 /\ Budget["unblock"] = 0

\* OneHome, as an equation: where each job is follows from its state.
HomeIs(j) ==
  /\ \A l \in Lanes : ready[l][j] = IF state[j] = "queued" /\ l = lane[j] THEN 1 ELSE 0
  /\ j \in delayed <=> state[j] \in Waiting
  /\ j \in leases <=> state[j] = "active"

\* A job that is to run again has an attempt left, or one that throttling took.
AttemptLeft(j) ==
  state[j] \in Waiting \cup {"queued"} => attempts[j] < MaxAttempts[j] + spent["throttle"]

AloneInv ==
  /\ \A j \in Jobs : HomeIs(j)
  /\ \A j \in Jobs : AttemptLeft(j)
  /\ AttemptsBounded
  /\ \A j \in Jobs : cancelCall[j].state = "none"

\* The types of the counters.
LEMMA Counters ==
  ASSUME BrokerInv
  PROVE  /\ attempts \in [Jobs -> Nat] /\ state \in [Jobs -> States]
         /\ MaxAttempts \in [Jobs -> Nat \ {0}] /\ spent["throttle"] \in Nat
  BY MaxAttemptsAssumption DEF BrokerInv, TypeOK, EnvKinds

\* The steps that file no job: neither state nor home nor counter changes.
LEMMA AloneQuiet ==
  ASSUME BrokerInv, AloneInv, UNCHANGED <<state, attempts, lane, ready, delayed, cancelCall>>,
         leases' = leases, spent'["throttle"] = spent["throttle"]
  PROVE  AloneInv'
  BY DEF AloneInv, HomeIs, AttemptLeft, AttemptsBounded

\* The operator's calls never happen.
LEMMA OperatorSilent ==
  ASSUME NoOperator, BrokerInv, AloneInv, NEW j \in Jobs
  PROVE  /\ ~Unblock(j) /\ ~CancelLoad(j) /\ ~CancelApply(j)
         /\ \A l \in Lanes : ~Retry(j, l)
  <1>1. /\ "retry" \in EnvKinds /\ "cancel" \in EnvKinds /\ "unblock" \in EnvKinds
        /\ spent \in [EnvKinds -> Nat]
    BY DEF EnvKinds, BrokerInv, TypeOK
  <1>2. ~Spend("retry") /\ ~Spend("cancel") /\ ~Spend("unblock")
    BY <1>1 DEF NoOperator, Spend
  <1> QED BY <1>2 DEF AloneInv, Unblock, CancelLoad, CancelApply, Retry

\* A first submission: the job was nowhere before.
LEMMA AloneEnqueue ==
  ASSUME NoOperator, BrokerInv, AloneInv, NEW j \in Jobs, NEW l \in Lanes, Enqueue(j, l)
  PROVE  AloneInv'
  <1>1. PICK s \in {"queued", "scheduled"} : PutJob(j, l, s, FALSE)
    <2>1. ~(Budget["unblock"] > 0)
      BY DEF NoOperator
    <2> QED BY <2>1 DEF Enqueue
  <1>2. /\ state' = [state EXCEPT ![j] = s] /\ attempts' = [attempts EXCEPT ![j] = 0]
        /\ lane' = [lane EXCEPT ![j] = l]
        /\ ready' = IF s = "queued" THEN LPush(l, j) ELSE ready
        /\ delayed' = IF s = "scheduled" THEN delayed \cup {j} ELSE delayed
        /\ leases' = leases /\ cancelCall' = cancelCall /\ spent' = spent
    BY <1>1 DEF PutJob, WriteHash, Delay, Enqueue
  <1>3. state[j] = "none" /\ \A m \in Lanes : ready[m][j] = 0
    BY DEF Enqueue, AloneInv, HomeIs
  <1>4. ASSUME NEW i \in Jobs PROVE HomeIs(i)'
    <2>1. CASE i # j
      BY <1>2, <2>1 DEF BrokerInv, TypeOK, AloneInv, HomeIs, LPush
    <2>2. CASE i = j /\ s = "queued"
      <3>1. lane'[j] = l /\ state'[j] = "queued" /\ j \notin delayed /\ j \notin leases
        BY <1>2, <1>3, <2>2 DEF BrokerInv, TypeOK, AloneInv, HomeIs, Waiting
      <3>2. \A m \in Lanes : ready'[m][j] = IF m = l THEN 1 ELSE 0
        BY <1>2, <1>3, <2>2 DEF BrokerInv, TypeOK, LPush
      <3> QED BY <1>2, <2>2, <3>1, <3>2 DEF HomeIs, Waiting
    <2>3. CASE i = j /\ s = "scheduled"
      BY <1>2, <1>3, <2>3 DEF BrokerInv, TypeOK, AloneInv, HomeIs, Waiting
    <2> QED BY <2>1, <2>2, <2>3
  <1>6. ASSUME NEW i \in Jobs PROVE AttemptLeft(i)'
    <2>1. CASE i = j
      BY <1>2, <2>1, Counters DEF AttemptLeft
    <2>2. CASE i # j
      BY <1>2, <2>2, Counters DEF AloneInv, AttemptLeft
    <2> QED BY <2>1, <2>2
  <1>7. AttemptsBounded'
    BY <1>2, Counters DEF AloneInv, AttemptsBounded
  <1> QED BY <1>2, <1>4, <1>6, <1>7 DEF AloneInv

\* Every id in a ready list is of a queued job, so a scan discards nothing and
\* takes out the granted id only.
LEMMA AloneGrant ==
  ASSUME BrokerInv, AloneInv, NEW w \in Slots, NEW j \in Jobs, DequeueGrant(w, j)
  PROVE  AloneInv'
  <1>1. PICK n \in 1..Len(ReadyKeys), pop \in [Lanes -> Jobs \cup {NoJob}] :
          /\ Scanned(pop, n)
          /\ pop[ReadyKeys[n]] = j
          /\ \A i \in 1..(n - 1) : Discarded(pop[ReadyKeys[i]])
          /\ ready' = AfterPops(pop)
    BY DEF DequeueGrant
  <1>2. \A l \in Lanes, i \in Jobs : pop[l] = i => ready[l][i] > 0
    BY <1>1, JobsAssumption DEF Scanned
  <1>3. \A l \in Lanes, i \in Jobs : pop[l] = i => state[i] = "queued" /\ l = lane[i]
    BY <1>2 DEF AloneInv, HomeIs
  <1>4. ReadyKeys[n] \in Lanes /\ state[j] = "queued" /\ pop[lane[j]] = j
    <2>1. ReadyKeys[n] \in Lanes
      BY ReadyKeysAssumption
    <2> QED BY <1>1, <1>3, <2>1
  <1>5. \A l \in Lanes, i \in Jobs : pop[l] = i => i = j
    <2> SUFFICES ASSUME NEW l \in Lanes, NEW i \in Jobs, pop[l] = i, i # j PROVE FALSE
      OBVIOUS
    <2>1. PICK k \in 1..n : ReadyKeys[k] = l
      BY <1>1, JobsAssumption DEF Scanned
    <2>2. k # n /\ n \in Nat
      BY <1>1, <2>1, ReadyKeysAssumption
    <2>3. k \in 1..(n - 1)
      BY <2>1, <2>2
    <2> QED BY <1>1, <1>3, <2>1, <2>3 DEF Discarded, Leasable
  <1>6. /\ state' = [state EXCEPT ![j] = "active"]
        /\ attempts' = [attempts EXCEPT ![j] = @ + 1]
        /\ leases' = leases \cup {j}
        /\ UNCHANGED <<lane, delayed, cancelCall, spent>>
    BY DEF DequeueGrant, Lease
  <1>7. ASSUME NEW i \in Jobs PROVE HomeIs(i)'
    <2>1. CASE i # j
      BY <1>1, <1>5, <1>6, <2>1 DEF BrokerInv, TypeOK, AloneInv, HomeIs, AfterPops
    <2>2. CASE i = j
      <3>1. \A l \in Lanes : ready'[l][j] = 0
        BY <1>1, <1>3, <1>4 DEF AfterPops, AloneInv, HomeIs
      <3>2. state'[j] = "active" /\ j \notin delayed
        BY <1>4, <1>6 DEF BrokerInv, TypeOK, AloneInv, HomeIs, Waiting
      <3> QED BY <1>6, <2>2, <3>1, <3>2 DEF HomeIs, Waiting
    <2> QED BY <2>1, <2>2
  <1>9. \A i \in Jobs : AttemptLeft(i)'
    BY <1>6 DEF BrokerInv, TypeOK, AloneInv, AttemptLeft, Waiting
  <1>10. AttemptsBounded'
    <2>1. attempts[j] < MaxAttempts[j] + spent["throttle"]
      BY <1>4 DEF AloneInv, AttemptLeft
    <2> QED BY <1>6, <2>1, Counters DEF AloneInv, AttemptsBounded
  <1> QED BY <1>6, <1>7, <1>9, <1>10 DEF AloneInv

\* So a scan that grants nothing finds nothing.
LEMMA AloneMiss ==
  ASSUME BrokerInv, AloneInv, NEW w \in Slots, DequeueMiss(w)
  PROVE  FALSE
  <1>1. PICK pop \in [Lanes -> Jobs \cup {NoJob}] :
          /\ Scanned(pop, Len(ReadyKeys))
          /\ \A l \in Lanes : Discarded(pop[l])
          /\ \E l \in Lanes : pop[l] # NoJob
    BY DEF DequeueMiss
  <1>2. PICK l \in Lanes : pop[l] \in Jobs
    BY <1>1
  <1>3. ready[l][pop[l]] > 0
    BY <1>1, <1>2, JobsAssumption DEF Scanned
  <1>4. state[pop[l]] = "queued"
    BY <1>2, <1>3 DEF AloneInv, HomeIs
  <1> QED BY <1>1, <1>2, <1>4 DEF Discarded, Leasable

\* An accepted acknowledgement: a matching token means a lease, a lease means
\* an active job, and an active job is in no queue.
LEMMA AloneSettle ==
  ASSUME BrokerInv, AloneInv, NEW w \in Slots, Complete(w) \/ Fail(w) \/ Throttle(w)
  PROVE  AloneInv' /\ state[run[w].job] = "active"
                   /\ \A i \in Jobs : i # run[w].job => state'[i] = state[i]
  <1> DEFINE j == run[w].job
  <1>1. run[w].pc \in {"loaded", "running"} /\ HoldsToken(w)
    BY DEF Complete, Fail, Throttle
  <1>2. j \in Jobs /\ run[w].token # 0 /\ run[w].attempts = attempts[j]
    BY <1>1, BusyFields DEF BrokerInv, CopiesAreCurrent
  <1>3. j \in leases /\ state[j] = "active"
    BY <1>1, <1>2 DEF HoldsToken, BrokerInv, TokenIsLease, AloneInv, HomeIs
  <1>4. PICK s \in Acked : Settle(w, s)
    BY DEF Complete, Fail, Throttle, Acked
  <1>5. /\ leases' = leases \ {j} /\ state' = [state EXCEPT ![j] = s]
        /\ UNCHANGED <<attempts, lane, ready, cancelCall>>
    BY <1>4 DEF Settle, EndLeases, Complete, Fail, Throttle
  <1>6. state'[j] = s
    BY <1>2, <1>5 DEF BrokerInv, TypeOK
  <1>7. /\ delayed' = IF s \in Waiting THEN delayed \cup {j} ELSE delayed
        /\ s = "retrying" => attempts[j] < MaxAttempts[j]
        /\ s = "throttled" => Spend("throttle")
        /\ s # "throttled" => spent' = spent
    <2>1. CASE Complete(w)
      BY <1>2, <1>6, <2>1 DEF Complete, Settle, Waiting, BrokerInv, TypeOK
    <2>2. CASE Fail(w)
      BY <1>2, <1>6, <2>2 DEF Fail, Settle, Delay, Waiting, BrokerInv, TypeOK
    <2>3. CASE Throttle(w)
      BY <1>2, <1>6, <2>3 DEF Throttle, Settle, Delay, Waiting, BrokerInv, TypeOK
    <2> QED BY <2>1, <2>2, <2>3
  <1>8. ASSUME NEW i \in Jobs PROVE HomeIs(i)'
    <2>1. CASE i # j
      BY <1>2, <1>5, <1>7, <2>1 DEF BrokerInv, TypeOK, AloneInv, HomeIs
    <2>2. CASE i = j
      BY <1>3, <1>5, <1>6, <1>7, <2>2 DEF AloneInv, HomeIs, Waiting, Acked
    <2> QED BY <2>1, <2>2
  <1>9. /\ spent'["throttle"] \in Nat /\ spent'["throttle"] >= spent["throttle"]
        /\ s = "throttled" => spent'["throttle"] = spent["throttle"] + 1
    BY <1>7 DEF BrokerInv, TypeOK, EnvKinds, Spend
  <1>10. AttemptsBounded'
    <2>1. \A i \in Jobs : attempts[i] <= MaxAttempts[i] + spent["throttle"]
      BY DEF AloneInv, AttemptsBounded
    <2> QED BY <1>5, <1>9, <2>1, Counters DEF AttemptsBounded
  <1>11. ASSUME NEW i \in Jobs PROVE AttemptLeft(i)'
    <2>1. CASE i # j
      <3>1. state'[i] = state[i] /\ AttemptLeft(i) /\ attempts'[i] = attempts[i]
        BY <1>5, <2>1, Counters DEF AloneInv
      <3> QED BY <1>9, <3>1, Counters DEF AttemptLeft
    <2>2. CASE i = j
      <3>1. s \in Waiting \cup {"queued"} => attempts[j] < MaxAttempts[j] + spent'["throttle"]
        BY <1>2, <1>7, <1>9, Counters DEF AloneInv, AttemptsBounded, Acked, Waiting
      <3> QED BY <1>5, <1>6, <2>2, <3>1 DEF AttemptLeft
    <2> QED BY <2>1, <2>2
  <1> QED BY <1>2, <1>3, <1>5, <1>8, <1>10, <1>11 DEF AloneInv, BrokerInv, TypeOK

\* Activation moves jobs from the delayed set to their lists.
LEMMA AloneActivate ==
  ASSUME BrokerInv, AloneInv, NEW B \in SUBSET Jobs, ActivateDue(B)
  PROVE  AloneInv' /\ \A i \in B : state[i] \in Waiting
  <1>1. \A i \in B : i \in delayed /\ state[i] \in Waiting
    BY DEF ActivateDue, BrokerInv, TypeOK, AloneInv, HomeIs
  <1>2. /\ delayed' = delayed \ B
        /\ state' = [j \in Jobs |-> IF j \in B THEN "queued" ELSE state[j]]
        /\ ready' = [l \in Lanes |-> [j \in Jobs |->
              IF j \in B /\ lane[j] = l THEN ready[l][j] + 1 ELSE ready[l][j]]]
        /\ UNCHANGED <<attempts, lane, leases, cancelCall, spent>>
    BY DEF ActivateDue
  <1>3. ASSUME NEW i \in Jobs PROVE HomeIs(i)'
    <2>1. CASE i \in B
      <3>1. \A l \in Lanes : ready[l][i] = 0
        BY <1>1, <2>1 DEF AloneInv, HomeIs, Waiting
      <3>2. i \notin leases
        BY <1>1, <2>1 DEF AloneInv, HomeIs, Waiting
      <3> QED BY <1>2, <2>1, <3>1, <3>2 DEF HomeIs, Waiting
    <2>2. CASE i \notin B
      BY <1>2, <2>2 DEF AloneInv, HomeIs
    <2> QED BY <2>1, <2>2
  <1>4. \A i \in Jobs : AttemptLeft(i)'
    BY <1>1, <1>2 DEF AloneInv, AttemptLeft
  <1>5. AttemptsBounded'
    BY <1>2 DEF AloneInv, AttemptsBounded
  <1> QED BY <1>1, <1>2, <1>3, <1>4, <1>5 DEF AloneInv

\* Recovery moves jobs from the leases to the delayed set or ends them.
LEMMA AloneRecover ==
  ASSUME BrokerInv, AloneInv, NEW B \in SUBSET Jobs, RecoverExpired(B)
  PROVE  AloneInv' /\ \A i \in B : state[i] = "active"
  <1> DEFINE retried == {j \in B : RecoveryState(j) = "retrying"}
  <1>1. \A i \in B : i \in leases /\ state[i] = "active"
    BY DEF RecoverExpired, BrokerInv, TypeOK, AloneInv, HomeIs
  <1>2. /\ state' = [j \in Jobs |-> IF j \in B THEN RecoveryState(j) ELSE state[j]]
        /\ leases' = leases \ B
        /\ delayed' = delayed \cup retried
        /\ UNCHANGED <<attempts, lane, ready, cancelCall, spent>>
    BY DEF RecoverExpired, EndLeases, Delay
  <1>3. \A i \in Jobs : /\ RecoveryState(i) \in {"canceled", "retrying", "failed"}
                        /\ RecoveryState(i) = "retrying" => attempts[i] < MaxAttempts[i]
    BY DEF RecoveryState
  <1>4. ASSUME NEW i \in Jobs PROVE HomeIs(i)'
    <2>1. CASE i \in B
      <3>1. i \notin delayed /\ \A l \in Lanes : ready[l][i] = 0
        BY <1>1, <2>1 DEF AloneInv, HomeIs, Waiting
      <3> QED BY <1>2, <1>3, <2>1, <3>1 DEF HomeIs, Waiting
    <2>2. CASE i \notin B
      BY <1>2, <2>2 DEF AloneInv, HomeIs
    <2> QED BY <2>1, <2>2
  <1> HIDE DEF retried
  <1>6. \A i \in Jobs : AttemptLeft(i)'
    BY <1>2, <1>3, Counters DEF AloneInv, AttemptLeft, Waiting
  <1>7. AttemptsBounded'
    BY <1>2 DEF AloneInv, AttemptsBounded
  <1> QED BY <1>1, <1>2, <1>4, <1>6, <1>7 DEF AloneInv

\* The inductive step, and the reason why finished jobs stay finished: every
\* step that writes a state finds the job new, queued, waiting or active.
LEMMA AloneStep ==
  ASSUME NoOperator, BrokerInv, AloneInv, [Next]_vars
  PROVE  AloneInv' /\ \A i \in Jobs : state[i] \in Terminal => state'[i] = state[i]
  <1> DEFINE Kept == \A i \in Jobs : state[i] \in Terminal => state'[i] = state[i]
  <1>1. ASSUME UNCHANGED <<state, attempts, lane, ready, delayed, leases, cancelCall>>,
               spent'["throttle"] = spent["throttle"]
        PROVE  AloneInv' /\ Kept
    BY <1>1, AloneQuiet
  <1>2. ASSUME NEW j \in Jobs, TimeStep(j) PROVE AloneInv' /\ Kept
    BY <1>1, <1>2 DEF TimeStep, ComesDue, LeaseLapses, hashVars
  <1>3. ASSUME NEW j \in Jobs, NEW l \in Lanes, Enqueue(j, l) PROVE AloneInv' /\ Kept
    <2>1. Kept
      BY <1>3, Counters DEF Enqueue, PutJob, WriteHash, Terminal
    <2> QED BY <1>3, <2>1, AloneEnqueue
  <1>4. ASSUME NEW w \in Slots, NEW j \in Jobs, DequeueGrant(w, j) PROVE AloneInv' /\ Kept
    <2>1. Kept
      BY <1>4, Counters DEF DequeueGrant, Terminal, Leasable
    <2> QED BY <1>4, <2>1, AloneGrant
  <1>5. ASSUME NEW w \in Slots, LoadLeased(w) \/ Start(w) \/ AckRejected(w) \/ Return(w)
        PROVE  AloneInv' /\ Kept
    BY <1>1, <1>5 DEF LoadLeased, Start, AckRejected, Return, hashVars, listVars
  <1>6. ASSUME NEW w \in Slots, Crash(w) \/ HeartbeatError(w) PROVE AloneInv' /\ Kept
    <2>1. spent'["throttle"] = spent["throttle"]
      BY <1>6 DEF Crash, HeartbeatError, Spend, BrokerInv, TypeOK, EnvKinds
    <2> QED BY <1>1, <1>6, <2>1 DEF Crash, HeartbeatError, hashVars, listVars
  <1>7. ASSUME NEW w \in Slots, Heartbeat(w) PROVE AloneInv' /\ Kept
    <2>1. run[w].job \in Jobs
      BY <1>7, BusyFields DEF Heartbeat, BrokerInv
    <2>2. leases' = leases
      BY <1>7, <2>1 DEF Heartbeat, Lease, BrokerInv, ActiveIsLeased
    <2> QED BY <1>1, <1>7, <2>2 DEF Heartbeat, hashVars
  <1>8. ASSUME NEW w \in Slots, Complete(w) \/ Fail(w) \/ Throttle(w) PROVE AloneInv' /\ Kept
    BY <1>8, AloneSettle DEF Terminal
  <1>9. ASSUME NEW B \in SUBSET Jobs, ActivateDue(B) PROVE AloneInv' /\ Kept
    <2>1. \A i \in Jobs : i \notin B => state'[i] = state[i]
      BY <1>9 DEF ActivateDue
    <2> QED BY <1>9, <2>1, AloneActivate DEF Terminal, Waiting
  <1>10. ASSUME NEW B \in SUBSET Jobs, RecoverExpired(B) PROVE AloneInv' /\ Kept
    <2>1. \A i \in Jobs : i \notin B => state'[i] = state[i]
      BY <1>10 DEF RecoverExpired
    <2> QED BY <1>10, <2>1, AloneRecover DEF Terminal
  <1>11. CASE UNCHANGED vars
    BY <1>1, <1>11 DEF vars, hashVars, listVars
  <1> HIDE DEF Kept
  <1> QED BY <1>2, <1>3, <1>4, <1>5, <1>6, <1>7, <1>8, <1>9, <1>10, <1>11,
             AloneMiss, OperatorSilent
          DEF Next, OperatorStep, WorkerStep, SchedulerStep, Kept

\* Where nobody operates, the invariant of the lone broker holds throughout.
LEMMA AloneInvariant ==
  ASSUME NoOperator
  PROVE  Spec => []AloneInv
  <1>1. Init => AloneInv
    <2> SUFFICES ASSUME Init PROVE AloneInv
      OBVIOUS
    <2>1. MaxAttempts \in [Jobs -> Nat \ {0}] /\ spent["throttle"] = 0
      BY MaxAttemptsAssumption DEF Init, EnvKinds
    <2>2. \A j \in Jobs : HomeIs(j)
      BY DEF Init, HomeIs, Waiting
    <2>3. AttemptsBounded /\ \A j \in Jobs : AttemptLeft(j)
      BY <2>1 DEF Init, AttemptsBounded, AttemptLeft, Waiting
    <2>4. \A j \in Jobs : cancelCall[j].state = "none"
      BY DEF Init, NoCall
    <2> QED BY <2>2, <2>3, <2>4 DEF AloneInv
  <1>2. BrokerInv /\ AloneInv /\ [Next]_vars => AloneInv'
    BY AloneStep
  <1> QED BY <1>1, <1>2, BrokerInvariant, PTL DEF Spec

\* Without operators a live job is in exactly one place and a finished one in
\* none, whatever workers crash or stall: it never runs twice at once.
THEOREM EveryJobHasOneHome ==
  ASSUME NoOperator
  PROVE  Spec => []OneHome
  <1>1. BrokerInv /\ AloneInv => OneHome
    <2> SUFFICES ASSUME BrokerInv, AloneInv, NEW j \in Jobs
                 PROVE  /\ \A l \in Lanes : ready[l][j] > 0 => l = lane[j] /\ ready[l][j] = 1
                        /\ Entries(j) # {} <=> state[j] = "queued"
                        /\ j \in delayed <=> state[j] \in Waiting
                        /\ j \in leases <=> state[j] = "active"
      BY DEF OneHome
    <2>1. HomeIs(j) /\ lane[j] \in Lanes
      BY DEF BrokerInv, TypeOK, AloneInv
    <2>2. Entries(j) # {} <=> state[j] = "queued"
      BY <2>1 DEF HomeIs, Entries
    <2> QED BY <2>1, <2>2 DEF HomeIs
  <1> QED BY <1>1, BrokerInvariant, AloneInvariant, PTL

\* Without operators a job uses no more attempts than its maximum and the ones
\* that throttling spent.
THEOREM AttemptsStayBounded ==
  ASSUME NoOperator
  PROVE  Spec => []AttemptsBounded
  <1>1. AloneInv => AttemptsBounded
    BY DEF AloneInv
  <1> QED BY <1>1, AloneInvariant, PTL

\* Without operators a finished job stays as it finished: no late
\* acknowledgement, activation or recovery reopens it.
THEOREM FinishedStaysFinished ==
  ASSUME NoOperator
  PROVE  Spec => FinishedIsFinal
  <1>1. BrokerInv /\ AloneInv /\ [Next]_vars
          => [\A j \in Jobs : state[j] \in Terminal => state'[j] = state[j]]_vars
    BY AloneStep
  <1> QED BY <1>1, BrokerInvariant, AloneInvariant, PTL DEF Spec, FinishedIsFinal

=============================================================================
