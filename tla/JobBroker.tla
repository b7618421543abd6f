------------------------------ MODULE JobBroker ------------------------------
(***************************************************************************)
(* The Redis broker (libs/backend/queue/redis.go) together with the parts  *)
(* of the worker runtime, the scheduler and the manager that call it.      *)
(*                                                                         *)
(* Every Lua script and every TxPipeline is one atomic step; a Go method   *)
(* that makes two round trips (Dequeue, Cancel) is two steps.  Real time   *)
(* appears only through the two questions the scripts ask of it: which     *)
(* delayed jobs are due, and which leases have expired.                    *)
(***************************************************************************)
EXTENDS Naturals, FiniteSets, Sequences

CONSTANTS
  Jobs,             \* job ids
  NoJob,            \* "no id": an empty LPOP, an idle worker slot
  Slots,            \* executing goroutines: worker processes times concurrency
  Queues,           \* queue names
  Priorities,       \* priority levels
  ReadyKeys,        \* readyKeysForQueues: the lists in the order Dequeue scans
  MaxAttempts,      \* [Jobs -> positive number]: the max_attempts field
  ActivationBatch,  \* LIMIT of activateDueLua
  RecoveryBatch,    \* LIMIT of recoverExpiredLua
  Budget            \* bound on each kind of environment step, see Spend

\* One ready list per queue and priority: queue/keys.go ReadyKey.
Lanes == Queues \X Priorities

\* What the environment does a bounded number of times: worker crashes,
\* denials by the rate limiter, manual retries or replays, cancellations and
\* enqueues of a dependent job by resolveDependents.
EnvKinds == {"crash", "throttle", "retry", "cancel", "unblock"}

ASSUME JobsAssumption == NoJob \notin Jobs
ASSUME LanesAssumption == Queues # {} /\ Priorities # {}
ASSUME ReadyKeysAssumption ==
  /\ ReadyKeys \in Seq(Lanes)
  /\ \A a, b \in 1..Len(ReadyKeys) : ReadyKeys[a] = ReadyKeys[b] => a = b
ASSUME MaxAttemptsAssumption == MaxAttempts \in [Jobs -> Nat \ {0}]
ASSUME BatchAssumption ==
  /\ ActivationBatch \in Nat \ {0}
  /\ RecoveryBatch \in Nat \ {0}
ASSUME BudgetAssumption == Budget \in [EnvKinds -> Nat]

VARIABLES
  state,      \* [Jobs -> States]: field state; "none" before the hash exists
  attempts,   \* field attempts
  token,      \* field lease_token; 0 is the empty string
  cancelReq,  \* field cancel_requested
  lane,       \* fields queue and priority
  grants,     \* leases granted so far; the n-th grant of a job has token n (in
              \* the code a hash of worker, job and millisecond, taken as unique)
  ready,      \* [Lanes -> [Jobs -> Nat]]: occurrences of each id in each list
  delayed,    \* members of the delayed sorted set
  due,        \* the members of delayed whose score has passed
  leases,     \* members of the active-leases sorted set
  expired,    \* the members of leases whose score has passed
  dlq,        \* [Queues -> SUBSET Jobs]: the dead-letter lists
  rows,       \* <<job, lane>>: the jobs a resolver may find in PostgreSQL, with
              \* the queue and priority of the row, which a replay does not change
  run,        \* [Slots -> Runs]: what each worker slot is doing
  cancelCall, \* [Jobs -> CancelCalls]: Cancel between LoadJob and its pipeline
  spent       \* how much of each Budget is used

hashVars == <<state, attempts, token, cancelReq, lane, grants>>
listVars == <<ready, delayed, due, leases, expired, dlq>>
vars == <<hashVars, listVars, rows, run, cancelCall, spent>>

JobStates == {"queued", "scheduled", "blocked", "active", "retrying",
              "throttled", "completed", "failed", "canceled"}
States == JobStates \cup {"none"}
Terminal == {"completed", "failed", "canceled"}
\* The states in which dequeueLua leases a popped id.
Leasable == {"queued", "retrying", "scheduled"}
\* The states in which the job waits in the delayed set.
Waiting == {"scheduled", "retrying", "throttled"}
\* The states in which Cancel takes the job out of the queues.
Cancelable == {"queued", "scheduled", "retrying", "throttled", "failed", "blocked"}

\* The stages of process(): Lua grant made, hash loaded, handler running; a
\* stage named after a job state means the broker has accepted that outcome
\* and process() has its bookkeeping left.
Acked == {"completed", "retrying", "failed", "throttled"}
Stages == {"granted", "loaded", "running"} \cup Acked
CancelCalls == [state : States, lane : Lanes]

AnyLane == CHOOSE l \in Lanes : TRUE
Idle == [pc |-> "idle", job |-> NoJob, token |-> 0,
         attempts |-> 0, lane |-> AnyLane, beating |-> FALSE]
Runs == {Idle} \cup [pc : Stages, job : Jobs, token : Nat \ {0},
                     attempts : Nat, lane : Lanes, beating : BOOLEAN]
Granted(j) == [pc |-> "granted", job |-> j, token |-> grants[j] + 1,
               attempts |-> 0, lane |-> AnyLane, beating |-> FALSE]
NoCall == [state |-> "none", lane |-> AnyLane]

Init ==
  /\ state = [j \in Jobs |-> "none"]
  /\ attempts = [j \in Jobs |-> 0]
  /\ token = [j \in Jobs |-> 0]
  /\ cancelReq = [j \in Jobs |-> FALSE]
  /\ lane = [j \in Jobs |-> AnyLane]
  /\ grants = [j \in Jobs |-> 0]
  /\ ready = [l \in Lanes |-> [j \in Jobs |-> 0]]
  /\ delayed = {} /\ due = {}
  /\ leases = {} /\ expired = {}
  /\ dlq = [q \in Queues |-> {}]
  /\ rows = {}
  /\ run = [w \in Slots |-> Idle]
  /\ cancelCall = [j \in Jobs |-> NoCall]
  /\ spent = [e \in EnvKinds |-> 0]

Spend(kind) ==
  /\ spent[kind] < Budget[kind]
  /\ spent' = [spent EXCEPT ![kind] = @ + 1]

\* Mutant: pushes to the list of the queue and priority the job had before.
LPushOldLane(l, j) == [ready EXCEPT ![lane[j]][j] = @ + 1]

LPush(l, j) == [ready EXCEPT ![l][j] = @ + 1]

\* LREM with count 0 takes every occurrence.
LRem(l, j) == [ready EXCEPT ![l][j] = 0]

\* Mutant: the expiry score is not written.
LeaseUnscored(j) == leases' = leases /\ expired' = expired \ {j}

\* ZADD of a fresh expiry to the active leases.
Lease(j) ==
  /\ leases' = leases \cup {j}
  /\ expired' = expired \ {j}

\* Mutant: the token survives the lease.
EndLeasesKeepToken(B) ==
  leases' = leases \ B /\ expired' = expired \ B /\ token' = token

\* ZREM from the active leases and an empty lease_token.
EndLeases(B) ==
  /\ leases' = leases \ B
  /\ expired' = expired \ B
  /\ token' = [j \in Jobs |-> IF j \in B THEN 0 ELSE token[j]]

\* ZADD to the delayed set with a score in the future.
Delay(B) ==
  /\ delayed' = delayed \cup B
  /\ due' = due \ B

-----------------------------------------------------------------------------
(* Time.                                                                   *)

\* The clock passes the score of a delayed job.
ComesDue(j) ==
  /\ j \in delayed \ due
  /\ due' = due \cup {j}
  /\ UNCHANGED <<hashVars, ready, delayed, leases, expired, dlq,
                 rows, run, cancelCall, spent>>

\* The clock passes the expiry of a lease nobody renewed in time.
LeaseLapses(j) ==
  /\ j \in leases \ expired
  /\ expired' = expired \cup {j}
  /\ UNCHANGED <<hashVars, ready, delayed, due, leases, dlq,
                 rows, run, cancelCall, spent>>

-----------------------------------------------------------------------------
(* Submission.                                                             *)

\* Mutant: the stored lease token is left in the hash.
PutJobKeepToken(j, l, s, canceled) ==
  /\ state' = [state EXCEPT ![j] = s]
  /\ attempts' = [attempts EXCEPT ![j] = 0]
  /\ cancelReq' = [cancelReq EXCEPT ![j] = canceled]
  /\ lane' = [lane EXCEPT ![j] = l]
  /\ ready' = IF s = "queued" THEN LPush(l, j) ELSE ready
  /\ IF s = "scheduled" THEN Delay({j}) ELSE UNCHANGED <<delayed, due>>
  /\ UNCHANGED <<token, grants, leases, expired, dlq, run, cancelCall>>

\* Enqueue writes the whole hash from the job h it is given and files the id
\* by the job's state.
WriteHash(j, l, s, h) ==
  /\ state' = [state EXCEPT ![j] = s]
  /\ attempts' = [attempts EXCEPT ![j] = h.attempts]
  /\ token' = [token EXCEPT ![j] = h.token]
  /\ cancelReq' = [cancelReq EXCEPT ![j] = h.cancel]
  /\ lane' = [lane EXCEPT ![j] = l]
  /\ ready' = IF s = "queued" THEN LPush(l, j) ELSE ready
  /\ IF s = "scheduled" THEN Delay({j}) ELSE UNCHANGED <<delayed, due>>
  /\ UNCHANGED <<grants, leases, expired, dlq, run, cancelCall>>

\* Enqueue of a job that has never run.
PutJob(j, l, s, canceled) ==
  WriteHash(j, l, s, [attempts |-> 0, token |-> 0, cancel |-> canceled])

\* EnqueueJob of a new job: buildJob picks queued or, with a run time in the
\* future, scheduled; with dependencies it is blocked and enters no queue.
Enqueue(j, l) ==
  /\ state[j] = "none"
  /\ \/ \E s \in {"queued", "scheduled"} :
          PutJob(j, l, s, FALSE) /\ rows' = rows
     \/ /\ Budget["unblock"] > 0
        /\ PutJob(j, l, "blocked", FALSE)
        /\ rows' = rows \cup {<<j, l>>}
  /\ UNCHANGED spent

\* cancel_requested in a copy of a row, which lags behind the hash.
CopiedCancel == {c \in BOOLEAN : c => spent["cancel"] > 0}

\* resolveDependents enqueues a job it read as blocked from PostgreSQL, where
\* the state lags behind Redis: a late resolver does so whatever has become
\* of the job since.  The row it read is one no worker had marked active yet;
\* Workflow has the others.
Unblock(j) ==
  /\ Spend("unblock")
  /\ \E l \in Lanes, s \in {"queued", "scheduled"}, c \in CopiedCancel :
       <<j, l>> \in rows /\ PutJob(j, l, s, c)
  /\ UNCHANGED rows

-----------------------------------------------------------------------------
(* Worker: Runtime.Run and process().                                      *)

\* The scan of dequeueLua up to the n-th list: LPOP takes one id from every
\* list that has one.  Which of its ids is on top is left open.
Scanned(pop, n) ==
  \A l \in Lanes :
    IF \E i \in 1..n : ReadyKeys[i] = l /\ \E j \in Jobs : ready[l][j] > 0
    THEN pop[l] \in {j \in Jobs : ready[l][j] > 0}
    ELSE pop[l] = NoJob

AfterPops(pop) ==
  [l \in Lanes |-> [j \in Jobs |->
     IF pop[l] = j THEN ready[l][j] - 1 ELSE ready[l][j]]]

\* A popped id that the scan discards: its job is not in a leasable state.
Discarded(id) == id \in Jobs => state[id] \notin Leasable

\* dequeueLua leases the first leasable id it pops; the ids it popped before
\* are gone from their lists.
DequeueGrant(w, j) ==
  /\ run[w].pc = "idle"
  /\ state[j] \in Leasable
  /\ \E n \in 1..Len(ReadyKeys), pop \in [Lanes -> Jobs \cup {NoJob}] :
       /\ Scanned(pop, n)
       /\ pop[ReadyKeys[n]] = j
       /\ \A i \in 1..(n - 1) : Discarded(pop[ReadyKeys[i]])
       /\ ready' = AfterPops(pop)
  /\ state' = [state EXCEPT ![j] = "active"]
  /\ attempts' = [attempts EXCEPT ![j] = @ + 1]
  /\ grants' = [grants EXCEPT ![j] = @ + 1]
  /\ token' = [token EXCEPT ![j] = grants[j] + 1]
  /\ Lease(j)
  /\ run' = [run EXCEPT ![w] = Granted(j)]
  /\ UNCHANGED <<cancelReq, lane, delayed, due, dlq, rows, cancelCall, spent>>

\* The scan reaches the last list and has discarded everything it popped.
DequeueMiss(w) ==
  /\ run[w].pc = "idle"
  /\ \E pop \in [Lanes -> Jobs \cup {NoJob}] :
       /\ Scanned(pop, Len(ReadyKeys))
       /\ \A l \in Lanes : Discarded(pop[l])
       /\ \E l \in Lanes : pop[l] # NoJob
       /\ ready' = AfterPops(pop)
  /\ UNCHANGED <<hashVars, delayed, due, leases, expired, dlq, rows, run,
                 cancelCall, spent>>

\* The second half of Dequeue reads the hash, which may have changed since
\* the grant.
LoadLeased(w) ==
  /\ run[w].pc = "granted"
  /\ LET j == run[w].job IN
       run' = [run EXCEPT ![w] = [@ EXCEPT !.pc = "loaded",
                                   !.attempts = attempts[j], !.lane = lane[j]]]
  /\ UNCHANGED <<hashVars, listVars, rows, cancelCall, spent>>

\* The limiter lets the job pass; the handler and its heartbeat loop start.
Start(w) ==
  /\ run[w].pc = "loaded"
  /\ run' = [run EXCEPT ![w] = [@ EXCEPT !.pc = "running", !.beating = TRUE]]
  /\ UNCHANGED <<hashVars, listVars, rows, cancelCall, spent>>

\* The comparison all acknowledging scripts start with.
HoldsToken(w) == token[run[w].job] = run[w].token

\* heartbeatLua renews an active job's lease for the token's holder.  On a
\* rejection the heartbeat loop ends while the handler goes on.
Heartbeat(w) ==
  /\ run[w].pc = "running" /\ run[w].beating
  /\ IF HoldsToken(w) /\ state[run[w].job] = "active"
     THEN Lease(run[w].job) /\ UNCHANGED run
     ELSE /\ run' = [run EXCEPT ![w] = [@ EXCEPT !.beating = FALSE]]
          /\ UNCHANGED <<leases, expired>>
  /\ UNCHANGED <<hashVars, ready, delayed, due, dlq, rows, cancelCall, spent>>

\* A heartbeat that fails with an error ends the loop as well.
HeartbeatError(w) ==
  /\ run[w].pc = "running" /\ run[w].beating
  /\ Spend("crash")
  /\ run' = [run EXCEPT ![w] = [@ EXCEPT !.beating = FALSE]]
  /\ UNCHANGED <<hashVars, listVars, rows, cancelCall>>

\* What completeLua, failLua and throttleLua share: they give up the lease
\* and clear the token.
Settle(w, s) ==
  LET j == run[w].job IN
  /\ EndLeases({j})
  /\ state' = [state EXCEPT ![j] = s]
  /\ run' = [run EXCEPT ![w] = [@ EXCEPT !.pc = s, !.beating = FALSE]]

\* The script found another token, or the call failed: process() returns.
Abandon(w) == run' = [run EXCEPT ![w] = Idle]

\* The handler succeeded and the broker accepts the result.
Complete(w) ==
  /\ run[w].pc = "running"
  /\ HoldsToken(w)
  /\ Settle(w, "completed")
  /\ UNCHANGED <<attempts, cancelReq, lane, grants, ready, delayed, due, dlq,
                 rows, cancelCall, spent>>

\* The handler failed (or there is none for the type): handleFailure decides
\* from the attempts it loaded whether to retry or to dead-letter.
Fail(w) ==
  /\ run[w].pc = "running"
  /\ HoldsToken(w)
  /\ LET j == run[w].job  q == run[w].lane[1] IN
       IF run[w].attempts < MaxAttempts[j]
       THEN Settle(w, "retrying") /\ Delay({j}) /\ UNCHANGED dlq
       ELSE /\ Settle(w, "failed")
            /\ dlq' = [dlq EXCEPT ![q] = @ \cup {j}]
            /\ UNCHANGED <<delayed, due>>
  /\ UNCHANGED <<attempts, cancelReq, lane, grants, ready, rows, cancelCall,
                 spent>>

\* The limiter denies the job or cannot be asked: throttle() parks it.
Throttle(w) ==
  /\ run[w].pc = "loaded"
  /\ HoldsToken(w)
  /\ Spend("throttle")
  /\ Settle(w, "throttled")
  /\ Delay({run[w].job})
  /\ UNCHANGED <<attempts, cancelReq, lane, grants, ready, dlq, rows,
                 cancelCall>>

\* Complete, Fail or RequeueThrottled of a slot whose token was replaced.
AckRejected(w) ==
  /\ run[w].pc \in {"loaded", "running"}
  /\ ~HoldsToken(w)
  /\ Abandon(w)
  /\ UNCHANGED <<hashVars, listVars, rows, cancelCall, spent>>

\* process() ends after its bookkeeping and frees the slot.
Return(w) ==
  /\ run[w].pc \in Acked
  /\ run' = [run EXCEPT ![w] = Idle]
  /\ UNCHANGED <<hashVars, listVars, rows, cancelCall, spent>>

\* The worker process dies, is shut down, or the call to Redis fails: the run
\* ends and Redis is left as it is.
Crash(w) ==
  /\ run[w].pc # "idle"
  /\ Spend("crash")
  /\ Abandon(w)
  /\ UNCHANGED <<hashVars, listVars, rows, cancelCall>>

-----------------------------------------------------------------------------
(* Scheduler.                                                              *)

\* activateDueLua moves a batch of due jobs to their ready lists.  It does
\* not look at the state it overwrites.
ActivateDue(B) ==
  /\ B # {} /\ B \subseteq due /\ Cardinality(B) <= ActivationBatch
  /\ delayed' = delayed \ B
  /\ due' = due \ B
  /\ state' = [j \in Jobs |-> IF j \in B THEN "queued" ELSE state[j]]
  /\ token' = [j \in Jobs |-> IF j \in B THEN 0 ELSE token[j]]
  /\ ready' = [l \in Lanes |-> [j \in Jobs |->
       IF j \in B /\ lane[j] = l THEN ready[l][j] + 1 ELSE ready[l][j]]]
  /\ UNCHANGED <<attempts, cancelReq, lane, grants, leases, expired, dlq,
                 rows, run, cancelCall, spent>>

\* Mutant: one attempt too many.
RecoveryStateOffByOne(j) ==
  CASE cancelReq[j] -> "canceled"
    [] ~cancelReq[j] /\ attempts[j] <= MaxAttempts[j] -> "retrying"
    [] OTHER -> "failed"

\* Where recoverExpiredLua sends a job whose lease ran out.
RecoveryState(j) ==
  CASE cancelReq[j] -> "canceled"
    [] ~cancelReq[j] /\ attempts[j] < MaxAttempts[j] -> "retrying"
    [] OTHER -> "failed"

\* Mutant: recovery gives the lost attempt back, also one a retry has reset.
RecoverExpiredRefunds(B) ==
  LET retried == {j \in B : RecoveryState(j) = "retrying"}
      dead == {j \in B : RecoveryState(j) = "failed"} IN
  /\ B # {} /\ B \subseteq expired /\ Cardinality(B) <= RecoveryBatch
  /\ EndLeases(B)
  /\ state' = [j \in Jobs |-> IF j \in B THEN RecoveryState(j) ELSE state[j]]
  /\ Delay(retried)
  /\ dlq' = [q \in Queues |-> dlq[q] \cup {j \in dead : lane[j][1] = q}]
  /\ attempts' = [j \in Jobs |-> IF j \in B THEN attempts[j] - 1 ELSE attempts[j]]
  /\ UNCHANGED <<cancelReq, lane, grants, ready, rows, run, cancelCall, spent>>

\* recoverExpiredLua ends a batch of expired leases.
RecoverExpired(B) ==
  LET retried == {j \in B : RecoveryState(j) = "retrying"}
      dead == {j \in B : RecoveryState(j) = "failed"} IN
  /\ B # {} /\ B \subseteq expired /\ Cardinality(B) <= RecoveryBatch
  /\ EndLeases(B)
  /\ state' = [j \in Jobs |-> IF j \in B THEN RecoveryState(j) ELSE state[j]]
  /\ Delay(retried)
  /\ dlq' = [q \in Queues |-> dlq[q] \cup {j \in dead : lane[j][1] = q}]
  /\ UNCHANGED <<attempts, cancelReq, lane, grants, ready, rows, run,
                 cancelCall, spent>>

-----------------------------------------------------------------------------
(* Operator.                                                               *)

\* Mutant: the token of the lease a running worker holds stays valid.
RetryKeepToken(j, l) ==
  /\ state[j] # "none"
  /\ Spend("retry")
  /\ state' = [state EXCEPT ![j] = "queued"]
  /\ attempts' = [attempts EXCEPT ![j] = 0]
  /\ cancelReq' = [cancelReq EXCEPT ![j] = FALSE]
  /\ lane' = [lane EXCEPT ![j] = l]
  /\ ready' = LPush(l, j)
  /\ dlq' = [dlq EXCEPT ![l[1]] = @ \ {j}]
  /\ UNCHANGED <<token, grants, delayed, due, leases, expired, rows, run,
                 cancelCall>>

\* Retry, called by RetryJob and ReplayDeadLetters for a job in any state; a
\* replay may name another queue or priority.  Of a job whose EnqueueJob has
\* written the hash: Retry itself writes without looking, and before that the
\* hash would lack fields a worker needs and this module does not have.
Retry(j, l) ==
  /\ state[j] # "none"
  /\ Spend("retry")
  /\ state' = [state EXCEPT ![j] = "queued"]
  /\ attempts' = [attempts EXCEPT ![j] = 0]
  /\ token' = [token EXCEPT ![j] = 0]
  /\ cancelReq' = [cancelReq EXCEPT ![j] = FALSE]
  /\ lane' = [lane EXCEPT ![j] = l]
  /\ ready' = LPush(l, j)
  /\ dlq' = [dlq EXCEPT ![l[1]] = @ \ {j}]
  /\ UNCHANGED <<grants, delayed, due, leases, expired, rows, run, cancelCall>>

\* Cancel reads the hash first ...
CancelLoad(j) ==
  /\ state[j] # "none"
  /\ cancelCall[j].state = "none"
  /\ Spend("cancel")
  /\ cancelCall' = [cancelCall EXCEPT ![j] = [state |-> state[j], lane |-> lane[j]]]
  /\ UNCHANGED <<hashVars, listVars, rows, run>>

\* ... and then writes what the state it read calls for.
CancelApply(j) ==
  LET seen == cancelCall[j] IN
  /\ seen.state # "none"
  /\ cancelReq' = [cancelReq EXCEPT ![j] = TRUE]
  /\ IF seen.state \in Cancelable
     THEN /\ state' = [state EXCEPT ![j] = "canceled"]
          /\ ready' = LRem(seen.lane, j)
          /\ delayed' = delayed \ {j}
          /\ due' = due \ {j}
          /\ dlq' = [dlq EXCEPT ![seen.lane[1]] = @ \ {j}]
     ELSE UNCHANGED <<state, ready, delayed, due, dlq>>
  /\ cancelCall' = [cancelCall EXCEPT ![j] = NoCall]
  /\ UNCHANGED <<attempts, token, lane, grants, leases, expired, rows, run, spent>>

-----------------------------------------------------------------------------
TimeStep(j) == ComesDue(j) \/ LeaseLapses(j)

WorkerStep(w) ==
  \/ \E j \in Jobs : DequeueGrant(w, j)
  \/ DequeueMiss(w) \/ LoadLeased(w) \/ Start(w)
  \/ Heartbeat(w) \/ HeartbeatError(w)
  \/ Complete(w) \/ Fail(w) \/ Throttle(w) \/ AckRejected(w)
  \/ Return(w) \/ Crash(w)

SchedulerStep ==
  \E B \in SUBSET Jobs : ActivateDue(B) \/ RecoverExpired(B)

OperatorStep(j) ==
  \/ \E l \in Lanes : Enqueue(j, l) \/ Retry(j, l)
  \/ Unblock(j) \/ CancelLoad(j) \/ CancelApply(j)

Next ==
  \/ \E j \in Jobs : TimeStep(j) \/ OperatorStep(j)
  \/ \E w \in Slots : WorkerStep(w)
  \/ SchedulerStep

Spec == Init /\ [][Next]_vars

\* What the processes' loops guarantee: a worker polls and its handlers end
\* (every job has a timeout or ends by itself), the scheduler's tickers fire,
\* the clock moves on.  Crashes and operators promise nothing.
Fairness ==
  /\ WF_vars(\E w \in Slots, j \in Jobs : DequeueGrant(w, j))
  /\ WF_vars(\E w \in Slots : DequeueMiss(w))
  /\ \A w \in Slots :
       /\ WF_vars(LoadLeased(w))
       /\ WF_vars(Start(w))
       /\ WF_vars(Complete(w) \/ Fail(w) \/ AckRejected(w))
       /\ WF_vars(Return(w))
  /\ \A j \in Jobs :
       /\ WF_vars(ComesDue(j))
       /\ WF_vars(LeaseLapses(j))
       /\ WF_vars(\E B \in SUBSET Jobs : j \in B /\ ActivateDue(B))
       /\ WF_vars(\E B \in SUBSET Jobs : j \in B /\ RecoverExpired(B))
       /\ WF_vars(CancelApply(j))

FairSpec == Spec /\ Fairness

-----------------------------------------------------------------------------
(* Properties.                                                             *)

TypeOK ==
  /\ state \in [Jobs -> States]
  /\ attempts \in [Jobs -> Nat]
  /\ token \in [Jobs -> Nat]
  /\ cancelReq \in [Jobs -> BOOLEAN]
  /\ lane \in [Jobs -> Lanes]
  /\ grants \in [Jobs -> Nat]
  /\ ready \in [Lanes -> [Jobs -> Nat]]
  /\ delayed \subseteq Jobs /\ due \subseteq delayed
  /\ leases \subseteq Jobs /\ expired \subseteq leases
  /\ dlq \in [Queues -> SUBSET Jobs]
  /\ rows \subseteq Jobs \X Lanes
  /\ run \in [Slots -> Runs]
  /\ cancelCall \in [Jobs -> CancelCalls]
  /\ spent \in [EnvKinds -> Nat]

\* Every active job is in the active-leases set, so the scheduler's scan can
\* find it when its worker dies; no retry, replay, cancellation or repeated
\* enqueue takes a running job out of the reaper's sight.
ActiveIsLeased ==
  \A j \in Jobs : state[j] = "active" => j \in leases

\* No job is lost: a queued job has an entry in the ready list of its queue
\* and priority, and a job that waits for its time is in the delayed set.
NoJobLost ==
  \A j \in Jobs :
    /\ state[j] = "queued" => ready[lane[j]][j] > 0
    /\ state[j] \in Waiting => j \in delayed

\* A permanently failed job can be found in its queue's dead-letter list,
\* whether its last run failed or its lease ran out.
FailedIsDeadLettered ==
  \A j \in Jobs : state[j] = "failed" => j \in dlq[lane[j][1]]

\* Fencing: among all the runs of a job, live, stalled or forgotten, only the
\* latest grant can still settle it, and the copy of the attempt counter that
\* decides between retry and dead letter is then the current one.
OnlyLatestGrantSettles ==
  \A w \in Slots :
    run[w].pc \in {"loaded", "running"} /\ HoldsToken(w) =>
      /\ run[w].token = grants[run[w].job]
      /\ run[w].attempts = attempts[run[w].job]
      /\ run[w].lane = lane[run[w].job]
      /\ run[w].job \in leases

\* Without retries, cancellations and dependent jobs, a live job is in exactly
\* one place, one ready list entry, the delayed set or the leases, and a
\* finished job in none: it can neither run twice at once nor come back.
Entries(j) == {l \in Lanes : ready[l][j] > 0}
OneHome ==
  \A j \in Jobs :
    LET inReady == Entries(j) # {} IN
    /\ \A l \in Lanes : ready[l][j] > 0 => l = lane[j] /\ ready[l][j] = 1
    /\ inReady <=> state[j] = "queued"
    /\ j \in delayed <=> state[j] \in Waiting
    /\ j \in leases <=> state[j] = "active"

\* Without operators the attempt counter passes max_attempts only by what
\* throttling used up: dequeueLua counts an attempt that the limiter then
\* denies, and throttleLua does not take it back.
AttemptsBounded ==
  \A j \in Jobs : attempts[j] <= MaxAttempts[j] + spent["throttle"]

\* Without operators a finished job stays as it finished: no late
\* acknowledgement, activation or recovery reopens it.
FinishedIsFinal ==
  [][\A j \in Jobs : state[j] \in Terminal => state'[j] = state[j]]_vars

\* At-least-once delivery: every job that enters the queues is completed,
\* dead-lettered or canceled in the end, whatever workers crash or stall.
EveryJobFinishes ==
  \A j \in Jobs : (state[j] \notin {"none", "blocked"}) ~> (state[j] \in Terminal)

\* README "Job state machine": a job leaves completed only when an operator
\* retries or replays it.
CompletedLeavesByRetry ==
  [][\A j \in Jobs : state[j] = "completed" /\ state'[j] # "completed"
        => \E l \in Lanes : Retry(j, l)]_vars

=============================================================================
