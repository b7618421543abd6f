---------------------------- MODULE CronDispatch -----------------------------
(***************************************************************************)
(* The scheduler's leader election and cron dispatch: the loop of          *)
(* libs/backend/scheduler/service.go over the Redis leader key and the     *)
(* dispatch keys of libs/backend/leadership/redis.go, and the next_run_at  *)
(* column of the schedules.                                                *)
(*                                                                         *)
(* Cron fires at every tick of the clock, so the run after a time t is at  *)
(* t + 1.  Leadership may expire at any moment: no bound on how long a     *)
(* scheduler is stalled is assumed.  Every call to Redis or PostgreSQL is  *)
(* one step.                                                               *)
(***************************************************************************)
EXTENDS Naturals, FiniteSets

CONSTANTS
  Schedulers,  \* scheduler processes
  Schedules,   \* cron schedules
  MaxClock,    \* the model ends at this time
  ClaimTTL,    \* life of a dispatch key (24 hours), in ticks of the clock
  Budget       \* bound on each kind of environment step, see Spend

EnvKinds == {"crash", "error", "edit"}
Times == 0..(MaxClock + 1)

ASSUME ClockAssumption == MaxClock \in Nat /\ ClaimTTL \in Nat
ASSUME CronBudgetAssumption == Budget \in [EnvKinds -> Nat]

VARIABLES
  clock,
  leader,      \* the token in the leader hash; 0 when there is no hash
  issued,      \* tokens generated so far (uuid.NewString)
  next,        \* [Schedules -> Times]: next_run_at
  claims,      \* dispatch keys: <<schedule, slot, time of the claim>>
  dispatched,  \* [Schedules -> [Times -> Nat]]: jobs enqueued for each slot
  proc,        \* [Schedulers -> Procs]: token, isLeader and where the loop is
  spent

vars == <<clock, leader, issued, next, claims, dispatched, proc, spent>>

\* "loop" is the select; "list" to "update" is runDueSchedules.
Pcs == {"loop", "list", "each", "enqueue", "update"}
Procs == [pc : Pcs, token : Nat, isLeader : BOOLEAN, now : 0..MaxClock,
          todo : SUBSET (Schedules \X Times), cur : SUBSET (Schedules \X Times)]

Fresh == [pc |-> "loop", token |-> 0, isLeader |-> FALSE, now |-> 0,
          todo |-> {}, cur |-> {}]

Init ==
  /\ clock = 0
  /\ leader = 0 /\ issued = 0
  /\ next = [c \in Schedules |-> 1]
  /\ claims = {}
  /\ dispatched = [c \in Schedules |-> [t \in Times |-> 0]]
  /\ proc = [s \in Schedulers |-> Fresh]
  /\ spent = [e \in EnvKinds |-> 0]

Spend(kind) ==
  /\ spent[kind] < Budget[kind]
  /\ spent' = [spent EXCEPT ![kind] = @ + 1]

\* Mutant: one firing is skipped.
NextRunSkips(now) == now + 2

\* nextRun: the first firing time strictly after now.
NextRun(now) == now + 1

-----------------------------------------------------------------------------
(* Time.                                                                   *)

ClockTicks ==
  /\ clock < MaxClock
  /\ clock' = clock + 1
  /\ UNCHANGED <<leader, issued, next, claims, dispatched, proc, spent>>

\* PEXPIRE removes the leader hash: nobody renewed it in time.
LeadershipExpires ==
  /\ leader # 0
  /\ leader' = 0
  /\ UNCHANGED <<clock, issued, next, claims, dispatched, proc, spent>>

\* The dispatch key reaches the end of its life.
ClaimExpires(k) ==
  /\ k \in claims /\ k[3] + ClaimTTL <= clock
  /\ claims' = claims \ {k}
  /\ UNCHANGED <<clock, leader, issued, next, dispatched, proc, spent>>

-----------------------------------------------------------------------------
(* Leadership.                                                             *)

\* TryAcquire generates a token if the scheduler has none ...
OwnToken(s) == IF proc[s].token = 0 THEN issued + 1 ELSE proc[s].token

\* ... and acquireLeaderLua creates the hash or renews it for its token.
Acquires(s) == leader \in {0, OwnToken(s)}

AcquireScript(s) ==
  /\ issued' = IF proc[s].token = 0 THEN issued + 1 ELSE issued
  /\ leader' = IF Acquires(s) THEN OwnToken(s) ELSE leader

\* ensureLeadership; pc is where the loop goes next.
EnsureLeadership(s, pc) ==
  /\ AcquireScript(s)
  /\ proc' = [proc EXCEPT ![s] = [@ EXCEPT !.pc = pc, !.token = OwnToken(s),
                                           !.isLeader = Acquires(s)]]

\* The leadership ticker.
LeaderTick(s) ==
  /\ proc[s].pc = "loop"
  /\ EnsureLeadership(s, "loop")
  /\ UNCHANGED <<clock, next, claims, dispatched, spent>>

\* The cron ticker: shouldRun checks leadership, then the pass begins.
CronTick(s) ==
  /\ proc[s].pc = "loop"
  /\ EnsureLeadership(s, IF Acquires(s) THEN "list" ELSE "loop")
  /\ UNCHANGED <<clock, next, claims, dispatched, spent>>

\* The script ran but its reply is lost: ensureLeadership returns early and a
\* token generated in this call is forgotten.
AcquireReplyLost(s) ==
  /\ proc[s].pc = "loop"
  /\ Spend("error")
  /\ AcquireScript(s)
  /\ UNCHANGED <<clock, next, claims, dispatched, proc>>

\* A scheduler that is shut down releases the key if it still has its token.
Shutdown(s) ==
  /\ proc[s].pc = "loop"
  /\ Spend("crash")
  /\ leader' = IF leader = proc[s].token THEN 0 ELSE leader
  /\ proc' = [proc EXCEPT ![s] = Fresh]
  /\ UNCHANGED <<clock, issued, next, claims, dispatched>>

\* A crash at any point; the process restarts without a token.
CrashScheduler(s) ==
  /\ Spend("crash")
  /\ proc' = [proc EXCEPT ![s] = Fresh]
  /\ UNCHANGED <<clock, leader, issued, next, claims, dispatched>>

-----------------------------------------------------------------------------
(* runDueSchedules.                                                        *)

Goto(s, pc, todo, cur) ==
  proc' = [proc EXCEPT ![s] = [@ EXCEPT !.pc = pc, !.todo = todo, !.cur = cur]]

\* ListDueSchedules: copies of the schedules that are due now.
ListDueSchedules(s) ==
  /\ proc[s].pc = "list"
  /\ proc' = [proc EXCEPT ![s] = [@ EXCEPT !.pc = "each", !.now = clock,
                !.todo = {<<c, next[c]>> : c \in {x \in Schedules : next[x] <= clock}}]]
  /\ UNCHANGED <<clock, leader, issued, next, claims, dispatched, spent>>

\* Mutants: the claim is not exclusive; the key does not name the slot.
ClaimedNever(d) == FALSE
ClaimedAnySlot(d) == \E k \in claims : k[1] = d[1]

Claimed(d) == \E k \in claims : <<k[1], k[2]>> = d

\* ClaimScheduleDispatch (SETNX) for the slot of the copy.
Claim(s, d) ==
  /\ proc[s].pc = "each" /\ d \in proc[s].todo
  /\ ~Claimed(d)
  /\ claims' = claims \cup {<<d[1], d[2], clock>>}
  /\ Goto(s, "enqueue", proc[s].todo \ {d}, {d})
  /\ UNCHANGED <<clock, leader, issued, next, dispatched, spent>>

\* Somebody has claimed the slot: the loop goes on to the next schedule.
ClaimRefused(s, d) ==
  /\ proc[s].pc = "each" /\ d \in proc[s].todo
  /\ Claimed(d)
  /\ Goto(s, "each", proc[s].todo \ {d}, {})
  /\ UNCHANGED <<clock, leader, issued, next, claims, dispatched, spent>>

\* The call fails, before or after Redis has set the key.
ClaimFails(s, d) ==
  /\ proc[s].pc = "each" /\ d \in proc[s].todo
  /\ Spend("error")
  /\ claims' \in {claims, IF Claimed(d) THEN claims
                          ELSE claims \cup {<<d[1], d[2], clock>>}}
  /\ Goto(s, "each", proc[s].todo \ {d}, {})
  /\ UNCHANGED <<clock, leader, issued, next, dispatched>>

\* EnqueueJob of the schedule's job.
EnqueueScheduled(s) ==
  /\ proc[s].pc = "enqueue"
  /\ \E d \in proc[s].cur :
       dispatched' = [dispatched EXCEPT ![d[1]][d[2]] = @ + 1]
  /\ Goto(s, "update", proc[s].todo, proc[s].cur)
  /\ UNCHANGED <<clock, leader, issued, next, claims, spent>>

\* EnqueueJob fails: the schedule is left as it is, and so is the claim.
EnqueueFails(s) ==
  /\ proc[s].pc = "enqueue"
  /\ Spend("error")
  /\ Goto(s, "each", proc[s].todo, {})
  /\ UNCHANGED <<clock, leader, issued, next, claims, dispatched>>

\* UpdateScheduleRun, by id alone, with the time the pass began.
UpdateScheduleRun(s) ==
  /\ proc[s].pc = "update"
  /\ \E d \in proc[s].cur : next' = [next EXCEPT ![d[1]] = NextRun(proc[s].now)]
  /\ Goto(s, "each", proc[s].todo, {})
  /\ UNCHANGED <<clock, leader, issued, claims, dispatched, spent>>

UpdateFails(s) ==
  /\ proc[s].pc = "update"
  /\ Spend("error")
  /\ Goto(s, "each", proc[s].todo, {})
  /\ UNCHANGED <<clock, leader, issued, next, claims, dispatched>>

PassEnds(s) ==
  /\ proc[s].pc = "each" /\ proc[s].todo = {}
  /\ Goto(s, "loop", {}, {})
  /\ UNCHANGED <<clock, leader, issued, next, claims, dispatched, spent>>

\* UpsertSchedule by an operator recomputes next_run_at.
UpsertSchedule(c) ==
  /\ Spend("edit")
  /\ next' = [next EXCEPT ![c] = NextRun(clock)]
  /\ UNCHANGED <<clock, leader, issued, claims, dispatched, proc>>

-----------------------------------------------------------------------------
PassStep(s) ==
  \/ ListDueSchedules(s)
  \/ \E d \in proc[s].todo : Claim(s, d) \/ ClaimRefused(s, d)
  \/ EnqueueScheduled(s) \/ UpdateScheduleRun(s) \/ PassEnds(s)

FaultStep(s) ==
  \/ AcquireReplyLost(s) \/ Shutdown(s) \/ CrashScheduler(s)
  \/ \E d \in proc[s].todo : ClaimFails(s, d)
  \/ EnqueueFails(s) \/ UpdateFails(s)

Next ==
  \/ ClockTicks \/ LeadershipExpires
  \/ \E k \in claims : ClaimExpires(k)
  \/ \E c \in Schedules : UpsertSchedule(c)
  \/ \E s \in Schedulers : LeaderTick(s) \/ CronTick(s) \/ PassStep(s) \/ FaultStep(s)

Spec == Init /\ [][Next]_vars

\* The clock goes on and calls return.  Leadership does not flap so that a
\* scheduler's cron ticker fires only while another one holds the key: the
\* leader renews three times per TTL and keeps the key while it is alive.
Fairness ==
  /\ WF_vars(ClockTicks)
  /\ \A s \in Schedulers :
       /\ WF_vars(PassStep(s))
       /\ SF_vars(CronTick(s) /\ Acquires(s))

FairSpec == Spec /\ Fairness

-----------------------------------------------------------------------------
(* Properties.                                                             *)

TypeOK ==
  /\ clock \in 0..MaxClock
  /\ leader \in Nat /\ issued \in Nat
  /\ next \in [Schedules -> Times]
  /\ claims \subseteq Schedules \X Times \X Times
  /\ dispatched \in [Schedules -> [Times -> Nat]]
  /\ proc \in [Schedulers -> Procs]
  /\ spent \in [EnvKinds -> Nat]

\* A cron slot is dispatched at most once while its dispatch key lives, even
\* by two schedulers that both believe to lead, after a crash in the middle of
\* a pass, a lost reply or an edit of the schedule.
DispatchedOnce ==
  \A c \in Schedules, t \in Times :
    dispatched[c][t] > 1 => t + ClaimTTL <= clock

\* next_run_at never moves backwards, although UpdateScheduleRun writes what a
\* stalled scheduler computed long ago (edits aside).
NextRunAdvances ==
  [][\A c \in Schedules : next'[c] >= next[c]]_vars

\* Every slot that comes due is dispatched, whoever leads.
EverySlotDispatched ==
  \A c \in Schedules, t \in Times :
    (next[c] = t /\ t <= clock) ~> (dispatched[c][t] > 0)

\* docs/failure-scenarios.md "Scheduler Leader Loss": cron dispatch resumes
\* from the new leader.  A leader skips a due slot only if its job has been
\* enqueued or another scheduler is just about to enqueue it.
SkippedIsDispatched ==
  [][\A s \in Schedulers : \A d \in proc[s].todo :
       ClaimRefused(s, d) =>
         \/ dispatched[d[1]][d[2]] > 0
         \/ \E r \in Schedulers : proc[r].pc = "enqueue" /\ d \in proc[r].cur]_vars
=============================================================================
