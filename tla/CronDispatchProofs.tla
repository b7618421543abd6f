------------------------- MODULE CronDispatchProofs --------------------------
(***************************************************************************)
(* A cron slot is dispatched at most once while its dispatch key lives,    *)
(* for any number of schedulers, schedules, crashes, errors and edits.     *)
(***************************************************************************)
EXTENDS CronDispatch, TLAPS

Old(t) == t + ClaimTTL <= clock
Starting(s, d) == proc[s].pc = "enqueue" /\ d \in proc[s].cur

\* The slots a pass works on are due.
SlotsAreDue ==
  \A s \in Schedulers : \A d \in proc[s].todo \cup proc[s].cur : d[2] <= clock

\* A claim is made when its slot is due or later.
ClaimsAreDue == \A k \in claims : k[2] <= k[3]

\* Whatever was enqueued, or is about to be, was claimed, and the key is still
\* there or has lived its time.
StartedIsClaimed ==
  \A c \in Schedules, t \in Times :
    (dispatched[c][t] > 0 \/ \E s \in Schedulers : Starting(s, <<c, t>>))
      => Claimed(<<c, t>>) \/ Old(t)

\* While the key lives, one scheduler at most is about to enqueue the job, and
\* then nobody has done so yet.
OneStarter ==
  \A c \in Schedules, t \in Times :
    \/ Old(t)
    \/ /\ dispatched[c][t] <= 1
       /\ \A s \in Schedulers : Starting(s, <<c, t>>) =>
            /\ dispatched[c][t] = 0
            /\ \A r \in Schedulers : Starting(r, <<c, t>>) => r = s

CronInv ==
  /\ TypeOK /\ SlotsAreDue /\ ClaimsAreDue /\ StartedIsClaimed /\ OneStarter

-----------------------------------------------------------------------------
\* The counters stay counters.
LEMMA SpendType ==
  ASSUME spent \in [EnvKinds -> Nat], NEW kind \in EnvKinds, Spend(kind)
  PROVE  spent' \in [EnvKinds -> Nat]
  BY DEF Spend

\* What Goto does to the process that moves and to the others.
LEMMA GotoProc ==
  ASSUME TypeOK, NEW s \in Schedulers, NEW pc \in Pcs,
         NEW todo \in SUBSET (Schedules \X Times),
         NEW cur \in SUBSET (Schedules \X Times), Goto(s, pc, todo, cur)
  PROVE  /\ proc' \in [Schedulers -> Procs]
         /\ proc'[s].pc = pc /\ proc'[s].todo = todo /\ proc'[s].cur = cur
         /\ \A r \in Schedulers \ {s} : proc'[r] = proc[r]
  <1>1. proc[s] \in Procs
    BY DEF TypeOK
  <1>2. proc'[s] = [proc[s] EXCEPT !.pc = pc, !.todo = todo, !.cur = cur]
    BY DEF TypeOK, Goto
  <1>3. proc'[s] \in Procs /\ proc'[s].pc = pc /\ proc'[s].todo = todo
        /\ proc'[s].cur = cur
    BY <1>1, <1>2 DEF Procs
  <1>4. proc' = [proc EXCEPT ![s] = proc'[s]]
    BY DEF TypeOK, Goto
  <1> QED BY <1>3, <1>4 DEF TypeOK

\* The scheduler's fields stay in range when leadership is checked.
LEMMA EnsureProc ==
  ASSUME TypeOK, NEW s \in Schedulers, NEW pc \in Pcs, EnsureLeadership(s, pc)
  PROVE  /\ proc' \in [Schedulers -> Procs]
         /\ leader' \in Nat /\ issued' \in Nat
         /\ proc'[s].pc = pc
         /\ proc'[s].todo = proc[s].todo /\ proc'[s].cur = proc[s].cur
         /\ \A r \in Schedulers \ {s} : proc'[r] = proc[r]
  <1>1. proc[s] \in Procs
    BY DEF TypeOK
  <1>2. OwnToken(s) \in Nat
    BY <1>1 DEF OwnToken, TypeOK, Procs
  <1>3. Acquires(s) \in BOOLEAN
    BY SMT DEF Acquires
  <1>4. proc'[s] = [proc[s] EXCEPT !.pc = pc, !.token = OwnToken(s),
                                   !.isLeader = Acquires(s)]
    BY DEF TypeOK, EnsureLeadership
  <1>5. /\ proc'[s] \in Procs /\ proc'[s].pc = pc
        /\ proc'[s].todo = proc[s].todo /\ proc'[s].cur = proc[s].cur
    BY <1>1, <1>2, <1>3, <1>4, Zenon DEF Procs
  <1>6. proc' = [proc EXCEPT ![s] = proc'[s]]
    BY <1>4, Zenon DEF EnsureLeadership
  <1>7. leader' \in Nat /\ issued' \in Nat
    BY <1>2 DEF EnsureLeadership, AcquireScript, TypeOK
  <1> QED BY <1>5, <1>6, <1>7 DEF TypeOK

\* A step that enqueues nothing, starts nothing and drops only keys that have
\* lived their time keeps what is known about started slots.
LEMMA QuietCron ==
  ASSUME TypeOK, TypeOK', StartedIsClaimed, OneStarter,
         dispatched' = dispatched, clock <= clock',
         \A d \in Schedules \X Times : Claimed(d) => Claimed(d)' \/ Old(d[2])',
         \A s \in Schedulers, d \in Schedules \X Times :
           Starting(s, d)' => Starting(s, d)
  PROVE  StartedIsClaimed' /\ OneStarter'
  <1>1. \A t \in Times : Old(t) => Old(t)'
    BY ClockAssumption DEF Old, TypeOK, Times
  <1>2. ASSUME NEW c \in Schedules, NEW t \in Times,
               dispatched[c][t] > 0 \/ \E s \in Schedulers : Starting(s, <<c, t>>)'
        PROVE  Claimed(<<c, t>>)' \/ Old(t)'
    <2>1. <<c, t>> \in Schedules \X Times /\ <<c, t>>[2] = t
      OBVIOUS
    <2>2. Claimed(<<c, t>>) \/ Old(t)
      BY <1>2, <2>1 DEF StartedIsClaimed
    <2> QED BY <1>1, <2>1, <2>2
  <1>3. StartedIsClaimed'
    BY <1>2 DEF StartedIsClaimed
  <1>4. ASSUME NEW c \in Schedules, NEW t \in Times, ~Old(t)'
        PROVE  /\ dispatched'[c][t] <= 1
               /\ \A s \in Schedulers : Starting(s, <<c, t>>)' =>
                    /\ dispatched'[c][t] = 0
                    /\ \A r \in Schedulers : Starting(r, <<c, t>>)' => r = s
    <2>1. <<c, t>> \in Schedules \X Times
      OBVIOUS
    <2>2. ~Old(t)
      BY <1>1, <1>4
    <2> QED BY <2>1, <2>2 DEF OneStarter
  <1>5. OneStarter'
    BY <1>4 DEF OneStarter
  <1> QED BY <1>3, <1>5

-----------------------------------------------------------------------------
\* A step that leaves clock, claims and dispatched alone and starts nothing.
LEMMA StillCron ==
  ASSUME CronInv, TypeOK', UNCHANGED <<clock, claims, dispatched>>,
         \A s \in Schedulers : proc'[s].pc = "enqueue" =>
            proc[s].pc = "enqueue" /\ proc'[s].cur = proc[s].cur,
         \A s \in Schedulers : \A d \in proc'[s].todo \cup proc'[s].cur :
            d[2] <= clock
  PROVE  CronInv'
  <1>1. SlotsAreDue' /\ ClaimsAreDue'
    BY DEF CronInv, SlotsAreDue, ClaimsAreDue
  <1>2. \A d \in Schedules \X Times : Claimed(d) => Claimed(d)'
    BY DEF Claimed
  <1>3. \A s \in Schedulers, d \in Schedules \X Times :
          Starting(s, d)' => Starting(s, d)
    BY DEF Starting
  <1>4. clock <= clock'
    BY DEF CronInv, TypeOK
  <1>5. StartedIsClaimed' /\ OneStarter'
    BY <1>2, <1>3, <1>4, QuietCron DEF CronInv
  <1> QED BY <1>1, <1>5 DEF CronInv

\* Time: the clock, the leader hash and the dispatch keys.
LEMMA TimeCron ==
  ASSUME CronInv,
         ClockTicks \/ LeadershipExpires \/ \E k \in claims : ClaimExpires(k)
  PROVE  CronInv'
  <1> USE ClockAssumption
  <1>1. CASE ClockTicks
    <2>1. TypeOK' /\ clock <= clock'
      BY <1>1 DEF ClockTicks, CronInv, TypeOK
    <2>2. SlotsAreDue'
      <3> SUFFICES ASSUME NEW s \in Schedulers,
                          NEW d \in proc[s].todo \cup proc[s].cur
                   PROVE  d[2] <= clock'
        BY <1>1 DEF ClockTicks, SlotsAreDue
      <3>1. proc[s] \in Procs
        BY DEF CronInv, TypeOK
      <3>2. d[2] \in Nat
        BY <3>1 DEF Procs, Times
      <3> QED BY <2>1, <3>2 DEF CronInv, SlotsAreDue, TypeOK
    <2>3. ClaimsAreDue'
      BY <1>1 DEF ClockTicks, CronInv, ClaimsAreDue
    <2>4. StartedIsClaimed' /\ OneStarter'
      <3>1. \A d \in Schedules \X Times : Claimed(d) => Claimed(d)'
        BY <1>1 DEF ClockTicks, Claimed
      <3>2. \A s \in Schedulers, d \in Schedules \X Times :
              Starting(s, d)' => Starting(s, d)
        BY <1>1 DEF ClockTicks, Starting
      <3>3. dispatched' = dispatched
        BY <1>1 DEF ClockTicks
      <3> QED BY <2>1, <3>1, <3>2, <3>3, QuietCron DEF CronInv
    <2> QED BY <2>1, <2>2, <2>3, <2>4 DEF CronInv
  <1>2. CASE LeadershipExpires
    <2>1. TypeOK'
      BY <1>2 DEF LeadershipExpires, CronInv, TypeOK
    <2>2. proc' = proc /\ UNCHANGED <<clock, claims, dispatched>>
      BY <1>2 DEF LeadershipExpires
    <2>3. \A s \in Schedulers : \A d \in proc'[s].todo \cup proc'[s].cur :
            d[2] <= clock
      BY <2>2 DEF CronInv, SlotsAreDue
    <2> QED BY <2>1, <2>2, <2>3, StillCron
  <1>3. ASSUME NEW k \in claims, ClaimExpires(k) PROVE CronInv'
    <2>1. /\ claims' = claims \ {k} /\ k[3] + ClaimTTL <= clock
          /\ UNCHANGED <<clock, leader, issued, next, dispatched, proc, spent>>
      BY <1>3 DEF ClaimExpires
    <2>2. TypeOK'
      BY <2>1 DEF CronInv, TypeOK
    <2>3. SlotsAreDue' /\ ClaimsAreDue'
      BY <2>1 DEF CronInv, SlotsAreDue, ClaimsAreDue
    <2>4. Old(k[2])'
      <3>1. k \in Schedules \X Times \X Times /\ k[2] <= k[3]
        BY DEF CronInv, ClaimsAreDue, TypeOK
      <3> QED BY <2>1, <3>1 DEF Old, CronInv, TypeOK, Times
    <2>5. ASSUME NEW d \in Schedules \X Times, Claimed(d)
          PROVE  Claimed(d)' \/ Old(d[2])'
      <3>1. PICK c \in claims : <<c[1], c[2]>> = d
        BY <2>5 DEF Claimed
      <3>2. CASE c = k
        BY <2>4, <3>1, <3>2
      <3>3. CASE c # k
        BY <2>1, <3>1, <3>3 DEF Claimed
      <3> QED BY <3>2, <3>3
    <2>6. \A s \in Schedulers, d \in Schedules \X Times :
            Starting(s, d)' => Starting(s, d)
      BY <2>1 DEF Starting
    <2>7. clock <= clock' /\ dispatched' = dispatched
      BY <2>1 DEF CronInv, TypeOK
    <2>8. StartedIsClaimed' /\ OneStarter'
      BY <2>2, <2>5, <2>6, <2>7, QuietCron DEF CronInv
    <2> QED BY <2>2, <2>3, <2>8 DEF CronInv
  <1> QED BY <1>1, <1>2, <1>3

\* Leadership, and processes that stop.
LEMMA LeaderCron ==
  ASSUME CronInv, NEW s \in Schedulers,
         LeaderTick(s) \/ CronTick(s) \/ AcquireReplyLost(s) \/ Shutdown(s)
           \/ CrashScheduler(s)
  PROVE  CronInv'
  <1>0. proc[s] \in Procs
    BY DEF CronInv, TypeOK
  <1>1. ASSUME NEW pc \in {"loop", "list"}, EnsureLeadership(s, pc),
               UNCHANGED <<clock, next, claims, dispatched, spent>>
        PROVE  CronInv'
    <2>1. pc \in Pcs
      BY DEF Pcs
    <2>2. /\ proc' \in [Schedulers -> Procs]
          /\ leader' \in Nat /\ issued' \in Nat
          /\ proc'[s].pc = pc
          /\ proc'[s].todo = proc[s].todo /\ proc'[s].cur = proc[s].cur
          /\ \A r \in Schedulers \ {s} : proc'[r] = proc[r]
      BY <1>1, <2>1, EnsureProc DEF CronInv
    <2>3. TypeOK'
      BY <1>1, <2>2 DEF CronInv, TypeOK
    <2>4. \A r \in Schedulers : \A d \in proc'[r].todo \cup proc'[r].cur :
            d[2] <= clock
      BY <2>2 DEF CronInv, SlotsAreDue
    <2>5. \A r \in Schedulers : proc'[r].pc = "enqueue" =>
            proc[r].pc = "enqueue" /\ proc'[r].cur = proc[r].cur
      BY <2>2
    <2> QED BY <1>1, <2>3, <2>4, <2>5, StillCron
  <1>2. CASE LeaderTick(s)
    BY <1>1, <1>2 DEF LeaderTick
  <1>3. CASE CronTick(s)
    <2>1. (IF Acquires(s) THEN "list" ELSE "loop") \in {"loop", "list"}
      OBVIOUS
    <2> QED BY <1>1, <1>3, <2>1 DEF CronTick
  <1>4. CASE AcquireReplyLost(s)
    <2>1. UNCHANGED <<clock, next, claims, dispatched, proc>>
      BY <1>4 DEF AcquireReplyLost
    <2>2. leader' \in Nat /\ issued' \in Nat
      BY <1>0, <1>4 DEF AcquireReplyLost, AcquireScript, OwnToken, CronInv,
                        TypeOK, Procs
    <2>3. spent' \in [EnvKinds -> Nat]
      <3>1. Spend("error") /\ "error" \in EnvKinds
        BY <1>4 DEF AcquireReplyLost, EnvKinds
      <3> QED BY <3>1, SpendType DEF CronInv, TypeOK
    <2>4. TypeOK'
      BY <2>1, <2>2, <2>3 DEF CronInv, TypeOK
    <2>5. \A r \in Schedulers : \A d \in proc'[r].todo \cup proc'[r].cur :
            d[2] <= clock
      BY <2>1 DEF CronInv, SlotsAreDue
    <2> QED BY <2>1, <2>4, <2>5, StillCron
  <1>5. CASE Shutdown(s) \/ CrashScheduler(s)
    <2>1. /\ proc' = [proc EXCEPT ![s] = Fresh]
          /\ UNCHANGED <<clock, issued, next, claims, dispatched>>
      BY <1>5 DEF Shutdown, CrashScheduler
    <2>2. leader' \in Nat
      BY <1>5 DEF Shutdown, CrashScheduler, CronInv, TypeOK
    <2>3. spent' \in [EnvKinds -> Nat]
      BY <1>5 DEF Shutdown, CrashScheduler, Spend, CronInv, TypeOK
    <2>4. Fresh \in Procs
      BY ClockAssumption DEF Fresh, Procs, Pcs
    <2>5. proc' \in [Schedulers -> Procs]
      BY <2>1, <2>4 DEF CronInv, TypeOK
    <2>6. TypeOK'
      BY <2>1, <2>2, <2>3, <2>5 DEF CronInv, TypeOK
    <2>7. /\ proc'[s].pc = "loop" /\ proc'[s].todo = {} /\ proc'[s].cur = {}
          /\ \A r \in Schedulers \ {s} : proc'[r] = proc[r]
      BY <2>1 DEF CronInv, TypeOK, Fresh
    <2>8. \A r \in Schedulers : \A d \in proc'[r].todo \cup proc'[r].cur :
            d[2] <= clock
      BY <2>7 DEF CronInv, SlotsAreDue
    <2>9. \A r \in Schedulers : proc'[r].pc = "enqueue" =>
            proc[r].pc = "enqueue" /\ proc'[r].cur = proc[r].cur
      BY <2>7
    <2> QED BY <2>1, <2>6, <2>8, <2>9, StillCron
  <1> QED BY <1>2, <1>3, <1>4, <1>5

\* A pass goes on without claiming or enqueuing anything.
LEMMA PassCron ==
  ASSUME CronInv, NEW s \in Schedulers, NEW pc \in {"loop", "each", "update"},
         NEW todo \in SUBSET proc[s].todo, NEW cur \in SUBSET proc[s].cur,
         Goto(s, pc, todo, cur),
         next' \in [Schedules -> Times], spent' \in [EnvKinds -> Nat],
         UNCHANGED <<clock, leader, issued, claims, dispatched>>
  PROVE  CronInv'
  <1>1. proc[s] \in Procs
    BY DEF CronInv, TypeOK
  <1>2. /\ pc \in Pcs /\ todo \in SUBSET (Schedules \X Times)
        /\ cur \in SUBSET (Schedules \X Times)
    BY <1>1 DEF Procs, Pcs
  <1>3. /\ proc' \in [Schedulers -> Procs]
        /\ proc'[s].pc = pc /\ proc'[s].todo = todo /\ proc'[s].cur = cur
        /\ \A r \in Schedulers \ {s} : proc'[r] = proc[r]
    BY <1>2, GotoProc DEF CronInv
  <1>4. TypeOK'
    BY <1>3 DEF CronInv, TypeOK
  <1>5. \A r \in Schedulers : \A d \in proc'[r].todo \cup proc'[r].cur :
          d[2] <= clock
    BY <1>3 DEF CronInv, SlotsAreDue
  <1>6. \A r \in Schedulers : proc'[r].pc = "enqueue" =>
          proc[r].pc = "enqueue" /\ proc'[r].cur = proc[r].cur
    BY <1>3
  <1> QED BY <1>4, <1>5, <1>6, StillCron

\* The copies a pass works on are of schedules that are due.
LEMMA ListCron ==
  ASSUME CronInv, NEW s \in Schedulers, ListDueSchedules(s)
  PROVE  CronInv'
  <1> DEFINE found == {<<c, next[c]>> : c \in {x \in Schedules : next[x] <= clock}}
  <1>1. proc[s] \in Procs
    BY DEF CronInv, TypeOK
  <1>2. found \in SUBSET (Schedules \X Times) /\ \A d \in found : d[2] <= clock
    BY DEF CronInv, TypeOK
  <1>3. proc'[s] = [proc[s] EXCEPT !.pc = "each", !.now = clock, !.todo = found]
    BY DEF ListDueSchedules, CronInv, TypeOK
  <1> HIDE DEF found
  <1>4. /\ proc'[s] \in Procs /\ proc'[s].pc = "each" /\ proc'[s].todo = found
        /\ proc'[s].cur = proc[s].cur
    BY <1>1, <1>2, <1>3 DEF Procs, Pcs, CronInv, TypeOK
  <1>5. proc' = [proc EXCEPT ![s] = proc'[s]]
    BY DEF ListDueSchedules, CronInv, TypeOK
  <1>6. /\ proc' \in [Schedulers -> Procs]
        /\ \A r \in Schedulers \ {s} : proc'[r] = proc[r]
    BY <1>4, <1>5 DEF CronInv, TypeOK
  <1>7. UNCHANGED <<clock, leader, issued, next, claims, dispatched, spent>>
    BY DEF ListDueSchedules
  <1>8. TypeOK'
    BY <1>6, <1>7 DEF CronInv, TypeOK
  <1>9. \A r \in Schedulers : \A d \in proc'[r].todo \cup proc'[r].cur :
          d[2] <= clock
    BY <1>2, <1>4, <1>6 DEF CronInv, SlotsAreDue
  <1>10. \A r \in Schedulers : proc'[r].pc = "enqueue" =>
           proc[r].pc = "enqueue" /\ proc'[r].cur = proc[r].cur
    BY <1>4, <1>6
  <1> QED BY <1>7, <1>8, <1>9, <1>10, StillCron

\* A claim of a slot nobody has claimed: by StartedIsClaimed nobody has
\* started it either, unless it is old.
LEMMA ClaimCron ==
  ASSUME CronInv, NEW s \in Schedulers, NEW d \in proc[s].todo, Claim(s, d)
  PROVE  CronInv'
  <1>1. proc[s] \in Procs
    BY DEF CronInv, TypeOK
  <1>2. /\ "enqueue" \in Pcs /\ proc[s].todo \ {d} \in SUBSET (Schedules \X Times)
        /\ {d} \in SUBSET (Schedules \X Times)
    BY <1>1 DEF Procs, Pcs
  <1>3. PICK c \in Schedules, t \in Times : d = <<c, t>>
    BY <1>2
  <1>4. /\ Goto(s, "enqueue", proc[s].todo \ {d}, {d}) /\ ~Claimed(d)
        /\ claims' = claims \cup {<<c, t, clock>>}
        /\ UNCHANGED <<clock, leader, issued, next, dispatched, spent>>
    BY <1>3 DEF Claim
  <1>5. /\ proc' \in [Schedulers -> Procs]
        /\ proc'[s].pc = "enqueue" /\ proc'[s].todo = proc[s].todo \ {d}
        /\ proc'[s].cur = {d}
        /\ \A r \in Schedulers \ {s} : proc'[r] = proc[r]
    BY <1>2, <1>4, GotoProc DEF CronInv
  <1>6. t <= clock /\ clock \in Times
    BY <1>3, ClockAssumption DEF CronInv, SlotsAreDue, TypeOK, Times
  <1>7. TypeOK'
    BY <1>4, <1>5, <1>6 DEF CronInv, TypeOK
  <1>8. SlotsAreDue'
    BY <1>3, <1>4, <1>5, <1>6 DEF CronInv, SlotsAreDue
  <1>9. ClaimsAreDue'
    BY <1>4, <1>6 DEF CronInv, ClaimsAreDue
  <1>10. \A x \in Times : Old(x)' <=> Old(x)
    BY <1>4 DEF Old
  <1>11. \A x \in Schedules \X Times : Claimed(x) => Claimed(x)'
    BY <1>4 DEF Claimed
  <1>12. Claimed(d)'
    <2>1. <<c, t, clock>> \in claims'
      BY <1>4
    <2>2. <<<<c, t, clock>>[1], <<c, t, clock>>[2]>> = d
      BY <1>3
    <2> QED BY <2>1, <2>2 DEF Claimed
  <1>13. \A r \in Schedulers, x \in Schedules \X Times :
           x # d /\ Starting(r, x)' => Starting(r, x)
    BY <1>5 DEF Starting
  <1>14. ASSUME ~Old(t)
         PROVE  dispatched[c][t] = 0 /\ \A r \in Schedulers : ~Starting(r, d)
    <2>1. dispatched[c][t] \in Nat
      BY DEF CronInv, TypeOK
    <2> QED BY <1>3, <1>4, <1>14, <2>1 DEF CronInv, StartedIsClaimed
  <1>15. \A r \in Schedulers : Starting(r, d)' => r = s \/ Starting(r, d)
    BY <1>5 DEF Starting
  <1>16. StartedIsClaimed'
    <2> SUFFICES ASSUME NEW b \in Schedules, NEW u \in Times,
                        \/ dispatched[b][u] > 0
                        \/ \E r \in Schedulers : Starting(r, <<b, u>>)'
                 PROVE  Claimed(<<b, u>>)' \/ Old(u)'
      BY <1>4 DEF StartedIsClaimed
    <2>1. CASE <<b, u>> = d
      BY <1>12, <2>1
    <2>2. CASE <<b, u>> # d
      BY <1>10, <1>11, <1>13, <2>2 DEF CronInv, StartedIsClaimed
    <2> QED BY <2>1, <2>2
  <1>17. OneStarter'
    <2> SUFFICES ASSUME NEW b \in Schedules, NEW u \in Times, ~Old(u)
                 PROVE  /\ dispatched[b][u] <= 1
                        /\ \A r \in Schedulers : Starting(r, <<b, u>>)' =>
                             /\ dispatched[b][u] = 0
                             /\ \A q \in Schedulers : Starting(q, <<b, u>>)' => q = r
      BY <1>4, <1>10 DEF OneStarter
    <2>1. CASE <<b, u>> = d
      <3>1. b = c /\ u = t
        BY <1>3, <2>1
      <3> QED BY <1>14, <1>15, <2>1, <3>1
    <2>2. CASE <<b, u>> # d
      BY <1>13, <2>2 DEF CronInv, OneStarter
    <2> QED BY <2>1, <2>2
  <1> QED BY <1>7, <1>8, <1>9, <1>16, <1>17 DEF CronInv

\* Enqueuing the job of a claimed slot: this scheduler was the one that was
\* about to do so, and now nobody is.
LEMMA EnqueueCron ==
  ASSUME CronInv, NEW s \in Schedulers, EnqueueScheduled(s)
  PROVE  CronInv'
  <1>1. proc[s] \in Procs
    BY DEF CronInv, TypeOK
  <1>2. /\ "update" \in Pcs /\ proc[s].todo \in SUBSET (Schedules \X Times)
        /\ proc[s].cur \in SUBSET (Schedules \X Times)
    BY <1>1 DEF Procs, Pcs
  <1>3. /\ proc[s].pc = "enqueue" /\ Goto(s, "update", proc[s].todo, proc[s].cur)
        /\ UNCHANGED <<clock, leader, issued, next, claims, spent>>
    BY DEF EnqueueScheduled
  <1>4. PICK d \in proc[s].cur :
          dispatched' = [dispatched EXCEPT ![d[1]][d[2]] = @ + 1]
    BY DEF EnqueueScheduled
  <1>5. PICK c \in Schedules, t \in Times : d = <<c, t>>
    BY <1>2
  <1>6. /\ dispatched' \in [Schedules -> [Times -> Nat]]
        /\ dispatched'[c][t] = dispatched[c][t] + 1
        /\ \A b \in Schedules, u \in Times :
             <<b, u>> # d => dispatched'[b][u] = dispatched[b][u]
    <2>1. d[1] = c /\ d[2] = t /\ dispatched \in [Schedules -> [Times -> Nat]]
      BY <1>5 DEF CronInv, TypeOK
    <2>2. dispatched' = [dispatched EXCEPT ![c][t] = @ + 1]
      BY <1>4, <2>1
    <2> QED BY <1>5, <2>1, <2>2
  <1>7. /\ proc' \in [Schedulers -> Procs]
        /\ proc'[s].pc = "update" /\ proc'[s].todo = proc[s].todo
        /\ proc'[s].cur = proc[s].cur
        /\ \A r \in Schedulers \ {s} : proc'[r] = proc[r]
    BY <1>2, <1>3, GotoProc DEF CronInv
  <1>8. TypeOK'
    BY <1>3, <1>6, <1>7 DEF CronInv, TypeOK
  <1>9. SlotsAreDue' /\ ClaimsAreDue'
    BY <1>3, <1>7 DEF CronInv, SlotsAreDue, ClaimsAreDue
  <1>10. (\A x \in Times : Old(x)' <=> Old(x))
         /\ \A x \in Schedules \X Times : Claimed(x)' <=> Claimed(x)
    BY <1>3 DEF Old, Claimed
  <1>11. Starting(s, d)
    BY <1>3 DEF Starting
  <1>12. \A r \in Schedulers, x \in Schedules \X Times :
           Starting(r, x)' => r # s /\ Starting(r, x)
    BY <1>7 DEF Starting
  <1>13. StartedIsClaimed'
    <2> SUFFICES ASSUME NEW b \in Schedules, NEW u \in Times,
                        \/ dispatched'[b][u] > 0
                        \/ \E r \in Schedulers : Starting(r, <<b, u>>)'
                 PROVE  Claimed(<<b, u>>)' \/ Old(u)'
      BY DEF StartedIsClaimed
    <2>1. CASE <<b, u>> = d
      BY <1>10, <1>11, <2>1 DEF CronInv, StartedIsClaimed
    <2>2. CASE <<b, u>> # d
      BY <1>6, <1>10, <1>12, <2>2 DEF CronInv, StartedIsClaimed
    <2> QED BY <2>1, <2>2
  <1>14. OneStarter'
    <2> SUFFICES ASSUME NEW b \in Schedules, NEW u \in Times, ~Old(u)
                 PROVE  /\ dispatched'[b][u] <= 1
                        /\ \A r \in Schedulers : Starting(r, <<b, u>>)' =>
                             /\ dispatched'[b][u] = 0
                             /\ \A q \in Schedulers : Starting(q, <<b, u>>)' => q = r
      BY <1>10 DEF OneStarter
    <2>1. CASE <<b, u>> = d
      <3>1. b = c /\ u = t
        BY <1>5, <2>1
      <3>2. /\ dispatched[b][u] = 0
            /\ \A r \in Schedulers : Starting(r, <<b, u>>) => r = s
        BY <1>11, <2>1 DEF CronInv, OneStarter
      <3> QED BY <1>6, <1>12, <3>1, <3>2
    <2>2. CASE <<b, u>> # d
      BY <1>6, <1>12, <2>2 DEF CronInv, OneStarter
    <2> QED BY <2>1, <2>2
  <1> QED BY <1>8, <1>9, <1>13, <1>14 DEF CronInv

\* A call to a store that fails, before or after Redis has set the key.
LEMMA ClaimFailsCron ==
  ASSUME CronInv, NEW s \in Schedulers, NEW d \in proc[s].todo, ClaimFails(s, d)
  PROVE  CronInv'
  <1>1. proc[s] \in Procs
    BY DEF CronInv, TypeOK
  <1>2. /\ "each" \in Pcs /\ proc[s].todo \ {d} \in SUBSET (Schedules \X Times)
        /\ {} \in SUBSET (Schedules \X Times) /\ d \in Schedules \X Times
    BY <1>1 DEF Procs, Pcs
  <1>3. /\ Goto(s, "each", proc[s].todo \ {d}, {})
        /\ Spend("error") /\ "error" \in EnvKinds
        /\ claims' \in {claims, claims \cup {<<d[1], d[2], clock>>}}
        /\ UNCHANGED <<clock, leader, issued, next, dispatched>>
    BY DEF ClaimFails, EnvKinds
  <1>4. /\ proc' \in [Schedulers -> Procs]
        /\ proc'[s].pc = "each" /\ proc'[s].todo = proc[s].todo \ {d}
        /\ proc'[s].cur = {}
        /\ \A r \in Schedulers \ {s} : proc'[r] = proc[r]
    BY <1>2, <1>3, GotoProc DEF CronInv
  <1>5. spent' \in [EnvKinds -> Nat]
    BY <1>3, SpendType DEF CronInv, TypeOK
  <1>6. d[2] <= clock /\ clock \in Times
    BY ClockAssumption DEF CronInv, SlotsAreDue, TypeOK, Times
  <1>7. claims' \subseteq Schedules \X Times \X Times
    BY <1>2, <1>3, <1>6 DEF CronInv, TypeOK
  <1>8. TypeOK'
    BY <1>3, <1>4, <1>5, <1>7 DEF CronInv, TypeOK
  <1>9. SlotsAreDue'
    BY <1>3, <1>4 DEF CronInv, SlotsAreDue
  <1>10. ClaimsAreDue'
    BY <1>3, <1>6 DEF CronInv, ClaimsAreDue
  <1>11. \A x \in Schedules \X Times : Claimed(x) => Claimed(x)'
    BY <1>3 DEF Claimed
  <1>12. \A r \in Schedulers, x \in Schedules \X Times :
           Starting(r, x)' => Starting(r, x)
    BY <1>4 DEF Starting
  <1>13. clock <= clock' /\ dispatched' = dispatched
    BY <1>3 DEF CronInv, TypeOK
  <1>14. StartedIsClaimed' /\ OneStarter'
    BY <1>8, <1>11, <1>12, <1>13, QuietCron DEF CronInv
  <1> QED BY <1>8, <1>9, <1>10, <1>14 DEF CronInv

\* Every step of a pass.
LEMMA PassSteps ==
  ASSUME CronInv, NEW s \in Schedulers, PassStep(s)
  PROVE  CronInv'
  <1>1. proc[s] \in Procs /\ next \in [Schedules -> Times]
        /\ spent \in [EnvKinds -> Nat] /\ clock \in 0..MaxClock
    BY DEF CronInv, TypeOK
  <1>2. CASE ListDueSchedules(s)
    BY <1>2, ListCron
  <1>3. ASSUME NEW d \in proc[s].todo, Claim(s, d) PROVE CronInv'
    BY <1>3, ClaimCron
  <1>4. ASSUME NEW d \in proc[s].todo, ClaimRefused(s, d) PROVE CronInv'
    <2>1. /\ Goto(s, "each", proc[s].todo \ {d}, {})
          /\ UNCHANGED <<clock, leader, issued, next, claims, dispatched, spent>>
      BY <1>4 DEF ClaimRefused
    <2>2. proc[s].todo \ {d} \in SUBSET proc[s].todo /\ {} \in SUBSET proc[s].cur
      OBVIOUS
    <2> QED BY <1>1, <2>1, <2>2, PassCron
  <1>5. CASE EnqueueScheduled(s)
    BY <1>5, EnqueueCron
  <1>6. CASE UpdateScheduleRun(s)
    <2>1. /\ Goto(s, "each", proc[s].todo, {})
          /\ UNCHANGED <<clock, leader, issued, claims, dispatched, spent>>
      BY <1>6 DEF UpdateScheduleRun
    <2>2. NextRun(proc[s].now) \in Times
      BY <1>1, ClockAssumption DEF NextRun, Procs, Times
    <2>3. next' \in [Schedules -> Times]
      BY <1>1, <1>6, <2>2 DEF UpdateScheduleRun
    <2> QED BY <1>1, <2>1, <2>3, PassCron
  <1>7. CASE PassEnds(s)
    <2>1. /\ Goto(s, "loop", {}, {})
          /\ UNCHANGED <<clock, leader, issued, next, claims, dispatched, spent>>
      BY <1>7 DEF PassEnds
    <2> QED BY <1>1, <2>1, PassCron
  <1> QED BY <1>2, <1>3, <1>4, <1>5, <1>6, <1>7 DEF PassStep

\* Every failure of a process or of a call.
LEMMA FaultSteps ==
  ASSUME CronInv, NEW s \in Schedulers, FaultStep(s)
  PROVE  CronInv'
  <1>1. next \in [Schedules -> Times] /\ spent \in [EnvKinds -> Nat]
    BY DEF CronInv, TypeOK
  <1>2. CASE AcquireReplyLost(s) \/ Shutdown(s) \/ CrashScheduler(s)
    BY <1>2, LeaderCron
  <1>3. ASSUME NEW d \in proc[s].todo, ClaimFails(s, d) PROVE CronInv'
    BY <1>3, ClaimFailsCron
  <1>4. CASE EnqueueFails(s) \/ UpdateFails(s)
    <2>1. /\ Goto(s, "each", proc[s].todo, {})
          /\ Spend("error") /\ "error" \in EnvKinds
          /\ UNCHANGED <<clock, leader, issued, next, claims, dispatched>>
      BY <1>4 DEF EnqueueFails, UpdateFails, EnvKinds
    <2>2. spent' \in [EnvKinds -> Nat]
      BY <1>1, <2>1, SpendType
    <2> QED BY <1>1, <2>1, <2>2, PassCron
  <1> QED BY <1>2, <1>3, <1>4 DEF FaultStep

\* An edit moves next_run_at and nothing else.
LEMMA EditCron ==
  ASSUME CronInv, NEW c \in Schedules, UpsertSchedule(c)
  PROVE  CronInv'
  <1>1. /\ Spend("edit") /\ "edit" \in EnvKinds
        /\ next' = [next EXCEPT ![c] = NextRun(clock)]
        /\ UNCHANGED <<clock, leader, issued, claims, dispatched, proc>>
    BY DEF UpsertSchedule, EnvKinds
  <1>2. spent' \in [EnvKinds -> Nat]
    BY <1>1, SpendType DEF CronInv, TypeOK
  <1>3. NextRun(clock) \in Times
    BY ClockAssumption DEF NextRun, Times, CronInv, TypeOK
  <1>4. TypeOK'
    BY <1>1, <1>2, <1>3 DEF CronInv, TypeOK
  <1>5. \A s \in Schedulers : \A d \in proc'[s].todo \cup proc'[s].cur :
          d[2] <= clock
    BY <1>1 DEF CronInv, SlotsAreDue
  <1> QED BY <1>1, <1>4, <1>5, StillCron

-----------------------------------------------------------------------------
\* The invariant holds at the start.
LEMMA CronInitially == Init => CronInv
  <1> SUFFICES ASSUME Init PROVE CronInv
    OBVIOUS
  <1> USE ClockAssumption
  <1>1. Fresh \in Procs
    BY DEF Fresh, Procs, Pcs
  <1>2. TypeOK
    BY <1>1 DEF Init, TypeOK, Times
  <1>3. \A s \in Schedulers : proc[s].todo = {} /\ proc[s].cur = {}
    BY DEF Init, Fresh
  <1>4. SlotsAreDue /\ ClaimsAreDue
    BY <1>3 DEF SlotsAreDue, ClaimsAreDue, Init
  <1>5. StartedIsClaimed /\ OneStarter
    BY <1>3 DEF StartedIsClaimed, OneStarter, Starting, Init
  <1> QED BY <1>2, <1>4, <1>5 DEF CronInv

\* Every step keeps the invariant.
LEMMA CronStep == CronInv /\ [Next]_vars => CronInv'
  <1> SUFFICES ASSUME CronInv, [Next]_vars PROVE CronInv'
    OBVIOUS
  <1>1. CASE ClockTicks \/ LeadershipExpires \/ \E k \in claims : ClaimExpires(k)
    BY <1>1, TimeCron
  <1>2. ASSUME NEW c \in Schedules, UpsertSchedule(c) PROVE CronInv'
    BY <1>2, EditCron
  <1>3. ASSUME NEW s \in Schedulers, LeaderTick(s) \/ CronTick(s) PROVE CronInv'
    BY <1>3, LeaderCron
  <1>4. ASSUME NEW s \in Schedulers, PassStep(s) PROVE CronInv'
    BY <1>4, PassSteps
  <1>5. ASSUME NEW s \in Schedulers, FaultStep(s) PROVE CronInv'
    BY <1>5, FaultSteps
  <1>6. CASE UNCHANGED vars
    <2>1. TypeOK' /\ proc' = proc /\ UNCHANGED <<clock, claims, dispatched>>
      BY <1>6 DEF vars, CronInv, TypeOK
    <2>2. \A s \in Schedulers : \A d \in proc'[s].todo \cup proc'[s].cur :
            d[2] <= clock
      BY <2>1 DEF CronInv, SlotsAreDue
    <2> QED BY <2>1, <2>2, StillCron
  <1> QED BY <1>1, <1>2, <1>3, <1>4, <1>5, <1>6 DEF Next

\* The strengthened invariant of the election and the dispatch loop.
THEOREM CronInvariant == Spec => []CronInv
  BY CronInitially, CronStep, PTL DEF Spec

\* A cron slot is dispatched at most once while its dispatch key lives,
\* whatever leaders are deposed, crash or have their calls fail.
THEOREM SlotDispatchedOnce == Spec => []DispatchedOnce
  <1>1. CronInv => DispatchedOnce
    <2> SUFFICES ASSUME CronInv, NEW c \in Schedules, NEW t \in Times,
                        dispatched[c][t] > 1
                 PROVE  t + ClaimTTL <= clock
      BY DEF DispatchedOnce
    <2>1. dispatched[c][t] \in Nat
      BY DEF CronInv, TypeOK
    <2>2. Old(t) \/ dispatched[c][t] <= 1
      BY DEF CronInv, OneStarter
    <2> QED BY <2>1, <2>2 DEF Old
  <1> QED BY <1>1, CronInvariant, PTL

\* Every variable keeps its type; next_run_at is a time of the clock.
THEOREM CronTypeCorrect == Spec => []TypeOK
  <1>1. CronInv => TypeOK
    BY DEF CronInv
  <1> QED BY <1>1, CronInvariant, PTL

-----------------------------------------------------------------------------
(* next_run_at.  A scheduler that has claimed a slot owns the schedule     *)
(* until it has written next_run_at, however long it is stalled, because   *)
(* the column still shows the slot it claimed and nobody else can claim    *)
(* that one.  This needs that no key expires and that nobody edits the     *)
(* schedule meanwhile.                                                     *)

NoEdits == Budget["edit"] = 0
KeysOutlive == MaxClock < ClaimTTL

Owns(s, d) == proc[s].pc \in {"enqueue", "update"} /\ d \in proc[s].cur

\* The slots of a pass were due when it began.
DueAtStart ==
  \A s \in Schedulers : \A d \in proc[s].todo \cup proc[s].cur : d[2] <= proc[s].now

\* A copy of a schedule that is out of date is of a slot that was claimed.
StaleIsClaimed ==
  \A s \in Schedulers : \A d \in proc[s].todo : Claimed(d) \/ next[d[1]] = d[2]

\* The owner of a slot is alone, and next_run_at waits for it.
OwnerIsAlone ==
  \A s \in Schedulers : \A d \in Schedules \X Times : Owns(s, d) =>
    /\ Claimed(d) /\ next[d[1]] = d[2]
    /\ \A r \in Schedulers : Owns(r, d) => r = s

NextInv == DueAtStart /\ StaleIsClaimed /\ OwnerIsAlone

\* No slot is forgotten that was claimed, no pass gets more to do or to own.
LEMMA NextQuiet ==
  ASSUME TypeOK, TypeOK', NextInv, next' = next,
         \A d \in Schedules \X Times : Claimed(d) => Claimed(d)',
         \A s \in Schedulers :
           /\ proc'[s].todo \subseteq proc[s].todo
           /\ proc'[s].cur \subseteq proc[s].cur
           /\ \/ proc'[s].now = proc[s].now
              \/ proc'[s].todo = {} /\ proc'[s].cur = {}
           /\ proc'[s].pc \in {"enqueue", "update"} /\ proc'[s].cur # {}
                => proc[s].pc \in {"enqueue", "update"}
  PROVE  NextInv'
  <1>0. \A s \in Schedulers : proc[s].todo \subseteq Schedules \X Times
    BY DEF TypeOK, Procs
  <1>1. DueAtStart'
    BY DEF NextInv, DueAtStart
  <1>2. StaleIsClaimed'
    BY <1>0 DEF NextInv, StaleIsClaimed
  <1>3. \A s \in Schedulers, d \in Schedules \X Times : Owns(s, d)' => Owns(s, d)
    BY DEF Owns
  <1>4. OwnerIsAlone'
    BY <1>3 DEF NextInv, OwnerIsAlone
  <1> QED BY <1>1, <1>2, <1>4 DEF NextInv

\* What Goto leaves of the time a pass began.
LEMMA GotoNow ==
  ASSUME TypeOK, NEW s \in Schedulers, NEW pc, NEW todo, NEW cur, Goto(s, pc, todo, cur)
  PROVE  /\ proc'[s].pc = pc /\ proc'[s].todo = todo /\ proc'[s].cur = cur
         /\ proc'[s].now = proc[s].now
         /\ \A r \in Schedulers \ {s} : proc'[r] = proc[r]
  <1>1. proc[s] \in Procs
    BY DEF TypeOK
  <1>2. proc'[s] = [proc[s] EXCEPT !.pc = pc, !.todo = todo, !.cur = cur]
    BY DEF TypeOK, Goto
  <1>3. \A r \in Schedulers \ {s} : proc'[r] = proc[r]
    BY DEF TypeOK, Goto
  <1> QED BY <1>1, <1>2, <1>3 DEF Procs

\* A scheduler that restarts has nothing to do.
LEMMA NextLeader ==
  ASSUME TypeOK, TypeOK', NextInv, NEW s \in Schedulers,
         LeaderTick(s) \/ CronTick(s) \/ AcquireReplyLost(s) \/ Shutdown(s)
           \/ CrashScheduler(s)
  PROVE  NextInv' /\ next' = next
  <1>1. next' = next /\ claims' = claims
    BY DEF LeaderTick, CronTick, AcquireReplyLost, Shutdown, CrashScheduler
  <1>2. \A d \in Schedules \X Times : Claimed(d) => Claimed(d)'
    BY <1>1 DEF Claimed
  <1>3. CASE proc' = proc
    BY <1>1, <1>2, <1>3, NextQuiet
  <1>4. CASE proc' = [proc EXCEPT ![s] = Fresh]
    <2>1. /\ proc'[s].todo = {} /\ proc'[s].cur = {}
          /\ \A r \in Schedulers \ {s} : proc'[r] = proc[r]
      BY <1>4 DEF TypeOK, Fresh
    <2> QED BY <1>1, <1>2, <2>1, NextQuiet
  <1>5. ASSUME NEW pc \in {"loop", "list"}, EnsureLeadership(s, pc), proc[s].pc = "loop"
        PROVE  NextInv'
    <2>1. proc[s] \in Procs
      BY DEF TypeOK
    <2>2. proc'[s] = [proc[s] EXCEPT !.pc = pc, !.token = OwnToken(s), !.isLeader = Acquires(s)]
      BY <1>5 DEF TypeOK, EnsureLeadership
    <2>3. /\ proc'[s].pc = pc /\ proc'[s].todo = proc[s].todo
          /\ proc'[s].cur = proc[s].cur /\ proc'[s].now = proc[s].now
      BY <2>1, <2>2, Zenon DEF Procs
    <2>4. \A r \in Schedulers \ {s} : proc'[r] = proc[r]
      BY <1>5 DEF TypeOK, EnsureLeadership
    <2> QED BY <1>1, <1>2, <1>5, <2>3, <2>4, NextQuiet
  <1> QED BY <1>1, <1>3, <1>4, <1>5
          DEF LeaderTick, CronTick, AcquireReplyLost, Shutdown, CrashScheduler

\* A pass that only drops slots, or moves on with the one it owns.
LEMMA NextPass ==
  ASSUME TypeOK, TypeOK', NextInv, NEW s \in Schedulers, NEW pc \in Pcs,
         NEW todo \in SUBSET proc[s].todo, NEW cur \in SUBSET proc[s].cur,
         Goto(s, pc, todo, cur), next' = next, claims \subseteq claims',
         pc \in {"enqueue", "update"} => proc[s].pc = "enqueue"
  PROVE  NextInv'
  <1>1. \A d \in Schedules \X Times : Claimed(d) => Claimed(d)'
    BY DEF Claimed
  <1> QED BY <1>1, GotoNow, NextQuiet

\* A pass lists schedules with their current next_run_at.
LEMMA NextList ==
  ASSUME CronInv, NextInv, NEW s \in Schedulers, ListDueSchedules(s)
  PROVE  NextInv' /\ next' = next
  <1> DEFINE found == {<<c, next[c]>> : c \in {x \in Schedules : next[x] <= clock}}
  <1>1. proc[s] \in Procs /\ next \in [Schedules -> Times]
    BY DEF CronInv, TypeOK
  <1>2. proc'[s] = [proc[s] EXCEPT !.pc = "each", !.now = clock, !.todo = found]
    BY DEF CronInv, TypeOK, ListDueSchedules
  <1>3. /\ proc'[s].pc = "each" /\ proc'[s].todo = found /\ proc'[s].cur = proc[s].cur
        /\ proc'[s].now = clock
    BY <1>1, <1>2 DEF Procs
  <1>4. /\ \A r \in Schedulers \ {s} : proc'[r] = proc[r]
        /\ next' = next /\ claims' = claims
    BY DEF CronInv, TypeOK, ListDueSchedules
  <1>5. \A d \in found : d[2] <= clock /\ next[d[1]] = d[2]
    OBVIOUS
  <1> HIDE DEF found
  <1>6. \A d \in proc[s].cur : d[2] <= clock
    BY DEF CronInv, SlotsAreDue
  <1>7. \A d : Claimed(d)' <=> Claimed(d)
    BY <1>4 DEF Claimed
  <1>8. DueAtStart'
    BY <1>3, <1>4, <1>5, <1>6 DEF NextInv, DueAtStart
  <1>9. StaleIsClaimed'
    BY <1>3, <1>4, <1>5, <1>7 DEF NextInv, StaleIsClaimed
  <1>10. \A r \in Schedulers, d \in Schedules \X Times : Owns(r, d)' => Owns(r, d)
    BY <1>3, <1>4 DEF Owns
  <1>11. OwnerIsAlone'
    BY <1>4, <1>7, <1>10 DEF NextInv, OwnerIsAlone
  <1> QED BY <1>4, <1>8, <1>9, <1>11 DEF NextInv

\* The slot a scheduler claims is the one the schedule's row shows, and nobody
\* owned it.
LEMMA NextClaim ==
  ASSUME TypeOK, NextInv, NEW s \in Schedulers, NEW d \in proc[s].todo, Claim(s, d)
  PROVE  NextInv' /\ next' = next
  <1>1. proc[s] \in Procs
    BY DEF TypeOK
  <1>2. PICK c \in Schedules, t \in Times : d = <<c, t>>
    BY <1>1 DEF Procs
  <1>3. /\ Goto(s, "enqueue", proc[s].todo \ {d}, {d}) /\ ~Claimed(d)
        /\ claims' = claims \cup {<<c, t, clock>>} /\ next' = next
    BY <1>2 DEF Claim
  <1>4. /\ proc'[s].pc = "enqueue" /\ proc'[s].todo = proc[s].todo \ {d}
        /\ proc'[s].cur = {d} /\ proc'[s].now = proc[s].now
        /\ \A r \in Schedulers \ {s} : proc'[r] = proc[r]
    BY <1>3, GotoNow
  <1>5. \A x : Claimed(x) => Claimed(x)'
    BY <1>3 DEF Claimed
  <1>6. Claimed(d)'
    <2>1. <<c, t, clock>> \in claims'
      BY <1>3
    <2>2. <<<<c, t, clock>>[1], <<c, t, clock>>[2]>> = d
      BY <1>2
    <2> QED BY <2>1, <2>2 DEF Claimed
  <1>7. next[d[1]] = d[2]
    BY <1>3 DEF NextInv, StaleIsClaimed
  <1>8. \A r \in Schedulers : ~Owns(r, d)
    BY <1>2, <1>3 DEF NextInv, OwnerIsAlone
  <1>9. \A r \in Schedulers, x \in Schedules \X Times :
          Owns(r, x)' => Owns(r, x) \/ (r = s /\ x = d)
    BY <1>4 DEF Owns
  <1>10. DueAtStart'
    BY <1>4 DEF NextInv, DueAtStart
  <1>11. StaleIsClaimed'
    BY <1>3, <1>4, <1>5 DEF NextInv, StaleIsClaimed
  <1>12. OwnerIsAlone'
    <2> SUFFICES ASSUME NEW r \in Schedulers, NEW x \in Schedules \X Times, Owns(r, x)'
                 PROVE  /\ Claimed(x)' /\ next[x[1]] = x[2]
                        /\ \A q \in Schedulers : Owns(q, x)' => q = r
      BY <1>3 DEF OwnerIsAlone
    <2>1. CASE x = d
      BY <1>6, <1>7, <1>8, <1>9, <2>1
    <2>2. CASE x # d
      BY <1>5, <1>9, <2>2 DEF NextInv, OwnerIsAlone
    <2> QED BY <2>1, <2>2
  <1> QED BY <1>3, <1>10, <1>11, <1>12 DEF NextInv

\* The owner of a slot writes a later time: the slot was due when its pass
\* began, and the row still shows it.
LEMMA NextUpdate ==
  ASSUME TypeOK, NextInv, NEW s \in Schedulers, UpdateScheduleRun(s)
  PROVE  NextInv' /\ \A c \in Schedules : next'[c] >= next[c]
  <1>1. proc[s] \in Procs /\ next \in [Schedules -> Times]
    BY DEF TypeOK
  <1>2. /\ proc[s].pc = "update" /\ Goto(s, "each", proc[s].todo, {}) /\ claims' = claims
    BY DEF UpdateScheduleRun
  <1>3. PICK d \in proc[s].cur : next' = [next EXCEPT ![d[1]] = proc[s].now + 1]
    BY DEF UpdateScheduleRun, NextRun
  <1>4. d \in Schedules \X Times /\ d[1] \in Schedules /\ d[2] \in Nat /\ proc[s].now \in Nat
    BY <1>1, ClockAssumption DEF Procs, Times
  <1>5. Owns(s, d)
    BY <1>2 DEF Owns
  <1>6. /\ Claimed(d) /\ next[d[1]] = d[2] /\ d[2] <= proc[s].now
        /\ \A r \in Schedulers : Owns(r, d) => r = s
    BY <1>4, <1>5 DEF NextInv, OwnerIsAlone, DueAtStart
  <1>7. \A c \in Schedules : next'[c] >= next[c]
    <2> TAKE c \in Schedules
    <2>1. CASE c = d[1]
      BY <1>1, <1>3, <1>4, <1>6, <2>1
    <2>2. CASE c # d[1]
      BY <1>1, <1>3, <2>2 DEF Times
    <2> QED BY <2>1, <2>2
  <1>8. /\ proc'[s].pc = "each" /\ proc'[s].todo = proc[s].todo
        /\ proc'[s].cur = {} /\ proc'[s].now = proc[s].now
        /\ \A r \in Schedulers \ {s} : proc'[r] = proc[r]
    BY <1>2, GotoNow
  <1>9. \A x : Claimed(x)' <=> Claimed(x)
    BY <1>2 DEF Claimed
  <1>10. \A r \in Schedulers, x \in Schedules \X Times :
           Owns(r, x)' => r # s /\ Owns(r, x)
    BY <1>8 DEF Owns
  <1>11. \A x \in Schedules \X Times : x[1] = d[1] /\ next[x[1]] = x[2] => x = d
    <2> SUFFICES ASSUME NEW x \in Schedules \X Times, x[1] = d[1], next[x[1]] = x[2]
                 PROVE  x = d
      OBVIOUS
    <2>1. x[2] = d[2]
      BY <1>6
    <2> QED BY <1>4, <2>1
  <1>12. \A c \in Schedules : c # d[1] => next'[c] = next[c]
    BY <1>1, <1>3
  <1>13. DueAtStart'
    BY <1>8 DEF NextInv, DueAtStart
  <1>14. StaleIsClaimed'
    <2> SUFFICES ASSUME NEW r \in Schedulers, NEW x \in proc[r].todo
                 PROVE  Claimed(x) \/ next'[x[1]] = x[2]
      BY <1>8, <1>9 DEF StaleIsClaimed
    <2>1. x \in Schedules \X Times /\ x[1] \in Schedules
      <3>1. proc[r] \in Procs
        BY DEF TypeOK
      <3> QED BY <3>1 DEF Procs
    <2>2. Claimed(x) \/ next[x[1]] = x[2]
      BY DEF NextInv, StaleIsClaimed
    <2>3. CASE x[1] = d[1]
      BY <1>6, <1>11, <2>1, <2>2, <2>3
    <2>4. CASE x[1] # d[1]
      BY <1>12, <2>1, <2>2, <2>4
    <2> QED BY <2>3, <2>4
  <1>15. OwnerIsAlone'
    <2> SUFFICES ASSUME NEW r \in Schedulers, NEW x \in Schedules \X Times, Owns(r, x)'
                 PROVE  /\ Claimed(x) /\ next'[x[1]] = x[2]
                        /\ \A q \in Schedulers : Owns(q, x)' => q = r
      BY <1>9 DEF OwnerIsAlone
    <2>1. /\ r # s /\ Owns(r, x) /\ Claimed(x) /\ next[x[1]] = x[2]
          /\ \A q \in Schedulers : Owns(q, x) => q = r
      BY <1>10 DEF NextInv, OwnerIsAlone
    <2>2. x[1] # d[1] /\ x[1] \in Schedules
      BY <1>6, <1>11, <2>1
    <2> QED BY <1>10, <1>12, <2>1, <2>2
  <1> QED BY <1>7, <1>13, <1>14, <1>15 DEF NextInv

\* Every step keeps NextInv and moves next_run_at forward.
LEMMA NextStep ==
  ASSUME NoEdits, KeysOutlive, CronInv, CronInv', NextInv, [Next]_vars
  PROVE  NextInv' /\ \A c \in Schedules : next'[c] >= next[c]
  <1>0. TypeOK /\ TypeOK'
    BY DEF CronInv
  <1>1. next' = next => \A c \in Schedules : next'[c] >= next[c]
    BY <1>0 DEF TypeOK, Times
  <1>2. CASE ClockTicks \/ LeadershipExpires \/ UNCHANGED vars
    <2>1. UNCHANGED <<next, claims, proc>>
      BY <1>2 DEF ClockTicks, LeadershipExpires, vars
    <2>2. \A d \in Schedules \X Times : Claimed(d) => Claimed(d)'
      BY <2>1 DEF Claimed
    <2> QED BY <1>0, <1>1, <2>1, <2>2, NextQuiet
  <1>3. ASSUME NEW k \in claims, ClaimExpires(k) PROVE FALSE
    <2>1. k[3] \in Nat /\ clock \in Nat /\ clock <= MaxClock
      BY <1>0, ClockAssumption DEF TypeOK, Times
    <2>2. k[3] + ClaimTTL <= clock
      BY <1>3 DEF ClaimExpires
    <2> QED BY <2>1, <2>2, ClockAssumption DEF KeysOutlive
  <1>4. ASSUME NEW c \in Schedules, UpsertSchedule(c) PROVE FALSE
    <2>1. spent["edit"] < Budget["edit"] /\ spent["edit"] \in Nat
      BY <1>0, <1>4 DEF UpsertSchedule, Spend, TypeOK, EnvKinds
    <2> QED BY <2>1 DEF NoEdits
  <1>5. ASSUME NEW s \in Schedulers,
               LeaderTick(s) \/ CronTick(s) \/ AcquireReplyLost(s) \/ Shutdown(s)
                 \/ CrashScheduler(s)
        PROVE  NextInv' /\ next' = next
    BY <1>0, <1>5, NextLeader
  <1>6. ASSUME NEW s \in Schedulers, NEW d \in proc[s].todo, ClaimRefused(s, d) \/ ClaimFails(s, d)
        PROVE  NextInv' /\ next' = next
    <2>1. /\ Goto(s, "each", proc[s].todo \ {d}, {})
          /\ next' = next /\ claims \subseteq claims' /\ "each" \in Pcs
      BY <1>6 DEF ClaimRefused, ClaimFails, Pcs
    <2>2. proc[s].todo \ {d} \in SUBSET proc[s].todo /\ {} \in SUBSET proc[s].cur
      OBVIOUS
    <2> QED BY <1>0, <2>1, <2>2, NextPass
  <1>7. ASSUME NEW s \in Schedulers, EnqueueFails(s) \/ UpdateFails(s) \/ PassEnds(s)
        PROVE  NextInv' /\ next' = next
    <2>1. /\ next' = next /\ claims \subseteq claims' /\ {"each", "loop"} \subseteq Pcs
          /\ Goto(s, "each", proc[s].todo, {}) \/ Goto(s, "loop", {}, {})
      BY <1>7 DEF EnqueueFails, UpdateFails, PassEnds, Pcs
    <2>2. {} \in SUBSET proc[s].cur /\ {} \in SUBSET proc[s].todo
      OBVIOUS
    <2> QED BY <1>0, <2>1, <2>2, NextPass
  <1>8. ASSUME NEW s \in Schedulers, EnqueueScheduled(s) PROVE NextInv' /\ next' = next
    <2>1. /\ next' = next /\ claims \subseteq claims' /\ "update" \in Pcs
          /\ proc[s].pc = "enqueue" /\ Goto(s, "update", proc[s].todo, proc[s].cur)
      BY <1>8 DEF EnqueueScheduled, Pcs
    <2> QED BY <1>0, <2>1, NextPass
  <1>9. ASSUME NEW s \in Schedulers, PassStep(s)
        PROVE  NextInv' /\ \A c \in Schedules : next'[c] >= next[c]
    BY <1>0, <1>1, <1>6, <1>7, <1>8, <1>9, NextList, NextClaim, NextUpdate DEF PassStep
  <1>10. ASSUME NEW s \in Schedulers, FaultStep(s) PROVE NextInv' /\ next' = next
    BY <1>5, <1>6, <1>7, <1>10 DEF FaultStep
  <1> QED BY <1>1, <1>2, <1>3, <1>4, <1>5, <1>9, <1>10 DEF Next

\* next_run_at never moves backwards, however long a scheduler stalls between
\* ListDueSchedules and UpdateScheduleRun and whatever crashes or fails, as long
\* as nobody edits the schedule and the dispatch keys (24 hours) outlive it all.
THEOREM NextRunNeverGoesBack ==
  ASSUME NoEdits, KeysOutlive
  PROVE  Spec => NextRunAdvances
  <1>1. Init => NextInv
    <2> SUFFICES ASSUME Init PROVE NextInv
      OBVIOUS
    <2>1. \A s \in Schedulers : proc[s].todo = {} /\ proc[s].cur = {}
      BY DEF Init, Fresh
    <2> QED BY <2>1 DEF NextInv, DueAtStart, StaleIsClaimed, OwnerIsAlone, Owns
  <1>2. CronInv /\ CronInv' /\ NextInv /\ [Next]_vars
          => NextInv' /\ [\A c \in Schedules : next'[c] >= next[c]]_vars
    BY NextStep
  <1> QED BY <1>1, <1>2, CronInvariant, PTL DEF Spec, NextRunAdvances

-----------------------------------------------------------------------------
(* Slots that are passed over.  Without crashes and errors a dispatch key  *)
(* means that the job is enqueued or will be by the claim's owner, who is  *)
(* still at it, leader or not.                                             *)

NoFaults == Budget["crash"] = 0 /\ Budget["error"] = 0

\* A scheduler enqueues for one slot, and every claimed slot is started.
ClaimIsStarted ==
  /\ \A s \in Schedulers : proc[s].pc = "enqueue" => \E d : proc[s].cur = {d}
  /\ \A d \in Schedules \X Times : Claimed(d) =>
       dispatched[d[1]][d[2]] > 0 \/ \E r \in Schedulers : Starting(r, d)

\* A step that makes no key, and takes no scheduler to or from an enqueue.
LEMMA StartedQuiet ==
  ASSUME ClaimIsStarted, claims' \subseteq claims, dispatched' = dispatched,
         \A s \in Schedulers : proc'[s].pc = "enqueue" \/ proc[s].pc = "enqueue" =>
           proc'[s].pc = proc[s].pc /\ proc'[s].cur = proc[s].cur
  PROVE  ClaimIsStarted'
  <1>1. \A d : Claimed(d)' => Claimed(d)
    BY DEF Claimed
  <1>2. \A s \in Schedulers, d \in Schedules \X Times : Starting(s, d) => Starting(s, d)'
    BY DEF Starting
  <1> QED BY <1>1, <1>2 DEF ClaimIsStarted

\* A claim makes its owner a starter.
LEMMA StartedClaim ==
  ASSUME TypeOK, ClaimIsStarted, NEW s \in Schedulers, NEW d \in proc[s].todo, Claim(s, d)
  PROVE  ClaimIsStarted'
  <1>1. /\ Goto(s, "enqueue", proc[s].todo \ {d}, {d}) /\ proc[s].pc = "each"
        /\ claims' = claims \cup {<<d[1], d[2], clock>>} /\ dispatched' = dispatched
    BY DEF Claim
  <1>2. /\ proc'[s].pc = "enqueue" /\ proc'[s].cur = {d}
        /\ \A r \in Schedulers \ {s} : proc'[r] = proc[r]
    BY <1>1, GotoNow
  <1>3. ASSUME NEW x \in Schedules \X Times, Claimed(x)' PROVE Claimed(x) \/ x = d
    <2>0. proc[s] \in Procs
      BY DEF TypeOK
    <2>1. PICK c \in Schedules, t \in Times : d = <<c, t>>
      BY <2>0 DEF Procs
    <2>2. PICK k \in claims' : <<k[1], k[2]>> = x
      BY <1>3 DEF Claimed
    <2>3. CASE k = <<c, t, clock>>
      BY <2>1, <2>2, <2>3
    <2>4. CASE k \in claims
      BY <2>2, <2>4 DEF Claimed
    <2> QED BY <1>1, <2>1, <2>2, <2>3, <2>4
  <1>4. \A r \in Schedulers, x \in Schedules \X Times : Starting(r, x) => Starting(r, x)'
    BY <1>1, <1>2 DEF Starting
  <1>5. Starting(s, d)'
    BY <1>2 DEF Starting
  <1> QED BY <1>1, <1>2, <1>3, <1>4, <1>5 DEF ClaimIsStarted

\* The starter of a slot enqueues that slot's job.
LEMMA StartedEnqueue ==
  ASSUME TypeOK, ClaimIsStarted, NEW s \in Schedulers, EnqueueScheduled(s)
  PROVE  ClaimIsStarted'
  <1>1. /\ Goto(s, "update", proc[s].todo, proc[s].cur) /\ claims' = claims
        /\ proc[s].pc = "enqueue" /\ proc[s] \in Procs
        /\ dispatched \in [Schedules -> [Times -> Nat]]
    BY DEF EnqueueScheduled, TypeOK
  <1>2. PICK d \in proc[s].cur : dispatched' = [dispatched EXCEPT ![d[1]][d[2]] = @ + 1]
    BY DEF EnqueueScheduled
  <1>3. PICK c \in Schedules, t \in Times : d = <<c, t>>
    BY <1>1 DEF Procs
  <1>4. proc[s].cur = {d}
    BY <1>1 DEF ClaimIsStarted
  <1>5. /\ proc'[s].pc = "update"
        /\ \A r \in Schedulers \ {s} : proc'[r] = proc[r]
    BY <1>1, GotoNow
  <1>6. /\ dispatched'[c][t] > 0
        /\ \A b \in Schedules, u \in Times : dispatched[b][u] > 0 => dispatched'[b][u] > 0
    <2>1. dispatched' = [dispatched EXCEPT ![c][t] = @ + 1]
      BY <1>2, <1>3
    <2> QED BY <1>1, <2>1
  <1>7. \A r \in Schedulers, x \in Schedules \X Times :
          Starting(r, x) => x = d \/ Starting(r, x)'
    BY <1>4, <1>5 DEF Starting
  <1>8. ASSUME NEW x \in Schedules \X Times, Claimed(x)'
        PROVE  dispatched'[x[1]][x[2]] > 0 \/ \E r \in Schedulers : Starting(r, x)'
    <2>1. Claimed(x)
      BY <1>1, <1>8 DEF Claimed
    <2>2. CASE x = d
      BY <1>3, <1>6, <2>2
    <2>3. CASE x # d
      BY <1>6, <1>7, <2>1, <2>3 DEF ClaimIsStarted
    <2> QED BY <2>2, <2>3
  <1> QED BY <1>5, <1>8 DEF ClaimIsStarted

\* Every step of a system without faults keeps ClaimIsStarted.
LEMMA StartedStep ==
  ASSUME NoFaults, TypeOK, ClaimIsStarted, [Next]_vars
  PROVE  ClaimIsStarted'
  <1>1. CASE ClockTicks \/ LeadershipExpires \/ UNCHANGED vars
    <2>1. UNCHANGED <<claims, dispatched, proc>>
      BY <1>1 DEF ClockTicks, LeadershipExpires, vars
    <2> QED BY <2>1, StartedQuiet
  <1>2. ASSUME NEW k \in claims, ClaimExpires(k) PROVE ClaimIsStarted'
    <2>1. claims' \subseteq claims /\ UNCHANGED <<dispatched, proc>>
      BY <1>2 DEF ClaimExpires
    <2> QED BY <2>1, StartedQuiet
  <1>3. ASSUME NEW c \in Schedules, UpsertSchedule(c) PROVE ClaimIsStarted'
    <2>1. UNCHANGED <<claims, dispatched, proc>>
      BY <1>3 DEF UpsertSchedule
    <2> QED BY <2>1, StartedQuiet
  <1>4. ASSUME NEW s \in Schedulers, LeaderTick(s) \/ CronTick(s) PROVE ClaimIsStarted'
    <2>1. PICK pc \in {"loop", "list"} : EnsureLeadership(s, pc)
      BY <1>4 DEF LeaderTick, CronTick
    <2>2. proc[s].pc = "loop" /\ UNCHANGED <<claims, dispatched>> /\ pc \in Pcs
      BY <1>4 DEF LeaderTick, CronTick, Pcs
    <2>3. proc'[s].pc = pc /\ \A r \in Schedulers \ {s} : proc'[r] = proc[r]
      BY <2>1, <2>2, EnsureProc
    <2> QED BY <2>2, <2>3, StartedQuiet
  <1>5. ASSUME NEW s \in Schedulers, ListDueSchedules(s) PROVE ClaimIsStarted'
    <2>1. proc[s].pc = "list" /\ UNCHANGED <<claims, dispatched>> /\ proc[s] \in Procs
      BY <1>5 DEF ListDueSchedules, TypeOK
    <2>2. proc'[s].pc = "each" /\ \A r \in Schedulers \ {s} : proc'[r] = proc[r]
      BY <1>5, <2>1 DEF ListDueSchedules, TypeOK, Procs
    <2> QED BY <2>1, <2>2, StartedQuiet
  <1>6. ASSUME NEW s \in Schedulers, NEW pc \in {"each", "loop"}, NEW todo,
               Goto(s, pc, todo, {}), proc[s].pc \in {"each", "update"},
               UNCHANGED <<claims, dispatched>>
        PROVE  ClaimIsStarted'
    BY <1>6, GotoNow, StartedQuiet
  <1>7. ASSUME NEW s \in Schedulers, PassStep(s) PROVE ClaimIsStarted'
    <2>1. ASSUME NEW d \in proc[s].todo, ClaimRefused(s, d) PROVE ClaimIsStarted'
      BY <1>6, <2>1 DEF ClaimRefused
    <2>2. CASE UpdateScheduleRun(s) \/ PassEnds(s)
      BY <1>6, <2>2 DEF UpdateScheduleRun, PassEnds
    <2> QED BY <1>5, <1>7, <2>1, <2>2, StartedClaim, StartedEnqueue DEF PassStep
  <1>8. ASSUME NEW s \in Schedulers, FaultStep(s) PROVE FALSE
    <2>1. Spend("crash") \/ Spend("error")
      BY <1>8 DEF FaultStep, AcquireReplyLost, Shutdown, CrashScheduler, ClaimFails,
                  EnqueueFails, UpdateFails
    <2>2. spent["crash"] \in Nat /\ spent["error"] \in Nat
      BY DEF TypeOK, EnvKinds
    <2> QED BY <2>1, <2>2 DEF NoFaults, Spend
  <1> QED BY <1>1, <1>2, <1>3, <1>4, <1>7, <1>8 DEF Next

\* Leaders come and go, keys expire and schedules are edited; without crashes
\* and errors a due slot is passed over only if its job has been enqueued or
\* its owner is just about to.
THEOREM PassedOverIsDispatched ==
  ASSUME NoFaults
  PROVE  Spec => SkippedIsDispatched
  <1> DEFINE Skip == \A s \in Schedulers : \A d \in proc[s].todo :
               ClaimRefused(s, d) =>
                 \/ dispatched[d[1]][d[2]] > 0
                 \/ \E r \in Schedulers : proc[r].pc = "enqueue" /\ d \in proc[r].cur
  <1>1. Init => ClaimIsStarted
    BY DEF Init, Fresh, ClaimIsStarted, Claimed
  <1>2. TypeOK /\ ClaimIsStarted /\ [Next]_vars => ClaimIsStarted'
    BY StartedStep
  <1>3. TypeOK /\ ClaimIsStarted => [Skip]_vars
    <2> SUFFICES ASSUME TypeOK, ClaimIsStarted, NEW s \in Schedulers,
                        NEW d \in proc[s].todo, ClaimRefused(s, d)
                 PROVE  \/ dispatched[d[1]][d[2]] > 0
                        \/ \E r \in Schedulers : proc[r].pc = "enqueue" /\ d \in proc[r].cur
      OBVIOUS
    <2>1. proc[s] \in Procs
      BY DEF TypeOK
    <2>2. d \in Schedules \X Times /\ Claimed(d)
      BY <2>1 DEF Procs, ClaimRefused
    <2> QED BY <2>2 DEF ClaimIsStarted, Starting
  <1> HIDE DEF Skip
  <1>4. Spec => [][Skip]_vars
    BY <1>1, <1>2, <1>3, CronTypeCorrect, PTL DEF Spec
  <1> QED BY <1>4 DEF Skip, SkippedIsDispatched
=============================================================================
