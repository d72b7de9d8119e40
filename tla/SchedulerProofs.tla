--------------------------- MODULE SchedulerProofs --------------------------
(*****************************************************************************)
(* Proofs about the scheduler: ScanScheduling, for any scans, plans, clock,  *)
(* requests of staff and scheduler processes, and SchedulerLeader, for any   *)
(* processes, jobs, losses and crashes.                                      *)
(*****************************************************************************)
EXTENDS ScanScheduling, SchedulerLeader, OrderLemmas, SequenceTheorems, TLAPS


-----------------------------------------------------------------------------
(* SchedulerLeader: two schedulers overlap only while one has lost its session *)

USE LeaderAssumption

\* What a process that took the lock is in, until it has released it.
Holding(p) == At(p, "locked") \/ At(p, "leading") \/ At(p, "draining")

\* The lock of a process that holds it and kept its session is still its own.
HoldersHold ==
    \A p \in SchedulerProcesses : Holding(p) /\ session[p] = "open" => holder = p

\* Jobs run only under a scheduler that was started and not yet waited for,
\* in a process that opened a session.
JobsAreHeld ==
    \A p \in SchedulerProcesses :
        /\ inFlight[p] # {} => At(p, "leading") \/ At(p, "draining")
        /\ session[p] = "none" <=> At(p, "down")

LeaderInv == LeaderTypeOK /\ HoldersHold /\ JobsAreHeld

\* The initial states satisfy the invariant.
LEMMA LeaderInitHolds == InitLeaders => LeaderInv
BY DEF InitLeaders, LeaderInv, LeaderTypeOK, Places, HoldersHold, JobsAreHeld, Holding, At

\* Every step keeps the types.
LEMMA TypeStep == LeaderInv /\ [NextLeaders]_leaderVars => LeaderTypeOK'
<1> SUFFICES ASSUME LeaderInv, [NextLeaders]_leaderVars PROVE LeaderTypeOK'
  OBVIOUS
<1> USE DEF LeaderInv, LeaderTypeOK, Places, At, Goes, Ends, GivesBack, Trouble, Drops
<1>1. ASSUME NEW p \in SchedulerProcesses, Runs(p) PROVE LeaderTypeOK'
  <2>1. CASE Launch(p)
    BY <2>1 DEF Launch
  <2>2. CASE TryLock(p)
    BY <2>2 DEF TryLock
  <2>3. CASE GiveUp(p)
    BY <2>3 DEF GiveUp
  <2>4. CASE Hold(p)
    BY <2>4 DEF Hold
  <2>5. CASE Probe(p)
    BY <2>5 DEF Probe
  <2>6. CASE StopLeading(p)
    BY <2>6 DEF StopLeading
  <2>7. CASE Release(p)
    BY <2>7 DEF Release
  <2>8. CASE Exit(p)
    BY <2>8 DEF Exit
  <2> QED
    BY <1>1, <2>1, <2>2, <2>3, <2>4, <2>5, <2>6, <2>7, <2>8 DEF Runs
<1>2. ASSUME NEW p \in SchedulerProcesses, AskStop(p) PROVE LeaderTypeOK'
  BY <1>2 DEF AskStop
<1>3. ASSUME NEW p \in SchedulerProcesses, SessionLost(p) PROVE LeaderTypeOK'
  BY <1>3 DEF SessionLost
<1>4. ASSUME NEW p \in SchedulerProcesses, Crash(p) PROVE LeaderTypeOK'
  BY <1>4 DEF Crash
<1>5. ASSUME NEW p \in SchedulerProcesses, NEW t \in Tasks, JobStarts(p, t) \/ JobEnds(p, t) PROVE LeaderTypeOK'
  BY <1>5 DEF JobStarts, JobEnds
<1>6. CASE NoticeDead
  BY <1>6 DEF NoticeDead
<1>7. CASE UNCHANGED leaderVars
  BY <1>7 DEF leaderVars
<1> QED
  BY <1>1, <1>2, <1>3, <1>4, <1>5, <1>6, <1>7 DEF NextLeaders

\* The lock changes hands only when it is free, and a process gives it up
\* before it stops holding.
LEMMA HolderStep == LeaderInv /\ [NextLeaders]_leaderVars => HoldersHold'
<1> SUFFICES ASSUME LeaderInv, [NextLeaders]_leaderVars, NEW q \in SchedulerProcesses, (Holding(q) /\ session[q] = "open")'
             PROVE  holder' = q
  BY DEF HoldersHold
<1> USE DEF LeaderInv, LeaderTypeOK, HoldersHold, Holding, At, Goes, Ends, GivesBack, Trouble, Drops
<1>1. ASSUME NEW p \in SchedulerProcesses, Runs(p) PROVE holder' = q
  <2>1. CASE Launch(p)
    BY <2>1 DEF Launch
  <2>2. CASE TryLock(p)
    BY <2>2 DEF TryLock
  <2>3. CASE GiveUp(p)
    BY <2>3 DEF GiveUp
  <2>4. CASE Hold(p)
    BY <2>4 DEF Hold
  <2>5. CASE Probe(p)
    BY <2>5 DEF Probe
  <2>6. CASE StopLeading(p)
    BY <2>6 DEF StopLeading
  <2>7. CASE Release(p)
    BY <2>7 DEF Release
  <2>8. CASE Exit(p)
    BY <2>8 DEF Exit
  <2> QED
    BY <1>1, <2>1, <2>2, <2>3, <2>4, <2>5, <2>6, <2>7, <2>8 DEF Runs
<1>2. ASSUME NEW p \in SchedulerProcesses, AskStop(p) PROVE holder' = q
  BY <1>2 DEF AskStop
<1>3. ASSUME NEW p \in SchedulerProcesses, SessionLost(p) PROVE holder' = q
  BY <1>3 DEF SessionLost
<1>4. ASSUME NEW p \in SchedulerProcesses, Crash(p) PROVE holder' = q
  BY <1>4 DEF Crash
<1>5. ASSUME NEW p \in SchedulerProcesses, NEW t \in Tasks, JobStarts(p, t) \/ JobEnds(p, t) PROVE holder' = q
  BY <1>5 DEF JobStarts, JobEnds
<1>6. CASE NoticeDead
  BY <1>6 DEF NoticeDead
<1>7. CASE UNCHANGED leaderVars
  BY <1>7 DEF leaderVars
<1> QED
  BY <1>1, <1>2, <1>3, <1>4, <1>5, <1>6, <1>7 DEF NextLeaders

\* No job outlives the wait of shutdown.
LEMMA JobStep == LeaderInv /\ [NextLeaders]_leaderVars => JobsAreHeld'
<1> SUFFICES ASSUME LeaderInv, [NextLeaders]_leaderVars, NEW q \in SchedulerProcesses
             PROVE  /\ inFlight'[q] # {} => (At(q, "leading") \/ At(q, "draining"))'
                    /\ session'[q] = "none" <=> At(q, "down")'
  BY DEF JobsAreHeld
<1> DEFINE Held == /\ inFlight'[q] # {} => (At(q, "leading") \/ At(q, "draining"))'
                   /\ session'[q] = "none" <=> At(q, "down")'
<1> USE DEF LeaderInv, LeaderTypeOK, JobsAreHeld, At, Goes, Ends
<1>1. ASSUME NEW p \in SchedulerProcesses, Runs(p) PROVE Held
  <2>1. CASE Launch(p)
    BY <2>1 DEF Launch
  <2>2. CASE TryLock(p)
    BY <2>2 DEF TryLock
  <2>3. CASE GiveUp(p)
    BY <2>3 DEF GiveUp
  <2>4. CASE Hold(p)
    BY <2>4 DEF Hold
  <2>5. CASE Probe(p)
    BY <2>5 DEF Probe
  <2>6. CASE StopLeading(p)
    BY <2>6 DEF StopLeading
  <2>7. CASE Release(p)
    BY <2>7 DEF Release, Quiet
  <2>8. CASE Exit(p)
    BY <2>8 DEF Exit
  <2> QED
    BY <1>1, <2>1, <2>2, <2>3, <2>4, <2>5, <2>6, <2>7, <2>8 DEF Runs
<1>2. ASSUME NEW p \in SchedulerProcesses, AskStop(p) PROVE Held
  BY <1>2 DEF AskStop
<1>3. ASSUME NEW p \in SchedulerProcesses, SessionLost(p) PROVE Held
  BY <1>3 DEF SessionLost
<1>4. ASSUME NEW p \in SchedulerProcesses, Crash(p) PROVE Held
  BY <1>4 DEF Crash
<1>5. ASSUME NEW p \in SchedulerProcesses, NEW t \in Tasks, JobStarts(p, t) \/ JobEnds(p, t) PROVE Held
  BY <1>5 DEF JobStarts, JobEnds
<1>6. CASE NoticeDead
  BY <1>6 DEF NoticeDead
<1>7. CASE UNCHANGED leaderVars
  BY <1>7 DEF leaderVars
<1> QED
  BY <1>1, <1>2, <1>3, <1>4, <1>5, <1>6, <1>7 DEF NextLeaders

\* Two sessions that are open cannot both have the lock.
LEMMA InvSuffices == LeaderInv => OverlapIsFenced
<1> SUFFICES ASSUME LeaderInv, NEW p \in SchedulerProcesses, NEW q \in SchedulerProcesses,
                    p # q, inFlight[p] # {}, inFlight[q] # {},
                    session[p] # "lost", session[q] # "lost"
             PROVE  FALSE
  BY DEF OverlapIsFenced
<1>1. Holding(p) /\ Holding(q)
  BY DEF LeaderInv, JobsAreHeld, Holding
<1>2. session[p] = "open" /\ session[q] = "open"
  BY DEF LeaderInv, LeaderTypeOK, JobsAreHeld, At
<1> QED
  BY <1>1, <1>2 DEF LeaderInv, HoldersHold

\* The inductive invariant of leadership: a process that took the lock has it
\* as long as its session is open, and jobs run under such a process only.
THEOREM LeaderInvHolds == LeaderSpec => []LeaderInv
<1>1. LeaderInv /\ [NextLeaders]_leaderVars => LeaderInv'
  BY TypeStep, HolderStep, JobStep DEF LeaderInv
<1> QED
  BY LeaderInitHolds, <1>1, PTL DEF LeaderSpec

\* Whatever processes start, stop, lose their sessions or crash, the jobs of
\* two of them run at once only while one has lost its session.
THEOREM OverlapStaysFenced == LeaderSpec => []OverlapIsFenced
BY LeaderInvHolds, InvSuffices, PTL

HIDE LeaderAssumption

-----------------------------------------------------------------------------
(* ScanScheduling: an occurrence runs once *)

USE NoTimeAssumption, SchedulingAssumption

-----------------------------------------------------------------------------
(* Instants.                                                                *)

\* The first of some instants.
LEMMA FirstInstant ==
    ASSUME NEW S \in SUBSET Nat
    PROVE  /\ S # {} => Min(S) \in S /\ \A k \in S : Min(S) <= k
           /\ \A v \in S : (\A k \in S : v <= k) => v = Min(S)
<1>1. S # {} => Min(S) \in S /\ \A k \in S : Min(S) <= k
  BY Least DEF Min
<1> QED
  <2> SUFFICES ASSUME NEW v \in S, \A k \in S : v <= k PROVE v = Min(S)
    BY <1>1
  <2> DEFINE m == Min(S)
  <2>1. m \in Nat /\ v \in Nat /\ m <= v /\ v <= m
    BY <1>1
  <2> HIDE DEF m
  <2>2. v = m
    BY <2>1
  <2> QED
    BY <2>2 DEF m

\* _next_occurrence of a clock plan: the first instant it names within the
\* horizon, or the ScheduleError.
LEMMA ClockNext ==
    ASSUME NEW p, IsPlan(p), p.kind = "clock", NEW t \in Nat
    PROVE  LET named == Named(p, t, t + Horizon)
           IN  /\ named \subseteq Nat
               /\ named = {} => NextOccurrence(p, t) = NoOccurrence
               /\ named # {} => /\ NextOccurrence(p, t) \in named
                                /\ \A k \in named : NextOccurrence(p, t) <= k
               /\ \A v \in named : (\A k \in named : v <= k) => NextOccurrence(p, t) = v
<1> DEFINE named == Named(p, t, t + Horizon)
<1>1. NextOccurrence(p, t) = IF named = {} THEN NoOccurrence ELSE Min(named)
  BY DEF NextOccurrence
<1>2. named \in SUBSET Nat
  BY DEF Named
<1> HIDE DEF named
<1>3. /\ named # {} => Min(named) \in named /\ \A k \in named : Min(named) <= k
      /\ \A v \in named : (\A k \in named : v <= k) => v = Min(named)
  BY <1>2, FirstInstant
<1>4. /\ named \subseteq Nat
      /\ named = {} => NextOccurrence(p, t) = NoOccurrence
      /\ named # {} => /\ NextOccurrence(p, t) \in named
                       /\ \A k \in named : NextOccurrence(p, t) <= k
      /\ \A v \in named : (\A k \in named : v <= k) => NextOccurrence(p, t) = v
  BY <1>1, <1>2, <1>3
<1> QED
  BY <1>4 DEF named

\* scan_schedule.py, next_occurrence: no instant, a later one or the error.
LEMMA NextOccurrenceIsLater ==
    ASSUME NEW p, IsPlan(p), NEW t \in Nat
    PROVE  /\ NextOccurrence(p, t) \in Time \cup {NoOccurrence}
           /\ p.kind # "manual" => NextOccurrence(p, t) # NoTime
           /\ NextOccurrence(p, t) \in Nat => NextOccurrence(p, t) > t
<1>1. CASE p.kind = "manual"
  BY <1>1 DEF NextOccurrence, Time
<1>2. CASE p.kind = "interval"
  BY <1>2 DEF NextOccurrence, Time, IsPlan
<1>3. CASE p.kind = "clock"
  <2>1. \A v \in Named(p, t, t + Horizon) : v \in Nat /\ v > t
    BY DEF Named
  <2>2. NextOccurrence(p, t) = NoOccurrence \/ NextOccurrence(p, t) \in Named(p, t, t + Horizon)
    BY <1>3, ClockNext
  <2> QED
    BY <2>1, <2>2 DEF Time
<1> QED
  BY <1>1, <1>2, <1>3 DEF IsPlan

\* next_future_after_catchup returns an instant, or none, or raises.
LEMMA CatchUpTyped ==
    ASSUME NEW p, IsPlan(p), NEW due \in Nat, NEW n \in Nat
    PROVE  CatchUp(p, due, n) \in Time \cup {NoOccurrence}
<1>1. CASE due > n \/ p.kind # "interval"
  BY <1>1, NextOccurrenceIsLater DEF CatchUp
<1>2. CASE due <= n /\ p.kind = "interval"
  <2>1. (n - due) \div p.every \in Nat
    BY <1>2 DEF IsPlan
  <2>2. p.every * (1 + (n - due) \div p.every) \in Nat
    BY <2>1 DEF IsPlan
  <2> QED
    BY <1>2, <2>2 DEF CatchUp, Time
<1> QED
  BY <1>1, <1>2

\* Whole steps of e reach past a, and not before its last multiple.
LEMMA DivBound ==
    ASSUME NEW a \in Nat, NEW e \in Nat \ {0}
    PROVE  /\ a \div e \in Nat
           /\ a < e * (1 + (a \div e))
<1>1. a \div e \in Nat
  OBVIOUS
<1>2. a = e * (a \div e) + (a % e)
  OBVIOUS
<1>3. a % e \in 0..(e - 1)
  OBVIOUS
<1> QED
  BY <1>1, <1>2, <1>3

\* scan_schedule.py, next_future_after_catchup: for every plan and however late
\* the tick, the instant it moves next_run_at to, if any, lies after now.
THEOREM CatchUpIsFuture ==
    ASSUME NEW p, IsPlan(p), NEW due \in Nat, NEW n \in Nat
    PROVE  CatchUp(p, due, n) \in Nat => CatchUp(p, due, n) > n
<1>1. CASE due > n
  BY <1>1, NextOccurrenceIsLater DEF CatchUp
<1>2. CASE due <= n /\ p.kind # "interval"
  BY <1>2, NextOccurrenceIsLater DEF CatchUp
<1>3. CASE due <= n /\ p.kind = "interval"
  <2>1. n - due \in Nat /\ p.every \in Nat \ {0}
    BY <1>3 DEF IsPlan
  <2>2. n - due < p.every * (1 + ((n - due) \div p.every))
    BY <2>1, DivBound
  <2>3. p.every * (1 + ((n - due) \div p.every)) \in Nat
    BY <2>1
  <2>4. CatchUp(p, due, n) = due + p.every * (1 + ((n - due) \div p.every))
    BY <1>3 DEF CatchUp
  <2> QED
    BY <2>2, <2>3, <2>4
<1> QED
  BY <1>1, <1>2, <1>3

-----------------------------------------------------------------------------
(* The loop of next_future_after_catchup ends where CatchUp says.           *)

\* What a division leaves.
LEMMA DivMod ==
    ASSUME NEW a \in Int, NEW e \in Nat \ {0}
    PROVE  /\ a \div e \in Int /\ a % e \in 0..(e - 1)
           /\ e * (a \div e) \in Int /\ a = e * (a \div e) + (a % e)
OBVIOUS

\* Of two instants the same distance from a, only one lies in the next e.
LEMMA DivUnique ==
    ASSUME NEW a \in Int, NEW e \in Nat \ {0}, NEW q \in Int, NEW r \in 0..(e - 1), a = e * q + r
    PROVE  a % e = r /\ a \div e = q
<1> DEFINE p == a \div e
           s == a % e
<1>1. p \in Int /\ s \in 0..(e - 1) /\ a = e * p + s
  OBVIOUS
<1> HIDE DEF p, s
<1>2. ASSUME NEW x \in Int, NEW y \in Int, NEW u \in 0..(e - 1), NEW v \in 0..(e - 1),
             e * x + u = e * y + v, x < y
      PROVE  FALSE
  <2>1. PICK d \in Nat : d >= 1 /\ y = x + d
    <3>1. y - x \in Nat /\ y - x >= 1 /\ y = x + (y - x)
      BY <1>2
    <3> QED BY <3>1
  <2>2. e * y = e * x + e * d
    BY <2>1
  <2>3. e * d >= e
    <3>1. e * d = e + e * (d - 1) /\ d - 1 \in Nat
      BY <2>1
    <3>2. \A k \in Nat : e * k \in Nat
      OBVIOUS
    <3>3. e * (d - 1) \in Nat
      BY <3>1, <3>2
    <3>4. e * d \in Int
      OBVIOUS
    <3> QED BY <3>1, <3>3, <3>4
  <2>4. e * x \in Int /\ e * y \in Int /\ e * d \in Int
    BY <2>1
  <2> QED BY <1>2, <2>2, <2>3, <2>4
<1>3. p = q
  BY <1>1, <1>2
<1>4. s = r
  <2>1. e * p \in Int
    BY <1>1
  <2> QED BY <1>1, <1>3, <2>1
<1> QED BY <1>3, <1>4 DEF p, s

\* One turn of the loop: the instant CatchUp reaches from the next occurrence
\* is the one it reaches from here.
LEMMA LoopTurn ==
    ASSUME NEW p, IsPlan(p), p.kind # "manual", NEW n \in Nat, NEW t \in Nat, t <= n
    PROVE  LET next == NextOccurrence(p, t)
           IN  /\ next \in Nat => next > t
               /\ next \in Nat /\ next <= n => CatchUp(p, next, n) = CatchUp(p, t, n)
               /\ ~(next \in Nat /\ next <= n) => next = CatchUp(p, t, n)
<1> DEFINE e == p.every
<1>1. e \in Nat \ {0} /\ p.kind \in {"interval", "clock"}
  BY DEF IsPlan
<1>2. CASE p.kind = "interval"
  <2>1. NextOccurrence(p, t) = t + e
    BY <1>2 DEF NextOccurrence
  <2>2. \A u \in Nat : u <= n => CatchUp(p, u, n) = u + e * (1 + (n - u) \div e)
    BY <1>2 DEF CatchUp
  <2> DEFINE q == (n - t) \div e
             r == (n - t) % e
  <2>3. q \in Int /\ r \in 0..(e - 1) /\ n - t = e * q + r
    <3>1. n - t \in Int
      OBVIOUS
    <3> HIDE DEF e
    <3> QED
      BY <1>1, <3>1, DivMod
  <2> HIDE DEF q, r, e
  <2>4. e * q \in Int /\ e * (q - 1) = e * q - e /\ e * (1 + (q - 1)) = e * q /\ e * (1 + q) = e * q + e
    BY <1>1, <2>3
  <2>5. CASE t + e <= n
    <3>1. n - (t + e) = e * (q - 1) + r /\ n - (t + e) \in Int /\ q - 1 \in Int
      BY <1>1, <2>3, <2>4
    <3>2. (n - (t + e)) \div e = q - 1
      BY <1>1, <2>3, <3>1, DivUnique
    <3>3. CatchUp(p, t + e, n) = t + e + e * (1 + (q - 1))
      <4>1. t + e \in Nat
        BY <1>1
      <4>2. CatchUp(p, t + e, n) = t + e + e * (1 + (n - (t + e)) \div e)
        BY <2>2, <2>5, <4>1
      <4> QED
        BY <3>2, <4>2
    <3>4. CatchUp(p, t, n) = t + e * (1 + q)
      BY <2>2 DEF q
    <3>5. CatchUp(p, t + e, n) = CatchUp(p, t, n)
      BY <1>1, <2>4, <3>3, <3>4
    <3> QED
      BY <1>1, <2>1, <2>5, <3>5
  <2>6. CASE t + e > n
    <3>1. n - t = e * 0 + (n - t) /\ n - t \in 0..(e - 1) /\ n - t \in Int
      BY <1>1, <2>6
    <3>2. (n - t) \div e = 0
      BY <1>1, <3>1, DivUnique
    <3>3. CatchUp(p, t, n) = t + e * (1 + 0)
      BY <2>2, <3>2
    <3> QED
      BY <1>1, <2>1, <2>6, <3>3
  <2> QED
    BY <1>1, <2>5, <2>6
<1>3. CASE p.kind = "clock"
  <2> DEFINE v == NextOccurrence(p, t)
             Raises(u) == \E x \in {u} \cup Named(p, u, n) : NextOccurrence(p, x) = NoOccurrence
  <2>1. \A u \in Nat : u <= n => CatchUp(p, u, n) = IF Raises(u) THEN NoOccurrence ELSE NextOccurrence(p, n)
    BY <1>3 DEF CatchUp
  <2>2. CASE v = NoOccurrence
    BY <2>1, <2>2, NoTimeAssumption
  <2>3. CASE v # NoOccurrence
    <3>1. /\ v \in Named(p, t, t + Horizon)
          /\ \A k \in Named(p, t, t + Horizon) : v <= k
      BY <1>3, <2>3, ClockNext
    <3>2. v \in Nat /\ v > t /\ v <= t + Horizon /\ v % e \in p.at
      BY <3>1 DEF Named
    <3> HIDE DEF v, e
    <3>3. \A k \in Nat : k > t /\ k % e \in p.at => v <= k
      <4> SUFFICES ASSUME NEW k \in Nat, k > t, k % e \in p.at, k < v PROVE FALSE
        BY <3>2
      <4>1. k \in (t + 1)..(t + Horizon)
        BY <3>2
      <4> QED
        BY <3>1, <3>2, <4>1 DEF Named, e
    <3>4. CASE v <= n
      <4>1. Named(p, t, n) = {v} \cup Named(p, v, n)
        <5>1. \A k : k \in Named(p, t, n) <=> k \in Nat /\ k > t /\ k <= n /\ k % e \in p.at
          BY DEF Named, e
        <5>2. \A k : k \in Named(p, v, n) <=> k \in Nat /\ k > v /\ k <= n /\ k % e \in p.at
          BY <3>2 DEF Named, e
        <5>3. \A k : k \in Named(p, t, n) <=> k = v \/ k \in Named(p, v, n)
          BY <3>2, <3>3, <3>4, <5>1, <5>2
        <5> QED
          BY <5>3
      <4>2. Raises(t) <=> Raises(v)
        BY <2>3, <4>1 DEF v
      <4>3. CatchUp(p, v, n) = CatchUp(p, t, n)
        BY <2>1, <3>2, <3>4, <4>2
      <4> QED
        BY <3>2, <3>4, <4>3 DEF v
    <3>5. CASE v > n
      <4>1. Named(p, t, n) = {}
        <5>1. \A k \in Named(p, t, n) : k \in Nat /\ k > t /\ k <= n /\ k % e \in p.at
          BY DEF Named, e
        <5> QED
          BY <3>2, <3>3, <3>5, <5>1
      <4>2. ~Raises(t)
        BY <2>3, <4>1 DEF v
      <4>3. v \in Named(p, n, n + Horizon) /\ \A k \in Named(p, n, n + Horizon) : v <= k
        <5>1. v \in (n + 1)..(n + Horizon)
          BY <3>2, <3>5
        <5>2. \A k \in Named(p, n, n + Horizon) : k \in Nat /\ k > t /\ k % e \in p.at
          BY DEF Named, e
        <5> QED
          BY <3>2, <3>3, <5>1, <5>2 DEF Named, e
      <4>4. NextOccurrence(p, n) = v
        BY <1>3, <4>3, ClockNext
      <4>5. v = CatchUp(p, t, n)
        BY <2>1, <4>2, <4>4
      <4> QED
        BY <3>2, <3>5, <4>5 DEF v
    <3> QED
      BY <3>2, <3>4, <3>5
  <2> QED
    BY <2>2, <2>3
<1> QED
  BY <1>1, <1>2, <1>3

\* next_future_after_catchup: the instants the loop passes through end where
\* CatchUp says, for every plan that names instants and however late the tick.
THEOREM LoopIsCatchUp ==
    ASSUME NEW p, IsPlan(p), p.kind # "manual", NEW due \in Nat, NEW n \in Nat
    PROVE  CatchUpLoop(p, due, n) = CatchUp(p, due, n)
<1>1. CASE due > n
  BY <1>1 DEF CatchUpLoop, CatchUp
<1>2. CASE due <= n
  <2> DEFINE next(t) == NextOccurrence(p, t)
             Is(f) == f = [t \in due..n |-> IF next(t) \in Nat /\ next(t) <= n THEN f[next(t)] ELSE next(t)]
             loop == CHOOSE f : Is(f)
             closed == [t \in due..n |-> CatchUp(p, t, n)]
  <2> DEFINE Stays(t) == next(t) \in Nat /\ next(t) <= n
  <2>1. \A t \in due..n : /\ Stays(t) => /\ next(t) \in due..n /\ next(t) > t
                                         /\ CatchUp(p, next(t), n) = CatchUp(p, t, n)
                          /\ ~Stays(t) => next(t) = CatchUp(p, t, n)
    <3> SUFFICES ASSUME NEW t \in due..n
                 PROVE  /\ Stays(t) => /\ next(t) \in due..n /\ next(t) > t
                                       /\ CatchUp(p, next(t), n) = CatchUp(p, t, n)
                        /\ ~Stays(t) => next(t) = CatchUp(p, t, n)
      OBVIOUS
    <3>1. t \in Nat /\ t <= n
      OBVIOUS
    <3>2. /\ next(t) \in Nat => next(t) > t
          /\ next(t) \in Nat /\ next(t) <= n => CatchUp(p, next(t), n) = CatchUp(p, t, n)
          /\ ~(next(t) \in Nat /\ next(t) <= n) => next(t) = CatchUp(p, t, n)
      BY <3>1, LoopTurn
    <3> QED
      BY <3>1, <3>2
  <2>2. CatchUpLoop(p, due, n) = loop[due]
    BY <1>2 DEF CatchUpLoop
  <2> HIDE DEF next
  <2>3. Is(closed)
    BY <2>1
  <2>4. Is(loop)
    <3> HIDE DEF Is, closed
    <3> QED
      BY <2>3
  <2> HIDE DEF loop
  <2> DEFINE S == {k \in Nat : \A t \in due..n : n - t <= k => loop[t] = CatchUp(p, t, n)}
  <2>5. \A t \in due..n : loop[t] = IF Stays(t) THEN loop[next(t)] ELSE next(t)
    BY <2>4
  <2> HIDE DEF Is, closed, Stays
  <2>6. 0 \in S
    BY <2>1, <2>5
  <2>7. \A k \in Nat : k \in S => k + 1 \in S
    <3> SUFFICES ASSUME NEW k \in Nat, k \in S, NEW t \in due..n, n - t <= k + 1
                 PROVE  loop[t] = CatchUp(p, t, n)
      OBVIOUS
    <3>1. CASE Stays(t)
      <4>1. next(t) \in due..n /\ n - next(t) <= k
        BY <2>1, <3>1
      <4> QED
        BY <2>1, <2>5, <3>1, <4>1
    <3>2. CASE ~Stays(t)
      BY <2>1, <2>5, <3>2
    <3> QED
      BY <3>1, <3>2
  <2>8. Nat \subseteq S
    <3> HIDE DEF S
    <3> QED
      BY <2>6, <2>7, SetInduction
  <2>9. n - due \in Nat /\ due \in due..n
    BY <1>2
  <2> QED
    BY <2>2, <2>8, <2>9
<1> QED
  BY <1>1, <1>2

-----------------------------------------------------------------------------
(* Type correctness.                                                        *)

\* A handler that is about to commit has a scan to commit to.
BusyHasScan ==
    /\ \A r \in Staff : staff[r].pc # "idle" => staff[r].scan \in Scans
    /\ \A k \in Schedulers : tick[k].pc = "queueing" => tick[k].scan \in Scans

Inv == TypeOK /\ BusyHasScan /\ OccurrenceRunsOnce

\* The records of idle processes are typed.
LEMMA NothingTyped == Nothing \in Definition
<1>1. (CHOOSE p \in Plans : TRUE) \in Plans
  OBVIOUS
<1> QED
  BY <1>1 DEF Nothing, Definition, Time

\* A handler and a tick at rest are well typed.
LEMMA IdleTyped == Idle \in StaffState /\ IdleTick \in TickState
BY NothingTyped DEF Idle, IdleTick, StaffState, TickState

\* A merge of columns is a definition again.
LEMMA FlushTyped ==
    ASSUME NEW seen \in Definition, NEW new \in Definition, NEW row \in Definition
    PROVE  Flush(seen, new, row) \in Definition
BY DEF Flush, Column, Definition

\* next_run_at as an edit, and then as a tick, leaves it.
LEMMA FirstRunTyped ==
    ASSUME NEW e \in BOOLEAN, NEW a \in BOOLEAN, NEW p \in Plans, now \in Nat,
           FirstRun(e, a, p) # NoOccurrence
    PROVE  FirstRun(e, a, p) \in Time
BY NextOccurrenceIsLater DEF FirstRun, Time

\* next_run_at as a tick leaves it is an instant or none.
LEMMA NextRunTyped ==
    ASSUME NEW s \in Scans, NEW row \in Definition, row.next # NoTime, now \in Nat,
           NextRun(s, row) # NoOccurrence
    PROVE  NextRun(s, row) \in Time
<1>1. row.next \in Nat /\ row.plan \in Plans
  BY DEF Definition, Time
<1> QED
  BY <1>1, CatchUpTyped DEF NextRun, Time

\* A run is appended to the runs of its scan, and to no other.
LEMMA NewRunTyped ==
    ASSUME TypeOK, NEW s \in Scans, NEW due \in Time, NEW made \in Nat,
           NEW d \in Definition, NewRun(s, due, made, d)
    PROVE  /\ runs' \in [Scans -> Seq(Run)]
           /\ \A other \in Scans \ {s} : runs'[other] = runs[other]
           /\ Len(runs'[s]) = Len(runs[s]) + 1
           /\ runs'[s][Len(runs[s]) + 1].due = due
           /\ \A i \in DOMAIN runs[s] : runs'[s][i] = runs[s][i]
<1> DEFINE run == [due |-> due, made |-> made, revision |-> d.revision, over |-> FALSE]
<1>1. run \in Run
  BY DEF Run, Definition
<1>2. runs[s] \in Seq(Run)
  BY DEF TypeOK
<1>3. runs' = [runs EXCEPT ![s] = Append(runs[s], run)]
  BY DEF NewRun
<1> HIDE DEF run
<1>4. Append(runs[s], run) \in Seq(Run)
  BY <1>1, <1>2
<1>5. runs' \in [Scans -> Seq(Run)]
  BY <1>3, <1>4 DEF TypeOK
<1>6. runs'[s] = Append(runs[s], run)
  BY <1>3 DEF TypeOK
<1>7. \A other \in Scans \ {s} : runs'[other] = runs[other]
  BY <1>3 DEF TypeOK
<1>8. run.due = due
  BY DEF run
<1> QED
  BY <1>2, <1>5, <1>6, <1>7, <1>8

\* A step of one request, and of one scheduler, changes its own record only.
LEMMA StaffStep ==
    ASSUME TypeOK, BusyHasScan, NEW r \in Staff, NEW state \in StaffState,
           state.pc # "idle" => state.scan \in Scans,
           staff' = [staff EXCEPT ![r] = state]
    PROVE  /\ staff' \in [Staff -> StaffState]
           /\ \A q \in Staff : staff'[q].pc # "idle" => staff'[q].scan \in Scans
BY DEF TypeOK, BusyHasScan

\* The same of a step of one scheduler.
LEMMA TickStep ==
    ASSUME TypeOK, BusyHasScan, NEW k \in Schedulers, NEW state \in TickState,
           state.pc = "queueing" => state.scan \in Scans,
           tick' = [tick EXCEPT ![k] = state]
    PROVE  /\ tick' \in [Schedulers -> TickState]
           /\ \A q \in Schedulers : tick'[q].pc = "queueing" => tick'[q].scan \in Scans
BY DEF TypeOK, BusyHasScan

\* What a tick leaves for its later scans is well typed and queues nothing.
LEMMA RestTyped ==
    ASSUME TypeOK, NEW k \in Schedulers, NEW s \in Scans
    PROVE  Rest(k, s) \in TickState /\ Rest(k, s).pc # "queueing"
<1>1. tick[k].todo \ {s} \in SUBSET Scans /\ [tick[k].order EXCEPT ![s] = 0] \in [Scans -> Nat]
  BY DEF TypeOK, TickState
<1> QED
  BY <1>1, IdleTyped DEF Rest, TickState, IdleTick

\* Staff requests that change nothing committed but their own state.
LEMMA EditTyped ==
    ASSUME TypeOK, BusyHasScan, NEW r \in Staff, NEW s \in Scans,
           NEW new \in Definition, Edit(r, s, new)
    PROVE  TypeOK' /\ BusyHasScan' /\ runs' = runs
<1> DEFINE state == [pc |-> "editing", scan |-> s, seen |-> scans[s],
                     new |-> [new EXCEPT !.revision = scans[s].revision + 1]]
<1>1. scans[s] \in Definition
  BY DEF TypeOK
<1>2. state \in StaffState
  BY <1>1 DEF StaffState, Definition
<1>3. staff' = [staff EXCEPT ![r] = state]
  BY DEF Edit
<1>4. state.pc # "idle" => state.scan \in Scans
  OBVIOUS
<1> HIDE DEF state
<1> QED
  BY <1>2, <1>3, <1>4, StaffStep DEF Edit, TypeOK, BusyHasScan

\* The occurrences of s after a step are those before it, each where it was,
\* and at most one more, which had not run yet.
Extends(s) ==
    \/ /\ DOMAIN runs'[s] = DOMAIN runs[s]
       /\ \A i \in DOMAIN runs[s] : runs'[s][i].due = runs[s][i].due
    \/ /\ Len(runs'[s]) = Len(runs[s]) + 1
       /\ \A i \in DOMAIN runs[s] : runs'[s][i].due = runs[s][i].due
       /\ LET due == runs'[s][Len(runs[s]) + 1].due
          IN  due = NoTime \/ ~Occurred(s, due)

Good == TypeOK' /\ BusyHasScan' /\ \A s \in Scans : Extends(s)

\* A step that inserts no run, and one that inserts a run with a fresh key.
LEMMA SameRunsExtend == ASSUME runs' = runs PROVE \A s \in Scans : Extends(s)
BY DEF Extends

\* A run with a key of its own extends the runs of its scan only.
LEMMA NewRunExtends ==
    ASSUME TypeOK, NEW s \in Scans, NEW due \in Time, NEW made \in Nat,
           NEW d \in Definition, NewRun(s, due, made, d), due = NoTime \/ ~Occurred(s, due)
    PROVE  runs' \in [Scans -> Seq(Run)] /\ \A x \in Scans : Extends(x)
<1>1. \A x \in Scans \ {s} : Extends(x)
  BY NewRunTyped DEF Extends
<1>2. Extends(s)
  BY NewRunTyped DEF Extends
<1> QED
  BY <1>1, <1>2, NewRunTyped

\* Each group of actions keeps the types and extends the runs.
LEMMA RequestStep ==
    ASSUME TypeOK, BusyHasScan, NEW r \in Staff, NEW s \in Scans,
           \/ RunScan(r, s) \/ ArchiveScan(r, s)
           \/ \E enabled \in BOOLEAN, plan \in Plans : UpdateScan(r, s, enabled, plan)
    PROVE  Good
<1>1. scans[s] \in Definition /\ now \in Nat
  BY DEF TypeOK
<1>2. CASE RunScan(r, s)
  <2> DEFINE state == [Idle EXCEPT !.pc = "running", !.scan = s, !.seen = scans[s]]
  <2>1. state \in StaffState /\ (state.pc # "idle" => state.scan \in Scans)
    BY <1>1, NothingTyped DEF StaffState, Idle
  <2>2. staff' = [staff EXCEPT ![r] = state] /\ UNCHANGED <<scans, valid, runs, tick, now>>
    BY <1>2 DEF RunScan
  <2> HIDE DEF state
  <2> QED
    BY <2>1, <2>2, StaffStep, SameRunsExtend DEF Good, TypeOK, BusyHasScan
<1>3. CASE ArchiveScan(r, s)
  <2> DEFINE new == [scans[s] EXCEPT !.archived = TRUE, !.enabled = FALSE, !.next = NoTime]
  <2>1. new \in Definition /\ Edit(r, s, new)
    BY <1>1, <1>3 DEF ArchiveScan, Definition, Time
  <2> HIDE DEF new
  <2> QED
    BY <2>1, EditTyped, SameRunsExtend DEF Good
<1>4. ASSUME NEW enabled \in BOOLEAN, NEW plan \in Plans, UpdateScan(r, s, enabled, plan)
      PROVE  Good
  <2> DEFINE next == FirstRun(enabled, scans[s].archived, plan)
             new == [scans[s] EXCEPT !.enabled = enabled, !.plan = plan, !.next = next]
  <2>1. next \in Time
    BY <1>1, <1>4, FirstRunTyped DEF Definition, UpdateScan
  <2> HIDE DEF next
  <2>2. new \in Definition
    BY <1>1, <2>1 DEF Definition
  <2>3. Edit(r, s, new)
    BY <1>4 DEF UpdateScan, next
  <2> HIDE DEF new
  <2> QED
    BY <2>2, <2>3, EditTyped, SameRunsExtend DEF Good
<1> QED
  BY <1>2, <1>3, <1>4

\* A request commits its run or its edit, or dies.
LEMMA RequestEnds ==
    ASSUME TypeOK, BusyHasScan, NEW r \in Staff,
           RunScanCommit(r) \/ EditCommit(r) \/ RequestAborts(r)
    PROVE  Good
<1>1. staff' = [staff EXCEPT ![r] = Idle] /\ UNCHANGED <<valid, tick, now>>
  BY DEF RunScanCommit, EditCommit, RequestAborts
<1>2. /\ staff' \in [Staff -> StaffState] /\ BusyHasScan'
      /\ staff[r] \in StaffState /\ now \in Nat
  BY <1>1, IdleTyped, StaffStep DEF BusyHasScan, Idle, TypeOK
<1>3. CASE RunScanCommit(r)
  <2>1. staff[r].scan \in Scans /\ NewRun(staff[r].scan, NoTime, now, staff[r].seen)
    BY <1>3 DEF RunScanCommit, BusyHasScan
  <2>2. staff[r].seen \in Definition /\ NoTime \in Time
    BY <1>2 DEF StaffState, Time
  <2>3. runs' \in [Scans -> Seq(Run)] /\ \A x \in Scans : Extends(x)
    BY <1>2, <2>1, <2>2, NewRunExtends
  <2> QED
    BY <1>1, <1>2, <1>3, <2>3 DEF Good, TypeOK, RunScanCommit
<1>4. CASE EditCommit(r)
  <2>1. staff[r].scan \in Scans /\ scans[staff[r].scan] \in Definition
    BY <1>4 DEF EditCommit, BusyHasScan, TypeOK
  <2>2. Flush(staff[r].seen, staff[r].new, scans[staff[r].scan]) \in Definition
    BY <1>2, <2>1, FlushTyped DEF StaffState
  <2>3. scans' \in [Scans -> Definition] /\ runs' = runs
    BY <1>4, <2>2 DEF EditCommit, TypeOK
  <2> QED
    BY <1>1, <1>2, <2>3, SameRunsExtend DEF Good, TypeOK
<1>5. CASE RequestAborts(r)
  BY <1>1, <1>2, <1>5, SameRunsExtend DEF Good, TypeOK, RequestAborts
<1> QED
  BY <1>3, <1>4, <1>5

\* A tick loads its due scans, passes over one or decides on one.
LEMMA SchedulerStep ==
    ASSUME TypeOK, BusyHasScan, NEW k \in Schedulers, NEW s \in Scans,
           Tick(k) \/ TickSkip(k, s) \/ TickQueue(k, s)
    PROVE  Good
<1>1. UNCHANGED <<scans, valid, runs, staff, now>>
  BY DEF Tick, TickSkip, TickQueue
<1>2. SUFFICES \E state \in TickState :
                  /\ state.pc = "queueing" => state.scan \in Scans
                  /\ tick' = [tick EXCEPT ![k] = state]
  BY <1>1, TickStep, SameRunsExtend DEF Good, TypeOK, BusyHasScan
<1>3. tick[k] \in TickState /\ now \in Nat /\ \A x \in Scans : scans[x] \in Definition
  BY DEF TypeOK
<1>4. CASE Tick(k)
  <2> DEFINE due == {x \in Scans : IsDue(x)}
             loaded == [x \in Scans |-> IF x \in due THEN scans[x] ELSE Nothing]
             order == [x \in Scans |-> IF x \in due THEN scans[x].next ELSE 0]
             state == [IdleTick EXCEPT !.pc = "ticking", !.todo = due, !.order = order,
                                       !.expired = FALSE, !.loaded = loaded]
  <2>1. loaded \in [Scans -> Definition]
    BY <1>3, NothingTyped
  <2>4. order \in [Scans -> Nat]
    BY <1>3 DEF IsDue, Definition, Time
  <2> HIDE DEF loaded, order
  <2>2. state \in TickState /\ state.pc # "queueing"
    BY <2>1, <2>4, IdleTyped DEF TickState, IdleTick
  <2>3. tick' = [tick EXCEPT ![k] = state]
    BY <1>4 DEF Tick, loaded, order
  <2> QED
    BY <2>2, <2>3
<1>5. CASE TickSkip(k, s)
  BY <1>5, RestTyped DEF TickSkip
<1>6. CASE TickQueue(k, s)
  <2> DEFINE row == RowOf(k, s)
             new == [row EXCEPT !.next = NextRun(s, row)]
             state == [tick[k] EXCEPT !.pc = "queueing", !.scan = s, !.seen = row,
                          !.made = now, !.new = new,
                          !.insert = row.plan.kind # "manual" /\ ~Occurred(s, row.next)]
  <2>1. row \in Definition
    BY <1>3 DEF RowOf, TickState
  <2>2. NextRun(s, row) \in Time
    BY <1>3, <1>6, <2>1, NextRunTyped DEF TickQueue, MayQueue
  <2>3. tick' = [tick EXCEPT ![k] = state]
    BY <1>6 DEF TickQueue
  <2> HIDE DEF row
  <2>4. new \in Definition
    BY <2>1, <2>2 DEF Definition
  <2> HIDE DEF new
  <2>5. state \in TickState /\ state.scan \in Scans
    BY <1>3, <2>1, <2>4 DEF TickState
  <2> HIDE DEF state
  <2> QED
    BY <2>3, <2>5
<1> QED
  BY <1>4, <1>5, <1>6

\* A tick commits, meets a conflict, raises or dies.
LEMMA SchedulerEnds ==
    ASSUME TypeOK, BusyHasScan, NEW k \in Schedulers,
           \/ TickCommit(k) \/ TickConflict(k) \/ TickAborts(k)
           \/ \E s \in Scans : TickRaises(k, s)
    PROVE  Good
<1>1. tick[k] \in TickState /\ now \in Nat /\ IdleTick.pc # "queueing"
  BY DEF TypeOK, IdleTick
<1>2. CASE TickConflict(k) \/ TickAborts(k) \/ \E s \in Scans : TickRaises(k, s)
  <2>1. tick' = [tick EXCEPT ![k] = IdleTick] /\ UNCHANGED <<scans, valid, runs, staff, now>>
    BY <1>2 DEF TickConflict, TickAborts, TickRaises
  <2> QED
    BY <1>1, <2>1, IdleTyped, TickStep, SameRunsExtend DEF Good, TypeOK, BusyHasScan
<1>3. CASE TickCommit(k)
  <2> DEFINE s == tick[k].scan
             row == tick[k].seen
  <2>1. /\ s \in Scans /\ scans[s] \in Definition
        /\ row \in Definition /\ tick[k].new \in Definition /\ tick[k].made \in Nat
    BY <1>1, <1>3 DEF TickCommit, BusyHasScan, TypeOK, TickState
  <2>2. scans' \in [Scans -> Definition]
    BY <1>3, <2>1, FlushTyped DEF TickCommit, TypeOK
  <2>3. tick' \in [Schedulers -> TickState] /\ BusyHasScan'
    BY <1>3, <2>1, RestTyped, TickStep DEF TickCommit, BusyHasScan
  <2>4. runs' \in [Scans -> Seq(Run)] /\ \A x \in Scans : Extends(x)
    <3>1. CASE tick[k].insert
      <4>1. NewRun(s, row.next, tick[k].made, row) /\ ~Occurred(s, row.next)
        BY <1>3, <3>1 DEF TickCommit
      <4>2. row.next \in Time
        BY <2>1 DEF Definition
      <4> QED
        BY <2>1, <4>1, <4>2, NewRunExtends
    <3>2. CASE ~tick[k].insert
      BY <1>3, <3>2, SameRunsExtend DEF TickCommit, TypeOK
    <3> QED
      BY <3>1, <3>2
  <2> QED
    BY <1>3, <2>2, <2>3, <2>4 DEF Good, TypeOK, TickCommit
<1> QED
  BY <1>2, <1>3

\* A run that ends keeps the occurrence it was for.
LEMMA EndOfRun ==
    ASSUME TypeOK, BusyHasScan, NEW s \in Scans, NEW i \in DOMAIN runs[s], RunEnds(s, i)
    PROVE  Good
<1>1. runs[s] \in Seq(Run) /\ runs[s][i] \in Run
  BY DEF TypeOK
<1> DEFINE last == [runs[s][i] EXCEPT !.over = TRUE]
           ended == [runs[s] EXCEPT ![i] = last]
<1>2. ended \in Seq(Run) /\ DOMAIN ended = DOMAIN runs[s]
  <2>1. last \in Run
    BY <1>1 DEF Run
  <2>2. i \in 1..Len(runs[s])
    BY <1>1
  <2> HIDE DEF last
  <2> QED
    BY <1>1, <2>1, <2>2, ExceptSeq
<1>3. \A j \in DOMAIN runs[s] : ended[j].due = runs[s][j].due
  BY <1>1 DEF Run
<1>4. runs' = [runs EXCEPT ![s] = ended] /\ UNCHANGED <<scans, valid, staff, tick, now>>
  BY DEF RunEnds
<1> HIDE DEF ended
<1>5. runs' \in [Scans -> Seq(Run)] /\ \A x \in Scans : Extends(x)
  BY <1>2, <1>3, <1>4 DEF Extends, TypeOK
<1> QED
  BY <1>4, <1>5 DEF Good, TypeOK, BusyHasScan

\* Every step, one case for each group of actions.
LEMMA StepIsGood == TypeOK /\ BusyHasScan /\ [Next]_vars => Good
<1> SUFFICES ASSUME TypeOK, BusyHasScan, [Next]_vars PROVE Good
  OBVIOUS
<1>1. CASE TimePasses
  BY <1>1, SameRunsExtend DEF TimePasses, Good, TypeOK, BusyHasScan
<1>2. CASE UNCHANGED vars
  BY <1>2, SameRunsExtend DEF vars, Good, TypeOK, BusyHasScan
<1>3. CASE \E r \in Staff, s \in Scans :
             \/ RunScan(r, s) \/ ArchiveScan(r, s)
             \/ \E enabled \in BOOLEAN, plan \in Plans : UpdateScan(r, s, enabled, plan)
  BY <1>3, RequestStep
<1>4. CASE \E r \in Staff : RunScanCommit(r) \/ EditCommit(r) \/ RequestAborts(r)
  BY <1>4, RequestEnds
<1>5. CASE \E k \in Schedulers : \/ TickCommit(k) \/ TickConflict(k) \/ TickAborts(k)
                                \/ \E s \in Scans : TickRaises(k, s)
  BY <1>5, SchedulerEnds
<1>6. CASE \E k \in Schedulers : Tick(k) \/ \E s \in Scans : TickSkip(k, s) \/ TickQueue(k, s)
  BY <1>6, SchedulerStep DEF Tick, IsDue
<1>7. CASE \E s \in Scans : \E i \in DOMAIN runs[s] : RunEnds(s, i)
  BY <1>7, EndOfRun
<1>8. CASE \E s \in Touched : TargetsChange(s)
  <2>1. valid' \in [Scans -> BOOLEAN] /\ UNCHANGED <<scans, runs, staff, tick, now>>
    BY <1>8 DEF TargetsChange, TypeOK
  <2> QED
    BY <2>1, SameRunsExtend DEF Good, TypeOK, BusyHasScan
<1>9. Touched \subseteq Scans
  OBVIOUS
<1> QED
  BY <1>1, <1>2, <1>3, <1>4, <1>5, <1>6, <1>7, <1>8, <1>9 DEF Next

\* Definitions as create_scan leaves them, no run, nothing under way.
LEMMA InitIsGood == Init => Inv
<1> SUFFICES ASSUME Init PROVE Inv
  OBVIOUS
<1>1. now = 0 /\ runs = [s \in Scans |-> << >>]
  BY DEF Init
<1>2. scans \in [Scans -> Definition]
  <2>1. \A p \in Plans : NextOccurrence(p, 0) \in Time \cup {NoOccurrence}
    BY NextOccurrenceIsLater
  <2>2. NoTime \in Time
    BY DEF Time
  <2> DEFINE Nexts == {NextOccurrence(p, 0) : p \in Plans} \cup {NoTime}
  <2>3. Nexts \subseteq Time \cup {NoOccurrence}
    BY <2>1, <2>2
  <2>4. scans \in [Scans -> {d \in [enabled : BOOLEAN, archived : {FALSE}, plan : Plans,
                                   next : Nexts, revision : {1}] :
                               d.next = FirstRun(d.enabled, FALSE, d.plan) /\ d.next # NoOccurrence}]
    BY DEF Init
  <2> HIDE DEF Nexts
  <2>5. ASSUME NEW s \in Scans PROVE scans[s] \in Definition
    <3>1. scans[s] \in [enabled : BOOLEAN, archived : {FALSE}, plan : Plans,
                        next : Nexts, revision : {1}]
      BY <2>4
    <3>7. scans[s].next \in Nexts /\ scans[s].next # NoOccurrence
      BY <2>4
    <3>2. scans[s].next \in Time
      BY <2>3, <3>7
    <3>3. /\ scans[s].archived = FALSE
          /\ scans[s].plan \in Plans /\ scans[s].revision = 1
      BY <3>1
    <3>4. scans[s].enabled \in BOOLEAN
      BY <3>1, Zenon
    <3>5. 1 \in Nat
      OBVIOUS
    <3>6. scans[s] = [enabled |-> scans[s].enabled, archived |-> scans[s].archived,
                      plan |-> scans[s].plan, next |-> scans[s].next,
                      revision |-> scans[s].revision]
      BY <3>1
    <3> QED
      BY <3>2, <3>3, <3>4, <3>5, <3>6, Zenon DEF Definition
  <2> QED
    BY <2>4, <2>5
<1>3. staff \in [Staff -> StaffState] /\ tick \in [Schedulers -> TickState] /\ valid \in [Scans -> BOOLEAN]
  BY IdleTyped DEF Init
<1>4. BusyHasScan
  BY DEF Init, BusyHasScan, Idle, IdleTick
<1>5. OccurrenceRunsOnce
  BY <1>1 DEF OccurrenceRunsOnce
<1> QED
  BY <1>1, <1>2, <1>3, <1>4, <1>5 DEF Inv, TypeOK

\* Runs that extend each other keep one run per occurrence.
LEMMA OnceStep == Inv /\ Good => OccurrenceRunsOnce'
<1> SUFFICES ASSUME Inv, Good, NEW s \in Scans,
                    NEW i \in DOMAIN runs'[s], NEW j \in DOMAIN runs'[s],
                    runs'[s][i].due = runs'[s][j].due, runs'[s][i].due # NoTime
             PROVE  i = j
  BY DEF OccurrenceRunsOnce
<1>1. runs[s] \in Seq(Run) /\ runs'[s] \in Seq(Run) /\ Extends(s)
  BY DEF Inv, Good, TypeOK
<1>2. \A a, b \in DOMAIN runs[s] :
         runs[s][a].due = runs[s][b].due /\ runs[s][a].due # NoTime => a = b
  BY DEF Inv, OccurrenceRunsOnce
<1>3. DOMAIN runs[s] = 1..Len(runs[s]) /\ DOMAIN runs'[s] = 1..Len(runs'[s])
  BY <1>1
<1>4. \A a \in DOMAIN runs[s] : runs'[s][a].due = runs[s][a].due
  BY <1>1 DEF Extends
<1>5. CASE i \in DOMAIN runs[s] /\ j \in DOMAIN runs[s]
  BY <1>2, <1>4, <1>5
<1>6. CASE i \notin DOMAIN runs[s] \/ j \notin DOMAIN runs[s]
  <2> DEFINE n == Len(runs[s]) + 1
  <2>1. Len(runs'[s]) = n /\ \A a \in DOMAIN runs'[s] : a \in DOMAIN runs[s] \/ a = n
    BY <1>1, <1>3, <1>6 DEF Extends
  <2>2. runs'[s][n].due = NoTime \/ \A a \in DOMAIN runs[s] : runs[s][a].due # runs'[s][n].due
    BY <1>1, <1>3, <1>6 DEF Extends, Occurred
  <2> HIDE DEF n
  <2>3. i \in DOMAIN runs[s] => j # n
    BY <1>4, <2>2
  <2>4. j \in DOMAIN runs[s] => i # n
    BY <1>4, <2>2
  <2> QED
    BY <1>6, <2>1, <2>3, <2>4
<1> QED
  BY <1>5, <1>6

-----------------------------------------------------------------------------

\* Types, busy handlers with a scan and runs without a repeat, together.
LEMMA InvHolds == Spec => []Inv
<1>1. Inv /\ [Next]_vars => Inv'
  BY StepIsGood, OnceStep DEF Inv, Good
<1> QED
  BY <1>1, InitIsGood, PTL DEF Spec

\* Every reachable state is well typed.
THEOREM TypeCorrect == Spec => []TypeOK
BY InvHolds, PTL DEF Inv

\* models.py, uq_scan_jobs_scan_id_scheduled_for: whatever number of schedulers
\* tick at once and whatever staff edit, no occurrence is run twice.
THEOREM RunsOnce == Spec => []OccurrenceRunsOnce
BY InvHolds, PTL DEF Inv

\* scan_schedule.py, next_future_after_catchup: in every reachable state the
\* loop from any missed instant ends at the first occurrence after now.
THEOREM LoopEndsInTheFuture == Spec => []CatchUpIsTheLoop
<1>1. TypeOK => CatchUpIsTheLoop
  <2> SUFFICES ASSUME TypeOK, NEW p \in Plans, NEW due \in 0..MaxTime, p.kind # "manual"
               PROVE  CatchUpLoop(p, due, now) = CatchUp(p, due, now)
    BY DEF CatchUpIsTheLoop
  <2>1. IsPlan(p) /\ due \in Nat /\ now \in Nat
    BY DEF TypeOK
  <2> QED
    BY <2>1, LoopIsCatchUp
<1> QED
  BY <1>1, TypeCorrect, PTL

-----------------------------------------------------------------------------
(* One scheduler and one edit at a time: one catch-up run.                  *)

OneOf(S) == \A a, b \in S : a = b

\* Every scheduled run of s is of a revision up to rev, and those of rev were
\* made before next.
Ahead(s, rev, next) ==
    \A i \in DOMAIN runs[s] : runs[s][i].due # NoTime =>
        /\ runs[s][i].revision <= rev
        /\ runs[s][i].revision = rev /\ next # NoTime => runs[s][i].made < next

\* The rows of the definitions, those a tick has loaded and the one it is about
\* to write name an occurrence that the runs of their revision do not reach.
CommittedAhead == \A s \in Scans : Ahead(s, scans[s].revision, scans[s].next)

EditFollows ==
    \A r \in Staff : staff[r].pc = "editing" =>
        /\ staff[r].seen.revision = scans[staff[r].scan].revision
        /\ staff[r].new.revision = staff[r].seen.revision + 1

LoadedAhead ==
    \A k \in Schedulers : tick[k].pc = "ticking" /\ ~tick[k].expired =>
        \A s \in tick[k].todo :
            /\ tick[k].loaded[s].revision <= scans[s].revision
            /\ Ahead(s, tick[k].loaded[s].revision, tick[k].loaded[s].next)

Queued(q) ==
    /\ q.seen.next # NoTime
    /\ q.seen.revision <= scans[q.scan].revision
    /\ q.new.revision = q.seen.revision
    /\ q.new.next # NoTime => q.made < q.new.next /\ q.seen.next < q.new.next
    /\ Ahead(q.scan, q.seen.revision, q.seen.next)

QueuedAhead == \A k \in Schedulers : tick[k].pc = "queueing" => Queued(tick[k])

SingleInv ==
    /\ TypeOK /\ BusyHasScan
    /\ CatchUpIsSingle
    /\ CommittedAhead /\ EditFollows /\ LoadedAhead /\ QueuedAhead

\* The scheduled runs of s after the step are those before it.
SameScheduled(s) ==
    \A i \in DOMAIN runs'[s] : runs'[s][i].due # NoTime =>
        /\ i \in DOMAIN runs[s]
        /\ runs[s][i].due = runs'[s][i].due
        /\ runs[s][i].made = runs'[s][i].made
        /\ runs[s][i].revision = runs'[s][i].revision

\* The same scheduled runs keep what lies ahead of them, and their order.
LEMMA SameAhead ==
    ASSUME NEW s \in Scans, SameScheduled(s), NEW rev, NEW next, Ahead(s, rev, next)
    PROVE  Ahead(s, rev, next)'
BY DEF SameScheduled, Ahead

\* Runs with the same schedule are in the same order.
LEMMA SameSingle == CatchUpIsSingle /\ (\A s \in Scans : SameScheduled(s)) => CatchUpIsSingle'
BY DEF SameScheduled, CatchUpIsSingle

\* NewRun appends the run of the definition.
LEMMA NewRunRow ==
    ASSUME TypeOK, NEW s \in Scans, NEW due \in Time, NEW made \in Nat,
           NEW d \in Definition, NewRun(s, due, made, d)
    PROVE  /\ \A x \in Scans \ {s} : runs'[x] = runs[x]
           /\ runs[s] \in Seq(Run) /\ runs'[s] \in Seq(Run)
           /\ Len(runs'[s]) = Len(runs[s]) + 1
           /\ \A i \in DOMAIN runs[s] : runs'[s][i] = runs[s][i]
           /\ runs'[s][Len(runs[s]) + 1] = [due |-> due, made |-> made, revision |-> d.revision, over |-> FALSE]
<1>1. runs[s] \in Seq(Run)
  BY DEF TypeOK
<1> DEFINE run == [due |-> due, made |-> made, revision |-> d.revision, over |-> FALSE]
<1>2. runs' = [runs EXCEPT ![s] = Append(runs[s], run)]
  BY DEF NewRun
<1> HIDE DEF run
<1>3. runs'[s] = Append(runs[s], run)
  BY <1>2 DEF TypeOK
<1>4. Append(runs[s], run)[Len(runs[s]) + 1] = run
  BY <1>1
<1> QED
  BY <1>1, <1>3, <1>4, NewRunTyped DEF run, TypeOK

\* What a request inserts is not scheduled, and a run that ends stays as it is.
LEMMA RequestKeepsSchedule ==
    ASSUME TypeOK, BusyHasScan, NEW r \in Staff, RunScanCommit(r)
    PROVE  \A s \in Scans : SameScheduled(s)
<1>1. staff[r].scan \in Scans /\ staff[r].seen \in Definition /\ now \in Nat /\ NoTime \in Time
  BY DEF RunScanCommit, BusyHasScan, TypeOK, StaffState, Time
<1> DEFINE s == staff[r].scan
<1>2. NewRun(s, NoTime, now, staff[r].seen)
  BY DEF RunScanCommit
<1> HIDE DEF s
<1>3. s \in Scans
  BY <1>1 DEF s
<1>4. runs[s] \in Seq(Run) /\ runs'[s] \in Seq(Run) /\ Len(runs'[s]) = Len(runs[s]) + 1
      /\ (\A i \in DOMAIN runs[s] : runs'[s][i] = runs[s][i])
      /\ runs'[s][Len(runs[s]) + 1].due = NoTime
      /\ \A x \in Scans \ {s} : runs'[x] = runs[x]
  <2> DEFINE d == staff[r].seen
  <2>1. d \in Definition /\ NewRun(s, NoTime, now, d) /\ now \in Nat /\ NoTime \in Time
    BY <1>1, <1>2
  <2> HIDE DEF d
  <2>2. /\ \A x \in Scans \ {s} : runs'[x] = runs[x]
        /\ runs[s] \in Seq(Run) /\ runs'[s] \in Seq(Run)
        /\ Len(runs'[s]) = Len(runs[s]) + 1
        /\ \A i \in DOMAIN runs[s] : runs'[s][i] = runs[s][i]
        /\ runs'[s][Len(runs[s]) + 1] = [due |-> NoTime, made |-> now, revision |-> d.revision, over |-> FALSE]
    BY <1>3, <2>1, NewRunRow
  <2> QED
    BY <2>2
<1>5. \A i \in DOMAIN runs'[s] : i \in DOMAIN runs[s] \/ i = Len(runs[s]) + 1
  BY <1>4
<1>6. SameScheduled(s)
  BY <1>4, <1>5 DEF SameScheduled
<1>7. \A x \in Scans \ {s} : SameScheduled(x)
  BY <1>4 DEF SameScheduled
<1> QED
  BY <1>6, <1>7

\* A run that ends keeps its occurrence, its instant and its revision.
LEMMA EndKeepsSchedule ==
    ASSUME TypeOK, NEW s \in Scans, NEW i \in DOMAIN runs[s], RunEnds(s, i)
    PROVE  \A x \in Scans : SameScheduled(x)
<1>1. runs[s] \in Seq(Run) /\ runs[s][i] \in Run /\ runs \in [Scans -> Seq(Run)]
  BY DEF TypeOK
<1> DEFINE last == [runs[s][i] EXCEPT !.over = TRUE]
           ended == [runs[s] EXCEPT ![i] = last]
<1>2. last.due = runs[s][i].due /\ last.made = runs[s][i].made /\ last.revision = runs[s][i].revision
  BY <1>1 DEF Run
<1>3. runs' = [runs EXCEPT ![s] = ended]
  BY DEF RunEnds
<1> HIDE DEF last
<1>4. /\ DOMAIN ended = DOMAIN runs[s]
      /\ \A j \in DOMAIN runs[s] : ended[j] = IF j = i THEN last ELSE runs[s][j]
  BY <1>1
<1> HIDE DEF ended
<1>5. runs'[s] = ended /\ \A x \in Scans \ {s} : runs'[x] = runs[x]
  BY <1>1, <1>3
<1>6. SameScheduled(s)
  BY <1>2, <1>4, <1>5 DEF SameScheduled
<1>7. \A x \in Scans \ {s} : SameScheduled(x)
  BY <1>5 DEF SameScheduled
<1> QED
  BY <1>6, <1>7

\* Steps that leave the scheduled runs, the definitions and the ticks alone.
LEMMA QuietStep ==
    ASSUME SingleInv, TypeOK', BusyHasScan', \A s \in Scans : SameScheduled(s),
           UNCHANGED <<scans, tick>>, EditFollows'
    PROVE  SingleInv'
<1>1. CatchUpIsSingle' /\ CommittedAhead'
  BY SameSingle, SameAhead DEF SingleInv, CommittedAhead
<1>2. LoadedAhead'
  BY SameAhead DEF SingleInv, LoadedAhead, TypeOK, TickState
<1>3. QueuedAhead'
  BY SameAhead DEF SingleInv, QueuedAhead, Queued, BusyHasScan
<1> QED
  BY <1>1, <1>2, <1>3 DEF SingleInv

\* A request starts an edit: it has loaded the committed revision.
LEMMA EditStartsSingle ==
    ASSUME SingleInv, TypeOK', BusyHasScan', NEW r \in Staff, NEW s \in Scans,
           NEW new \in Definition, Edit(r, s, new)
    PROVE  SingleInv'
<1> DEFINE last == [new EXCEPT !.revision = scans[s].revision + 1]
           state == [pc |-> "editing", scan |-> s, seen |-> scans[s], new |-> last]
<1>1. staff' = [staff EXCEPT ![r] = state] /\ UNCHANGED <<scans, runs, tick, now>>
  BY DEF Edit
<1>2. last.revision = scans[s].revision + 1
  BY DEF Definition
<1> HIDE DEF last
<1>3. state.scan = s /\ state.seen = scans[s] /\ state.new.revision = scans[s].revision + 1
  BY <1>2
<1> HIDE DEF state
<1>4. \A q \in Staff : staff'[q] = IF q = r THEN state ELSE staff[q]
  BY <1>1 DEF SingleInv, TypeOK
<1>5. EditFollows'
  BY <1>1, <1>3, <1>4 DEF SingleInv, EditFollows
<1>6. \A x \in Scans : SameScheduled(x)
  BY <1>1 DEF SameScheduled
<1> QED
  BY <1>1, <1>5, <1>6, QuietStep

\* A request that only holds what it has loaded, ends or dies.
LEMMA RequestSingle ==
    ASSUME SingleInv, TypeOK', BusyHasScan', NEW r \in Staff,
           RunScanCommit(r) \/ RequestAborts(r) \/ \E s \in Scans : RunScan(r, s)
    PROVE  SingleInv'
<1>1. UNCHANGED <<scans, tick, now>> /\ \A x \in Scans : SameScheduled(x)
  <2>1. CASE RunScanCommit(r)
    BY <2>1, RequestKeepsSchedule DEF SingleInv, RunScanCommit
  <2>2. CASE RequestAborts(r) \/ \E s \in Scans : RunScan(r, s)
    BY <2>2 DEF RequestAborts, RunScan, SameScheduled
  <2> QED
    BY <2>1, <2>2
<1>2. PICK state : staff' = [staff EXCEPT ![r] = state] /\ state.pc # "editing"
  <2>1. Idle.pc # "editing"
    BY DEF Idle
  <2>2. \A s : [Idle EXCEPT !.pc = "running", !.scan = s, !.seen = scans[s]].pc # "editing"
    BY DEF Idle
  <2> QED
    BY <2>1, <2>2 DEF RunScanCommit, RequestAborts, RunScan
<1>3. \A q \in Staff : staff'[q] = IF q = r THEN state ELSE staff[q]
  BY <1>2 DEF SingleInv, TypeOK
<1>4. EditFollows'
  BY <1>1, <1>2, <1>3 DEF SingleInv, EditFollows
<1> QED
  BY <1>1, <1>4, QuietStep

\* An edit commits: no run is of its revision yet.
LEMMA EditEndsSingle ==
    ASSUME SingleInv, OneOf(Staff), TypeOK', BusyHasScan', NEW r \in Staff, EditCommit(r)
    PROVE  SingleInv'
<1> DEFINE s == staff[r].scan
           row == Flush(staff[r].seen, staff[r].new, scans[s])
<1>1. s \in Scans /\ staff[r].new \in Definition /\ scans[s] \in Definition
  BY DEF EditCommit, SingleInv, BusyHasScan, TypeOK, StaffState
<1>2. /\ staff[r].seen.revision = scans[s].revision
      /\ staff[r].new.revision = staff[r].seen.revision + 1
  BY DEF EditCommit, SingleInv, EditFollows
<1>3. scans' = [scans EXCEPT ![s] = row] /\ staff' = [staff EXCEPT ![r] = Idle] /\ UNCHANGED <<runs, tick>>
  BY DEF EditCommit
<1>4. row.revision = scans[s].revision + 1 /\ scans[s].revision \in Nat
  BY <1>1, <1>2 DEF Flush, Column, Definition
<1> HIDE DEF s, row
<1>5. scans'[s] = row /\ \A x \in Scans \ {s} : scans'[x] = scans[x]
  BY <1>1, <1>3 DEF SingleInv, TypeOK
<1>6. \A x \in Scans : scans[x].revision \in Nat /\ scans'[x].revision \in Nat /\ scans[x].revision <= scans'[x].revision
  <2>1. \A x \in Scans : scans[x].revision \in Nat
    BY DEF SingleInv, TypeOK, Definition
  <2>2. \A x \in Scans : scans'[x].revision \in Nat
    BY DEF TypeOK, Definition
  <2> QED
    BY <1>4, <1>5, <2>1, <2>2
<1>7. EditFollows'
  <2>1. \A q \in Staff : staff'[q].pc # "editing"
    BY <1>3 DEF OneOf, SingleInv, TypeOK, Idle
  <2> QED
    BY <2>1 DEF EditFollows
<1>8. \A x \in Scans : \A i \in DOMAIN runs[x] : runs[x][i].revision \in Nat
  <2> SUFFICES ASSUME NEW x \in Scans, NEW i \in DOMAIN runs[x] PROVE runs[x][i].revision \in Nat
    OBVIOUS
  <2>1. runs[x] \in Seq(Run)
    BY DEF SingleInv, TypeOK
  <2>2. runs[x][i] \in Run
    BY <2>1
  <2> QED
    BY <2>2 DEF Run
<1>9. CommittedAhead'
  <2>1. Ahead(s, scans[s].revision, scans[s].next)
    BY <1>1 DEF SingleInv, CommittedAhead
  <2>2. Ahead(s, row.revision, row.next)
    BY <1>1, <1>4, <1>8, <2>1 DEF Ahead
  <2>3. \A x \in Scans : Ahead(x, scans'[x].revision, scans'[x].next)
    BY <1>5, <2>2 DEF SingleInv, CommittedAhead
  <2> QED
    BY <1>3, <2>3 DEF CommittedAhead, Ahead
<1>10. LoadedAhead'
  <2> SUFFICES ASSUME NEW k \in Schedulers, tick[k].pc = "ticking", ~tick[k].expired, NEW x \in tick[k].todo
               PROVE  /\ tick[k].loaded[x].revision <= scans'[x].revision
                      /\ Ahead(x, tick[k].loaded[x].revision, tick[k].loaded[x].next)
    BY <1>3 DEF LoadedAhead, Ahead
  <2>1. x \in Scans /\ tick[k].loaded[x].revision \in Nat
    BY DEF SingleInv, TypeOK, TickState, Definition
  <2>2. /\ tick[k].loaded[x].revision <= scans[x].revision
        /\ Ahead(x, tick[k].loaded[x].revision, tick[k].loaded[x].next)
    BY DEF SingleInv, LoadedAhead
  <2> QED
    BY <1>6, <2>1, <2>2
<1>11. QueuedAhead'
  <2> SUFFICES ASSUME NEW k \in Schedulers, tick[k].pc = "queueing"
               PROVE  Queued(tick[k])'
    BY <1>3 DEF QueuedAhead
  <2>1. tick[k].scan \in Scans /\ tick[k].seen.revision \in Nat
    BY DEF SingleInv, BusyHasScan, TypeOK, TickState, Definition
  <2>2. Queued(tick[k])
    BY DEF SingleInv, QueuedAhead
  <2>3. tick[k].seen.revision <= scans'[tick[k].scan].revision
    BY <1>6, <2>1, <2>2 DEF Queued
  <2>4. Ahead(tick[k].scan, tick[k].seen.revision, tick[k].seen.next)'
    BY <1>3, <2>2 DEF Queued, Ahead
  <2> QED
    BY <1>3, <2>2, <2>3, <2>4 DEF Queued
<1>12. CatchUpIsSingle'
  BY <1>3 DEF SingleInv, CatchUpIsSingle
<1> QED
  BY <1>7, <1>9, <1>10, <1>11, <1>12 DEF SingleInv

\* The one scheduler takes a step that commits nothing: what is left to show is
\* about its own tick.
LEMMA TickSingle ==
    ASSUME SingleInv, OneOf(Schedulers), TypeOK', BusyHasScan', NEW k \in Schedulers, NEW state,
           tick' = [tick EXCEPT ![k] = state], UNCHANGED <<scans, runs, staff, now>>,
           state.pc = "ticking" /\ ~state.expired =>
              \A s \in state.todo : /\ state.loaded[s].revision <= scans[s].revision
                                    /\ Ahead(s, state.loaded[s].revision, state.loaded[s].next),
           state.pc = "queueing" => Queued(state)
    PROVE  SingleInv'
<1>1. \A q \in Schedulers : tick'[q] = state
  BY DEF OneOf, SingleInv, TypeOK
<1>2. LoadedAhead'
  BY <1>1 DEF LoadedAhead, Ahead
<1>3. QueuedAhead'
  <2>1. Queued(state) => Queued(state)'
    BY DEF Queued, Ahead
  <2> QED
    BY <1>1, <2>1 DEF QueuedAhead, Queued, Ahead
<1>4. CatchUpIsSingle' /\ CommittedAhead' /\ EditFollows'
  BY DEF SingleInv, CatchUpIsSingle, CommittedAhead, EditFollows, Ahead
<1> QED
  BY <1>2, <1>3, <1>4 DEF SingleInv

\* What is left of a tick has expired rows only.
LEMMA RestExpired ==
    ASSUME NEW k \in Schedulers, NEW s
    PROVE  /\ Rest(k, s).pc # "queueing" /\ (Rest(k, s).pc = "ticking" => Rest(k, s).expired)
           /\ IdleTick.pc = "idle"
BY DEF Rest, IdleTick

\* The tick of the one scheduler, up to its commit.
LEMMA SchedulerSingle ==
    ASSUME SingleInv, OneOf(Schedulers), TypeOK', BusyHasScan', NEW k \in Schedulers,
           \/ Tick(k) \/ TickConflict(k) \/ TickAborts(k)
           \/ \E s \in Scans : TickSkip(k, s) \/ TickQueue(k, s) \/ TickRaises(k, s)
    PROVE  SingleInv'
<1>1. CASE TickConflict(k) \/ TickAborts(k) \/ \E s \in Scans : TickSkip(k, s) \/ TickRaises(k, s)
  <2>1. PICK state : /\ tick' = [tick EXCEPT ![k] = state] /\ UNCHANGED <<scans, runs, staff, now>>
                     /\ state.pc # "queueing" /\ (state.pc = "ticking" => state.expired)
    BY <1>1, RestExpired DEF TickConflict, TickAborts, TickSkip, TickRaises
  <2> QED
    BY <2>1, TickSingle
<1>2. CASE Tick(k)
  <2> DEFINE due == {x \in Scans : IsDue(x)}
             loaded == [x \in Scans |-> IF x \in due THEN scans[x] ELSE Nothing]
             order == [x \in Scans |-> IF x \in due THEN scans[x].next ELSE 0]
             state == [IdleTick EXCEPT !.pc = "ticking", !.todo = due, !.order = order,
                                       !.expired = FALSE, !.loaded = loaded]
  <2>1. tick' = [tick EXCEPT ![k] = state] /\ UNCHANGED <<scans, runs, staff, now>>
    BY <1>2 DEF Tick
  <2>2. \A x \in due : x \in Scans /\ loaded[x] = scans[x] /\ scans[x].revision \in Nat
    BY DEF SingleInv, TypeOK, Definition
  <2> HIDE DEF due, loaded, order
  <2>3. state.pc = "ticking" /\ state.todo = due /\ state.loaded = loaded
    BY DEF IdleTick
  <2> HIDE DEF state
  <2>4. \A x \in due : Ahead(x, scans[x].revision, scans[x].next)
    BY <2>2 DEF SingleInv, CommittedAhead
  <2>5. \A x \in state.todo : /\ state.loaded[x].revision <= scans[x].revision
                              /\ Ahead(x, state.loaded[x].revision, state.loaded[x].next)
    BY <2>2, <2>3, <2>4
  <2> QED
    BY <2>1, <2>3, <2>5, TickSingle
<1>3. ASSUME NEW s \in Scans, TickQueue(k, s) PROVE SingleInv'
  <2> DEFINE row == RowOf(k, s)
             at == NextRun(s, row)
             new == [row EXCEPT !.next = at]
             state == [tick[k] EXCEPT !.pc = "queueing", !.scan = s, !.seen = row,
                          !.made = now, !.new = new,
                          !.insert = row.plan.kind # "manual" /\ ~Occurred(s, row.next)]
  <2>1. tick' = [tick EXCEPT ![k] = state]
    BY <1>3 DEF TickQueue
  <2>9. UNCHANGED <<scans, runs, staff, now>>
    BY <1>3 DEF TickQueue
  <2>2. tick[k] \in TickState /\ scans[s] \in Definition /\ now \in Nat
    BY DEF SingleInv, TypeOK
  <2>3. row \in Definition /\ row.next # NoTime /\ at # NoOccurrence
    <3>1. row.next # NoTime /\ at # NoOccurrence
      BY <1>3 DEF TickQueue, MayQueue
    <3>2. row \in Definition
      BY <2>2 DEF RowOf, TickState
    <3> QED
      BY <3>1, <3>2
  <2>4. row.revision <= scans[s].revision /\ Ahead(s, row.revision, row.next)
    <3>1. CASE tick[k].expired
      <4>1. row = scans[s]
        BY <3>1 DEF RowOf
      <4>2. scans[s].revision \in Nat /\ Ahead(s, scans[s].revision, scans[s].next)
        BY <2>2 DEF SingleInv, CommittedAhead, Definition
      <4> QED
        BY <4>1, <4>2
    <3>2. CASE ~tick[k].expired
      BY <1>3, <3>2 DEF RowOf, TickQueue, Visits, SingleInv, LoadedAhead
    <3> QED
      BY <3>1, <3>2
  <2>5. at # NoTime => now < at /\ row.next < at
    <3> SUFFICES ASSUME at # NoTime PROVE now < at /\ row.next < at
      OBVIOUS
    <3>1. row.next \in Nat /\ row.plan \in Plans /\ IsPlan(row.plan)
      BY <2>3 DEF Definition, Time
    <3>2. CASE row.plan.kind = "manual"
      BY <3>2 DEF NextRun
    <3>3. CASE row.plan.kind # "manual"
      <4>1. at = CatchUp(row.plan, row.next, now) /\ at \in Nat /\ at > now
        <5>1. at = CatchUp(row.plan, row.next, now)
          BY <3>3 DEF NextRun
        <5> HIDE DEF row, at
        <5>2. CatchUp(row.plan, row.next, now) \in Nat /\ CatchUp(row.plan, row.next, now) > now
          BY <2>2, <2>3, <3>1, <5>1, CatchUpIsFuture, CatchUpTyped DEF Time
        <5> QED
          BY <5>1, <5>2
      <4>2. CASE row.next <= now
        BY <2>2, <3>1, <4>1, <4>2
      <4>3. CASE row.next > now
        BY <3>1, <3>3, <4>1, <4>3, NextOccurrenceIsLater DEF CatchUp
      <4> QED
        BY <2>2, <3>1, <4>1, <4>2, <4>3
    <3> QED
      BY <3>2, <3>3
  <2> HIDE DEF row, at
  <2>6. new.revision = row.revision /\ new.next = at
    BY <2>3 DEF Definition
  <2> HIDE DEF new
  <2>7. /\ state.pc = "queueing" /\ state.scan = s /\ state.seen = row
        /\ state.made = now /\ state.new = new
    BY <2>2 DEF TickState
  <2> HIDE DEF state
  <2>8. Queued(state)
    BY <2>3, <2>4, <2>5, <2>6, <2>7 DEF Queued
  <2> QED
    BY <2>1, <2>7, <2>8, <2>9, TickSingle
<1> QED
  BY <1>1, <1>2, <1>3

\* The tick commits: its run is for an instant that no run of the revision
\* reaches, and the instant it leaves behind lies after the run.
LEMMA CommitSingle ==
    ASSUME SingleInv, OneOf(Schedulers), TypeOK', BusyHasScan', NEW k \in Schedulers, TickCommit(k)
    PROVE  SingleInv'
<1> DEFINE s == tick[k].scan
           seen == tick[k].seen
           new == tick[k].new
           made == tick[k].made
           row == Flush(seen, new, scans[s])
<1>1. /\ s \in Scans /\ scans[s] \in Definition /\ seen \in Definition /\ new \in Definition
      /\ made \in Nat
  BY DEF TickCommit, SingleInv, BusyHasScan, TypeOK, TickState
<1>2. /\ seen.next # NoTime /\ seen.revision <= scans[s].revision /\ new.revision = seen.revision
      /\ new.next # NoTime => made < new.next /\ seen.next < new.next
      /\ Ahead(s, seen.revision, seen.next)
  BY DEF TickCommit, SingleInv, QueuedAhead, Queued
<1>3. /\ scans' = [scans EXCEPT ![s] = row] /\ tick' = [tick EXCEPT ![k] = Rest(k, s)]
      /\ UNCHANGED <<staff, now>>
      /\ \/ runs' = runs
         \/ NewRun(s, seen.next, made, seen)
  BY DEF TickCommit
<1> HIDE DEF s, seen, new, made
<1>4. seen.next \in Nat /\ new.next \in Time /\ seen.revision \in Nat /\ scans[s].revision \in Nat
  BY <1>1, <1>2 DEF Definition, Time
<1>5. row.revision = scans[s].revision /\ row.next = new.next
  <2>1. new.next # seen.next
    BY <1>2, <1>4 DEF Time
  <2> QED
    BY <1>2, <2>1 DEF Flush, Column
<1> HIDE DEF row
<1>6. scans'[s] = row /\ \A x \in Scans \ {s} : scans'[x] = scans[x]
  BY <1>1, <1>3 DEF SingleInv, TypeOK
<1>7. LoadedAhead' /\ QueuedAhead'
  <2>1. \A q \in Schedulers : tick'[q] = Rest(k, s)
    BY <1>3 DEF OneOf, SingleInv, TypeOK
  <2> QED
    BY <2>1, RestExpired DEF LoadedAhead, QueuedAhead
<1>8. EditFollows'
  <2> SUFFICES ASSUME NEW r \in Staff, staff[r].pc = "editing"
               PROVE  /\ staff[r].seen.revision = scans'[staff[r].scan].revision
                      /\ staff[r].new.revision = staff[r].seen.revision + 1
    BY <1>3 DEF EditFollows
  <2>1. staff[r].scan \in Scans
    BY DEF SingleInv, BusyHasScan
  <2>2. scans'[staff[r].scan].revision = scans[staff[r].scan].revision
    BY <1>5, <1>6, <2>1
  <2> QED
    BY <2>2 DEF SingleInv, EditFollows
<1>9. CASE runs' = runs
  <2>1. Ahead(s, row.revision, row.next)
    <3> SUFFICES ASSUME NEW i \in DOMAIN runs[s], runs[s][i].due # NoTime
                 PROVE  /\ runs[s][i].revision <= scans[s].revision
                        /\ runs[s][i].revision = scans[s].revision /\ new.next # NoTime => runs[s][i].made < new.next
      BY <1>5 DEF Ahead
    <3>1. runs[s][i].revision \in Nat /\ runs[s][i].made \in Nat
      <4>1. runs[s] \in Seq(Run)
        BY <1>1 DEF SingleInv, TypeOK
      <4>2. runs[s][i] \in Run
        BY <4>1
      <4> QED
        BY <4>2 DEF Run
    <3> QED
      BY <1>2, <1>4, <3>1 DEF Ahead, Time
  <2>2. CommittedAhead'
    <3>1. \A x \in Scans : Ahead(x, scans'[x].revision, scans'[x].next)
      BY <1>6, <2>1 DEF SingleInv, CommittedAhead
    <3> QED
      BY <1>9, <3>1 DEF CommittedAhead, Ahead
  <2> QED
    BY <1>7, <1>8, <1>9, <2>2 DEF SingleInv, CatchUpIsSingle
<1>10. CASE NewRun(s, seen.next, made, seen)
  <2> DEFINE n == Len(runs[s]) + 1
  <2>1. /\ \A x \in Scans \ {s} : runs'[x] = runs[x]
        /\ runs[s] \in Seq(Run) /\ runs'[s] \in Seq(Run)
        /\ Len(runs'[s]) = n
        /\ \A i \in DOMAIN runs[s] : runs'[s][i] = runs[s][i]
        /\ runs'[s][n] = [due |-> seen.next, made |-> made, revision |-> seen.revision, over |-> FALSE]
    <3> DEFINE due == seen.next
    <3>1. due \in Time /\ NewRun(s, due, made, seen) /\ TypeOK /\ s \in Scans /\ made \in Nat /\ seen \in Definition
      BY <1>1, <1>4, <1>10 DEF Time, SingleInv
    <3> HIDE DEF due, n
    <3>2. /\ \A x \in Scans \ {s} : runs'[x] = runs[x]
          /\ runs[s] \in Seq(Run) /\ runs'[s] \in Seq(Run)
          /\ Len(runs'[s]) = Len(runs[s]) + 1
          /\ \A i \in DOMAIN runs[s] : runs'[s][i] = runs[s][i]
          /\ runs'[s][Len(runs[s]) + 1] = [due |-> due, made |-> made, revision |-> seen.revision, over |-> FALSE]
      BY <3>1, NewRunRow, SMTT(30)
    <3> QED
      BY <3>2 DEF due, n
  <2>2. /\ DOMAIN runs[s] = 1..(n - 1) /\ n \in Nat
        /\ DOMAIN runs'[s] = 1..n
    BY <2>1
  <2>3. runs'[s][n].due = seen.next /\ runs'[s][n].made = made /\ runs'[s][n].revision = seen.revision
    BY <2>1
  <2>4. \A i \in DOMAIN runs[s] : runs[s][i].revision \in Nat /\ runs[s][i].made \in Nat
    <3> SUFFICES ASSUME NEW i \in DOMAIN runs[s] PROVE runs[s][i] \in Run
      BY DEF Run
    <3> QED
      BY <2>1
  <2> HIDE DEF n
  <2>5. \A i \in DOMAIN runs[s] : runs[s][i].due # NoTime =>
           /\ runs[s][i].revision <= seen.revision
           /\ runs[s][i].revision = seen.revision => runs[s][i].made < seen.next
    BY <1>2 DEF Ahead
  <2>6. \A i \in DOMAIN runs'[s] : runs'[s][i].due # NoTime =>
           /\ runs'[s][i].revision <= scans[s].revision
           /\ runs'[s][i].revision = scans[s].revision /\ new.next # NoTime => runs'[s][i].made < new.next
    <3> SUFFICES ASSUME NEW i \in DOMAIN runs'[s], runs'[s][i].due # NoTime
                 PROVE  /\ runs'[s][i].revision <= scans[s].revision
                        /\ runs'[s][i].revision = scans[s].revision /\ new.next # NoTime => runs'[s][i].made < new.next
      OBVIOUS
    <3>1. CASE i = n
      BY <1>2, <1>4, <2>3, <3>1
    <3>2. CASE i # n
      <4>1. i \in DOMAIN runs[s] /\ runs'[s][i] = runs[s][i]
        BY <2>1, <2>2, <3>2
      <4> QED
        BY <1>2, <1>4, <2>4, <2>5, <4>1 DEF Time
    <3> QED
      BY <3>1, <3>2
  <2>7. CommittedAhead'
    <3> SUFFICES ASSUME NEW x \in Scans, NEW i \in DOMAIN runs'[x], runs'[x][i].due # NoTime
                 PROVE  /\ runs'[x][i].revision <= scans'[x].revision
                        /\ runs'[x][i].revision = scans'[x].revision /\ scans'[x].next # NoTime =>
                              runs'[x][i].made < scans'[x].next
      BY DEF CommittedAhead, Ahead
    <3>1. CASE x = s
      BY <1>5, <1>6, <2>6, <3>1
    <3>2. CASE x # s
      BY <1>6, <2>1, <3>2 DEF SingleInv, CommittedAhead, Ahead
    <3> QED
      BY <3>1, <3>2
  <2>8. CatchUpIsSingle'
    <3> SUFFICES ASSUME NEW x \in Scans, NEW i \in DOMAIN runs'[x], NEW j \in DOMAIN runs'[x], i < j,
                        runs'[x][i].due # NoTime, runs'[x][j].due # NoTime,
                        runs'[x][i].revision = runs'[x][j].revision
                 PROVE  runs'[x][i].made < runs'[x][j].due
      BY DEF CatchUpIsSingle
    <3>1. CASE x # s
      BY <2>1, <3>1 DEF SingleInv, CatchUpIsSingle
    <3>2. CASE x = s /\ j # n
      <4>1. i \in DOMAIN runs[s] /\ j \in DOMAIN runs[s] /\ runs'[s][i] = runs[s][i] /\ runs'[s][j] = runs[s][j]
        BY <2>1, <2>2, <3>2
      <4> QED
        BY <1>1, <3>2, <4>1 DEF SingleInv, CatchUpIsSingle
    <3>3. CASE x = s /\ j = n
      <4>1. i \in DOMAIN runs[s] /\ runs'[s][i] = runs[s][i]
        BY <2>1, <2>2, <3>3
      <4> QED
        BY <2>3, <2>5, <3>3, <4>1
    <3> QED
      BY <3>1, <3>2, <3>3
  <2> QED
    BY <1>7, <1>8, <2>7, <2>8 DEF SingleInv
<1> QED
  BY <1>3, <1>9, <1>10

\* No run exists at first, and nothing is under way.
LEMMA SingleInit == Init => SingleInv
<1> SUFFICES ASSUME Init PROVE SingleInv
  OBVIOUS
<1>1. \A s \in Scans : DOMAIN runs[s] = {}
  BY DEF Init
<1>2. CatchUpIsSingle /\ CommittedAhead
  BY <1>1 DEF CatchUpIsSingle, CommittedAhead, Ahead
<1>3. EditFollows /\ LoadedAhead /\ QueuedAhead
  BY DEF Init, EditFollows, LoadedAhead, QueuedAhead, Idle, IdleTick
<1> QED
  BY <1>2, <1>3, InitIsGood DEF SingleInv, Inv

\* Every step of one scheduler and one request at a time keeps the invariant.
LEMMA SingleStep ==
    ASSUME OneOf(Staff), OneOf(Schedulers), SingleInv, [Next]_vars
    PROVE  SingleInv'
<1>1. TypeOK' /\ BusyHasScan'
  BY StepIsGood DEF SingleInv, Good
<1>2. CASE TimePasses \/ UNCHANGED vars
  <2>1. UNCHANGED <<scans, runs, staff, tick>>
    BY <1>2 DEF TimePasses, vars
  <2>2. EditFollows' /\ \A s \in Scans : SameScheduled(s)
    BY <2>1 DEF SingleInv, EditFollows, SameScheduled
  <2> QED
    BY <1>1, <2>1, <2>2, QuietStep
<1>3. ASSUME NEW r \in Staff, NEW s \in Scans,
             ArchiveScan(r, s) \/ \E enabled \in BOOLEAN, plan \in Plans : UpdateScan(r, s, enabled, plan)
      PROVE  SingleInv'
  <2>1. scans[s] \in Definition /\ now \in Nat
    BY DEF SingleInv, TypeOK
  <2>2. CASE ArchiveScan(r, s)
    <3> DEFINE new == [scans[s] EXCEPT !.archived = TRUE, !.enabled = FALSE, !.next = NoTime]
    <3>1. new \in Definition /\ Edit(r, s, new)
      BY <2>1, <2>2 DEF ArchiveScan, Definition, Time
    <3> HIDE DEF new
    <3> QED
      BY <1>1, <3>1, EditStartsSingle
  <2>3. ASSUME NEW enabled \in BOOLEAN, NEW plan \in Plans, UpdateScan(r, s, enabled, plan)
        PROVE  SingleInv'
    <3> DEFINE next == FirstRun(enabled, scans[s].archived, plan)
               new == [scans[s] EXCEPT !.enabled = enabled, !.plan = plan, !.next = next]
    <3>1. next \in Time
      BY <2>1, <2>3, FirstRunTyped DEF Definition, UpdateScan
    <3> HIDE DEF next
    <3>2. new \in Definition
      BY <2>1, <3>1 DEF Definition
    <3>3. Edit(r, s, new)
      BY <2>3 DEF UpdateScan, next
    <3> HIDE DEF new
    <3> QED
      BY <1>1, <3>2, <3>3, EditStartsSingle
  <2> QED
    BY <1>3, <2>2, <2>3
<1>4. ASSUME NEW r \in Staff,
             RunScanCommit(r) \/ RequestAborts(r) \/ \E s \in Scans : RunScan(r, s)
      PROVE  SingleInv'
  BY <1>1, <1>4, RequestSingle
<1>5. ASSUME NEW r \in Staff, EditCommit(r) PROVE SingleInv'
  BY <1>1, <1>5, EditEndsSingle
<1>6. ASSUME NEW k \in Schedulers,
             \/ Tick(k) \/ TickConflict(k) \/ TickAborts(k)
             \/ \E s \in Scans : TickSkip(k, s) \/ TickQueue(k, s) \/ TickRaises(k, s)
      PROVE  SingleInv'
  BY <1>1, <1>6, SchedulerSingle
<1>7. ASSUME NEW k \in Schedulers, TickCommit(k) PROVE SingleInv'
  BY <1>1, <1>7, CommitSingle
<1>8. ASSUME NEW s \in Scans, NEW i \in DOMAIN runs[s], RunEnds(s, i) PROVE SingleInv'
  <2>1. UNCHANGED <<scans, staff, tick>> /\ \A x \in Scans : SameScheduled(x)
    BY <1>8, EndKeepsSchedule DEF SingleInv, RunEnds
  <2>2. EditFollows'
    BY <2>1 DEF SingleInv, EditFollows
  <2> QED
    BY <1>1, <2>1, <2>2, QuietStep
<1>9. ASSUME NEW s \in Scans, TargetsChange(s) PROVE SingleInv'
  <2>1. UNCHANGED <<scans, runs, staff, tick>>
    BY <1>9 DEF TargetsChange
  <2>2. EditFollows' /\ \A x \in Scans : SameScheduled(x)
    BY <2>1 DEF SingleInv, EditFollows, SameScheduled
  <2> QED
    BY <1>1, <2>1, <2>2, QuietStep
<1>10. Touched \subseteq Scans
  OBVIOUS
<1> QED
  BY <1>2, <1>3, <1>4, <1>5, <1>6, <1>7, <1>8, <1>9, <1>10 DEF Next

\* scan_schedule.py, "downtime creates at most one catch-up run": with one
\* scheduler and one request of staff at a time, of the occurrences that passed
\* while nothing ticked one is run, for any scans, plans and length of the pause.
THEOREM CatchUpRunsOnce ==
    ASSUME OneOf(Staff), OneOf(Schedulers)
    PROVE  Spec => []CatchUpIsSingle
<1>1. SingleInv /\ [Next]_vars => SingleInv'
  BY SingleStep
<1>2. SingleInv => CatchUpIsSingle
  BY DEF SingleInv
<1> QED
  BY <1>1, <1>2, SingleInit, PTL DEF Spec
=============================================================================
