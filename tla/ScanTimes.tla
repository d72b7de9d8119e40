----------------------------- MODULE ScanTimes -----------------------------
(***************************************************************************)
(* When a scan is due: scan_schedule.py over a discrete clock.             *)
(*                                                                         *)
(* A plan is manual, a legacy interval counted from the previous instant,  *)
(* or a clock schedule, which names its instants by itself.  The daily,    *)
(* weekly, monthly and cron forms are one kind here: what distinguishes    *)
(* them (calendar and time zone) is data, which repeats after a period,    *)
(* and all four return the first instant of the schedule strictly after    *)
(* the given one.  A cron expression may name none for longer than the     *)
(* search goes (29 February), and then the search raises ScheduleError.    *)
(***************************************************************************)
EXTENDS Integers, FiniteSetsExt

CONSTANTS NoTime,         \* NULL in the column next_run_at
          NoOccurrence,   \* the ScheduleError of _next_cron
          Horizon         \* how far _next_cron searches: 366 days

ASSUME NoTimeAssumption ==
    NoTime \notin Nat /\ NoOccurrence \notin Nat \cup {NoTime} /\ Horizon \in Nat \ {0}

Time == Nat \cup {NoTime}

\* every, at: a clock plan names the instants t with t % every in at.
IsPlan(p) ==
    /\ p.kind \in {"manual", "interval", "clock"}
    /\ p.every \in Nat \ {0}
    /\ p.at \in SUBSET Nat

\* The instants that a clock plan names after t and up to u
Named(plan, t, u) == {v \in (t + 1)..u : v % plan.every \in plan.at}

\* next_occurrence
NextOccurrence(plan, after) ==
    CASE plan.kind = "manual"   -> NoTime
      [] plan.kind = "interval" -> after + plan.every
      [] plan.kind = "clock"    ->
            LET named == Named(plan, after, after + Horizon)
            IN  IF named = {} THEN NoOccurrence ELSE Min(named)

\* Mutated form: a single step, as if nothing had been missed.
CatchUpLoop_OneStep(plan, due, now) == NextOccurrence(plan, due)

\* next_future_after_catchup as it is written: the loop, over the instants up
\* to now that it may pass through.
CatchUpLoop(plan, due, now) ==
    LET from[t \in due..now] ==
            LET next == NextOccurrence(plan, t)
            IN  IF next \in Nat /\ next <= now THEN from[next] ELSE next
    IN  IF due <= now THEN from[due] ELSE NextOccurrence(plan, due)

\* Mutated form: a single step, as if nothing had been missed.
CatchUp_OneStep(plan, due, now) == NextOccurrence(plan, due)

\* The same without the loop: the first instant after now that the plan
\* reaches from due, if the search raises at none of the instants passed.
CatchUp(plan, due, now) ==
    IF due > now THEN NextOccurrence(plan, due)
    ELSE IF plan.kind = "interval"
         THEN due + plan.every * (1 + (now - due) \div plan.every)
    ELSE IF \E t \in {due} \cup Named(plan, due, now) : NextOccurrence(plan, t) = NoOccurrence
         THEN NoOccurrence
         ELSE NextOccurrence(plan, now)
=============================================================================
