----------------------------- MODULE CronTimes -----------------------------
(***************************************************************************)
(* The arithmetic of scheduling.py over the clock: next_fire and due_at.   *)
(* Instants are counted in ticks of UTC, Minute of them to the minute. A   *)
(* time zone changes its offset once, at the minute `at`: the wall clock   *)
(* reads before + m until then and after + m from then on, so it skips     *)
(* some minutes or shows some of them twice. What a cron expression        *)
(* matches, day and month included, is the set of wall minutes it means.   *)
(***************************************************************************)
EXTENDS Integers, FiniteSetsExt

CONSTANTS
  Minute,   \* ticks in a minute
  Cron,     \* the wall minutes each schedule means
  Zone      \* the zone of each schedule: [before, after, at]

ASSUME MinuteAssumption == Minute \in Nat \ {0}

Nothing == -1

\* What the wall clock of k reads at the instant t, to the minute.
Wall(k, t) ==
  LET m == t \div Minute
  IN  m + (IF m < Zone[k].at THEN Zone[k].before ELSE Zone[k].after)

\* The instant of a wall minute w without a fold: of a repeated minute the first
\* showing; a skipped one is taken to follow the clock as it was before.
Instant(k, w) ==
  LET change == Zone[k].at + Max({Zone[k].before, Zone[k].after})
  IN  Minute * (w - (IF w < change THEN Zone[k].before ELSE Zone[k].after))

\* The search starts at the wall minute after t; adding to it forgets which showing
\* of a repeated minute t was in.
next_fire(k, t) ==
  LET later == {w \in Cron[k] : w > Wall(k, t)}
  IN  IF later = {} THEN Nothing ELSE Instant(k, Min(later))

\* The last occurrence up to `now` that is younger than the grace and after the anchor.
due_at(k, anchor, now, grace) ==
  LET start == Max({anchor, now - grace})
      latest[fire \in Int] ==
        LET following == next_fire(k, fire)
        IN  IF following = Nothing \/ following > now THEN fire ELSE latest[following]
      first == next_fire(k, start)
  IN  IF start >= now \/ first = Nothing \/ first > now THEN Nothing ELSE latest[first]

-----------------------------------------------------------------------------
\* The instants at which a wall clock begins to show a minute the schedule means,
\* for the first time: what somebody who reads the expression expects.
Occurrences(k, horizon) ==
  {t \in 0..horizon :
     /\ t % Minute = 0 /\ Wall(k, t) \in Cron[k]
     /\ \A u \in 0..t - 1 : Wall(k, u) # Wall(k, t)}

\* Minutes of the wall clock that are shown twice, second showing.
Repeated(k, t) ==
  /\ t \div Minute >= Zone[k].at
  /\ Wall(k, t) < Zone[k].at + Zone[k].before
=============================================================================
