------------------------------- MODULE Schedule -------------------------------
(***************************************************************************)
(* When a scheduler job runs: internal/scheduler/domain/schedule.go and    *)
(* job.go, and the loop of a runner in internal/scheduler/application/     *)
(* manager.go.                                                             *)
(*                                                                         *)
(* The lengths of minutes, hours, days, weeks and months are parameters,   *)
(* and so are the time zones, which may change their offset once.  A cron  *)
(* expression is a record of its five fields; names of weekdays are their  *)
(* numbers.  Time is counted in ticks of which a minute has some, because  *)
(* a legacy interval may be shorter than a minute.                         *)
(***************************************************************************)
EXTENDS Integers, FiniteSets

CONSTANTS
  MinuteTicks, HourMinutes, DayHours, WeekDays,
  MonthStarts,  \* the days of a year with which its months begin
  YearDays,
  Zones,       \* [before, after, at]: the offset until and from a time
  SearchDays,  \* maxScheduleSearchDays
  Submitted,   \* the jobs given by PUT: [mode, cron, interval]
  Horizon      \* bound: the last tick looked at

Field == [kind : {"star", "step", "num"}, n : Int]
CronExpression == [minute : Field, hour : Field, day : Field, month : Field, weekday : Field]

ASSUME CalendarAssumption ==
  /\ {MinuteTicks, HourMinutes, DayHours, WeekDays, YearDays, SearchDays, Horizon} \subseteq Nat \ {0}
  /\ MonthStarts \subseteq 0 .. YearDays - 1 /\ 0 \in MonthStarts
  /\ Submitted \subseteq [mode : STRING, cron : CronExpression, interval : Int]

Star == [kind |-> "star", n |-> 0]
Step(n) == [kind |-> "step", n |-> n]
Num(n) == [kind |-> "num", n |-> n]
NoSpec == [mode |-> "none"]

HourTicks == MinuteTicks * HourMinutes
DayTicks == HourTicks * DayHours

(***************************************************************************)
(* The clock face in a time zone                                           *)
(***************************************************************************)

Local(z, t) == t + (IF t < z.at THEN z.before ELSE z.after)
MinuteOf(l) == (l \div MinuteTicks) % HourMinutes
HourOf(l) == (l \div HourTicks) % DayHours
WeekdayOf(l) == (l \div DayTicks) % WeekDays
MonthStart(d) ==
  LET begun == {s \in MonthStarts : s <= d}
  IN CHOOSE s \in begun : \A u \in begun : u <= s
YearDay(l) == (l \div DayTicks) % YearDays
Day(l) == YearDay(l) - MonthStart(YearDay(l)) + 1

\* Day() - 1: the steps of a day field start with the first of the month.
DayOf(l) == Day(l) - 1

(***************************************************************************)
(* ScheduleSpec                                                            *)
(***************************************************************************)

Every(unit, n) == [mode |-> "every", unit |-> unit, n |-> n]
Daily(h, m) == [mode |-> "daily", hour |-> h, minute |-> m]
Weekly(d, h, m) == [mode |-> "weekly", weekday |-> d, hour |-> h, minute |-> m]

InDay(s) == s.hour \in 0 .. DayHours - 1 /\ s.minute \in 0 .. HourMinutes - 1

\* Validate
Valid(s) ==
  \/ s.mode = "every" /\ s.n > 0 /\ s.unit \in {"minute", "hour", "day"}
  \/ s.mode = "daily" /\ InDay(s)
  \/ s.mode = "weekly" /\ InDay(s) /\ s.weekday \in 0 .. WeekDays - 1

Cron(m, h, d, w) == [minute |-> m, hour |-> h, day |-> d, month |-> Star, weekday |-> w]

NoCron == [Cron(Star, Star, Star, Star) EXCEPT !.month = Step(0)]    \* not given
Invalid == [mode |-> "invalid", cron |-> NoCron, interval |-> 0]

HourCron(n) == Cron(Num(0), Step(n), Star, Star)

\* BuildCronExpression
Built(s) ==
  CASE s.mode = "every" /\ s.unit = "minute" -> Cron(Step(s.n), Star, Star, Star)
    [] s.mode = "every" /\ s.unit = "hour"   -> HourCron(s.n)
    [] s.mode = "every" /\ s.unit = "day"    -> Cron(Num(0), Num(0), Step(s.n), Star)
    [] s.mode = "daily"                      -> Cron(Num(s.minute), Num(s.hour), Star, Star)
    [] s.mode = "weekly" -> Cron(Num(s.minute), Num(s.hour), Star, Num(s.weekday))

IsStep(f) == f.kind = "step" /\ f.n > 0
IsNum(f, max) == f.kind = "num" /\ f.n \in 0 .. max

\* parseCronWeekday: Sunday is 0 and 7.
Weekday(f) == f.n % WeekDays

EveryMinute(c) == IsStep(c.minute) /\ c.hour = Star

\* ParseCronExpression, in the order of its cases.
Parsed(c) ==
  LET days == c.day = Star /\ c.weekday = Star
      wallClock == IsNum(c.hour, DayHours - 1) /\ IsNum(c.minute, HourMinutes - 1)
  IN CASE c.month # Star -> NoSpec
       [] EveryMinute(c) /\ days -> Every("minute", c.minute.n)
       [] c.minute = Num(0) /\ IsStep(c.hour) /\ days -> Every("hour", c.hour.n)
       [] c.minute = Num(0) /\ c.hour = Num(0) /\ IsStep(c.day) /\ c.weekday = Star ->
            Every("day", c.day.n)
       [] days /\ wallClock -> Daily(c.hour.n, c.minute.n)
       [] c.day = Star /\ ~days /\ wallClock /\ IsNum(c.weekday, WeekDays) ->
            Weekly(Weekday(c.weekday), c.hour.n, c.minute.n)
       [] OTHER -> NoSpec

\* match, at local time l
Match(s, l) ==
  CASE s.mode = "every" /\ s.unit = "minute" -> MinuteOf(l) % s.n = 0
    [] s.mode = "every" /\ s.unit = "hour"   -> MinuteOf(l) = 0 /\ HourOf(l) % s.n = 0
    [] s.mode = "every" /\ s.unit = "day"    -> MinuteOf(l) = 0 /\ HourOf(l) = 0 /\ DayOf(l) % s.n = 0
    [] s.mode = "daily"                      -> HourOf(l) = s.hour /\ MinuteOf(l) = s.minute
    [] s.mode = "weekly" ->
         WeekdayOf(l) = s.weekday /\ HourOf(l) = s.hour /\ MinuteOf(l) = s.minute

ThisMinute(t) == t \div MinuteTicks

\* The first minute that is looked at.
NextMinute(t) == ThisMinute(t) + 1

NeverFires == 0

\* Next: the first matching minute after the one of time t.
NextFire(s, z, t) ==
  LET minutes == NextMinute(t) .. NextMinute(t) + SearchDays * DayHours * HourMinutes
      due == {m \in minutes : Match(s, Local(z, m * MinuteTicks))}
  IN IF due = {} THEN NeverFires ELSE MinuteTicks * CHOOSE m \in due : \A k \in due : m <= k

(***************************************************************************)
(* Job.Normalize and Job.NextRun                                           *)
(***************************************************************************)

\* legacyIntervalSpec
FromInterval(i) ==
  IF i % MinuteTicks # 0 THEN NoSpec
  ELSE CASE i % DayTicks = 0 -> Every("day", i \div DayTicks)
         [] i % HourTicks = 0 /\ i % DayTicks # 0 -> Every("hour", i \div HourTicks)
         [] OTHER -> Every("minute", i \div MinuteTicks)

UnitTicks(unit) == CASE unit = "minute" -> MinuteTicks [] unit = "hour" -> HourTicks
                     [] unit = "day" -> DayTicks

\* everyInterval
ToInterval(s) == s.n * UnitTicks(s.unit)

\* The mode follows the expression; a given interval is kept beside it.
ModeOfCron(j, s) == [j EXCEPT !.mode = s.mode, !.interval =
                       IF j.interval > 0 \/ s.mode # "every" THEN j.interval ELSE ToInterval(s)]

Normalized(j) ==
  LET legacy == FromInterval(j.interval)
      s == IF j.cron = NoCron THEN NoSpec ELSE Parsed(j.cron)
  IN CASE j.cron = NoCron /\ j.interval <= 0 -> Invalid
       [] j.cron = NoCron /\ j.interval > 0 ->
            IF legacy = NoSpec THEN j ELSE [j EXCEPT !.cron = Built(legacy), !.mode = legacy.mode]
       [] j.cron # NoCron /\ (s = NoSpec \/ j.mode \notin {"", s.mode}) -> Invalid
       [] OTHER -> ModeOfCron(j, s)

\* NextRun of a normalized job
NextRun(j, z, t) ==
  IF j.cron = NoCron THEN t + j.interval ELSE NextFire(Parsed(j.cron), z, t)

(***************************************************************************)
(* A job is submitted and a runner waits for its time, over and over       *)
(***************************************************************************)

VARIABLES
  given,  \* the job of the request
  job,    \* as it was stored, or Invalid
  zone,
  wallClock,  \* the time of day
  due,        \* the next run, 0 before it is known
  left,       \* what the runner's timer has still to count
  last,       \* when the last run was due
  setBack     \* the clock was set back since the runner last looked at it

schedVars == <<given, job, zone, wallClock, due, left, last, setBack>>

Unset == 0

SchedInit ==
  /\ given \in Submitted /\ zone \in Zones /\ job = Normalized(given)
  /\ wallClock \in {1, DayTicks - 1} /\ due = Unset /\ left = 0 /\ last = Unset /\ setBack = FALSE

\* The top of the loop in startRunnerLocked.
Arm ==
  /\ job # Invalid /\ due = Unset /\ wallClock < Horizon
  /\ due' = NextRun(job, zone, wallClock) /\ left' = due' - wallClock
  /\ setBack' = FALSE
  /\ UNCHANGED <<given, job, zone, wallClock, last>>

\* The timer runs out, in time or, on a machine that slept or was busy, late.
Fire(late) ==
  /\ due # Unset
  /\ wallClock' = wallClock + left + late
  /\ last' = due /\ due' = Unset /\ left' = 0
  /\ UNCHANGED <<given, job, zone, setBack>>

\* Somebody sets the clock back; the timer goes on counting.
SetBack ==
  /\ due # Unset /\ ~setBack /\ setBack' = TRUE
  /\ wallClock' = wallClock - 1
  /\ UNCHANGED <<given, job, zone, due, left, last>>

SchedNext == Arm \/ SetBack \/ \E late \in {0, 1, DayTicks + 1} : Fire(late)

SchedSpec == SchedInit /\ [][SchedNext]_schedVars

(***************************************************************************)
(* Properties                                                              *)
(***************************************************************************)

\* Everything has its type; a stored cron expression can be read and its mode
\* is that of the expression.
ScheduleTypeOK ==
  /\ given \in Submitted /\ zone \in Zones
  /\ {wallClock, due, last} \subseteq Nat /\ left \in Int /\ setBack \in BOOLEAN
  /\ job # Invalid =>
       IF job.cron = NoCron THEN job.interval > 0
       ELSE Valid(Parsed(job.cron)) /\ job.mode = Parsed(job.cron).mode

\* A job that was accepted is accepted again, unchanged, when the store is
\* loaded and whenever its next run is computed: a stored job that is refused
\* keeps the program from starting.
StoredJobIsKept == job # Invalid => Normalized(job) = job

\* A job given by an interval never waits longer than that, whatever unit the
\* expression made of it has and however long the hour, the day and the month
\* are, in a zone that keeps its offset.  (It may run sooner: the steps of an
\* expression begin again with every hour, day or month.)
WaitsNoLongerThanAsked ==
  [][Arm /\ zone.before = zone.after /\ given.cron = NoCron =>
       due' > wallClock /\ due' - wallClock <= given.interval]_schedVars

\* However late a timer runs out, the next run is due after the last one: no
\* due time is served twice, unless the clock was set back in between.
DueOnce ==
  [][Arm /\ ~setBack => due' > last]_schedVars

Period(s) == IF s.mode = "daily" THEN DayTicks ELSE WeekDays * DayTicks

\* In a zone that keeps its offset the runs of a daily job are a day apart and
\* those of a weekly job a week, over the ends of months and for every way to
\* write the weekday, and after a late one the job is back to its time.
KeepsItsTime ==
  [][Arm /\ zone.before = zone.after /\ job.mode \in {"daily", "weekly"} =>
       LET period == Period(Parsed(job.cron))
       IN IF wallClock = last THEN due' = last + period
          ELSE due' > wallClock /\ due' - wallClock <= period]_schedVars

\* A job runs when it was asked to, for every way to ask.
RunsWhenAsked ==
  KeepsItsTime /\ WaitsNoLongerThanAsked /\ DueOnce /\ []StoredJobIsKept /\ []ScheduleTypeOK

=============================================================================
