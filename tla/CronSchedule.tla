---------------------------- MODULE CronSchedule ----------------------------
(***************************************************************************)
(* Cron specifications: Parse and Schedule.Next of internal/cron, on a     *)
(* calendar of the same shape as the real one but small: minutes, hours,   *)
(* days, months of unequal length, leap years and weeks.  Time counts in   *)
(* minutes from the first minute of the calendar; Next takes a time in     *)
(* units of 1/Grain of a minute.  A term of a field is a record, names of  *)
(* months and days stand for their numbers.                                *)
(***************************************************************************)
EXTENDS Integers, FiniteSets, Sequences

CONSTANTS
  Minutes, Hours, Week,   \* minutes of an hour, hours of a day, days of a week
  MonthDays,              \* length of each month of a common year
  LeapMonth, LeapCycle,   \* the month that is a day longer once per cycle
  Horizon,                \* months in the calendar
  Grain,
  searchLimit,            \* in minutes
  Specs,                  \* specifications: a set of terms per field
  Instants,               \* times asked for
  Invalid,                \* an error instead of a parsed value
  Searching, Zero         \* no result yet, and the zero time

Longest == CHOOSE n \in {MonthDays[i] : i \in DOMAIN MonthDays} :
             \A i \in DOMAIN MonthDays : MonthDays[i] <= n

ASSUME CronAssumption ==
  /\ {Minutes, Hours, Week, LeapCycle, Horizon, Grain, searchLimit} \subseteq Nat \ {0}
  /\ MonthDays \in Seq(Nat \ {0}) /\ LeapMonth \in DOMAIN MonthDays
  /\ MonthDays[LeapMonth] < Longest
  /\ Instants \subseteq Nat

-----------------------------------------------------------------------------
(* The calendar (package time).                                            *)

\* Month and year of the i-th month, from 0.
MonthNo(i) == (i % Len(MonthDays)) + 1
Leap(i) == MonthNo(i) = LeapMonth /\ (i \div Len(MonthDays)) % LeapCycle = LeapCycle - 1
DaysOf(i) == MonthDays[MonthNo(i)] + (IF Leap(i) THEN 1 ELSE 0)
FirstDay[i \in 0..Horizon] == IF i = 0 THEN 0 ELSE FirstDay[i - 1] + DaysOf(i - 1)

Day == Minutes * Hours
DayNo(t) == t \div Day
MonthAt(t) == CHOOSE i \in 0..(Horizon - 1) :
                FirstDay[i] <= DayNo(t) /\ DayNo(t) < FirstDay[i + 1]
Month(t) == MonthNo(MonthAt(t))
DayOfMonth(t) == DayNo(t) - FirstDay[MonthAt(t)] + 1
Weekday(t) == DayNo(t) % Week
Hour(t) == (t % Day) \div Minutes
Minute(t) == t % Minutes

-----------------------------------------------------------------------------
(* Parsing.                                                                *)

Fields == {"minute", "hour", "dom", "month", "dow"}
Lowest(f) == IF f \in {"dom", "month"} THEN 1 ELSE 0
Highest(f) == CASE f = "minute" -> Minutes - 1 [] f = "hour" -> Hours - 1
                [] f = "dom" -> Longest [] f = "month" -> Len(MonthDays)
                [] f = "dow" -> Week - 1

\* A term without a slash has step one.
Term == [kind : {"star", "range", "value"}, low : Nat, high : Nat, step : Nat, slash : BOOLEAN]

ASSUME SpecAssumption ==
  /\ Specs \subseteq [Fields -> SUBSET Term]
  /\ \A s \in Specs : \A f \in Fields : \A term \in s[f] : term.slash \/ term.step = 1
  /\ \A result \in {Invalid, Searching, Zero} : result \notin Nat
  /\ Invalid # Searching /\ Zero \notin {Invalid, Searching}

\* The last day of the week has two numbers, 0 and Week.
parseValue(v, f) ==
  IF f = "dow" /\ v = Week THEN 0
  ELSE IF v < Lowest(f) \/ v > Highest(f) THEN Invalid ELSE v

Bits(low, high, step) == {v \in low..high : (v - low) % step = 0}

\* A term is "*", a range or a value, with a step; a value with a step above
\* one stands for the range up to the end.
parseTerm(t, f) ==
  LET low == parseValue(t.low, f)
      high == parseValue(t.high, f)
  IN  CASE t.step = 0 -> Invalid
        [] t.step > 0 /\ t.kind = "star" -> Bits(Lowest(f), Highest(f), t.step)
        [] t.step > 0 /\ t.kind = "range" ->
             IF Invalid \in {low, high} THEN Invalid
             ELSE IF low > high THEN Invalid ELSE Bits(low, high, t.step)
        [] t.step > 0 /\ t.kind = "value" ->
             IF low = Invalid THEN Invalid
             ELSE Bits(low, IF t.step > 1 THEN Highest(f) ELSE low, t.step)

parseField(terms, f) ==
  LET parsed == {parseTerm(t, f) : t \in terms}
  IN  IF Invalid \in parsed THEN Invalid ELSE UNION parsed

\* A field is literally "*": the same term with a step is not.  (A field is a
\* set of terms here, so "*,*" cannot be told from "*".)
Star(terms) == \E t \in terms : terms = {t} /\ t.kind = "star" /\ ~ t.slash

Parse(spec) ==
  IF \E f \in Fields : parseField(spec[f], f) = Invalid THEN Invalid
  ELSE [f \in Fields |-> parseField(spec[f], f)]

-----------------------------------------------------------------------------
(* Next.                                                                   *)

VARIABLES
  spec,    \* the specification
  from,    \* the time asked for
  sched,   \* the parsed schedule, or Invalid
  t,       \* the minute looked at
  found    \* the result: a minute, Zero, or Searching
cronVars == <<spec, from, sched, t, found>>

Start(at) == at \div Grain + 1
limit == Start(from) + searchLimit

\* The calendar is long enough for every search.
ASSUME HorizonAssumption ==
  \A at \in Instants : Start(at) + searchLimit <= FirstDay[Horizon] * Day

CronInit ==
  /\ spec \in Specs /\ from \in Instants
  /\ sched = Parse(spec)
  /\ t = Start(from)
  /\ found = IF Parse(spec) = Invalid THEN Invalid ELSE Searching

\* Mutant: restricted day fields must both match.
dayMatches_And(m) ==
  LET domOK == DayOfMonth(m) \in sched["dom"]
      dowOK == Weekday(m) \in sched["dow"]
  IN  domOK /\ dowOK
dayMatches(m) ==
  LET domOK == DayOfMonth(m) \in sched["dom"]
      dowOK == Weekday(m) \in sched["dow"]
  IN  \/ Star(spec["dom"]) /\ Star(spec["dow"])
      \/ Star(spec["dom"]) /\ ~ Star(spec["dow"]) /\ dowOK
      \/ ~ Star(spec["dom"]) /\ Star(spec["dow"]) /\ domOK
      \/ ~ Star(spec["dom"]) /\ ~ Star(spec["dow"]) /\ (domOK \/ dowOK)

\* Mutant: the jump to the next month keeps the present one.
Jump_Stays(m) ==
  CASE Month(m) \notin sched["month"] -> FirstDay[MonthAt(m)] * Day
    [] Month(m) \in sched["month"] /\ ~ dayMatches(m) -> (DayNo(m) + 1) * Day
    [] Month(m) \in sched["month"] /\ dayMatches(m) /\ Hour(m) \notin sched["hour"] ->
         (m \div Minutes + 1) * Minutes
    [] OTHER -> m + 1
\* Where the search goes from a minute that does not match: to the start of
\* the next month, day or hour, or to the next minute.
Jump(m) ==
  CASE Month(m) \notin sched["month"] -> FirstDay[MonthAt(m) + 1] * Day
    [] Month(m) \in sched["month"] /\ ~ dayMatches(m) -> (DayNo(m) + 1) * Day
    [] Month(m) \in sched["month"] /\ dayMatches(m) /\ Hour(m) \notin sched["hour"] ->
         (m \div Minutes + 1) * Minutes
    [] OTHER -> m + 1

Matches(m) ==
  /\ Month(m) \in sched["month"] /\ dayMatches(m)
  /\ Hour(m) \in sched["hour"] /\ Minute(m) \in sched["minute"]

Skip ==
  /\ found = Searching /\ t < limit /\ ~ Matches(t)
  /\ t' = Jump(t)
  /\ UNCHANGED <<spec, from, sched, found>>

Fire ==
  /\ found = Searching /\ t < limit /\ Matches(t)
  /\ found' = t
  /\ UNCHANGED <<spec, from, sched, t>>

GiveUp ==
  /\ found = Searching /\ t >= limit
  /\ found' = Zero
  /\ UNCHANGED <<spec, from, sched, t>>

CronNext == Skip \/ Fire \/ GiveUp
CronSpec == CronInit /\ [][CronNext]_cronVars

-----------------------------------------------------------------------------
(* Properties.                                                             *)

\* What the documentation says a term selects: day Week is day 0, but the end
\* of a range is the number written there.
Selects(term, f, v) ==
  LET fold(n) == IF f = "dow" /\ n = Week THEN 0 ELSE n
      low == CASE term.kind = "star" -> Lowest(f) [] OTHER -> fold(term.low)
      high == CASE term.kind = "star" -> Highest(f)
                [] term.kind = "range" -> term.high
                [] OTHER -> IF term.slash /\ term.step > 1 THEN Highest(f) ELSE low
  IN  v >= low /\ v <= high /\ \E k \in 0..v : v = low + k * term.step

\* A range of days of the week ends in Week.  parseValue makes that end day 0,
\* so that the range is refused as inverted unless it starts on day 0 as well,
\* and then it is that day alone.
SundayAsEnd(s) == \E term \in s["dow"] : term.kind = "range" /\ term.high = Week

\* The specification fires in minute m.  Two restricted day fields are OR-ed;
\* one that is "*" leaves the decision to the other.
Fires(m) ==
  LET sel(f, v) == \E term \in spec[f] : Selects(term, f, v)
      dom == sel("dom", DayOfMonth(m))
      dow == sel("dow", Weekday(m))
  IN  /\ sel("minute", Minute(m)) /\ sel("hour", Hour(m)) /\ sel("month", Month(m))
      /\ IF Star(spec["dom"]) \/ Star(spec["dow"]) THEN dom /\ dow ELSE dom \/ dow

\* Next returns the first minute strictly after the time asked for in which
\* the specification fires, and the zero time only if it does not fire within
\* the search limit: the jumps over months, days and hours skip no firing, at
\* the end of a short month or a leap month and around the end of the week
\* alike (cron.go: "the first time strictly after t at which the schedule
\* fires, or the zero time if it never will within the search limit").  Ranges
\* of days that end in Week are set aside.
FirstFiring ==
  /\ found \notin {Invalid, Searching, Zero} /\ ~ SundayAsEnd(spec) =>
       /\ Fires(found) /\ found * Grain > from
       /\ \A m \in Start(from)..(found - 1) : ~ Fires(m)
  /\ found = Zero /\ ~ SundayAsEnd(spec) => \A m \in Start(from)..(limit - 1) : ~ Fires(m)
=============================================================================
