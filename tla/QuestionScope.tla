---------------------------- MODULE QuestionScope ----------------------------
(***************************************************************************)
(* The dates a question asks for, from its words to the evidence that may  *)
(* answer it: date expressions are resolved to half-open ranges, against   *)
(* the clock, whenever the question or one of its information needs is     *)
(* classified; a need without dates inherits the question's; evidence is   *)
(* validated with the need's ranges after a lookup and with the question's *)
(* before the answer.                                                      *)
(*                                                                         *)
(* What the patterns find in a text is its reading, a record: see          *)
(* ReadingOK.  Times are UTC and count half days, so that an instant is a  *)
(* midnight or a noon.  A connector (before, since, ...) is taken to       *)
(* belong to the date.  Documents are those that graders find relevant;    *)
(* the module Lookup says which of those in its scope a lookup returns.    *)
(*                                                                         *)
(* Some names start with Scope, because PlanningAndScopeProofs extends     *)
(* this module and RetrievalPlanning.                                      *)
(***************************************************************************)
EXTENDS Integers, Sequences, FiniteSetsExt

CONSTANTS
    FirstYear, LastYear,   \* of the calendar, as datetime has MINYEAR, MAXYEAR
    Inputs,                \* readings of a question and of a need of it
    Starts,                \* instants at which questions are asked
    MaxTicks,              \* half days a query may take
    MaxRetries,            \* of a need, with or without reclassification
    Documents,             \* [uploaded, published], each an instant
    Searches               \* sets of documents a search without dates may find

--------------------------------------------------------------------------------
(* The calendar.  Months are counted from year 0, days from FirstYear.     *)

Leap(year) == year % 4 = 0 /\ (year % 100 # 0 \/ year % 400 = 0)

MonthLength(month) ==
    CASE month % 12 = 1              -> IF Leap(month \div 12) THEN 29 ELSE 28
      [] month % 12 \in {3, 5, 8, 10} -> 30
      [] OTHER                        -> 31

Calendar == 12 * FirstYear .. 12 * (LastYear + 1)

MonthStart[month \in Calendar] ==
    IF month = 12 * FirstYear THEN 0
    ELSE MonthStart[month - 1] + MonthLength(month - 1)

Months == Calendar \ {12 * (LastYear + 1)}
Instants == 0 .. 2 * MonthStart[12 * (LastYear + 1)] - 1

Midnight(month, day) == 2 * (MonthStart[month] + day - 1)

DayOf(t) == t \div 2
HalfOf(t) == t % 2
MonthOfDay ==
    [day \in 0 .. MonthStart[12 * (LastYear + 1)] |->
        CHOOSE m \in Calendar : /\ MonthStart[m] <= day
                                /\ day < MonthStart[m] + MonthLength(m)]
MonthOf(t) == MonthOfDay[DayOf(t)]
YearOf(t) == MonthOf(t) \div 12
DayOfMonth(t) == DayOf(t) - MonthStart[MonthOf(t)] + 1

Noon(year, month, day) == Midnight(12 * year + month - 1, day) + 1

--------------------------------------------------------------------------------
(* Readings.                                                               *)

Units == {"day", "month", "year", "named"}  \* named: a month without a year
Value(unit, year, month, day) ==
    [unit |-> unit, year |-> year, month |-> month, day |-> day]
ValueOK(v) ==
    /\ v \in [unit: Units, year: Nat, month: Nat, day: Nat]
    /\ v.unit \in {"month", "named"} => v.month \in 1..12

Unrecorded == -1   \* no publication date

ReadingOK(r) ==
    /\ r.relative \in {"none", "today", "yesterday", "this_month", "last_month",
                       "this_year", "last_year", "days", "weeks", "months", "years"}
    /\ r.count \in Nat          \* of the last four
    \* Dates in the order of the text.  Day and month may not exist: 31/02,
    \* or a month and a day in the American order.
    /\ r.values \in Seq([unit: Units, year: Nat, month: Nat, day: Nat])
    /\ \A i \in DOMAIN r.values : ValueOK(r.values[i])
    /\ r.connector \in {"none", "between", "before", "after", "since", "until"}
    /\ r.fields \subseteq {"uploaded", "published"}  \* cues of a date field
    /\ r.scoped \in BOOLEAN     \* a cue that dates restrict the documents

ASSUME ScopeAssumption ==
    /\ \A i \in Inputs : ReadingOK(i.question) /\ ReadingOK(i.need)
    /\ FirstYear \in Nat /\ LastYear \in Nat /\ FirstYear <= LastYear
    /\ MaxTicks \in Nat
    /\ \A t \in Starts : t \in Nat /\ t + MaxTicks \in Instants
    /\ Documents \subseteq [uploaded: Instants, published: Instants \cup {Unrecorded}]
    /\ Searches \subseteq SUBSET Documents

Unbounded == -1

VARIABLES
    input,    \* the readings of the question and of its need
    now,      \* the clock
    asked,    \* when the question was classified
    scope,    \* date constraints of the question
    plan,     \* date constraints of the need's current plan
    planned,  \* when they were resolved
    searched, \* history: what searches would have found without dates
    found,    \* documents whose evidence the need has accumulated
    answer,   \* documents whose evidence reaches the answer
    stage,
    retries

scopeVars ==
    <<input, now, asked, scope, plan, planned, searched, found, answer, stage, retries>>

--------------------------------------------------------------------------------
(* Resolving an expression.  The result is {} or one range: neither a text *)
(* without dates nor one whose dates cannot be resolved has a constraint.  *)

\* DateRange refuses a start that is not earlier than the end.
DateRange(start, end) ==
    IF Unbounded \notin {start, end} /\ start >= end THEN {}
    ELSE {[start |-> start, end |-> end]}

AddMonths(t, months) ==
    LET month == MonthOf(t) + months
    IN  Midnight(month, Min({DayOfMonth(t), MonthLength(month)})) + HalfOf(t)

AddYears(t, years) ==
    LET month == MonthOf(t) + 12 * years
    IN  IF DayOfMonth(t) <= MonthLength(month)
        THEN Midnight(month, DayOfMonth(t)) + HalfOf(t)
        ELSE Midnight(month, 28) + HalfOf(t)

ResolveRelative(r, t) ==
    LET today == 2 * DayOf(t)
        month == Midnight(MonthOf(t), 1)
        year  == Midnight(12 * YearOf(t), 1)
    IN  CASE r.relative = "today"      -> DateRange(today, today + 2)
          [] r.relative = "yesterday"  -> DateRange(today - 2, today)
          [] r.relative = "this_month" -> DateRange(month, AddMonths(month, 1))
          [] r.relative = "last_month" -> DateRange(AddMonths(month, -1), month)
          [] r.relative = "this_year"  -> DateRange(year, AddYears(year, 1))
          [] r.relative = "last_year"  -> DateRange(AddYears(year, -1), year)
          [] r.relative = "days"       -> DateRange(t - 2 * r.count, t)
          [] r.relative = "weeks"      -> DateRange(t - 14 * r.count, t)
          [] r.relative = "months"     -> DateRange(AddMonths(t, -r.count), t)
          [] r.relative = "years"      -> DateRange(AddYears(t, -r.count), t)

\* Years before the calendar or after it raise.
Reaches(r, t) ==
    CASE r.relative = "today"      -> t + 2 \in Instants
      [] r.relative = "yesterday"  -> t >= 2
      [] r.relative = "this_month" -> MonthOf(t) + 1 \in Months
      [] r.relative = "last_month" -> MonthOf(t) - 1 \in Months
      [] r.relative = "this_year"  -> YearOf(t) + 1 <= LastYear
      [] r.relative = "last_year"  -> YearOf(t) - 1 >= FirstYear
      [] r.relative = "days"       -> t >= 2 * r.count
      [] r.relative = "weeks"      -> t >= 14 * r.count
      [] r.relative = "months"     -> MonthOf(t) - r.count \in Months
      [] r.relative = "years"      -> MonthOf(t) - 12 * r.count \in Months

\* The year of a value; a month without a year is the last one to begin.
YearIn(v, t) ==
    IF v.unit # "named" THEN v.year
    ELSE IF v.month <= (MonthOf(t) % 12) + 1 THEN YearOf(t) ELSE YearOf(t) - 1

FirstMonth(v, t) ==
    12 * YearIn(v, t) + IF v.unit = "year" THEN 0 ELSE v.month - 1

\* So do days that do not exist, and with them the whole expression.
Exists(v, t) ==
    /\ FirstMonth(v, t) \in Months
    /\ CASE v.unit = "day"  -> /\ v.month \in 1..12
                               /\ v.day \in 1..MonthLength(FirstMonth(v, t))
                               /\ Midnight(FirstMonth(v, t), v.day + 1) \in Instants
         [] v.unit = "year" -> v.year + 1 <= LastYear
         [] OTHER           -> FirstMonth(v, t) + 1 \in Months

\* First instant of a value and first instant after it.
AbsoluteValue(v, t) ==
    LET start == Midnight(FirstMonth(v, t), 1)
        of(first, next) == [start |-> first, end |-> next]
    IN  CASE v.unit = "day"  -> of(start + 2 * (v.day - 1), start + 2 * v.day)
          [] v.unit = "year" -> of(start, Midnight(12 * v.year + 12, 1))
          [] OTHER           -> of(start, AddMonths(start, 1))

ResolveAbsolute(r, t) ==
    LET value(i) == AbsoluteValue(r.values[i], t)
    IN  CASE r.connector = "between" /\ Len(r.values) >= 2 ->
                                      DateRange(value(1).start, value(2).end)
          [] r.connector = "before" -> DateRange(Unbounded, value(1).start)
          [] r.connector = "after"  -> DateRange(value(1).end, Unbounded)
          [] r.connector = "since"  -> DateRange(value(1).start, Unbounded)
          [] r.connector = "until"  -> DateRange(Unbounded, value(1).end)
          [] OTHER                  -> DateRange(value(1).start, value(1).end)

ResolveDateExpression(r, t) ==
    IF r.relative # "none" THEN IF Reaches(r, t) THEN ResolveRelative(r, t) ELSE {}
    ELSE IF r.values = <<>> \/ \E i \in DOMAIN r.values : ~Exists(r.values[i], t) THEN {}
    ELSE ResolveAbsolute(r, t)

Fields(r) ==
    IF r.fields # {} THEN r.fields
    ELSE IF r.scoped THEN {"any"} ELSE {}

\* The constraints of a text that is classified at an instant.
Detect(r, t) == [field: Fields(r), range: ResolveDateExpression(r, t)]

--------------------------------------------------------------------------------
(* Validation.                                                             *)

Recorded(d, field) ==
    (IF field = "any" THEN {d.published, d.uploaded} ELSE {d[field]}) \ {Unrecorded}

\* Mutant: a range does not include its start.
InRangeAfterStart(t, range) ==
    /\ range.start = Unbounded \/ t > range.start
    /\ range.end = Unbounded \/ t < range.end

InRange(t, range) ==
    /\ range.start = Unbounded \/ t >= range.start
    /\ range.end = Unbounded \/ t < range.end

Matches(d, constraints) ==
    \A c \in constraints : \E t \in Recorded(d, c.field) : InRange(t, c.range)

Validated(evidence, constraints) == {d \in evidence : Matches(d, constraints)}

--------------------------------------------------------------------------------
(* A query, with one information need.                                     *)

ScopeInit ==
    /\ input \in Inputs /\ now \in Starts /\ asked = now /\ planned = now
    /\ scope = {} /\ plan = {} /\ searched = {} /\ found = {} /\ answer = {}
    /\ stage = "ask" /\ retries = 0

Tick ==
    /\ stage \notin {"ask", "answered"} /\ now < asked + MaxTicks
    /\ now' = now + 1
    /\ UNCHANGED <<input, asked, scope, plan, planned, searched, found, answer, stage, retries>>

ClassifyQuery ==
    /\ stage = "ask"
    /\ scope' = Detect(input.question, now)
    /\ asked' = now
    /\ stage' = "classify"
    /\ UNCHANGED <<input, now, plan, planned, searched, found, answer, retries>>

\* A plan takes the question's constraints if its need has none.
Planned(own) == IF own = {} THEN scope ELSE own

\* The only need of a question, in its words: its classification is reused.
ReuseClassification ==
    /\ stage = "classify" /\ retries = 0 /\ input.need = input.question
    /\ plan' = scope
    /\ planned' = asked
    /\ stage' = "lookup"
    /\ UNCHANGED <<input, now, asked, scope, searched, found, answer, retries>>

ClassifyNeed ==
    /\ stage = "classify"
    /\ plan' = Planned(Detect(input.need, now))
    /\ planned' = now
    /\ stage' = "lookup"
    /\ UNCHANGED <<input, now, asked, scope, searched, found, answer, retries>>

\* The stores search within the plan's ranges; what they return joins the
\* evidence of earlier attempts.
LookUp ==
    /\ stage = "lookup"
    /\ \E S \in Searches : /\ searched' = searched \cup S
                           /\ found' = found \cup Validated(S, plan)
    /\ stage' = "validate"
    /\ UNCHANGED <<input, now, asked, scope, plan, planned, answer, retries>>

\* Mutant: evidence of earlier attempts was validated when it was found.
ValidateNothingOld ==
    /\ stage = "validate"
    /\ stage' = "graded"
    /\ UNCHANGED <<input, now, asked, scope, plan, planned, searched, found, answer, retries>>

\* All evidence the need has must be in the ranges of the current plan.
Validate ==
    /\ stage = "validate"
    /\ found' = Validated(found, plan)
    /\ stage' = "graded"
    /\ UNCHANGED <<input, now, asked, scope, plan, planned, searched, answer, retries>>

\* Another lookup with the same classification, or with a new one.
Retry ==
    /\ stage = "graded" /\ retries < MaxRetries
    /\ retries' = retries + 1
    /\ stage' \in {"lookup", "classify"}
    /\ UNCHANGED <<input, now, asked, scope, plan, planned, searched, found, answer>>

\* A need also ends when it was classified again and the planner stops.
PrepareContext ==
    /\ stage = "graded" \/ (stage = "classify" /\ retries > 0)
    /\ answer' = Validated(found, scope)
    /\ stage' = "answered"
    /\ UNCHANGED <<input, now, asked, scope, plan, planned, searched, found, retries>>

ScopeNext ==
    Tick \/ ClassifyQuery \/ ReuseClassification \/ ClassifyNeed \/ LookUp \/ Validate
    \/ Retry \/ PrepareContext

ScopeSpec == ScopeInit /\ [][ScopeNext]_scopeVars

--------------------------------------------------------------------------------
(* Properties.  What a reading names is said without ranges, by comparing  *)
(* days, months and years.                                                 *)

Granule(unit, x) ==
    CASE unit = "day" -> DayOf(x) [] unit = "year" -> YearOf(x) [] OTHER -> MonthOf(x)

GranuleOf(v, t) ==
    CASE v.unit = "day"   -> MonthStart[12 * v.year + v.month - 1] + v.day - 1
      [] v.unit = "year"  -> v.year
      [] v.unit = "month" -> 12 * v.year + v.month - 1
      [] v.unit = "named" -> Max({m \in MonthOf(t) - 11 .. MonthOf(t) : m % 12 = v.month - 1})

\* From the same day and hour, or the last day of a shorter month, on.
SinceMonths(x, t, months) ==
    LET same == 2 * Min({DayOfMonth(t), MonthLength(MonthOf(x))}) + HalfOf(t)
    IN  \/ MonthOf(x) + months > MonthOf(t)
        \/ /\ MonthOf(x) + months = MonthOf(t)
           /\ 2 * DayOfMonth(x) + HalfOf(x) >= same

\* The other relative expressions name one day, month or year.
RelativeUnit ==
    [today |-> "day", yesterday |-> "day", this_month |-> "month", last_month |-> "month",
     this_year |-> "year", last_year |-> "year"]
Back(r) == IF r.relative \in {"yesterday", "last_month", "last_year"} THEN 1 ELSE 0

\* Instant x is not before what the relative expression names at t.
SinceRelative(r, t, x) ==
    CASE r.relative = "days"   -> t <= x + 2 * r.count
      [] r.relative = "weeks"  -> t <= x + 14 * r.count
      [] r.relative = "months" -> SinceMonths(x, t, r.count)
      [] r.relative = "years"  -> SinceMonths(x, t, 12 * r.count)
      [] OTHER -> LET unit == RelativeUnit[r.relative]
                  IN  Granule(unit, x) + Back(r) >= Granule(unit, t)

\* ... and not after it.
UntilRelative(r, t, x) ==
    IF r.relative \in {"days", "weeks", "months", "years"} THEN x < t
    ELSE LET unit == RelativeUnit[r.relative]
         IN  Granule(unit, x) + Back(r) <= Granule(unit, t)

Since(r, i, t, x) ==
    IF r.relative # "none" THEN SinceRelative(r, t, x)
    ELSE Granule(r.values[i].unit, x) >= GranuleOf(r.values[i], t)
Until(r, i, t, x) ==
    IF r.relative # "none" THEN UntilRelative(r, t, x)
    ELSE Granule(r.values[i].unit, x) <= GranuleOf(r.values[i], t)

\* At t, the reading names instant x.
Names(r, t, x) ==
    LET dates == IF r.relative # "none" THEN {1} ELSE DOMAIN r.values
    IN  CASE r.connector = "before" -> ~Since(r, 1, t, x)
          [] r.connector = "after"  -> ~Until(r, 1, t, x)
          [] r.connector = "since"  -> Since(r, 1, t, x)
          [] r.connector = "until"  -> Until(r, 1, t, x)
          [] r.connector = "between" /\ Len(r.values) >= 2 ->
                                       Since(r, 1, t, x) /\ Until(r, 2, t, x)
          [] OTHER -> \E i \in dates : Since(r, i, t, x) /\ Until(r, i, t, x)

\* The resolver does not read a connector, or a value, once it has found a
\* relative expression; of several values it takes the first, or the first two
\* after "between".  Readings of which it leaves nothing out ...
ReadWhole(r) ==
    IF r.relative # "none" THEN r.connector = "none" /\ r.values = <<>>
    ELSE Len(r.values) <= IF r.connector = "between" THEN 2 ELSE 1

\* ... and those that name no less than what it takes.
ReadInPart(r) ==
    IF r.relative # "none" THEN r.connector \in {"none", "since", "until"} /\ r.values = <<>>
    ELSE r.connector = "none"

\* A reading that restricts documents to dates which exist and are in order.
Dated(r) == Fields(r) # {} /\ (r.relative # "none" \/ r.values # <<>>)
InOrder(r, t) ==
    /\ r.relative # "none" => Reaches(r, t)
    /\ r.relative \in {"days", "weeks", "months", "years"} => r.count > 0
    /\ \A i \in DOMAIN r.values : Exists(r.values[i], t)
    /\ r.connector = "between" /\ Len(r.values) >= 2 =>
          AbsoluteValue(r.values[1], t).start < AbsoluteValue(r.values[2], t).end

NamedDocument(r, t, d) ==
    \A f \in Fields(r) : \E x \in Recorded(d, f) : Names(r, t, x)

KeepsTo(r, t) ==
    Dated(r) /\ InOrder(r, t) /\ (ReadWhole(r) \/ ReadInPart(r)) =>
        \A d \in answer : NamedDocument(r, t, d)

\* Every document an answer may use bears, in each date field that is cued, a
\* date which the question named when it was asked and one which its need named
\* when its last plan was made: also when earlier attempts had other dates
\* because a midnight passed, and over months and leap years (resolver.py,
\* validate_constraints.py, prepare_evidence_context.py).
AnswersKeepToTheDates ==
    stage = "answered" => KeepsTo(input.question, asked) /\ KeepsTo(input.need, planned)

\* A need that repeats the dates of its question, or names none, loses no
\* document that a search would have found without dates and that these dates
\* named all the time the query ran: ranges are resolved again, stores filter
\* by them, and all evidence must be in those of the need's current plan and
\* in the question's (nodes/plan.py, validate_constraints.py,
\* prepare_evidence_context.py).
NothingNamedIsLost ==
    stage = "answered" /\ ~(Dated(input.need) /\ input.need # input.question) =>
        \A d \in searched :
            (Dated(input.question) =>
                /\ ReadWhole(input.question)
                /\ \A t \in asked..now : /\ InOrder(input.question, t)
                                         /\ NamedDocument(input.question, t, d)) => d \in answer

\* What a relative expression and its connector name, the answer keeps to:
\* "before/after constraint" (prompts/classify_query.md:21).  Refuted: "before
\* yesterday" is taken for yesterday.
ConnectorsAreRead ==
    stage = "answered" /\ Dated(input.question) /\ InOrder(input.question, asked) =>
        \A d \in answer : NamedDocument(input.question, asked, d)

\* A question that restricts documents to dates is answered under a
\* constraint: "Metadata constraints are fail-closed" (README.md:217).
DatesAreEnforced ==
    stage = "answered" /\ Dated(input.question) => scope # {}
=============================================================================
