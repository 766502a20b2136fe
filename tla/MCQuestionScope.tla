--------------------------- MODULE MCQuestionScope ---------------------------
(* TLC instance of QuestionScope: questions asked around the ends of       *)
(* months, of a year and of a leap year's February.                        *)
EXTENDS QuestionScope

Reading(relative, count, values, connector, fields, scoped) ==
    [relative |-> relative, count |-> count, values |-> values,
     connector |-> connector, fields |-> fields, scoped |-> scoped]

Silent == Reading("none", 0, <<>>, "none", {}, FALSE)

Relatives ==
    {Reading(w, 0, <<>>, "none", {"uploaded"}, TRUE) :
        w \in {"today", "yesterday", "this_month", "last_month", "this_year", "last_year"}}
    \cup {Reading(w, c, <<>>, "none", {"published"}, FALSE) :
        w \in {"days", "weeks", "months", "years"}, c \in 0..1}
    \cup {Reading("months", 13, <<>>, "none", {}, TRUE)}
    \cup {Reading("years", 3, <<>>, "none", {"uploaded"}, TRUE)}  \* not in the calendar

Leapday == Value("day", 2024, 2, 29)
February == Value("month", 2024, 2, 0)
Singles ==
    {Leapday, Value("day", 2023, 2, 29), Value("day", 2024, 12, 31),
     Value("day", 2024, 31, 12), February, Value("year", 2024, 0, 0),
     Value("named", 0, 1, 0), Value("named", 0, 3, 0), Value("named", 0, 12, 0)}
Spans ==
    {<<Value("named", 0, 1, 0), Value("month", 2024, 3, 0)>>,
     <<Value("named", 0, 12, 0), Value("named", 0, 2, 0)>>,
     <<Value("day", 2023, 12, 31), Leapday>>, <<February, Value("year", 2023, 0, 0)>>}

Absolutes ==
    {Reading("none", 0, <<v>>, k, {}, TRUE) :
        v \in Singles, k \in {"none", "between", "before", "after", "since", "until"}}
    \cup {Reading("none", 0, s, k, f, FALSE) : s \in Spans, k \in {"none", "between"},
            f \in {{}, {"uploaded"}, {"uploaded", "published"}}}

\* What the resolver leaves out: connectors of relative expressions, and all
\* but the first of several values.
Partial ==
    {Reading(w, 1, <<>>, k, {"uploaded"}, TRUE) :
        w \in {"yesterday", "last_month", "months"}, k \in {"before", "after", "since", "until"}}
    \cup {Reading("none", 0, <<February, Value("day", 2023, 12, 31)>>, k, {}, TRUE) :
            k \in {"none", "before"}}

\* Needs in the question's words, without dates, or with other dates.
MCInputs ==
    LET questions == Relatives \cup Absolutes \cup Partial \cup {Silent}
    IN  {[question |-> q, need |-> n] : q \in questions,
            n \in {Silent, Reading("last_year", 0, <<>>, "none", {"uploaded"}, FALSE)}}
        \cup {[question |-> q, need |-> q] : q \in questions}

\* "Documents uploaded between January and March 2024."
MCSpanInputs ==
    LET q == Reading("none", 0, <<Value("named", 0, 1, 0), Value("month", 2024, 3, 0)>>,
                     "between", {"uploaded"}, TRUE)
    IN  {[question |-> q, need |-> q]}

\* "Documents uploaded before yesterday."
MCBeforeInputs ==
    LET q == Reading("yesterday", 0, <<>>, "before", {"uploaded"}, TRUE)
    IN  {[question |-> q, need |-> q]}

MCStarts ==
    {Noon(2024, 1, 31), Noon(2024, 2, 28), Noon(2024, 2, 29), Noon(2024, 3, 30),
     Noon(2024, 12, 31), Noon(2024, 5, 15), Noon(2025, 1, 15)}

Stamps ==
    {Noon(2022, 12, 31), Noon(2023, 1, 1), Noon(2023, 2, 28), Noon(2023, 12, 31),
     Noon(2024, 1, 1), Noon(2024, 1, 31), Noon(2024, 2, 1), Noon(2024, 2, 29),
     Noon(2024, 3, 1), Noon(2024, 3, 31), Noon(2024, 12, 30), Noon(2024, 12, 31),
     Noon(2024, 5, 15) - 2, Noon(2025, 1, 1) - 1}

\* Publication dates: none, the upload's, or one in February 2024.
MCDocuments ==
    UNION {{[uploaded |-> t, published |-> p] : p \in {Unrecorded, t, Noon(2024, 2, 29)}} :
        t \in Stamps}

\* A search finds all of them, or those of 2024.
MCSearches ==
    {MCDocuments, {d \in MCDocuments : YearOf(d.uploaded) = 2024}}
=============================================================================
