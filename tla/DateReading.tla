----------------------------- MODULE DateReading -----------------------------
(***************************************************************************)
(* How dates are read from the text of an official page                    *)
(* (apps/worker/src/parsing/dates.ts).  A text is a sequence of words, each *)
(* with its width in characters and followed by one space; a word is a     *)
(* label ("deadline", "opens", "classes begin"), a joining "and" or "or", a *)
(* piece of a date, a time of day, or anything else.                       *)
(***************************************************************************)
EXTENDS Integers, Sequences, FiniteSets, FiniteSetsExt

\* <<year, month, day>>, <<year, month>> or <<year>> of a season.
InvalidDate == <<>>

Leap(y) == (y % 4 = 0 /\ y % 100 # 0) \/ y % 400 = 0
DaysIn(y, m) == IF m = 2 THEN IF Leap(y) THEN 29 ELSE 28 ELSE IF m \in {4, 6, 9, 11} THEN 30 ELSE 31
DateOf(y, m, d) ==
    IF y \in 2000..2100 /\ m \in 1..12 /\ d >= 1 /\ d <= DaysIn(y, m) THEN <<y, m, d>> ELSE InvalidDate

-----------------------------------------------------------------------------
(* The seven patterns, in the order in which they claim their characters.   *)

Shape ==
    << <<"iso">>,
       <<"number", "month", "year">>,
       <<"month", "number", "year">>,
       <<"numeric">>,
       <<"month", "year">>,
       <<"season", "year">>,
       <<"month", "number">> >>
Pattern == DOMAIN Shape

\* What a pattern finds: the words it matches, all in one go.
Matches(text, p) ==
    LET n == Len(Shape[p])
        Fits(i) == \A k \in 1..n : text[i + k - 1].is = Shape[p][k]
    IN  {[pattern |-> p, from |-> i, to |-> i + n - 1] : i \in {j \in 1..Len(text) + 1 - n : Fits(j)}}

OverlapsClaim(m, claims) == \E c \in claims : m.from <= c.to /\ m.to >= c.from

\* collectMatches, pattern after pattern: what an earlier one claimed is not read again.
RawDates(text) ==
    LET claims[p \in 0..Len(Shape)] ==
            IF p = 0 THEN {}
            ELSE claims[p - 1] \cup {m \in Matches(text, p) : ~OverlapsClaim(m, claims[p - 1])}
    IN  claims[Len(Shape)]

\* The order of day and month is told by a number above twelve, else by the country.
NumericOrder(w, order) == IF w.first > 12 THEN "DMY" ELSE IF w.second > 12 THEN "MDY" ELSE order
NumericDate(w, order) ==
    IF NumericOrder(w, order) = "MDY" THEN DateOf(w.year, w.first, w.second)
    ELSE DateOf(w.year, w.second, w.first)

LocalDate(text, m, options) ==
    LET w(k) == text[m.from + k - 1]
    IN  CASE m.pattern = 1 -> DateOf(w(1).year, w(1).month, w(1).day)
          [] m.pattern = 2 -> DateOf(w(3).year, w(2).month, w(1).number)
          [] m.pattern = 3 -> DateOf(w(3).year, w(1).month, w(2).number)
          [] m.pattern = 4 -> NumericDate(w(1), options.order)
          [] m.pattern = 5 -> <<w(2).year, w(1).month>>
          [] m.pattern = 6 -> <<w(2).year>>
          [] m.pattern = 7 -> DateOf(options.today[1], w(1).month, w(2).number)

-----------------------------------------------------------------------------
(* A time of day directly after the date.                                   *)

NoTime == [to |-> 0, zone |-> "none", reasons |-> {}]

\* A zone the pattern does not list, such as CET, is not read at all; the page
\* is then taken to speak of the configured zone, UTC.
TimeDetails(text, to) ==
    IF to = Len(text) \/ text[to + 1].is # "time" THEN [NoTime EXCEPT !.to = to]
    ELSE LET w == text[to + 1]
         IN  IF ~w.valid THEN [to |-> to + 1, zone |-> "none", reasons |-> {"INVALID_DATE"}]
             ELSE CASE w.zone \in {"unstated", "unlisted", "UTC"} ->
                          [to |-> to + 1, zone |-> "UTC", reasons |-> {}]
                    [] w.zone = "abbreviated" ->
                          [to |-> to + 1, zone |-> "UTC", reasons |-> {"TIMEZONE_ABBREVIATION"}]
                    [] w.zone = "region" -> [to |-> to + 1, zone |-> "region", reasons |-> {}]

-----------------------------------------------------------------------------
(* Which label a date belongs to: the nearest one, unless another kind of   *)
(* label is about as near, or is joined to it.                              *)

StartOf(text, i) == MapThenSumSet(LAMBDA j : text[j].width + 1, 1..i - 1)
EndOf(text, i) == StartOf(text, i) + text[i].width

ContextWidth == 120
Distance(text, label, from, to) ==
    IF label < from THEN StartOf(text, from) - EndOf(text, label)
    ELSE StartOf(text, label) - EndOf(text, to)
LabelsNear(text, from, to) ==
    {i \in DOMAIN text : /\ text[i].is = "label"
                         /\ i \notin from..to
                         /\ Distance(text, i, from, to) + text[i].width <= ContextWidth}

\* Two labels on one side of the date with nothing but an "and" between them.
Joined(text, i, j, from) ==
    /\ (i < from) = (j < from)
    /\ LET between == (i + j) \div 2
       IN  (i - j) \in {-2, 2} /\ text[between].is = "and"

AboutAsNear == 3
NoContext == [kind |-> "UNKNOWN", conflicting |-> FALSE]
ContextKind(text, from, to) ==
    LET labels == LabelsNear(text, from, to)
        d(i) == Distance(text, i, from, to)
    IN  IF labels = {} THEN NoContext
        ELSE LET nearest == CHOOSE i \in labels : \A j \in labels : d(i) < d(j) \/ (d(i) = d(j) /\ i <= j)
                 conflicting == \E j \in labels :
                    /\ text[j].kind # text[nearest].kind
                    /\ d(j) - d(nearest) <= AboutAsNear \/ Joined(text, j, nearest, from)
             IN  IF conflicting THEN [kind |-> "UNKNOWN", conflicting |-> TRUE]
                 ELSE [kind |-> text[nearest].kind, conflicting |-> FALSE]

-----------------------------------------------------------------------------
(* extractDateCandidates.  A candidate without review reasons may be        *)
(* proposed mechanically (automaticPublication).                            *)

Candidate(text, m, options) ==
    LET time == TimeDetails(text, m.to)
        context == ContextKind(text, m.from, time.to)
        date == LocalDate(text, m, options)
        When(condition, reason) == IF condition THEN {reason} ELSE {}
    IN  [from |-> m.from, to |-> time.to, kind |-> context.kind, date |-> date,
         precision |-> CASE m.pattern = 5 -> "MONTH"
                         [] m.pattern = 6 -> "SEASON"
                         [] OTHER -> IF time.zone = "none" THEN "DATE" ELSE "DATE_TIME",
         zone |-> time.zone,
         reasons |-> When(date = InvalidDate, "INVALID_DATE")
                \cup When(m.pattern = 7, "INFERRED_YEAR")
                \cup When(m.pattern \in {5, 6}, "PARTIAL_DATE")
                \cup When(context.conflicting, "CONFLICTING_CONTEXT")
                \cup When(~context.conflicting /\ context.kind = "UNKNOWN", "MISSING_CONTEXT")
                \cup time.reasons]

Candidates(text, options) == {Candidate(text, m, options) : m \in RawDates(text)}
=============================================================================
