--------------------------- MODULE IntakeMatching ---------------------------
(***************************************************************************)
(* Which intake and application round a date is about                      *)
(* (apps/worker/src/verification/intake-matching.ts): a hint names it, or   *)
(* the date has to precede exactly one intake that is not over.  Dates are  *)
(* those of DateReading; evidence of intake starts, which no caller passes, *)
(* is left out.                                                             *)
(***************************************************************************)
EXTENDS Integers, Sequences, FiniteSets

\* An intake has a year, a month (its start date's, where it has one) or none,
\* and its rounds, a set of [id, name].
NoMonth == 0
NoName == "none"
NoHint == [year |-> 0, month |-> NoMonth]
NoRound == "no round"

IsOldIntake(intake, today) ==
    \/ intake.year < today[1]
    \/ intake.year = today[1] /\ intake.month # NoMonth /\ intake.month < today[2]

IsStaleIfEarlierYear(date, today) == date # <<>> /\ date[1] < today[1]
\* Certainly in the past: a season or a month of the running year or month is not.
IsStaleCandidate(date, today) ==
    /\ date # <<>>
    /\ \/ date[1] < today[1]
       \/ /\ date[1] = today[1]
          /\ Len(date) > 1
          /\ \/ date[2] < today[2]
             \/ date[2] = today[2] /\ Len(date) = 3 /\ date[3] < today[3]

MatchesHint(intake, hint) ==
    intake.year = hint.year /\ (hint.month = NoMonth \/ intake.month = hint.month)

\* Applications are made before the intake starts.
IsChronologicallyEligible(intake, date) ==
    \/ date = <<>>
    \/ intake.year > date[1]
    \/ /\ intake.year = date[1]
       /\ intake.month = NoMonth \/ Len(date) = 1 \/ intake.month >= date[2]

Result(status, reasons) ==
    [status |-> status, reasons |-> reasons, intake |-> NoRound, round |-> NoRound]

\* A round name that no round of the intake has is taken for a new round.
ResolveRound(intake, name) ==
    LET named == IF name = NoName THEN intake.rounds ELSE {r \in intake.rounds : r.name = name}
    IN  IF Cardinality(named) = 1 THEN [round |-> (CHOOSE r \in named : TRUE).id, reasons |-> {}]
        ELSE [round |-> NoRound, reasons |-> IF named = {} THEN {} ELSE {"AMBIGUOUS_ROUND"}]

\* matchDateCandidatesToIntakes, for one piece of evidence.
Match(evidence, intakes, today) ==
    LET doubts == IF evidence.automaticPublication THEN {} ELSE {"CANDIDATE_REQUIRES_REVIEW"}
        matching == IF evidence.hint # NoHint
                    THEN {i \in intakes : MatchesHint(i, evidence.hint)}
                    ELSE {i \in intakes : IsChronologicallyEligible(i, evidence.date)}
        current == {i \in matching : ~IsOldIntake(i, today)}
    IN  IF evidence.hint = NoHint /\ IsStaleCandidate(evidence.date, today)
        THEN Result("REVIEW", doubts \cup {"STALE_CANDIDATE"})
        ELSE IF matching # {} /\ current = {} THEN Result("REJECTED", {"OLD_INTAKE"})
        ELSE IF current = {} THEN Result("REVIEW", doubts \cup {"NO_ELIGIBLE_INTAKE"})
        ELSE IF Cardinality(current) > 1 THEN Result("REVIEW", doubts \cup {"AMBIGUOUS_INTAKE"})
        ELSE LET intake == CHOOSE i \in current : TRUE
                 resolved == ResolveRound(intake, evidence.round)
                 reasons == doubts \cup resolved.reasons
             IN  [status |-> IF reasons = {} THEN "MATCHED" ELSE "REVIEW", reasons |-> reasons,
                  intake |-> intake.id, round |-> resolved.round]
=============================================================================
