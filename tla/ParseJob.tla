------------------------------ MODULE ParseJob ------------------------------
(***************************************************************************)
(* What becomes of the dates of a stored page: a parse job reads them,      *)
(* matches them onto the programme's intakes and proposes revisions of the  *)
(* application windows; if that proposes nothing a language model may point *)
(* at dates the reader left out (apps/worker/src/pipeline/                  *)
(* parse-processor.ts, llm-extraction.ts).  One programme and one page,     *)
(* parsed on several days; RevisionReview has the concurrent proposals and  *)
(* reviews of one field.                                                    *)
(***************************************************************************)
EXTENDS DateReading, IntakeMatching

CONSTANTS
    Page,         \* the texts a page may have
    Catalogue,    \* the sets of intakes a programme may have
    Day,          \* the dates on which a job may run, <<year, month, day>>
    Hint,         \* intakes a model may name
    RoundName,    \* round names a model may give
    Attempts,     \* VERIFICATION_ATTEMPTS
    MaxFailures   \* bound: calls that fail

\* Days are dates of the calendar, texts sequences of words; intakes and windows have
\* ids of their own.
ParseAssumption ==
    /\ \A d \in Day : d # InvalidDate /\ DateOf(d[1], d[2], d[3]) = d
    /\ \A t \in Page : t \in Seq({t[i] : i \in DOMAIN t})
    /\ \A c \in Catalogue :
          /\ IsFiniteSet(c)
          /\ \A i \in c : i.year \in Nat /\ i.month \in 0..12 /\ IsFiniteSet(i.rounds)
          /\ \A i, j \in c : i.id = j.id => i = j
          /\ \A i, j \in c : \A v \in i.rounds, w \in j.rounds : v.id = w.id => v = w
    /\ Attempts \in Nat \ {0}
    /\ MaxFailures \in Nat

VARIABLES
    page, intakes,   \* the page and the catalogue, which do not change here
    country,         \* how the university's country orders numeric dates
    today,           \* the UTC day
    window,          \* the dates the windows publish
    revision,        \* pending data_revisions
    reviewJob,       \* revisions whose review job was enqueued
    job,             \* the parse job
    failures,        \* calls that failed
    proposed,        \* history: the last proposal
    bound,           \* history: the dates of the last pass that bound without a hint
    swallowed        \* history: revisions whose review job is lost for good

given == <<page, intakes, country>>
history == <<proposed, bound, swallowed>>
vars == <<given, today, window, revision, reviewJob, job, failures, history>>

WindowField == {"opensAt", "closesAt"}
Window == UNION {i.rounds : i \in intakes}
WindowId == {w.id : w \in Window}
NotPublished == [date |-> InvalidDate, at |-> "never"]
Idle == [pc |-> "idle"]

IsRevision(r) ==
    /\ r = [window |-> r.window, field |-> r.field, value |-> r.value]
    /\ r.window \in WindowId /\ r.field \in WindowField /\ r.value.at \in {"noon", "time"}

\* A pass has proposals to make, and the one whose review job it enqueues next.
IsPass(j) ==
    /\ j.pc \in {"propose", "enqueue", "ask"}
    /\ j = [pc |-> j.pc, pass |-> j.pass, attempts |-> j.attempts, loaded |-> j.loaded,
            made |-> j.made, todo |-> j.todo, next |-> j.next]
    /\ j.pass \in {"parser", "model"} /\ j.attempts \in Nat

TypeOK ==
    /\ page \in Page /\ intakes \in Catalogue /\ country \in {"DMY", "MDY"} /\ today \in Day
    /\ window = [w \in WindowId |-> [f \in WindowField |-> window[w][f]]]
    /\ \A w \in WindowId, f \in WindowField : window[w][f].at \in {"never", "noon", "time"}
    /\ \A r \in revision : IsRevision(r)
    /\ \/ job = Idle \/ job = [pc |-> "failed"]
       \/ job.pc = "done" /\ job = [pc |-> "done", made |-> job.made]
       \/ job.pc = "load" /\ job = [pc |-> "load", attempts |-> job.attempts] /\ job.attempts \in Nat
       \/ IsPass(job)
    /\ failures \in 0..MaxFailures

Init ==
    /\ page \in Page
    /\ intakes \in Catalogue
    /\ country \in {"DMY", "MDY"}
    /\ today \in Day
    /\ window = [w \in WindowId |-> [f \in WindowField |-> NotPublished]]
    /\ revision = {}
    /\ reviewJob = {}
    /\ job = Idle
    /\ failures = 0
    /\ proposed = {}
    /\ bound = {}
    /\ swallowed = {}

-----------------------------------------------------------------------------
(* From candidates to proposals.                                            *)

Options(day) == [order |-> country, today |-> day]

\* candidateInstant: a day is published as noon UTC, a time only if it is UTC.
Instant(c) ==
    CASE c.date = InvalidDate -> NotPublished
      [] c.precision = "DATE" -> [date |-> c.date, at |-> "noon"]
      [] c.precision = "DATE_TIME" /\ c.zone = "UTC" -> [date |-> c.date, at |-> "time"]
      [] OTHER -> NotPublished

\* The reader's own evidence.
Relevant(c) == c.kind \in {"APPLICATION_DEADLINE", "APPLICATION_OPEN"}
ParserEvidence(day) ==
    LET Evidence(c) == [from |-> c.from, cut |-> FALSE, kind |-> c.kind, date |-> c.date,
                        instant |-> Instant(c), automaticPublication |-> c.reasons = {},
                        hint |-> NoHint, round |-> NoName]
    IN  {Evidence(c) : c \in {x \in Candidates(page, Options(day)) : Relevant(x)}}

\* A model quotes words of the page and claims what they state.  The quote is
\* looked up as a substring, so that it may begin within a number.
Claim == [kind : {"APPLICATION_DEADLINE", "APPLICATION_OPEN"},
          hint : Hint \cup {NoHint}, round : RoundName \cup {NoName}]
Quotation ==
    {q \in [from : DOMAIN page, to : DOMAIN page, cut : BOOLEAN] :
        /\ q.from <= q.to
        /\ q.cut => page[q.from].is = "number" /\ page[q.from].number % 10 # 0
                    /\ page[q.from].number > 10}
Quote(q) ==
    LET words == SubSeq(page, q.from, q.to)
    IN  IF q.cut THEN [words EXCEPT ![1].number = @ % 10, ![1].width = @ - 1] ELSE words

\* verifiedLlmEvidence: the quote alone must read as exactly one exact date, without
\* doubts other than a missing label, and not as the opposite of the claim.
ExactAnyReason(c) == c.date # InvalidDate /\ c.precision \in {"DATE", "DATE_TIME"}
Exact(c) ==
    /\ c.date # InvalidDate
    /\ c.precision \in {"DATE", "DATE_TIME"}
    /\ c.reasons \subseteq {"MISSING_CONTEXT"}
ExactDates(words, day) == {c \in Candidates(words, Options(day)) : Exact(c)}
ModelEvidence(claim, q, exact) ==
    LET Evidence(c) == [from |-> q.from + c.from - 1, cut |-> q.cut /\ c.from = 1,
                        kind |-> claim.kind, date |-> c.date, instant |-> Instant(c),
                        automaticPublication |-> TRUE, hint |-> claim.hint, round |-> claim.round]
    IN  IF Cardinality(exact) # 1 THEN {}
        ELSE {Evidence(c) : c \in {x \in exact : x.kind \in {claim.kind, "UNKNOWN"}}}

\* proposeFromMatches: a match without a round goes to the intake's only window.
Target(match) ==
    LET rounds == (CHOOSE i \in intakes : i.id = match.intake).rounds
    IN  IF match.round # NoRound THEN {w \in rounds : w.id = match.round}
        ELSE IF Cardinality(rounds) = 1 THEN rounds ELSE {}
Proposals(evidence, day, published) ==
    LET FieldOf(e) == IF e.kind = "APPLICATION_DEADLINE" THEN "closesAt" ELSE "opensAt"
        matched == {e \in evidence : Match(e, intakes, day).status = "MATCHED"}
        all == {[evidence |-> e, window |-> w, field |-> FieldOf(e), value |-> e.instant] :
                   e \in matched, w \in Window}
    IN  {p \in all : /\ p.value # NotPublished
                     /\ p.window \in Target(Match(p.evidence, intakes, day))
                     /\ published[p.window.id][p.field] # p.value}
\* What matched without a hint, for the history.
Bindings(evidence, day) ==
    {[date |-> e.date, intake |-> Match(e, intakes, day).intake] :
        e \in {x \in evidence : x.hint = NoHint /\ Match(x, intakes, day).status = "MATCHED"}}

-----------------------------------------------------------------------------
(* The job.  A definition that directly precedes another of the same        *)
(* parameters, and that nothing uses, is a broken variant of it:            *)
(* substituting it shows that the properties notice.                        *)

NotBefore(d, e) ==
    \/ d[1] > e[1]
    \/ d[1] = e[1] /\ (d[2] > e[2] \/ (d[2] = e[2] /\ d[3] >= e[3]))

\* The page is parsed for the first time, or again because it changed elsewhere.
Enqueue(day) ==
    /\ job.pc \in {"idle", "done", "failed"}
    /\ NotBefore(day, today)
    /\ job.pc = "idle" \/ day # today
    /\ today' = day
    /\ job' = [pc |-> "load", attempts |-> 0]
    /\ UNCHANGED <<given, window, revision, reviewJob, failures, history>>

\* The snapshot's row, its body and the reader.
Load ==
    /\ job.pc = "load"
    /\ IF intakes = {} THEN job' = [pc |-> "done", made |-> {}] /\ UNCHANGED bound
       ELSE \E evidence \in {ParserEvidence(today)} :
              /\ job' = [pc |-> "propose", pass |-> "parser", attempts |-> job.attempts,
                         loaded |-> window, made |-> {}, next |-> {},
                         todo |-> Proposals(evidence, today, window)]
              /\ bound' = Bindings(evidence, today)
    /\ UNCHANGED <<given, today, window, revision, reviewJob, failures, proposed, swallowed>>

Row(p) == [window |-> p.window.id, field |-> p.field, value |-> p.value]

\* In the order of the page.  createRevision finds the same pending proposal, or adds
\* one (RevisionReview).
Propose ==
    /\ job.pc = "propose"
    /\ \E p \in job.todo :
          /\ \A q \in job.todo : p.evidence.from <= q.evidence.from
          /\ revision' = revision \cup {Row(p)}
          /\ proposed' = {p}
          /\ job' = [job EXCEPT !.pc = "enqueue", !.todo = @ \ {p}, !.next = {Row(p)}]
    /\ UNCHANGED <<given, today, window, reviewJob, failures, bound, swallowed>>

EnqueueReviewOnlyNew ==
    /\ job.pc = "enqueue"
    /\ job' = [job EXCEPT !.pc = "propose", !.made = @ \cup job.next, !.next = {}]
    /\ reviewJob' = IF job.attempts = 0 THEN reviewJob \cup job.next ELSE reviewJob
    /\ UNCHANGED <<given, today, window, revision, failures, history>>
EnqueueReview ==
    /\ job.pc = "enqueue"
    /\ job' = [job EXCEPT !.pc = "propose", !.made = @ \cup job.next, !.next = {}]
    /\ reviewJob' = reviewJob \cup job.next
    /\ UNCHANGED <<given, today, window, revision, failures, history>>

\* The model is asked only when the reader's pass proposed nothing; without a
\* model, or after its pass, the job is done.
EndPass ==
    /\ job.pc = "propose"
    /\ job.todo = {}
    /\ \/ job' = [pc |-> "done", made |-> job.made]
       \/ /\ job.pass = "parser" /\ job.made = {}
          /\ job' = [job EXCEPT !.pc = "ask", !.pass = "model"]
    /\ UNCHANGED <<given, today, window, revision, reviewJob, failures, history>>

\* Bound: one claim.  Claims without evidence leave nothing to do.
Ask ==
    /\ job.pc = "ask"
    /\ \E q \in Quotation : \E words \in {Quote(q)} : \E exact \in {ExactDates(words, today)} :
       \E claim \in Claim : \E evidence \in {ModelEvidence(claim, q, exact)} :
          /\ evidence # {}
          /\ job' = [job EXCEPT !.pc = "propose",
                                !.todo = Proposals(evidence, today, job.loaded)]
          /\ bound' = Bindings(evidence, today)
    /\ UNCHANGED <<given, today, window, revision, reviewJob, failures, proposed, swallowed>>

\* A failed call ends the attempt, which is retried; during the model's pass it
\* is swallowed, and the job is done.
Fail ==
    /\ job.pc \in {"load", "propose", "enqueue", "ask"}
    /\ failures < MaxFailures
    /\ failures' = failures + 1
    /\ LET inModelPass == job.pc # "load" /\ job.pass = "model"
           retried == ~inModelPass /\ job.attempts + 1 < Attempts
       IN  /\ job' = IF inModelPass THEN [pc |-> "done", made |-> job.made]
                     ELSE IF retried THEN [pc |-> "load", attempts |-> job.attempts + 1]
                     ELSE [pc |-> "failed"]
           /\ swallowed' = swallowed \cup
                 {r \in revision \ reviewJob : ~retried \/ window[r.window][r.field] = r.value}
    /\ UNCHANGED <<given, today, window, revision, reviewJob, proposed, bound>>

\* A reviewer decides (RevisionReview).
Decide(r) ==
    /\ r \in revision
    /\ revision' = revision \ {r}
    /\ reviewJob' = reviewJob \ {r}
    /\ swallowed' = swallowed \ {r}
    /\ window' = [window EXCEPT ![r.window][r.field] = r.value] \/ UNCHANGED window
    /\ UNCHANGED <<given, today, job, failures, proposed, bound>>

Next ==
    \/ \E day \in Day : Enqueue(day)
    \/ Load \/ Propose \/ EnqueueReview \/ EndPass \/ Ask \/ Fail
    \/ \E r \in revision : Decide(r)

Spec == Init /\ [][Next]_vars

-----------------------------------------------------------------------------
(* Properties.                                                              *)

\* An exact date that the page states, read as a whole.
Stated(date) ==
    \E m \in RawDates(page) : m.pattern \in 1..4 /\ LocalDate(page, m, Options(today)) = date

\* "The model locates and disambiguates; it never computes or invents a date":
\* what is proposed stands on the page as an exact date, unless the model's quote
\* began within a number; and the window is the one the evidence names, or the
\* intake's only one.
ProposalsAreGrounded ==
    \A p \in proposed :
        /\ Stated(p.value.date) \/ p.evidence.cut
        /\ \E i \in intakes :
              /\ p.window \in i.rounds
              /\ i.rounds = {p.window} \/ p.window.name = p.evidence.round
              /\ p.evidence.hint # NoHint => MatchesHint(i, p.evidence.hint)

\* The day on which a page happens to be parsed never decides which intake a date
\* is for: a date that binds without a hint could be for no other intake, not even
\* for one that is over by now.
BindingIsTimeless ==
    \A b \in bound : {i.id : i \in {j \in intakes : IsChronologicallyEligible(j, b.date)}} = {b.intake}

\* Through failed calls and retries, no proposal waits without its review job,
\* except those left when the last attempt fails, when the model's pass swallows
\* the error, and those a reviewer published in the meantime, which a retry no
\* longer proposes.
ReviewsFollow ==
    job.pc \in {"idle", "done", "failed"} => revision \subseteq reviewJob \cup swallowed

\* Until then every one of them is still ahead of the job: of its pass, or of the
\* retry, which reads the page again on the same day and finds it unpublished.
Rows(proposals) == {Row(p) : p \in proposals}
WaitingIsAhead ==
    LET waiting == revision \ (reviewJob \cup swallowed)
    IN  /\ job.pc = "load" => waiting \subseteq Rows(Proposals(ParserEvidence(today), today, window))
        /\ job.pc \in {"propose", "enqueue"} => waiting \subseteq Rows(job.todo) \cup job.next
        /\ job.pc = "ask" => waiting = {}

ParseInv == TypeOK /\ ReviewsFollow /\ WaitingIsAhead
=============================================================================
