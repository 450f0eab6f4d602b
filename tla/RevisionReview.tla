---------------------------- MODULE RevisionReview ----------------------------
(***************************************************************************)
(* How a published date changes: parse jobs propose revisions of the dates *)
(* of one application window (pipeline/parse-processor.ts,                 *)
(* packages/database/src/canonical-revisions.ts), reviewers approve or     *)
(* reject them and an approval writes the window                           *)
(* (apps/web/app/api/admin/reviews/service.ts), while sources are checked  *)
(* again.  Proposals of one field serialise on its advisory lock; reviews  *)
(* take no lock and run READ COMMITTED, so every read of theirs is a step  *)
(* of its own, and their writes, which hold row locks until the commit,    *)
(* are one step.  The database's triggers guard the writes.                *)
(***************************************************************************)
EXTENDS Integers, FiniteSets

CONSTANTS
    Field,         \* the date fields of the window: opensAt, closesAt
    Date,          \* the instants a page may publish
    NoDate,        \* a date that is not published
    Source,        \* official sources of the window's programme
    NoSource,      \* a window without evidence
    Parser,        \* parse jobs that may run at the same time
    Reviewer,      \* reviews that may run at the same time
    MaxRevisions,  \* bound: revisions ever proposed
    MaxCheck       \* bound: the latest instant of a source check

ASSUME ReviewAssumption ==
    /\ NoDate \notin Date
    /\ NoSource \notin Source
    /\ MaxRevisions \in Nat
    /\ MaxCheck \in Nat \ {0}

VARIABLES
    window,     \* application_windows: the published dates and their evidence
    checkedAt,  \* sources.last_checked_at (0: never)
    revision,   \* data_revisions of the window, in the order of their creation
    parser,     \* the parse jobs
    review,     \* the reviews being decided
    decisions,  \* number of decisions so far: the order of reviewed_at
    publishedBy \* history: the revision whose approval wrote a date last (0: none)

published == <<window, decisions, publishedBy>>
vars == <<published, checkedAt, revision, parser, review>>

Revision == 1..MaxRevisions
Check == 0..MaxCheck

Window == [date : [Field -> Date \cup {NoDate}],
           publicStatus : {"NOT_PUBLISHED", "EXPECTED", "CONFIRMED"},
           lastVerifiedAt : Check, source : Source \cup {NoSource}]

\* reviewedAt is the place of its decision in the order of all decisions.
NotProposed == [changeStatus |-> "NONE"]
Proposed == [changeStatus : {"PENDING", "APPROVED", "REJECTED"}, field : Field,
             old : Date \cup {NoDate}, new : Date, source : Source,
             hasConflict : BOOLEAN, reviewedAt : Nat]

Idle == [pc |-> "idle"]
ParseJob ==
    [pc : {"loaded", "compared"}, field : Field, old : Date \cup {NoDate}, new : Date,
     source : Source, conflict : BOOLEAN]
Decision ==
    [pc : {"found", "counted", "ready"}, revision : Revision, approve : BOOLEAN,
     hasConflict : BOOLEAN, checkedAt : Check, write : BOOLEAN]

TypeOK ==
    /\ window \in Window
    /\ checkedAt \in [Source -> Check]
    /\ revision \in [Revision -> {NotProposed} \cup Proposed]
    /\ parser \in [Parser -> {Idle} \cup ParseJob]
    /\ review \in [Reviewer -> {Idle} \cup Decision]
    /\ decisions \in Nat
    /\ publishedBy \in [Field -> {0} \cup Revision]

\* The window is unpublished or holds verified dates, and all sources have
\* been checked once.
Init ==
    /\ \/ window = [date |-> [f \in Field |-> NoDate], publicStatus |-> "NOT_PUBLISHED",
                    lastVerifiedAt |-> 0, source |-> NoSource]
       \/ \E d \in Date, s \in Source, status \in {"EXPECTED", "CONFIRMED"} :
             window = [date |-> [f \in Field |-> d], publicStatus |-> status,
                       lastVerifiedAt |-> 1, source |-> s]
    /\ checkedAt = [s \in Source |-> 1]
    /\ revision = [r \in Revision |-> NotProposed]
    /\ parser = [p \in Parser |-> Idle]
    /\ review = [v \in Reviewer |-> Idle]
    /\ decisions = 0
    /\ publishedBy = [f \in Field |-> 0]

Pending(f) == {r \in Revision : revision[r].changeStatus = "PENDING" /\ revision[r].field = f}

-----------------------------------------------------------------------------
(* Proposals.                                                               *)
(*                                                                         *)
(* A definition that directly precedes another of the same parameters, and *)
(* that nothing uses, is a broken variant of it: substituting it shows     *)
(* that the properties notice.                                             *)

\* The snapshot is loaded with the window's current dates; a proposal that
\* repeats the current value is dropped.
LoadSnapshot(p) ==
    /\ parser[p].pc = "idle"
    /\ \E s \in Source, f \in Field, d \in Date :
          /\ window.date[f] # d
          /\ parser' = [parser EXCEPT ![p] =
                [pc |-> "loaded", field |-> f, old |-> window.date[f], new |-> d,
                 source |-> s, conflict |-> FALSE]]
    /\ UNCHANGED <<published, checkedAt, revision, review>>

LockIgnored(f) == TRUE
LockFree(f) == \A p \in Parser : parser[p].pc = "compared" => parser[p].field # f

\* Under the lock of the field: a pending revision of the same value stands for
\* this one.
ComparePending(p) ==
    /\ parser[p].pc = "loaded"
    /\ LockFree(parser[p].field)
    /\ LET pending == Pending(parser[p].field)
       IN  parser' = [parser EXCEPT ![p] =
              IF \E r \in pending : revision[r].new = parser[p].new THEN Idle
              ELSE [@ EXCEPT !.pc = "compared", !.conflict = pending # {}]]
    /\ UNCHANGED <<published, checkedAt, revision, review>>

\* The id the next revision gets.
Unused(r) == \A q \in Revision : revision[q].changeStatus = "NONE" <=> q >= r

FlagNobody(r, f, conflict) == FALSE
Flag(r, f, conflict) == conflict /\ r \in Pending(f)

CreateRevision(p) ==
    /\ parser[p].pc = "compared"
    /\ \E new \in Revision :
          /\ Unused(new)
          /\ revision' = [r \in Revision |->
                IF r = new
                THEN [changeStatus |-> "PENDING", field |-> parser[p].field, old |-> parser[p].old,
                      new |-> parser[p].new, source |-> parser[p].source,
                      hasConflict |-> parser[p].conflict, reviewedAt |-> 0]
                ELSE IF Flag(r, parser[p].field, parser[p].conflict)
                THEN [revision[r] EXCEPT !.hasConflict = TRUE]
                ELSE revision[r]]
    /\ parser' = [parser EXCEPT ![p] = Idle]
    /\ UNCHANGED <<published, checkedAt, review>>

ParseError(p) ==
    /\ parser[p].pc # "idle"
    /\ parser' = [parser EXCEPT ![p] = Idle]
    /\ UNCHANGED <<published, checkedAt, revision, review>>

-----------------------------------------------------------------------------
(* Reviews.                                                                 *)

Reviewable(r) == revision[r].changeStatus = "PENDING"

FindRevision(v) ==
    /\ review[v].pc = "idle"
    /\ \E r \in Revision, approve \in BOOLEAN :
          /\ Reviewable(r)
          /\ review' = [review EXCEPT ![v] =
                [pc |-> "found", revision |-> r, approve |-> approve,
                 hasConflict |-> revision[r].hasConflict,
                 checkedAt |-> checkedAt[revision[r].source], write |-> FALSE]]
    /\ UNCHANGED <<published, checkedAt, revision, parser>>

\* AdminReviewConflictError: reject the competing pending values first.
CountNobody(v) ==
    /\ review[v].pc = "found"
    /\ review[v].approve
    /\ review' = [review EXCEPT ![v].pc = "counted"]
    /\ UNCHANGED <<published, checkedAt, revision, parser>>
CountCompetitors(v) ==
    /\ review[v].pc = "found"
    /\ review[v].approve
    /\ LET r == review[v].revision
       IN  review' = [review EXCEPT ![v] =
              IF review[v].hasConflict /\ Pending(revision[r].field) \ {r} # {} THEN Idle
              ELSE [@ EXCEPT !.pc = "counted"]]
    /\ UNCHANGED <<published, checkedAt, revision, parser>>

\* The application's own check, on the dates it has read.
EvidenceIsNewer(v) == review[v].checkedAt # 0 /\ review[v].checkedAt > window.lastVerifiedAt

\* The window already says what the revision proposes: nothing to write.
InForce(v) ==
    /\ window.date[revision[review[v].revision].field] = revision[review[v].revision].new
    /\ window.publicStatus = "CONFIRMED"

\* applyApplicationWindowDate up to its write, with AdminReviewApplyError.
ReadWindow(v) ==
    /\ review[v].pc = "counted"
    /\ review' = [review EXCEPT ![v] =
              IF InForce(v) THEN [@ EXCEPT !.pc = "ready"]
              ELSE IF EvidenceIsNewer(v) THEN [@ EXCEPT !.pc = "ready", !.write = TRUE]
              ELSE Idle]
    /\ UNCHANGED <<published, checkedAt, revision, parser>>

Applied(v) ==
    LET rev == revision[review[v].revision]
    IN  IF review[v].write
        THEN [date |-> [window.date EXCEPT ![rev.field] = rev.new], publicStatus |-> "CONFIRMED",
              lastVerifiedAt |-> review[v].checkedAt, source |-> rev.source]
        ELSE window

\* The trigger enforce_application_window_evidence, on the row as committed.
TriggerAllows(new) ==
    new # window => /\ new.lastVerifiedAt <= checkedAt[new.source]
                    /\ new.lastVerifiedAt > window.lastVerifiedAt

CommitDecision(v) ==
    /\ \/ review[v].pc = "ready" /\ review[v].approve
       \/ review[v].pc = "found" /\ ~review[v].approve
    /\ TriggerAllows(Applied(v))
    /\ window' = Applied(v)
    /\ revision' = [revision EXCEPT ![review[v].revision] =
          [@ EXCEPT !.changeStatus = IF review[v].approve THEN "APPROVED" ELSE "REJECTED",
                    !.hasConflict = ~review[v].approve /\ review[v].hasConflict,
                    !.reviewedAt = decisions + 1]]
    /\ decisions' = decisions + 1
    /\ publishedBy' = IF review[v].write
          THEN [publishedBy EXCEPT ![revision[review[v].revision].field] = review[v].revision]
          ELSE publishedBy
    /\ review' = [review EXCEPT ![v] = Idle]
    /\ UNCHANGED <<checkedAt, parser>>

\* An error, among them the trigger's exception, rolls the review back.
ReviewError(v) ==
    /\ review[v].pc # "idle"
    /\ review' = [review EXCEPT ![v] = Idle]
    /\ UNCHANGED <<published, checkedAt, revision, parser>>

\* A fetch records its check; overlapping fetches may write an older instant.
RecordSourceCheck(s) ==
    /\ \E t \in 1..MaxCheck : checkedAt' = [checkedAt EXCEPT ![s] = t]
    /\ UNCHANGED <<published, revision, parser, review>>

-----------------------------------------------------------------------------
ParserStep(p) == LoadSnapshot(p) \/ ComparePending(p) \/ CreateRevision(p) \/ ParseError(p)

ReviewStep(v) ==
    \/ FindRevision(v) \/ CountCompetitors(v) \/ ReadWindow(v)
    \/ CommitDecision(v) \/ ReviewError(v)

Next ==
    \/ \E p \in Parser : ParserStep(p)
    \/ \E v \in Reviewer : ReviewStep(v)
    \/ \E s \in Source : RecordSourceCheck(s)

Spec == Init /\ [][Next]_vars

-----------------------------------------------------------------------------
(* Properties.                                                              *)

\* Competing proposals are never unmarked, and never duplicates: two pending
\* revisions of one field propose different values and both say so, whatever
\* parse jobs and reviews ran at the same time.
CompetitorsFlagged ==
    \A f \in Field : \A q, r \in Pending(f) :
        q # r => revision[q].hasConflict /\ revision[q].new # revision[r].new

\* What a parse job has compared still holds when it inserts: it alone adds
\* pending revisions of the field while it holds the lock.
ComparedIsCurrent ==
    /\ \A p, q \in Parser :
          /\ parser[p].pc = "compared"
          /\ parser[q].pc = "compared"
          /\ parser[p].field = parser[q].field
          => p = q
    /\ \A p \in Parser : parser[p].pc = "compared" =>
          \A r \in Pending(parser[p].field) :
             parser[p].conflict /\ revision[r].new # parser[p].new

\* Revisions never disappear under a review.
ReviewedExists ==
    \A v \in Reviewer : review[v].pc # "idle" =>
        revision[review[v].revision].changeStatus # "NONE"

\* The inductive invariant behind CompetitorsFlagged.
ReviewInv == TypeOK /\ ComparedIsCurrent /\ ReviewedExists /\ CompetitorsFlagged

\* A published date comes from a revision that stands approved.
PublishedIsApproved ==
    \A f \in Field : publishedBy[f] # 0 => revision[publishedBy[f]].changeStatus = "APPROVED"

\* The latest approved revision of a field is what the window publishes: on any
\* other the followers of the window are told nothing.
LatestApproved(f) ==
    {r \in Revision :
        /\ revision[r].changeStatus = "APPROVED"
        /\ revision[r].field = f
        /\ \A q \in Revision :
              (revision[q].changeStatus = "APPROVED" /\ revision[q].field = f)
              => revision[q].reviewedAt <= revision[r].reviewedAt}
ApprovedIsPublished ==
    \A f \in Field : \A r \in LatestApproved(f) : window.date[f] = revision[r].new

\* A second decision of a revision overwrites the first, whose place in the order of
\* all decisions no revision then has.
EachDecidedOnce ==
    \A n \in 1..decisions : \E r \in Revision :
        revision[r].changeStatus # "NONE" /\ revision[r].reviewedAt = n

\* An approval is "refused instead of silently approving without publishing"
\* (service.ts): it rests on the mark of a conflict, a count of competitors and a window
\* that it read one after the other, and it leaves the window alone if that says the
\* date already; still, what was approved last is what is published and what is
\* published stands approved, as long as no two reviews decide one revision.
ReviewsPublish == EachDecidedOnce => PublishedIsApproved /\ ApprovedIsPublished
=============================================================================
