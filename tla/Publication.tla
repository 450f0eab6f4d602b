------------------------------ MODULE Publication ------------------------------
(***************************************************************************)
(* How a contribution becomes a catalogue record: a student submits a      *)
(* university or a programme, reviewers decide about it and about the      *)
(* duplicates it may have, and an administrator publishes it under the     *)
(* submission's advisory lock (packages/database/src/                      *)
(* publish-submissions.ts, program-submissions.ts,                         *)
(* university-submissions.ts, submission-reviews.ts,                       *)
(* duplicate-detection.ts; apps/web's review service).  Transactions run   *)
(* READ COMMITTED: every statement of a publication is a step, and what it *)
(* wrote shows when it commits.                                            *)
(***************************************************************************)
EXTENDS Integers, FiniteSets

CONSTANTS
    Submission,
    Name,        \* unique keys: university and country, or programme, degree and university
    Mark,        \* what else makes records alike: a similar name, a domain, a URL
    Domain,      \* domains of programmes
    NoDomain,    \* a university has none
    Publisher,   \* publication requests the server handles at a time
    Reviewer     \* review requests it handles at a time

ASSUME PublicationAssumption == NoDomain \notin Domain

VARIABLES
    content,      \* what each submission proposes
    submission,   \* its status
    revision,     \* its reviews: of the submission itself, and of its duplicates
    record,       \* the submissions that have a catalogue record, and its publishedEntity revision
    domains,      \* rows of the domains table
    publisher,    \* publications in progress
    reviewer,     \* reviews in progress
    approved,     \* history: submissions a review has approved
    missed        \* history: records that appeared while a submission was published

contribution == <<content, submission, revision>>
catalogue == <<record, domains, missed>>
vars == <<contribution, catalogue, publisher, reviewer, approved>>

Content == [name : Name, mark : Mark, domain : Domain \cup {NoDomain}]
NotSubmitted == [name |-> NoDomain]
Idle == [pc |-> "idle"]
Publishing ==
    [pc : {"lock", "find", "prior", "review", "pending", "duplicates", "duplicate",
           "domain", "create", "commit"},
     submission : Submission, seen : SUBSET Submission]
Field == {"submissionReview", "duplicate_candidates"}
Reviewing == [pc : {"decide"}, submission : Submission, field : Field,
              decision : {"APPROVED", "REJECTED"}]

TypeOK ==
    /\ content \in [Submission -> Content \cup {NotSubmitted}]
    /\ submission \in [Submission -> {"NONE", "PENDING", "APPROVED", "REJECTED", "DUPLICATE"}]
    /\ revision \in [Submission -> [Field -> {"NONE", "PENDING", "APPROVED", "REJECTED"}]]
    /\ record \subseteq Submission
    /\ domains \subseteq Domain
    /\ publisher \in [Publisher -> {Idle} \cup Publishing]
    /\ reviewer \in [Reviewer -> {Idle} \cup Reviewing]
    /\ approved \subseteq Submission
    /\ missed \in [Submission -> SUBSET Submission]

Init ==
    /\ content = [s \in Submission |-> NotSubmitted]
    /\ submission = [s \in Submission |-> "NONE"]
    /\ revision = [s \in Submission |-> [f \in Field |-> "NONE"]]
    /\ record = {}
    /\ domains = {}
    /\ publisher = [p \in Publisher |-> Idle]
    /\ reviewer = [v \in Reviewer |-> Idle]
    /\ approved = {}
    /\ missed = [s \in Submission |-> {}]

\* detectUniversityDuplicateCandidates and detectProgramDuplicateCandidates: a
\* university never resembles a programme.
Alike(c, d) ==
    /\ c.domain = NoDomain <=> d.domain = NoDomain
    /\ c.name = d.name \/ c.mark = d.mark

-----------------------------------------------------------------------------
(* A definition that directly precedes another of the same parameters, and *)
(* that nothing uses, is a broken variant of it: substituting it shows     *)
(* that the properties notice.                                             *)

CandidatesByName(c) == {t \in record : content[t].name = c.name}
Candidates(c) == {t \in record : Alike(c, content[t])}

\* createPendingUniversitySubmission, createPendingProgramSubmission.
CreateSubmission(s, c) ==
    /\ submission[s] = "NONE"
    /\ content' = [content EXCEPT ![s] = c]
    /\ submission' = [submission EXCEPT ![s] = "PENDING"]
    /\ revision' = [revision EXCEPT ![s] =
          [f \in Field |-> IF f = "duplicate_candidates" /\ Candidates(c) = {} THEN "NONE"
                          ELSE "PENDING"]]
    /\ UNCHANGED <<catalogue, publisher, reviewer, approved>>

\* decideAdminReviewWith: finds the pending revision, then decides it by its id,
\* and with it the submission.
FindRevision(v, s, f) ==
    /\ reviewer[v] = Idle
    /\ revision[s][f] = "PENDING"
    /\ \E decision \in {"APPROVED", "REJECTED"} :
          reviewer' = [reviewer EXCEPT ![v] =
             [pc |-> "decide", submission |-> s, field |-> f, decision |-> decision]]
    /\ UNCHANGED <<contribution, catalogue, publisher, approved>>

Decide(v) ==
    /\ reviewer[v] # Idle
    /\ LET s == reviewer[v].submission
           f == reviewer[v].field
           d == reviewer[v].decision
       IN  /\ revision' = [revision EXCEPT ![s][f] = d]
           /\ IF f = "submissionReview"
              THEN /\ submission' = [submission EXCEPT ![s] = d]
                   /\ approved' = IF d = "APPROVED" THEN approved \cup {s} ELSE approved
              ELSE UNCHANGED <<submission, approved>>
    /\ reviewer' = [reviewer EXCEPT ![v] = Idle]
    /\ UNCHANGED <<content, catalogue, publisher>>

-----------------------------------------------------------------------------
(* publishApprovedUniversitySubmission, publishApprovedProgramSubmission.   *)

Goto(p, pc) == publisher' = [publisher EXCEPT ![p].pc = pc]
Finish(p) == publisher' = [publisher EXCEPT ![p] = Idle]

\* Tests a condition; where it fails the request ends.
Check(p, pc, condition, next) ==
    /\ publisher[p].pc = pc
    /\ IF condition THEN Goto(p, next) ELSE Finish(p)
    /\ UNCHANGED <<contribution, catalogue, reviewer, approved>>

Request(p, s) ==
    /\ publisher[p] = Idle
    /\ publisher' = [publisher EXCEPT ![p] = [pc |-> "lock", submission |-> s, seen |-> {}]]
    /\ UNCHANGED <<contribution, catalogue, reviewer, approved>>

InTransaction(p) == publisher[p].pc \notin {"idle", "lock"}

LockFreeIgnored(s) == TRUE
LockFree(s) == \A p \in Publisher : InTransaction(p) => publisher[p].submission # s

\* pg_advisory_xact_lock, held until the transaction ends.
Lock(p) ==
    /\ publisher[p].pc = "lock"
    /\ LockFree(publisher[p].submission)
    /\ Goto(p, "find")
    /\ UNCHANGED <<contribution, catalogue, reviewer, approved>>

FindApproved(p) == Check(p, "find", submission[publisher[p].submission] = "APPROVED", "prior")

PriorPublication(p) == Check(p, "prior", publisher[p].submission \notin record, "review")

\* requireApprovedReview: an approved review, and no review pending.
FindReview(p) ==
    Check(p, "review", revision[publisher[p].submission]["submissionReview"] = "APPROVED", "pending")

CountPending(p) ==
    Check(p, "pending", \A f \in Field : revision[publisher[p].submission][f] # "PENDING",
          "duplicates")

FindUndecidedDuplicates(p) ==
    /\ publisher[p].pc = "duplicates"
    /\ LET s == publisher[p].submission
           c == content[s]
       IN  publisher' = [publisher EXCEPT
              ![p].seen = record,
              ![p].pc = IF Candidates(c) # {} /\ revision[s]["duplicate_candidates"] # "REJECTED"
                        THEN "duplicate"
                        ELSE IF c.domain = NoDomain THEN "create" ELSE "domain"]
    /\ UNCHANGED <<contribution, catalogue, reviewer, approved>>
\* The search is repeated, whatever the review of the duplicates has decided.
FindDuplicates(p) ==
    /\ publisher[p].pc = "duplicates"
    /\ LET c == content[publisher[p].submission]
       IN  publisher' = [publisher EXCEPT
              ![p].seen = record,
              ![p].pc = IF Candidates(c) # {} THEN "duplicate"
                        ELSE IF c.domain = NoDomain THEN "create" ELSE "domain"]
    /\ UNCHANGED <<contribution, catalogue, reviewer, approved>>

MarkDuplicate(p) ==
    /\ publisher[p].pc = "duplicate"
    /\ submission' = [submission EXCEPT ![publisher[p].submission] = "DUPLICATE"]
    /\ Finish(p)
    /\ UNCHANGED <<content, revision, catalogue, reviewer, approved>>

\* A key another transaction has inserted is waited for until that one ends.
Inserted(q, pcs) == publisher[q].pc \in pcs

\* An upsert with nothing to update leaves an existing domain alone.
UpsertDomain(p) ==
    /\ publisher[p].pc = "domain"
    /\ LET d == content[publisher[p].submission].domain
       IN  d \in domains \/ \A q \in Publisher : Inserted(q, {"create", "commit"}) =>
              content[publisher[q].submission].domain # d
    /\ Goto(p, "create")
    /\ UNCHANGED <<contribution, catalogue, reviewer, approved>>

SameKey(s, t) ==
    /\ content[s].domain = NoDomain <=> content[t].domain = NoDomain
    /\ content[s].name = content[t].name

\* A record of that key refuses the insertion, and the request fails.
CreateRecord(p) ==
    /\ publisher[p].pc = "create"
    /\ LET s == publisher[p].submission
       IN  /\ \A q \in Publisher : Inserted(q, {"commit"}) => ~SameKey(publisher[q].submission, s)
           /\ Check(p, "create", \A t \in record : ~SameKey(s, t), "commit")

\* The source and the audit row are written with the record.
RecordPublication(p) ==
    /\ publisher[p].pc = "commit"
    /\ LET s == publisher[p].submission
       IN  /\ record' = record \cup {s}
           /\ domains' = domains \cup ({content[s].domain} \ {NoDomain})
           /\ missed' = [missed EXCEPT ![s] = record \ publisher[p].seen]
    /\ Finish(p)
    /\ UNCHANGED <<contribution, reviewer, approved>>

\* The connection, a transaction timeout or the process fails: nothing is kept.
AbortPublication(p) ==
    /\ publisher[p] # Idle
    /\ Finish(p)
    /\ UNCHANGED <<contribution, catalogue, reviewer, approved>>
AbortReview(v) ==
    /\ reviewer[v] # Idle
    /\ reviewer' = [reviewer EXCEPT ![v] = Idle]
    /\ UNCHANGED <<contribution, catalogue, publisher, approved>>

-----------------------------------------------------------------------------
PublicationStep(p) ==
    \/ Lock(p) \/ FindApproved(p) \/ PriorPublication(p) \/ FindReview(p) \/ CountPending(p)
    \/ FindDuplicates(p) \/ MarkDuplicate(p) \/ UpsertDomain(p) \/ CreateRecord(p)
    \/ RecordPublication(p)

Next ==
    \/ \E s \in Submission, c \in Content : CreateSubmission(s, c)
    \/ \E v \in Reviewer, s \in Submission, f \in Field : FindRevision(v, s, f)
    \/ \E v \in Reviewer : Decide(v) \/ AbortReview(v)
    \/ \E p \in Publisher, s \in Submission : Request(p, s)
    \/ \E p \in Publisher : PublicationStep(p) \/ AbortPublication(p)

Spec == Init /\ [][Next]_vars

-----------------------------------------------------------------------------
(* Properties.                                                              *)

\* A submission is called a duplicate only while it has no record of its own:
\* without the lock a second publication would find the first one's record.
DuplicateIsUnpublished == \A s \in Submission : submission[s] = "DUPLICATE" => s \notin record

\* A submission that resembled a record when it was sent is never published,
\* however the review of its duplicates is decided.
DoubtedIsUnpublished ==
    \A s \in record : revision[s]["duplicate_candidates"] = "NONE"

\* Two records resemble each other only if neither publication could see the
\* other: the locks are per submission, so publications of twins may overlap.
TwinsOverlapped ==
    \A s, t \in record : s # t /\ Alike(content[s], content[t]) => s \in missed[t] \/ t \in missed[s]

\* What is published was approved, and all its reviews had been decided by then.
PublishedWasReviewed ==
    \A s \in record : s \in approved /\ \A f \in Field : revision[s][f] # "PENDING"

\* Nothing is decided of a submission that does not exist, its status follows its
\* review, and a doubt about it is about a record.
SubmittedFirst ==
    \A s \in Submission :
        /\ submission[s] = "NONE" => s \notin approved /\ \A f \in Field : revision[s][f] = "NONE"
        /\ submission[s] # "NONE" => content[s] \in Content
        /\ submission[s] = "APPROVED" => s \in approved
        /\ revision[s]["duplicate_candidates"] # "NONE" =>
              \E t \in record : t # s /\ Alike(content[s], content[t])
ReviewsExist ==
    \A v \in Reviewer : reviewer[v] # Idle => revision[reviewer[v].submission][reviewer[v].field] # "NONE"

\* Publications of a submission are serial; what one has read of it still holds
\* where only publications change it.
PublicationsAreSerial ==
    \A p, q \in Publisher : p # q /\ InTransaction(p) /\ InTransaction(q) =>
        publisher[p].submission # publisher[q].submission
ReadsStillHold ==
    \A p \in Publisher : InTransaction(p) =>
        LET s == publisher[p].submission
            pc == publisher[p].pc
        IN  /\ pc # "find" => s \in approved /\ submission[s] # "DUPLICATE"
            /\ pc \notin {"find", "prior"} => s \notin record
            /\ pc \notin {"find", "prior", "review", "pending"} =>
                  \A f \in Field : revision[s][f] # "PENDING"
            /\ pc \in {"domain", "create", "commit"} =>
                  /\ revision[s]["duplicate_candidates"] = "NONE"
                  /\ publisher[p].seen \subseteq record
                  /\ \A t \in publisher[p].seen : ~Alike(content[s], content[t])

PublicationInv ==
    /\ TypeOK
    /\ SubmittedFirst /\ ReviewsExist /\ PublicationsAreSerial /\ ReadsStillHold
    /\ DuplicateIsUnpublished /\ DoubtedIsUnpublished /\ PublishedWasReviewed /\ TwinsOverlapped
=============================================================================
