------------------------------ MODULE DateChange ------------------------------
(***************************************************************************)
(* How followers learn that a published date changed: the worker's sweep   *)
(* plans one DATE_CHANGED row per follower and approved revision, cancels  *)
(* the rows of superseded revisions, and the delivery that claims a row    *)
(* reads everything again (apps/worker/src/notifications/                  *)
(* date-change-sweep.ts, date-change-notifications.ts).  One date field of *)
(* one window; reviews are atomic here, one at a time, as RevisionReview   *)
(* shows is needed.  Planning holds the field's advisory lock, which       *)
(* proposals take too; reviews and deliveries do not.  All transactions    *)
(* run READ COMMITTED, so every read of a hydration is a step.             *)
(***************************************************************************)
EXTENDS Integers, FiniteSets

CONSTANTS
    Watchlist,     \* followers of the window's intake
    Sweeper,       \* processes that run the planning sweep
    Instant,       \* instants the field may name
    TicksPerDay,   \* clock units in one UTC day
    Lookback,      \* how long an approved revision is scanned, in clock units
    Limit,         \* revisions one sweep may list
    MaxRevisions,  \* bound: revisions ever proposed
    MaxEdits,      \* bound: changes of a follower's eligibility
    MaxTime        \* bound: the clock stops here

ASSUME DateChangeAssumption ==
    /\ Instant \subseteq Nat
    /\ TicksPerDay \in Nat \ {0}
    /\ Lookback \in Nat
    /\ Limit \in Nat \ {0}
    /\ MaxRevisions \in Nat
    /\ MaxEdits \in Nat
    /\ MaxTime \in Nat

VARIABLES
    now,         \* wall clock
    published,   \* the date the window publishes
    revision,    \* data_revisions of the field, in the order of their creation
    parser,      \* a parse job: the dates it has loaded and found
    decisions,   \* number of decisions: the order of reviewed_at
    follower,    \* per watchlist: eligible, and created after how many decisions
    edits,       \* number of changes of eligibility
    row,         \* notification_deliveries, one per watchlist and revision
    sweep,       \* each process's runDateChangePlanningSweep
    job,         \* the delivery holding a PROCESSING row
    sent         \* history: the notices handed to the push services

catalogue == <<published, revision, parser, decisions>>
people == <<follower, edits>>
vars == <<now, catalogue, people, row, sweep, job, sent>>

NoDate == -1
Dates == Instant \cup {NoDate}
Revision == 1..MaxRevisions
Time == 0..MaxTime
Day(t) == t \div TicksPerDay

NotProposed == [changeStatus |-> "NONE"]
Proposed == [changeStatus : {"PENDING", "APPROVED", "REJECTED"}, old : Dates, new : Instant,
             hasConflict : BOOLEAN, reviewedAt : Time, decision : Nat]
Row == [status : {"NONE", "SCHEDULED", "PROCESSING", "SENT", "FAILED", "CANCELLED"},
        scheduledFor : Time]

\* A hydration: what the reads so far have returned.
Idle == [pc |-> "idle"]
Hydration ==
    [pc : {"revision", "window", "pending", "latest", "ready"}, at : Time, accepted : BOOLEAN,
     revision : Revision, read : {NotProposed} \cup Proposed, canonical : Dates,
     unresolved : BOOLEAN, newer : BOOLEAN]
Sweeping == [pc : {"next"}, at : Time, todo : SUBSET Revision]
Planning == [pc : {"planning"}, at : Time, todo : SUBSET Revision, hydration : Hydration]

TypeOK ==
    /\ now \in Time
    /\ published \in Dates
    /\ revision \in [Revision -> {NotProposed} \cup Proposed]
    /\ parser \in {Idle} \cup [pc : {"loaded"}, old : Dates, new : Instant]
    /\ decisions \in Nat
    /\ follower \in [Watchlist -> [eligible : BOOLEAN, since : Nat]]
    /\ edits \in 0..MaxEdits
    /\ row \in [Watchlist -> [Revision -> Row]]
    /\ sweep \in [Sweeper -> {Idle} \cup Sweeping \cup Planning]
    /\ job \in [Watchlist -> [Revision -> {Idle} \cup Hydration]]
    /\ sent \in [Watchlist -> SUBSET Revision]

Init ==
    /\ now = 0
    /\ published \in Dates
    /\ revision = [r \in Revision |-> NotProposed]
    /\ parser = Idle
    /\ decisions = 0
    /\ follower \in [Watchlist -> [eligible : {TRUE}, since : {0, 1}]]
    /\ edits = 0
    /\ row = [w \in Watchlist |-> [r \in Revision |-> [status |-> "NONE", scheduledFor |-> 0]]]
    /\ sweep = [s \in Sweeper |-> Idle]
    /\ job = [w \in Watchlist |-> [r \in Revision |-> Idle]]
    /\ sent = [w \in Watchlist |-> {}]

Pending == {r \in Revision : revision[r].changeStatus = "PENDING"}
Approved == {r \in Revision : revision[r].changeStatus = "APPROVED"}
LatestApproved == {r \in Approved : \A q \in Approved : revision[q].decision <= revision[r].decision}

-----------------------------------------------------------------------------
(* The catalogue: proposals and reviews (RevisionReview in full).           *)

LockFree == \A s \in Sweeper : sweep[s].pc # "planning"

LoadSnapshot ==
    /\ parser = Idle
    /\ \E d \in Instant :
          /\ d # published
          /\ parser' = [pc |-> "loaded", old |-> published, new |-> d]
    /\ UNCHANGED <<now, published, revision, decisions, people, row, sweep, job, sent>>

\* The lock keeps other proposals and plannings away.
CreateRevision ==
    /\ parser # Idle
    /\ LockFree
    /\ parser' = Idle
    /\ IF \E r \in Pending : revision[r].new = parser.new THEN UNCHANGED revision
       ELSE \E new \in Revision :
              /\ \A q \in Revision : revision[q].changeStatus = "NONE" <=> q >= new
              /\ revision' = [r \in Revision |->
                    IF r = new
                    THEN [changeStatus |-> "PENDING", old |-> parser.old, new |-> parser.new,
                          hasConflict |-> Pending # {}, reviewedAt |-> 0, decision |-> 0]
                    ELSE IF r \in Pending THEN [revision[r] EXCEPT !.hasConflict = TRUE]
                    ELSE revision[r]]
    /\ UNCHANGED <<now, published, decisions, people, row, sweep, job, sent>>

Decide(r, status) ==
    /\ revision' = [revision EXCEPT
          ![r].changeStatus = status, ![r].hasConflict = status = "REJECTED" /\ @,
          ![r].reviewedAt = now, ![r].decision = decisions + 1]
    /\ decisions' = decisions + 1

\* The review that approves also writes the date; one whose evidence is too old is
\* refused and may be tried again.
Approve(r) ==
    /\ Pending = {r}
    /\ Decide(r, "APPROVED")
    /\ published' = revision[r].new
    /\ UNCHANGED <<now, parser, people, row, sweep, job, sent>>

Reject(r) ==
    /\ r \in Pending
    /\ Decide(r, "REJECTED")
    /\ UNCHANGED <<now, published, parser, people, row, sweep, job, sent>>

-----------------------------------------------------------------------------
(* Reading a revision again: hydrateApprovedDateChangeRevision.             *)
(*                                                                         *)
(* A definition that directly precedes another of the same parameters, and *)
(* that nothing uses, is a broken variant of it: substituting it shows     *)
(* that the properties notice.                                             *)

Start(r, at, accepted) ==
    [pc |-> "revision", at |-> at, accepted |-> accepted, revision |-> r, read |-> NotProposed,
     canonical |-> NoDate, unresolved |-> FALSE, newer |-> FALSE]

\* The next read of a hydration, and what it returns.
Read(h) ==
    CASE h.pc = "revision" -> [h EXCEPT !.pc = "window", !.read = revision[h.revision]]
      [] h.pc = "window" -> [h EXCEPT !.pc = "pending", !.canonical = published]
      [] h.pc = "pending" -> [h EXCEPT !.pc = "latest", !.unresolved = Pending \ {h.revision} # {}]
      [] h.pc = "latest" -> [h EXCEPT !.pc = "ready",
                                      !.newer = LatestApproved \ {h.revision} # {}]

\* A published or moved date, not both of whose days were past when reviewed.
Material(rev) ==
    /\ Day(rev.new) # Day(rev.old)
    /\ \/ Day(rev.new) >= Day(rev.reviewedAt)
       \/ rev.old # NoDate /\ Day(rev.old) >= Day(rev.reviewedAt)

ValidIfCurrent(h) ==
    /\ h.read.changeStatus = "APPROVED"
    /\ h.read.reviewedAt <= h.at
    /\ ~h.read.hasConflict /\ ~h.unresolved
    /\ h.canonical # NoDate /\ Day(h.canonical) = Day(h.read.new)
    /\ Material(h.read)
Valid(h) ==
    /\ h.read.changeStatus = "APPROVED"
    /\ h.read.reviewedAt <= h.at
    /\ ~h.read.hasConflict /\ ~h.unresolved
    /\ ~h.newer
    /\ h.canonical # NoDate /\ Day(h.canonical) = Day(h.read.new)
    /\ Material(h.read)

\* Followed before the review, and still eligible.
Eligible(w, rev) == follower[w].eligible /\ follower[w].since < rev.decision

-----------------------------------------------------------------------------
(* The planning sweep.                                                      *)

ScannedNewOnly(at) == {r \in Approved : revision[r].reviewedAt >= at}
Scanned(at) == {r \in Approved : revision[r].reviewedAt + Lookback >= at}
\* The first Limit of them by review time.
Listed(at) ==
    {r \in Scanned(at) :
        Cardinality({q \in Scanned(at) : revision[q].decision < revision[r].decision}) < Limit}

StartSweep(s) ==
    /\ sweep[s].pc = "idle"
    /\ sweep' = [sweep EXCEPT ![s] = [pc |-> "next", at |-> now, todo |-> Listed(now)]]
    /\ UNCHANGED <<now, catalogue, people, row, job, sent>>

PlannerFreeIgnored == TRUE
PlannerFree == LockFree

\* pg_advisory_xact_lock, held until the plan commits.
PlanNext(s) ==
    /\ sweep[s].pc = "next"
    /\ PlannerFree
    /\ \E r \in sweep[s].todo :
          /\ \A q \in sweep[s].todo : revision[r].decision <= revision[q].decision
          /\ sweep' = [sweep EXCEPT ![s] =
                [pc |-> "planning", at |-> @.at, todo |-> @.todo \ {r},
                 hydration |-> Start(r, @.at, TRUE)]]
    /\ UNCHANGED <<now, catalogue, people, row, job, sent>>

HydratePlan(s) ==
    /\ sweep[s].pc = "planning"
    /\ sweep[s].hydration.pc # "ready"
    /\ sweep' = [sweep EXCEPT ![s].hydration = Read(@)]
    /\ UNCHANGED <<now, catalogue, people, row, job, sent>>

\* The rows a plan leaves of those of its own revision, and of the others.
Planned(w, h, old) ==
    IF old.status = "NONE" /\ Valid(h) /\ Eligible(w, h.read)
    THEN [status |-> "SCHEDULED", scheduledFor |-> h.at] ELSE old
Withdrawn(old) == IF old.status = "SCHEDULED" THEN [old EXCEPT !.status = "CANCELLED"] ELSE old

\* planApprovedDateChange: pending rows of other revisions go, rows of this one
\* are added unless its key is taken.
CommitPlan(s) ==
    /\ sweep[s].pc = "planning"
    /\ LET h == sweep[s].hydration
       IN  /\ h.pc = "ready"
           /\ IF h.read.changeStatus = "APPROVED" /\ ~h.newer
              THEN row' = [w \in Watchlist |-> [r \in Revision |->
                              IF r = h.revision THEN Planned(w, h, row[w][r])
                              ELSE Withdrawn(row[w][r])]]
              ELSE UNCHANGED row
    /\ sweep' = [sweep EXCEPT ![s] = [pc |-> "next", at |-> @.at, todo |-> @.todo]]
    /\ UNCHANGED <<now, catalogue, people, job, sent>>

EndSweep(s) ==
    /\ sweep[s].pc = "next"
    /\ sweep[s].todo = {}
    /\ sweep' = [sweep EXCEPT ![s] = Idle]
    /\ UNCHANGED <<now, catalogue, people, row, job, sent>>

\* An error or a crash rolls the plan back and ends the sweep (bound: failures
\* end before the clock stops).
SweepError(s) ==
    /\ sweep[s].pc # "idle"
    /\ now < MaxTime
    /\ sweep' = [sweep EXCEPT ![s] = Idle]
    /\ UNCHANGED <<now, catalogue, people, row, job, sent>>

-----------------------------------------------------------------------------
(* Delivery of a due row; claims are exclusive (NotificationDelivery).      *)

Claim(w, r) ==
    /\ row[w][r].status = "SCHEDULED"
    /\ row[w][r].scheduledFor <= now
    /\ row' = [row EXCEPT ![w][r].status = "PROCESSING"]
    /\ job' = [job EXCEPT ![w][r] =
          Start(r, now, follower[w].eligible /\ Day(row[w][r].scheduledFor) = Day(now))]
    /\ UNCHANGED <<now, catalogue, people, sweep, sent>>

HydrateJob(w, r) ==
    /\ job[w][r].pc \notin {"idle", "latest", "ready"}
    /\ job' = [job EXCEPT ![w][r] = Read(@)]
    /\ UNCHANGED <<now, catalogue, people, row, sweep, sent>>

\* prepareDateChangeNotificationJob, with what the last read returns.
Prepare(w, r) ==
    /\ job[w][r].pc = "latest"
    /\ LET h == Read(job[w][r])
       IN  IF h.accepted /\ Valid(h) /\ follower[w].since < h.read.decision
           THEN /\ job' = [job EXCEPT ![w][r] = h]
                /\ UNCHANGED row
           ELSE /\ job' = [job EXCEPT ![w][r] = Idle]
                /\ row' = [row EXCEPT ![w][r].status = "CANCELLED"]
    /\ UNCHANGED <<now, catalogue, people, sweep, sent>>

Send(w, r) ==
    /\ job[w][r].pc = "ready"
    /\ job' = [job EXCEPT ![w][r] = Idle]
    /\ sent' = [sent EXCEPT ![w] = @ \cup {r}]
    /\ \E verdict \in {"SENT", "FAILED", "CANCELLED"} : row' = [row EXCEPT ![w][r].status = verdict]
    /\ UNCHANGED <<now, catalogue, people, sweep>>

\* A claim that never reached the network is retried.
Recover(w, r) ==
    /\ job[w][r].pc # "idle"
    /\ now < MaxTime
    /\ job' = [job EXCEPT ![w][r] = Idle]
    /\ row' = [row EXCEPT ![w][r].status = "SCHEDULED"]
    /\ UNCHANGED <<now, catalogue, people, sweep, sent>>

-----------------------------------------------------------------------------
\* A preference, the subscriptions of the user or the tracking status change.
Edit(w) ==
    /\ edits < MaxEdits
    /\ edits' = edits + 1
    /\ follower' = [follower EXCEPT ![w].eligible = ~@]
    /\ UNCHANGED <<now, catalogue, row, sweep, job, sent>>

\* unsubscribeFromNotifications: what waits for the user goes too.
Unsubscribe(w) ==
    /\ edits < MaxEdits
    /\ edits' = edits + 1
    /\ follower' = [follower EXCEPT ![w].eligible = FALSE]
    /\ row' = [row EXCEPT ![w] = [r \in Revision |-> Withdrawn(row[w][r])]]
    /\ UNCHANGED <<now, catalogue, sweep, job, sent>>

Tick ==
    /\ now < MaxTime
    /\ now' = now + 1
    /\ UNCHANGED <<catalogue, people, row, sweep, job, sent>>

SweepStep(s) ==
    StartSweep(s) \/ PlanNext(s) \/ HydratePlan(s) \/ CommitPlan(s) \/ EndSweep(s)
DeliveryStep(w, r) == Claim(w, r) \/ HydrateJob(w, r) \/ Prepare(w, r) \/ Send(w, r)

Next ==
    \/ LoadSnapshot \/ CreateRevision
    \/ \E r \in Revision : Approve(r) \/ Reject(r)
    \/ \E s \in Sweeper : SweepStep(s) \/ SweepError(s)
    \/ \E w \in Watchlist, r \in Revision : DeliveryStep(w, r) \/ Recover(w, r)
    \/ \E w \in Watchlist : Edit(w) \/ Unsubscribe(w)
    \/ Tick

Spec == Init /\ [][Next]_vars

\* The sweep runs every minute, the dispatcher every thirty seconds, neither
\* overlaps itself, and the clock runs.
Fairness ==
    /\ \A s \in Sweeper : WF_vars(SweepStep(s))
    /\ \A w \in Watchlist, r \in Revision : WF_vars(DeliveryStep(w, r))
    /\ WF_vars(Tick)

FairSpec == Spec /\ Fairness

-----------------------------------------------------------------------------
(* Properties.                                                              *)

\* A notice that passes its revalidation is true at that instant, although its
\* reads saw the tables at different times: its revision is the latest approved
\* one and the window publishes its date.
NoticeIsCurrent ==
    [][\A w \in Watchlist, r \in Revision :
          job[w][r].pc # "ready" /\ job'[w][r].pc = "ready"
          => LatestApproved = {r} /\ Day(published) = Day(revision[r].new)]_vars

\* Superseding never hits the notice of the latest approved revision: cancelled
\* rows are not revived, the followers would never hear of it.  Only who turns
\* notifications off loses it.
LatestNoticeKept ==
    [][\A w \in Watchlist : \A r \in LatestApproved :
          row[w][r].status = "SCHEDULED" => row'[w][r].status # "CANCELLED" \/ Unsubscribe(w)]_vars

\* What a planning has read under the lock: no row of a later revision is
\* pending while it believes its revision to be the latest.
PlannedIsLatest ==
    \A s \in Sweeper : sweep[s].pc = "planning" =>
        LET h == sweep[s].hydration
        IN  h.pc = "ready" /\ ~h.newer /\ h.read.changeStatus = "APPROVED" =>
               \A w \in Watchlist, q \in Approved :
                  revision[q].decision > h.read.decision => row[w][q].status = "NONE"

\* The window publishes the latest approved date (what RevisionReview shows of
\* one review at a time).
CatalogueIsCurrent == \A r \in LatestApproved : published = revision[r].new

\* Decisions are numbered one by one, and only pending revisions are decided.
DecisionsOrdered ==
    /\ \A r \in Revision : revision[r].changeStatus \in {"APPROVED", "REJECTED"} =>
          revision[r].decision \in 1..decisions
    /\ \A r, q \in Approved : revision[r].decision = revision[q].decision => r = q
    /\ Approved # {} => LatestApproved # {}

\* The advisory lock has at most one holder.
OnePlanner ==
    \A s, t \in Sweeper : sweep[s].pc = "planning" /\ sweep[t].pc = "planning" => s = t

\* What a hydration has read of an approved revision stays true: decisions are final.
Holds(h) == h.read.changeStatus = "APPROVED" => h.read = revision[h.revision]
ReadsHold ==
    /\ \A s \in Sweeper : sweep[s].pc = "planning" => Holds(sweep[s].hydration)
    /\ \A w \in Watchlist, r \in Revision : job[w][r].pc # "idle" => Holds(job[w][r])

\* Only approved revisions have rows, and a delivery holds the row it claimed.
RowsAreApproved ==
    \A w \in Watchlist, r \in Revision :
        /\ row[w][r].status # "NONE" => r \in Approved
        /\ job[w][r].pc # "idle" => row[w][r].status = "PROCESSING" /\ job[w][r].revision = r

DateChangeInv ==
    /\ TypeOK
    /\ CatalogueIsCurrent
    /\ PlannedIsLatest
    /\ DecisionsOrdered
    /\ OnePlanner
    /\ ReadsHold
    /\ RowsAreApproved

\* A change the followers of w are to be told, as the tables stand.
Announceable(w, r) ==
    /\ r \in LatestApproved
    /\ Pending = {}
    /\ Material(revision[r])
    /\ Eligible(w, revision[r])
    /\ revision[r].reviewedAt + Lookback >= now

\* Every notice comes to an end, and every change that is to be told got one,
\* through failures, restarts and superseded plans.
NoticesSettle ==
    <>[](\A w \in Watchlist, r \in Revision :
            /\ row[w][r].status \notin {"SCHEDULED", "PROCESSING"}
            /\ Announceable(w, r) => row[w][r].status # "NONE")
=============================================================================
