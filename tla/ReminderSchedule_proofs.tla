------------------------ MODULE ReminderSchedule_proofs ------------------------
(***************************************************************************)
(* The inductive invariant of ReminderSchedule and the properties that     *)
(* follow from it, for every number of followers, processes, offsets and   *)
(* edits.                                                                  *)
(***************************************************************************)
EXTENDS ReminderSchedule, TLAPS

LEMMA PlanType ==
    ASSUME TypeOK, NEW w \in Watchlist, NEW r \in Reminder, NEW at
    PROVE  Plan(w, r, at) \in Int \cup {NoDate}
<1>1. EventOf(r) \in Int
  <2>1. EventInstant \cup {NoDate} \subseteq Int
    BY ScheduleAssumption DEF NoDate
  <2>2. window.opensAt \in EventInstant \cup {NoDate} /\ window.closesAt \in EventInstant \cup {NoDate}
    BY DEF TypeOK, Window
  <2> QED BY <2>1, <2>2 DEF EventOf
<1>2. r.offset \in Int /\ TicksPerDay \in Int
  <2>1. r.offset \in OpeningOffsets \/ r.offset \in DeadlineOffsets
    BY DEF Reminder
  <2>2. OpeningOffsets \subseteq Int /\ DeadlineOffsets \subseteq Int
    BY ScheduleAssumption
  <2>3. TicksPerDay \in Int
    BY ScheduleAssumption
  <2> QED BY <2>1, <2>2, <2>3
<1>3. r.offset * TicksPerDay \in Int
  BY <1>2
<1> QED BY <1>1, <1>3 DEF Plan, ReminderAt

LEMMA ApplyType ==
    ASSUME NEW old \in Row, NEW change \in Change, NEW wanted \in Int \cup {NoDate}
    PROVE  Apply(old, change, wanted) \in Row
BY DEF Apply, Expected, Change, Row, Status, Reactivatable, NoDate

\* What a reconciliation may do to a row, whatever it compared earlier.
LEMMA ApplyEffect ==
    ASSUME NEW old \in Row, NEW change \in Change, NEW wanted \in Int \cup {NoDate}
    PROVE  \/ Apply(old, change, wanted) = old
           \/ /\ old.status \in {"NONE", "SCHEDULED", "CANCELLED"}
              /\ Apply(old, change, wanted).status \in {"SCHEDULED", "CANCELLED"}
BY DEF Apply, Expected, Change, Row, Reactivatable

LEMMA ScheduleInit == Init => ScheduleInv
<1> SUFFICES ASSUME Init PROVE ScheduleInv
  OBVIOUS
<1>1. TypeOK
  BY ScheduleAssumption DEF Init, TypeOK, Time, Row, Status, Absent, Job, Sweep
<1> QED BY <1>1 DEF Init, ScheduleInv, JobHoldsRow, LockedAndCurrent, ReminderSentOnce,
             CountdownIsTrue, Absent, NoJob, NoSweep

\* A step that leaves the rows and deliveries alone keeps what is said of them.
LEMMA DeliveryFrame ==
    ASSUME ScheduleInv, UNCHANGED <<row, delivery>>
    PROVE  JobHoldsRow' /\ ReminderSentOnce' /\ CountdownIsTrue'
BY DEF ScheduleInv, JobHoldsRow, ReminderSentOnce, CountdownIsTrue, delivery, Day, ReminderAt

\* A step that moves one process between transactions keeps the lock.
LEMMA SweepFrame ==
    ASSUME ScheduleInv, NEW s \in Sweeper, NEW new \in Sweep,
           new.pc \notin {"planned", "compared"},
           sweep' = [sweep EXCEPT ![s] = new],
           UNCHANGED <<now, source, row, delivery, plannedFrom>>
    PROVE  ScheduleInv'
<1>1. TypeOK'
  BY DEF ScheduleInv, TypeOK, source, delivery
<1>2. LockedAndCurrent'
  BY DEF ScheduleInv, TypeOK, LockedAndCurrent, source
<1> QED BY <1>1, <1>2, DeliveryFrame DEF ScheduleInv

LEMMA StepLoadSource ==
    ASSUME ScheduleInv, NEW s \in Sweeper, NEW w \in Watchlist, LoadSource(s, w)
    PROVE  ScheduleInv'
<1>0. TypeOK /\ LockedAndCurrent
  BY DEF ScheduleInv
<1> DEFINE new == [pc |-> "planned", at |-> sweep[s].at, todo |-> sweep[s].todo \ {w},
                   watchlist |-> w, desired |-> [r \in Reminder |-> Plan(w, r, sweep[s].at)],
                   version |-> edits]
<1>1. sweep' = [sweep EXCEPT ![s] = new] /\ UNCHANGED <<now, source, row, delivery, plannedFrom>>
  BY DEF LoadSource
<1>2. new \in Sweep
  <2>1. [r \in Reminder |-> Plan(w, r, sweep[s].at)] \in Desired
    BY <1>0, PlanType DEF Desired
  <2>2. sweep[s].at \in Time /\ sweep[s].todo \in SUBSET Watchlist
    BY <1>0 DEF LoadSource, TypeOK, Sweep, NoSweep
  <2>3. edits \in Nat
    BY <1>0, ScheduleAssumption DEF TypeOK
  <2> QED BY <2>1, <2>2, <2>3 DEF Sweep
<1> HIDE DEF new
<1>3. TypeOK'
  BY <1>0, <1>1, <1>2 DEF TypeOK, source, delivery
<1>4. LockedAndCurrent'
  <2>1. new.watchlist = w /\ new.version = edits
    BY DEF new
  <2>2. \A t \in Sweeper : sweep[t].pc \in {"planned", "compared"} => sweep[t].watchlist # w
    BY DEF LoadSource, LockFree, Locked
  <2>3. sweep'[s] = new /\ \A t \in Sweeper : t # s => sweep'[t] = sweep[t]
    BY <1>0, <1>1 DEF TypeOK
  <2>4. edits \in Nat /\ edits' = edits /\ plannedFrom' = plannedFrom
    BY <1>0, <1>1, ScheduleAssumption DEF TypeOK, source
  <2> QED BY <1>0, <2>1, <2>2, <2>3, <2>4 DEF LockedAndCurrent
<1> QED BY <1>1, <1>3, <1>4, DeliveryFrame DEF ScheduleInv

LEMMA StepLoadExisting ==
    ASSUME ScheduleInv, NEW s \in Sweeper, LoadExisting(s)
    PROVE  ScheduleInv'
<1>0. TypeOK /\ LockedAndCurrent
  BY DEF ScheduleInv
<1> DEFINE change == [r \in Reminder |-> ChangeFor(sweep[s].watchlist, r, sweep[s].desired[r])]
           new == [pc |-> "compared", at |-> sweep[s].at, todo |-> sweep[s].todo,
                   watchlist |-> sweep[s].watchlist, desired |-> sweep[s].desired,
                   version |-> sweep[s].version, change |-> change]
<1>1. sweep' = [sweep EXCEPT ![s] = new] /\ UNCHANGED <<now, source, row, delivery, plannedFrom>>
  BY DEF LoadExisting
<1>2. new \in Sweep
  <2>1. change \in [Reminder -> Change]
    BY DEF ChangeFor, Change
  <2>2. sweep[s] \in Sweep /\ sweep[s].pc = "planned"
    BY <1>0 DEF LoadExisting, TypeOK
  <2> HIDE DEF change
  <2> QED BY <2>1, <2>2 DEF Sweep, NoSweep
<1>3. new.watchlist = sweep[s].watchlist /\ new.version = sweep[s].version
  OBVIOUS
<1> HIDE DEF new
<1>4. TypeOK'
  BY <1>0, <1>1, <1>2 DEF TypeOK, source, delivery
<1>5. LockedAndCurrent'
  <2>1. sweep'[s] = new /\ \A t \in Sweeper : t # s => sweep'[t] = sweep[t]
    BY <1>0, <1>1 DEF TypeOK
  <2>2. edits' = edits /\ plannedFrom' = plannedFrom /\ sweep[s].pc = "planned"
    BY <1>1 DEF source, LoadExisting
  <2> QED BY <1>0, <1>3, <2>1, <2>2 DEF LockedAndCurrent
<1> QED BY <1>1, <1>4, <1>5, DeliveryFrame DEF ScheduleInv

\* Planning touches only rows that no delivery has finished or holds.
MovesOpenRows ==
    \A w \in Watchlist, r \in Reminder :
        \/ row'[w][r].status = row[w][r].status
        \/ {row[w][r].status, row'[w][r].status} \subseteq {"NONE", "SCHEDULED", "CANCELLED"}

LEMMA StepCommit ==
    ASSUME ScheduleInv, NEW s \in Sweeper, CommitReconciliation(s)
    PROVE  /\ ScheduleInv'
           /\ \A w \in Watchlist : plannedFrom'[w] >= plannedFrom[w]
           /\ MovesOpenRows
<1>0. TypeOK /\ LockedAndCurrent /\ JobHoldsRow
  BY DEF ScheduleInv
<1> DEFINE v == sweep[s].watchlist
<1>1. /\ sweep[s].pc = "compared" /\ v \in Watchlist
      /\ sweep[s].desired \in Desired /\ sweep[s].change \in [Reminder -> Change]
      /\ sweep[s].version \in Nat /\ sweep[s].at \in Time /\ sweep[s].todo \in SUBSET Watchlist
  BY <1>0 DEF CommitReconciliation, TypeOK, Sweep, NoSweep
<1>2. \A w \in Watchlist, r \in Reminder :
        row'[w][r] = IF w = v THEN Apply(row[v][r], sweep[s].change[r], sweep[s].desired[r])
                     ELSE row[w][r]
  BY <1>0, <1>1 DEF CommitReconciliation, TypeOK
<1>3. \A w \in Watchlist, r \in Reminder :
        \/ row'[w][r] = row[w][r]
        \/ /\ row[w][r].status \in {"NONE", "SCHEDULED", "CANCELLED"}
           /\ row'[w][r].status \in {"SCHEDULED", "CANCELLED"}
  BY <1>0, <1>1, <1>2, ApplyEffect DEF TypeOK, Desired
<1>4. \A r \in Reminder : Apply(row[v][r], sweep[s].change[r], sweep[s].desired[r]) \in Row
  BY <1>0, <1>1, ApplyType DEF TypeOK, Desired
<1>5. row' \in [Watchlist -> [Reminder -> Row]]
  <2>1. [r \in Reminder |-> Apply(row[v][r], sweep[s].change[r], sweep[s].desired[r])]
          \in [Reminder -> Row]
    BY <1>4
  <2> QED BY <1>0, <1>1, <2>1 DEF CommitReconciliation, TypeOK
<1>6. plannedFrom' = [plannedFrom EXCEPT ![v] = sweep[s].version]
  BY DEF CommitReconciliation
<1>7. /\ sweep' = [sweep EXCEPT ![s] = [pc |-> "next", at |-> sweep[s].at, todo |-> sweep[s].todo]]
      /\ UNCHANGED <<now, source, delivery>>
  BY DEF CommitReconciliation
<1>8. [pc |-> "next", at |-> sweep[s].at, todo |-> sweep[s].todo] \in Sweep
  BY <1>1 DEF Sweep
<1>9. TypeOK'
  BY <1>0, <1>1, <1>5, <1>6, <1>7, <1>8 DEF TypeOK, source, delivery
<1>10. LockedAndCurrent'
  <2>1. sweep'[s].pc = "next" /\ \A t \in Sweeper : t # s => sweep'[t] = sweep[t]
    BY <1>0, <1>7 DEF TypeOK
  <2>2. \A t \in Sweeper : t # s /\ sweep[t].pc \in {"planned", "compared"} => sweep[t].watchlist # v
    BY <1>0, <1>1 DEF LockedAndCurrent
  <2>3. \A w \in Watchlist : plannedFrom'[w] = IF w = v THEN sweep[s].version ELSE plannedFrom[w]
    BY <1>0, <1>6 DEF TypeOK
  <2>4. sweep[s].version <= edits /\ edits' = edits
    BY <1>0, <1>1, <1>7 DEF LockedAndCurrent, source
  <2>5. \A t \in Sweeper : sweep[t].pc \in {"planned", "compared"} => sweep[t].watchlist \in Watchlist
    BY <1>0 DEF TypeOK, Sweep, NoSweep
  <2> QED BY <1>0, <2>1, <2>2, <2>3, <2>4, <2>5 DEF LockedAndCurrent
<1>11. JobHoldsRow'
  BY <1>0, <1>3, <1>7 DEF JobHoldsRow, delivery
<1>12. ReminderSentOnce' /\ CountdownIsTrue'
  BY <1>7 DEF ScheduleInv, ReminderSentOnce, CountdownIsTrue, delivery, Day, ReminderAt
<1>13. \A w \in Watchlist : plannedFrom'[w] >= plannedFrom[w]
  BY <1>0, <1>1, <1>6 DEF TypeOK, LockedAndCurrent
<1>14. MovesOpenRows
  BY <1>3 DEF MovesOpenRows
<1> QED BY <1>9, <1>10, <1>11, <1>12, <1>13, <1>14 DEF ScheduleInv
-----------------------------------------------------------------------------
(* Deliveries: every step changes one row, its job and its counter.         *)

CountdownHolds(r, j) ==
    j.pc \in {"send", "posted"} =>
        /\ Day(ReminderAt(j.event, r)) = Day(j.at)
        /\ r.kind = "APPLICATION_DEADLINE" => j.event > j.at

LEMMA TouchOne ==
    ASSUME ScheduleInv, NEW w \in Watchlist, NEW r \in Reminder,
           NEW newRow \in Row, NEW newJob \in Job, NEW newPosted \in 0..1,
           row' = [row EXCEPT ![w][r] = newRow],
           job' = [job EXCEPT ![w][r] = newJob],
           posted' = [posted EXCEPT ![w][r] = newPosted],
           UNCHANGED <<now, source, sweep, plannedFrom>>,
           newJob.pc # "none" <=> newRow.status = "PROCESSING",
           newRow.status \in {"NONE", "SCHEDULED", "CANCELLED"} => newPosted = 0,
           newJob.pc \in {"prepare", "send"} => newPosted = 0,
           newJob.pc = "posted" => newPosted = 1,
           CountdownHolds(r, newJob)
    PROVE  ScheduleInv'
<1>0. TypeOK /\ JobHoldsRow /\ LockedAndCurrent /\ ReminderSentOnce /\ CountdownIsTrue
  BY DEF ScheduleInv
<1>1. TypeOK'
  BY <1>0 DEF TypeOK, source
<1>2. LockedAndCurrent'
  BY <1>0 DEF LockedAndCurrent, source
<1>3. \A v \in Watchlist, q \in Reminder :
        \/ v = w /\ q = r /\ row'[v][q] = newRow /\ job'[v][q] = newJob /\ posted'[v][q] = newPosted
        \/ row'[v][q] = row[v][q] /\ job'[v][q] = job[v][q] /\ posted'[v][q] = posted[v][q]
  BY <1>0 DEF TypeOK
<1>4. JobHoldsRow' /\ ReminderSentOnce'
  BY <1>0, <1>3 DEF JobHoldsRow, ReminderSentOnce
<1>5. CountdownIsTrue'
  BY <1>0, <1>3 DEF CountdownIsTrue, CountdownHolds, Day, ReminderAt
<1> QED BY <1>1, <1>2, <1>4, <1>5 DEF ScheduleInv

LEMMA StepDelivery ==
    ASSUME ScheduleInv, NEW w \in Watchlist, NEW r \in Reminder,
           DeliveryStep(w, r) \/ Recover(w, r)
    PROVE  ScheduleInv'
<1>0. /\ TypeOK /\ JobHoldsRow /\ ReminderSentOnce
      /\ CountdownHolds(r, job[w][r])
      /\ row[w][r] \in Row /\ job[w][r] \in Job /\ posted[w][r] \in 0..1
  <2>1. TypeOK /\ JobHoldsRow /\ ReminderSentOnce /\ CountdownIsTrue
    BY DEF ScheduleInv
  <2>2. CountdownHolds(r, job[w][r])
    BY <2>1 DEF CountdownIsTrue, CountdownHolds
  <2>3. row[w][r] \in Row /\ job[w][r] \in Job /\ posted[w][r] \in Nat
    BY <2>1 DEF TypeOK
  <2>4. posted[w][r] <= 1
    BY <2>1 DEF ReminderSentOnce
  <2> QED BY <2>1, <2>2, <2>3, <2>4
<1>1. \A x \in Status : [row[w][r] EXCEPT !.status = x] \in Row
                       /\ [row[w][r] EXCEPT !.status = x].status = x
  BY <1>0 DEF Row
<1>2. /\ row = [row EXCEPT ![w][r] = row[w][r]]
      /\ job = [job EXCEPT ![w][r] = job[w][r]]
      /\ posted = [posted EXCEPT ![w][r] = posted[w][r]]
  BY <1>0 DEF TypeOK
<1>3. CASE Claim(w, r)
  <2> DEFINE newRow == [row[w][r] EXCEPT !.status = "PROCESSING"]
             newJob == [pc |-> "prepare", at |-> now]
  <2>1. newRow \in Row /\ newRow.status = "PROCESSING" /\ newJob \in Job
    BY <1>0, <1>1 DEF Status, Job, TypeOK
  <2>2. /\ row' = [row EXCEPT ![w][r] = newRow] /\ job' = [job EXCEPT ![w][r] = newJob]
        /\ posted' = [posted EXCEPT ![w][r] = posted[w][r]]
        /\ UNCHANGED <<now, source, sweep, plannedFrom>>
    BY <1>2, <1>3 DEF Claim
  <2>3. posted[w][r] = 0
    BY <1>0, <1>3 DEF Claim, JobHoldsRow
  <2>4. newJob.pc = "prepare"
    OBVIOUS
  <2> HIDE DEF newRow, newJob
  <2> QED BY <1>0, <2>1, <2>2, <2>3, <2>4, TouchOne DEF CountdownHolds
<1>4. CASE Prepare(w, r)
  <2>0. /\ job[w][r].at \in Time /\ posted[w][r] = 0 /\ row[w][r].status = "PROCESSING"
        /\ UNCHANGED <<now, source, sweep, plannedFrom>> /\ posted' = posted
    BY <1>0, <1>4 DEF Prepare, Job, NoJob, JobHoldsRow
  <2>1. CASE Deliverable(w, r, job[w][r].at) /\ row' = row
             /\ job' = [job EXCEPT ![w][r] = [pc |-> "send", at |-> @.at, event |-> EventOf(r)]]
    <3> DEFINE newJob == [pc |-> "send", at |-> job[w][r].at, event |-> EventOf(r)]
    <3>1. EventOf(r) \in EventInstant
      BY <1>0, <2>1 DEF Deliverable, EventOf, TypeOK, Window
    <3>2. newJob \in Job /\ job' = [job EXCEPT ![w][r] = newJob] /\ newJob.pc = "send"
      BY <2>0, <2>1, <3>1 DEF Job
    <3>3. CountdownHolds(r, newJob)
      BY <2>1 DEF CountdownHolds, Deliverable, StillPlanned
    <3> HIDE DEF newJob
    <3> QED BY <1>0, <1>2, <2>0, <2>1, <3>2, <3>3, TouchOne
  <2>2. CASE job' = [job EXCEPT ![w][r] = NoJob] /\ row' = [row EXCEPT ![w][r].status = "CANCELLED"]
    <3> DEFINE newRow == [row[w][r] EXCEPT !.status = "CANCELLED"]
    <3>1. newRow \in Row /\ newRow.status = "CANCELLED" /\ row' = [row EXCEPT ![w][r] = newRow]
      BY <1>1, <2>2 DEF Status
    <3>2. NoJob \in Job /\ NoJob.pc = "none"
      BY DEF Job, NoJob
    <3>3. CountdownHolds(r, NoJob)
      BY <3>2 DEF CountdownHolds
    <3>4. posted' = [posted EXCEPT ![w][r] = posted[w][r]]
      BY <1>2, <2>0
    <3> HIDE DEF newRow
    <3> QED BY <1>0, <2>0, <2>2, <3>1, <3>2, <3>3, <3>4, TouchOne
  <2> QED BY <1>4, <2>1, <2>2 DEF Prepare
<1>5. CASE Post(w, r)
  <2> DEFINE newJob == [job[w][r] EXCEPT !.pc = "posted"]
  <2>1. newJob \in Job /\ newJob.pc = "posted" /\ CountdownHolds(r, newJob)
    BY <1>0, <1>5 DEF Post, Job, NoJob, CountdownHolds
  <2>2. posted[w][r] = 0 /\ row[w][r].status = "PROCESSING"
    BY <1>0, <1>5 DEF Post, JobHoldsRow
  <2>3. /\ row' = [row EXCEPT ![w][r] = row[w][r]] /\ job' = [job EXCEPT ![w][r] = newJob]
        /\ posted' = [posted EXCEPT ![w][r] = 1] /\ UNCHANGED <<now, source, sweep, plannedFrom>>
    BY <1>0, <1>2, <1>5, <2>2 DEF Post, TypeOK
  <2>4. 1 \in 0..1
    OBVIOUS
  <2> HIDE DEF newJob
  <2> QED BY <1>0, <2>1, <2>2, <2>3, <2>4, TouchOne
<1>6. CASE Finalize(w, r)
  <2>1. PICK verdict \in {"SENT", "FAILED"} : row' = [row EXCEPT ![w][r].status = verdict]
    BY <1>6 DEF Finalize
  <2> DEFINE newRow == [row[w][r] EXCEPT !.status = verdict]
  <2>2. newRow \in Row /\ newRow.status = verdict /\ row' = [row EXCEPT ![w][r] = newRow]
    BY <1>1, <2>1 DEF Status
  <2>3. NoJob \in Job /\ NoJob.pc = "none"
    BY DEF Job, NoJob
  <2>4. /\ job' = [job EXCEPT ![w][r] = NoJob] /\ posted' = [posted EXCEPT ![w][r] = posted[w][r]]
        /\ UNCHANGED <<now, source, sweep, plannedFrom>>
    BY <1>2, <1>6 DEF Finalize
  <2> HIDE DEF newRow
  <2> QED BY <1>0, <2>2, <2>3, <2>4, TouchOne DEF CountdownHolds
<1>7. CASE Recover(w, r)
  <2> DEFINE verdict == IF job[w][r].pc = "prepare" THEN "SCHEDULED" ELSE "FAILED"
             newRow == [row[w][r] EXCEPT !.status = verdict]
  <2>1. newRow \in Row /\ newRow.status = verdict /\ row' = [row EXCEPT ![w][r] = newRow]
    BY <1>1, <1>7 DEF Status, Recover
  <2>2. NoJob \in Job /\ NoJob.pc = "none"
    BY DEF Job, NoJob
  <2>3. /\ job' = [job EXCEPT ![w][r] = NoJob] /\ posted' = [posted EXCEPT ![w][r] = posted[w][r]]
        /\ UNCHANGED <<now, source, sweep, plannedFrom>>
    BY <1>2, <1>7 DEF Recover
  <2>4. verdict \notin {"PROCESSING", "NONE", "CANCELLED"} /\ (verdict = "SCHEDULED" => posted[w][r] = 0)
    BY <1>0 DEF JobHoldsRow
  <2> HIDE DEF newRow, verdict
  <2> QED BY <1>0, <2>1, <2>2, <2>3, <2>4, TouchOne DEF CountdownHolds
<1> QED BY <1>3, <1>4, <1>5, <1>6, <1>7 DEF DeliveryStep

LEMMA StepEdit == ASSUME ScheduleInv, Edit PROVE ScheduleInv'
<1>0. TypeOK /\ LockedAndCurrent
  BY DEF ScheduleInv
<1>1. edits \in Nat /\ edits' = edits + 1 /\ edits' \in 0..MaxEdits
  BY <1>0, ScheduleAssumption DEF Edit, TypeOK
<1>2. /\ window' \in Window /\ interest' \in [Watchlist -> BOOLEAN]
      /\ enabled' \in [Watchlist -> SUBSET Reminder]
  BY <1>0 DEF Edit, TypeOK
<1>3. TypeOK'
  BY <1>0, <1>1, <1>2 DEF Edit, TypeOK, delivery
<1>4. LockedAndCurrent'
  <2>1. \A s \in Sweeper : sweep[s].pc \in {"planned", "compared"} => sweep[s].version \in Nat
    BY <1>0 DEF TypeOK, Sweep, NoSweep
  <2>2. \A w \in Watchlist : plannedFrom[w] \in Nat
    BY <1>0 DEF TypeOK
  <2>3. sweep' = sweep /\ plannedFrom' = plannedFrom
    BY DEF Edit
  <2> QED BY <1>0, <1>1, <2>1, <2>2, <2>3 DEF LockedAndCurrent
<1>5. UNCHANGED <<row, delivery>>
  BY DEF Edit
<1> QED BY <1>3, <1>4, <1>5, DeliveryFrame DEF ScheduleInv

LEMMA StepUnsubscribe ==
    ASSUME ScheduleInv, NEW w \in Watchlist, UnsubscribeFromNotifications(w)
    PROVE  ScheduleInv' /\ MovesOpenRows
<1>0. TypeOK /\ LockedAndCurrent /\ JobHoldsRow
  BY DEF ScheduleInv
<1> DEFINE new == [r \in Reminder |-> IF row[w][r].status = "SCHEDULED"
                      THEN [row[w][r] EXCEPT !.status = "CANCELLED"] ELSE row[w][r]]
<1>1. \A old \in Row : /\ [old EXCEPT !.status = "CANCELLED"] \in Row
                       /\ [old EXCEPT !.status = "CANCELLED"].status = "CANCELLED"
  BY DEF Row, Status
<1>2. \A r \in Reminder : row[w][r] \in Row
  BY <1>0 DEF TypeOK
<1>3. new \in [Reminder -> Row]
  BY <1>1, <1>2
<1>4. row' = [row EXCEPT ![w] = new]
  BY DEF UnsubscribeFromNotifications
<1>5. edits \in Nat /\ edits' = edits + 1 /\ edits' \in 0..MaxEdits
  BY <1>0, ScheduleAssumption DEF UnsubscribeFromNotifications, TypeOK
<1>6. TypeOK'
  <2> HIDE DEF new
  <2> QED BY <1>0, <1>3, <1>4, <1>5 DEF UnsubscribeFromNotifications, TypeOK, delivery
<1>7. LockedAndCurrent'
  <2>1. \A s \in Sweeper : sweep[s].pc \in {"planned", "compared"} => sweep[s].version \in Nat
    BY <1>0 DEF TypeOK, Sweep, NoSweep
  <2>2. \A v \in Watchlist : plannedFrom[v] \in Nat
    BY <1>0 DEF TypeOK
  <2>3. sweep' = sweep /\ plannedFrom' = plannedFrom
    BY DEF UnsubscribeFromNotifications
  <2> QED BY <1>0, <1>5, <2>1, <2>2, <2>3 DEF LockedAndCurrent
<1>8. \A v \in Watchlist, r \in Reminder :
        \/ row'[v][r] = row[v][r]
        \/ row[v][r].status = "SCHEDULED" /\ row'[v][r].status = "CANCELLED"
  <2>1. \A v \in Watchlist : row'[v] = IF v = w THEN new ELSE row[v]
    BY <1>0, <1>4 DEF TypeOK
  <2>2. \A r \in Reminder :
          \/ new[r] = row[w][r]
          \/ row[w][r].status = "SCHEDULED" /\ new[r].status = "CANCELLED"
    <3>1. \A r \in Reminder : row[w][r].status # "SCHEDULED" => new[r] = row[w][r]
      OBVIOUS
    <3>2. \A r \in Reminder :
            row[w][r].status = "SCHEDULED" => new[r] = [row[w][r] EXCEPT !.status = "CANCELLED"]
      OBVIOUS
    <3>3. \A r \in Reminder : [row[w][r] EXCEPT !.status = "CANCELLED"].status = "CANCELLED"
      BY <1>1, <1>2
    <3> HIDE DEF new
    <3>4. ASSUME NEW r \in Reminder, row[w][r].status = "SCHEDULED" PROVE new[r].status = "CANCELLED"
      BY <3>2, <3>3, <3>4
    <3> QED BY <3>1, <3>4
  <2> HIDE DEF new
  <2> QED BY <2>1, <2>2
<1>9. UNCHANGED delivery
  BY DEF UnsubscribeFromNotifications
<1>10. JobHoldsRow'
  BY <1>0, <1>8, <1>9 DEF JobHoldsRow, delivery
<1>11. ReminderSentOnce' /\ CountdownIsTrue'
  BY <1>9 DEF ScheduleInv, ReminderSentOnce, CountdownIsTrue, delivery, Day, ReminderAt
<1>12. MovesOpenRows
  BY <1>8 DEF MovesOpenRows
<1> QED BY <1>6, <1>7, <1>10, <1>11, <1>12 DEF ScheduleInv

LEMMA StepQuiet ==
    ASSUME ScheduleInv, UNCHANGED <<source, row, delivery, sweep, plannedFrom>>, now' \in Time
    PROVE  ScheduleInv'
<1>1. TypeOK'
  BY DEF ScheduleInv, TypeOK, source, delivery
<1>2. LockedAndCurrent'
  BY DEF ScheduleInv, LockedAndCurrent, source
<1> QED BY <1>1, <1>2, DeliveryFrame DEF ScheduleInv

LEMMA ScheduleNext == ScheduleInv /\ [Next]_vars => ScheduleInv'
<1> SUFFICES ASSUME ScheduleInv, [Next]_vars PROVE ScheduleInv'
  OBVIOUS
<1>1. ASSUME NEW s \in Sweeper, SweepStep(s) \/ SweepError(s) PROVE ScheduleInv'
  <2>1. CASE StartSweep(s) \/ EndSweep(s) \/ SweepError(s)
    <3>1. /\ [pc |-> "next", at |-> now, todo |-> Watchlist] \in Sweep
          /\ [pc |-> "next", at |-> now, todo |-> Watchlist].pc = "next"
          /\ NoSweep \in Sweep /\ NoSweep.pc = "idle"
      BY DEF ScheduleInv, TypeOK, Sweep, NoSweep
    <3> QED BY <2>1, <3>1, SweepFrame DEF StartSweep, EndSweep, SweepError
  <2> QED BY <1>1, <2>1, StepLoadSource, StepLoadExisting, StepCommit DEF SweepStep
<1>2. ASSUME NEW w \in Watchlist, NEW r \in Reminder, DeliveryStep(w, r) \/ Recover(w, r)
      PROVE  ScheduleInv'
  BY <1>2, StepDelivery
<1>3. CASE Tick
  <2>1. now' \in Time
    BY <1>3, ScheduleAssumption DEF Tick, ScheduleInv, TypeOK, Time
  <2> QED BY <1>3, <2>1, StepQuiet DEF Tick
<1>4. CASE UNCHANGED vars
  BY <1>4, StepQuiet DEF vars, ScheduleInv, TypeOK
<1> QED BY <1>1, <1>2, <1>3, <1>4, StepEdit, StepUnsubscribe DEF Next

\* The invariant of planning and delivering reminders.
THEOREM ScheduleInvariant == Spec => []ScheduleInv
BY ScheduleInit, ScheduleNext, PTL DEF Spec

\* However dates and preferences change, no reminder is sent twice to a follower.
THEOREM SentOnce == Spec => []ReminderSentOnce
<1>1. ScheduleInv => ReminderSentOnce
  BY DEF ScheduleInv
<1> QED BY <1>1, ScheduleInvariant, PTL

\* A reminder never announces a wrong number of days, nor a passed deadline.
THEOREM TruthfulCountdown == Spec => []CountdownIsTrue
<1>1. ScheduleInv => CountdownIsTrue
  BY DEF ScheduleInv
<1> QED BY <1>1, ScheduleInvariant, PTL

\* Reconciliations of a watchlist never return to an older source, because the
\* source is read under the lock.
THEOREM NewestWins == Spec => NewestSourceWins
<1> DEFINE Forward == \A w \in Watchlist : plannedFrom'[w] >= plannedFrom[w]
<1>1. ScheduleInv /\ [Next]_vars => [Forward]_vars
  <2> SUFFICES ASSUME ScheduleInv, Next PROVE Forward
    OBVIOUS
  <2>1. ASSUME NEW s \in Sweeper, CommitReconciliation(s) PROVE Forward
    BY <2>1, StepCommit
  <2>2. CASE plannedFrom' = plannedFrom
    BY <2>2 DEF ScheduleInv, TypeOK
  <2>3. \/ \E s \in Sweeper : CommitReconciliation(s)
        \/ plannedFrom' = plannedFrom
    BY DEF Next, SweepStep, StartSweep, EndSweep, LoadExisting, LoadSource, SweepError,
       DeliveryStep, Claim, Prepare, Post, Finalize, Recover, Edit,
       UnsubscribeFromNotifications, Tick
  <2> QED BY <2>1, <2>2, <2>3
<1> QED BY <1>1, ScheduleInvariant, PTL DEF Spec, NewestSourceWins

-----------------------------------------------------------------------------
(* ReminderSchedule implements DeliveryContract: what planning does is      *)
(* invisible to it, and each step of a delivery is one of the contract's.   *)

PhaseOf(status, pc) ==
    CASE status \in {"NONE", "SCHEDULED", "CANCELLED"} -> "open"
      [] status = "PROCESSING" -> IF pc = "prepare" THEN "open" ELSE "committed"
      [] status = "SENT" -> "sent"
      [] OTHER -> "failed"
Receipt(n) == [s \in {"follower"} |-> n]

LEMMA PhaseAt ==
    ASSUME NEW w \in Watchlist, NEW r \in Reminder
    PROVE  /\ reminderPhase[<<w, r>>] = PhaseOf(row[w][r].status, job[w][r].pc)
           /\ reminderReceipts[<<w, r>>] = Receipt(posted[w][r])
BY DEF reminderPhase, reminderReceipts, PhaseOf, Receipt

\* Nothing shows while deliveries rest and rows move between the open statuses.
LEMMA PlanningIsUnseen ==
    ASSUME UNCHANGED delivery, MovesOpenRows
    PROVE  UNCHANGED <<reminderPhase, reminderReceipts>>
<1>1. ASSUME NEW d \in Watchlist \X Reminder
      PROVE  /\ reminderPhase'[d] = reminderPhase[d]
             /\ reminderReceipts'[d] = reminderReceipts[d]
  <2>1. PICK w \in Watchlist, r \in Reminder : d = <<w, r>>
    OBVIOUS
  <2> QED BY <2>1 DEF reminderPhase, reminderReceipts, delivery, MovesOpenRows
<1> QED BY <1>1 DEF reminderPhase, reminderReceipts

\* A delivery's step shows as a move of its own phase and receipt.
OnlyDelivery(w, r) ==
    \A v \in Watchlist, q \in Reminder : <<v, q>> # <<w, r>> =>
        row'[v][q] = row[v][q] /\ job'[v][q] = job[v][q] /\ posted'[v][q] = posted[v][q]

LEMMA DeliveryIsSeen ==
    ASSUME NEW w \in Watchlist, NEW r \in Reminder, OnlyDelivery(w, r)
    PROVE  /\ reminderPhase' =
                [reminderPhase EXCEPT ![<<w, r>>] = PhaseOf(row'[w][r].status, job'[w][r].pc)]
           /\ reminderReceipts' = [reminderReceipts EXCEPT ![<<w, r>>] = Receipt(posted'[w][r])]
<1>1. ASSUME NEW d \in Watchlist \X Reminder
      PROVE  /\ reminderPhase'[d] = IF d = <<w, r>> THEN PhaseOf(row'[w][r].status, job'[w][r].pc)
                                    ELSE reminderPhase[d]
             /\ reminderReceipts'[d] = IF d = <<w, r>> THEN Receipt(posted'[w][r])
                                       ELSE reminderReceipts[d]
  <2>1. PICK v \in Watchlist, q \in Reminder : d = <<v, q>>
    OBVIOUS
  <2>2. CASE d = <<w, r>>
    BY <2>2 DEF reminderPhase, reminderReceipts, PhaseOf, Receipt
  <2>3. CASE d # <<w, r>>
    BY <2>1, <2>3 DEF OnlyDelivery, reminderPhase, reminderReceipts
  <2> QED BY <2>2, <2>3
<1>2. /\ reminderPhase' = [d \in Watchlist \X Reminder |-> reminderPhase'[d]]
      /\ reminderPhase = [d \in Watchlist \X Reminder |-> reminderPhase[d]]
  BY DEF reminderPhase
<1>3. /\ reminderReceipts' = [d \in Watchlist \X Reminder |-> reminderReceipts'[d]]
      /\ reminderReceipts = [d \in Watchlist \X Reminder |-> reminderReceipts[d]]
  BY DEF reminderReceipts
<1> QED BY <1>1, <1>2, <1>3

Seen == Contract!Next \/ UNCHANGED <<reminderPhase, reminderReceipts>>

LEMMA DeliveryStepSeen ==
    ASSUME ScheduleInv, NEW w \in Watchlist, NEW r \in Reminder,
           DeliveryStep(w, r) \/ Recover(w, r)
    PROVE  Seen
<1> DEFINE d == <<w, r>>
<1>0. /\ TypeOK /\ d \in Watchlist \X Reminder
      /\ row[w][r] \in Row /\ job[w][r] \in Job /\ posted[w][r] \in Nat
      /\ job[w][r].pc # "none" => row[w][r].status = "PROCESSING"
      /\ job[w][r].pc \in {"prepare", "send"} => posted[w][r] = 0
      /\ job[w][r].pc = "posted" => posted[w][r] = 1
  <2>1. TypeOK /\ JobHoldsRow
    BY DEF ScheduleInv
  <2>2. row[w][r] \in Row /\ job[w][r] \in Job /\ posted[w][r] \in Nat
    BY <2>1 DEF TypeOK
  <2> QED BY <2>1, <2>2 DEF JobHoldsRow
<1>1. reminderPhase = [reminderPhase EXCEPT ![d] = PhaseOf(row[w][r].status, job[w][r].pc)]
  BY PhaseAt DEF reminderPhase
<1>2. reminderReceipts = [reminderReceipts EXCEPT ![d] = Receipt(posted[w][r])]
  BY PhaseAt DEF reminderReceipts
<1>3. OnlyDelivery(w, r)
  BY <1>0 DEF OnlyDelivery, DeliveryStep, Claim, Prepare, Post, Finalize, Recover, TypeOK
<1>4. /\ reminderPhase' = [reminderPhase EXCEPT ![d] = PhaseOf(row'[w][r].status, job'[w][r].pc)]
      /\ reminderReceipts' = [reminderReceipts EXCEPT ![d] = Receipt(posted'[w][r])]
  BY <1>3, DeliveryIsSeen
<1>5. /\ reminderPhase[d] = PhaseOf(row[w][r].status, job[w][r].pc)
      /\ reminderReceipts[d] = Receipt(posted[w][r])
  BY PhaseAt
<1> HIDE DEF d
<1>6. CASE Claim(w, r)
  <2>1. /\ row[w][r].status = "SCHEDULED" /\ row'[w][r].status = "PROCESSING"
        /\ job'[w][r].pc = "prepare" /\ posted' = posted
    BY <1>0, <1>6 DEF Claim, TypeOK, Row
  <2>2. PhaseOf(row'[w][r].status, job'[w][r].pc) = PhaseOf(row[w][r].status, job[w][r].pc)
    BY <2>1 DEF PhaseOf
  <2> QED BY <1>1, <1>2, <1>4, <2>1, <2>2 DEF Seen
<1>7. CASE Prepare(w, r)
  <2>1. /\ job[w][r].pc = "prepare" /\ row[w][r].status = "PROCESSING" /\ posted' = posted
        /\ \/ job'[w][r].pc = "send" /\ row'[w][r].status = "PROCESSING"
           \/ row'[w][r].status = "CANCELLED"
    BY <1>0, <1>7 DEF Prepare, TypeOK, Row
  <2>2. PhaseOf(row[w][r].status, job[w][r].pc) = "open"
    BY <2>1 DEF PhaseOf
  <2>3. CASE job'[w][r].pc = "send" /\ row'[w][r].status = "PROCESSING"
    <3>1. PhaseOf(row'[w][r].status, job'[w][r].pc) = "committed"
      BY <2>3 DEF PhaseOf
    <3>2. Contract!Commit(d)
      BY <1>2, <1>4, <1>5, <2>1, <2>2, <3>1 DEF Contract!Commit, Contract!Move
    <3> QED BY <1>0, <3>2 DEF Seen, Contract!Next
  <2>4. CASE row'[w][r].status = "CANCELLED"
    <3>1. PhaseOf(row'[w][r].status, job'[w][r].pc) = "open"
      BY <2>4 DEF PhaseOf
    <3> QED BY <1>1, <1>2, <1>4, <2>1, <2>2, <3>1 DEF Seen
  <2> QED BY <2>1, <2>3, <2>4
<1>8. CASE Post(w, r)
  <2>1. /\ job[w][r].pc = "send" /\ job'[w][r].pc = "posted" /\ row' = row
        /\ row[w][r].status = "PROCESSING" /\ posted[w][r] = 0 /\ posted'[w][r] = 1
    BY <1>0, <1>8 DEF Post, TypeOK, Job, NoJob
  <2>2. /\ PhaseOf(row[w][r].status, job[w][r].pc) = "committed"
        /\ PhaseOf(row'[w][r].status, job'[w][r].pc) = "committed"
    BY <2>1 DEF PhaseOf
  <2>3. reminderReceipts' = [reminderReceipts EXCEPT ![d]["follower"] = 1]
    BY <1>4, <1>5, <2>1 DEF Receipt
  <2>4. UNCHANGED reminderPhase
    BY <1>1, <1>4, <2>2
  <2>5. Contract!Receive(d, "follower")
    BY <1>5, <2>1, <2>2, <2>3, <2>4 DEF Contract!Receive, Receipt
  <2> QED BY <1>0, <2>5 DEF Seen, Contract!Next
<1>9. CASE Finalize(w, r)
  <2>1. /\ job[w][r].pc = "posted" /\ row[w][r].status = "PROCESSING" /\ posted[w][r] = 1
        /\ row'[w][r].status \in {"SENT", "FAILED"} /\ posted' = posted
    BY <1>0, <1>9 DEF Finalize, TypeOK, Row
  <2>2. reminderPhase[d] = "committed" /\ ~Contract!Untouched(d) /\ UNCHANGED reminderReceipts
    BY <1>2, <1>4, <1>5, <2>1 DEF PhaseOf, Contract!Untouched, Receipt
  <2>3. CASE row'[w][r].status = "SENT"
    <3>1. PhaseOf(row'[w][r].status, job'[w][r].pc) = "sent"
      BY <2>3 DEF PhaseOf
    <3>2. Contract!Confirm(d)
      BY <1>4, <2>2, <3>1 DEF Contract!Confirm, Contract!Move
    <3> QED BY <1>0, <3>2 DEF Seen, Contract!Next
  <2>4. CASE row'[w][r].status = "FAILED"
    <3>1. PhaseOf(row'[w][r].status, job'[w][r].pc) = "failed"
      BY <2>4 DEF PhaseOf
    <3>2. Contract!Fail(d)
      BY <1>4, <2>2, <3>1 DEF Contract!Fail, Contract!Move
    <3> QED BY <1>0, <3>2 DEF Seen, Contract!Next
  <2> QED BY <2>1, <2>3, <2>4
<1>10. CASE Recover(w, r)
  <2>1. /\ row[w][r].status = "PROCESSING" /\ posted' = posted
        /\ row'[w][r].status = IF job[w][r].pc = "prepare" THEN "SCHEDULED" ELSE "FAILED"
    BY <1>0, <1>10 DEF Recover, TypeOK, Row
  <2>2. CASE job[w][r].pc = "prepare"
    <3>1. PhaseOf(row'[w][r].status, job'[w][r].pc) = PhaseOf(row[w][r].status, job[w][r].pc)
      BY <2>1, <2>2 DEF PhaseOf
    <3> QED BY <1>1, <1>2, <1>4, <2>1, <3>1 DEF Seen
  <2>3. CASE job[w][r].pc # "prepare"
    <3>1. /\ PhaseOf(row[w][r].status, job[w][r].pc) = "committed"
          /\ PhaseOf(row'[w][r].status, job'[w][r].pc) = "failed"
      BY <2>1, <2>3 DEF PhaseOf
    <3>2. Contract!Fail(d)
      BY <1>2, <1>4, <1>5, <2>1, <3>1 DEF Contract!Fail, Contract!Move
    <3> QED BY <1>0, <3>2 DEF Seen, Contract!Next
  <2> QED BY <2>2, <2>3
<1> QED BY <1>6, <1>7, <1>8, <1>9, <1>10 DEF DeliveryStep

LEMMA ScheduleSeen == ScheduleInv /\ [Next]_vars => Seen
<1> SUFFICES ASSUME ScheduleInv, [Next]_vars PROVE Seen
  OBVIOUS
<1>1. CASE UNCHANGED <<row, delivery>>
  BY <1>1, PlanningIsUnseen DEF MovesOpenRows, Seen
<1>2. ASSUME NEW s \in Sweeper, CommitReconciliation(s) PROVE Seen
  BY <1>2, StepCommit, PlanningIsUnseen DEF CommitReconciliation, Seen
<1>3. ASSUME NEW w \in Watchlist, UnsubscribeFromNotifications(w) PROVE Seen
  BY <1>3, StepUnsubscribe, PlanningIsUnseen DEF UnsubscribeFromNotifications, Seen
<1>4. CASE \/ \E s \in Sweeper : SweepError(s) \/ StartSweep(s) \/ EndSweep(s) \/ LoadExisting(s)
           \/ \E s \in Sweeper, w \in Watchlist : LoadSource(s, w)
           \/ Edit \/ Tick \/ UNCHANGED vars
  BY <1>1, <1>4 DEF SweepError, StartSweep, EndSweep, LoadExisting, LoadSource, Edit, Tick, vars
<1> QED BY <1>2, <1>3, <1>4, DeliveryStepSeen DEF Next, SweepStep

\* However the planner corrects, withdraws and revives reminders, each one is committed,
\* received and closed the way DeliveryContract says, and never opened again after that.
THEOREM RemindersImplementContract == Spec => RemindersKeepContract
<1>1. Init => Contract!Init
  <2> SUFFICES ASSUME Init PROVE Contract!Init
    OBVIOUS
  <2>1. ASSUME NEW d \in Watchlist \X Reminder
        PROVE  reminderPhase[d] = "open" /\ reminderReceipts[d] = Receipt(0)
    <3>1. PICK w \in Watchlist, r \in Reminder : d = <<w, r>>
      OBVIOUS
    <3> QED BY <3>1, PhaseAt DEF Init, Absent, PhaseOf
  <2> QED BY <2>1 DEF Contract!Init, reminderPhase, reminderReceipts, Receipt
<1>2. ScheduleInv /\ [Next]_vars => [Contract!Next]_(Contract!contractVars)
  BY ScheduleSeen DEF Seen, Contract!contractVars
<1> QED BY <1>1, <1>2, ScheduleInvariant, PTL DEF Spec, RemindersKeepContract, Contract!Spec
=============================================================================
