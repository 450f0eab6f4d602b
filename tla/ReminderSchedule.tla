--------------------------- MODULE ReminderSchedule ---------------------------
(***************************************************************************)
(* When a follower is reminded: the planner turns a watchlist's dates and  *)
(* preferences into the reminders it wants, a reconciliation compares them *)
(* with the persisted rows under the watchlist's advisory lock             *)
(* (apps/worker/src/notifications/planner.ts, reconciliation.ts,           *)
(* repository.ts, scheduler.ts), and a delivery that claimed a row checks  *)
(* it once more against the source (deadline-reminders.ts,                 *)
(* opening-reminders.ts).  Sweeps, deliveries and the edits of users and   *)
(* admins interleave freely.  Claims are exclusive here: that is what      *)
(* NotificationDelivery shows.                                             *)
(***************************************************************************)
EXTENDS Integers

CONSTANTS
    Watchlist,        \* followers of one intake with one application window
    Sweeper,          \* processes that reconcile
    OpeningOffsets,   \* days before opensAt (0: opening day)
    DeadlineOffsets,  \* days before closesAt
    TicksPerDay,      \* clock units in one UTC day
    EventInstant,     \* instants opensAt and closesAt may take
    MaxTime,          \* bound: the clock stops here
    MaxEdits          \* bound: number of edits of the source

ASSUME ScheduleAssumption ==
    /\ TicksPerDay \in Nat \ {0}
    /\ OpeningOffsets \subseteq Nat
    /\ DeadlineOffsets \subseteq Nat
    /\ EventInstant \subseteq Nat
    /\ MaxTime \in Nat
    /\ MaxEdits \in Nat

VARIABLES
    now,          \* wall clock
    window,       \* the application window: opensAt, closesAt, published
    interest,     \* per watchlist: not APPLIED and some active push endpoint
    enabled,      \* per watchlist: the reminders its preference asks for
    edits,        \* how often window, interest or enabled changed
    row,          \* notification_deliveries, one per deduplication key
    job,          \* the delivery holding a PROCESSING row
    posted,       \* history: how often a reminder went to the push services
    sweep,        \* each process's runReminderScheduleSweep
    plannedFrom   \* history: the value of edits the last reconciliation read

source == <<window, interest, enabled, edits>>
delivery == <<job, posted>>
vars == <<now, source, row, delivery, sweep, plannedFrom>>

Reminder == [kind : {"APPLICATION_OPENING"}, offset : OpeningOffsets]
            \cup [kind : {"APPLICATION_DEADLINE"}, offset : DeadlineOffsets]
Time == 0..MaxTime
NoDate == -1
Status == {"NONE", "SCHEDULED", "PROCESSING", "SENT", "FAILED", "CANCELLED"}

Window == [opensAt : EventInstant \cup {NoDate}, closesAt : EventInstant \cup {NoDate},
           published : BOOLEAN]
Row == [status : Status, scheduledFor : Int]
Absent == [status |-> "NONE", scheduledFor |-> 0]

NoJob == [pc |-> "none"]
Job == {NoJob} \cup [pc : {"prepare"}, at : Time]
       \cup [pc : {"send", "posted"}, at : Time, event : EventInstant]

\* What a reconciliation wants for a reminder: an instant or nothing.
Desired == [Reminder -> Int \cup {NoDate}]
Change == {"CREATE", "REACTIVATE", "RESCHEDULE", "CANCEL", "unchanged"}
NoSweep == [pc |-> "idle"]
Sweep ==
    {NoSweep}
    \cup [pc : {"next"}, at : Time, todo : SUBSET Watchlist]
    \cup [pc : {"planned"}, at : Time, todo : SUBSET Watchlist, watchlist : Watchlist,
          desired : Desired, version : Nat]
    \cup [pc : {"compared"}, at : Time, todo : SUBSET Watchlist, watchlist : Watchlist,
          desired : Desired, version : Nat, change : [Reminder -> Change]]

TypeOK ==
    /\ now \in Time
    /\ window \in Window
    /\ interest \in [Watchlist -> BOOLEAN]
    /\ enabled \in [Watchlist -> SUBSET Reminder]
    /\ edits \in 0..MaxEdits
    /\ row \in [Watchlist -> [Reminder -> Row]]
    /\ job \in [Watchlist -> [Reminder -> Job]]
    /\ posted \in [Watchlist -> [Reminder -> Nat]]
    /\ sweep \in [Sweeper -> Sweep]
    /\ plannedFrom \in [Watchlist -> Nat]

Init ==
    /\ now = 0
    /\ window \in Window
    /\ interest = [w \in Watchlist |-> TRUE]
    /\ enabled = [w \in Watchlist |-> Reminder]
    /\ edits = 0
    /\ row = [w \in Watchlist |-> [r \in Reminder |-> Absent]]
    /\ job = [w \in Watchlist |-> [r \in Reminder |-> NoJob]]
    /\ posted = [w \in Watchlist |-> [r \in Reminder |-> 0]]
    /\ sweep = [s \in Sweeper |-> NoSweep]
    /\ plannedFrom = [w \in Watchlist |-> 0]

-----------------------------------------------------------------------------
(* The planner: pure functions of the source and a clock reading.           *)
(*                                                                         *)
(* A definition that directly precedes another of the same parameters, and *)
(* that nothing uses, is a broken variant of it: substituting it shows     *)
(* that the properties notice.                                             *)

Day(t) == t \div TicksPerDay
EventOf(r) == IF r.kind = "APPLICATION_OPENING" THEN window.opensAt ELSE window.closesAt
ReminderAt(event, r) == event - r.offset * TicksPerDay

\* The instant at which r should be sent, or NoDate: instants that are not in
\* the future of the clock reading are not wanted.
Plan(w, r, at) ==
    IF /\ interest[w]
       /\ window.published
       /\ r \in enabled[w]
       /\ EventOf(r) # NoDate
       /\ ReminderAt(EventOf(r), r) > at
    THEN ReminderAt(EventOf(r), r)
    ELSE NoDate

ReactivatableIfFailed == {"CANCELLED", "FAILED"}
Reactivatable == {"CANCELLED"}

ChangeWithoutRevival(w, r, wanted) ==
    CASE wanted # NoDate /\ row[w][r].status = "NONE" -> "CREATE"
      [] /\ wanted # NoDate
         /\ row[w][r].status = "SCHEDULED"
         /\ row[w][r].scheduledFor # wanted -> "RESCHEDULE"
      [] wanted = NoDate /\ row[w][r].status = "SCHEDULED" -> "CANCEL"
      [] OTHER -> "unchanged"
ChangeFor(w, r, wanted) ==
    CASE wanted # NoDate /\ row[w][r].status = "NONE" -> "CREATE"
      [] wanted # NoDate /\ row[w][r].status \in Reactivatable -> "REACTIVATE"
      [] /\ wanted # NoDate
         /\ row[w][r].status = "SCHEDULED"
         /\ row[w][r].scheduledFor # wanted -> "RESCHEDULE"
      [] wanted = NoDate /\ row[w][r].status = "SCHEDULED" -> "CANCEL"
      [] OTHER -> "unchanged"

\* Each change is an updateMany that repeats the status it was chosen for (or
\* an insert that skips duplicates): the row may have moved since.
ExpectedIfCancelBlind ==
    [CREATE |-> {"NONE"}, REACTIVATE |-> Reactivatable, RESCHEDULE |-> {"SCHEDULED"},
     CANCEL |-> Status, unchanged |-> {}]
Expected ==
    [CREATE |-> {"NONE"}, REACTIVATE |-> Reactivatable, RESCHEDULE |-> {"SCHEDULED"},
     CANCEL |-> {"SCHEDULED"}, unchanged |-> {}]

Apply(old, change, wanted) ==
    IF old.status \notin Expected[change] THEN old
    ELSE IF change = "CANCEL" THEN [old EXCEPT !.status = "CANCELLED"]
    ELSE [status |-> "SCHEDULED", scheduledFor |-> wanted]

-----------------------------------------------------------------------------
(* Reconciliation.                                                          *)

\* The clock is read once for the whole sweep.
StartSweep(s) ==
    /\ sweep[s].pc = "idle"
    /\ sweep' = [sweep EXCEPT ![s] = [pc |-> "next", at |-> now, todo |-> Watchlist]]
    /\ UNCHANGED <<now, source, row, delivery, plannedFrom>>

\* pg_advisory_xact_lock on the watchlist, held until the transaction ends.
Locked(w) == \E s \in Sweeper : sweep[s].pc \in {"planned", "compared"} /\ sweep[s].watchlist = w
LockIgnored(w) == TRUE
LockFree(w) == ~Locked(w)

\* The source is read after the lock is taken.
LoadSource(s, w) ==
    /\ sweep[s].pc = "next"
    /\ w \in sweep[s].todo
    /\ LockFree(w)
    /\ sweep' = [sweep EXCEPT ![s] =
          [pc |-> "planned", at |-> @.at, todo |-> @.todo \ {w}, watchlist |-> w,
           desired |-> [r \in Reminder |-> Plan(w, r, sweep[s].at)], version |-> edits]]
    /\ UNCHANGED <<now, source, row, delivery, plannedFrom>>

LoadExisting(s) ==
    /\ sweep[s].pc = "planned"
    /\ LET w == sweep[s].watchlist
       IN  sweep' = [sweep EXCEPT ![s] =
              [pc |-> "compared", at |-> @.at, todo |-> @.todo, watchlist |-> w,
               desired |-> @.desired, version |-> @.version,
               change |-> [r \in Reminder |-> ChangeFor(w, r, sweep[s].desired[r])]]]
    /\ UNCHANGED <<now, source, row, delivery, plannedFrom>>

CommitReconciliation(s) ==
    /\ sweep[s].pc = "compared"
    /\ LET w == sweep[s].watchlist
       IN  /\ row' = [row EXCEPT ![w] =
                  [r \in Reminder |-> Apply(@[r], sweep[s].change[r], sweep[s].desired[r])]]
           /\ plannedFrom' = [plannedFrom EXCEPT ![w] = sweep[s].version]
    /\ sweep' = [sweep EXCEPT ![s] = [pc |-> "next", at |-> @.at, todo |-> @.todo]]
    /\ UNCHANGED <<now, source, delivery>>

EndSweep(s) ==
    /\ sweep[s].pc = "next"
    /\ sweep[s].todo = {}
    /\ sweep' = [sweep EXCEPT ![s] = NoSweep]
    /\ UNCHANGED <<now, source, row, delivery, plannedFrom>>

\* An error rolls the transaction back and abandons the rest of the sweep, a
\* crash does the same (bound: failures end before the clock stops).
SweepError(s) ==
    /\ sweep[s].pc # "idle"
    /\ now < MaxTime
    /\ sweep' = [sweep EXCEPT ![s] = NoSweep]
    /\ UNCHANGED <<now, source, row, delivery, plannedFrom>>

-----------------------------------------------------------------------------
(* Delivery of a due row.                                                   *)

Claim(w, r) ==
    /\ row[w][r].status = "SCHEDULED"
    /\ row[w][r].scheduledFor <= now
    /\ row' = [row EXCEPT ![w][r].status = "PROCESSING"]
    /\ job' = [job EXCEPT ![w][r] = [pc |-> "prepare", at |-> now]]
    /\ UNCHANGED <<now, source, posted, sweep, plannedFrom>>

StillPlannedByDay(w, r, at) == TRUE
StillPlanned(w, r, at) == ReminderAt(EventOf(r), r) = row[w][r].scheduledFor

\* prepareDeadlineReminderJob and prepareOpeningReminderJob.
Deliverable(w, r, at) ==
    /\ interest[w]
    /\ Day(row[w][r].scheduledFor) = Day(at)
    /\ r \in enabled[w]
    /\ EventOf(r) # NoDate
    /\ window.published
    /\ r.kind = "APPLICATION_DEADLINE" => EventOf(r) > at
    /\ StillPlanned(w, r, at)

\* The revalidation may also fail on the programme, its university or its
\* official source, which the planner does not look at.
Prepare(w, r) ==
    /\ job[w][r].pc = "prepare"
    /\ \/ /\ Deliverable(w, r, job[w][r].at)
          /\ job' = [job EXCEPT ![w][r] = [pc |-> "send", at |-> @.at, event |-> EventOf(r)]]
          /\ UNCHANGED row
       \/ /\ job' = [job EXCEPT ![w][r] = NoJob]
          /\ row' = [row EXCEPT ![w][r].status = "CANCELLED"]
    /\ UNCHANGED <<now, source, posted, sweep, plannedFrom>>

Post(w, r) ==
    /\ job[w][r].pc = "send"
    /\ job' = [job EXCEPT ![w][r].pc = "posted"]
    /\ posted' = [posted EXCEPT ![w][r] = @ + 1]
    /\ UNCHANGED <<now, source, row, sweep, plannedFrom>>

Finalize(w, r) ==
    /\ job[w][r].pc = "posted"
    /\ job' = [job EXCEPT ![w][r] = NoJob]
    /\ \E verdict \in {"SENT", "FAILED"} : row' = [row EXCEPT ![w][r].status = verdict]
    /\ UNCHANGED <<now, source, posted, sweep, plannedFrom>>

\* The owner died or is fenced out: a claim that never reached the network is
\* retried, any other is quarantined.
Recover(w, r) ==
    /\ job[w][r].pc # "none"
    /\ now < MaxTime
    /\ job' = [job EXCEPT ![w][r] = NoJob]
    /\ row' = [row EXCEPT ![w][r].status =
          IF job[w][r].pc = "prepare" THEN "SCHEDULED" ELSE "FAILED"]
    /\ UNCHANGED <<now, source, posted, sweep, plannedFrom>>

-----------------------------------------------------------------------------
(* Users and admins edit the source without the watchlist's lock.           *)

Edit ==
    /\ edits < MaxEdits
    /\ edits' = edits + 1
    /\ \/ /\ window' \in Window
          /\ UNCHANGED <<interest, enabled>>
       \/ /\ \E w \in Watchlist : interest' = [interest EXCEPT ![w] = ~@]
          /\ UNCHANGED <<window, enabled>>
       \/ /\ \E w \in Watchlist, wanted \in SUBSET Reminder :
                enabled' = [enabled EXCEPT ![w] = wanted]
          /\ UNCHANGED <<window, interest>>
    /\ UNCHANGED <<now, row, delivery, sweep, plannedFrom>>

\* Turning notifications off revokes the endpoints and cancels the pending rows,
\* without the watchlist's lock too.
UnsubscribeFromNotifications(w) ==
    /\ edits < MaxEdits
    /\ edits' = edits + 1
    /\ interest' = [interest EXCEPT ![w] = FALSE]
    /\ row' = [row EXCEPT ![w] = [r \in Reminder |->
          IF @[r].status = "SCHEDULED" THEN [@[r] EXCEPT !.status = "CANCELLED"] ELSE @[r]]]
    /\ UNCHANGED <<now, window, enabled, delivery, sweep, plannedFrom>>

Tick ==
    /\ now < MaxTime
    /\ now' = now + 1
    /\ UNCHANGED <<source, row, delivery, sweep, plannedFrom>>

-----------------------------------------------------------------------------
SweepStep(s) ==
    \/ StartSweep(s) \/ EndSweep(s) \/ LoadExisting(s) \/ CommitReconciliation(s)
    \/ \E w \in Watchlist : LoadSource(s, w)

DeliveryStep(w, r) == Claim(w, r) \/ Prepare(w, r) \/ Post(w, r) \/ Finalize(w, r)

Next ==
    \/ \E s \in Sweeper : SweepStep(s) \/ SweepError(s)
    \/ \E w \in Watchlist, r \in Reminder : DeliveryStep(w, r) \/ Recover(w, r)
    \/ Edit
    \/ \E w \in Watchlist : UnsubscribeFromNotifications(w)
    \/ Tick

Spec == Init /\ [][Next]_vars

\* Each process repeats its sweep every five minutes and rejects overlap, the
\* dispatcher every thirty seconds, and the clock runs.
Fairness ==
    /\ \A s \in Sweeper : WF_vars(SweepStep(s))
    /\ \A w \in Watchlist, r \in Reminder : WF_vars(DeliveryStep(w, r))
    /\ WF_vars(Tick)

FairSpec == Spec /\ Fairness

-----------------------------------------------------------------------------
(* Properties.                                                              *)

\* Whatever its date did, a reminder with a given offset is sent to a follower
\* once: corrections move a pending row and never revive a finished one.
ReminderSentOnce == \A w \in Watchlist, r \in Reminder : posted[w][r] <= 1

\* What the reminder says is true when it is prepared: it goes out on the UTC
\* day that lies the announced number of days before the date it names, and never
\* after a deadline, however the date moved while the row was planned, queued or being swept.
CountdownIsTrue ==
    \A w \in Watchlist, r \in Reminder : job[w][r].pc \in {"send", "posted"} =>
        /\ Day(ReminderAt(job[w][r].event, r)) = Day(job[w][r].at)
        /\ r.kind = "APPLICATION_DEADLINE" => job[w][r].event > job[w][r].at

\* "A delayed run could read an old date, acquire the lock after a newer run,
\* and overwrite the newer schedule": it cannot, the rows of a watchlist never
\* go back to an older version of its source.
NewestSourceWins ==
    [][\A w \in Watchlist : plannedFrom'[w] >= plannedFrom[w]]_vars

\* A row is PROCESSING exactly while a delivery holds it, and only finished
\* rows, or the one being finished, have been posted.
JobHoldsRow ==
    \A w \in Watchlist, r \in Reminder :
        /\ job[w][r].pc # "none" <=> row[w][r].status = "PROCESSING"
        /\ row[w][r].status \in {"NONE", "SCHEDULED", "CANCELLED"} => posted[w][r] = 0
        /\ job[w][r].pc \in {"prepare", "send"} => posted[w][r] = 0
        /\ job[w][r].pc = "posted" => posted[w][r] = 1

\* One reconciliation at a time works on a watchlist, from a source at least as
\* new as the one its rows come from.
LockedAndCurrent ==
    /\ \A s1, s2 \in Sweeper :
          /\ sweep[s1].pc \in {"planned", "compared"}
          /\ sweep[s2].pc \in {"planned", "compared"}
          /\ sweep[s1].watchlist = sweep[s2].watchlist
          => s1 = s2
    /\ \A s \in Sweeper : sweep[s].pc \in {"planned", "compared"} =>
          /\ sweep[s].version <= edits
          /\ plannedFrom[sweep[s].watchlist] <= sweep[s].version
    /\ \A w \in Watchlist : plannedFrom[w] <= edits

\* The inductive invariant: the sweeps' transactions and the deliveries share
\* the rows through compare-and-set updates only.
ScheduleInv ==
    TypeOK /\ JobHoldsRow /\ LockedAndCurrent /\ ReminderSentOnce /\ CountdownIsTrue

\* The sweep "eventually captures any missed trigger": once edits stop, every
\* wanted reminder has a row at the right instant (or one that was already
\* delivered or is being delivered) and no other row is left pending.
Consistent ==
    \A w \in Watchlist, r \in Reminder :
        LET wanted == Plan(w, r, now)
        IN  IF wanted # NoDate
            THEN \/ row[w][r] = [status |-> "SCHEDULED", scheduledFor |-> wanted]
                 \/ row[w][r].status \in {"SENT", "FAILED"}
            ELSE row[w][r].status \notin {"SCHEDULED", "PROCESSING"}
SweepCatchesUp == <>[]Consistent

\* The promise of DeliveryContract, which the worker keeps for single rows, survives
\* planning: reconciliations, edits and recoveries are invisible to it, so no correction
\* of a date reopens a reminder that was sent, failed or is on its way to its follower.
reminderPhase ==
    [d \in Watchlist \X Reminder |->
        CASE row[d[1]][d[2]].status \in {"NONE", "SCHEDULED", "CANCELLED"} -> "open"
          [] row[d[1]][d[2]].status = "PROCESSING" ->
                IF job[d[1]][d[2]].pc = "prepare" THEN "open" ELSE "committed"
          [] row[d[1]][d[2]].status = "SENT" -> "sent"
          [] OTHER -> "failed"]
reminderReceipts == [d \in Watchlist \X Reminder |-> [s \in {"follower"} |-> posted[d[1]][d[2]]]]
Contract ==
    INSTANCE DeliveryContract WITH Delivery <- Watchlist \X Reminder, Subscription <- {"follower"},
                                   phase <- reminderPhase, receipts <- reminderReceipts
RemindersKeepContract == Contract!Spec

\* A reminder that is due and that its delivery would accept is delivered: no
\* reconciliation withdraws it ("a reminder is delivered once").
DueIsNotWithdrawn ==
    [][\A w \in Watchlist, r \in Reminder :
          /\ row[w][r].status = "SCHEDULED"
          /\ row[w][r].scheduledFor <= now
          /\ Deliverable(w, r, now)
          /\ interest'[w]
          => row'[w][r].status # "CANCELLED"]_vars
=============================================================================
