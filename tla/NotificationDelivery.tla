------------------------ MODULE NotificationDelivery ------------------------
(***************************************************************************)
(* The life of one user's notification_deliveries rows in the worker       *)
(* (apps/worker/src/notification-delivery.ts): the dispatcher queues due   *)
(* rows, BullMQ hands them to concurrent job executions, an execution      *)
(* claims its row by compare-and-set, revalidates it, promotes its claim   *)
(* to SENDING, posts to every active push endpoint with bounded retries    *)
(* and finalizes; the recovery scan resets or quarantines claims older     *)
(* than StaleAfter.  Every await of the code is a step boundary here, so   *)
(* crashes, lost BullMQ locks, reconciliation and unsubscription fall      *)
(* between any two of them.                                                *)
(***************************************************************************)
EXTENDS Integers, FiniteSets

CONSTANTS
    Delivery,      \* row ids of notification_deliveries, all of one user
    Subscription,  \* that user's push_subscriptions rows
    Slot,          \* concurrently running job executions (5 per process)
    Maintainer,    \* worker processes, each with one dispatch loop
    Token,         \* claim tokens (random UUIDs: fresh while visible)
    StaleAfter,    \* STALE_NOTIFICATION_CLAIM_MILLISECONDS, in clock units
    MaxAttempts,   \* MAX_WEB_PUSH_ATTEMPTS
    BatchLimit,    \* the dispatcher's limit (100)
    MaxTime,       \* bound: the clock stops here
    LastCrash      \* bound: no crash, error or lost lock after this instant

ASSUME BoundsAssumption ==
    /\ StaleAfter \in Nat \ {0}
    /\ MaxAttempts \in Nat \ {0}
    /\ BatchLimit \in Nat \ {0}
    /\ MaxTime \in Nat
    /\ LastCrash \in Nat

\* BullMQ's job states and its slots share the range of "queue".
ASSUME SlotAssumption == Slot \cap {"absent", "waiting"} = {}

VARIABLES
    now,           \* the worker's wall clock
    status,        \* notification_deliveries.status; ABSENT, DELETED: no row
    scheduledFor,  \* notification_deliveries.scheduled_for
    errorMessage,  \* notification_deliveries.error_message: marker or message
    sentAt,        \* notification_deliveries.sent_at, -1 for NULL
    active,        \* subscriptions whose revoked_at is NULL
    queue,         \* BullMQ: absent, waiting, or the slot holding the lock
    run,           \* each slot's execution of processNotificationDeliveryJob
    maint,         \* each process's recoverStale... / dispatchDue... loop
    wire,          \* requests whose sender no longer waits for the answer
    accepted       \* history: how often the push service took d for s

rowVars == <<status, scheduledFor, errorMessage, sentAt>>
vars == <<now, status, scheduledFor, errorMessage, sentAt, active, queue,
          run, maint, wire, accepted>>

Time == 0..MaxTime
NoTime == -1
Status == {"ABSENT", "SCHEDULED", "PROCESSING", "SENT", "FAILED",
           "CANCELLED", "DELETED"}

ClaimMarker == [kind : {"claim"}, token : Token, at : Time,
                phase : {"CLAIMED", "SENDING"}]
SafeMessage == [kind : {"none", "stale", "retry", "dead-letter", "partial"}]
Message == ClaimMarker \cup SafeMessage
Safe(kind) == [kind |-> kind]
Claimed(token, at) == [kind |-> "claim", token |-> token, at |-> at, phase |-> "CLAIMED"]
Sending(token, at) == [kind |-> "claim", token |-> token, at |-> at, phase |-> "SENDING"]

\* Progress of one endpoint inside deliverWebPushWithRetry.  "taken": the push
\* service accepted the request and its answer is on the way.
Final == {"SENT", "INDETERMINATE", "INVALID", "PERMANENT", "TRANSIENT"}
Progress == {"ready", "requested", "taken"} \cup Final

\* An execution of processNotificationDeliveryJob; its pc names the await it
\* runs next.  at and token make up its markers, targets is the subscription
\* list it loaded, verdict and message what it will write.
Idle == [pc |-> "idle"]
Done(d) == [pc |-> "done", delivery |-> d]
Job ==
    [pc : {"claim", "identity", "prepare", "list", "promote", "abandon",
           "send", "revoke", "finalize"},
     delivery : Delivery, at : Time, token : Token,
     targets : SUBSET Subscription,
     result : [Subscription -> Progress],
     attempt : [Subscription -> 1..MaxAttempts],
     verdict : {"SENT", "FAILED", "CANCELLED"}, message : SafeMessage,
     completedAt : Time]
Execution == {Idle} \cup [pc : {"done"}, delivery : Delivery] \cup Job

Loop == {Idle}
        \cup [pc : {"recover"}, at : Time, claims : SUBSET (Delivery \X Message)]
        \cup [pc : {"dispatch"}, due : SUBSET Delivery]

TypeOK ==
    /\ now \in Time
    /\ status \in [Delivery -> Status]
    /\ scheduledFor \in [Delivery -> Time]
    /\ errorMessage \in [Delivery -> Message]
    /\ sentAt \in [Delivery -> Time \cup {NoTime}]
    /\ active \in SUBSET Subscription
    /\ queue \in [Delivery -> {"absent", "waiting"} \cup Slot]
    /\ run \in [Slot -> Execution]
    /\ maint \in [Maintainer -> Loop]
    /\ wire \in SUBSET (Delivery \X Subscription)
    /\ accepted \in [Delivery -> [Subscription -> Nat]]

Init ==
    /\ now = 0
    /\ status = [d \in Delivery |-> "ABSENT"]
    /\ scheduledFor = [d \in Delivery |-> 0]
    /\ errorMessage = [d \in Delivery |-> Safe("none")]
    /\ sentAt = [d \in Delivery |-> NoTime]
    /\ active \in SUBSET Subscription
    /\ queue = [d \in Delivery |-> "absent"]
    /\ run = [w \in Slot |-> Idle]
    /\ maint = [m \in Maintainer |-> Idle]
    /\ wire = {}
    /\ accepted = [d \in Delivery |-> [s \in Subscription |-> 0]]

-----------------------------------------------------------------------------
(* The row: every write is an updateMany whose WHERE is a compare-and-set.  *)
(*                                                                         *)
(* A definition that directly precedes another of the same parameters, and *)
(* that nothing uses, is a broken variant of it (a dropped guard, a        *)
(* forgotten case): substituting it shows that the properties notice.      *)

Due(d, at) == status[d] = "SCHEDULED" /\ scheduledFor[d] <= at

\* The claim repeats the condition of the listing: the row may have moved.
ClaimableOnceListed(d, at) == status[d] = "SCHEDULED"
Claimable(d, at) == Due(d, at)

HoldsByStatus(d, marker) == status[d] = "PROCESSING"
Holds(d, marker) == status[d] = "PROCESSING" /\ errorMessage[d] = marker

WriteRow(d, newStatus, message, sent) ==
    /\ status' = [status EXCEPT ![d] = newStatus]
    /\ errorMessage' = [errorMessage EXCEPT ![d] = message]
    /\ sentAt' = [sentAt EXCEPT ![d] = sent]
    /\ UNCHANGED scheduledFor

ClaimScheduledDelivery(d, token, at) ==
    WriteRow(d, "PROCESSING", Claimed(token, at), NoTime)

PromoteKeepingPhase(d, token, at) ==
    WriteRow(d, status[d], Claimed(token, at), sentAt[d])
PromoteClaimToSending(d, token, at) ==
    WriteRow(d, status[d], Sending(token, at), sentAt[d])

FinalizeClaimedDelivery(d, marker, verdict, completedAt, message) ==
    IF Holds(d, marker)
    THEN WriteRow(d, verdict, message, IF verdict = "SENT" THEN completedAt ELSE NoTime)
    ELSE UNCHANGED rowVars

ResetStaleClaimedDelivery(d, marker) ==
    IF Holds(d, marker)
    THEN WriteRow(d, "SCHEDULED", Safe("retry"), NoTime)
    ELSE UNCHANGED rowVars

-----------------------------------------------------------------------------
(* One execution of processNotificationDeliveryJob in a BullMQ slot.        *)

Live(w) == run[w].pc \notin {"idle", "done"}

\* A random UUID differs from every token still visible anywhere.
FreshIfConstant(token) == TRUE
Fresh(token) ==
    /\ \A w \in Slot : Live(w) => run[w].token # token
    /\ \A d \in Delivery :
          errorMessage[d].kind = "claim" => errorMessage[d].token # token
    /\ \A m \in Maintainer : maint[m].pc = "recover" =>
          \A c \in maint[m].claims : c[2].kind = "claim" => c[2].token # token

At(w, pc) == run[w].pc = pc
Goto(w, pc) == run' = [run EXCEPT ![w].pc = pc]
Finish(w) == run' = [run EXCEPT ![w] = Done(@.delivery)]

\* BullMQ hands a waiting job to an idle slot; the processor reads its clock
\* and creates both markers before it awaits the claim.
Start(w, d) ==
    /\ run[w] = Idle
    /\ queue[d] = "waiting"
    /\ \E token \in Token :
          /\ Fresh(token)
          /\ run' = [run EXCEPT ![w] =
                [pc |-> "claim", delivery |-> d, at |-> now, token |-> token,
                 targets |-> {}, result |-> [s \in Subscription |-> "ready"],
                 attempt |-> [s \in Subscription |-> 1],
                 verdict |-> "FAILED", message |-> Safe("none"), completedAt |-> now]]
    /\ queue' = [queue EXCEPT ![d] = w]
    /\ UNCHANGED <<now, rowVars, active, maint, wire, accepted>>

Claim(w) ==
    /\ At(w, "claim")
    /\ LET d == run[w].delivery
           won == Claimable(d, run[w].at)
       IN  /\ IF won THEN ClaimScheduledDelivery(d, run[w].token, run[w].at)
                     ELSE UNCHANGED rowVars
           /\ IF won THEN Goto(w, "identity") ELSE Finish(w)
    /\ UNCHANGED <<now, active, queue, maint, wire, accepted>>

LoadClaimedDeliveryIdentity(w) ==
    /\ At(w, "identity")
    /\ IF Holds(run[w].delivery, Claimed(run[w].token, run[w].at))
       THEN Goto(w, "prepare") ELSE Finish(w)
    /\ UNCHANGED <<now, rowVars, active, queue, maint, wire, accepted>>

\* Gives up before the network with the given verdict.
GiveUp(w, verdict, message) ==
    run' = [run EXCEPT ![w] = [@ EXCEPT !.pc = "abandon", !.verdict = verdict,
                                        !.message = Safe(message)]]

\* Revalidation reads the row again with its dates, preference and evidence,
\* which are not part of this module: it may find the reminder stale at any
\* time, it must when the row is gone or no endpoint is active, it may throw.
Prepare(w) ==
    /\ At(w, "prepare")
    /\ \/ /\ status[run[w].delivery] # "DELETED"
          /\ active # {}
          /\ Goto(w, "list")
       \/ GiveUp(w, "CANCELLED", "stale")
       \/ GiveUp(w, "FAILED", "dead-letter")
    /\ UNCHANGED <<now, rowVars, active, queue, maint, wire, accepted>>

ListActivePushSubscriptions(w) ==
    /\ At(w, "list")
    /\ \/ /\ active # {}
          /\ run' = [run EXCEPT ![w] = [@ EXCEPT !.pc = "promote", !.targets = active]]
       \/ /\ active = {}
          /\ GiveUp(w, "CANCELLED", "stale")
       \/ GiveUp(w, "FAILED", "dead-letter")
    /\ UNCHANGED <<now, rowVars, active, queue, maint, wire, accepted>>

Abandon(w) ==
    /\ At(w, "abandon")
    /\ FinalizeClaimedDelivery(run[w].delivery, Claimed(run[w].token, run[w].at),
                               run[w].verdict, run[w].at, run[w].message)
    /\ Finish(w)
    /\ UNCHANGED <<now, active, queue, maint, wire, accepted>>

Promote(w) ==
    /\ At(w, "promote")
    /\ LET d == run[w].delivery
           won == Holds(d, Claimed(run[w].token, run[w].at))
       IN  /\ IF won THEN PromoteClaimToSending(d, run[w].token, run[w].at)
                     ELSE UNCHANGED rowVars
           /\ IF won THEN Goto(w, "send") ELSE Finish(w)
    /\ UNCHANGED <<now, active, queue, maint, wire, accepted>>

-----------------------------------------------------------------------------
(* deliverWebPushWithRetry, one instance per endpoint, all concurrent.      *)

Accept(d, s) == accepted' = [accepted EXCEPT ![d][s] = @ + 1]
Reaches(w, s, kind) == run' = [run EXCEPT ![w].result[s] = kind]

Request(w, s) ==
    /\ At(w, "send")
    /\ s \in run[w].targets
    /\ run[w].result[s] = "ready"
    /\ Reaches(w, s, "requested")
    /\ UNCHANGED <<now, rowVars, active, queue, maint, wire, accepted>>

ServiceAccepts(w, s) ==
    /\ At(w, "send")
    /\ run[w].result[s] = "requested"
    /\ Reaches(w, s, "taken")
    /\ Accept(run[w].delivery, s)
    /\ UNCHANGED <<now, rowVars, active, queue, maint, wire>>

\* The answer of an accepted request arrives, or its connection breaks first.
AcceptedAnswer(w, s) ==
    /\ At(w, "send")
    /\ run[w].result[s] = "taken"
    /\ \E kind \in {"SENT", "INDETERMINATE"} :
          Reaches(w, s, kind)
    /\ UNCHANGED <<now, rowVars, active, queue, maint, wire, accepted>>

\* An HTTP status other than success (or a DNS or endpoint-safety failure
\* before the request): nothing was accepted.  Only TRANSIENT is retried.
Refused(w, s) ==
    /\ At(w, "send")
    /\ run[w].result[s] = "requested"
    /\ \/ \E kind \in {"INVALID", "PERMANENT"} :
             Reaches(w, s, kind)
       \/ /\ run[w].attempt[s] = MaxAttempts
          /\ Reaches(w, s, "TRANSIENT")
       \/ /\ run[w].attempt[s] < MaxAttempts
          /\ run' = [run EXCEPT ![w].result[s] = "ready",
                                ![w].attempt[s] = run[w].attempt[s] + 1]
    /\ UNCHANGED <<now, rowVars, active, queue, maint, wire, accepted>>

\* No answer within the socket timeout: the request may still be under way.
NoAnswer(w, s) ==
    /\ At(w, "send")
    /\ run[w].result[s] = "requested"
    /\ Reaches(w, s, "INDETERMINATE")
    /\ \E late \in BOOLEAN :
          wire' = IF late THEN wire \cup {<<run[w].delivery, s>>} ELSE wire
    /\ UNCHANGED <<now, rowVars, active, queue, maint, accepted>>

LateArrival(d, s) ==
    /\ <<d, s>> \in wire
    /\ wire' = wire \ {<<d, s>>}
    /\ Accept(d, s) \/ UNCHANGED accepted
    /\ UNCHANGED <<now, rowVars, active, queue, run, maint>>

SuccessOrNoAnswer == {"SENT", "INDETERMINATE"}
Success == {"SENT"}
UnresolvedIfAnswered == {"PERMANENT", "TRANSIENT"}
Unresolved == {"INDETERMINATE", "PERMANENT", "TRANSIENT"}
Outcome(w, kinds) == {s \in run[w].targets : run[w].result[s] \in kinds}

\* Promise.all has settled: the outcomes are counted and the verdict chosen.
Collect(w) ==
    /\ At(w, "send")
    /\ Outcome(w, Final) = run[w].targets
    /\ LET sent       == Outcome(w, Success)
           invalid    == Outcome(w, {"INVALID"})
           unresolved == Outcome(w, Unresolved)
           verdict    == IF sent # {} THEN "SENT"
                         ELSE IF unresolved = {} THEN "CANCELLED" ELSE "FAILED"
           message    == CASE verdict = "FAILED"    -> "dead-letter"
                           [] verdict = "CANCELLED" -> "stale"
                           [] OTHER -> IF unresolved \cup invalid # {} THEN "partial" ELSE "none"
       IN  run' = [run EXCEPT ![w] =
              [@ EXCEPT !.pc = IF invalid # {} THEN "revoke" ELSE "finalize",
                        !.verdict = verdict, !.message = Safe(message), !.completedAt = now]]
    /\ UNCHANGED <<now, rowVars, active, queue, maint, wire, accepted>>

RevokeInvalidPushSubscriptions(w) ==
    /\ At(w, "revoke")
    /\ active' = active \ Outcome(w, {"INVALID"})
    /\ Goto(w, "finalize")
    /\ UNCHANGED <<now, rowVars, queue, maint, wire, accepted>>

Finalize(w) ==
    /\ At(w, "finalize")
    /\ FinalizeClaimedDelivery(run[w].delivery, Sending(run[w].token, run[w].at),
                               run[w].verdict, run[w].completedAt, run[w].message)
    /\ Finish(w)
    /\ UNCHANGED <<now, active, queue, maint, wire, accepted>>

-----------------------------------------------------------------------------
(* BullMQ, crashes and thrown errors.                                       *)

\* removeOnComplete / removeOnFail, honoured only while the slot holds the lock.
ReleaseKeepingRecord(w) ==
    queue' = [d \in Delivery |-> IF queue[d] = w THEN "completed" ELSE queue[d]]
ReleaseJob(w) ==
    queue' = [d \in Delivery |-> IF queue[d] = w THEN "absent" ELSE queue[d]]

Complete(w) ==
    /\ At(w, "done")
    /\ run' = [run EXCEPT ![w] = Idle]
    /\ ReleaseJob(w)
    /\ UNCHANGED <<now, rowVars, active, maint, wire, accepted>>

\* Requests a dead execution leaves on the network.
Orphans(w) ==
    IF At(w, "send")
    THEN {<<run[w].delivery, s>> : s \in {s \in run[w].targets : run[w].result[s] = "requested"}}
    ELSE {}

CrashSlot(w) ==
    /\ now <= LastCrash
    /\ run[w] # Idle
    /\ run' = [run EXCEPT ![w] = Idle]
    /\ wire' = wire \cup Orphans(w)
    /\ UNCHANGED <<now, rowVars, active, queue, maint, accepted>>

\* A database error outside the try block fails the job: one BullMQ attempt.
ThrowError(w) ==
    /\ now <= LastCrash
    /\ run[w].pc \in {"claim", "identity", "promote", "abandon", "revoke", "finalize"}
    /\ run' = [run EXCEPT ![w] = Idle]
    /\ ReleaseJob(w)
    /\ UNCHANGED <<now, rowVars, active, maint, wire, accepted>>

\* The stalled-job check returns a job whose lock was not renewed to the queue,
\* or fails it for good once it stalled too often.
Unlock(d) ==
    /\ queue[d] \in Slot
    /\ \E state \in {"waiting", "absent"} : queue' = [queue EXCEPT ![d] = state]
    /\ UNCHANGED <<now, rowVars, active, run, maint, wire, accepted>>

Running(w, d) == run[w] # Idle /\ run[w].delivery = d

ReclaimLostJob(d) == queue[d] \in Slot /\ ~Running(queue[d], d) /\ Unlock(d)
LoseLock(d) == queue[d] \in Slot /\ Running(queue[d], d) /\ now <= LastCrash /\ Unlock(d)

-----------------------------------------------------------------------------
(* The 30-second loop of every worker process: recover, then dispatch.      *)

RecoverList(m) ==
    /\ maint[m].pc = "idle"
    /\ maint' = [maint EXCEPT ![m] =
          [pc |-> "recover", at |-> now,
           claims |-> {<<d, errorMessage[d]>> : d \in {d \in Delivery : status[d] = "PROCESSING"}}]]
    /\ UNCHANGED <<now, rowVars, active, queue, run, wire, accepted>>

\* A young claim may still be running.  A stale one is retried if it was never
\* promoted; anything else, an unreadable marker included, is quarantined.
YoungOrSending(marker, at) ==
    marker.kind = "claim" /\ (at - marker.at < StaleAfter \/ marker.phase = "SENDING")
Young(marker, at) == marker.kind = "claim" /\ at - marker.at < StaleAfter
RetriableAnyPhase(marker) == marker.kind = "claim"
Retriable(marker) == marker.kind = "claim" /\ marker.phase = "CLAIMED"

RecoverOne(m) ==
    /\ maint[m].pc = "recover"
    /\ \E c \in maint[m].claims :
          LET marker == c[2]
          IN  /\ maint' = [maint EXCEPT ![m].claims = @ \ {c}]
              /\ CASE Young(marker, maint[m].at) -> UNCHANGED rowVars
                   [] ~Young(marker, maint[m].at) /\ Retriable(marker) ->
                         ResetStaleClaimedDelivery(c[1], marker)
                   [] OTHER ->
                         FinalizeClaimedDelivery(c[1], marker, "FAILED", maint[m].at,
                                                 Safe("dead-letter"))
    /\ UNCHANGED <<now, active, queue, run, wire, accepted>>

\* The due rows, oldest first, cut at the limit.
OldestDue(batch) ==
    LET due == {d \in Delivery : Due(d, now)}
    IN  /\ batch \subseteq due
        /\ Cardinality(batch) <= BatchLimit
        /\ batch # due => Cardinality(batch) = BatchLimit
        /\ \A d \in batch, e \in due \ batch : scheduledFor[d] <= scheduledFor[e]

DispatchList(m) ==
    /\ maint[m].pc = "recover"
    /\ maint[m].claims = {}
    /\ \E batch \in SUBSET Delivery :
          /\ OldestDue(batch)
          /\ maint' = [maint EXCEPT ![m] = [pc |-> "dispatch", due |-> batch]]
    /\ UNCHANGED <<now, rowVars, active, queue, run, wire, accepted>>

\* queue.add with jobId = deliveryId does nothing while such a job exists.
DispatchOne(m) ==
    /\ maint[m].pc = "dispatch"
    /\ \E d \in maint[m].due :
          /\ maint' = [maint EXCEPT ![m].due = @ \ {d}]
          /\ queue' = [queue EXCEPT ![d] = IF @ = "absent" THEN "waiting" ELSE @]
    /\ UNCHANGED <<now, rowVars, active, run, wire, accepted>>

DispatchEnd(m) ==
    /\ maint[m].pc = "dispatch"
    /\ maint[m].due = {}
    /\ maint' = [maint EXCEPT ![m] = Idle]
    /\ UNCHANGED <<now, rowVars, active, queue, run, wire, accepted>>

\* A recovery error is caught and the dispatch still runs; a dispatch error or
\* a crash ends the round.
LoopError(m) ==
    /\ now <= LastCrash
    /\ maint[m].pc # "idle"
    /\ \/ /\ maint[m].pc = "recover"
          /\ maint[m].claims # {}
          /\ maint' = [maint EXCEPT ![m].claims = {}]
       \/ maint' = [maint EXCEPT ![m] = Idle]
    /\ UNCHANGED <<now, rowVars, active, queue, run, wire, accepted>>

-----------------------------------------------------------------------------
(* The other writers of the row and of the subscriptions.                   *)

\* createMany and RESCHEDULE / REACTIVATE of a reconciliation; the planner's clock
\* reading may be older than now, and a date change is planned for that reading.
CreateRow(d, at) ==
    /\ status[d] = "ABSENT"
    /\ status' = [status EXCEPT ![d] = "SCHEDULED"]
    /\ scheduledFor' = [scheduledFor EXCEPT ![d] = at]
    /\ UNCHANGED <<now, errorMessage, sentAt, active, queue, run, maint, wire, accepted>>

ReplannableIfFailed == {"SCHEDULED", "CANCELLED", "FAILED"}
Replannable == {"SCHEDULED", "CANCELLED"}

RescheduleRow(d, at) ==
    /\ status[d] \in Replannable
    /\ status' = [status EXCEPT ![d] = "SCHEDULED"]
    /\ scheduledFor' = [scheduledFor EXCEPT ![d] = at]
    /\ errorMessage' = [errorMessage EXCEPT ![d] = Safe("none")]
    /\ UNCHANGED <<now, sentAt, active, queue, run, maint, wire, accepted>>

CancelRow(d) ==
    /\ status[d] = "SCHEDULED"
    /\ status' = [status EXCEPT ![d] = "CANCELLED"]
    /\ UNCHANGED <<now, scheduledFor, errorMessage, sentAt, active, queue, run,
                   maint, wire, accepted>>

\* Unfollow or account deletion: the row goes with its watchlist.
DeleteRow(d) ==
    /\ status[d] \notin {"ABSENT", "DELETED"}
    /\ WriteRow(d, "DELETED", Safe("none"), NoTime)
    /\ UNCHANGED <<now, active, queue, run, maint, wire, accepted>>

UnsubscribeFromNotifications ==
    /\ active' = {}
    /\ status' = [d \in Delivery |-> IF status[d] = "SCHEDULED" THEN "CANCELLED" ELSE status[d]]
    /\ UNCHANGED <<now, scheduledFor, errorMessage, sentAt, queue, run, maint, wire, accepted>>

StorePushSubscription(s) ==
    /\ active' = active \cup {s}
    /\ UNCHANGED <<now, rowVars, queue, run, maint, wire, accepted>>

RevokePushSubscription(s) ==
    /\ active' = active \ {s}
    /\ UNCHANGED <<now, rowVars, queue, run, maint, wire, accepted>>

Tick ==
    /\ now < MaxTime
    /\ now' = now + 1
    /\ UNCHANGED <<rowVars, active, queue, run, maint, wire, accepted>>

-----------------------------------------------------------------------------
SendStep(w, s) ==
    \/ Request(w, s) \/ ServiceAccepts(w, s) \/ AcceptedAnswer(w, s)
    \/ Refused(w, s) \/ NoAnswer(w, s)

JobStep(w) ==
    \/ Claim(w) \/ LoadClaimedDeliveryIdentity(w) \/ Prepare(w)
    \/ ListActivePushSubscriptions(w) \/ Abandon(w) \/ Promote(w)
    \/ \E s \in Subscription : SendStep(w, s)
    \/ Collect(w) \/ RevokeInvalidPushSubscriptions(w) \/ Finalize(w) \/ Complete(w)

LoopStep(m) ==
    \/ RecoverList(m) \/ RecoverOne(m)
    \/ DispatchList(m) \/ DispatchOne(m) \/ DispatchEnd(m)

Failure ==
    \/ \E w \in Slot : CrashSlot(w) \/ ThrowError(w)
    \/ \E d \in Delivery : LoseLock(d)
    \/ \E m \in Maintainer : LoopError(m)

\* Bound: rows are planned only while the clock still runs.
Environment ==
    \/ \E d \in Delivery, at \in Time :
          now < MaxTime /\ (CreateRow(d, at) \/ RescheduleRow(d, at))
    \/ \E d \in Delivery : CancelRow(d) \/ DeleteRow(d)
    \/ \E s \in Subscription : StorePushSubscription(s) \/ RevokePushSubscription(s)
    \/ UnsubscribeFromNotifications

Next ==
    \/ \E w \in Slot, d \in Delivery : Start(w, d)
    \/ \E w \in Slot : JobStep(w)
    \/ \E d \in Delivery, s \in Subscription : LateArrival(d, s)
    \/ \E d \in Delivery : ReclaimLostJob(d)
    \/ \E m \in Maintainer : LoopStep(m)
    \/ Failure
    \/ Environment
    \/ Tick

Spec == Init /\ [][Next]_vars

\* The event loop runs every started execution, BullMQ's queue is FIFO and its
\* stalled-job check periodic, setInterval repeats the loop, time passes.
\* Failures, the push service's acceptance and the users' actions are not fair.
Fairness ==
    /\ \A w \in Slot : WF_vars(JobStep(w))
    /\ \A d \in Delivery : SF_vars(\E w \in Slot : Start(w, d))
    /\ \A d \in Delivery : WF_vars(ReclaimLostJob(d))
    /\ \A m \in Maintainer : WF_vars(LoopStep(m))
    /\ WF_vars(Tick)

FairSpec == Spec /\ Fairness

-----------------------------------------------------------------------------
(* Properties.                                                              *)

Posting == {"send", "revoke", "finalize"}
Executing(w, pcs, d) == run[w].pc \in pcs /\ run[w].delivery = d
OnWire(d, s) == IF <<d, s>> \in wire THEN 1 ELSE 0
NothingSent(d) == \A s \in Subscription : accepted[d][s] + OnWire(d, s) = 0

\* A push endpoint is handed one notification at most once, whatever retries,
\* recoveries, reactivations, lost locks and crashes did to its row: "an
\* already successful endpoint is never sent the event again".
AtMostOnce ==
    \A d \in Delivery, s \in Subscription : accepted[d][s] + OnWire(d, s) <= 1

\* Two executions never post the same delivery at the same time, although
\* BullMQ may hand it out twice and recovery may reset a claim under its owner.
OneSender ==
    \A w1, w2 \in Slot, d \in Delivery :
        Executing(w1, Posting, d) /\ Executing(w2, Posting, d) => w1 = w2

\* A row that can be claimed again, now or after a reactivation, has never
\* reached a push service and nobody is sending it: the reason why recovery may
\* reset CLAIMED markers and reconciliation may reactivate CANCELLED rows.
RetryableMeansUnsent ==
    \A d \in Delivery : status[d] \in {"SCHEDULED", "CANCELLED"} =>
        /\ NothingSent(d)
        /\ \A w \in Slot : ~Executing(w, {"send"}, d)

\* SENT is written only when a push service took the notification, and sentAt
\* exactly then, not before the row was due.
SentIsTruthful ==
    \A d \in Delivery :
        /\ status[d] = "SENT" =>
              /\ \E s \in Subscription : accepted[d][s] > 0
              /\ sentAt[d] >= scheduledFor[d]
        /\ status[d] # "SENT" => sentAt[d] = NoTime

\* No push service is handed a notification before its row's schedule, although
\* reconciliation moves schedules while jobs are queued and running.
NeverEarly ==
    \A d \in Delivery : ~NothingSent(d) => scheduledFor[d] <= now

\* SENT and FAILED are terminal: a late finalization, a recovery round or a
\* reconciliation that listed the row earlier cannot overwrite them.
VerdictIsFinal ==
    [][\A d \in Delivery :
          status[d] \in {"SENT", "FAILED"} => status'[d] \in {status[d], "DELETED"}]_vars

\* The worker implements DeliveryContract: claims, resets and reconciliation
\* are invisible, the SENDING marker is the commitment.
contractPhase ==
    [d \in Delivery |->
        CASE status[d] \in {"ABSENT", "SCHEDULED", "CANCELLED"} -> "open"
          [] status[d] = "PROCESSING" ->
                IF errorMessage[d].phase = "SENDING" THEN "committed" ELSE "open"
          [] status[d] = "SENT"    -> "sent"
          [] status[d] = "FAILED"  -> "failed"
          [] OTHER -> "gone"]
Contract == INSTANCE DeliveryContract WITH phase <- contractPhase, receipts <- accepted
ContractSpec == Contract!Spec

-----------------------------------------------------------------------------
(* The inductive invariant behind the properties above.                     *)

\* Live executions have different tokens, and clock readings lie in the past.
LiveTokens ==
    /\ \A w1, w2 \in Slot :
          Live(w1) /\ Live(w2) /\ run[w1].token = run[w2].token => w1 = w2
    /\ \A w \in Slot : Live(w) =>
          run[w].at <= run[w].completedAt /\ run[w].completedAt <= now

\* A PROCESSING row carries a readable marker, of a claim made when it was due.
MarkedRows ==
    \A d \in Delivery : status[d] = "PROCESSING" =>
        /\ errorMessage[d].kind = "claim"
        /\ scheduledFor[d] <= errorMessage[d].at
        /\ errorMessage[d].at <= now

\* Outside SENDING, SENT, FAILED and deletion, the network has not been touched.
UncommittedMeansUnsent ==
    \A d \in Delivery : contractPhase[d] = "open" => NothingSent(d)

\* A posting execution still holds its row, or the row is quarantined or gone.
PosterOwnsRow ==
    \A w \in Slot, d \in Delivery : Executing(w, Posting, d) =>
        /\ \/ Holds(d, Sending(run[w].token, run[w].at))
           \/ status[d] \in {"FAILED", "DELETED"}
        /\ scheduledFor[d] <= run[w].at

\* What an execution knows of an endpoint agrees with what happened to it.
PosterKnows ==
    \A w \in Slot, d \in Delivery : Executing(w, Posting, d) =>
        \A s \in Subscription :
            /\ run[w].result[s] \in {"taken", "SENT"} => accepted[d][s] = 1 /\ OnWire(d, s) = 0
            /\ run[w].result[s] \notin {"taken", "SENT", "INDETERMINATE"} =>
                  accepted[d][s] = 0 /\ OnWire(d, s) = 0
            /\ s \notin run[w].targets => run[w].result[s] = "ready"

\* Nothing was posted before the promotion.
NotYetPosting ==
    \A w \in Slot : Live(w) /\ run[w].pc \notin Posting =>
        /\ \A s \in Subscription : run[w].result[s] = "ready"
        /\ run[w].verdict # "SENT"

\* The verdict of a collected execution follows from its results.
VerdictFollows ==
    \A w \in Slot : run[w].pc \in {"revoke", "finalize"} =>
        /\ run[w].verdict = "SENT" => \E s \in Subscription : run[w].result[s] = "SENT"
        /\ run[w].verdict = "CANCELLED" => \A s \in run[w].targets : run[w].result[s] = "INVALID"

DeliveryInv ==
    /\ TypeOK /\ LiveTokens /\ MarkedRows /\ UncommittedMeansUnsent
    /\ PosterOwnsRow /\ PosterKnows /\ NotYetPosting /\ VerdictFollows
    /\ OneSender /\ AtMostOnce /\ SentIsTruthful /\ NeverEarly

\* No row stays PROCESSING for ever, whenever its execution died.
ClaimsResolve ==
    \A d \in Delivery : status[d] = "PROCESSING" ~> status[d] # "PROCESSING"

\* A due row does not wait for ever behind BullMQ's job-id deduplication, a
\* stalled job or a full batch.
DueIsProcessed ==
    \A d \in Delivery :
        status[d] = "SCHEDULED" /\ scheduledFor[d] <= now
            ~> ~(status[d] = "SCHEDULED" /\ scheduledFor[d] <= now)
=============================================================================
