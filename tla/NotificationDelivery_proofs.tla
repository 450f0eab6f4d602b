--------------------- MODULE NotificationDelivery_proofs ---------------------
(***************************************************************************)
(* Proofs about NotificationDelivery, for every number of deliveries,      *)
(* endpoints, executions, processes and attempts: types, the inductive     *)
(* invariant DeliveryInv with the safety properties that follow, and that  *)
(* NotificationDelivery implements DeliveryContract.                       *)
(***************************************************************************)
EXTENDS NotificationDelivery, TLAPS

\* A live execution is a Job record.
LEMMA LiveIsJob ==
    ASSUME TypeOK, NEW w \in Slot, Live(w)
    PROVE  run[w] \in Job
BY DEF TypeOK, Live, Execution, Idle

JobPc == {"claim", "identity", "prepare", "list", "promote", "abandon",
          "send", "revoke", "finalize"}
Verdict == {"SENT", "FAILED", "CANCELLED"}

\* The shapes of update an execution's own steps make keep it a Job record.
LEMMA JobUpdates ==
    ASSUME NEW j \in Job
    PROVE  /\ \A p \in JobPc : [j EXCEPT !.pc = p] \in Job
           /\ \A p \in JobPc, t \in SUBSET Subscription :
                [j EXCEPT !.pc = p, !.targets = t] \in Job
           /\ \A p \in JobPc, v \in Verdict, m \in SafeMessage :
                [j EXCEPT !.pc = p, !.verdict = v, !.message = m] \in Job
           /\ \A p \in JobPc, v \in Verdict, m \in SafeMessage, t \in Time :
                [j EXCEPT !.pc = p, !.verdict = v, !.message = m, !.completedAt = t] \in Job
BY DEF Job, JobPc, Verdict

LEMMA JobResult ==
    ASSUME NEW j \in Job, NEW s \in Subscription, NEW r \in Progress
    PROVE  /\ [j EXCEPT !.result[s] = r] \in Job
           /\ j.attempt[s] < MaxAttempts =>
                [j EXCEPT !.result[s] = r, !.attempt[s] = j.attempt[s] + 1] \in Job
<1>1. j.result \in [Subscription -> Progress] /\ j.attempt \in [Subscription -> 1..MaxAttempts]
  BY DEF Job
<1>2. [j.result EXCEPT ![s] = r] \in [Subscription -> Progress]
  BY <1>1
<1>3. j.attempt[s] < MaxAttempts =>
         [j.attempt EXCEPT ![s] = j.attempt[s] + 1] \in [Subscription -> 1..MaxAttempts]
  BY <1>1, BoundsAssumption
<1> QED BY <1>2, <1>3 DEF Job

LEMMA TypeRun ==
    ASSUME TypeOK, NEW w \in Slot, NEW j \in Job, run' = [run EXCEPT ![w] = j]
    PROVE  run' \in [Slot -> Execution]
BY DEF TypeOK, Execution

LEMMA TypeGoto ==
    ASSUME TypeOK, NEW w \in Slot, run[w] \in Job, NEW p \in JobPc, Goto(w, p)
    PROVE  run' \in [Slot -> Execution]
BY JobUpdates, TypeRun DEF Goto

LEMMA TypeFinish ==
    ASSUME TypeOK, NEW w \in Slot, run[w] \in Job, Finish(w)
    PROVE  run' \in [Slot -> Execution]
BY DEF Finish, Done, TypeOK, Execution, Job

LEMMA TypeGiveUp ==
    ASSUME TypeOK, NEW w \in Slot, run[w] \in Job, NEW v \in Verdict,
           NEW k \in {"stale", "dead-letter"}, GiveUp(w, v, k)
    PROVE  run' \in [Slot -> Execution]
BY JobUpdates, TypeRun DEF GiveUp, Safe, SafeMessage, JobPc

LEMMA TypeAccept ==
    ASSUME TypeOK, NEW d \in Delivery, NEW s \in Subscription, Accept(d, s)
    PROVE  accepted' \in [Delivery -> [Subscription -> Nat]]
<1>1. [accepted[d] EXCEPT ![s] = @ + 1] \in [Subscription -> Nat]
  BY DEF TypeOK
<1> QED BY <1>1 DEF Accept, TypeOK

LEMMA TypeInit == Init => TypeOK
BY BoundsAssumption DEF Init, TypeOK, Time, NoTime, Status, Message, SafeMessage, Safe,
   Execution, Loop, Idle

\* What the execution's own actions do to the types, action by action.
LEMMA TypeRow ==
    ASSUME TypeOK, NEW d \in Delivery, NEW st \in Status, NEW m \in Message,
           NEW t \in Time \cup {NoTime}, WriteRow(d, st, m, t)
    PROVE  /\ status' \in [Delivery -> Status]
           /\ scheduledFor' \in [Delivery -> Time]
           /\ errorMessage' \in [Delivery -> Message]
           /\ sentAt' \in [Delivery -> Time \cup {NoTime}]
BY DEF TypeOK, WriteRow

RowTypes ==
    /\ status \in [Delivery -> Status]
    /\ scheduledFor \in [Delivery -> Time]
    /\ errorMessage \in [Delivery -> Message]
    /\ sentAt \in [Delivery -> Time \cup {NoTime}]

LEMMA MarkerTypes ==
    ASSUME NEW token \in Token, NEW at \in Time
    PROVE  Claimed(token, at) \in Message /\ Sending(token, at) \in Message
BY DEF Claimed, Sending, Message, ClaimMarker

LEMMA TypeFinalize ==
    ASSUME TypeOK, NEW d \in Delivery, NEW m, NEW v \in {"SENT", "FAILED", "CANCELLED"},
           NEW t \in Time, NEW msg \in SafeMessage, FinalizeClaimedDelivery(d, m, v, t, msg)
    PROVE  RowTypes'
<1>1. CASE Holds(d, m)
  BY <1>1, TypeRow DEF FinalizeClaimedDelivery, Status, Message, NoTime, RowTypes
<1>2. CASE ~Holds(d, m)
  BY <1>2 DEF FinalizeClaimedDelivery, rowVars, TypeOK, RowTypes
<1> QED BY <1>1, <1>2

LEMMA TypeReset ==
    ASSUME TypeOK, NEW d \in Delivery, NEW m, ResetStaleClaimedDelivery(d, m)
    PROVE  RowTypes'
<1>1. CASE Holds(d, m)
  BY <1>1, TypeRow DEF ResetStaleClaimedDelivery, Status, Message, SafeMessage, Safe, NoTime, RowTypes
<1>2. CASE ~Holds(d, m)
  BY <1>2 DEF ResetStaleClaimedDelivery, rowVars, TypeOK, RowTypes
<1> QED BY <1>1, <1>2

LEMMA TypeNext == TypeOK /\ [Next]_vars => TypeOK'
<1> SUFFICES ASSUME TypeOK, [Next]_vars PROVE TypeOK'
  OBVIOUS
<1> USE BoundsAssumption
<1>1. ASSUME NEW w \in Slot, NEW d \in Delivery, Start(w, d) PROVE TypeOK'
  <2>1. PICK token \in Token :
           run' = [run EXCEPT ![w] =
                [pc |-> "claim", delivery |-> d, at |-> now, token |-> token,
                 targets |-> {}, result |-> [s \in Subscription |-> "ready"],
                 attempt |-> [s \in Subscription |-> 1],
                 verdict |-> "FAILED", message |-> Safe("none"), completedAt |-> now]]
    BY <1>1 DEF Start
  <2>2. run' \in [Slot -> Execution]
    BY <2>1 DEF TypeOK, Execution, Job, SafeMessage, Safe, Progress
  <2>3. queue' \in [Delivery -> {"absent", "waiting"} \cup Slot]
    BY <1>1 DEF Start, TypeOK
  <2> QED BY <1>1, <2>2, <2>3 DEF Start, TypeOK, rowVars
<1>2. ASSUME NEW w \in Slot, JobStep(w) PROVE TypeOK'
  <2>1. CASE Claim(w)
    <3>1. run[w] \in Job
      BY <2>1, LiveIsJob DEF Claim, At, Live
    <3>2. run' \in [Slot -> Execution]
      BY <2>1, <3>1, TypeGoto, TypeFinish DEF Claim, JobPc
    <3>3. RowTypes'
      BY <2>1, <3>1, TypeRow, MarkerTypes DEF Claim, ClaimScheduledDelivery, rowVars, TypeOK,
         RowTypes, Job, Status
    <3> QED BY <2>1, <3>2, <3>3 DEF Claim, TypeOK, RowTypes
  <2>2. CASE LoadClaimedDeliveryIdentity(w)
    <3>1. run[w] \in Job
      BY <2>2, LiveIsJob DEF LoadClaimedDeliveryIdentity, At, Live
    <3>2. run' \in [Slot -> Execution]
      BY <2>2, <3>1, TypeGoto, TypeFinish DEF LoadClaimedDeliveryIdentity, JobPc
    <3> QED BY <2>2, <3>2 DEF LoadClaimedDeliveryIdentity, TypeOK, rowVars
  <2>3. CASE Prepare(w)
    <3>1. run[w] \in Job
      BY <2>3, LiveIsJob DEF Prepare, At, Live
    <3>2. run' \in [Slot -> Execution]
      BY <2>3, <3>1, TypeGoto, TypeGiveUp DEF Prepare, JobPc, Verdict
    <3> QED BY <2>3, <3>2 DEF Prepare, TypeOK, rowVars
  <2>4. CASE ListActivePushSubscriptions(w)
    <3>1. run[w] \in Job
      BY <2>4, LiveIsJob DEF ListActivePushSubscriptions, At, Live
    <3>2. run' \in [Slot -> Execution]
      <4>1. active \in SUBSET Subscription
        BY DEF TypeOK
      <4> QED BY <2>4, <3>1, <4>1, JobUpdates, TypeRun, TypeGiveUp
         DEF ListActivePushSubscriptions, JobPc, Verdict
    <3> QED BY <2>4, <3>2 DEF ListActivePushSubscriptions, TypeOK, rowVars
  <2>5. CASE Abandon(w)
    <3>1. run[w] \in Job
      BY <2>5, LiveIsJob DEF Abandon, At, Live
    <3>2. run' \in [Slot -> Execution]
      BY <2>5, <3>1, TypeFinish DEF Abandon
    <3>3. RowTypes'
      BY <2>5, <3>1, TypeFinalize DEF Abandon, Job
    <3> QED BY <2>5, <3>2, <3>3 DEF Abandon, TypeOK, RowTypes
  <2>6. CASE Promote(w)
    <3>1. run[w] \in Job
      BY <2>6, LiveIsJob DEF Promote, At, Live
    <3>2. run' \in [Slot -> Execution]
      BY <2>6, <3>1, TypeGoto, TypeFinish DEF Promote, JobPc
    <3>3. RowTypes'
      <4>1. status[run[w].delivery] \in Status /\ sentAt[run[w].delivery] \in Time \cup {NoTime}
        BY <3>1 DEF TypeOK, Job
      <4> QED
        BY <2>6, <3>1, <4>1, TypeRow, MarkerTypes DEF Promote, PromoteClaimToSending, rowVars, TypeOK,
           RowTypes, Job
    <3> QED BY <2>6, <3>2, <3>3 DEF Promote, TypeOK, RowTypes
  <2>7. ASSUME NEW s \in Subscription, SendStep(w, s) PROVE TypeOK'
    <3>1. run[w] \in Job
      BY <2>7, LiveIsJob DEF SendStep, Request, ServiceAccepts, AcceptedAnswer, Refused,
         NoAnswer, At, Live
    <3>2. run' \in [Slot -> Execution]
      <4>1. CASE Refused(w, s)
        <5>1. CASE /\ run[w].attempt[s] < MaxAttempts
                   /\ run' = [run EXCEPT ![w].result[s] = "ready",
                                         ![w].attempt[s] = run[w].attempt[s] + 1]
          <6>1. "ready" \in Progress
            BY DEF Progress
          <6>2. [run[w] EXCEPT !.result[s] = "ready", !.attempt[s] = run[w].attempt[s] + 1] \in Job
            BY <3>1, <5>1, <6>1, JobResult
          <6>3. run' = [run EXCEPT ![w] = [run[w] EXCEPT !.result[s] = "ready",
                                                         !.attempt[s] = run[w].attempt[s] + 1]]
            BY <5>1 DEF TypeOK
          <6> QED BY <6>2, <6>3, TypeRun
        <5>2. CASE \E r \in Progress : Reaches(w, s, r)
          <6>1. PICK r \in Progress : run' = [run EXCEPT ![w].result[s] = r]
            BY <5>2 DEF Reaches
          <6>2. [run[w] EXCEPT !.result[s] = r] \in Job
            BY <3>1, <6>1, JobResult
          <6> QED BY <6>1, <6>2, TypeRun
        <5> QED BY <4>1, <5>1, <5>2 DEF Refused, Progress, Final
      <4>2. CASE ~Refused(w, s)
        BY <2>7, <3>1, <4>2, JobResult, TypeRun DEF SendStep, Request, ServiceAccepts,
           AcceptedAnswer, NoAnswer, Reaches, Progress, Final
      <4> QED BY <4>1, <4>2
    <3>3. accepted' \in [Delivery -> [Subscription -> Nat]]
      <4>1. run[w].delivery \in Delivery
        BY <3>1 DEF Job
      <4> QED BY <2>7, <4>1, TypeAccept DEF SendStep, Request, ServiceAccepts, AcceptedAnswer,
         Refused, NoAnswer, TypeOK
    <3>4. wire' \in SUBSET (Delivery \X Subscription)
      BY <2>7, <3>1 DEF SendStep, Request, ServiceAccepts, AcceptedAnswer, Refused, NoAnswer,
         TypeOK, Job
    <3> QED BY <2>7, <3>2, <3>3, <3>4 DEF SendStep, Request, ServiceAccepts, AcceptedAnswer, Refused,
         NoAnswer, TypeOK, rowVars
  <2>8. CASE Collect(w)
    <3>1. run[w] \in Job
      BY <2>8, LiveIsJob DEF Collect, At, Live
    <3>2. run' \in [Slot -> Execution]
      <4> DEFINE invalid == Outcome(w, {"INVALID"})
      <4>1. PICK v \in Verdict, k \in {"dead-letter", "stale", "partial", "none"} :
               run' = [run EXCEPT ![w] =
                  [@ EXCEPT !.pc = IF invalid # {} THEN "revoke" ELSE "finalize",
                            !.verdict = v, !.message = Safe(k), !.completedAt = now]]
        BY <2>8 DEF Collect, Verdict
      <4>2. Safe(k) \in SafeMessage /\ now \in Time
        BY DEF Safe, SafeMessage, TypeOK
      <4> QED BY <3>1, <4>1, <4>2, JobUpdates, TypeRun DEF JobPc
    <3> QED BY <2>8, <3>2 DEF Collect, TypeOK, rowVars
  <2>9. CASE RevokeInvalidPushSubscriptions(w)
    <3>1. run[w] \in Job
      BY <2>9, LiveIsJob DEF RevokeInvalidPushSubscriptions, At, Live
    <3>2. run' \in [Slot -> Execution]
      BY <2>9, <3>1, TypeGoto DEF RevokeInvalidPushSubscriptions, JobPc
    <3> QED BY <2>9, <3>2 DEF RevokeInvalidPushSubscriptions, TypeOK, rowVars
  <2>10. CASE Finalize(w)
    <3>1. run[w] \in Job
      BY <2>10, LiveIsJob DEF Finalize, At, Live
    <3>2. run' \in [Slot -> Execution]
      BY <2>10, <3>1, TypeFinish DEF Finalize
    <3>3. RowTypes'
      BY <2>10, <3>1, TypeFinalize DEF Finalize, Job
    <3> QED BY <2>10, <3>2, <3>3 DEF Finalize, TypeOK, RowTypes
  <2>11. CASE Complete(w)
    BY <2>11 DEF Complete, ReleaseJob, TypeOK, rowVars, Execution
  <2> QED BY <1>2, <2>1, <2>2, <2>3, <2>4, <2>5, <2>6, <2>7, <2>8, <2>9, <2>10, <2>11 DEF JobStep
<1>3. ASSUME NEW d \in Delivery, NEW s \in Subscription, LateArrival(d, s) PROVE TypeOK'
  BY <1>3, TypeAccept DEF LateArrival, TypeOK, rowVars
<1>4. ASSUME NEW d \in Delivery, ReclaimLostJob(d) \/ LoseLock(d) PROVE TypeOK'
  BY <1>4 DEF ReclaimLostJob, LoseLock, Unlock, TypeOK, rowVars
<1>5. ASSUME NEW m \in Maintainer, LoopStep(m) PROVE TypeOK'
  <2>1. CASE RecoverList(m)
    BY <2>1 DEF RecoverList, TypeOK, rowVars, Loop
  <2>2. CASE RecoverOne(m)
    <3>1. PICK c \in maint[m].claims : RecoverOne(m)!2!(c)
      BY <2>2 DEF RecoverOne
    <3>2. maint[m] \in [pc : {"recover"}, at : Time, claims : SUBSET (Delivery \X Message)]
      BY <2>2 DEF RecoverOne, TypeOK, Loop, Idle
    <3>3. maint' \in [Maintainer -> Loop]
      BY <3>1, <3>2 DEF TypeOK, Loop
    <3>4. c[1] \in Delivery /\ maint[m].at \in Time
      BY <3>1, <3>2
    <3>5. RowTypes'
      <4>1. CASE UNCHANGED rowVars
        BY <4>1 DEF rowVars, TypeOK, RowTypes
      <4>2. CASE ResetStaleClaimedDelivery(c[1], c[2])
        BY <4>2, <3>4, TypeReset
      <4>3. CASE FinalizeClaimedDelivery(c[1], c[2], "FAILED", maint[m].at, Safe("dead-letter"))
        BY <4>3, <3>4, TypeFinalize DEF Safe, SafeMessage
      <4> QED BY <3>1, <4>1, <4>2, <4>3
    <3> QED BY <2>2, <3>3, <3>5 DEF RecoverOne, TypeOK, RowTypes
  <2>3. CASE DispatchList(m)
    BY <2>3 DEF DispatchList, TypeOK, rowVars, Loop
  <2>4. CASE DispatchOne(m)
    <3>1. maint[m] \in [pc : {"dispatch"}, due : SUBSET Delivery]
      BY <2>4 DEF DispatchOne, TypeOK, Loop, Idle
    <3> QED BY <2>4, <3>1 DEF DispatchOne, TypeOK, rowVars, Loop
  <2>5. CASE DispatchEnd(m)
    BY <2>5 DEF DispatchEnd, TypeOK, rowVars, Loop
  <2> QED BY <1>5, <2>1, <2>2, <2>3, <2>4, <2>5 DEF LoopStep
<1>6. ASSUME NEW w \in Slot, CrashSlot(w) \/ ThrowError(w) PROVE TypeOK'
  <2>1. run' \in [Slot -> Execution]
    BY <1>6 DEF CrashSlot, ThrowError, TypeOK, Execution
  <2>2. Orphans(w) \in SUBSET (Delivery \X Subscription)
    BY LiveIsJob DEF Orphans, At, Live, Job
  <2> QED BY <1>6, <2>1, <2>2 DEF CrashSlot, ThrowError, ReleaseJob, TypeOK, rowVars
<1>7. ASSUME NEW m \in Maintainer, LoopError(m) PROVE TypeOK'
  <2>1. maint' \in [Maintainer -> Loop]
    <3>1. CASE maint' = [maint EXCEPT ![m] = Idle]
      BY <3>1 DEF TypeOK, Loop
    <3>2. CASE maint[m].pc = "recover" /\ maint' = [maint EXCEPT ![m].claims = {}]
      <4>1. maint[m] \in [pc : {"recover"}, at : Time, claims : SUBSET (Delivery \X Message)]
        BY <3>2 DEF TypeOK, Loop, Idle
      <4>2. [maint[m] EXCEPT !.claims = {}] \in Loop
        BY <4>1 DEF Loop
      <4> QED BY <3>2, <4>2 DEF TypeOK
    <3> QED BY <1>7, <3>1, <3>2 DEF LoopError
  <2> QED BY <1>7, <2>1 DEF LoopError, TypeOK, rowVars
<1>8. ASSUME Environment PROVE TypeOK'
  <2>1. ASSUME NEW d \in Delivery, NEW at \in Time, CreateRow(d, at) \/ RescheduleRow(d, at)
        PROVE  TypeOK'
    <3>1. RowTypes'
      <4>1. "SCHEDULED" \in Status /\ Safe("none") \in Message
        BY DEF Status, Message, SafeMessage, Safe
      <4> QED BY <2>1, <4>1 DEF CreateRow, RescheduleRow, Replannable, RowTypes, TypeOK
    <3> QED BY <2>1, <3>1 DEF CreateRow, RescheduleRow, Replannable, RowTypes, TypeOK
  <2>2. ASSUME NEW d \in Delivery, CancelRow(d) PROVE TypeOK'
    BY <2>2 DEF CancelRow, TypeOK, Status
  <2>3. ASSUME NEW d \in Delivery, DeleteRow(d) PROVE TypeOK'
    <3>1. RowTypes'
      BY <2>3, TypeRow DEF DeleteRow, Status, Message, SafeMessage, Safe, RowTypes
    <3> QED BY <2>3, <3>1 DEF DeleteRow, TypeOK, RowTypes
  <2>4. CASE UnsubscribeFromNotifications
    BY <2>4 DEF UnsubscribeFromNotifications, TypeOK, Status
  <2>5. ASSUME NEW s \in Subscription, StorePushSubscription(s) \/ RevokePushSubscription(s)
        PROVE  TypeOK'
    BY <2>5 DEF StorePushSubscription, RevokePushSubscription, TypeOK, rowVars
  <2> QED BY <1>8, <2>1, <2>2, <2>3, <2>4, <2>5 DEF Environment
<1>9. CASE Tick
  BY <1>9 DEF Tick, TypeOK, rowVars, Time
<1>10. CASE UNCHANGED vars
  BY <1>10 DEF vars, rowVars, TypeOK
<1> QED
  BY <1>1, <1>2, <1>3, <1>4, <1>5, <1>6, <1>7, <1>8, <1>9, <1>10 DEF Next, Failure

\* The variables of the delivery, its executions and its loops keep their types,
\* whatever the sizes of the sets.
THEOREM DeliveryTypes == Spec => []TypeOK
BY TypeInit, TypeNext, PTL DEF Spec

-----------------------------------------------------------------------------
(* DeliveryInv is inductive; the safety properties follow.  The invariant   *)
(* is split by what its conjuncts read: RunInv the executions, RowInv the   *)
(* rows and the network, LinkInv both.                                      *)

RunInv == LiveTokens /\ NotYetPosting /\ VerdictFollows /\ OneSender
RowInv == MarkedRows /\ UncommittedMeansUnsent /\ AtMostOnce /\ SentIsTruthful /\ NeverEarly
LinkInv == PosterOwnsRow /\ PosterKnows

LEMMA InvParts == DeliveryInv <=> TypeOK /\ RunInv /\ RowInv /\ LinkInv
BY DEF DeliveryInv, RunInv, RowInv, LinkInv

LEMMA InvPartsNext == DeliveryInv' <=> TypeOK' /\ RunInv' /\ RowInv' /\ LinkInv'
BY DEF DeliveryInv, RunInv, RowInv, LinkInv

\* A row in phase "open" of the contract, spelled out.
OpenRow(d) ==
    \/ status[d] \in {"ABSENT", "SCHEDULED", "CANCELLED"}
    \/ status[d] = "PROCESSING" /\ errorMessage[d].phase # "SENDING"

LEMMA OpenPhase ==
    ASSUME TypeOK, NEW d \in Delivery
    PROVE  contractPhase[d] = "open" <=> OpenRow(d)
BY DEF TypeOK, contractPhase, OpenRow, Status

LEMMA OpenPhaseNext ==
    ASSUME TypeOK', NEW d \in Delivery
    PROVE  contractPhase'[d] = "open" <=> OpenRow(d)'
BY DEF TypeOK, contractPhase, OpenRow, Status

\* Nobody posts a delivery whose row is not committed, nor one marked SENT.
LEMMA NoPoster ==
    ASSUME TypeOK, LinkInv, NEW d \in Delivery, OpenRow(d) \/ status[d] = "SENT", NEW w \in Slot
    PROVE  ~Executing(w, Posting, d)
<1> SUFFICES ASSUME Executing(w, Posting, d) PROVE FALSE
  OBVIOUS
<1>1. Holds(d, Sending(run[w].token, run[w].at)) \/ status[d] \in {"FAILED", "DELETED"}
  BY DEF LinkInv, PosterOwnsRow
<1>2. status[d] = "PROCESSING" /\ errorMessage[d].phase = "SENDING"
  BY <1>1 DEF OpenRow, Holds, Sending
<1> QED BY <1>2 DEF OpenRow

-----------------------------------------------------------------------------
(* Frames.                                                                  *)

LEMMA FrameRow ==
    ASSUME TypeOK, TypeOK', RowInv, UNCHANGED <<rowVars, wire, accepted>>, now' >= now
    PROVE  RowInv'
<1> USE DEF rowVars
<1>1. MarkedRows'
  BY DEF RowInv, MarkedRows, TypeOK, Time, Message, ClaimMarker, SafeMessage
<1>2. UncommittedMeansUnsent'
  BY DEF RowInv, UncommittedMeansUnsent, contractPhase, NothingSent, OnWire
<1>3. AtMostOnce' /\ SentIsTruthful'
  BY DEF RowInv, AtMostOnce, SentIsTruthful, OnWire
<1>4. NeverEarly'
  BY DEF RowInv, NeverEarly, NothingSent, OnWire, TypeOK, Time
<1> QED BY <1>1, <1>2, <1>3, <1>4 DEF RowInv

LEMMA FrameRun ==
    ASSUME TypeOK, TypeOK', RunInv, UNCHANGED run, now' >= now
    PROVE  RunInv'
<1>1. LiveTokens'
  <2>1. \A w \in Slot : Live(w) => run[w].completedAt \in Time
    BY LiveIsJob DEF Job
  <2> QED BY <2>1 DEF RunInv, LiveTokens, Live, TypeOK, Time
<1>2. NotYetPosting' /\ VerdictFollows' /\ OneSender'
  BY DEF RunInv, NotYetPosting, VerdictFollows, OneSender, Live, Executing
<1> QED BY <1>1, <1>2 DEF RunInv

LEMMA FrameLink ==
    ASSUME LinkInv, UNCHANGED <<rowVars, run, wire, accepted>>
    PROVE  LinkInv'
BY DEF rowVars, LinkInv, PosterOwnsRow, PosterKnows, Executing, Holds, Sending, OnWire

\* Everything but executions, rows and network: the queue, the loops, the clock.
LEMMA FrameInv ==
    ASSUME DeliveryInv, TypeOK', UNCHANGED <<rowVars, run, wire, accepted>>, now' >= now
    PROVE  DeliveryInv'
BY FrameRow, FrameRun, FrameLink, InvParts, InvPartsNext


-----------------------------------------------------------------------------
(* Steps by which nobody starts posting and posting executions stand still. *)

Quiet == \A v \in Slot : run'[v].pc \in Posting => run'[v] = run[v]

\* A write that leaves the claim of a posting execution alone or ends it.
Respects(d) ==
    /\ scheduledFor'[d] = scheduledFor[d]
    /\ \/ status'[d] = status[d] /\ errorMessage'[d] = errorMessage[d]
       \/ status'[d] \in {"FAILED", "DELETED"}

LEMMA QuietLink ==
    ASSUME LinkInv, Quiet, UNCHANGED <<wire, accepted>>,
           \A d \in Delivery : (\E v \in Slot : Executing(v, Posting, d)') => Respects(d)
    PROVE  LinkInv'
<1>1. ASSUME NEW v \in Slot, NEW d \in Delivery, Executing(v, Posting, d)'
      PROVE  Executing(v, Posting, d) /\ run'[v] = run[v]
  BY <1>1 DEF Quiet, Executing
<1>2. PosterOwnsRow'
  BY <1>1 DEF LinkInv, PosterOwnsRow, Respects, Holds, Sending
<1>3. PosterKnows'
  BY <1>1 DEF LinkInv, PosterKnows, OnWire
<1> QED BY <1>2, <1>3 DEF LinkInv

\* Executions that end, or advance before they post.
Ended == {Idle} \cup [pc : {"done"}, delivery : Delivery]
Ends(w) == \E e \in Ended : run' = [run EXCEPT ![w] = e]

Advances(w) ==
    /\ run[w] \in Job
    /\ run[w].pc \notin Posting
    /\ \E j \in Job :
          /\ run' = [run EXCEPT ![w] = j]
          /\ j.pc \notin Posting
          /\ j.token = run[w].token
          /\ j.at = run[w].at
          /\ j.completedAt = run[w].completedAt
          /\ j.result = run[w].result
          /\ j.verdict # "SENT"

LEMMA EndsQuiet ==
    ASSUME TypeOK, NEW w \in Slot, Ends(w) \/ Advances(w)
    PROVE  Quiet
BY DEF Ends, Ended, Idle, Advances, Quiet, Posting, TypeOK

LEMMA EndsRun ==
    ASSUME TypeOK, RunInv, NEW w \in Slot, Ends(w), now' = now
    PROVE  RunInv'
<1>1. run'[w].pc \in {"idle", "done"} /\ \A v \in Slot \ {w} : run'[v] = run[v]
  BY DEF Ends, Ended, Idle, TypeOK
<1> QED
  BY <1>1 DEF RunInv, LiveTokens, NotYetPosting, VerdictFollows, OneSender, Live, Executing, Posting

LEMMA AdvancesRun ==
    ASSUME TypeOK, RunInv, NEW w \in Slot, Advances(w), now' = now
    PROVE  RunInv'
<1>1. PICK j \in Job :
         /\ run' = [run EXCEPT ![w] = j]
         /\ j.pc \notin Posting
         /\ j.token = run[w].token
         /\ j.at = run[w].at
         /\ j.completedAt = run[w].completedAt
         /\ j.result = run[w].result
         /\ j.verdict # "SENT"
  BY DEF Advances
<1>2. run'[w] = j /\ \A v \in Slot \ {w} : run'[v] = run[v]
  BY <1>1 DEF TypeOK
<1>3. Live(w) /\ run[w].pc \notin Posting
  BY DEF Advances, Live, Job
<1>4. LiveTokens'
  BY <1>1, <1>2, <1>3 DEF RunInv, LiveTokens, Live
<1>5. NotYetPosting'
  BY <1>1, <1>2, <1>3 DEF RunInv, NotYetPosting, Live
<1>6. VerdictFollows' /\ OneSender'
  BY <1>1, <1>2 DEF RunInv, VerdictFollows, OneSender, Executing, Posting
<1> QED BY <1>4, <1>5, <1>6 DEF RunInv

\* Such a step that writes no row.
LEMMA QuietInv ==
    ASSUME DeliveryInv, TypeOK', NEW w \in Slot, Ends(w) \/ Advances(w), now' = now,
           UNCHANGED <<rowVars, wire, accepted>>
    PROVE  DeliveryInv'
<1>1. RunInv'
  BY EndsRun, AdvancesRun, InvParts
<1>2. LinkInv'
  BY EndsQuiet, QuietLink, InvParts DEF Respects, rowVars
<1>3. RowInv'
  BY FrameRow, InvParts DEF TypeOK, Time
<1> QED BY <1>1, <1>2, <1>3, InvPartsNext

-----------------------------------------------------------------------------
(* Writes of one row.                                                       *)

OnlyRow(d) ==
    \A e \in Delivery \ {d} :
        /\ status'[e] = status[e]
        /\ scheduledFor'[e] = scheduledFor[e]
        /\ errorMessage'[e] = errorMessage[e]
        /\ sentAt'[e] = sentAt[e]

\* What the new contents of the row must satisfy.
GoodRow(d) ==
    /\ status'[d] = "PROCESSING" =>
          /\ errorMessage'[d].kind = "claim"
          /\ scheduledFor'[d] <= errorMessage'[d].at
          /\ errorMessage'[d].at <= now
    /\ OpenRow(d)' => NothingSent(d)
    /\ status'[d] = "SENT" =>
          /\ \E s \in Subscription : accepted[d][s] > 0
          /\ sentAt'[d] >= scheduledFor'[d]
    /\ status'[d] # "SENT" => sentAt'[d] = NoTime
    /\ ~NothingSent(d) => scheduledFor'[d] <= now

LEMMA RowWrite ==
    ASSUME TypeOK, TypeOK', RowInv, NEW d \in Delivery, OnlyRow(d), GoodRow(d),
           UNCHANGED <<now, wire, accepted>>
    PROVE  RowInv'
<1>1. MarkedRows'
  BY DEF RowInv, MarkedRows, OnlyRow, GoodRow
<1>2. UncommittedMeansUnsent'
  <2> SUFFICES ASSUME NEW e \in Delivery, OpenRow(e)' PROVE NothingSent(e)
    BY OpenPhaseNext DEF UncommittedMeansUnsent, NothingSent, OnWire
  <2>1. CASE e = d
    BY <2>1 DEF GoodRow
  <2>2. CASE e # d
    <3>1. OpenRow(e)
      BY <2>2 DEF OpenRow, OnlyRow
    <3> QED BY <3>1, OpenPhase DEF RowInv, UncommittedMeansUnsent
  <2> QED BY <2>1, <2>2
<1>3. AtMostOnce'
  BY DEF RowInv, AtMostOnce, OnWire
<1>4. SentIsTruthful'
  BY DEF RowInv, SentIsTruthful, OnlyRow, GoodRow
<1>5. NeverEarly'
  BY DEF RowInv, NeverEarly, OnlyRow, GoodRow, NothingSent, OnWire
<1> QED BY <1>1, <1>2, <1>3, <1>4, <1>5 DEF RowInv

LEMMA WriteOnlyRow ==
    ASSUME TypeOK, NEW d \in Delivery, NEW st, NEW m, NEW t, WriteRow(d, st, m, t)
    PROVE  /\ OnlyRow(d)
           /\ status'[d] = st /\ errorMessage'[d] = m /\ sentAt'[d] = t
           /\ scheduledFor'[d] = scheduledFor[d]
BY DEF TypeOK, WriteRow, OnlyRow

\* A write of a row nobody posts keeps the links.
LEMMA FreeRowLink ==
    ASSUME TypeOK, LinkInv, NEW d \in Delivery, OpenRow(d), OnlyRow(d), Quiet,
           UNCHANGED <<wire, accepted>>
    PROVE  LinkInv'
<1>1. \A v \in Slot, e \in Delivery : Executing(v, Posting, e)' => Executing(v, Posting, e)
  BY DEF Quiet, Executing
<1>2. \A v \in Slot : ~Executing(v, Posting, d)'
  BY <1>1, NoPoster
<1> QED BY <1>2, QuietLink DEF OnlyRow, Respects

-----------------------------------------------------------------------------
(* Before the network.                                                      *)

LEMMA StepStart ==
    ASSUME DeliveryInv, TypeOK', NEW w \in Slot, NEW d \in Delivery, Start(w, d)
    PROVE  DeliveryInv'
<1> USE InvParts
<1>1. PICK token \in Token :
         /\ Fresh(token)
         /\ run' = [run EXCEPT ![w] =
              [pc |-> "claim", delivery |-> d, at |-> now, token |-> token,
               targets |-> {}, result |-> [s \in Subscription |-> "ready"],
               attempt |-> [s \in Subscription |-> 1],
               verdict |-> "FAILED", message |-> Safe("none"), completedAt |-> now]]
  BY DEF Start
<1>2. /\ run'[w].pc = "claim" /\ run'[w].at = now /\ run'[w].token = token
      /\ run'[w].completedAt = now /\ run'[w].verdict = "FAILED"
      /\ run'[w].result = [s \in Subscription |-> "ready"]
      /\ \A v \in Slot \ {w} : run'[v] = run[v]
  BY <1>1 DEF TypeOK
<1>3. now' = now /\ UNCHANGED <<rowVars, wire, accepted>> /\ now \in Int
  BY DEF Start, TypeOK, Time
<1>4. LiveTokens'
  BY <1>1, <1>2, <1>3 DEF RunInv, LiveTokens, Live, Fresh
<1>5. NotYetPosting' /\ VerdictFollows' /\ OneSender'
  BY <1>2 DEF RunInv, NotYetPosting, VerdictFollows, OneSender, Live, Executing, Posting
<1>6. Quiet
  BY <1>2 DEF Quiet, Posting
<1>7. LinkInv'
  BY <1>3, <1>6, QuietLink DEF Respects, rowVars
<1> QED BY <1>3, <1>4, <1>5, <1>7, FrameRow, InvPartsNext DEF RunInv

\* What leaves an execution that has not posted yet where it may be.
LEMMA GotoAdvances ==
    ASSUME DeliveryInv, NEW w \in Slot, run[w] \in Job, run[w].pc \notin Posting,
           NEW p \in JobPc \ Posting, Goto(w, p)
    PROVE  Advances(w)
<1>1. [run[w] EXCEPT !.pc = p] \in Job
  BY JobUpdates
<1>2. run[w].verdict # "SENT"
  BY DEF DeliveryInv, NotYetPosting, Live, Job
<1> QED BY <1>1, <1>2 DEF Goto, Advances, Job

LEMMA GiveUpAdvances ==
    ASSUME NEW w \in Slot, run[w] \in Job, run[w].pc \notin Posting,
           NEW v \in {"CANCELLED", "FAILED"}, NEW k \in {"stale", "dead-letter"}, GiveUp(w, v, k)
    PROVE  Advances(w)
<1>1. [run[w] EXCEPT !.pc = "abandon", !.verdict = v, !.message = Safe(k)] \in Job
  BY JobUpdates DEF JobPc, Verdict, Safe, SafeMessage
<1> QED BY <1>1 DEF GiveUp, Advances, Job, Posting

LEMMA FinishEnds ==
    ASSUME NEW w \in Slot, run[w] \in Job, Finish(w)
    PROVE  Ends(w)
BY DEF Finish, Ends, Ended, Done, Job

LEMMA StepClaim ==
    ASSUME DeliveryInv, TypeOK', NEW w \in Slot, Claim(w)
    PROVE  DeliveryInv'
<1> USE InvParts
<1> DEFINE d == run[w].delivery
<1>1. run[w] \in Job /\ run[w].pc \notin Posting /\ d \in Delivery /\ Live(w)
  BY LiveIsJob DEF Claim, At, Live, Posting, Job
<1>2. UNCHANGED <<now, wire, accepted>>
  BY DEF Claim
<1>3. CASE Claimable(d, run[w].at)
  <2>1. WriteRow(d, "PROCESSING", Claimed(run[w].token, run[w].at), NoTime)
    BY <1>3 DEF Claim, ClaimScheduledDelivery
  <2>2. Advances(w)
    BY <1>1, <1>3, GotoAdvances DEF Claim, JobPc, Posting
  <2>3. OpenRow(d) /\ NothingSent(d)
    BY <1>1, <1>3, OpenPhase DEF OpenRow, Claimable, Due, RowInv, UncommittedMeansUnsent
  <2>4. run[w].at <= now
    BY <1>1 DEF RunInv, LiveTokens, TypeOK, Time, Job
  <2>5. GoodRow(d)
    BY <1>1, <1>3, <2>1, <2>3, <2>4, WriteOnlyRow DEF GoodRow, Claimable, Due, Claimed
  <2>6. OnlyRow(d)
    BY <1>1, <2>1, WriteOnlyRow
  <2> QED
    BY <1>1, <1>2, <2>2, <2>3, <2>5, <2>6, RowWrite, FreeRowLink, AdvancesRun, EndsQuiet,
       InvPartsNext
<1>4. CASE ~Claimable(d, run[w].at)
  BY <1>1, <1>2, <1>4, FinishEnds, QuietInv DEF Claim
<1> QED BY <1>3, <1>4

LEMMA StepIdentity ==
    ASSUME DeliveryInv, TypeOK', NEW w \in Slot, LoadClaimedDeliveryIdentity(w)
    PROVE  DeliveryInv'
<1>1. run[w] \in Job /\ run[w].pc \notin Posting
  BY InvParts, LiveIsJob DEF LoadClaimedDeliveryIdentity, At, Live, Posting
<1>2. Ends(w) \/ Advances(w)
  BY <1>1, GotoAdvances, FinishEnds DEF LoadClaimedDeliveryIdentity, JobPc, Posting
<1> QED BY <1>2, QuietInv DEF LoadClaimedDeliveryIdentity

LEMMA StepPrepare ==
    ASSUME DeliveryInv, TypeOK', NEW w \in Slot, Prepare(w)
    PROVE  DeliveryInv'
<1>1. run[w] \in Job /\ run[w].pc \notin Posting
  BY InvParts, LiveIsJob DEF Prepare, At, Live, Posting
<1>2. Advances(w)
  BY <1>1, GotoAdvances, GiveUpAdvances DEF Prepare, JobPc, Posting
<1> QED BY <1>2, QuietInv DEF Prepare

LEMMA StepList ==
    ASSUME DeliveryInv, TypeOK', NEW w \in Slot, ListActivePushSubscriptions(w)
    PROVE  DeliveryInv'
<1>1. run[w] \in Job /\ run[w].pc \notin Posting /\ Live(w)
  BY InvParts, LiveIsJob DEF ListActivePushSubscriptions, At, Live, Posting
<1>2. Advances(w)
  <2>1. CASE run' = [run EXCEPT ![w] = [@ EXCEPT !.pc = "promote", !.targets = active]]
    <3>1. [run[w] EXCEPT !.pc = "promote", !.targets = active] \in Job
      BY <1>1, JobUpdates, InvParts DEF JobPc, TypeOK
    <3>2. run[w].verdict # "SENT"
      BY <1>1 DEF DeliveryInv, NotYetPosting
    <3> QED BY <1>1, <2>1, <3>1, <3>2 DEF Advances, Posting, Job
  <2>2. CASE ~(run' = [run EXCEPT ![w] = [@ EXCEPT !.pc = "promote", !.targets = active]])
    BY <1>1, <2>2, GiveUpAdvances DEF ListActivePushSubscriptions
  <2> QED BY <2>1, <2>2
<1> QED BY <1>2, QuietInv DEF ListActivePushSubscriptions

\* Giving up: the claim is still CLAIMED, so nothing was sent, or it is lost.
LEMMA StepAbandon ==
    ASSUME DeliveryInv, TypeOK', NEW w \in Slot, Abandon(w)
    PROVE  DeliveryInv'
<1> USE InvParts
<1> DEFINE d == run[w].delivery
           marker == Claimed(run[w].token, run[w].at)
<1>1. run[w] \in Job /\ d \in Delivery /\ Live(w) /\ run[w].pc \notin Posting
  BY LiveIsJob DEF Abandon, At, Live, Job, Posting
<1>2. UNCHANGED <<now, wire, accepted>> /\ Ends(w)
  BY <1>1, FinishEnds DEF Abandon
<1>3. CASE Holds(d, marker)
  <2>1. run[w].verdict \in {"CANCELLED", "FAILED"}
    BY <1>1 DEF RunInv, NotYetPosting, Job
  <2>2. WriteRow(d, run[w].verdict, run[w].message, NoTime)
    BY <1>3, <2>1 DEF Abandon, FinalizeClaimedDelivery
  <2>3. OpenRow(d) /\ NothingSent(d)
    BY <1>1, <1>3, OpenPhase DEF OpenRow, Holds, Claimed, RowInv, UncommittedMeansUnsent
  <2>4. GoodRow(d) /\ OnlyRow(d)
    BY <1>1, <2>1, <2>2, <2>3, WriteOnlyRow DEF GoodRow
  <2> QED
    BY <1>1, <1>2, <2>3, <2>4, RowWrite, FreeRowLink, EndsRun, EndsQuiet, InvPartsNext
<1>4. CASE ~Holds(d, marker)
  BY <1>2, <1>4, QuietInv DEF Abandon, FinalizeClaimedDelivery
<1> QED BY <1>3, <1>4

\* The promotion: the row still carries this execution's CLAIMED marker, so
\* nobody posts it and nothing was sent; from here on this execution may.
LEMMA StepPromote ==
    ASSUME DeliveryInv, TypeOK', NEW w \in Slot, Promote(w)
    PROVE  DeliveryInv'
<1> USE InvParts
<1> DEFINE d == run[w].delivery
           marker == Claimed(run[w].token, run[w].at)
<1>1. run[w] \in Job /\ d \in Delivery /\ Live(w) /\ run[w].pc \notin Posting
  BY LiveIsJob DEF Promote, At, Live, Job, Posting
<1>2. UNCHANGED <<now, wire, accepted>>
  BY DEF Promote
<1>3. CASE ~Holds(d, marker)
  BY <1>1, <1>2, <1>3, FinishEnds, QuietInv DEF Promote
<1>4. CASE Holds(d, marker)
  <2>1. WriteRow(d, "PROCESSING", Sending(run[w].token, run[w].at), sentAt[d])
    BY <1>4 DEF Promote, PromoteClaimToSending, Holds
  <2>2. run' = [run EXCEPT ![w].pc = "send"]
    BY <1>4 DEF Promote, Goto
  <2>3. run'[w] = [run[w] EXCEPT !.pc = "send"] /\ \A v \in Slot \ {w} : run'[v] = run[v]
    BY <2>2 DEF TypeOK
  <2>4. /\ run'[w].pc = "send" /\ run'[w].delivery = d
        /\ run'[w].token = run[w].token /\ run'[w].at = run[w].at
        /\ run'[w].completedAt = run[w].completedAt /\ run'[w].result = run[w].result
        /\ \A v \in Slot \ {w} : run'[v] = run[v]
    BY <1>1, <2>3 DEF Job
  <2>5. OpenRow(d) /\ NothingSent(d)
    BY <1>1, <1>4, OpenPhase DEF OpenRow, Holds, Claimed, RowInv, UncommittedMeansUnsent
  <2>6. \A v \in Slot : ~Executing(v, Posting, d)
    BY <1>1, <2>5, NoPoster
  <2>7. scheduledFor[d] <= run[w].at /\ run[w].at <= now
    BY <1>1, <1>4 DEF Holds, Claimed, RowInv, MarkedRows
  <2>8. GoodRow(d) /\ OnlyRow(d)
    BY <1>1, <1>4, <2>1, <2>5, <2>7, WriteOnlyRow
       DEF GoodRow, Sending, OpenRow, Holds, RowInv, SentIsTruthful
  <2>9. RowInv'
    BY <1>1, <1>2, <2>8, RowWrite
  <2>10. RunInv'
    <3>1. LiveTokens'
      BY <1>1, <1>2, <2>4 DEF RunInv, LiveTokens, Live
    <3>2. NotYetPosting' /\ VerdictFollows'
      BY <2>4 DEF RunInv, NotYetPosting, VerdictFollows, Live, Posting
    <3>3. OneSender'
      BY <2>4, <2>6 DEF RunInv, OneSender, Executing, Posting
    <3> QED BY <3>1, <3>2, <3>3 DEF RunInv
  <2>11. PosterOwnsRow'
    <3> SUFFICES ASSUME NEW v \in Slot, NEW e \in Delivery, Executing(v, Posting, e)'
                 PROVE  /\ \/ Holds(e, Sending(run[v].token, run[v].at))'
                           \/ status'[e] \in {"FAILED", "DELETED"}
                        /\ scheduledFor'[e] <= run'[v].at
      BY DEF PosterOwnsRow
    <3>1. CASE v = w
      <4>1. e = d
        BY <2>4, <3>1 DEF Executing
      <4> QED BY <1>1, <2>1, <2>4, <2>7, <3>1, <4>1, WriteOnlyRow DEF Holds, Sending
    <3>2. CASE v # w
      <4>1. Executing(v, Posting, e) /\ run'[v] = run[v]
        BY <2>3, <3>2 DEF Executing
      <4>2. e # d
        BY <2>6, <4>1
      <4> QED BY <2>8, <4>1, <4>2 DEF LinkInv, PosterOwnsRow, OnlyRow, Holds, Sending
    <3> QED BY <3>1, <3>2
  <2>12. PosterKnows'
    <3> SUFFICES ASSUME NEW v \in Slot, NEW e \in Delivery, Executing(v, Posting, e)',
                        NEW s \in Subscription
                 PROVE  /\ run'[v].result[s] \in {"taken", "SENT"} =>
                             accepted'[e][s] = 1 /\ OnWire(e, s)' = 0
                        /\ run'[v].result[s] \notin {"taken", "SENT", "INDETERMINATE"} =>
                             accepted'[e][s] = 0 /\ OnWire(e, s)' = 0
                        /\ s \notin run'[v].targets => run'[v].result[s] = "ready"
      BY DEF PosterKnows
    <3>1. CASE v = w
      <4>1. e = d /\ run'[w].result[s] = "ready"
        BY <1>1, <2>4, <3>1 DEF Executing, RunInv, NotYetPosting
      <4>2. accepted[d][s] = 0 /\ OnWire(d, s) = 0
        BY <1>1, <2>5 DEF NothingSent, OnWire, TypeOK
      <4> QED BY <1>2, <3>1, <4>1, <4>2 DEF OnWire
    <3>2. CASE v # w
      BY <1>2, <2>3, <3>2 DEF LinkInv, PosterKnows, Executing, OnWire
    <3> QED BY <3>1, <3>2
  <2> QED BY <2>9, <2>10, <2>11, <2>12, InvPartsNext DEF LinkInv
<1> QED BY <1>3, <1>4

-----------------------------------------------------------------------------
(* On the network.                                                          *)

\* Only one delivery's network history moves, and it was committed or nothing
\* reached a push service.
LEMMA NetworkRow ==
    ASSUME TypeOK, TypeOK', RowInv, NEW d \in Delivery, UNCHANGED <<rowVars, now>>,
           \A e \in Delivery \ {d}, s \in Subscription :
              accepted'[e][s] = accepted[e][s] /\ OnWire(e, s)' = OnWire(e, s),
           \A s \in Subscription :
              accepted'[d][s] >= accepted[d][s] /\ accepted'[d][s] + OnWire(d, s)' <= 1,
           \/ NothingSent(d) => NothingSent(d)'
           \/ ~OpenRow(d) /\ scheduledFor[d] <= now
    PROVE  RowInv'
<1> USE DEF rowVars
<1>1. MarkedRows'
  BY DEF RowInv, MarkedRows
<1>2. UncommittedMeansUnsent'
  <2> SUFFICES ASSUME NEW e \in Delivery, OpenRow(e) PROVE NothingSent(e)'
    BY OpenPhaseNext DEF UncommittedMeansUnsent, OpenRow
  <2>1. NothingSent(e)
    BY OpenPhase DEF RowInv, UncommittedMeansUnsent
  <2> QED BY <2>1 DEF NothingSent
<1>3. AtMostOnce'
  BY DEF RowInv, AtMostOnce
<1>4. SentIsTruthful'
  <2>1. ASSUME NEW e \in Delivery, NEW s \in Subscription, accepted[e][s] > 0
        PROVE  accepted'[e][s] > 0
    <3>1. accepted[e][s] \in Nat /\ accepted'[e][s] \in Nat
      BY DEF TypeOK
    <3>2. accepted'[e][s] >= accepted[e][s]
      BY <3>1
    <3> QED BY <2>1, <3>1, <3>2
  <2> QED BY <2>1 DEF RowInv, SentIsTruthful
<1>5. NeverEarly'
  BY DEF RowInv, NeverEarly, NothingSent
<1> QED BY <1>1, <1>2, <1>3, <1>4, <1>5 DEF RowInv

\* A step that changes one endpoint's progress within a sending execution.
Progresses(w, s, j) ==
    /\ run[w] \in Job /\ j \in Job
    /\ run[w].pc = "send" /\ j.pc = "send"
    /\ run' = [run EXCEPT ![w] = j]
    /\ j.delivery = run[w].delivery /\ j.token = run[w].token /\ j.at = run[w].at
    /\ j.completedAt = run[w].completedAt /\ j.targets = run[w].targets
    /\ \A t \in Subscription \ {s} : j.result[t] = run[w].result[t]

LEMMA ProgressRun ==
    ASSUME TypeOK, RunInv, NEW w \in Slot, NEW s \in Subscription, NEW j, Progresses(w, s, j),
           now' = now
    PROVE  RunInv'
<1>1. run'[w] = j /\ \A v \in Slot \ {w} : run'[v] = run[v]
  BY DEF Progresses, TypeOK
<1>2. LiveTokens'
  BY <1>1 DEF Progresses, RunInv, LiveTokens, Live
<1>3. NotYetPosting' /\ VerdictFollows' /\ OneSender'
  BY <1>1 DEF Progresses, RunInv, NotYetPosting, VerdictFollows, OneSender, Live, Executing, Posting
<1> QED BY <1>2, <1>3 DEF RunInv

\* What the execution now believes of the endpoint must match the network.
Knows(j, s) ==
    /\ j.result[s] \in {"taken", "SENT"} =>
          accepted'[j.delivery][s] = 1 /\ OnWire(j.delivery, s)' = 0
    /\ j.result[s] \notin {"taken", "SENT", "INDETERMINATE"} =>
          accepted'[j.delivery][s] = 0 /\ OnWire(j.delivery, s)' = 0

LEMMA ProgressLink ==
    ASSUME TypeOK, RunInv, LinkInv, NEW w \in Slot, NEW s \in Subscription, NEW j,
           Progresses(w, s, j), UNCHANGED rowVars, s \in run[w].targets, Knows(j, s),
           \A e \in Delivery, t \in Subscription : e # run[w].delivery \/ t # s =>
              accepted'[e][t] = accepted[e][t] /\ OnWire(e, t)' = OnWire(e, t)
    PROVE  LinkInv'
<1>1. run'[w] = j /\ \A v \in Slot \ {w} : run'[v] = run[v]
  BY DEF Progresses, TypeOK
<1>2. PosterOwnsRow'
  BY <1>1 DEF Progresses, LinkInv, PosterOwnsRow, Executing, Posting, Holds, Sending, rowVars
<1>3. PosterKnows'
  <2> SUFFICES ASSUME NEW v \in Slot, NEW e \in Delivery, Executing(v, Posting, e)',
                      NEW t \in Subscription
               PROVE  /\ run'[v].result[t] \in {"taken", "SENT"} =>
                           accepted'[e][t] = 1 /\ OnWire(e, t)' = 0
                      /\ run'[v].result[t] \notin {"taken", "SENT", "INDETERMINATE"} =>
                           accepted'[e][t] = 0 /\ OnWire(e, t)' = 0
                      /\ t \notin run'[v].targets => run'[v].result[t] = "ready"
    BY DEF PosterKnows
  <2>1. Executing(v, Posting, e) /\ (v # w => e # run[w].delivery)
    BY <1>1 DEF Executing, Progresses, RunInv, OneSender, Posting
  <2>2. CASE v = w /\ t = s
    BY <1>1, <2>1, <2>2 DEF Progresses, Knows, Executing
  <2>3. CASE ~(v = w /\ t = s)
    <3>1. run'[v].result[t] = run[v].result[t] /\ run'[v].targets = run[v].targets
      BY <1>1, <2>3 DEF Progresses
    <3>2. accepted'[e][t] = accepted[e][t] /\ OnWire(e, t)' = OnWire(e, t)
      BY <2>1, <2>3 DEF Executing
    <3> QED BY <2>1, <3>1, <3>2 DEF LinkInv, PosterKnows
  <2> QED BY <2>2, <2>3
<1> QED BY <1>2, <1>3 DEF LinkInv

\* A sending execution's delivery is committed and was due when it claimed it.
LEMMA SenderFacts ==
    ASSUME TypeOK, RunInv, LinkInv, NEW w \in Slot, run[w].pc = "send"
    PROVE  /\ run[w] \in Job /\ run[w].delivery \in Delivery
           /\ Executing(w, Posting, run[w].delivery)
           /\ ~OpenRow(run[w].delivery)
           /\ scheduledFor[run[w].delivery] <= now
<1>1. run[w] \in Job /\ Live(w)
  BY LiveIsJob DEF Live
<1>2. run[w].delivery \in Delivery /\ run[w].at \in Time /\ run[w].completedAt \in Time
  BY <1>1 DEF Job
<1>3. Executing(w, Posting, run[w].delivery)
  BY DEF Executing, Posting
<1>4. ~OpenRow(run[w].delivery)
  BY <1>2, <1>3, NoPoster
<1>5. scheduledFor[run[w].delivery] <= run[w].at
  BY <1>2, <1>3 DEF LinkInv, PosterOwnsRow
<1>6. run[w].at <= now
  BY <1>1, <1>2 DEF RunInv, LiveTokens, TypeOK, Time
<1> QED BY <1>1, <1>2, <1>3, <1>4, <1>5, <1>6 DEF TypeOK, Time

LEMMA WireRange ==
    ASSUME NEW d, NEW s
    PROVE  OnWire(d, s) \in {0, 1} /\ OnWire(d, s)' \in {0, 1}
BY DEF OnWire

\* A progress that leaves the network alone.
LEMMA SilentProgress ==
    ASSUME DeliveryInv, TypeOK', NEW w \in Slot, NEW s \in Subscription, NEW j,
           Progresses(w, s, j), s \in run[w].targets, Knows(j, s),
           UNCHANGED <<now, rowVars, wire, accepted>>
    PROVE  DeliveryInv'
<1>1. RunInv' /\ RowInv'
  BY InvParts, ProgressRun, FrameRow DEF TypeOK, Time
<1>2. LinkInv'
  BY InvParts, ProgressLink DEF OnWire
<1> QED BY <1>1, <1>2, InvPartsNext

\* What an execution that waits for an answer knows of that endpoint.
LEMMA WaiterFacts ==
    ASSUME DeliveryInv, NEW w \in Slot, run[w].pc = "send", NEW s \in Subscription,
           run[w].result[s] # "ready"
    PROVE  /\ s \in run[w].targets
           /\ run[w].result[s] = "requested" =>
                accepted[run[w].delivery][s] = 0 /\ OnWire(run[w].delivery, s) = 0
           /\ run[w].result[s] = "taken" =>
                accepted[run[w].delivery][s] = 1 /\ OnWire(run[w].delivery, s) = 0
BY SenderFacts, InvParts DEF LinkInv, PosterKnows

\* The record that one EXCEPT on a result makes.
LEMMA ResultProgress ==
    ASSUME NEW w \in Slot, run[w] \in Job, run[w].pc = "send", NEW s \in Subscription,
           NEW r \in Progress, Reaches(w, s, r)
    PROVE  \E j \in Job : Progresses(w, s, j) /\ j.result[s] = r /\ j.delivery = run[w].delivery
<1> DEFINE j == [run[w] EXCEPT !.result[s] = r]
<1>1. j \in Job
  BY JobResult
<1>2. run[w].result \in [Subscription -> Progress]
  BY DEF Job
<1>3. j.result[s] = r /\ \A t \in Subscription \ {s} : j.result[t] = run[w].result[t]
  BY <1>2 DEF Job
<1>4. /\ j.pc = run[w].pc /\ j.delivery = run[w].delivery /\ j.token = run[w].token
      /\ j.at = run[w].at /\ j.completedAt = run[w].completedAt /\ j.targets = run[w].targets
  BY DEF Job
<1>5. run' = [run EXCEPT ![w] = j]
  BY DEF Reaches
<1> QED BY <1>1, <1>3, <1>4, <1>5 DEF Progresses

LEMMA StepRequest ==
    ASSUME DeliveryInv, TypeOK', NEW w \in Slot, NEW s \in Subscription, Request(w, s)
    PROVE  DeliveryInv'
<1>1. run[w] \in Job /\ run[w].pc = "send" /\ Executing(w, Posting, run[w].delivery)
      /\ run[w].delivery \in Delivery
  BY InvParts, SenderFacts DEF Request, At
<1>2. PICK j \in Job : Progresses(w, s, j) /\ j.result[s] = "requested" /\ j.delivery = run[w].delivery
  BY <1>1, ResultProgress DEF Request, Progress
<1>3. accepted[run[w].delivery][s] = 0 /\ OnWire(run[w].delivery, s) = 0
  BY <1>1, InvParts DEF Request, LinkInv, PosterKnows
<1>4. Knows(j, s)
  BY <1>2, <1>3 DEF Knows, OnWire, Request
<1> QED BY <1>2, <1>4, SilentProgress DEF Request

LEMMA StepAnswer ==
    ASSUME DeliveryInv, TypeOK', NEW w \in Slot, NEW s \in Subscription, AcceptedAnswer(w, s)
    PROVE  DeliveryInv'
<1>1. run[w] \in Job /\ run[w].pc = "send" /\ run[w].result[s] = "taken"
  BY InvParts, SenderFacts DEF AcceptedAnswer, At
<1>2. PICK j \in Job : Progresses(w, s, j) /\ j.result[s] \in {"SENT", "INDETERMINATE"}
                       /\ j.delivery = run[w].delivery
  BY <1>1, ResultProgress DEF AcceptedAnswer, Progress, Final
<1>3. Knows(j, s)
  BY <1>1, <1>2, WaiterFacts DEF Knows, OnWire, AcceptedAnswer
<1> QED BY <1>1, <1>2, <1>3, WaiterFacts, SilentProgress DEF AcceptedAnswer

LEMMA StepRefused ==
    ASSUME DeliveryInv, TypeOK', NEW w \in Slot, NEW s \in Subscription, Refused(w, s)
    PROVE  DeliveryInv'
<1>1. run[w] \in Job /\ run[w].pc = "send" /\ run[w].result[s] = "requested"
  BY InvParts, SenderFacts DEF Refused, At
<1>2. PICK j \in Job : Progresses(w, s, j) /\ j.result[s] \in {"INVALID", "PERMANENT", "TRANSIENT", "ready"}
                       /\ j.delivery = run[w].delivery
  <2>1. CASE \E r \in {"INVALID", "PERMANENT", "TRANSIENT"} : Reaches(w, s, r)
    BY <1>1, <2>1, ResultProgress DEF Progress, Final
  <2>2. CASE /\ run[w].attempt[s] < MaxAttempts
             /\ run' = [run EXCEPT ![w].result[s] = "ready",
                                   ![w].attempt[s] = run[w].attempt[s] + 1]
    <3> DEFINE j == [run[w] EXCEPT !.result[s] = "ready", !.attempt[s] = run[w].attempt[s] + 1]
    <3>1. j \in Job
      BY <1>1, <2>2, JobResult DEF Progress
    <3>2. run[w].result \in [Subscription -> Progress]
      BY <1>1 DEF Job
    <3>3. j.result[s] = "ready" /\ \A t \in Subscription \ {s} : j.result[t] = run[w].result[t]
      BY <1>1, <3>2 DEF Job
    <3>4. /\ j.pc = run[w].pc /\ j.delivery = run[w].delivery /\ j.token = run[w].token
          /\ j.at = run[w].at /\ j.completedAt = run[w].completedAt
          /\ j.targets = run[w].targets
      BY <1>1 DEF Job
    <3> HIDE DEF j
    <3>5. run' = [run EXCEPT ![w] = j]
      <4>1. run \in [Slot -> Execution]
        BY InvParts DEF TypeOK
      <4>2. run' = [run EXCEPT ![w] = [run[w] EXCEPT !.result[s] = "ready",
                                                     !.attempt[s] = run[w].attempt[s] + 1]]
        BY <2>2, <4>1
      <4> QED BY <4>2 DEF j
    <3> QED BY <1>1, <3>1, <3>3, <3>4, <3>5 DEF Progresses
  <2> QED BY <2>1, <2>2 DEF Refused
<1>3. Knows(j, s)
  BY <1>1, <1>2, WaiterFacts DEF Knows, OnWire, Refused
<1> QED BY <1>1, <1>2, <1>3, WaiterFacts, SilentProgress DEF Refused

LEMMA StepServiceAccepts ==
    ASSUME DeliveryInv, TypeOK', NEW w \in Slot, NEW s \in Subscription, ServiceAccepts(w, s)
    PROVE  DeliveryInv'
<1> USE InvParts
<1>1. PICK d \in Delivery : run[w] \in Job /\ run[w].pc = "send"
                            /\ run[w].result[s] = "requested" /\ run[w].delivery = d
  BY SenderFacts DEF ServiceAccepts, At
<1>2. PICK j \in Job : Progresses(w, s, j) /\ j.result[s] = "taken" /\ j.delivery = d
  BY <1>1, ResultProgress DEF ServiceAccepts, Progress
<1>3. s \in run[w].targets /\ accepted[d][s] = 0 /\ OnWire(d, s) = 0
  BY <1>1, WaiterFacts
<1>4. /\ accepted'[d][s] = 1
      /\ \A e \in Delivery, t \in Subscription : e # d \/ t # s => accepted'[e][t] = accepted[e][t]
      /\ \A e \in Delivery, t \in Subscription : OnWire(e, t)' = OnWire(e, t)
      /\ now' = now /\ UNCHANGED rowVars
  BY <1>1, <1>3 DEF ServiceAccepts, Accept, TypeOK, OnWire
<1>5. Knows(j, s)
  BY <1>1, <1>2, <1>3, <1>4 DEF Knows
<1>6. RowInv'
  <2>1. ~OpenRow(d) /\ scheduledFor[d] <= now
    BY <1>1, SenderFacts
  <2>2. ASSUME NEW t \in Subscription
        PROVE  accepted'[d][t] >= accepted[d][t] /\ accepted'[d][t] + OnWire(d, t)' <= 1
    <3>1. accepted[d][t] \in Nat /\ accepted[d][t] + OnWire(d, t) <= 1
      BY <1>1 DEF RowInv, AtMostOnce, TypeOK
    <3> QED BY <1>3, <1>4, <3>1, WireRange
  <2> QED BY <1>1, <1>4, <2>1, <2>2, NetworkRow
<1>7. RunInv' /\ LinkInv'
  BY <1>1, <1>2, <1>3, <1>4, <1>5, ProgressRun, ProgressLink
<1> QED BY <1>6, <1>7, InvPartsNext

LEMMA StepNoAnswer ==
    ASSUME DeliveryInv, TypeOK', NEW w \in Slot, NEW s \in Subscription, NoAnswer(w, s)
    PROVE  DeliveryInv'
<1> USE InvParts
<1>1. PICK d \in Delivery : run[w] \in Job /\ run[w].pc = "send"
                            /\ run[w].result[s] = "requested" /\ run[w].delivery = d
  BY SenderFacts DEF NoAnswer, At
<1>2. PICK j \in Job : Progresses(w, s, j) /\ j.result[s] = "INDETERMINATE" /\ j.delivery = d
  BY <1>1, ResultProgress DEF NoAnswer, Progress, Final
<1>3. s \in run[w].targets /\ accepted[d][s] = 0 /\ OnWire(d, s) = 0
  BY <1>1, WaiterFacts
<1>4. /\ OnWire(d, s)' \in {0, 1}
      /\ \A e \in Delivery, t \in Subscription : e # d \/ t # s => OnWire(e, t)' = OnWire(e, t)
      /\ accepted' = accepted /\ now' = now /\ UNCHANGED rowVars
  BY <1>1 DEF NoAnswer, OnWire
<1>5. Knows(j, s)
  BY <1>2 DEF Knows
<1>6. RowInv'
  <2>1. ~OpenRow(d) /\ scheduledFor[d] <= now
    BY <1>1, SenderFacts
  <2>2. ASSUME NEW t \in Subscription
        PROVE  accepted'[d][t] >= accepted[d][t] /\ accepted'[d][t] + OnWire(d, t)' <= 1
    <3>1. accepted[d][t] \in Nat /\ accepted[d][t] + OnWire(d, t) <= 1
      BY <1>1 DEF RowInv, AtMostOnce, TypeOK
    <3> QED BY <1>3, <1>4, <3>1, WireRange
  <2> QED BY <1>1, <1>4, <2>1, <2>2, NetworkRow
<1>7. RunInv' /\ LinkInv'
  BY <1>1, <1>2, <1>3, <1>4, <1>5, ProgressRun, ProgressLink
<1> QED BY <1>6, <1>7, InvPartsNext

\* A late request touches the network of one endpoint its sender gave up on.
LEMMA StepLateArrival ==
    ASSUME DeliveryInv, TypeOK', NEW d \in Delivery, NEW s \in Subscription, LateArrival(d, s)
    PROVE  DeliveryInv'
<1> USE InvParts
<1>1. OnWire(d, s) = 1 /\ OnWire(d, s)' = 0 /\ accepted[d][s] \in Nat
  BY DEF LateArrival, OnWire, TypeOK
<1>2. /\ accepted'[d][s] \in {accepted[d][s], accepted[d][s] + 1}
      /\ \A e \in Delivery, t \in Subscription : e # d \/ t # s =>
            accepted'[e][t] = accepted[e][t] /\ OnWire(e, t)' = OnWire(e, t)
      /\ now' = now /\ UNCHANGED <<rowVars, run>>
  BY DEF LateArrival, Accept, TypeOK, OnWire
<1>3. RowInv'
  <2>1. ~NothingSent(d)
    BY <1>1 DEF NothingSent
  <2>2. ASSUME NEW t \in Subscription
        PROVE  accepted'[d][t] >= accepted[d][t] /\ accepted'[d][t] + OnWire(d, t)' <= 1
    <3>1. accepted[d][t] \in Nat /\ accepted[d][t] + OnWire(d, t) <= 1
      BY DEF RowInv, AtMostOnce, TypeOK
    <3> QED BY <1>1, <1>2, <3>1, WireRange
  <2> QED BY <1>2, <2>1, <2>2, NetworkRow
<1>4. PosterKnows'
  <2> SUFFICES ASSUME NEW v \in Slot, NEW e \in Delivery, Executing(v, Posting, e),
                      NEW t \in Subscription
               PROVE  /\ run[v].result[t] \in {"taken", "SENT"} =>
                           accepted'[e][t] = 1 /\ OnWire(e, t)' = 0
                      /\ run[v].result[t] \notin {"taken", "SENT", "INDETERMINATE"} =>
                           accepted'[e][t] = 0 /\ OnWire(e, t)' = 0
                      /\ t \notin run[v].targets => run[v].result[t] = "ready"
    BY <1>2 DEF PosterKnows, Executing
  <2> QED BY <1>1, <1>2 DEF LinkInv, PosterKnows
<1>5. PosterOwnsRow' /\ RunInv'
  BY <1>2, FrameRun DEF LinkInv, PosterOwnsRow, Executing, Holds, Sending, rowVars, TypeOK, Time
<1> QED BY <1>3, <1>4, <1>5, InvPartsNext DEF LinkInv

-----------------------------------------------------------------------------
(* After the network.                                                       *)

\* A posting execution that moves on to its verdict keeps what it knows.
MovesOn(w, j) ==
    /\ run[w] \in Job /\ j \in Job
    /\ run[w].pc \in Posting /\ j.pc \in {"revoke", "finalize"}
    /\ run' = [run EXCEPT ![w] = j]
    /\ j.delivery = run[w].delivery /\ j.token = run[w].token /\ j.at = run[w].at
    /\ j.targets = run[w].targets /\ j.result = run[w].result
    /\ j.at <= j.completedAt /\ j.completedAt <= now
    /\ j.verdict = "SENT" => \E s \in Subscription : j.result[s] = "SENT"
    /\ j.verdict = "CANCELLED" => \A s \in j.targets : j.result[s] = "INVALID"

LEMMA MovesOnInv ==
    ASSUME DeliveryInv, TypeOK', NEW w \in Slot, NEW j, MovesOn(w, j),
           UNCHANGED <<now, rowVars, wire, accepted>>
    PROVE  DeliveryInv'
<1> USE InvParts
<1>1. run'[w] = j /\ \A v \in Slot \ {w} : run'[v] = run[v]
  BY DEF MovesOn, TypeOK
<1>2. LiveTokens'
  BY <1>1 DEF MovesOn, RunInv, LiveTokens, Live, Posting
<1>3. NotYetPosting' /\ OneSender'
  BY <1>1 DEF MovesOn, RunInv, NotYetPosting, OneSender, Live, Executing, Posting
<1>4. VerdictFollows'
  BY <1>1 DEF MovesOn, RunInv, VerdictFollows
<1>5. LinkInv'
  BY <1>1 DEF MovesOn, LinkInv, PosterOwnsRow, PosterKnows, Executing, Posting, Holds, Sending,
     OnWire, rowVars
<1>6. RowInv'
  BY FrameRow DEF TypeOK, Time
<1> QED BY <1>2, <1>3, <1>4, <1>5, <1>6, InvPartsNext DEF RunInv

LEMMA StepCollect ==
    ASSUME DeliveryInv, TypeOK', NEW w \in Slot, Collect(w)
    PROVE  DeliveryInv'
<1> USE InvParts
<1> DEFINE sent       == Outcome(w, Success)
           invalid    == Outcome(w, {"INVALID"})
           unresolved == Outcome(w, Unresolved)
           verdict    == IF sent # {} THEN "SENT"
                         ELSE IF unresolved = {} THEN "CANCELLED" ELSE "FAILED"
<1>1. run[w] \in Job /\ run[w].pc = "send" /\ Live(w) /\ now \in Time
  BY SenderFacts DEF Collect, At, Live, TypeOK
<1>2. PICK k \in {"dead-letter", "stale", "partial", "none"} :
         run' = [run EXCEPT ![w] =
            [@ EXCEPT !.pc = IF invalid # {} THEN "revoke" ELSE "finalize",
                      !.verdict = verdict, !.message = Safe(k), !.completedAt = now]]
  BY DEF Collect
<1> DEFINE j == [run[w] EXCEPT !.pc = IF invalid # {} THEN "revoke" ELSE "finalize",
                               !.verdict = verdict, !.message = Safe(k), !.completedAt = now]
<1>3. j \in Job
  <2> DEFINE pc == IF invalid # {} THEN "revoke" ELSE "finalize"
  <2>1. pc \in JobPc /\ verdict \in Verdict /\ Safe(k) \in SafeMessage
    BY DEF JobPc, Verdict, Safe, SafeMessage
  <2>2. j = [run[w] EXCEPT !.pc = pc, !.verdict = verdict, !.message = Safe(k),
                           !.completedAt = now]
    OBVIOUS
  <2> HIDE DEF pc, verdict, j
  <2> QED BY <1>1, <2>1, <2>2, JobUpdates
<1>4. /\ j.pc \in {"revoke", "finalize"} /\ j.verdict = verdict /\ j.completedAt = now
      /\ j.delivery = run[w].delivery /\ j.token = run[w].token /\ j.at = run[w].at
      /\ j.targets = run[w].targets /\ j.result = run[w].result
  BY <1>1 DEF Job
<1>5. run[w].at <= now
  <2>1. run[w].at \in Time /\ run[w].completedAt \in Time
    BY <1>1 DEF Job
  <2> QED BY <1>1, <2>1 DEF RunInv, LiveTokens, Time
<1>6. verdict = "SENT" => \E s \in Subscription : run[w].result[s] = "SENT"
  BY <1>1 DEF Outcome, Success, Job
<1>7. verdict = "CANCELLED" => \A s \in run[w].targets : run[w].result[s] = "INVALID"
  <2>1. \A s \in run[w].targets : run[w].result[s] \in Final
    BY DEF Collect, Outcome
  <2> QED BY <2>1 DEF Outcome, Success, Unresolved, Final
<1>8. run' = [run EXCEPT ![w] = j]
  BY <1>2
<1> HIDE DEF j, verdict
<1>9. MovesOn(w, j)
  BY <1>1, <1>3, <1>4, <1>5, <1>6, <1>7, <1>8 DEF MovesOn, Posting, TypeOK, Time
<1> QED BY <1>9, MovesOnInv DEF Collect

LEMMA StepRevokeInvalid ==
    ASSUME DeliveryInv, TypeOK', NEW w \in Slot, RevokeInvalidPushSubscriptions(w)
    PROVE  DeliveryInv'
<1> USE InvParts
<1> DEFINE j == [run[w] EXCEPT !.pc = "finalize"]
<1>1. run[w] \in Job /\ run[w].pc = "revoke" /\ Live(w)
  BY LiveIsJob DEF RevokeInvalidPushSubscriptions, At, Live
<1>2. j \in Job /\ run' = [run EXCEPT ![w] = j]
  BY <1>1, JobUpdates DEF JobPc, RevokeInvalidPushSubscriptions, Goto
<1>3. /\ j.pc = "finalize" /\ j.verdict = run[w].verdict /\ j.completedAt = run[w].completedAt
      /\ j.delivery = run[w].delivery /\ j.token = run[w].token /\ j.at = run[w].at
      /\ j.targets = run[w].targets /\ j.result = run[w].result
  BY <1>1 DEF Job
<1> HIDE DEF j
<1>4. MovesOn(w, j)
  BY <1>1, <1>2, <1>3 DEF MovesOn, Posting, RunInv, LiveTokens, VerdictFollows
<1> QED BY <1>4, MovesOnInv DEF RevokeInvalidPushSubscriptions

\* The verdict is written only while the row still carries this execution's
\* SENDING marker; otherwise recovery or deletion has already closed the row.
LEMMA StepFinalize ==
    ASSUME DeliveryInv, TypeOK', NEW w \in Slot, Finalize(w)
    PROVE  DeliveryInv'
<1> USE InvParts
<1>1. PICK d \in Delivery : /\ run[w] \in Job /\ run[w].pc = "finalize" /\ Live(w)
                            /\ run[w].delivery = d /\ Executing(w, Posting, d)
  BY LiveIsJob DEF Finalize, At, Live, Job, Executing, Posting
<1> DEFINE marker == Sending(run[w].token, run[w].at)
<1>2. UNCHANGED <<now, wire, accepted>> /\ Ends(w)
  BY <1>1, FinishEnds DEF Finalize
<1>3. CASE ~Holds(d, marker)
  BY <1>1, <1>2, <1>3, QuietInv DEF Finalize, FinalizeClaimedDelivery
<1>4. CASE Holds(d, marker)
  <2>1. WriteRow(d, run[w].verdict, run[w].message,
                 IF run[w].verdict = "SENT" THEN run[w].completedAt ELSE NoTime)
    BY <1>1, <1>4 DEF Finalize, FinalizeClaimedDelivery
  <2>2. OnlyRow(d) /\ status'[d] = run[w].verdict /\ scheduledFor'[d] = scheduledFor[d]
        /\ sentAt'[d] = IF run[w].verdict = "SENT" THEN run[w].completedAt ELSE NoTime
    BY <2>1, WriteOnlyRow
  <2>3. run[w].verdict \in {"SENT", "FAILED", "CANCELLED"}
    BY <1>1 DEF Job
  <2>4. run[w].verdict = "SENT" => \E s \in Subscription : accepted[d][s] > 0
    BY <1>1 DEF RunInv, VerdictFollows, LinkInv, PosterKnows
  <2>5. run[w].verdict = "CANCELLED" => NothingSent(d)
    BY <1>1 DEF RunInv, VerdictFollows, LinkInv, PosterKnows, NothingSent
  <2>6. scheduledFor[d] <= run[w].completedAt /\ scheduledFor[d] <= now
    <3>1. /\ scheduledFor[d] \in Int /\ run[w].at \in Int
          /\ run[w].completedAt \in Int /\ now \in Int
      BY <1>1 DEF Job, TypeOK, Time
    <3>2. scheduledFor[d] <= run[w].at
      BY <1>1 DEF LinkInv, PosterOwnsRow
    <3> QED BY <1>1, <3>1, <3>2 DEF RunInv, LiveTokens
  <2>7. GoodRow(d)
    BY <2>2, <2>3, <2>4, <2>5, <2>6 DEF GoodRow, OpenRow
  <2>8. \A v \in Slot : ~Executing(v, Posting, d)'
    <3>1. \A v \in Slot : Executing(v, Posting, d)' => Executing(v, Posting, d) /\ v # w
      BY <1>2 DEF Ends, Ended, Idle, Executing, Posting, TypeOK
    <3> QED BY <1>1, <3>1 DEF RunInv, OneSender
  <2>9. LinkInv'
    BY <1>2, <2>2, <2>8, EndsQuiet, QuietLink DEF OnlyRow, Respects
  <2> QED BY <1>2, <2>2, <2>7, <2>9, RowWrite, EndsRun, InvPartsNext
<1> QED BY <1>3, <1>4

-----------------------------------------------------------------------------
(* BullMQ, crashes and errors.                                              *)

LEMMA StepRelease ==
    ASSUME DeliveryInv, TypeOK', NEW w \in Slot, Complete(w) \/ ThrowError(w)
    PROVE  DeliveryInv'
<1>1. Ends(w)
  BY DEF Complete, ThrowError, Ends, Ended
<1> QED BY <1>1, QuietInv DEF Complete, ThrowError

\* A sender that dies leaves its open requests on the wire, one per endpoint.
LEMMA StepCrash ==
    ASSUME DeliveryInv, TypeOK', NEW w \in Slot, CrashSlot(w)
    PROVE  DeliveryInv'
<1> USE InvParts
<1>1. Ends(w) /\ UNCHANGED <<now, rowVars, accepted>> /\ wire' = wire \cup Orphans(w)
  BY DEF CrashSlot, Ends, Ended
<1>2. CASE run[w].pc # "send"
  BY <1>1, <1>2, QuietInv DEF Orphans, At
<1>3. CASE run[w].pc = "send"
  <2>1. PICK d \in Delivery : /\ run[w].delivery = d /\ Executing(w, Posting, d)
                              /\ ~OpenRow(d) /\ scheduledFor[d] <= now
    BY <1>3, SenderFacts
  <2>2. Orphans(w) = {<<d, s>> : s \in {s \in run[w].targets : run[w].result[s] = "requested"}}
    BY <1>3, <2>1 DEF Orphans, At
  <2>3. \A e \in Delivery \ {d}, s \in Subscription : OnWire(e, s)' = OnWire(e, s)
    BY <1>1, <2>2 DEF OnWire
  <2>4. ASSUME NEW s \in Subscription
        PROVE  accepted'[d][s] >= accepted[d][s] /\ accepted'[d][s] + OnWire(d, s)' <= 1
    <3>1. accepted[d][s] \in Nat /\ accepted[d][s] + OnWire(d, s) <= 1
      BY DEF RowInv, AtMostOnce, TypeOK
    <3>2. CASE run[w].result[s] = "requested"
      <4>1. accepted[d][s] = 0
        BY <1>3, <2>1, <3>2, WaiterFacts
      <4> QED BY <1>1, <3>1, <4>1, WireRange
    <3>3. CASE run[w].result[s] # "requested"
      <4>1. OnWire(d, s)' = OnWire(d, s)
        BY <1>1, <2>2, <3>3 DEF OnWire
      <4> QED BY <1>1, <3>1, <4>1
    <3> QED BY <3>2, <3>3
  <2>5. RowInv'
    BY <1>1, <2>1, <2>3, <2>4, NetworkRow
  <2>6. \A v \in Slot, e \in Delivery : Executing(v, Posting, e)' =>
           Executing(v, Posting, e) /\ e # d /\ run'[v] = run[v]
    <3>1. \A v \in Slot, e \in Delivery : Executing(v, Posting, e)' =>
             v # w /\ Executing(v, Posting, e) /\ run'[v] = run[v]
      BY <1>1 DEF Ends, Ended, Idle, Executing, Posting, TypeOK
    <3> QED BY <2>1, <3>1 DEF RunInv, OneSender
  <2>7. LinkInv'
    <3>1. PosterOwnsRow'
      BY <1>1, <2>6 DEF LinkInv, PosterOwnsRow, Holds, Sending, rowVars
    <3>2. PosterKnows'
      BY <1>1, <2>3, <2>6 DEF LinkInv, PosterKnows
    <3> QED BY <3>1, <3>2 DEF LinkInv
  <2> QED BY <1>1, <2>5, <2>7, EndsRun, InvPartsNext
<1> QED BY <1>2, <1>3

-----------------------------------------------------------------------------
(* The recovery scan and the other writers.                                 *)

\* A write, by nobody's execution, of a row that is open or is closed by it.
LEMMA ForeignWrite ==
    ASSUME DeliveryInv, TypeOK', NEW d \in Delivery, OnlyRow(d), GoodRow(d),
           OpenRow(d) \/ Respects(d), UNCHANGED <<now, run, wire, accepted>>
    PROVE  DeliveryInv'
<1> USE InvParts
<1>1. RowInv'
  BY RowWrite
<1>2. RunInv'
  BY FrameRun DEF TypeOK, Time
<1>3. Quiet
  BY DEF Quiet
<1>4. LinkInv'
  <2>1. CASE OpenRow(d)
    BY <1>3, <2>1, FreeRowLink
  <2>2. CASE Respects(d)
    BY <1>3, <2>2, QuietLink DEF OnlyRow, Respects
  <2> QED BY <2>1, <2>2
<1> QED BY <1>1, <1>2, <1>4, InvPartsNext

LEMMA OpenIsUnsent ==
    ASSUME DeliveryInv, NEW d \in Delivery, OpenRow(d)
    PROVE  NothingSent(d)
BY OpenPhase, InvParts DEF RowInv, UncommittedMeansUnsent

\* A stale CLAIMED marker is reset only while the row still carries it: nothing
\* was sent.  Any other stale claim is closed as FAILED.
LEMMA StepRecoverOne ==
    ASSUME DeliveryInv, TypeOK', NEW m \in Maintainer, RecoverOne(m)
    PROVE  DeliveryInv'
<1> USE InvParts
<1>1. PICK c \in maint[m].claims :
         \/ UNCHANGED rowVars
         \/ c[2].kind = "claim" /\ c[2].phase = "CLAIMED" /\ ResetStaleClaimedDelivery(c[1], c[2])
         \/ FinalizeClaimedDelivery(c[1], c[2], "FAILED", maint[m].at, Safe("dead-letter"))
  BY DEF RecoverOne, Retriable
<1>2. c[1] \in Delivery
  <2>1. maint[m] \in [pc : {"recover"}, at : Time, claims : SUBSET (Delivery \X Message)]
    BY DEF RecoverOne, TypeOK, Loop, Idle
  <2> QED BY <1>1, <2>1
<1>3. UNCHANGED <<now, run, wire, accepted>>
  BY DEF RecoverOne, Retriable
<1>4. CASE UNCHANGED rowVars
  BY <1>3, <1>4, FrameInv DEF TypeOK, Time
<1>5. CASE c[2].phase = "CLAIMED" /\ Holds(c[1], c[2])
           /\ WriteRow(c[1], "SCHEDULED", Safe("retry"), NoTime)
  <2>1. OpenRow(c[1]) /\ NothingSent(c[1])
    BY <1>2, <1>5, OpenIsUnsent DEF OpenRow, Holds
  <2>2. OnlyRow(c[1]) /\ GoodRow(c[1])
    BY <1>2, <1>5, <2>1, WriteOnlyRow DEF GoodRow
  <2> QED BY <1>2, <1>3, <2>1, <2>2, ForeignWrite
<1>6. CASE Holds(c[1], c[2]) /\ WriteRow(c[1], "FAILED", Safe("dead-letter"), NoTime)
  <2>1. OnlyRow(c[1]) /\ Respects(c[1]) /\ GoodRow(c[1])
    BY <1>2, <1>6, WriteOnlyRow DEF GoodRow, OpenRow, Respects, RowInv, NeverEarly
  <2> QED BY <1>2, <1>3, <2>1, ForeignWrite
<1> QED BY <1>1, <1>4, <1>5, <1>6 DEF ResetStaleClaimedDelivery, FinalizeClaimedDelivery

LEMMA StepPlan ==
    ASSUME DeliveryInv, TypeOK', NEW d \in Delivery, NEW at \in Time,
           CreateRow(d, at) \/ RescheduleRow(d, at) \/ CancelRow(d)
    PROVE  DeliveryInv'
<1> USE InvParts
<1>1. OpenRow(d) /\ status[d] # "SENT" /\ NothingSent(d)
  BY OpenIsUnsent DEF OpenRow, CreateRow, RescheduleRow, Replannable, CancelRow
<1>2. OnlyRow(d) /\ status'[d] \in {"SCHEDULED", "CANCELLED"} /\ sentAt' = sentAt
  BY DEF CreateRow, RescheduleRow, Replannable, CancelRow, OnlyRow, TypeOK
<1>3. GoodRow(d)
  BY <1>1, <1>2 DEF GoodRow, RowInv, SentIsTruthful
<1> QED BY <1>1, <1>2, <1>3, ForeignWrite DEF CreateRow, RescheduleRow, Replannable, CancelRow

LEMMA StepDelete ==
    ASSUME DeliveryInv, TypeOK', NEW d \in Delivery, DeleteRow(d)
    PROVE  DeliveryInv'
<1> USE InvParts
<1>1. OnlyRow(d) /\ Respects(d) /\ GoodRow(d)
  BY WriteOnlyRow DEF DeleteRow, GoodRow, OpenRow, Respects, RowInv, NeverEarly
<1> QED BY <1>1, ForeignWrite DEF DeleteRow

\* Unsubscription cancels every scheduled row at once.
LEMMA StepUnsubscribe ==
    ASSUME DeliveryInv, TypeOK', UnsubscribeFromNotifications
    PROVE  DeliveryInv'
<1> USE InvParts DEF UnsubscribeFromNotifications
<1>1. \A d \in Delivery :
         \/ status'[d] = status[d]
         \/ status[d] = "SCHEDULED" /\ status'[d] = "CANCELLED"
  BY DEF TypeOK
<1>2. RunInv'
  BY FrameRun DEF TypeOK, Time
<1>3. LinkInv'
  <2>1. ASSUME NEW d \in Delivery, NEW v \in Slot, Executing(v, Posting, d)'
        PROVE  Respects(d)
    <3>1. Executing(v, Posting, d)
      BY <2>1 DEF Executing
    <3>2. status[d] # "SCHEDULED"
      BY <3>1, NoPoster DEF OpenRow
    <3> QED BY <1>1, <3>2 DEF Respects, rowVars
  <2> QED BY <2>1, QuietLink DEF Quiet
<1>4. RowInv'
  <2>1. MarkedRows' /\ AtMostOnce' /\ NeverEarly'
    BY <1>1 DEF RowInv, MarkedRows, AtMostOnce, NeverEarly, NothingSent, OnWire
  <2>2. UncommittedMeansUnsent'
    <3> SUFFICES ASSUME NEW d \in Delivery, OpenRow(d)' PROVE NothingSent(d)
      BY OpenPhaseNext DEF UncommittedMeansUnsent, NothingSent, OnWire
    <3>1. OpenRow(d)
      BY <1>1 DEF OpenRow
    <3> QED BY <3>1, OpenIsUnsent
  <2>3. SentIsTruthful'
    BY <1>1 DEF RowInv, SentIsTruthful
  <2> QED BY <2>1, <2>2, <2>3 DEF RowInv
<1> QED BY <1>2, <1>3, <1>4, InvPartsNext

-----------------------------------------------------------------------------
(* The invariant and its consequences.                                      *)

LEMMA InvInit == Init => DeliveryInv
<1> SUFFICES ASSUME Init PROVE DeliveryInv
  OBVIOUS
<1>1. TypeOK
  BY TypeInit
<1>2. RunInv
  BY DEF Init, RunInv, LiveTokens, NotYetPosting, VerdictFollows, OneSender, Live, Executing,
     Posting, Idle
<1>3. \A d \in Delivery : NothingSent(d)
  BY DEF Init, NothingSent, OnWire
<1>4. RowInv
  <2>1. MarkedRows /\ SentIsTruthful
    BY DEF Init, MarkedRows, SentIsTruthful
  <2>2. UncommittedMeansUnsent /\ NeverEarly
    BY <1>3 DEF UncommittedMeansUnsent, NeverEarly
  <2>3. AtMostOnce
    BY <1>3 DEF NothingSent, AtMostOnce
  <2> QED BY <2>1, <2>2, <2>3 DEF RowInv
<1>5. LinkInv
  BY DEF Init, LinkInv, PosterOwnsRow, PosterKnows, Executing, Posting, Idle
<1> QED BY <1>1, <1>2, <1>4, <1>5, InvParts

LEMMA InvNext == DeliveryInv /\ [Next]_vars => DeliveryInv'
<1> SUFFICES ASSUME DeliveryInv, [Next]_vars PROVE DeliveryInv'
  OBVIOUS
<1>0. TypeOK /\ TypeOK' /\ now \in Int
  BY InvParts, TypeNext DEF TypeOK, Time
<1>1. CASE \E w \in Slot, d \in Delivery : Start(w, d)
  BY <1>0, <1>1, StepStart
<1>2. ASSUME NEW w \in Slot, JobStep(w) PROVE DeliveryInv'
  <2>1. CASE \E s \in Subscription : SendStep(w, s)
    BY <1>0, <2>1, StepRequest, StepServiceAccepts, StepAnswer, StepRefused, StepNoAnswer
       DEF SendStep
  <2>2. CASE ~\E s \in Subscription : SendStep(w, s)
    BY <1>0, <1>2, <2>2, StepClaim, StepIdentity, StepPrepare, StepList, StepAbandon, StepPromote,
       StepCollect, StepRevokeInvalid, StepFinalize, StepRelease DEF JobStep
  <2> QED BY <2>1, <2>2
<1>3. CASE \E d \in Delivery, s \in Subscription : LateArrival(d, s)
  BY <1>0, <1>3, StepLateArrival
<1>4. ASSUME NEW d \in Delivery, ReclaimLostJob(d) \/ LoseLock(d) PROVE DeliveryInv'
  BY <1>0, <1>4, FrameInv DEF ReclaimLostJob, LoseLock, Unlock
<1>5. ASSUME NEW m \in Maintainer, LoopStep(m) \/ LoopError(m) PROVE DeliveryInv'
  <2>1. CASE RecoverOne(m)
    BY <1>0, <2>1, StepRecoverOne
  <2>2. CASE ~RecoverOne(m)
    BY <1>0, <1>5, <2>2, FrameInv DEF LoopStep, RecoverList, DispatchList, DispatchOne, DispatchEnd,
       LoopError
  <2> QED BY <2>1, <2>2
<1>6. ASSUME NEW w \in Slot, CrashSlot(w) \/ ThrowError(w) PROVE DeliveryInv'
  BY <1>0, <1>6, StepCrash, StepRelease
<1>7. CASE Environment
  <2>1. CASE \E d \in Delivery, at \in Time : CreateRow(d, at) \/ RescheduleRow(d, at)
    BY <1>0, <2>1, StepPlan
  <2>2. CASE \E d \in Delivery : CancelRow(d) \/ DeleteRow(d)
    <3>1. 0 \in Time
      BY BoundsAssumption DEF Time
    <3> QED BY <1>0, <2>2, <3>1, StepPlan, StepDelete
  <2>3. CASE UnsubscribeFromNotifications
    BY <1>0, <2>3, StepUnsubscribe
  <2>4. CASE \E s \in Subscription : StorePushSubscription(s) \/ RevokePushSubscription(s)
    BY <1>0, <2>4, FrameInv DEF StorePushSubscription, RevokePushSubscription
  <2> QED BY <1>7, <2>1, <2>2, <2>3, <2>4 DEF Environment
<1>8. CASE Tick
  BY <1>0, <1>8, FrameInv DEF Tick
<1>9. CASE UNCHANGED vars
  BY <1>0, <1>9, FrameInv DEF vars, rowVars
<1> QED BY <1>1, <1>2, <1>3, <1>4, <1>5, <1>6, <1>7, <1>8, <1>9 DEF Next, Failure

\* The invariant of the delivery state machine, for every number of rows,
\* endpoints, executions and worker processes, any claim age limit and clock.
THEOREM DeliveryInvariant == Spec => []DeliveryInv
BY InvInit, InvNext, PTL DEF Spec

\* No push endpoint is handed a notification twice, whatever crashes, lost
\* locks, recoveries and reactivations happen: "an already successful endpoint
\* is never sent the event again".
THEOREM EndpointAtMostOnce == Spec => []AtMostOnce
<1>1. DeliveryInv => AtMostOnce
  BY DEF DeliveryInv
<1> QED BY <1>1, DeliveryInvariant, PTL

\* Two executions never post one delivery at the same time, although BullMQ
\* may hand its job out twice and recovery may reset a claim under its owner.
THEOREM SingleSender == Spec => []OneSender
<1>1. DeliveryInv => OneSender
  BY DEF DeliveryInv
<1> QED BY <1>1, DeliveryInvariant, PTL

\* A row that may be claimed again was never posted and is not being posted.
THEOREM RetryIsSafe == Spec => []RetryableMeansUnsent
<1>1. DeliveryInv => RetryableMeansUnsent
  <2> SUFFICES ASSUME DeliveryInv, NEW d \in Delivery, status[d] \in {"SCHEDULED", "CANCELLED"}
               PROVE  NothingSent(d) /\ \A w \in Slot : ~Executing(w, {"send"}, d)
    BY DEF RetryableMeansUnsent
  <2>1. OpenRow(d)
    BY DEF OpenRow
  <2>2. \A w \in Slot : ~Executing(w, Posting, d)
    BY <2>1, NoPoster, InvParts
  <2> QED BY <2>1, <2>2, OpenIsUnsent DEF Executing, Posting
<1> QED BY <1>1, DeliveryInvariant, PTL

\* SENT and sentAt are written exactly when an endpoint took the notification,
\* and not before it was due.
THEOREM SentTruth == Spec => [](SentIsTruthful /\ NeverEarly)
<1>1. DeliveryInv => SentIsTruthful /\ NeverEarly
  BY DEF DeliveryInv
<1> QED BY <1>1, DeliveryInvariant, PTL

-----------------------------------------------------------------------------
(* NotificationDelivery implements DeliveryContract: under the mapping      *)
(* contractPhase every step of the worker is a step of the contract or      *)
(* leaves it unchanged.  That verdicts are final follows the same way.      *)

\* The two ways a step shows in the contract, besides not at all.
Unseen == UNCHANGED <<contractPhase, accepted>>
Moves(d, p) == contractPhase' = [contractPhase EXCEPT ![d] = p] /\ UNCHANGED accepted

LEMMA PhaseFrame ==
    ASSUME UNCHANGED rowVars
    PROVE  UNCHANGED contractPhase
BY DEF rowVars, contractPhase

LEMMA PhaseFunction ==
    /\ contractPhase = [d \in Delivery |-> contractPhase[d]]
    /\ contractPhase' = [d \in Delivery |-> contractPhase'[d]]
BY DEF contractPhase

\* One written row moves only its own phase.
LEMMA PhaseWrite ==
    ASSUME NEW d \in Delivery, OnlyRow(d)
    PROVE  contractPhase' = [contractPhase EXCEPT ![d] = contractPhase'[d]]
<1>1. ASSUME NEW e \in Delivery, e # d PROVE contractPhase'[e] = contractPhase[e]
  BY <1>1 DEF OnlyRow, contractPhase
<1> QED BY <1>1, PhaseFunction

LEMMA PhaseSame ==
    ASSUME NEW d \in Delivery, OnlyRow(d), contractPhase'[d] = contractPhase[d]
    PROVE  UNCHANGED contractPhase
<1>1. contractPhase = [contractPhase EXCEPT ![d] = contractPhase[d]]
  BY PhaseFunction
<1> QED BY <1>1, PhaseWrite

\* The phase of each kind of row.
LEMMA PhaseValues ==
    ASSUME TypeOK, NEW d \in Delivery
    PROVE  /\ contractPhase[d] = "open" <=> OpenRow(d)
           /\ status[d] = "PROCESSING" /\ errorMessage[d].phase = "SENDING" =>
                contractPhase[d] = "committed"
           /\ status[d] = "SENT" => contractPhase[d] = "sent"
           /\ status[d] = "FAILED" => contractPhase[d] = "failed"
           /\ status[d] = "DELETED" => contractPhase[d] = "gone"
           /\ status[d] # "DELETED" => contractPhase[d] \in {"open", "committed", "sent", "failed"}
<1>1. contractPhase[d] = "open" <=> OpenRow(d)
  BY OpenPhase
<1> QED BY <1>1 DEF contractPhase, OpenRow, TypeOK, Status

LEMMA PhaseValuesNext ==
    ASSUME TypeOK', NEW d \in Delivery
    PROVE  /\ contractPhase'[d] = "open" <=> OpenRow(d)'
           /\ status'[d] = "PROCESSING" /\ errorMessage'[d].phase = "SENDING" =>
                contractPhase'[d] = "committed"
           /\ status'[d] = "FAILED" => contractPhase'[d] = "failed"
           /\ status'[d] = "SENT" => contractPhase'[d] = "sent"
           /\ status'[d] = "DELETED" => contractPhase'[d] = "gone"
<1>1. contractPhase'[d] = "open" <=> OpenRow(d)'
  BY OpenPhaseNext
<1> QED BY <1>1 DEF contractPhase, OpenRow, TypeOK, Status

LEMMA UnsentUntouched ==
    ASSUME TypeOK, NEW d \in Delivery, NothingSent(d)
    PROVE  Contract!Untouched(d)
<1>1. ASSUME NEW s \in Subscription PROVE accepted[d][s] = 0
  <2>1. accepted[d][s] \in Nat /\ OnWire(d, s) \in {0, 1} /\ accepted[d][s] + OnWire(d, s) = 0
    BY WireRange DEF TypeOK, NothingSent
  <2> QED BY <2>1
<1> QED BY <1>1 DEF Contract!Untouched

LEMMA OpenStaysOpen ==
    ASSUME TypeOK, TypeOK', NEW d \in Delivery, OnlyRow(d), OpenRow(d), OpenRow(d)',
           UNCHANGED accepted
    PROVE  Unseen
BY PhaseValues, PhaseValuesNext, PhaseSame DEF Unseen

\* Closing as FAILED: Fail, from any phase before a verdict.
LEMMA FailsSeen ==
    ASSUME TypeOK, TypeOK', NEW d \in Delivery, OnlyRow(d), UNCHANGED accepted,
           status[d] \in {"ABSENT", "SCHEDULED", "CANCELLED", "PROCESSING"}, status'[d] = "FAILED"
    PROVE  Contract!Fail(d)
<1>1. contractPhase[d] \in {"open", "committed"}
  BY DEF contractPhase
<1>2. contractPhase' = [contractPhase EXCEPT ![d] = "failed"]
  <2>1. contractPhase'[d] = "failed"
    BY PhaseValuesNext
  <2> QED BY <2>1, PhaseWrite
<1> QED BY <1>1, <1>2 DEF Contract!Fail, Contract!Move

-----------------------------------------------------------------------------
SeenAs == Contract!Next \/ Unseen

LEMMA ClaimSeen ==
    ASSUME DeliveryInv, TypeOK', NEW w \in Slot, Claim(w)
    PROVE  Unseen
<1> USE InvParts
<1>1. PICK d \in Delivery : d = run[w].delivery
  BY LiveIsJob DEF Claim, At, Live, Job
<1>2. CASE Claimable(d, run[w].at)
  <2>1. WriteRow(d, "PROCESSING", Claimed(run[w].token, run[w].at), NoTime)
    BY <1>1, <1>2 DEF Claim, ClaimScheduledDelivery
  <2>2. OpenRow(d) /\ OpenRow(d)' /\ OnlyRow(d)
    BY <1>2, <2>1, WriteOnlyRow DEF Claimable, Due, OpenRow, Claimed
  <2> QED BY <2>2, OpenStaysOpen DEF Claim
<1>3. CASE ~Claimable(d, run[w].at)
  BY <1>1, <1>3, PhaseFrame DEF Claim, Unseen
<1> QED BY <1>2, <1>3

LEMMA AbandonSeen ==
    ASSUME DeliveryInv, TypeOK', NEW w \in Slot, Abandon(w)
    PROVE  SeenAs
<1> USE InvParts
<1>1. PICK d \in Delivery : d = run[w].delivery /\ run[w] \in Job /\ Live(w) /\ run[w].pc \notin Posting
  BY LiveIsJob DEF Abandon, At, Live, Job, Posting
<1>2. run[w].verdict \in {"CANCELLED", "FAILED"}
  BY <1>1 DEF RunInv, NotYetPosting, Job
<1>3. CASE Holds(d, Claimed(run[w].token, run[w].at))
  <2>1. WriteRow(d, run[w].verdict, run[w].message, NoTime) /\ UNCHANGED accepted
    BY <1>1, <1>2, <1>3 DEF Abandon, FinalizeClaimedDelivery
  <2>2. OnlyRow(d) /\ status'[d] = run[w].verdict /\ OpenRow(d) /\ status[d] = "PROCESSING"
    BY <1>3, <2>1, WriteOnlyRow DEF OpenRow, Holds, Claimed
  <2>3. CASE run[w].verdict = "CANCELLED"
    BY <2>1, <2>2, <2>3, OpenStaysOpen DEF OpenRow, SeenAs
  <2>4. CASE run[w].verdict = "FAILED"
    BY <2>1, <2>2, <2>4, FailsSeen DEF SeenAs, Contract!Next
  <2> QED BY <1>2, <2>3, <2>4
<1>4. CASE ~Holds(d, Claimed(run[w].token, run[w].at))
  BY <1>1, <1>4, PhaseFrame DEF Abandon, FinalizeClaimedDelivery, Unseen, SeenAs
<1> QED BY <1>3, <1>4

LEMMA PromoteSeen ==
    ASSUME DeliveryInv, TypeOK', NEW w \in Slot, Promote(w)
    PROVE  SeenAs
<1> USE InvParts
<1>1. PICK d \in Delivery : d = run[w].delivery
  BY LiveIsJob DEF Promote, At, Live, Job
<1>2. CASE Holds(d, Claimed(run[w].token, run[w].at))
  <2>1. WriteRow(d, "PROCESSING", Sending(run[w].token, run[w].at), sentAt[d])
        /\ UNCHANGED accepted
    BY <1>1, <1>2 DEF Promote, PromoteClaimToSending, Holds
  <2>2. OnlyRow(d) /\ contractPhase'[d] = "committed" /\ contractPhase[d] = "open"
    BY <1>2, <2>1, WriteOnlyRow, PhaseValues, PhaseValuesNext DEF Holds, Claimed, Sending, OpenRow
  <2>3. Contract!Commit(d)
    BY <2>1, <2>2, PhaseWrite DEF Contract!Commit, Contract!Move
  <2> QED BY <2>3 DEF SeenAs, Contract!Next
<1>3. CASE ~Holds(d, Claimed(run[w].token, run[w].at))
  BY <1>1, <1>3, PhaseFrame DEF Promote, Unseen, SeenAs
<1> QED BY <1>2, <1>3

LEMMA FinalizeSeen ==
    ASSUME DeliveryInv, TypeOK', NEW w \in Slot, Finalize(w)
    PROVE  SeenAs
<1> USE InvParts
<1>1. PICK d \in Delivery : /\ run[w] \in Job /\ run[w].pc = "finalize"
                            /\ run[w].delivery = d /\ Executing(w, Posting, d)
  BY LiveIsJob DEF Finalize, At, Live, Job, Executing, Posting
<1>2. CASE ~Holds(d, Sending(run[w].token, run[w].at))
  BY <1>1, <1>2, PhaseFrame DEF Finalize, FinalizeClaimedDelivery, Unseen, SeenAs
<1>3. CASE Holds(d, Sending(run[w].token, run[w].at))
  <2>1. WriteRow(d, run[w].verdict, run[w].message,
                 IF run[w].verdict = "SENT" THEN run[w].completedAt ELSE NoTime)
        /\ UNCHANGED accepted
    BY <1>1, <1>3 DEF Finalize, FinalizeClaimedDelivery
  <2>2. OnlyRow(d) /\ status'[d] = run[w].verdict /\ status[d] = "PROCESSING"
        /\ contractPhase[d] = "committed"
    BY <1>3, <2>1, WriteOnlyRow, PhaseValues DEF Holds, Sending
  <2>3. CASE run[w].verdict = "SENT"
    <3>1. \E s \in Subscription : accepted[d][s] = 1
      BY <1>1, <2>3 DEF RunInv, VerdictFollows, LinkInv, PosterKnows
    <3>2. ~Contract!Untouched(d)
      BY <3>1 DEF Contract!Untouched
    <3>3. contractPhase' = [contractPhase EXCEPT ![d] = "sent"]
      BY <2>2, <2>3, PhaseWrite, PhaseValuesNext
    <3> QED BY <2>1, <2>2, <3>2, <3>3
       DEF SeenAs, Contract!Next, Contract!Confirm, Contract!Move
  <2>4. CASE run[w].verdict = "CANCELLED"
    <3>1. NothingSent(d)
      BY <1>1, <2>4 DEF RunInv, VerdictFollows, LinkInv, PosterKnows, NothingSent
    <3>2. contractPhase'[d] = "open"
      BY <2>2, <2>4, PhaseValuesNext DEF OpenRow
    <3>3. contractPhase' = [contractPhase EXCEPT ![d] = "open"]
      BY <2>2, <3>2, PhaseWrite
    <3> QED BY <2>1, <2>2, <3>1, <3>3, UnsentUntouched
       DEF SeenAs, Contract!Next, Contract!Reopen, Contract!Move
  <2>5. CASE run[w].verdict = "FAILED"
    BY <2>1, <2>2, <2>5, FailsSeen DEF SeenAs, Contract!Next
  <2> QED BY <1>1, <2>3, <2>4, <2>5 DEF Job
<1> QED BY <1>2, <1>3

\* An endpoint is taken once, and only after the commitment.
LEMMA AcceptSeen ==
    ASSUME DeliveryInv, NEW d \in Delivery, NEW s \in Subscription, Accept(d, s),
           accepted[d][s] = 0, ~OpenRow(d), UNCHANGED rowVars
    PROVE  SeenAs
<1>1. accepted' = [accepted EXCEPT ![d][s] = 1]
  BY DEF Accept
<1>2. contractPhase[d] # "open"
  BY InvParts, PhaseValues
<1> QED BY <1>1, <1>2, PhaseFrame DEF SeenAs, Contract!Next, Contract!Receive

LEMMA NetworkSeen ==
    ASSUME DeliveryInv, NEW w \in Slot, NEW s \in Subscription, SendStep(w, s)
    PROVE  SeenAs
<1> USE InvParts
<1>1. CASE ServiceAccepts(w, s)
  <2>1. run[w].pc = "send" /\ run[w].result[s] = "requested"
    BY <1>1 DEF ServiceAccepts, At
  <2>2. run[w].delivery \in Delivery /\ ~OpenRow(run[w].delivery)
        /\ accepted[run[w].delivery][s] = 0
    BY <2>1, SenderFacts, WaiterFacts
  <2> QED BY <1>1, <2>2, AcceptSeen DEF ServiceAccepts
<1>2. CASE ~ServiceAccepts(w, s)
  BY <1>2, PhaseFrame DEF SendStep, Request, AcceptedAnswer, Refused, NoAnswer, SeenAs, Unseen
<1> QED BY <1>1, <1>2

LEMMA LateSeen ==
    ASSUME DeliveryInv, NEW d \in Delivery, NEW s \in Subscription, LateArrival(d, s)
    PROVE  SeenAs
<1> USE InvParts
<1>1. CASE UNCHANGED accepted
  BY <1>1, PhaseFrame DEF LateArrival, SeenAs, Unseen
<1>2. CASE Accept(d, s)
  <2>1. OnWire(d, s) = 1 /\ accepted[d][s] \in Nat /\ accepted[d][s] + OnWire(d, s) <= 1
    BY DEF LateArrival, OnWire, TypeOK, RowInv, AtMostOnce
  <2>2. ~NothingSent(d)
    BY <2>1 DEF NothingSent
  <2> QED BY <1>2, <2>1, <2>2, OpenIsUnsent, AcceptSeen DEF LateArrival
<1> QED BY <1>1, <1>2 DEF LateArrival

LEMMA RecoverSeen ==
    ASSUME DeliveryInv, TypeOK', NEW m \in Maintainer, RecoverOne(m)
    PROVE  SeenAs
<1> USE InvParts
<1>1. PICK c \in maint[m].claims :
         \/ UNCHANGED rowVars
         \/ c[2].kind = "claim" /\ c[2].phase = "CLAIMED" /\ ResetStaleClaimedDelivery(c[1], c[2])
         \/ FinalizeClaimedDelivery(c[1], c[2], "FAILED", maint[m].at, Safe("dead-letter"))
  BY DEF RecoverOne, Retriable
<1>2. c[1] \in Delivery
  <2>1. maint[m] \in [pc : {"recover"}, at : Time, claims : SUBSET (Delivery \X Message)]
    BY DEF RecoverOne, TypeOK, Loop, Idle
  <2> QED BY <1>1, <2>1
<1>3. UNCHANGED accepted
  BY DEF RecoverOne, Retriable
<1>4. CASE UNCHANGED rowVars
  BY <1>3, <1>4, PhaseFrame DEF Unseen, SeenAs
<1>5. CASE c[2].phase = "CLAIMED" /\ Holds(c[1], c[2])
           /\ WriteRow(c[1], "SCHEDULED", Safe("retry"), NoTime)
  <2>1. OnlyRow(c[1]) /\ OpenRow(c[1]) /\ OpenRow(c[1])'
    BY <1>2, <1>5, WriteOnlyRow DEF OpenRow, Holds
  <2> QED BY <1>2, <1>3, <2>1, OpenStaysOpen DEF SeenAs
<1>6. CASE Holds(c[1], c[2]) /\ WriteRow(c[1], "FAILED", Safe("dead-letter"), NoTime)
  <2>1. OnlyRow(c[1]) /\ status[c[1]] = "PROCESSING" /\ status'[c[1]] = "FAILED"
    BY <1>2, <1>6, WriteOnlyRow DEF Holds
  <2> QED BY <1>2, <1>3, <2>1, FailsSeen DEF SeenAs, Contract!Next
<1> QED BY <1>1, <1>4, <1>5, <1>6 DEF ResetStaleClaimedDelivery, FinalizeClaimedDelivery

LEMMA EnvironmentSeen ==
    ASSUME DeliveryInv, TypeOK', Environment
    PROVE  SeenAs
<1> USE InvParts
<1>1. ASSUME NEW d \in Delivery, NEW at \in Time,
             CreateRow(d, at) \/ RescheduleRow(d, at) \/ CancelRow(d)
      PROVE  SeenAs
  <2>1. OpenRow(d) /\ OnlyRow(d) /\ status'[d] \in {"SCHEDULED", "CANCELLED"} /\ UNCHANGED accepted
    BY <1>1 DEF CreateRow, RescheduleRow, Replannable, CancelRow, OnlyRow, TypeOK, OpenRow
  <2> QED BY <2>1, OpenStaysOpen DEF OpenRow, SeenAs
<1>2. ASSUME NEW d \in Delivery, DeleteRow(d) PROVE SeenAs
  <2>1. OnlyRow(d) /\ status'[d] = "DELETED" /\ status[d] # "DELETED" /\ UNCHANGED accepted
    BY <1>2, WriteOnlyRow DEF DeleteRow
  <2>2. Contract!Remove(d)
    BY <2>1, PhaseWrite, PhaseValues, PhaseValuesNext DEF Contract!Remove, Contract!Move
  <2> QED BY <2>2 DEF SeenAs, Contract!Next
<1>3. CASE UnsubscribeFromNotifications
  <2>1. \A d \in Delivery :
           /\ \/ status'[d] = status[d]
              \/ status[d] = "SCHEDULED" /\ status'[d] = "CANCELLED"
           /\ errorMessage'[d] = errorMessage[d]
    BY <1>3 DEF UnsubscribeFromNotifications, TypeOK
  <2>2. ASSUME NEW d \in Delivery PROVE contractPhase'[d] = contractPhase[d]
    BY <2>1 DEF contractPhase
  <2> QED BY <1>3, <2>2, PhaseFunction DEF UnsubscribeFromNotifications, Unseen, SeenAs
<1>4. CASE \E s \in Subscription : StorePushSubscription(s) \/ RevokePushSubscription(s)
  BY <1>4, PhaseFrame DEF StorePushSubscription, RevokePushSubscription, Unseen, SeenAs
<1>5. 0 \in Time
  BY BoundsAssumption DEF Time
<1> QED BY <1>1, <1>2, <1>3, <1>4, <1>5 DEF Environment

-----------------------------------------------------------------------------
LEMMA ContractInit == Init => Contract!Init
<1> SUFFICES ASSUME Init PROVE Contract!Init
  OBVIOUS
<1>1. contractPhase = [d \in Delivery |-> "open"]
  BY DEF Init, contractPhase
<1> QED BY <1>1 DEF Init, Contract!Init

LEMMA ContractNext == DeliveryInv /\ [Next]_vars => SeenAs
<1> SUFFICES ASSUME DeliveryInv, [Next]_vars PROVE SeenAs
  OBVIOUS
<1>0. TypeOK'
  BY InvParts, TypeNext
<1>1. CASE \E w \in Slot, d \in Delivery : Start(w, d)
  BY <1>1, PhaseFrame DEF Start, Unseen, SeenAs
<1>2. ASSUME NEW w \in Slot, JobStep(w) PROVE SeenAs
  <2>1. CASE Claim(w) \/ Abandon(w) \/ Promote(w) \/ Finalize(w)
    BY <1>0, <2>1, ClaimSeen, AbandonSeen, PromoteSeen, FinalizeSeen DEF SeenAs
  <2>2. CASE \E s \in Subscription : SendStep(w, s)
    BY <2>2, NetworkSeen
  <2>3. CASE \/ LoadClaimedDeliveryIdentity(w) \/ Prepare(w) \/ ListActivePushSubscriptions(w)
             \/ Collect(w) \/ RevokeInvalidPushSubscriptions(w) \/ Complete(w)
    BY <2>3, PhaseFrame DEF LoadClaimedDeliveryIdentity, Prepare, ListActivePushSubscriptions,
       Collect, RevokeInvalidPushSubscriptions, Complete, Unseen, SeenAs
  <2> QED BY <1>2, <2>1, <2>2, <2>3 DEF JobStep
<1>3. CASE \E d \in Delivery, s \in Subscription : LateArrival(d, s)
  BY <1>3, LateSeen
<1>4. CASE \E d \in Delivery : ReclaimLostJob(d) \/ LoseLock(d)
  BY <1>4, PhaseFrame DEF ReclaimLostJob, LoseLock, Unlock, Unseen, SeenAs
<1>5. ASSUME NEW m \in Maintainer, LoopStep(m) \/ LoopError(m) PROVE SeenAs
  <2>1. CASE RecoverOne(m)
    BY <1>0, <2>1, RecoverSeen
  <2>2. CASE ~RecoverOne(m)
    BY <1>5, <2>2, PhaseFrame DEF LoopStep, RecoverList, DispatchList, DispatchOne, DispatchEnd,
       LoopError, Unseen, SeenAs
  <2> QED BY <2>1, <2>2
<1>6. CASE \E w \in Slot : CrashSlot(w) \/ ThrowError(w)
  BY <1>6, PhaseFrame DEF CrashSlot, ThrowError, Unseen, SeenAs
<1>7. CASE Environment
  BY <1>0, <1>7, EnvironmentSeen
<1>8. CASE Tick
  BY <1>8, PhaseFrame DEF Tick, Unseen, SeenAs
<1>9. CASE UNCHANGED vars
  BY <1>9, PhaseFrame DEF vars, rowVars, Unseen, SeenAs
<1> QED BY <1>1, <1>2, <1>3, <1>4, <1>5, <1>6, <1>7, <1>8, <1>9 DEF Next, Failure

\* The worker implements the delivery contract: claims, tokens, recoveries and
\* reconciliation only ever show as commit, reopen, confirm, fail and receive.
THEOREM ContractImplemented == Spec => ContractSpec
<1>1. DeliveryInv /\ [Next]_vars => [Contract!Next]_(Contract!contractVars)
  BY ContractNext DEF SeenAs, Unseen, Contract!contractVars
<1> QED BY <1>1, ContractInit, DeliveryInvariant, PTL DEF Spec, ContractSpec, Contract!Spec

\* SENT and FAILED are final: a late finalization, a recovery round or a
\* reconciliation that read the row before cannot overwrite them, because each
\* of their writes names the claim or the status it expects.
THEOREM FinalVerdicts == Spec => VerdictIsFinal
<1>1. ASSUME TypeOK, [Next]_vars, NEW d \in Delivery, status[d] \in {"SENT", "FAILED"}
      PROVE  status'[d] \in {status[d], "DELETED"}
  <2> DEFINE Kept == status'[d] = status[d]
  <2>1. ASSUME NEW w \in Slot, JobStep(w) PROVE Kept
    <3>1. CASE Claim(w) \/ Promote(w)
      BY <1>1, <3>1 DEF Claim, Claimable, Due, ClaimScheduledDelivery, Promote, Holds,
         PromoteClaimToSending, WriteRow, rowVars, TypeOK
    <3>2. CASE Abandon(w) \/ Finalize(w)
      BY <1>1, <3>2 DEF Abandon, Finalize, FinalizeClaimedDelivery, Holds, WriteRow, rowVars, TypeOK
    <3>3. CASE \E s \in Subscription : SendStep(w, s)
      BY <3>3 DEF SendStep, Request, ServiceAccepts, AcceptedAnswer, Refused, NoAnswer, rowVars
    <3>4. CASE \/ LoadClaimedDeliveryIdentity(w) \/ Prepare(w) \/ ListActivePushSubscriptions(w)
               \/ Collect(w) \/ RevokeInvalidPushSubscriptions(w) \/ Complete(w)
      BY <3>4 DEF LoadClaimedDeliveryIdentity, Prepare, ListActivePushSubscriptions, Collect,
         RevokeInvalidPushSubscriptions, Complete, rowVars
    <3> QED BY <2>1, <3>1, <3>2, <3>3, <3>4 DEF JobStep
  <2>2. ASSUME NEW m \in Maintainer, LoopStep(m) \/ LoopError(m) PROVE Kept
    <3>1. CASE RecoverOne(m)
      BY <1>1, <3>1 DEF RecoverOne, ResetStaleClaimedDelivery, FinalizeClaimedDelivery, Holds,
         WriteRow, rowVars, TypeOK
    <3>2. CASE ~RecoverOne(m)
      BY <2>2, <3>2 DEF LoopStep, RecoverList, DispatchList, DispatchOne, DispatchEnd, LoopError,
         rowVars
    <3> QED BY <3>1, <3>2
  <2>3. ASSUME Environment PROVE status'[d] \in {status[d], "DELETED"}
    BY <1>1, <2>3 DEF Environment, CreateRow, RescheduleRow, Replannable, CancelRow, DeleteRow, WriteRow,
       UnsubscribeFromNotifications, StorePushSubscription, RevokePushSubscription, rowVars, TypeOK
  <2>4. CASE \/ \E w \in Slot, e \in Delivery : Start(w, e)
             \/ \E e \in Delivery, s \in Subscription : LateArrival(e, s)
             \/ \E e \in Delivery : ReclaimLostJob(e) \/ LoseLock(e)
             \/ \E w \in Slot : CrashSlot(w) \/ ThrowError(w)
             \/ Tick \/ UNCHANGED vars
    BY <2>4 DEF Start, LateArrival, ReclaimLostJob, LoseLock, Unlock, CrashSlot, ThrowError, Tick,
       vars, rowVars
  <2> QED BY <1>1, <2>1, <2>2, <2>3, <2>4 DEF Next, Failure
<1>2. TypeOK /\ [Next]_vars =>
         [\A d \in Delivery :
             status[d] \in {"SENT", "FAILED"} => status'[d] \in {status[d], "DELETED"}]_vars
  BY <1>1
<1> QED BY <1>2, DeliveryTypes, PTL DEF Spec, VerdictIsFinal
-----------------------------------------------------------------------------
(* Every execution runs out of steps.                                       *)

\* The stages left of an execution, and of a request to an endpoint: its answer, and
\* three steps of every attempt that is left.
StagesLeft(pc) ==
    CASE pc = "claim" -> 9 [] pc = "identity" -> 8 [] pc = "prepare" -> 7 [] pc = "list" -> 6
      [] pc = "promote" -> 5 [] pc = "send" -> 4 [] pc = "revoke" -> 3
      [] pc \in {"finalize", "abandon"} -> 2 [] pc = "done" -> 1 [] OTHER -> 0
AnswerLeft(progress) ==
    CASE progress = "ready" -> 3 [] progress = "requested" -> 2 [] progress = "taken" -> 1 [] OTHER -> 0
EndpointLeft(j, s) == AnswerLeft(j.result[s]) + 3 * (MaxAttempts - j.attempt[s])

\* One step of an execution: the next stage, or while it sends, one endpoint nearer its
\* outcome and the others as they were.
EndpointAdvances(j, k) ==
    /\ j.pc = "send" /\ k.pc = "send" /\ k.targets = j.targets
    /\ \E s \in j.targets :
          /\ EndpointLeft(k, s) < EndpointLeft(j, s)
          /\ \A t \in Subscription \ {s} : k.result[t] = j.result[t] /\ k.attempt[t] = j.attempt[t]
Descends(j, k) == StagesLeft(k.pc) < StagesLeft(j.pc) \/ EndpointAdvances(j, k)

LEMMA EndpointMoves ==
    ASSUME NEW j \in Job, j.pc = "send", NEW s \in j.targets, s \in Subscription,
           NEW r \in Progress, AnswerLeft(r) < AnswerLeft(j.result[s])
    PROVE  EndpointAdvances(j, [j EXCEPT !.result[s] = r])
<1> DEFINE k == [j EXCEPT !.result[s] = r]
<1>1. j.result \in [Subscription -> Progress] /\ j.attempt \in [Subscription -> 1..MaxAttempts]
  BY DEF Job
<1>2. /\ k.pc = "send" /\ k.targets = j.targets /\ k.attempt = j.attempt
      /\ k.result[s] = r /\ \A t \in Subscription \ {s} : k.result[t] = j.result[t]
  BY <1>1 DEF Job
<1> HIDE DEF k
<1>3. EndpointLeft(k, s) < EndpointLeft(j, s)
  <2>1. AnswerLeft(r) \in 0..3 /\ AnswerLeft(j.result[s]) \in 0..3
    BY DEF AnswerLeft
  <2>2. 3 * (MaxAttempts - j.attempt[s]) \in Int
    BY <1>1, BoundsAssumption
  <2> QED BY <1>2, <2>1, <2>2 DEF EndpointLeft
<1>4. EndpointAdvances(j, k)
  BY <1>2, <1>3 DEF EndpointAdvances
<1> QED BY <1>4 DEF k

LEMMA RetryMoves ==
    ASSUME NEW j \in Job, j.pc = "send", NEW s \in j.targets, s \in Subscription,
           j.result[s] = "requested", j.attempt[s] < MaxAttempts,
           NEW k, k.pc = "send", k.targets = j.targets,
           k.result[s] = "ready", k.attempt[s] = j.attempt[s] + 1,
           \A t \in Subscription \ {s} : k.result[t] = j.result[t] /\ k.attempt[t] = j.attempt[t]
    PROVE  EndpointAdvances(j, k)
<1>1. AnswerLeft(k.result[s]) = 3 /\ AnswerLeft(j.result[s]) = 2
  BY DEF AnswerLeft
<1>2. MaxAttempts \in Nat /\ j.attempt[s] \in 1..MaxAttempts
  BY BoundsAssumption DEF Job
<1>3. EndpointLeft(k, s) < EndpointLeft(j, s)
  BY <1>1, <1>2 DEF EndpointLeft
<1> QED BY <1>3 DEF EndpointAdvances

LEMMA SendStepDescends ==
    ASSUME DeliveryInv, NEW w \in Slot, NEW s \in Subscription, SendStep(w, s)
    PROVE  /\ Descends(run[w], run'[w])
           /\ \A v \in Slot : v # w => run'[v] = run[v]
<1>1. run[w].pc = "send" /\ run[w] \in Job /\ run \in [Slot -> Execution]
  <2>1. run[w].pc = "send"
    BY DEF SendStep, Request, ServiceAccepts, AcceptedAnswer, Refused, NoAnswer, At
  <2> QED BY <2>1, InvParts, SenderFacts DEF TypeOK
<1>2. s \in run[w].targets
  <2>1. run[w].result[s] # "ready" => s \in run[w].targets
    BY <1>1, WaiterFacts
  <2> QED BY <2>1 DEF SendStep, Request, ServiceAccepts, AcceptedAnswer, Refused, NoAnswer
<1>3. ASSUME NEW r \in Progress, AnswerLeft(r) < AnswerLeft(run[w].result[s]), Reaches(w, s, r)
      PROVE  /\ Descends(run[w], run'[w])
             /\ \A v \in Slot : v # w => run'[v] = run[v]
  <2>1. /\ run'[w] = [run[w] EXCEPT !.result[s] = r]
        /\ \A v \in Slot : v # w => run'[v] = run[v]
    BY <1>1, <1>3 DEF Reaches
  <2> QED BY <1>1, <1>2, <1>3, <2>1, EndpointMoves DEF Descends
<1>4. CASE Request(w, s) \/ ServiceAccepts(w, s) \/ AcceptedAnswer(w, s) \/ NoAnswer(w, s)
  <2>1. PICK r \in Progress : AnswerLeft(r) < AnswerLeft(run[w].result[s]) /\ Reaches(w, s, r)
    BY <1>4 DEF Request, ServiceAccepts, AcceptedAnswer, NoAnswer, AnswerLeft, Progress, Final
  <2> QED BY <2>1, <1>3
<1>5. CASE Refused(w, s)
  <2>1. CASE \E r \in {"INVALID", "PERMANENT", "TRANSIENT"} : Reaches(w, s, r)
    <3>1. PICK r \in Progress : AnswerLeft(r) < AnswerLeft(run[w].result[s]) /\ Reaches(w, s, r)
      BY <1>5, <2>1 DEF Refused, AnswerLeft, Progress, Final
    <3> QED BY <3>1, <1>3
  <2>2. CASE /\ run[w].attempt[s] < MaxAttempts
             /\ run' = [run EXCEPT ![w].result[s] = "ready",
                                   ![w].attempt[s] = run[w].attempt[s] + 1]
    <3> DEFINE j == run[w]
               k == run'[w]
    <3>1. /\ k = [j EXCEPT !.result[s] = "ready", !.attempt[s] = j.attempt[s] + 1]
          /\ \A v \in Slot : v # w => run'[v] = run[v]
      BY <1>1, <2>2
    <3>2. j \in Job /\ j.pc = "send" /\ s \in j.targets /\ j.result[s] = "requested" /\ j.attempt[s] < MaxAttempts
      BY <1>1, <1>2, <1>5, <2>2 DEF Refused
    <3> HIDE DEF j, k
    <3>3. j.result \in [Subscription -> Progress] /\ j.attempt \in [Subscription -> 1..MaxAttempts]
      BY <3>2 DEF Job
    <3>4. /\ k.pc = "send" /\ k.targets = j.targets
          /\ k.result[s] = "ready" /\ k.attempt[s] = j.attempt[s] + 1
          /\ \A t \in Subscription \ {s} : k.result[t] = j.result[t] /\ k.attempt[t] = j.attempt[t]
      BY <3>1, <3>2, <3>3 DEF Job
    <3>5. EndpointAdvances(j, k)
      BY <3>2, <3>4, RetryMoves
    <3> QED BY <3>1, <3>5 DEF Descends, j, k
  <2> QED BY <1>5, <2>1, <2>2 DEF Refused
<1> QED BY <1>4, <1>5 DEF SendStep

LEMMA JobStepDescends ==
    ASSUME DeliveryInv, NEW w \in Slot, JobStep(w)
    PROVE  /\ Descends(run[w], run'[w])
           /\ \A v \in Slot : v # w => run'[v] = run[v]
<1>1. run \in [Slot -> Execution] /\ (Live(w) => run[w] \in Job)
  BY InvParts, LiveIsJob DEF TypeOK
<1>2. ASSUME NEW p \in JobPc, Goto(w, p), Live(w)
      PROVE  run'[w].pc = p /\ \A v \in Slot : v # w => run'[v] = run[v]
  BY <1>1, <1>2 DEF Goto, Job
<1>3. ASSUME NEW v \in Verdict, NEW m, GiveUp(w, v, m), Live(w)
      PROVE  run'[w].pc = "abandon" /\ \A x \in Slot : x # w => run'[x] = run[x]
  BY <1>1, <1>3 DEF GiveUp, Job
<1>4. ASSUME Finish(w)
      PROVE  run'[w].pc = "done" /\ \A v \in Slot : v # w => run'[v] = run[v]
  BY <1>1, <1>4 DEF Finish, Done
<1>5. CASE Claim(w) \/ LoadClaimedDeliveryIdentity(w) \/ Promote(w)
  <2>1. /\ Live(w)
        /\ \/ run[w].pc = "claim" /\ (Goto(w, "identity") \/ Finish(w))
           \/ run[w].pc = "identity" /\ (Goto(w, "prepare") \/ Finish(w))
           \/ run[w].pc = "promote" /\ (Goto(w, "send") \/ Finish(w))
    BY <1>5 DEF Claim, LoadClaimedDeliveryIdentity, Promote, At, Live
  <2>2. /\ run'[w].pc = "done" \/ (run[w].pc = "claim" /\ run'[w].pc = "identity")
              \/ (run[w].pc = "identity" /\ run'[w].pc = "prepare")
              \/ (run[w].pc = "promote" /\ run'[w].pc = "send")
        /\ \A v \in Slot : v # w => run'[v] = run[v]
    BY <1>2, <1>4, <2>1 DEF JobPc
  <2> QED BY <2>1, <2>2 DEF Descends, StagesLeft
<1>6. CASE Prepare(w)
  <2>1. /\ Live(w) /\ run[w].pc = "prepare"
        /\ Goto(w, "list") \/ GiveUp(w, "CANCELLED", "stale") \/ GiveUp(w, "FAILED", "dead-letter")
    BY <1>6 DEF Prepare, At, Live
  <2>2. /\ run'[w].pc \in {"list", "abandon"}
        /\ \A v \in Slot : v # w => run'[v] = run[v]
    BY <1>2, <1>3, <2>1 DEF JobPc, Verdict
  <2> QED BY <2>1, <2>2 DEF Descends, StagesLeft
<1>7. CASE ListActivePushSubscriptions(w)
  <2>1. /\ Live(w) /\ run[w].pc = "list"
        /\ \/ run' = [run EXCEPT ![w] = [@ EXCEPT !.pc = "promote", !.targets = active]]
           \/ GiveUp(w, "CANCELLED", "stale") \/ GiveUp(w, "FAILED", "dead-letter")
    BY <1>7 DEF ListActivePushSubscriptions, At, Live
  <2>2. /\ run'[w].pc \in {"promote", "abandon"}
        /\ \A v \in Slot : v # w => run'[v] = run[v]
    <3>1. CASE run' = [run EXCEPT ![w] = [@ EXCEPT !.pc = "promote", !.targets = active]]
      BY <1>1, <2>1, <3>1 DEF Job
    <3> QED BY <1>3, <2>1, <3>1 DEF Verdict
  <2> QED BY <2>1, <2>2 DEF Descends, StagesLeft
<1>8. CASE Abandon(w) \/ Finalize(w)
  <2>1. run[w].pc \in {"abandon", "finalize"} /\ Finish(w)
    BY <1>8 DEF Abandon, Finalize, At
  <2> QED BY <1>4, <2>1 DEF Descends, StagesLeft
<1>9. CASE Collect(w)
  <2>1. run[w].pc = "send" /\ Live(w)
    BY <1>9 DEF Collect, At, Live
  <2>2. /\ run'[w].pc \in {"revoke", "finalize"}
        /\ \A v \in Slot : v # w => run'[v] = run[v]
    BY <1>1, <1>9, <2>1 DEF Collect, Job
  <2> QED BY <2>1, <2>2 DEF Descends, StagesLeft
<1>10. CASE RevokeInvalidPushSubscriptions(w)
  <2>1. run[w].pc = "revoke" /\ Live(w) /\ Goto(w, "finalize")
    BY <1>10 DEF RevokeInvalidPushSubscriptions, At, Live
  <2>2. run'[w].pc = "finalize" /\ \A v \in Slot : v # w => run'[v] = run[v]
    BY <1>2, <2>1 DEF JobPc
  <2> QED BY <2>1, <2>2 DEF Descends, StagesLeft
<1>11. CASE Complete(w)
  <2>1. run[w].pc = "done" /\ run'[w].pc = "idle" /\ \A v \in Slot : v # w => run'[v] = run[v]
    BY <1>1, <1>11 DEF Complete, At, Idle
  <2> QED BY <2>1 DEF Descends, StagesLeft
<1> QED BY <1>5, <1>6, <1>7, <1>8, <1>9, <1>10, <1>11, SendStepDescends DEF JobStep

\* An execution cannot go round for ever: whatever the push service answers and whoever
\* else steps, crashes or reclaims its job, it is left alone, ends, or comes nearer its
\* end, and its own steps always bring it nearer; an endpoint is retried a bounded number
\* of times.  This is what ClaimsResolve rests on beside fairness.
THEOREM ExecutionsRunOut ==
    Spec => [][\A w \in Slot :
                  /\ run'[w] = run[w] \/ run[w] = Idle \/ Descends(run[w], run'[w])
                  /\ JobStep(w) => Descends(run[w], run'[w])]_vars
<1> DEFINE Nearer ==
        \A w \in Slot :
            /\ run'[w] = run[w] \/ run[w] = Idle \/ Descends(run[w], run'[w])
            /\ JobStep(w) => Descends(run[w], run'[w])
<1>1. DeliveryInv /\ [Next]_vars => [Nearer]_vars
  <2> SUFFICES ASSUME DeliveryInv, Next, NEW w \in Slot
               PROVE  /\ run'[w] = run[w] \/ run[w] = Idle \/ Descends(run[w], run'[w])
                      /\ JobStep(w) => Descends(run[w], run'[w])
    OBVIOUS
  <2>1. run \in [Slot -> Execution]
    BY InvParts DEF TypeOK
  <2>2. JobStep(w) => Descends(run[w], run'[w])
    BY JobStepDescends
  <2>3. ASSUME NEW v \in Slot, JobStep(v)
        PROVE  run'[w] = run[w] \/ Descends(run[w], run'[w])
    BY <2>3, JobStepDescends
  <2>4. ASSUME NEW v \in Slot, CrashSlot(v) \/ ThrowError(v)
        PROVE  run'[w] = run[w] \/ run[w] = Idle \/ Descends(run[w], run'[w])
    <3>1. CASE v # w
      BY <2>1, <2>4, <3>1 DEF CrashSlot, ThrowError
    <3>2. CASE v = w
      <4>1. run'[w].pc = "idle"
        BY <2>1, <2>4, <3>2 DEF CrashSlot, ThrowError, Idle
      <4>2. run[w] = Idle \/ run[w].pc \in JobPc \cup {"done"}
        BY <2>1 DEF Execution, Job, JobPc
      <4> QED BY <4>1, <4>2 DEF Descends, StagesLeft, JobPc
    <3> QED BY <3>1, <3>2
  <2>5. ASSUME NEW v \in Slot, NEW d \in Delivery, Start(v, d)
        PROVE  run'[w] = run[w] \/ run[w] = Idle
    BY <2>1, <2>5 DEF Start
  <2>6. CASE \/ \E d \in Delivery, s \in Subscription : LateArrival(d, s)
             \/ \E d \in Delivery : ReclaimLostJob(d) \/ LoseLock(d)
             \/ \E m \in Maintainer : LoopStep(m) \/ LoopError(m)
             \/ Environment \/ Tick
    <3>1. run' = run
      BY <2>6 DEF LateArrival, ReclaimLostJob, LoseLock, Unlock, LoopStep, RecoverList, RecoverOne,
         DispatchList, DispatchOne, DispatchEnd, LoopError, Environment, CreateRow, RescheduleRow,
         CancelRow, DeleteRow, StorePushSubscription, RevokePushSubscription,
         UnsubscribeFromNotifications, Tick
    <3>2. JobStep(w) => Descends(run[w], run'[w])
      BY <2>2
    <3> QED BY <3>1, <3>2
  <2> QED BY <2>2, <2>3, <2>4, <2>5, <2>6 DEF Next, Failure
<1> HIDE DEF Nearer
<1>2. Spec => [][Nearer]_vars
  BY <1>1, DeliveryInvariant, PTL DEF Spec
<1> QED BY <1>2 DEF Nearer
=============================================================================
