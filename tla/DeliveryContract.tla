--------------------------- MODULE DeliveryContract ---------------------------
(***************************************************************************)
(* What the notification worker promises about one delivery, without any   *)
(* claim, token, queue or clock.  A delivery is open until some execution  *)
(* commits to the network; only a committed one reaches an endpoint, each  *)
(* endpoint once; it may be reopened only if no endpoint took it, and its  *)
(* verdict is final.                                                       *)
(***************************************************************************)
EXTENDS Naturals

CONSTANTS Delivery, Subscription

VARIABLES
    phase,     \* open, committed, sent, failed or gone (the row was deleted)
    receipts   \* how often each endpoint's push service took the delivery

contractVars == <<phase, receipts>>

Untouched(d) == \A s \in Subscription : receipts[d][s] = 0

Init ==
    /\ phase = [d \in Delivery |-> "open"]
    /\ receipts = [d \in Delivery |-> [s \in Subscription |-> 0]]

Move(d, from, to) ==
    /\ phase[d] \in from
    /\ phase' = [phase EXCEPT ![d] = to]
    /\ UNCHANGED receipts

Commit(d) == Move(d, {"open"}, "committed")
Reopen(d) == Untouched(d) /\ Move(d, {"committed"}, "open")
Confirm(d) == ~Untouched(d) /\ Move(d, {"committed"}, "sent")
Fail(d) == Move(d, {"open", "committed"}, "failed")
Remove(d) == Move(d, {"open", "committed", "sent", "failed"}, "gone")

Receive(d, s) ==
    /\ phase[d] # "open"
    /\ receipts[d][s] = 0
    /\ receipts' = [receipts EXCEPT ![d][s] = 1]
    /\ UNCHANGED phase

Next ==
    \E d \in Delivery :
        \/ Commit(d) \/ Reopen(d) \/ Confirm(d) \/ Fail(d) \/ Remove(d)
        \/ \E s \in Subscription : Receive(d, s)

Spec == Init /\ [][Next]_contractVars
=============================================================================
