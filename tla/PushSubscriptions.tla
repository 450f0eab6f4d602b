--------------------------- MODULE PushSubscriptions ---------------------------
(***************************************************************************)
(* Which devices a user's notifications reach: browsers subscribe at a     *)
(* push service and post their endpoint, the server stores it under the    *)
(* user's advisory lock, users unsubscribe or delete their account, and    *)
(* deliveries revoke the endpoints the push service no longer knows        *)
(* (packages/database/src/push-subscriptions.ts, apps/web's push routes,   *)
(* settings and push-permission.ts, the worker's clean-up).  Transactions  *)
(* run READ COMMITTED: each statement of a store is a step, and what it    *)
(* wrote shows when it commits.                                            *)
(***************************************************************************)
EXTENDS Integers, FiniteSets

CONSTANTS
    User,
    NoUser,
    Browser,
    Request,      \* store requests the server handles at a time
    Limit,        \* MAX_ACTIVE_PUSH_SUBSCRIPTIONS_PER_USER
    MaxRenewals   \* bound: endpoints a browser obtains one after another

ASSUME PushAssumption ==
    /\ NoUser \notin User
    /\ IsFiniteSet(Browser)
    /\ Limit \in Nat \ {0}
    /\ MaxRenewals \in Nat

VARIABLES
    browser,   \* per browser: who is signed in, the endpoints it had, the one it holds or 0
    row,       \* push_subscriptions, by their unique endpoint
    request,   \* the storePushSubscription calls in progress
    delivery,  \* per user: the endpoints a delivery has listed, or found gone
    deleted,   \* users whose account is anonymised
    stored     \* history: the users who were told it is stored, until revoked

vars == <<browser, row, request, delivery, deleted, stored>>

\* The push service gives a browser one endpoint at a time, never twice.
Endpoint == Browser \X (1..MaxRenewals)

Absent == [status |-> "absent"]
Stored == [status : {"active", "revoked"}, user : User]
Idle == [pc |-> "idle"]

\* doomed: rows this transaction has deleted.
Storing ==
    [pc : {"lock", "find", "renew", "rotate", "delete", "count", "create"},
     user : User, endpoint : Endpoint, doomed : SUBSET Endpoint, retried : BOOLEAN]

TypeOK ==
    /\ browser \in [Browser -> [user : User \cup {NoUser}, renewals : 0..MaxRenewals,
                                holds : 0..MaxRenewals]]
    /\ row \in [Endpoint -> {Absent} \cup Stored]
    /\ request \in [Request -> {Idle} \cup Storing]
    /\ delivery \in [User -> [pc : {"idle", "listed", "sent"}, endpoints : SUBSET Endpoint]]
    /\ deleted \subseteq User
    /\ stored \in [Endpoint -> SUBSET User]

Init ==
    /\ browser = [b \in Browser |->
          [user |-> NoUser, renewals |-> 0, holds |-> 0]]
    /\ row = [e \in Endpoint |-> Absent]
    /\ request = [q \in Request |-> Idle]
    /\ delivery = [u \in User |-> [pc |-> "idle", endpoints |-> {}]]
    /\ deleted = {}
    /\ stored = [e \in Endpoint |-> {}]

\* The browser still holds the endpoint; the push service answers 404 or 410 for
\* any other.
Live(e) == browser[e[1]].holds = e[2]

Active(u) == {e \in Endpoint : row[e] = [status |-> "active", user |-> u]}
Revoked(u) == {e \in Endpoint : row[e] = [status |-> "revoked", user |-> u]}

-----------------------------------------------------------------------------
(* Browsers.                                                                *)

SignIn(b, u) ==
    /\ browser[b].user = NoUser
    /\ u \notin deleted
    /\ browser' = [browser EXCEPT ![b].user = u]
    /\ UNCHANGED <<row, request, delivery, deleted, stored>>

\* Signing out leaves the push subscription alone.
SignOut(b) ==
    /\ browser[b].user # NoUser
    /\ browser' = [browser EXCEPT ![b].user = NoUser]
    /\ UNCHANGED <<row, request, delivery, deleted, stored>>

\* enablePushNotifications asks the push service unless it holds a subscription.
Subscribe(b) ==
    /\ browser[b].user # NoUser
    /\ browser[b].holds = 0
    /\ browser[b].renewals < MaxRenewals
    /\ browser' = [browser EXCEPT ![b].holds = browser[b].renewals + 1, ![b].renewals = @ + 1]
    /\ UNCHANGED <<row, request, delivery, deleted, stored>>

\* The subscription expires, its permission is withdrawn, or the settings page
\* drops it after the server has unsubscribed the account.
Expire(b) ==
    /\ browser[b].holds # 0
    /\ browser' = [browser EXCEPT ![b].holds = 0]
    /\ UNCHANGED <<row, request, delivery, deleted, stored>>

\* Enabling, and following a programme (syncExistingPushSubscription), post the
\* subscription the browser holds; the session names the user.
Post(b, q) ==
    /\ browser[b].user # NoUser
    /\ browser[b].holds # 0
    /\ request[q] = Idle
    /\ request' = [request EXCEPT ![q] =
          [pc |-> "lock", user |-> browser[b].user, endpoint |-> <<b, browser[b].holds>>,
           doomed |-> {}, retried |-> FALSE]]
    /\ UNCHANGED <<browser, row, delivery, deleted, stored>>

-----------------------------------------------------------------------------
(* storePushSubscription.                                                   *)
(*                                                                         *)
(* A definition that directly precedes another of the same parameters, and *)
(* that nothing uses, is a broken variant of it: substituting it shows     *)
(* that the properties notice.                                             *)

InTransaction(q) == request[q].pc \notin {"idle", "lock"}

LockFreeUnlocked(u) == TRUE
LockFree(u) == \A q \in Request : InTransaction(q) => request[q].user # u

Goto(q, pc) == request' = [request EXCEPT ![q].pc = pc]
Finish(q) == request' = [request EXCEPT ![q] = Idle]

\* pg_advisory_xact_lock, held until the transaction ends.
Lock(q) ==
    /\ request[q].pc = "lock"
    /\ LockFree(request[q].user)
    /\ Goto(q, "find")
    /\ UNCHANGED <<browser, row, delivery, deleted, stored>>

\* A foreign row is left alone: the request fails with an ownership conflict.
FindOwnOnly(q) ==
    /\ request[q].pc = "find"
    /\ LET r == row[request[q].endpoint]
       IN  IF r = Absent \/ r.user # request[q].user THEN Goto(q, "delete")
           ELSE IF r.status = "revoked" THEN Goto(q, "renew")
           ELSE Goto(q, "rotate")
    /\ UNCHANGED <<browser, row, delivery, deleted, stored>>
FindSubscription(q) ==
    /\ request[q].pc = "find"
    /\ LET r == row[request[q].endpoint]
       IN  IF r = Absent THEN Goto(q, "delete")
           ELSE IF r.user # request[q].user THEN Finish(q)
           ELSE IF r.status = "revoked" THEN Goto(q, "renew")
           ELSE Goto(q, "rotate")
    /\ UNCHANGED <<browser, row, delivery, deleted, stored>>

DeleteRevoked(q) ==
    /\ request[q].pc = "delete"
    /\ request' = [request EXCEPT ![q].pc = "count", ![q].doomed = Revoked(request[q].user)]
    /\ UNCHANGED <<browser, row, delivery, deleted, stored>>

LimitReachedLate(u) == Cardinality(Active(u)) > Limit
LimitReached(u) == Cardinality(Active(u)) >= Limit

\* What a commit makes of the rows; ids of deleted rows never come back, so no
\* delivery that listed them finds them again.
Without(rows, gone) == [e \in Endpoint |-> IF e \in gone THEN Absent ELSE rows[e]]
Unlisted(gone) == [u \in User |-> [delivery[u] EXCEPT !.endpoints = @ \ gone]]

\* Beyond the limit the transaction commits what it deleted, and the request fails.
CountActive(q) ==
    /\ request[q].pc \in {"renew", "count"}
    /\ LET gone == request[q].doomed
       IN  IF LimitReached(request[q].user)
           THEN /\ Finish(q)
                /\ row' = Without(row, gone)
                /\ delivery' = Unlisted(gone)
           ELSE /\ Goto(q, IF request[q].pc = "renew" THEN "rotate" ELSE "create")
                /\ UNCHANGED <<row, delivery>>
    /\ UNCHANGED <<browser, deleted, stored>>

\* Whether the row is still there does not matter to the answer.
Rotate(q) ==
    /\ request[q].pc = "rotate"
    /\ LET u == request[q].user
           e == request[q].endpoint
       IN  /\ row' = [row EXCEPT ![e] =
                 IF @ # Absent /\ @.user = u THEN [status |-> "active", user |-> u] ELSE @]
           /\ stored' = [stored EXCEPT ![e] = @ \cup {u}]
    /\ Finish(q)
    /\ UNCHANGED <<browser, delivery, deleted>>

\* Rows a transaction has deleted are locked until it ends.
Locked(e, q) == InTransaction(q) /\ e \in request[q].doomed

\* A row of the endpoint that another transaction is deleting is waited for; one
\* that exists aborts the transaction, which is tried once more from the start.
Create(q) ==
    /\ request[q].pc = "create"
    /\ LET u == request[q].user
           e == request[q].endpoint
           gone == request[q].doomed
       IN  /\ \A p \in Request \ {q} : ~Locked(e, p)
           /\ IF row[e] = Absent
              THEN /\ row' = [Without(row, gone) EXCEPT ![e] = [status |-> "active", user |-> u]]
                   /\ delivery' = Unlisted(gone)
                   /\ stored' = [stored EXCEPT ![e] = @ \cup {u}]
                   /\ Finish(q)
              ELSE /\ request' = [request EXCEPT ![q] =
                         IF request[q].retried THEN Idle
                         ELSE [@ EXCEPT !.pc = "lock", !.doomed = {}, !.retried = TRUE]]
                   /\ UNCHANGED <<row, delivery, stored>>
    /\ UNCHANGED <<browser, deleted>>

\* The connection, a transaction timeout or the process fails: nothing is kept.
Abort(q) ==
    /\ request[q] # Idle
    /\ Finish(q)
    /\ UNCHANGED <<browser, row, delivery, deleted, stored>>

-----------------------------------------------------------------------------
(* Revocation.                                                              *)

Revoke(endpoints) ==
    /\ row' = [e \in Endpoint |->
          IF e \in endpoints /\ row[e] # Absent THEN [row[e] EXCEPT !.status = "revoked"] ELSE row[e]]
    /\ stored' = [e \in Endpoint |-> IF e \in endpoints THEN {} ELSE stored[e]]

\* DELETE /api/push/subscriptions: only the user's own endpoint.
RevokePushSubscription(u, e) ==
    /\ e \in Active(u)
    /\ Revoke({e})
    /\ UNCHANGED <<browser, request, delivery, deleted>>

\* "Unsubscribe all"; the browser's own subscription follows, or does not.
UnsubscribeFromNotifications(u) ==
    /\ \E b \in Browser : browser[b].user = u
    /\ Revoke(Active(u))
    /\ UNCHANGED <<browser, request, delivery, deleted>>

\* The rows go and every session ends, without the advisory lock.
AnonymizeAccount(u) ==
    LET gone == Active(u) \cup Revoked(u)
    IN  /\ \E b \in Browser : browser[b].user = u
        /\ \A e \in gone, q \in Request : ~Locked(e, q)
        /\ deleted' = deleted \cup {u}
        /\ row' = Without(row, gone)
        /\ delivery' = Unlisted(gone)
        /\ browser' = [b \in Browser |->
              IF browser[b].user = u THEN [browser[b] EXCEPT !.user = NoUser]
              ELSE browser[b]]
        /\ UNCHANGED <<request, stored>>

-----------------------------------------------------------------------------
(* The worker's clean-up.                                                   *)

ListActivePushSubscriptions(u) ==
    /\ delivery[u].pc = "idle"
    /\ Active(u) # {}
    /\ delivery' = [delivery EXCEPT ![u] = [pc |-> "listed", endpoints |-> Active(u)]]
    /\ UNCHANGED <<browser, row, request, deleted, stored>>

\* The push service answers 404 or 410 for those it does not know.
InvalidAll(u) == delivery[u].endpoints
Invalid(u) == {e \in delivery[u].endpoints : ~Live(e)}

Send(u) ==
    /\ delivery[u].pc = "listed"
    /\ delivery' = [delivery EXCEPT ![u] = [pc |-> "sent", endpoints |-> Invalid(u)]]
    /\ UNCHANGED <<browser, row, request, deleted, stored>>

RevokeInvalidPushSubscriptions(u) ==
    /\ delivery[u].pc = "sent"
    /\ Revoke(delivery[u].endpoints \cap Active(u))
    /\ delivery' = [delivery EXCEPT ![u] = [pc |-> "idle", endpoints |-> {}]]
    /\ UNCHANGED <<browser, request, deleted>>

-----------------------------------------------------------------------------
StoreStep(q) ==
    \/ Lock(q) \/ FindSubscription(q) \/ DeleteRevoked(q) \/ CountActive(q)
    \/ Rotate(q) \/ Create(q)

Next ==
    \/ \E b \in Browser :
          \/ \E u \in User : SignIn(b, u)
          \/ \E q \in Request : Post(b, q)
          \/ SignOut(b) \/ Subscribe(b) \/ Expire(b)
    \/ \E q \in Request : StoreStep(q) \/ Abort(q)
    \/ \E u \in User :
          \/ \E e \in Endpoint : RevokePushSubscription(u, e)
          \/ UnsubscribeFromNotifications(u) \/ AnonymizeAccount(u)
          \/ ListActivePushSubscriptions(u) \/ Send(u) \/ RevokeInvalidPushSubscriptions(u)

Spec == Init /\ [][Next]_vars

-----------------------------------------------------------------------------
(* Properties.                                                              *)

\* No interleaving of stores, renewals, conflicts and deletions takes a user
\* beyond the limit, which a delivery's clean-up refuses with a RangeError.
ActiveWithinLimit == \A u \in User : Cardinality(Active(u)) <= Limit

\* An endpoint the server has answered 204 for stays active until its user, the
\* account's deletion or a clean-up ends it: no other store deletes or takes it.
StoredIsActive ==
    \A e \in Endpoint : \A u \in stored[e] : e \in Active(u) \/ u \in deleted

\* One transaction per user; it has room for its endpoint before it writes it,
\* renews only what is the user's own, and what it deletes stays revoked till then.
StoresAreSerial ==
    \A p, q \in Request :
        p # q /\ InTransaction(p) /\ InTransaction(q) => request[p].user # request[q].user
StoresHaveRoom ==
    \A q \in Request : request[q].pc \in {"rotate", "create"} =>
        LET u == request[q].user
        IN  request[q].endpoint \in Active(u) \/ Cardinality(Active(u)) < Limit
RenewalsAreOwn ==
    \A q \in Request : request[q].pc \in {"renew", "rotate"} =>
        LET u == request[q].user
        IN  request[q].endpoint \in Active(u) \cup Revoked(u) \/ u \in deleted
DoomedIsRevoked ==
    \A q \in Request : request[q] # Idle =>
        request[q].doomed \subseteq IF InTransaction(q) THEN Revoked(request[q].user) ELSE {}

\* Endpoints the push service has given out.
HeldWasIssued == \A b \in Browser : browser[b].holds \in {0, browser[b].renewals}
Issued(e) == e[2] <= browser[e[1]].renewals
EndpointsAreIssued ==
    /\ \A e \in Endpoint : row[e] # Absent => Issued(e)
    /\ \A q \in Request : request[q] # Idle => Issued(request[q].endpoint)
    /\ \A u \in User : \A e \in delivery[u].endpoints :
          Issued(e) /\ (delivery[u].pc = "sent" => ~Live(e))

PushInv ==
    /\ TypeOK
    /\ StoresAreSerial /\ StoresHaveRoom /\ RenewalsAreOwn /\ DoomedIsRevoked
    /\ HeldWasIssued /\ EndpointsAreIssued
    /\ ActiveWithinLimit /\ StoredIsActive

\* A clean-up revokes no endpoint that its browser holds, however much it was
\* renewed while the delivery was under way.
CleanupSparesDevices ==
    [][\A u \in User : delivery[u].pc = "sent" /\ delivery'[u].pc = "idle" =>
          \A e \in Endpoint : row[e] # row'[e] => ~Live(e)]_vars

\* The promise of DeviceRegistry: although the statements of stores interleave with each
\* other, with revocations and with the deletion of accounts, a store takes effect in one
\* step, at its commit, where it finds room and takes no device from anybody.
Registry == INSTANCE DeviceRegistry WITH device <- row, confirmed <- stored, closed <- deleted
StoresAreAtomic == Registry!Spec

\* A store that can take its next step: its user's lock is free, or no transaction is
\* deleting the row it creates.
Ready(q) ==
    /\ request[q] # Idle
    /\ request[q].pc = "lock" => LockFree(request[q].user)
    /\ request[q].pc = "create" => \A p \in Request \ {q} : ~Locked(request[q].endpoint, p)

\* A store that creates waits, or may come to wait, for one whose user owns the row.
\* Such waits form no cycle: among any stores one waits for none of the others.
MayWaitFor(p, r) ==
    LET found == row[request[p].endpoint]
    IN  request[p].pc \in {"delete", "count", "create"} /\ found # Absent /\ found.user = request[r].user
WaitsAreOrdered ==
    \A stores \in SUBSET {q \in Request : InTransaction(q)} :
        stores # {} => \E p \in stores : \A r \in stores : ~MayWaitFor(p, r)

\* Waits for a user's lock and for the unique index form no cycle: while stores
\* are in progress, one of them can take its next step.
StoresAdvance ==
    WaitsAreOrdered /\ ((\E q \in Request : request[q] # Idle) => \E q \in Request : Ready(q))
StoresNeverDeadlock ==
    StoresAdvance /\ \A q \in Request : Ready(q) => ENABLED StoreStep(q)
=============================================================================
