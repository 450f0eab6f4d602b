----------------------- MODULE PushSubscriptions_proofs -----------------------
(***************************************************************************)
(* Proofs about PushSubscriptions, for every number of users, browsers,    *)
(* endpoints and concurrent requests, and every limit.                     *)
(***************************************************************************)
EXTENDS PushSubscriptions, FiniteSetTheorems, TLAPS

Row == {Absent} \cup Stored

\* What the invariants say of one request.
Fits(r) ==
    /\ r.pc \in {"rotate", "create"} =>
          r.endpoint \in Active(r.user) \/ Cardinality(Active(r.user)) < Limit
    /\ r.pc \in {"renew", "rotate"} =>
          r.endpoint \in Active(r.user) \cup Revoked(r.user) \/ r.user \in deleted
    /\ r # Idle => /\ r.doomed \subseteq IF r.pc = "lock" THEN {} ELSE Revoked(r.user)
                   /\ Issued(r.endpoint)

Waiting(r) == r.pc \in {"idle", "lock"}

\* The invariant without its parts about requests.
Rows ==
    /\ TypeOK /\ HeldWasIssued
    /\ \A e \in Endpoint : row[e] # Absent => Issued(e)
    /\ \A u \in User : \A e \in delivery[u].endpoints :
          Issued(e) /\ (delivery[u].pc = "sent" => ~Live(e))
    /\ ActiveWithinLimit /\ StoredIsActive

LEMMA InvParts ==
    PushInv <=> Rows /\ StoresAreSerial /\ \A q \in Request : Fits(request[q])
<1>1. Idle.pc = "idle"
  BY DEF Idle
<1>2. TypeOK => \A q \in Request : request[q] # Idle => request[q].pc # "idle"
  BY DEF TypeOK, Storing
<1>3. TypeOK => ((\A q \in Request : Fits(request[q])) <=>
         /\ StoresHaveRoom /\ RenewalsAreOwn /\ DoomedIsRevoked
         /\ \A q \in Request : request[q] # Idle => Issued(request[q].endpoint))
  BY <1>1, <1>2 DEF Fits, StoresHaveRoom, RenewalsAreOwn, DoomedIsRevoked, InTransaction
<1> QED BY <1>3 DEF PushInv, Rows, EndpointsAreIssued

LEMMA InvPartsNext ==
    PushInv' <=> (Rows /\ StoresAreSerial /\ \A q \in Request : Fits(request[q]))'
BY InvParts, PTL

LEMMA IdleFits == Fits(Idle) /\ Waiting(Idle) /\ Idle.pc = "idle"
BY DEF Fits, Waiting, Idle

LEMMA EndpointParts ==
    \A e \in Endpoint : e[1] \in Browser /\ e[2] \in 1..MaxRenewals
BY DEF Endpoint

LEMMA ActiveFinite ==
    \A u : IsFiniteSet(Active(u)) /\ Cardinality(Active(u)) \in Nat
<1>1. IsFiniteSet(Endpoint)
  <2>1. IsFiniteSet(1..MaxRenewals)
    BY PushAssumption, FS_Interval, 1 \in Int, MaxRenewals \in Int
  <2>2. IsFiniteSet(Browser)
    BY PushAssumption
  <2> QED BY <2>1, <2>2, FS_Product DEF Endpoint
<1> SUFFICES ASSUME NEW u
             PROVE  IsFiniteSet(Active(u)) /\ Cardinality(Active(u)) \in Nat
  OBVIOUS
<1>2. Active(u) \in SUBSET Endpoint
  BY DEF Active
<1> QED BY <1>1, <1>2, FS_Subset, FS_CardinalityType

\* Fewer active endpoints leave room where there was room, or make some.
LEMMA RoomShrinks ==
    ASSUME NEW A, NEW B, IsFiniteSet(A), B \subseteq A, NEW e, Cardinality(A) <= Limit,
           e \in A \/ Cardinality(A) < Limit
    PROVE  e \in B \/ Cardinality(B) < Limit
<1>1. IsFiniteSet(B) /\ Cardinality(B) <= Cardinality(A) /\ (Cardinality(A) = Cardinality(B) => A = B)
  BY FS_Subset
<1>2. Cardinality(A) \in Nat /\ Cardinality(B) \in Nat /\ Limit \in Nat
  BY <1>1, FS_CardinalityType, PushAssumption
<1> QED BY <1>1, <1>2

LEMMA RowOwner ==
    ASSUME TypeOK
    PROVE  \A e \in Endpoint :
              /\ row[e] # Absent => row[e] \in Stored
              /\ \A u \in User : /\ e \in Active(u) <=> row[e] # Absent /\ row[e].user = u
                                                       /\ row[e].status = "active"
                                 /\ e \in Revoked(u) <=> row[e] # Absent /\ row[e].user = u
                                                       /\ row[e].status = "revoked"
<1> SUFFICES ASSUME NEW e \in Endpoint, NEW u \in User
             PROVE  /\ row[e] # Absent => row[e] \in Stored
                    /\ e \in Active(u) <=> row[e] # Absent /\ row[e].user = u
                                           /\ row[e].status = "active"
                    /\ e \in Revoked(u) <=> row[e] # Absent /\ row[e].user = u
                                           /\ row[e].status = "revoked"
  BY DEF TypeOK
<1>1. row[e] \in {Absent} \cup Stored
  BY DEF TypeOK
<1>2. Absent.status = "absent"
  BY DEF Absent
<1>3. CASE row[e] = Absent
  BY <1>2, <1>3 DEF Active, Revoked
<1>4. CASE row[e] \in Stored
  <2>1. row[e] # Absent
    BY <1>2, <1>4 DEF Stored
  <2>2. \A s : row[e] = [status |-> s, user |-> u] <=> row[e].user = u /\ row[e].status = s
    BY <1>4 DEF Stored
  <2> QED BY <1>4, <2>1, <2>2 DEF Active, Revoked
<1> QED BY <1>1, <1>3, <1>4

\* A request that keeps its state fits still, if its user's active endpoints only
\* shrink while it is in its transaction and its deletions stand.
LEMMA FitsKept ==
    ASSUME PushInv, NEW r \in {Idle} \cup Storing, Fits(r),
           deleted \subseteq deleted',
           \A b \in Browser : /\ browser[b].renewals \in Nat /\ browser'[b].renewals \in Nat
                              /\ browser[b].renewals <= browser'[b].renewals,
           ~Waiting(r) =>
              /\ Active(r.user)' \subseteq Active(r.user)
              /\ r.doomed \subseteq Revoked(r.user)'
              /\ \/ Active(r.user) \cup Revoked(r.user) \subseteq Active(r.user)' \cup Revoked(r.user)'
                 \/ r.user \in deleted'
    PROVE  Fits(r)'
<1>1. CASE r = Idle
  BY <1>1 DEF Fits, Idle
<1>2. CASE r \in Storing
  <2>1. r.user \in User /\ r.endpoint \in Endpoint
    BY <1>2 DEF Storing
  <2>2. Issued(r.endpoint)'
    BY <1>2, <2>1, EndpointParts DEF Fits, Issued, Idle, Storing
  <2>3. r.doomed \subseteq IF r.pc = "lock" THEN {} ELSE Revoked(r.user)'
    BY <1>2 DEF Fits, Waiting, Idle, Storing
  <2>4. ASSUME r.pc \in {"rotate", "create"}
        PROVE  r.endpoint \in Active(r.user)' \/ Cardinality(Active(r.user)') < Limit
    <3>1. Cardinality(Active(r.user)) <= Limit /\ IsFiniteSet(Active(r.user))
      BY <2>1, ActiveFinite DEF PushInv, ActiveWithinLimit
    <3>2. Active(r.user)' \subseteq Active(r.user)
      BY <2>4 DEF Waiting
    <3>3. r.endpoint \in Active(r.user) \/ Cardinality(Active(r.user)) < Limit
      BY <2>4 DEF Fits
    <3> HIDE DEF Active
    <3> QED BY <3>1, <3>2, <3>3, RoomShrinks
  <2>5. r.pc \in {"renew", "rotate"} =>
           r.endpoint \in Active(r.user)' \cup Revoked(r.user)' \/ r.user \in deleted'
    BY DEF Fits, Waiting
  <2> QED BY <2>2, <2>3, <2>4, <2>5 DEF Fits
<1> QED BY <1>1, <1>2

-----------------------------------------------------------------------------
(* Steps that change one request, and nothing else.                         *)

LEMMA RequestFrame ==
    ASSUME PushInv, NEW q \in Request, NEW new \in {Idle} \cup Storing,
           request' = [request EXCEPT ![q] = new],
           UNCHANGED <<browser, row, delivery, deleted, stored>>,
           Fits(new),
           ~Waiting(new) => \A p \in Request \ {q} : InTransaction(p) => request[p].user # new.user
    PROVE  PushInv'
<1>1. \A p \in Request : request'[p] = IF p = q THEN new ELSE request[p]
  BY DEF PushInv, TypeOK
<1>2. TypeOK'
  BY <1>1 DEF PushInv, TypeOK
<1>3. Rows'
  BY <1>2, InvParts DEF Rows, HeldWasIssued, Issued, Live, Active, ActiveWithinLimit,
                             StoredIsActive
<1>4. \A r : Fits(r)' <=> Fits(r)
  BY DEF Fits, Active, Revoked, Issued
<1>5. (\A p \in Request : Fits(request[p]))'
  <2> SUFFICES ASSUME NEW p \in Request
               PROVE  Fits(request[p])'
    OBVIOUS
  <2>1. PICK r : r = request'[p]
    OBVIOUS
  <2>2. Fits(r)
    BY <1>1, <2>1, InvParts
  <2>3. Fits(r)'
    BY <1>4, <2>2
  <2> QED BY <2>1, <2>3 DEF Fits
<1>6. StoresAreSerial'
  BY <1>1 DEF PushInv, StoresAreSerial, InTransaction, Waiting
<1> QED BY <1>3, <1>5, <1>6, InvPartsNext

LEMMA OpenRequest ==
    ASSUME PushInv, NEW q \in Request, request[q] # Idle
    PROVE  /\ request[q] \in Storing
           /\ Fits(request[q])
           /\ InTransaction(q) =>
                 \A p \in Request \ {q} : InTransaction(p) => request[p].user # request[q].user
BY InvParts DEF PushInv, TypeOK, StoresAreSerial

LEMMA FinishPreserves ==
    ASSUME PushInv, NEW q \in Request, Finish(q),
           UNCHANGED <<browser, row, delivery, deleted, stored>>
    PROVE  PushInv'
BY RequestFrame, IdleFits DEF Finish

LEMMA PostPreserves ==
    ASSUME PushInv, NEW b \in Browser, NEW q \in Request, Post(b, q)
    PROVE  PushInv'
<1> DEFINE new == [pc |-> "lock", user |-> browser[b].user, endpoint |-> <<b, browser[b].holds>>,
                   doomed |-> {}, retried |-> FALSE]
<1>1. browser[b] \in [user : User \cup {NoUser}, renewals : 0..MaxRenewals, holds : 0..MaxRenewals]
  BY DEF PushInv, TypeOK
<1>2. browser[b].holds \in 1..MaxRenewals /\ browser[b].holds = browser[b].renewals
  BY <1>1, PushAssumption DEF Post, PushInv, HeldWasIssued
<1>3. <<b, browser[b].holds>> \in Endpoint
  BY <1>2 DEF Endpoint
<1>4. new \in Storing
  BY <1>1, <1>3 DEF Post, Storing
<1>5. Issued(<<b, browser[b].holds>>)
  BY <1>1, <1>2 DEF Issued
<1>6. Fits(new) /\ Waiting(new)
  BY <1>5 DEF Fits, Waiting
<1>7. request' = [request EXCEPT ![q] = new] /\ UNCHANGED <<browser, row, delivery, deleted, stored>>
  BY DEF Post
<1> QED BY <1>4, <1>6, <1>7, RequestFrame

LEMMA LockPreserves ==
    ASSUME PushInv, NEW q \in Request, Lock(q)
    PROVE  PushInv'
<1> DEFINE new == [request[q] EXCEPT !.pc = "find"]
<1>1. request[q] \in Storing /\ Fits(request[q]) /\ request[q] # Idle
  BY OpenRequest DEF Lock, Idle
<1>2. new \in Storing /\ new # Idle /\ new.pc = "find" /\ new.user = request[q].user
      /\ new.endpoint = request[q].endpoint /\ new.doomed = request[q].doomed
  BY <1>1 DEF Storing, Idle
<1>3. request[q].pc = "lock"
  BY DEF Lock
<1>4. Fits(new)
  BY <1>1, <1>2, <1>3 DEF Fits
<1>5. \A p \in Request \ {q} : InTransaction(p) => request[p].user # new.user
  BY <1>2 DEF Lock, LockFree
<1>6. request' = [request EXCEPT ![q] = new]
  BY DEF Lock, Goto
<1> HIDE DEF new
<1> QED BY <1>2, <1>4, <1>5, <1>6, RequestFrame DEF Lock

\* A move to pc inside the transaction.
LEMMA GotoPreserves ==
    ASSUME PushInv, NEW q \in Request, InTransaction(q),
           NEW pc \in {"renew", "rotate", "delete", "create"}, Goto(q, pc),
           UNCHANGED <<browser, row, delivery, deleted, stored>>,
           pc \in {"rotate", "create"} =>
              \/ request[q].endpoint \in Active(request[q].user)
              \/ Cardinality(Active(request[q].user)) < Limit,
           pc \in {"renew", "rotate"} =>
              \/ request[q].endpoint \in Active(request[q].user) \cup Revoked(request[q].user)
              \/ request[q].user \in deleted
    PROVE  PushInv'
<1> DEFINE new == [request[q] EXCEPT !.pc = pc]
<1>1. request[q] \in Storing /\ Fits(request[q]) /\ request[q] # Idle
  BY OpenRequest DEF InTransaction, Idle
<1>2. new \in Storing /\ new # Idle /\ new.pc = pc /\ new.user = request[q].user
      /\ new.endpoint = request[q].endpoint /\ new.doomed = request[q].doomed
  BY <1>1 DEF Storing, Idle
<1>3. request[q].doomed \subseteq Revoked(new.user) /\ Issued(new.endpoint)
  BY <1>1, <1>2 DEF Fits, InTransaction
<1>4. Fits(new)
  BY <1>2, <1>3 DEF Fits
<1>5. \A p \in Request \ {q} : InTransaction(p) => request[p].user # new.user
  BY <1>1, <1>2, OpenRequest
<1>6. request' = [request EXCEPT ![q] = new]
  BY DEF Goto
<1> HIDE DEF new
<1> QED BY <1>2, <1>4, <1>5, <1>6, RequestFrame

LEMMA FindPreserves ==
    ASSUME PushInv, NEW q \in Request, FindSubscription(q)
    PROVE  PushInv'
<1> DEFINE e == request[q].endpoint
           u == request[q].user
<1>1. InTransaction(q) /\ request[q] # Idle
  BY DEF FindSubscription, InTransaction, Idle
<1>2. e \in Endpoint /\ u \in User
  BY <1>1, OpenRequest DEF Storing
<1>3. UNCHANGED <<browser, row, delivery, deleted, stored>>
  BY DEF FindSubscription
<1>4. CASE row[e] = Absent
  BY <1>1, <1>3, <1>4, GotoPreserves DEF FindSubscription
<1>5. CASE row[e] # Absent /\ row[e].user # u
  BY <1>3, <1>5, FinishPreserves DEF FindSubscription
<1>6. CASE row[e] # Absent /\ row[e].user = u
  <2>1. e \in Active(u) \/ e \in Revoked(u)
    BY <1>2, <1>6, RowOwner DEF PushInv, Stored
  <2>2. CASE row[e].status = "revoked"
    <3>1. Goto(q, "renew")
      BY <1>6, <2>2 DEF FindSubscription
    <3> QED BY <1>1, <1>3, <2>1, <3>1, GotoPreserves
  <2>3. CASE row[e].status # "revoked"
    <3>1. Goto(q, "rotate")
      BY <1>6, <2>3 DEF FindSubscription
    <3>2. e \in Active(u)
      BY <1>2, <2>1, <2>3, RowOwner DEF PushInv
    <3> QED BY <1>1, <1>3, <3>1, <3>2, GotoPreserves
  <2> QED BY <2>2, <2>3
<1> QED BY <1>4, <1>5, <1>6

LEMMA DeletePreserves ==
    ASSUME PushInv, NEW q \in Request, DeleteRevoked(q)
    PROVE  PushInv'
<1> DEFINE new == [request[q] EXCEPT !.pc = "count", !.doomed = Revoked(request[q].user)]
<1>1. InTransaction(q) /\ request[q] # Idle
  BY DEF DeleteRevoked, InTransaction, Idle
<1>2. request[q] \in Storing /\ Fits(request[q])
  BY <1>1, OpenRequest
<1>3. Revoked(request[q].user) \subseteq Endpoint
  BY DEF Revoked
<1>4. new \in Storing /\ new # Idle /\ new.pc = "count" /\ new.user = request[q].user
      /\ new.endpoint = request[q].endpoint /\ new.doomed = Revoked(request[q].user)
  BY <1>2, <1>3 DEF Storing, Idle
<1>5. Fits(new)
  BY <1>1, <1>2, <1>4 DEF Fits
<1>6. \A p \in Request \ {q} : InTransaction(p) => request[p].user # new.user
  BY <1>1, <1>4, OpenRequest
<1>7. request' = [request EXCEPT ![q] = new] /\ UNCHANGED <<browser, row, delivery, deleted, stored>>
  BY DEF DeleteRevoked
<1> HIDE DEF new
<1> QED BY <1>4, <1>5, <1>6, <1>7, RequestFrame

-----------------------------------------------------------------------------
(* Steps of browsers.                                                       *)

LEMMA BrowserTypes ==
    ASSUME TypeOK
    PROVE  \A b \in Browser :
              /\ browser[b] \in [user : User \cup {NoUser}, renewals : 0..MaxRenewals,
                                 holds : 0..MaxRenewals]
              /\ browser[b].renewals \in Nat
BY PushAssumption DEF TypeOK

\* Endpoints that are issued stay issued, and those no longer live stay so.
LEMMA BrowserFrame ==
    ASSUME PushInv, TypeOK', HeldWasIssued',
           UNCHANGED <<row, request, delivery, deleted, stored>>,
           \A b \in Browser :
              /\ browser[b].renewals <= browser'[b].renewals
              /\ \/ browser'[b].holds \in {0, browser[b].holds}
                 \/ browser[b].renewals < browser'[b].holds
    PROVE  PushInv'
<1>1. \A b \in Browser : browser[b].renewals \in Nat /\ browser'[b].renewals \in Nat
  BY BrowserTypes, PushAssumption DEF PushInv, TypeOK
<1>2. \A e \in Endpoint : /\ Issued(e) => Issued(e)'
                          /\ Issued(e) /\ ~Live(e) => ~Live(e)'
  BY <1>1, EndpointParts DEF Issued, Live
<1>3. \A u \in User : delivery[u].endpoints \subseteq Endpoint
  BY DEF PushInv, TypeOK
<1>4. Rows'
  BY <1>2, <1>3, InvParts DEF Rows, Active, ActiveWithinLimit, StoredIsActive
<1>5. (\A p \in Request : Fits(request[p]))'
  <2> SUFFICES ASSUME NEW p \in Request
               PROVE  Fits(request[p])'
    OBVIOUS
  <2>1. PICK r \in {Idle} \cup Storing : r = request[p]
    BY DEF PushInv, TypeOK
  <2>2. Fits(r)
    BY <2>1, InvParts
  <2>3. \A u : Active(u)' = Active(u) /\ Revoked(u)' = Revoked(u)
    BY DEF Active, Revoked
  <2>4. ~Waiting(r) => r.doomed \subseteq Revoked(r.user)
    BY <2>2 DEF Fits, Waiting, Idle
  <2>5. Fits(r)'
    BY <1>1, <2>2, <2>3, <2>4, FitsKept
  <2> QED BY <2>1, <2>5 DEF Fits
<1>6. StoresAreSerial'
  BY DEF PushInv, StoresAreSerial, InTransaction
<1> QED BY <1>4, <1>5, <1>6, InvPartsNext

LEMMA BrowserStepPreserves ==
    ASSUME PushInv, NEW b \in Browser,
           (\E u \in User : SignIn(b, u)) \/ SignOut(b) \/ Subscribe(b) \/ Expire(b)
    PROVE  PushInv'
<1> DEFINE State == [user : User \cup {NoUser}, renewals : 0..MaxRenewals, holds : 0..MaxRenewals]
<1>1. /\ browser[b] \in State
      /\ TypeOK /\ HeldWasIssued
      /\ browser[b].renewals \in Nat
      /\ browser[b].holds \in {0, browser[b].renewals}
  BY BrowserTypes DEF PushInv, HeldWasIssued
<1>2. UNCHANGED <<row, request, delivery, deleted, stored>>
  BY DEF SignIn, SignOut, Subscribe, Expire
<1>3. ASSUME NEW new \in State, browser' = [browser EXCEPT ![b] = new],
             browser[b].renewals <= new.renewals,
             new.holds \in {0, new.renewals},
             new.holds \in {0, browser[b].holds} \/ browser[b].renewals < new.holds
      PROVE  PushInv'
  <2>1. \A c \in Browser : browser'[c] = IF c = b THEN new ELSE browser[c]
    BY <1>1, <1>3 DEF TypeOK
  <2>2. TypeOK'
    BY <1>1, <1>2, <1>3 DEF TypeOK
  <2>3. HeldWasIssued'
    BY <1>1, <1>3, <2>1 DEF HeldWasIssued
  <2>4. \A c \in Browser : browser[c].renewals <= browser[c].renewals
    BY <1>1, BrowserTypes
  <2> QED BY <1>2, <1>3, <2>1, <2>2, <2>3, <2>4, BrowserFrame
<1>4. ASSUME NEW u \in User \cup {NoUser}, browser' = [browser EXCEPT ![b].user = u]
      PROVE  PushInv'
  <2> DEFINE new == [browser[b] EXCEPT !.user = u]
  <2>1. new \in State /\ new.renewals = browser[b].renewals /\ new.holds = browser[b].holds
    BY <1>1
  <2>2. browser' = [browser EXCEPT ![b] = new]
    BY <1>4
  <2> HIDE DEF new
  <2>4. /\ browser[b].renewals <= new.renewals
        /\ new.holds \in {0, new.renewals}
        /\ new.holds \in {0, browser[b].holds} \/ browser[b].renewals < new.holds
    BY <1>1, <2>1
  <2> HIDE DEF State
  <2> QED BY <1>3, <2>1, <2>2, <2>2, <2>4
<1>5. ASSUME Subscribe(b) PROVE PushInv'
  <2> DEFINE new == [browser[b] EXCEPT !.holds = browser[b].renewals + 1, !.renewals = @ + 1]
  <2>1. browser' = [browser EXCEPT ![b] = new]
    BY <1>5 DEF Subscribe
  <2>2. browser[b].renewals + 1 \in 0..MaxRenewals
    BY <1>1, <1>5, PushAssumption DEF Subscribe
  <2>3. new \in State /\ new.renewals = browser[b].renewals + 1 /\ new.holds = new.renewals
    BY <1>1, <2>2
  <2> HIDE DEF new
  <2>4. /\ browser[b].renewals <= new.renewals
        /\ new.holds \in {0, new.renewals}
        /\ new.holds \in {0, browser[b].holds} \/ browser[b].renewals < new.holds
    BY <1>1, <2>3
  <2> HIDE DEF State
  <2> QED BY <1>3, <2>1, <2>2, <2>3, <2>4
<1>6. ASSUME Expire(b) PROVE PushInv'
  <2> DEFINE new == [browser[b] EXCEPT !.holds = 0]
  <2>1. browser' = [browser EXCEPT ![b] = new]
    BY <1>6 DEF Expire
  <2>2. new \in State /\ new.renewals = browser[b].renewals /\ new.holds = 0
    BY <1>1, PushAssumption
  <2> HIDE DEF new
  <2>4. /\ browser[b].renewals <= new.renewals
        /\ new.holds \in {0, new.renewals}
        /\ new.holds \in {0, browser[b].holds} \/ browser[b].renewals < new.holds
    BY <1>1, <2>2
  <2> HIDE DEF State
  <2> QED BY <1>3, <2>1, <2>2, <2>2, <2>4
<1> QED BY <1>4, <1>5, <1>6 DEF SignIn, SignOut

-----------------------------------------------------------------------------
(* Steps that write rows.                                                   *)

\* Requests after a step that ends some of them and leaves the others: each fits,
\* if its user's rows did not change against it.
LEMMA RequestsFit ==
    ASSUME PushInv, UNCHANGED browser, deleted \subseteq deleted',
           \A p \in Request : request'[p] \in {request[p], Idle},
           \A p \in Request : InTransaction(p) /\ request'[p] = request[p] =>
              LET u == request[p].user
              IN  /\ Active(u)' \subseteq Active(u)
                  /\ request[p].doomed \subseteq Revoked(u)'
                  /\ \/ Active(u) \cup Revoked(u) \subseteq Active(u)' \cup Revoked(u)'
                     \/ u \in deleted'
    PROVE  StoresAreSerial' /\ (\A p \in Request : Fits(request[p]))'
<1>1. StoresAreSerial'
  BY IdleFits DEF PushInv, StoresAreSerial, InTransaction
<1>2. (\A p \in Request : Fits(request[p]))'
  <2> SUFFICES ASSUME NEW p \in Request
               PROVE  Fits(request[p])'
    OBVIOUS
  <2>1. PICK r \in {Idle} \cup Storing : r = request'[p] /\ r \in {request[p], Idle}
    BY IdleFits DEF PushInv, TypeOK
  <2>2. Fits(r)
    BY <2>1, IdleFits, InvParts
  <2>3. \A b \in Browser : browser[b].renewals \in Nat /\ browser'[b].renewals \in Nat
                           /\ browser[b].renewals <= browser'[b].renewals
    BY BrowserTypes DEF PushInv
  <2>4. ~Waiting(r) => r = request[p] /\ InTransaction(p)
    BY <2>1, IdleFits DEF Waiting, InTransaction
  <2>5. Fits(r)'
    BY <2>1, <2>2, <2>3, <2>4, FitsKept
  <2> QED BY <2>1, <2>5 DEF Fits
<1> QED BY <1>1, <1>2

\* A user whose rows a step does not touch.
LEMMA OtherUsers ==
    ASSUME TypeOK, TypeOK', NEW v \in User,
           \A e \in Endpoint : row'[e] # row[e] =>
              /\ row[e] # Absent => row[e].user # v
              /\ row'[e] # Absent => row'[e].user # v
    PROVE  Active(v)' = Active(v) /\ Revoked(v)' = Revoked(v)
<1>1. \A e \in Endpoint : /\ e \in Active(v) <=> row[e] = [status |-> "active", user |-> v]
                          /\ e \in Active(v)' <=> row'[e] = [status |-> "active", user |-> v]
                          /\ e \in Revoked(v) <=> row[e] = [status |-> "revoked", user |-> v]
                          /\ e \in Revoked(v)' <=> row'[e] = [status |-> "revoked", user |-> v]
  BY DEF Active, Revoked
<1>2. \A s : [status |-> s, user |-> v].user = v
  OBVIOUS
<1>3. \A s \in {"active", "revoked"} : [status |-> s, user |-> v] # Absent
  <2>1. Absent.status = "absent" /\ \A s : [status |-> s, user |-> v].status = s
    BY DEF Absent
  <2> QED BY <2>1
<1>4. \A e \in Endpoint :
         /\ row[e] = [status |-> "active", user |-> v] <=> row'[e] = [status |-> "active", user |-> v]
         /\ row[e] = [status |-> "revoked", user |-> v] <=> row'[e] = [status |-> "revoked", user |-> v]
  BY <1>2, <1>3
<1>5. /\ Active(v) \subseteq Endpoint /\ Active(v)' \subseteq Endpoint
      /\ Revoked(v) \subseteq Endpoint /\ Revoked(v)' \subseteq Endpoint
  BY DEF Active, Revoked
<1> HIDE DEF Active, Revoked
<1> QED BY <1>1, <1>4, <1>5

\* The rows after a step: issued, within the limit, and as their users were told.
LEMMA RowsHold ==
    ASSUME PushInv, TypeOK', UNCHANGED browser, deleted \subseteq deleted',
           \A e \in Endpoint : row'[e] # Absent /\ row[e] = Absent => Issued(e),
           \A u \in User : \A e \in delivery'[u].endpoints :
              Issued(e) /\ (delivery'[u].pc = "sent" => ~Live(e)),
           \A u \in User : Active(u)' \subseteq Active(u) \/ Cardinality(Active(u)') <= Limit,
           \A e \in Endpoint, u \in User :
              u \in stored'[e] => e \in Active(u)' \/ u \in deleted'
    PROVE  Rows'
<1>1. \A e : (Issued(e)' <=> Issued(e)) /\ (Live(e)' <=> Live(e))
  BY DEF Issued, Live
<1>2. \A e \in Endpoint : row'[e] # Absent => Issued(e)'
  BY <1>1, InvParts DEF Rows
<1>3. ActiveWithinLimit'
  <2> SUFFICES ASSUME NEW u \in User
               PROVE  Cardinality(Active(u)') <= Limit
    BY DEF ActiveWithinLimit
  <2>1. CASE Active(u)' \subseteq Active(u)
    <3>1. IsFiniteSet(Active(u)) /\ Cardinality(Active(u)) \in Nat /\ Cardinality(Active(u)) <= Limit
      BY ActiveFinite DEF PushInv, ActiveWithinLimit
    <3> HIDE DEF Active
    <3>2. /\ Cardinality(Active(u)') <= Cardinality(Active(u))
          /\ Cardinality(Active(u)') \in Nat
      BY <2>1, <3>1, FS_Subset, FS_CardinalityType
    <3> QED BY <3>1, <3>2, PushAssumption
  <2> QED BY <2>1
<1>4. StoredIsActive'
  <2>1. \A e \in Endpoint : stored'[e] \subseteq User
    BY DEF TypeOK
  <2> QED BY <2>1 DEF StoredIsActive
<1>5. HeldWasIssued'
  BY DEF PushInv, HeldWasIssued
<1>6. \A u \in User : \A e \in delivery'[u].endpoints :
         Issued(e)' /\ (delivery'[u].pc = "sent" => ~Live(e)')
  BY <1>1
<1> QED BY <1>2, <1>3, <1>4, <1>5, <1>6 DEF Rows

\* The end of a store transaction of user u, which wrote only rows of u.
LEMMA CommitPreserves ==
    ASSUME PushInv, NEW q \in Request, NEW u \in User, InTransaction(q), u = request[q].user,
           UNCHANGED <<browser, deleted>>, Finish(q), TypeOK',
           \A e \in Endpoint : row'[e] # row[e] =>
              /\ row[e] # Absent => row[e].user = u
              /\ row'[e] # Absent => row'[e].user = u
              /\ row[e] = Absent => e = request[q].endpoint,
           \A v \in User : /\ delivery'[v].endpoints \subseteq delivery[v].endpoints
                           /\ delivery'[v].pc = delivery[v].pc,
           Active(u)' \subseteq Active(u) \/ Cardinality(Active(u)') <= Limit,
           \A e \in Endpoint : stored'[e] \subseteq stored[e] \cup {u},
           \A e \in Endpoint : u \in stored'[e] => e \in Active(u)' \/ u \in deleted
    PROVE  PushInv'
<1>1. /\ request[q] \in Storing /\ Fits(request[q]) /\ request[q] # Idle
      /\ \A p \in Request \ {q} : InTransaction(p) => request[p].user # u
  BY OpenRequest DEF InTransaction, Idle
<1>2. \A p \in Request : request'[p] = IF p = q THEN Idle ELSE request[p]
  BY DEF Finish, PushInv, TypeOK
<1>3. \A v \in User : v # u => Active(v)' = Active(v) /\ Revoked(v)' = Revoked(v)
  BY OtherUsers DEF PushInv
<1>4. Rows'
  <2>1. \A e \in Endpoint : row'[e] # Absent /\ row[e] = Absent => Issued(e)
    BY <1>1 DEF Fits
  <2>2. \A v \in User : Active(v)' \subseteq Active(v) \/ Cardinality(Active(v)') <= Limit
    BY <1>3
  <2>3. \A e \in Endpoint, v \in User :
           v \in stored'[e] => e \in Active(v)' \/ v \in deleted'
    <3> SUFFICES ASSUME NEW e \in Endpoint, NEW v \in User, v \in stored'[e], v # u
                 PROVE  e \in Active(v)' \/ v \in deleted'
      OBVIOUS
    <3>1. v \in stored[e]
      OBVIOUS
    <3>2. e \in Active(v) \/ v \in deleted
      BY <3>1 DEF PushInv, StoredIsActive
    <3> QED BY <1>3, <3>2
  <2>4. \A v \in User : \A e \in delivery'[v].endpoints :
           Issued(e) /\ (delivery'[v].pc = "sent" => ~Live(e))
    BY InvParts DEF Rows
  <2> QED BY <2>1, <2>2, <2>3, <2>4, RowsHold
<1>5. \A p \in Request : InTransaction(p) /\ request'[p] = request[p] =>
         LET v == request[p].user
         IN  /\ Active(v)' \subseteq Active(v)
             /\ request[p].doomed \subseteq Revoked(v)'
             /\ \/ Active(v) \cup Revoked(v) \subseteq Active(v)' \cup Revoked(v)'
                \/ v \in deleted'
  <2> SUFFICES ASSUME NEW p \in Request, InTransaction(p), request'[p] = request[p]
               PROVE  LET v == request[p].user
                      IN  /\ Active(v)' \subseteq Active(v)
                          /\ request[p].doomed \subseteq Revoked(v)'
                          /\ \/ Active(v) \cup Revoked(v) \subseteq Active(v)' \cup Revoked(v)'
                             \/ v \in deleted'
    OBVIOUS
  <2>1. request[p] \in Storing /\ Fits(request[p]) /\ request[p] # Idle /\ p # q
    BY <1>2, OpenRequest DEF InTransaction, Idle
  <2>2. PICK v \in User : v = request[p].user /\ v # u
    BY <1>1, <2>1 DEF Storing
  <2>3. request[p].doomed \subseteq Revoked(v)
    BY <2>1, <2>2 DEF Fits, InTransaction
  <2>4. /\ Active(v)' \subseteq Active(v)
        /\ request[p].doomed \subseteq Revoked(v)'
        /\ Active(v) \cup Revoked(v) \subseteq Active(v)' \cup Revoked(v)'
    BY <1>3, <2>2, <2>3
  <2> QED BY <2>2, <2>4 DEF Active, Revoked
<1>6. StoresAreSerial' /\ (\A p \in Request : Fits(request[p]))'
  BY <1>2, <1>5, RequestsFit
<1> QED BY <1>4, <1>6, InvPartsNext

\* What the transaction of q knows.
LEMMA InStore ==
    ASSUME PushInv, NEW q \in Request, InTransaction(q)
    PROVE  /\ request[q].user \in User /\ request[q].endpoint \in Endpoint
           /\ request[q].doomed \subseteq Revoked(request[q].user)
           /\ request[q].doomed \subseteq Endpoint
           /\ \A e \in request[q].doomed : row[e] # Absent /\ row[e].user = request[q].user
                                           /\ row[e].status = "revoked"
<1>1. request[q] \in Storing /\ Fits(request[q]) /\ request[q] # Idle
  BY OpenRequest DEF InTransaction, Idle
<1>2. request[q].user \in User /\ request[q].endpoint \in Endpoint /\ request[q].doomed \subseteq Endpoint
  BY <1>1 DEF Storing
<1>3. request[q].doomed \subseteq Revoked(request[q].user)
  BY <1>1 DEF Fits, InTransaction
<1> QED BY <1>2, <1>3, RowOwner DEF PushInv

LEMMA UnlistedDeliveries ==
    ASSUME PushInv, NEW gone, delivery' = Unlisted(gone)
    PROVE  /\ delivery' \in [User -> [pc : {"idle", "listed", "sent"}, endpoints : SUBSET Endpoint]]
           /\ \A v \in User : /\ delivery'[v].endpoints \subseteq delivery[v].endpoints
                              /\ delivery'[v].pc = delivery[v].pc
<1>1. \A v \in User : delivery[v] \in [pc : {"idle", "listed", "sent"}, endpoints : SUBSET Endpoint]
  BY DEF PushInv, TypeOK
<1>2. \A v \in User : delivery'[v] = [delivery[v] EXCEPT !.endpoints = @ \ gone]
  BY DEF Unlisted
<1>3. ASSUME NEW v \in User
      PROVE  /\ delivery'[v] \in [pc : {"idle", "listed", "sent"}, endpoints : SUBSET Endpoint]
             /\ delivery'[v].endpoints = delivery[v].endpoints \ gone
             /\ delivery'[v].pc = delivery[v].pc
  <2>1. delivery[v].endpoints \ gone \in SUBSET Endpoint
    BY <1>1
  <2> QED BY <1>1, <1>2, <2>1
<1>4. delivery' = [v \in User |-> delivery'[v]]
  BY DEF Unlisted
<1>5. delivery' \in [User -> [pc : {"idle", "listed", "sent"}, endpoints : SUBSET Endpoint]]
  BY <1>3, <1>4
<1> QED BY <1>3, <1>5

LEMMA CountPreserves ==
    ASSUME PushInv, NEW q \in Request, CountActive(q)
    PROVE  PushInv'
<1>1. InTransaction(q) /\ request[q] # Idle
  BY DEF CountActive, InTransaction, Idle
<1>2. PICK u \in User : u = request[q].user
  BY <1>1, InStore
<1>3. CASE LimitReached(u)
  <2> DEFINE gone == request[q].doomed
  <2>1. Finish(q) /\ row' = Without(row, gone) /\ delivery' = Unlisted(gone)
        /\ UNCHANGED <<browser, deleted, stored>>
    BY <1>2, <1>3 DEF CountActive
  <2>2. \A e \in Endpoint : row'[e] = IF e \in gone THEN Absent ELSE row[e]
    BY <2>1 DEF Without
  <2>3. TypeOK'
    <3>1. row' \in [Endpoint -> {Absent} \cup Stored]
      BY <2>1 DEF Without, PushInv, TypeOK
    <3>2. request' \in [Request -> {Idle} \cup Storing]
      BY <2>1 DEF Finish, PushInv, TypeOK
    <3> QED BY <2>1, <3>1, <3>2, UnlistedDeliveries DEF PushInv, TypeOK
  <2>4. \A e \in Endpoint : e \in Active(u)' <=> e \in Active(u)
    BY <1>1, <1>2, <2>2, InStore DEF Active, Absent
  <2>5. Active(u)' \subseteq Active(u)
    BY <2>4 DEF Active
  <2>6. \A e \in Endpoint : u \in stored'[e] => e \in Active(u)' \/ u \in deleted
    BY <2>1, <2>4 DEF PushInv, StoredIsActive
  <2>7. \A e \in Endpoint : row'[e] # row[e] =>
              /\ row[e] # Absent => row[e].user = u
              /\ row'[e] # Absent => row'[e].user = u
              /\ row[e] = Absent => e = request[q].endpoint
    BY <1>1, <1>2, <2>2, InStore
  <2>8. \A v \in User : /\ delivery'[v].endpoints \subseteq delivery[v].endpoints
                        /\ delivery'[v].pc = delivery[v].pc
    BY <2>1, UnlistedDeliveries
  <2>9. UNCHANGED <<browser, deleted>> /\ Finish(q) /\ stored' = stored
    BY <2>1
  <2> HIDE DEF Active, gone
  <2> QED BY <1>1, <1>2, <2>3, <2>5, <2>6, <2>7, <2>8, <2>9, CommitPreserves
<1>4. CASE ~LimitReached(u)
  <2>1. UNCHANGED <<browser, row, delivery, deleted, stored>>
    BY <1>2, <1>4 DEF CountActive
  <2>2. Cardinality(Active(u)) < Limit
    BY <1>4, ActiveFinite, PushAssumption DEF LimitReached
  <2>3. CASE request[q].pc = "renew"
    <3>1. Goto(q, "rotate")
      BY <1>2, <1>4, <2>3 DEF CountActive
    <3>2. request[q].endpoint \in Active(u) \cup Revoked(u) \/ u \in deleted
      BY <1>1, <1>2, <2>3, OpenRequest DEF Fits
    <3> QED BY <1>1, <1>2, <2>1, <2>2, <3>1, <3>2, GotoPreserves
  <2>4. CASE request[q].pc = "count"
    <3>1. Goto(q, "create")
      BY <1>2, <1>4, <2>4 DEF CountActive
    <3> QED BY <1>1, <1>2, <2>1, <2>2, <3>1, GotoPreserves
  <2> QED BY <2>3, <2>4 DEF CountActive
<1> QED BY <1>3, <1>4

\* The active endpoints of u with e among them stay within the limit, if e is one
\* of them already or there is room.
LEMMA RoomUsed ==
    ASSUME PushInv, NEW u \in User, NEW e, NEW B, B \subseteq Active(u) \cup {e},
           e \in Active(u) \/ Cardinality(Active(u)) < Limit
    PROVE  Cardinality(B) <= Limit
<1>1. IsFiniteSet(Active(u)) /\ Cardinality(Active(u)) \in Nat /\ Cardinality(Active(u)) <= Limit
  BY ActiveFinite DEF PushInv, ActiveWithinLimit
<1> HIDE DEF Active
<1>2. /\ IsFiniteSet(Active(u) \cup {e})
      /\ Cardinality(Active(u) \cup {e}) =
            IF e \in Active(u) THEN Cardinality(Active(u)) ELSE Cardinality(Active(u)) + 1
  BY <1>1, FS_AddElement
<1>3. IsFiniteSet(B) /\ Cardinality(B) <= Cardinality(Active(u) \cup {e})
  BY <1>2, FS_Subset
<1>4. Cardinality(B) \in Nat /\ Limit \in Nat
  BY <1>3, FS_CardinalityType, PushAssumption
<1> QED BY <1>1, <1>2, <1>3, <1>4

LEMMA RotatePreserves ==
    ASSUME PushInv, NEW q \in Request, Rotate(q)
    PROVE  PushInv'
<1>1. InTransaction(q) /\ request[q].pc = "rotate" /\ request[q] # Idle
  BY DEF Rotate, InTransaction, Idle
<1>2. PICK u \in User, e \in Endpoint : u = request[q].user /\ e = request[q].endpoint
  BY <1>1, InStore
<1> DEFINE active == [status |-> "active", user |-> u]
<1>3. /\ e \in Active(u) \/ Cardinality(Active(u)) < Limit
      /\ e \in Active(u) \cup Revoked(u) \/ u \in deleted
  BY <1>1, <1>2, OpenRequest DEF Fits
<1>4. /\ row' = [row EXCEPT ![e] = IF @ # Absent /\ @.user = u THEN active ELSE @]
      /\ stored' = [stored EXCEPT ![e] = @ \cup {u}]
      /\ Finish(q) /\ UNCHANGED <<browser, delivery, deleted>>
  BY <1>2 DEF Rotate
<1>5. active \in Stored /\ active # Absent /\ active.user = u
  <2>1. active.status = "active" /\ Absent.status = "absent"
    BY DEF Absent
  <2> QED BY <2>1 DEF Stored
<1>6. \A d \in Endpoint : row'[d] = IF d = e /\ row[e] # Absent /\ row[e].user = u THEN active
                                    ELSE row[d]
  BY <1>4 DEF PushInv, TypeOK
<1>7. TypeOK'
  <2>1. row' \in [Endpoint -> {Absent} \cup Stored]
    BY <1>4, <1>5 DEF PushInv, TypeOK
  <2>2. request' \in [Request -> {Idle} \cup Storing]
    BY <1>4 DEF Finish, PushInv, TypeOK
  <2>3. stored' \in [Endpoint -> SUBSET User]
    BY <1>4 DEF PushInv, TypeOK
  <2> QED BY <1>4, <2>1, <2>2, <2>3 DEF PushInv, TypeOK
<1>8. \A d \in Endpoint : d \in Active(u)' <=> row'[d] = active
  BY DEF Active
<1>9. \A d \in Endpoint : d \in Active(u) <=> row[d] = active
  BY DEF Active
<1>10. Active(u)' \subseteq Endpoint /\ Active(u) \subseteq Endpoint
  BY DEF Active
<1>11. Active(u)' \subseteq Active(u) \cup {e} /\ Active(u) \subseteq Active(u)'
  <2> HIDE DEF Active, active
  <2> QED BY <1>6, <1>8, <1>9, <1>10
<1>12. Cardinality(Active(u)') <= Limit
  <2> HIDE DEF Active, active
  <2> QED BY <1>3, <1>11, RoomUsed
<1>13. \A d \in Endpoint : row'[d] # row[d] =>
          /\ row[d] # Absent => row[d].user = u
          /\ row'[d] # Absent => row'[d].user = u
          /\ row[d] = Absent => d = request[q].endpoint
  BY <1>5, <1>6
<1>14. \A d \in Endpoint : stored'[d] \subseteq stored[d] \cup {u}
  BY <1>4 DEF PushInv, TypeOK
<1>15. \A d \in Endpoint : u \in stored'[d] => d \in Active(u)' \/ u \in deleted
  <2>1. e \in Active(u)' \/ u \in deleted
    <3>1. e \in Active(u) \cup Revoked(u) => row[e] # Absent /\ row[e].user = u
      BY RowOwner DEF PushInv
    <3> QED BY <1>3, <1>6, <1>8, <3>1
  <2>2. \A d \in Endpoint : d # e => stored'[d] = stored[d]
    BY <1>4 DEF PushInv, TypeOK
  <2>3. \A d \in Endpoint : u \in stored[d] => d \in Active(u) \/ u \in deleted
    BY DEF PushInv, StoredIsActive
  <2> HIDE DEF Active, Revoked
  <2> QED BY <1>11, <2>1, <2>2, <2>3
<1>16. \A v \in User : /\ delivery'[v].endpoints \subseteq delivery[v].endpoints
                       /\ delivery'[v].pc = delivery[v].pc
  BY <1>4
<1>17. UNCHANGED <<browser, deleted>> /\ Finish(q)
  BY <1>4
<1> HIDE DEF Active, active
<1> QED BY <1>1, <1>2, <1>7, <1>12, <1>13, <1>14, <1>15, <1>16, <1>17, CommitPreserves

LEMMA CreatePreserves ==
    ASSUME PushInv, NEW q \in Request, Create(q)
    PROVE  PushInv'
<1>1. InTransaction(q) /\ request[q].pc = "create" /\ request[q] # Idle
  BY DEF Create, InTransaction, Idle
<1>2. PICK u \in User, e \in Endpoint : u = request[q].user /\ e = request[q].endpoint
  BY <1>1, InStore
<1> DEFINE active == [status |-> "active", user |-> u]
           gone == request[q].doomed
<1>3. e \in Active(u) \/ Cardinality(Active(u)) < Limit
  BY <1>1, <1>2, OpenRequest DEF Fits
<1>4. CASE row[e] = Absent
  <2>1. /\ row' = [Without(row, gone) EXCEPT ![e] = active]
        /\ delivery' = Unlisted(gone)
        /\ stored' = [stored EXCEPT ![e] = @ \cup {u}]
        /\ Finish(q) /\ UNCHANGED <<browser, deleted>>
    BY <1>2, <1>4 DEF Create
  <2>2. active \in Stored /\ active # Absent /\ active.user = u /\ active.status = "active"
    <3>1. active.status = "active" /\ Absent.status = "absent"
      BY DEF Absent
    <3> QED BY <3>1 DEF Stored
  <2>3. \A d \in Endpoint : row'[d] = IF d = e THEN active ELSE IF d \in gone THEN Absent ELSE row[d]
    BY <2>1 DEF Without
  <2>4. \A d \in gone : row[d] # Absent /\ row[d].user = u /\ row[d].status = "revoked"
    BY <1>1, <1>2, InStore
  <2>5. TypeOK'
    <3>1. Without(row, gone) \in [Endpoint -> {Absent} \cup Stored]
      BY DEF Without, PushInv, TypeOK
    <3>2. row' \in [Endpoint -> {Absent} \cup Stored]
      BY <2>1, <2>2, <3>1
    <3>3. request' \in [Request -> {Idle} \cup Storing]
      BY <2>1 DEF Finish, PushInv, TypeOK
    <3>4. stored' \in [Endpoint -> SUBSET User]
      BY <2>1 DEF PushInv, TypeOK
    <3> QED BY <2>1, <3>2, <3>3, <3>4, UnlistedDeliveries DEF PushInv, TypeOK
  <2>6. \A d \in Endpoint : d \in Active(u)' <=> row'[d] = active
    BY DEF Active
  <2>7. \A d \in Endpoint : d \in Active(u) <=> row[d] = active
    BY DEF Active
  <2>8. Active(u)' \subseteq Endpoint /\ Active(u) \subseteq Endpoint
    BY DEF Active
  <2>9. Active(u)' \subseteq Active(u) \cup {e} /\ Active(u) \subseteq Active(u)'
    <3>1. \A d \in gone : row[d] # active
      BY <2>2, <2>4
    <3> HIDE DEF Active, active, gone
    <3> QED BY <1>4, <2>2, <2>3, <2>6, <2>7, <2>8, <3>1
  <2>10. Cardinality(Active(u)') <= Limit
    <3> HIDE DEF Active
    <3> QED BY <1>3, <2>9, RoomUsed
  <2>11. \A d \in Endpoint : row'[d] # row[d] =>
            /\ row[d] # Absent => row[d].user = u
            /\ row'[d] # Absent => row'[d].user = u
            /\ row[d] = Absent => d = request[q].endpoint
    BY <1>2, <1>4, <2>2, <2>3, <2>4
  <2>12. \A d \in Endpoint : stored'[d] \subseteq stored[d] \cup {u}
    BY <2>1 DEF PushInv, TypeOK
  <2>13. \A d \in Endpoint : u \in stored'[d] => d \in Active(u)' \/ u \in deleted
    <3>1. e \in Active(u)'
      BY <2>3, <2>6
    <3>2. \A d \in Endpoint : d # e => stored'[d] = stored[d]
      BY <2>1 DEF PushInv, TypeOK
    <3>3. \A d \in Endpoint : u \in stored[d] => d \in Active(u) \/ u \in deleted
      BY DEF PushInv, StoredIsActive
    <3> HIDE DEF Active
    <3> QED BY <2>9, <3>1, <3>2, <3>3
  <2>14. \A v \in User : /\ delivery'[v].endpoints \subseteq delivery[v].endpoints
                         /\ delivery'[v].pc = delivery[v].pc
    BY <2>1, UnlistedDeliveries
  <2>15. UNCHANGED <<browser, deleted>> /\ Finish(q)
    BY <2>1
  <2> HIDE DEF Active, active, gone
  <2> QED BY <1>1, <1>2, <2>5, <2>10, <2>11, <2>12, <2>13, <2>14, <2>15, CommitPreserves
<1>5. CASE row[e] # Absent
  <2>1. UNCHANGED <<browser, row, delivery, deleted, stored>>
    BY <1>2, <1>5 DEF Create
  <2>2. CASE request[q].retried
    <3>1. Finish(q)
      BY <1>2, <1>5, <2>2 DEF Create, Finish
    <3> QED BY <2>1, <3>1, FinishPreserves
  <2>3. CASE ~request[q].retried
    <3> DEFINE new == [request[q] EXCEPT !.pc = "lock", !.doomed = {}, !.retried = TRUE]
    <3>1. request' = [request EXCEPT ![q] = new]
      BY <1>2, <1>5, <2>3 DEF Create
    <3>2. request[q] \in Storing /\ Fits(request[q])
      BY <1>1, OpenRequest
    <3>3. new \in Storing /\ new # Idle /\ new.pc = "lock" /\ new.endpoint = e /\ new.doomed = {}
      BY <1>2, <3>2 DEF Storing, Idle
    <3>4. Issued(e)
      BY <1>1, <1>2, <3>2 DEF Fits
    <3> HIDE DEF new
    <3>5. Fits(new) /\ Waiting(new)
      BY <3>3, <3>4 DEF Fits, Waiting
    <3> QED BY <2>1, <3>1, <3>3, <3>5, RequestFrame
  <2> QED BY <2>2, <2>3
<1> QED BY <1>4, <1>5

\* Active endpoints of u become revoked; requests do not change.
LEMMA RevokePreserves ==
    ASSUME PushInv, NEW u \in User, NEW endpoints, endpoints \subseteq Active(u),
           Revoke(endpoints), UNCHANGED <<browser, request, deleted>>,
           delivery' \in [User -> [pc : {"idle", "listed", "sent"}, endpoints : SUBSET Endpoint]],
           \A v \in User : \A e \in delivery'[v].endpoints :
              Issued(e) /\ (delivery'[v].pc = "sent" => ~Live(e))
    PROVE  PushInv'
<1>1. TypeOK /\ endpoints \subseteq Endpoint
  BY DEF PushInv, Active
<1>2. \A e \in endpoints : row[e] # Absent /\ row[e] \in Stored /\ row[e].user = u
                         /\ row[e].status = "active"
  BY <1>1, RowOwner
<1>3. \A e \in Endpoint :
         row'[e] = IF e \in endpoints THEN [row[e] EXCEPT !.status = "revoked"] ELSE row[e]
  BY <1>2 DEF Revoke
<1>4. \A e \in endpoints : /\ row'[e] \in Stored /\ row'[e].user = u /\ row'[e].status = "revoked"
                           /\ row'[e] # Absent
  <2> SUFFICES ASSUME NEW e \in endpoints
               PROVE  /\ row'[e] \in Stored /\ row'[e].user = u /\ row'[e].status = "revoked"
                      /\ row'[e] # Absent
    OBVIOUS
  <2>1. row'[e] = [row[e] EXCEPT !.status = "revoked"]
    BY <1>1, <1>3
  <2>2. row'[e] \in Stored /\ row'[e].user = u /\ row'[e].status = "revoked"
    BY <1>2, <2>1 DEF Stored
  <2>3. Absent.status = "absent"
    BY DEF Absent
  <2> QED BY <2>2, <2>3
<1>5. TypeOK'
  <2>1. row' \in [Endpoint -> {Absent} \cup Stored]
    <3>1. \A e \in Endpoint : row'[e] \in {Absent} \cup Stored
      BY <1>1, <1>3, <1>4 DEF TypeOK
    <3>2. row' = [e \in Endpoint |-> row'[e]]
      BY DEF Revoke
    <3> QED BY <3>1, <3>2
  <2>2. stored' \in [Endpoint -> SUBSET User]
    BY <1>1 DEF Revoke, TypeOK
  <2> QED BY <1>1, <2>1, <2>2 DEF TypeOK
<1>6. \A v \in User : v # u => Active(v)' = Active(v) /\ Revoked(v)' = Revoked(v)
  BY <1>1, <1>2, <1>3, <1>4, <1>5, OtherUsers
<1>7. \A e \in Endpoint : /\ e \in Active(u)' <=> e \in Active(u) /\ e \notin endpoints
                          /\ e \in Revoked(u)' <=> e \in Revoked(u) \/ e \in endpoints
  <2>1. \A e \in Endpoint : /\ e \in Active(u)' <=> row'[e] = [status |-> "active", user |-> u]
                            /\ e \in Active(u) <=> row[e] = [status |-> "active", user |-> u]
                            /\ e \in Revoked(u)' <=> row'[e] = [status |-> "revoked", user |-> u]
                            /\ e \in Revoked(u) <=> row[e] = [status |-> "revoked", user |-> u]
    BY DEF Active, Revoked
  <2>2. \A e \in endpoints : row'[e] = [status |-> "revoked", user |-> u]
    BY <1>4 DEF Stored
  <2>3. [status |-> "revoked", user |-> u] # [status |-> "active", user |-> u]
    <3>1. [status |-> "revoked", user |-> u].status = "revoked"
      OBVIOUS
    <3> QED BY <3>1
  <2> HIDE DEF Active, Revoked
  <2>4. ASSUME NEW e \in Endpoint, e \in endpoints
        PROVE  e \notin Active(u)' /\ e \in Revoked(u)'
    BY <2>1, <2>2, <2>3, <2>4
  <2>5. ASSUME NEW e \in Endpoint, e \notin endpoints
        PROVE  (e \in Active(u)' <=> e \in Active(u)) /\ (e \in Revoked(u)' <=> e \in Revoked(u))
    BY <1>3, <2>1, <2>5
  <2> QED BY <2>4, <2>5
<1>8. /\ Active(u)' \subseteq Active(u) /\ Revoked(u) \subseteq Revoked(u)'
      /\ Active(u) \cup Revoked(u) \subseteq Active(u)' \cup Revoked(u)'
  <2>1. Active(u) \subseteq Endpoint /\ Active(u)' \subseteq Endpoint /\ Revoked(u) \subseteq Endpoint
    BY DEF Active, Revoked
  <2> HIDE DEF Active, Revoked
  <2> QED BY <1>7, <2>1
<1>9. Rows'
  <2>1. \A v \in User : Active(v)' \subseteq Active(v) \/ Cardinality(Active(v)') <= Limit
    BY <1>6, <1>8
  <2>2. \A e \in Endpoint : row'[e] # Absent /\ row[e] = Absent => Issued(e)
    BY <1>2, <1>3
  <2>3. ASSUME NEW e \in Endpoint, NEW v \in User, v \in stored'[e]
        PROVE  e \in Active(v)' \/ v \in deleted'
    <3>1. v \in stored[e] /\ e \notin endpoints
      BY <2>3 DEF Revoke
    <3>2. e \in Active(v) \/ v \in deleted
      BY <3>1 DEF PushInv, StoredIsActive
    <3> HIDE DEF Active
    <3> QED BY <1>6, <1>7, <3>1, <3>2
  <2>4. UNCHANGED browser /\ deleted \subseteq deleted'
    OBVIOUS
  <2> HIDE DEF Active
  <2> QED BY <1>5, <2>1, <2>2, <2>3, <2>4, RowsHold
<1>10. StoresAreSerial' /\ (\A p \in Request : Fits(request[p]))'
  <2>1. ASSUME NEW p \in Request, InTransaction(p)
        PROVE  LET v == request[p].user
               IN  /\ Active(v)' \subseteq Active(v)
                   /\ request[p].doomed \subseteq Revoked(v)'
                   /\ \/ Active(v) \cup Revoked(v) \subseteq Active(v)' \cup Revoked(v)'
                      \/ v \in deleted'
    <3>1. PICK v \in User : v = request[p].user
      BY <2>1, InStore
    <3>2. request[p].doomed \subseteq Revoked(v)
      BY <2>1, <3>1, InStore
    <3>3. /\ Active(v)' \subseteq Active(v)
          /\ request[p].doomed \subseteq Revoked(v)'
          /\ Active(v) \cup Revoked(v) \subseteq Active(v)' \cup Revoked(v)'
      BY <1>6, <1>8, <3>1, <3>2
    <3> QED BY <3>1, <3>3 DEF Active, Revoked
  <2> QED BY <2>1, RequestsFit
<1> QED BY <1>9, <1>10, InvPartsNext

LEMMA OwnRevocationPreserves ==
    ASSUME PushInv, NEW u \in User,
           UnsubscribeFromNotifications(u) \/ \E e \in Endpoint : RevokePushSubscription(u, e)
    PROVE  PushInv'
<1>1. /\ UNCHANGED <<browser, request, delivery, deleted>>
      /\ \E endpoints : endpoints \subseteq Active(u) /\ Revoke(endpoints)
  BY DEF UnsubscribeFromNotifications, RevokePushSubscription
<1>2. delivery' \in [User -> [pc : {"idle", "listed", "sent"}, endpoints : SUBSET Endpoint]]
  BY <1>1 DEF PushInv, TypeOK
<1>3. \A v \in User : \A e \in delivery'[v].endpoints :
         Issued(e) /\ (delivery'[v].pc = "sent" => ~Live(e))
  BY <1>1, InvParts DEF Rows
<1> QED BY <1>1, <1>2, <1>3, RevokePreserves

LEMMA CleanupPreserves ==
    ASSUME PushInv, NEW u \in User, RevokeInvalidPushSubscriptions(u)
    PROVE  PushInv'
<1> DEFINE endpoints == delivery[u].endpoints \cap Active(u)
<1>1. /\ UNCHANGED <<browser, request, deleted>> /\ Revoke(endpoints)
      /\ delivery' = [delivery EXCEPT ![u] = [pc |-> "idle", endpoints |-> {}]]
  BY DEF RevokeInvalidPushSubscriptions
<1>2. delivery' \in [User -> [pc : {"idle", "listed", "sent"}, endpoints : SUBSET Endpoint]]
  BY <1>1 DEF PushInv, TypeOK
<1>3. \A v \in User : delivery'[v] = IF v = u THEN [pc |-> "idle", endpoints |-> {}] ELSE delivery[v]
  BY <1>1 DEF PushInv, TypeOK
<1>4. \A v \in User : \A e \in delivery'[v].endpoints :
         Issued(e) /\ (delivery'[v].pc = "sent" => ~Live(e))
  BY <1>3, InvParts DEF Rows
<1>5. endpoints \subseteq Active(u)
  OBVIOUS
<1> HIDE DEF endpoints
<1> QED BY <1>1, <1>2, <1>4, <1>5, RevokePreserves

LEMMA AnonymizePreserves ==
    ASSUME PushInv, NEW u \in User, AnonymizeAccount(u)
    PROVE  PushInv'
<1> DEFINE gone == Active(u) \cup Revoked(u)
<1>1. /\ row' = Without(row, gone) /\ delivery' = Unlisted(gone)
      /\ deleted' = deleted \cup {u} /\ UNCHANGED <<request, stored>>
      /\ \A e \in gone, q \in Request : ~Locked(e, q)
  BY DEF AnonymizeAccount
<1>2. \A b \in Browser : /\ browser'[b] \in [user : User \cup {NoUser}, renewals : 0..MaxRenewals,
                                              holds : 0..MaxRenewals]
                         /\ browser'[b].renewals = browser[b].renewals
                         /\ browser'[b].holds = browser[b].holds
  <2> SUFFICES ASSUME NEW b \in Browser
               PROVE  /\ browser'[b] \in [user : User \cup {NoUser}, renewals : 0..MaxRenewals,
                                           holds : 0..MaxRenewals]
                      /\ browser'[b].renewals = browser[b].renewals
                      /\ browser'[b].holds = browser[b].holds
    OBVIOUS
  <2>1. browser[b] \in [user : User \cup {NoUser}, renewals : 0..MaxRenewals, holds : 0..MaxRenewals]
    BY BrowserTypes DEF PushInv
  <2>2. browser'[b] \in {browser[b], [browser[b] EXCEPT !.user = NoUser]}
    BY DEF AnonymizeAccount
  <2> QED BY <2>1, <2>2
<1>3. \A e \in Endpoint : row'[e] = IF e \in gone THEN Absent ELSE row[e]
  BY <1>1 DEF Without
<1>4. TypeOK'
  <2>1. row' \in [Endpoint -> {Absent} \cup Stored]
    BY <1>1 DEF Without, PushInv, TypeOK
  <2>2. browser' \in [Browser -> [user : User \cup {NoUser}, renewals : 0..MaxRenewals,
                                 holds : 0..MaxRenewals]]
    <3>1. browser' = [b \in Browser |-> browser'[b]]
      BY DEF AnonymizeAccount
    <3> QED BY <1>2, <3>1
  <2> QED BY <1>1, <2>1, <2>2, UnlistedDeliveries DEF PushInv, TypeOK
<1>5. \A v \in User : v # u => Active(v)' = Active(v) /\ Revoked(v)' = Revoked(v)
  <2>1. \A e \in gone : row[e] # Absent /\ row[e].user = u
    <3>1. gone \subseteq Endpoint
      BY DEF Active, Revoked
    <3> QED BY <3>1, RowOwner DEF PushInv
  <2> HIDE DEF gone
  <2> QED BY <1>3, <1>4, <2>1, OtherUsers DEF PushInv
<1>6. Active(u)' = {} /\ Revoked(u)' = {}
  <2>1. \A e \in Endpoint : row'[e] # [status |-> "active", user |-> u]
                          /\ row'[e] # [status |-> "revoked", user |-> u]
    <3>1. \A s : [status |-> s, user |-> u].status = s /\ Absent.status = "absent"
      BY DEF Absent
    <3>2. Absent # [status |-> "active", user |-> u] /\ Absent # [status |-> "revoked", user |-> u]
      BY <3>1
    <3> QED BY <1>3, <3>2 DEF Active, Revoked
  <2> QED BY <2>1 DEF Active, Revoked
<1>7. Rows'
  <2>1. /\ \A e \in Endpoint : Issued(e)' <=> Issued(e)
        /\ \A e \in Endpoint : Live(e)' <=> Live(e)
    BY <1>2, EndpointParts DEF Issued, Live
  <2>2. \A e \in Endpoint : row'[e] # Absent => Issued(e)'
    BY <1>3, <2>1, InvParts DEF Rows
  <2>3. \A v \in User : \A e \in delivery'[v].endpoints :
           Issued(e)' /\ (delivery'[v].pc = "sent" => ~Live(e)')
    <3>1. \A v \in User : delivery[v].endpoints \subseteq Endpoint
      BY DEF PushInv, TypeOK
    <3> QED BY <1>1, <2>1, <3>1, UnlistedDeliveries, InvParts DEF Rows
  <2>4. ActiveWithinLimit'
    <3> SUFFICES ASSUME NEW v \in User
                 PROVE  Cardinality(Active(v)') <= Limit
      BY DEF ActiveWithinLimit
    <3>1. CASE v = u
      BY <1>6, <3>1, FS_EmptySet, PushAssumption
    <3>2. CASE v # u
      BY <1>5, <3>2 DEF PushInv, ActiveWithinLimit
    <3> QED BY <3>1, <3>2
  <2>5. StoredIsActive'
    <3>1. \A e \in Endpoint : stored'[e] \subseteq User
      BY <1>4 DEF TypeOK
    <3>2. ASSUME NEW e \in Endpoint, NEW v \in User, v \in stored'[e]
          PROVE  e \in Active(v)' \/ v \in deleted'
      <4>1. e \in Active(v) \/ v \in deleted
        BY <1>1, <3>2 DEF PushInv, StoredIsActive
      <4> QED BY <1>1, <1>5, <4>1
    <3> QED BY <3>1, <3>2 DEF StoredIsActive
  <2>6. HeldWasIssued'
    BY <1>2 DEF PushInv, HeldWasIssued
  <2> QED BY <1>4, <2>2, <2>3, <2>4, <2>5, <2>6 DEF Rows
<1>8. (\A p \in Request : Fits(request[p]))'
  <2> SUFFICES ASSUME NEW p \in Request
               PROVE  Fits(request[p])'
    OBVIOUS
  <2>1. PICK r \in {Idle} \cup Storing : r = request[p] /\ r = request'[p]
    BY <1>1 DEF PushInv, TypeOK
  <2>2. Fits(r)
    BY <2>1, InvParts
  <2>3. \A b \in Browser : browser[b].renewals \in Nat /\ browser'[b].renewals \in Nat
                           /\ browser[b].renewals <= browser'[b].renewals
    BY <1>2, BrowserTypes DEF PushInv
  <2>4. ASSUME ~Waiting(r)
        PROVE  /\ Active(r.user)' \subseteq Active(r.user)
               /\ r.doomed \subseteq Revoked(r.user)'
               /\ \/ Active(r.user) \cup Revoked(r.user) \subseteq Active(r.user)' \cup Revoked(r.user)'
                  \/ r.user \in deleted'
    <3>1. InTransaction(p)
      BY <2>1, <2>4 DEF InTransaction, Waiting
    <3>2. r.user \in User /\ r.doomed \subseteq Revoked(r.user)
      BY <2>1, <3>1, InStore
    <3>3. r.user = u => r.doomed = {}
      BY <1>1, <2>1, <3>1, <3>2 DEF Locked
    <3> HIDE DEF Active, Revoked, gone
    <3>4. CASE r.user = u
      BY <1>1, <1>6, <3>3, <3>4
    <3>5. CASE r.user # u
      BY <1>5, <3>2, <3>5
    <3> QED BY <3>4, <3>5
  <2>5. deleted \subseteq deleted'
    BY <1>1
  <2>6. Fits(r)'
    BY <2>2, <2>3, <2>4, <2>5, FitsKept
  <2> QED BY <2>1, <2>6 DEF Fits
<1>9. StoresAreSerial'
  BY <1>1 DEF PushInv, StoresAreSerial, InTransaction
<1> QED BY <1>7, <1>8, <1>9, InvPartsNext

LEMMA DeliveryStepPreserves ==
    ASSUME PushInv, NEW u \in User, ListActivePushSubscriptions(u) \/ Send(u)
    PROVE  PushInv'
<1>1. UNCHANGED <<browser, row, request, deleted, stored>>
  BY DEF ListActivePushSubscriptions, Send
<1>2. ASSUME NEW new \in [pc : {"idle", "listed", "sent"}, endpoints : SUBSET Endpoint],
             delivery' = [delivery EXCEPT ![u] = new],
             \A e \in new.endpoints : Issued(e) /\ (new.pc = "sent" => ~Live(e))
      PROVE  PushInv'
  <2>1. \A v \in User : delivery'[v] = IF v = u THEN new ELSE delivery[v]
    BY <1>2 DEF PushInv, TypeOK
  <2>2. TypeOK'
    BY <1>1, <1>2 DEF PushInv, TypeOK
  <2>3. \A v \in User : \A e \in delivery'[v].endpoints :
           Issued(e) /\ (delivery'[v].pc = "sent" => ~Live(e))
    BY <1>2, <2>1, InvParts DEF Rows
  <2>4. \A v : Active(v)' = Active(v) /\ Revoked(v)' = Revoked(v)
    BY <1>1 DEF Active, Revoked
  <2>5. \A e \in Endpoint, v \in User : v \in stored'[e] => e \in Active(v)' \/ v \in deleted'
    BY <1>1, <2>4 DEF PushInv, StoredIsActive
  <2>6. Rows'
    BY <1>1, <2>2, <2>3, <2>4, <2>5, RowsHold
  <2>7. StoresAreSerial' /\ (\A p \in Request : Fits(request[p]))'
    <3>1. \A p \in Request : InTransaction(p) => request[p].doomed \subseteq Revoked(request[p].user)
      BY InStore
    <3> QED BY <1>1, <2>4, <3>1, RequestsFit DEF Active, Revoked
  <2> QED BY <2>6, <2>7, InvPartsNext
<1>3. CASE ListActivePushSubscriptions(u)
  <2> DEFINE new == [pc |-> "listed", endpoints |-> Active(u)]
  <2>1. Active(u) \subseteq Endpoint /\ \A e \in Active(u) : row[e] # Absent
    <3>1. Active(u) \subseteq Endpoint
      BY DEF Active
    <3> QED BY <3>1, RowOwner DEF PushInv
  <2>2. \A e \in new.endpoints : Issued(e) /\ (new.pc = "sent" => ~Live(e))
    BY <2>1, InvParts DEF Rows
  <2> QED BY <1>2, <1>3, <2>1, <2>2 DEF ListActivePushSubscriptions
<1>4. CASE Send(u)
  <2> DEFINE new == [pc |-> "sent", endpoints |-> Invalid(u)]
  <2>1. Invalid(u) \subseteq delivery[u].endpoints /\ \A e \in Invalid(u) : ~Live(e)
    BY DEF Invalid
  <2>2. delivery[u].endpoints \subseteq Endpoint
    BY DEF PushInv, TypeOK
  <2>3. \A e \in new.endpoints : Issued(e) /\ (new.pc = "sent" => ~Live(e))
    BY <2>1, InvParts DEF Rows
  <2> QED BY <1>2, <1>4, <2>1, <2>2, <2>3 DEF Send
<1> QED BY <1>3, <1>4

LEMMA AbortPreserves ==
    ASSUME PushInv, NEW q \in Request, Abort(q)
    PROVE  PushInv'
BY FinishPreserves DEF Abort

-----------------------------------------------------------------------------
(* The theorems.                                                            *)

LEMMA InitInv == Init => PushInv
<1> SUFFICES ASSUME Init PROVE PushInv
  OBVIOUS
<1>1. TypeOK
  BY PushAssumption DEF Init, TypeOK
<1>2. Absent.status = "absent"
  BY DEF Absent
<1>3. \A u \in User : Active(u) = {}
  <2>1. \A u : [status |-> "active", user |-> u].status = "active"
    OBVIOUS
  <2>2. \A u : Absent # [status |-> "active", user |-> u]
    BY <1>2, <2>1
  <2> QED BY <2>2 DEF Init, Active
<1>4. Rows
  <2>1. ActiveWithinLimit
    <3>1. Cardinality({}) = 0 /\ 0 <= Limit
      BY FS_EmptySet, PushAssumption
    <3> HIDE DEF Active
    <3> QED BY <1>3, <3>1 DEF ActiveWithinLimit
  <2>2. HeldWasIssued /\ StoredIsActive
    BY DEF Init, HeldWasIssued, StoredIsActive
  <2>3. \A e \in Endpoint : row[e] = Absent
    BY DEF Init
  <2>4. \A u \in User : delivery[u].endpoints = {}
    BY DEF Init
  <2> QED BY <1>1, <2>1, <2>2, <2>3, <2>4 DEF Rows
<1>5. \A q \in Request : request[q] = Idle
  BY DEF Init
<1>6. StoresAreSerial /\ \A q \in Request : Fits(request[q])
  BY <1>5, IdleFits DEF StoresAreSerial, InTransaction
<1> QED BY <1>4, <1>6, InvParts

LEMMA NextInv == PushInv /\ [Next]_vars => PushInv'
<1> SUFFICES ASSUME PushInv, [Next]_vars PROVE PushInv'
  OBVIOUS
<1>1. ASSUME NEW b \in Browser,
             \/ \E u \in User : SignIn(b, u)
             \/ SignOut(b) \/ Subscribe(b) \/ Expire(b)
      PROVE  PushInv'
  BY <1>1, BrowserStepPreserves
<1>2. ASSUME NEW b \in Browser, NEW q \in Request, Post(b, q)
      PROVE  PushInv'
  BY <1>2, PostPreserves
<1>3. ASSUME NEW q \in Request, StoreStep(q)
      PROVE  PushInv'
  BY <1>3, LockPreserves, FindPreserves, DeletePreserves, CountPreserves, RotatePreserves,
     CreatePreserves DEF StoreStep
<1>4. ASSUME NEW q \in Request, Abort(q)
      PROVE  PushInv'
  BY <1>4, AbortPreserves
<1>5. ASSUME NEW u \in User,
             \/ \E e \in Endpoint : RevokePushSubscription(u, e)
             \/ UnsubscribeFromNotifications(u)
      PROVE  PushInv'
  BY <1>5, OwnRevocationPreserves
<1>6. ASSUME NEW u \in User, AnonymizeAccount(u)
      PROVE  PushInv'
  BY <1>6, AnonymizePreserves
<1>7. ASSUME NEW u \in User,
             \/ ListActivePushSubscriptions(u) \/ Send(u)
             \/ RevokeInvalidPushSubscriptions(u)
      PROVE  PushInv'
  BY <1>7, DeliveryStepPreserves, CleanupPreserves
<1>8. CASE UNCHANGED vars
  BY <1>8 DEF vars, PushInv, TypeOK, StoresAreSerial, StoresHaveRoom, RenewalsAreOwn,
              DoomedIsRevoked, HeldWasIssued, EndpointsAreIssued, ActiveWithinLimit,
              StoredIsActive, Issued, Live, Active, Revoked, InTransaction
<1> QED BY <1>1, <1>2, <1>3, <1>4, <1>5, <1>6, <1>7, <1>8 DEF Next

\* The inductive invariant: one transaction per user, each with room for what it
\* writes, renewing its own endpoints and deleting only what stays revoked.
THEOREM PushInvariant == Spec => []PushInv
BY InitInv, NextInv, PTL DEF Spec

\* storePushSubscription never takes a user beyond
\* MAX_ACTIVE_PUSH_SUBSCRIPTIONS_PER_USER, for every number of users, browsers
\* and concurrent requests.
THEOREM LimitHolds == Spec => []ActiveWithinLimit
<1>1. PushInv => ActiveWithinLimit
  BY DEF PushInv
<1> QED BY <1>1, PushInvariant, PTL

\* An endpoint the server has confirmed stays active under its user until that
\* user, the account's deletion or a clean-up ends it.
THEOREM ConfirmedStaysActive == Spec => []StoredIsActive
<1>1. PushInv => StoredIsActive
  BY DEF PushInv
<1> QED BY <1>1, PushInvariant, PTL

LEMMA CleanupStep ==
    ASSUME PushInv, [Next]_vars, NEW u \in User,
           delivery[u].pc = "sent", delivery'[u].pc = "idle",
           NEW e \in Endpoint, row[e] # row'[e]
    PROVE  ~Live(e)
<1>1. delivery[u] \in [pc : {"idle", "listed", "sent"}, endpoints : SUBSET Endpoint]
  BY DEF PushInv, TypeOK
<1>2. ~UNCHANGED delivery
  OBVIOUS
<1>3. \A gone : delivery' # Unlisted(gone)
  BY UnlistedDeliveries
<1>4. PICK v \in User : RevokeInvalidPushSubscriptions(v)
  <2>1. \A b \in Browser :
          /\ \A v \in User : ~SignIn(b, v)
          /\ \A q \in Request : ~Post(b, q)
          /\ ~SignOut(b) /\ ~Subscribe(b) /\ ~Expire(b)
    BY <1>2 DEF SignIn, Post, SignOut, Subscribe, Expire
  <2>2. \A q \in Request : ~StoreStep(q) /\ ~Abort(q)
    BY <1>2, <1>3 DEF StoreStep, Abort, Lock, FindSubscription, DeleteRevoked, CountActive,
                      Rotate, Create
  <2>3. \A v \in User :
          /\ \A d \in Endpoint : ~RevokePushSubscription(v, d)
          /\ ~UnsubscribeFromNotifications(v) /\ ~AnonymizeAccount(v)
    BY <1>2, <1>3 DEF RevokePushSubscription, UnsubscribeFromNotifications, AnonymizeAccount
  <2>4. \A v \in User : ~ListActivePushSubscriptions(v) /\ ~Send(v)
    <3> SUFFICES ASSUME NEW v \in User, ListActivePushSubscriptions(v) \/ Send(v)
                 PROVE  FALSE
      OBVIOUS
    <3>1. delivery' = [delivery EXCEPT ![v] = delivery'[v]] /\ delivery'[v].pc # "idle"
      BY DEF ListActivePushSubscriptions, Send, PushInv, TypeOK
    <3>2. CASE v = u
      BY <3>1, <3>2
    <3>3. CASE v # u
      BY <3>1, <3>3 DEF PushInv, TypeOK
    <3> QED BY <3>2, <3>3
  <2>5. Next
    BY <1>2 DEF vars
  <2> QED BY <2>1, <2>2, <2>3, <2>4, <2>5 DEF Next
<1>5. v = u
  BY <1>4 DEF RevokeInvalidPushSubscriptions, PushInv, TypeOK
<1>6. e \in delivery[u].endpoints
  BY <1>4, <1>5 DEF RevokeInvalidPushSubscriptions, Revoke, PushInv, TypeOK
<1> QED BY <1>6 DEF PushInv, EndpointsAreIssued

\* revokeInvalidPushSubscriptions ends no subscription its browser still holds:
\* the push service refused the endpoint when it was sent to, and an endpoint it
\* no longer knows never returns.
THEOREM CleanupIsSafe == Spec => CleanupSparesDevices
<1>1. PushInv /\ [Next]_vars =>
         [\A u \in User : delivery[u].pc = "sent" /\ delivery'[u].pc = "idle" =>
             \A e \in Endpoint : row[e] # row'[e] => ~Live(e)]_vars
  BY CleanupStep
<1> QED BY <1>1, PushInvariant, PTL DEF Spec, CleanupSparesDevices
-----------------------------------------------------------------------------
(* Waits of stores.                                                         *)

Transactions == {q \in Request : InTransaction(q)}

\* A step that starts no transaction and adds no wait among those that go on.
LEMMA WaitsShrink ==
    ASSUME WaitsAreOrdered,
           \A p \in Transactions' : p \in Transactions,
           \A p, r \in Transactions' : MayWaitFor(p, r)' => MayWaitFor(p, r)
    PROVE  WaitsAreOrdered'
<1> SUFFICES ASSUME NEW stores \in SUBSET Transactions', stores # {}
             PROVE  \E p \in stores : \A r \in stores : ~MayWaitFor(p, r)'
  BY DEF WaitsAreOrdered, Transactions
<1>1. PICK p \in stores : \A r \in stores : ~MayWaitFor(p, r)
  BY DEF WaitsAreOrdered, Transactions
<1> QED BY <1>1

\* Rows keep their owners or go.
LEMMA OwnersStay ==
    ASSUME WaitsAreOrdered, UNCHANGED request,
           \A e \in Endpoint : row'[e] # Absent => row[e] # Absent /\ row'[e].user = row[e].user,
           TypeOK
    PROVE  WaitsAreOrdered'
<1>1. \A p \in Transactions' : p \in Transactions
  BY DEF Transactions, InTransaction
<1>2. \A p \in Transactions : request[p].endpoint \in Endpoint
  BY DEF Transactions, InTransaction, TypeOK, Storing, Idle
<1>3. ASSUME NEW p \in Transactions', NEW r \in Transactions', MayWaitFor(p, r)'
      PROVE  MayWaitFor(p, r)
  BY <1>1, <1>2, <1>3 DEF MayWaitFor
<1> QED BY <1>1, <1>3, WaitsShrink

\* One request moves, and starts no transaction.
LEMMA RequestMoves ==
    ASSUME WaitsAreOrdered, TypeOK, NEW q \in Request, NEW x \in {Idle} \cup Storing,
           request' = [request EXCEPT ![q] = x],
           \A e \in Endpoint : row'[e] # Absent =>
              \/ row[e] # Absent /\ row'[e].user = row[e].user
              \/ \A r \in Transactions' : request'[r].user # row'[e].user,
           x.pc \notin {"idle", "lock"} =>
              /\ InTransaction(q) /\ x.user = request[q].user /\ x.endpoint = request[q].endpoint
              /\ \/ x.pc \notin {"delete", "count", "create"} \/ row'[x.endpoint] = Absent
                 \/ request[q].pc \in {"delete", "count", "create"}
    PROVE  WaitsAreOrdered'
<1>1. \A p \in Request : request'[p] = IF p = q THEN x ELSE request[p]
  BY DEF TypeOK
<1>2. \A p \in Transactions' : p \in Transactions /\ request'[p].user = request[p].user
                               /\ request'[p].endpoint = request[p].endpoint
  BY <1>1 DEF Transactions, InTransaction
<1>3. \A p \in Transactions : request[p].endpoint \in Endpoint
  BY DEF Transactions, InTransaction, TypeOK, Storing, Idle
<1>4. ASSUME NEW p \in Transactions', NEW r \in Transactions', MayWaitFor(p, r)'
      PROVE  MayWaitFor(p, r)
  <2>1. /\ row'[request[p].endpoint] # Absent /\ row'[request[p].endpoint].user = request[r].user
        /\ request'[p].pc \in {"delete", "count", "create"}
    BY <1>2, <1>4 DEF MayWaitFor
  <2>2. row[request[p].endpoint] # Absent /\ row[request[p].endpoint].user = request[r].user
    BY <1>2, <1>3, <2>1
  <2>3. request[p].pc \in {"delete", "count", "create"}
    BY <1>1, <1>2, <2>1 DEF Transactions, InTransaction
  <2> QED BY <2>2, <2>3 DEF MayWaitFor
<1> QED BY <1>2, <1>4, WaitsShrink

\* A store that takes its lock waits for nobody yet, whoever comes to wait for it.
LEMMA LockOrders ==
    ASSUME WaitsAreOrdered, TypeOK, NEW q \in Request, Lock(q)
    PROVE  WaitsAreOrdered'
<1>1. /\ row' = row /\ request[q].pc = "lock"
      /\ request[q] \in Storing
      /\ request' = [request EXCEPT ![q] = [request[q] EXCEPT !.pc = "find"]]
  BY DEF Lock, Goto, TypeOK, Idle
<1>2. /\ \A p \in Request : p # q => request'[p] = request[p]
      /\ request'[q].pc = "find"
  BY <1>1 DEF TypeOK, Storing
<1> SUFFICES ASSUME NEW stores \in SUBSET Transactions', stores # {}
             PROVE  \E p \in stores : \A r \in stores : ~MayWaitFor(p, r)'
  BY DEF WaitsAreOrdered, Transactions
<1>3. CASE q \in stores
  BY <1>2, <1>3 DEF MayWaitFor
<1>4. CASE q \notin stores
  <2>1. \A p \in stores : p \in Transactions /\ request'[p] = request[p]
    BY <1>2, <1>4 DEF Transactions, InTransaction
  <2>2. PICK p \in stores : \A r \in stores : ~MayWaitFor(p, r)
    BY <2>1 DEF WaitsAreOrdered, Transactions
  <2> QED BY <1>1, <2>1, <2>2 DEF MayWaitFor
<1> QED BY <1>3, <1>4

LEMMA StoreOrders ==
    ASSUME WaitsAreOrdered, PushInv, NEW q \in Request, StoreStep(q) \/ Abort(q)
    PROVE  WaitsAreOrdered'
<1> DEFINE To(pc) == [request[q] EXCEPT !.pc = pc]
<1>1. TypeOK /\ StoresAreSerial
  BY DEF PushInv
<1>2. Idle \in {Idle} \cup Storing /\ Idle.pc = "idle"
  BY DEF Idle
<1>3. ASSUME request[q] # Idle, NEW pc \in {"lock", "find", "renew", "rotate", "delete", "count", "create"}
      PROVE  To(pc) \in Storing /\ To(pc).pc = pc /\ To(pc).user = request[q].user
             /\ To(pc).endpoint = request[q].endpoint
  BY <1>1, <1>3 DEF TypeOK, Storing
<1>4. CASE Lock(q)
  BY <1>1, <1>4, LockOrders
<1>5. CASE UNCHANGED row /\ Finish(q)
  BY <1>1, <1>2, <1>5, RequestMoves DEF Finish
<1>6. CASE FindSubscription(q)
  <2>1. row' = row /\ request[q].pc = "find" /\ request[q] # Idle
    BY <1>2, <1>6 DEF FindSubscription
  <2>2. PICK pc \in {"idle", "renew", "rotate", "delete"} :
           /\ IF pc = "idle" THEN Finish(q) ELSE request' = [request EXCEPT ![q] = To(pc)]
           /\ pc = "delete" => row[request[q].endpoint] = Absent
    BY <1>6 DEF FindSubscription, Goto
  <2>3. CASE pc = "idle"
    BY <1>5, <2>1, <2>2, <2>3
  <2>4. CASE pc # "idle"
    <3>1. request' = [request EXCEPT ![q] = To(pc)]
      BY <2>2, <2>4
    <3>2. /\ To(pc) \in Storing /\ To(pc).pc = pc /\ To(pc).user = request[q].user
          /\ To(pc).endpoint = request[q].endpoint
      BY <1>3, <2>1, <2>4
    <3>3. InTransaction(q)
      BY <2>1 DEF InTransaction
    <3> HIDE DEF To
    <3> QED BY <1>1, <2>1, <2>2, <2>4, <3>1, <3>2, <3>3, RequestMoves
  <2> QED BY <2>3, <2>4
<1>7. CASE DeleteRevoked(q)
  <2> DEFINE x == [request[q] EXCEPT !.pc = "count", !.doomed = Revoked(request[q].user)]
  <2>1. row' = row /\ request[q].pc = "delete" /\ request[q] \in Storing /\ InTransaction(q)
    BY <1>1, <1>2, <1>7 DEF DeleteRevoked, InTransaction, TypeOK
  <2>2. /\ x \in Storing /\ x.pc = "count" /\ x.user = request[q].user
        /\ x.endpoint = request[q].endpoint
    <3>1. Revoked(request[q].user) \subseteq Endpoint
      BY DEF Revoked
    <3> QED BY <2>1, <3>1 DEF Storing
  <2>3. request' = [request EXCEPT ![q] = x]
    BY <1>7 DEF DeleteRevoked
  <2> HIDE DEF x
  <2> QED BY <1>1, <2>1, <2>2, <2>3, RequestMoves
<1>8. CASE CountActive(q)
  <2>1. request[q].pc \in {"renew", "count"} /\ request[q] # Idle /\ InTransaction(q)
    BY <1>2, <1>8 DEF CountActive, InTransaction
  <2>2. CASE LimitReached(request[q].user)
    <3>1. request' = [request EXCEPT ![q] = Idle] /\ row' = Without(row, request[q].doomed)
      BY <1>8, <2>2 DEF CountActive, Finish
    <3>2. \A e \in Endpoint : row'[e] # Absent => row[e] # Absent /\ row'[e].user = row[e].user
      BY <3>1 DEF Without
    <3> QED BY <1>1, <1>2, <3>1, <3>2, RequestMoves
  <2>3. CASE ~LimitReached(request[q].user)
    <3>1. PICK pc \in {"rotate", "create"} :
             /\ request' = [request EXCEPT ![q] = To(pc)] /\ row' = row
             /\ pc = "create" => request[q].pc = "count"
      BY <1>8, <2>1, <2>3 DEF CountActive, Goto
    <3>2. /\ To(pc) \in Storing /\ To(pc).pc = pc /\ To(pc).user = request[q].user
          /\ To(pc).endpoint = request[q].endpoint
      BY <1>3, <2>1
    <3> HIDE DEF To
    <3> QED BY <1>1, <2>1, <3>1, <3>2, RequestMoves
  <2> QED BY <2>2, <2>3
<1>9. CASE Rotate(q)
  <2>1. request' = [request EXCEPT ![q] = Idle]
    BY <1>9 DEF Rotate, Finish
  <2>2. \A e \in Endpoint : row'[e] # Absent => row[e] # Absent /\ row'[e].user = row[e].user
    BY <1>1, <1>9 DEF Rotate, TypeOK
  <2> QED BY <1>1, <1>2, <2>1, <2>2, RequestMoves
<1>10. CASE Create(q)
  <2>1. request[q].pc = "create" /\ request[q] \in Storing /\ InTransaction(q)
    BY <1>1, <1>2, <1>10 DEF Create, InTransaction, TypeOK
  <2>2. CASE row[request[q].endpoint] = Absent
    <3>1. /\ request' = [request EXCEPT ![q] = Idle]
          /\ row' = [Without(row, request[q].doomed) EXCEPT ![request[q].endpoint] =
                       [status |-> "active", user |-> request[q].user]]
      BY <1>10, <2>2 DEF Create, Finish
    <3>2. \A r \in Transactions' : request'[r].user # request[q].user
      <4> SUFFICES ASSUME NEW r \in Transactions' PROVE request'[r].user # request[q].user
        OBVIOUS
      <4>1. r \in Request /\ r # q /\ request'[r] = request[r]
        BY <1>1, <1>2, <3>1 DEF Transactions, InTransaction, TypeOK
      <4> QED BY <1>1, <2>1, <4>1 DEF Transactions, InTransaction, StoresAreSerial
    <3>3. ASSUME NEW e \in Endpoint, row'[e] # Absent
          PROVE  \/ row[e] # Absent /\ row'[e].user = row[e].user
                 \/ \A r \in Transactions' : request'[r].user # row'[e].user
      <4>1. CASE e = request[q].endpoint
        BY <3>1, <3>2, <4>1 DEF Without
      <4>2. CASE e # request[q].endpoint
        BY <3>1, <3>3, <4>2 DEF Without
      <4> QED BY <4>1, <4>2
    <3> QED BY <1>1, <1>2, <3>1, <3>3, RequestMoves
  <2>3. CASE row[request[q].endpoint] # Absent
    <3>1. PICK x \in {Idle, [request[q] EXCEPT !.pc = "lock", !.doomed = {}, !.retried = TRUE]} :
             request' = [request EXCEPT ![q] = x] /\ row' = row
      BY <1>10, <2>3 DEF Create
    <3>2. x \in {Idle} \cup Storing /\ x.pc \in {"idle", "lock"}
      BY <1>2, <2>1 DEF Storing
    <3> QED BY <1>1, <3>1, <3>2, RequestMoves
  <2> QED BY <2>2, <2>3
<1>11. CASE Abort(q)
  BY <1>5, <1>11 DEF Abort
<1> QED BY <1>4, <1>6, <1>7, <1>8, <1>9, <1>10, <1>11 DEF StoreStep

LEMMA WaitsStep == PushInv /\ WaitsAreOrdered /\ [Next]_vars => WaitsAreOrdered'
<1> SUFFICES ASSUME PushInv, WaitsAreOrdered, [Next]_vars PROVE WaitsAreOrdered'
  OBVIOUS
<1>1. TypeOK
  BY DEF PushInv
<1>2. CASE UNCHANGED <<request, row>>
  BY <1>1, <1>2, OwnersStay
<1>3. ASSUME NEW endpoints, UNCHANGED request, Revoke(endpoints) PROVE WaitsAreOrdered'
  <2>1. \A e \in Endpoint : row'[e] # Absent => row[e] # Absent /\ row'[e].user = row[e].user
    BY <1>1, <1>3 DEF Revoke, TypeOK, Stored
  <2> QED BY <1>1, <1>3, <2>1, OwnersStay
<1>4. ASSUME NEW u \in User, AnonymizeAccount(u) PROVE WaitsAreOrdered'
  <2>1. \A e \in Endpoint : row'[e] # Absent => row[e] # Absent /\ row'[e].user = row[e].user
    BY <1>4 DEF AnonymizeAccount, Without
  <2>2. UNCHANGED request
    BY <1>4 DEF AnonymizeAccount
  <2> QED BY <1>1, <2>1, <2>2, OwnersStay
<1>5. ASSUME NEW b \in Browser, NEW q \in Request, Post(b, q) PROVE WaitsAreOrdered'
  <2> DEFINE x == [pc |-> "lock", user |-> browser[b].user, endpoint |-> <<b, browser[b].holds>>,
                   doomed |-> {}, retried |-> FALSE]
  <2>1. /\ request' = [request EXCEPT ![q] = x] /\ row' = row
        /\ browser[b].user \in User /\ browser[b].holds \in 1..MaxRenewals
    BY <1>1, <1>5 DEF Post, TypeOK
  <2>2. x \in Storing /\ x.pc = "lock"
    BY <2>1 DEF Storing, Endpoint
  <2> HIDE DEF x
  <2> QED BY <1>1, <2>1, <2>2, RequestMoves
<1>6. ASSUME NEW u \in User,
             \/ \E e \in Endpoint : RevokePushSubscription(u, e)
             \/ UnsubscribeFromNotifications(u) \/ RevokeInvalidPushSubscriptions(u)
      PROVE  WaitsAreOrdered'
  BY <1>3, <1>6 DEF RevokePushSubscription, UnsubscribeFromNotifications, RevokeInvalidPushSubscriptions
<1>7. ASSUME NEW u \in User, ListActivePushSubscriptions(u) \/ Send(u) PROVE WaitsAreOrdered'
  BY <1>2, <1>7 DEF ListActivePushSubscriptions, Send
<1>8. ASSUME NEW b \in Browser, (\E u \in User : SignIn(b, u)) \/ SignOut(b) \/ Subscribe(b) \/ Expire(b)
      PROVE  WaitsAreOrdered'
  BY <1>2, <1>8 DEF SignIn, SignOut, Subscribe, Expire
<1>9. CASE UNCHANGED vars
  BY <1>2, <1>9 DEF vars
<1> QED BY <1>4, <1>5, <1>6, <1>7, <1>8, <1>9, StoreOrders DEF Next

LEMMA OrderedAdvances == PushInv /\ WaitsAreOrdered => StoresAdvance
<1> SUFFICES ASSUME PushInv, WaitsAreOrdered, NEW q \in Request, request[q] # Idle
             PROVE  \E p \in Request : Ready(p)
  BY DEF StoresAdvance
<1>1. /\ \A p \in Request : request[p] = Idle \/ request[p] \in Storing
      /\ \A p \in Request : request[p] # Idle => request[p].doomed \subseteq
            IF InTransaction(p) THEN Revoked(request[p].user) ELSE {}
      /\ Idle.pc = "idle"
  BY DEF PushInv, TypeOK, DoomedIsRevoked, Idle
<1>2. CASE Transactions = {}
  <2>1. request[q].pc = "lock"
    BY <1>1, <1>2 DEF Transactions, InTransaction, Storing
  <2> QED BY <1>2, <2>1 DEF Ready, LockFree, Transactions
<1>3. CASE Transactions # {}
  <2>1. PICK p \in Transactions : \A r \in Transactions : ~MayWaitFor(p, r)
    BY <1>3 DEF WaitsAreOrdered, Transactions
  <2>2. p \in Request /\ request[p] # Idle /\ request[p].pc # "lock"
    BY <1>1 DEF Transactions, InTransaction
  <2>3. ASSUME request[p].pc = "create", NEW r \in Request \ {p}, Locked(request[p].endpoint, r)
        PROVE  FALSE
    <3>1. r \in Transactions /\ request[r] # Idle
      BY <1>1, <2>3 DEF Locked, Transactions, InTransaction
    <3>2. request[p].endpoint \in Revoked(request[r].user)
      BY <1>1, <2>3, <3>1 DEF Locked, Transactions
    <3>3. row[request[p].endpoint] = [status |-> "revoked", user |-> request[r].user]
      BY <3>2 DEF Revoked
    <3> QED BY <2>1, <2>3, <3>1, <3>3 DEF MayWaitFor, Absent
  <2> QED BY <2>2, <2>3 DEF Ready
<1> QED BY <1>2, <1>3

\* Whatever locks stores take and whichever rows they delete and create: while any are
\* in progress, one has what it waits for.  A store begins to wait only for those that
\* took their lock after it found no row of its endpoint.
THEOREM SomeStoreAdvances == Spec => []StoresAdvance
<1>1. Init => WaitsAreOrdered
  BY DEF Init, WaitsAreOrdered, InTransaction, Idle
<1> QED BY <1>1, WaitsStep, OrderedAdvances, PushInvariant, PTL DEF Spec

-----------------------------------------------------------------------------
(* PushSubscriptions implements DeviceRegistry: the locks, the retries and  *)
(* the order of a store's statements do not show, its commit does.          *)

LEMMA RegistryRows ==
    /\ Registry!Absent = Absent
    /\ \A u : Registry!Active(u) = Active(u) /\ Registry!Revoked(u) = Revoked(u)
    /\ \A gone : Registry!Without(gone) = Without(row, gone)
BY DEF Registry!Absent, Registry!Active, Registry!Revoked, Registry!Without, Absent, Active,
   Revoked, Without

Visible == Registry!Next \/ UNCHANGED <<row, stored, deleted>>

LEMMA SameCardinality == \A S : Registry!Cardinality(S) = Cardinality(S)
BY Zenon DEF Registry!Cardinality, Cardinality

LEMMA StoreSeen ==
    ASSUME TypeOK, NEW u \in User, NEW e \in Endpoint, NEW gone \in SUBSET Revoked(u),
           row[e] = Absent \/ e \in Active(u) \cup Revoked(u),
           e \in Active(u) \/ Cardinality(Active(u)) < Limit,
           row' = [Without(row, gone) EXCEPT ![e] = [status |-> "active", user |-> u]],
           stored' = [stored EXCEPT ![e] = @ \cup {u}],
           UNCHANGED deleted
    PROVE  Visible
<1>1. Registry!Store(u, e, gone)
  BY RegistryRows, SameCardinality DEF Registry!Store, Registry!Confirm
<1>2. gone \in SUBSET Endpoint
  BY DEF Revoked
<1> QED BY <1>1, <1>2 DEF Visible, Registry!Next

LEMMA RotateSeen ==
    ASSUME PushInv, NEW q \in Request, Rotate(q)
    PROVE  Visible
<1> DEFINE u == request[q].user
           e == request[q].endpoint
<1>1. /\ TypeOK /\ u \in User /\ e \in Endpoint
      /\ e \in Active(u) \/ Cardinality(Active(u)) < Limit
      /\ e \in Active(u) \cup Revoked(u) \/ u \in deleted
  BY DEF PushInv, TypeOK, StoresHaveRoom, RenewalsAreOwn, Rotate, Storing, Idle
<1>2. /\ row' = [row EXCEPT ![e] = IF @ # Absent /\ @.user = u
                                   THEN [status |-> "active", user |-> u] ELSE @]
      /\ stored' = [stored EXCEPT ![e] = @ \cup {u}] /\ UNCHANGED deleted
  BY DEF Rotate
<1> HIDE DEF u, e
<1>3. CASE row[e] # Absent /\ row[e].user = u
  <2>1. e \in Active(u) \cup Revoked(u)
    BY <1>1, <1>3 DEF TypeOK, Active, Revoked, Stored
  <2>2. row' = [Without(row, {}) EXCEPT ![e] = [status |-> "active", user |-> u]]
    BY <1>1, <1>2, <1>3 DEF Without, TypeOK
  <2>3. {} \in SUBSET Revoked(u)
    OBVIOUS
  <2> QED BY <1>1, <1>2, <2>1, <2>2, <2>3, StoreSeen
<1>4. CASE ~(row[e] # Absent /\ row[e].user = u)
  <2>1. u \in deleted
    BY <1>1, <1>4 DEF Active, Revoked, Absent
  <2>2. row' = row
    BY <1>1, <1>2, <1>4 DEF TypeOK
  <2>3. Registry!ConfirmLate(u, e)
    BY <1>2, <2>1, <2>2 DEF Registry!ConfirmLate, Registry!Confirm
  <2> QED BY <1>1, <2>3 DEF Visible, Registry!Next
<1> QED BY <1>3, <1>4

LEMMA CreateSeen ==
    ASSUME PushInv, NEW q \in Request, Create(q)
    PROVE  Visible
<1> DEFINE u == request[q].user
           e == request[q].endpoint
<1>1. request[q] \in Storing /\ request[q].pc = "create"
  BY DEF PushInv, TypeOK, Create, Idle
<1>2. /\ TypeOK /\ u \in User /\ e \in Endpoint
      /\ e \in Active(u) \/ Cardinality(Active(u)) < Limit
      /\ request[q].doomed \in SUBSET Revoked(u)
  BY <1>1 DEF PushInv, StoresHaveRoom, DoomedIsRevoked, InTransaction, Storing, Idle
<1>3. CASE row[e] = Absent
  <2>1. /\ row' = [Without(row, request[q].doomed) EXCEPT ![e] = [status |-> "active", user |-> u]]
        /\ stored' = [stored EXCEPT ![e] = @ \cup {u}] /\ UNCHANGED deleted
    BY <1>3 DEF Create
  <2> QED BY <1>2, <1>3, <2>1, StoreSeen
<1>4. CASE row[e] # Absent
  BY <1>4 DEF Create, Visible
<1> QED BY <1>3, <1>4

LEMMA CountSeen ==
    ASSUME PushInv, NEW q \in Request, CountActive(q)
    PROVE  Visible
<1> DEFINE u == request[q].user
           gone == request[q].doomed
<1>1. request[q] \in Storing /\ request[q].pc \in {"renew", "count"}
  BY DEF PushInv, TypeOK, CountActive, Idle
<1>2. u \in User /\ gone \subseteq Revoked(u)
  BY <1>1 DEF PushInv, DoomedIsRevoked, InTransaction, Storing, Idle
<1>3. CASE LimitReached(u)
  <2>1. Registry!Purge(u, gone)
    BY <1>2, <1>3, RegistryRows DEF CountActive, Registry!Purge
  <2>2. gone \in SUBSET Endpoint
    BY <1>2 DEF Revoked
  <2> QED BY <1>2, <2>1, <2>2 DEF Visible, Registry!Next
<1>4. CASE ~LimitReached(u)
  BY <1>4 DEF CountActive, Visible
<1> QED BY <1>3, <1>4

LEMMA RevokeSeen ==
    ASSUME TypeOK, NEW u \in User, NEW endpoints \in SUBSET Active(u), Revoke(endpoints),
           UNCHANGED deleted
    PROVE  Visible
<1>1. endpoints \in SUBSET Endpoint
  BY DEF Active
<1>2. row' = [e \in Endpoint |->
                IF e \in endpoints THEN [status |-> "revoked", user |-> u] ELSE row[e]]
  <2>1. ASSUME NEW e \in Endpoint, e \in endpoints
        PROVE  row[e] # Absent /\ [row[e] EXCEPT !.status = "revoked"] = [status |-> "revoked", user |-> u]
    <3>1. row[e] = [status |-> "active", user |-> u]
      BY <2>1 DEF Active
    <3> QED BY <3>1 DEF Absent
  <2> QED BY <2>1 DEF Revoke
<1>3. Registry!Revoke(u, endpoints)
  BY <1>2, RegistryRows DEF Registry!Revoke, Revoke
<1> QED BY <1>1, <1>3 DEF Visible, Registry!Next

LEMMA RegistryStep == PushInv /\ [Next]_vars => Visible
<1> SUFFICES ASSUME PushInv, [Next]_vars PROVE Visible
  OBVIOUS
<1>1. TypeOK
  BY DEF PushInv
<1>2. ASSUME NEW u \in User, AnonymizeAccount(u) PROVE Visible
  <2>1. Registry!Close(u)
    BY <1>2, RegistryRows DEF AnonymizeAccount, Registry!Close
  <2> QED BY <2>1 DEF Visible, Registry!Next
<1>3. ASSUME NEW u \in User, UnsubscribeFromNotifications(u) PROVE Visible
  BY <1>1, <1>3, RevokeSeen DEF UnsubscribeFromNotifications
<1>4. ASSUME NEW u \in User, RevokeInvalidPushSubscriptions(u) PROVE Visible
  <2>1. delivery[u].endpoints \cap Active(u) \in SUBSET Active(u)
    OBVIOUS
  <2> QED BY <1>1, <1>4, <2>1, RevokeSeen DEF RevokeInvalidPushSubscriptions
<1>5. ASSUME NEW u \in User, NEW e \in Endpoint, RevokePushSubscription(u, e) PROVE Visible
  <2>1. {e} \in SUBSET Active(u)
    BY <1>5 DEF RevokePushSubscription
  <2> QED BY <1>1, <1>5, <2>1, RevokeSeen DEF RevokePushSubscription
<1>6. ASSUME NEW q \in Request, StoreStep(q) \/ Abort(q) PROVE Visible
  BY <1>6, RotateSeen, CreateSeen, CountSeen
     DEF StoreStep, Abort, Lock, FindSubscription, DeleteRevoked, Visible
<1>7. ASSUME NEW b \in Browser,
             \/ \E u \in User : SignIn(b, u)
             \/ \E q \in Request : Post(b, q)
             \/ SignOut(b) \/ Subscribe(b) \/ Expire(b)
      PROVE  Visible
  BY <1>7 DEF SignIn, Post, SignOut, Subscribe, Expire, Visible
<1>8. ASSUME NEW u \in User, ListActivePushSubscriptions(u) \/ Send(u) PROVE Visible
  BY <1>8 DEF ListActivePushSubscriptions, Send, Visible
<1>9. CASE UNCHANGED vars
  BY <1>9 DEF vars, Visible
<1> QED BY <1>2, <1>3, <1>4, <1>5, <1>6, <1>7, <1>8, <1>9 DEF Next

\* Storing a device is atomic: whatever stores, revocations and deletions overlap, it takes
\* effect at one instant, at which the device is free or the user's own and fits the limit.
THEOREM RegistryImplemented == Spec => StoresAreAtomic
<1>1. Init => Registry!Init
  BY RegistryRows DEF Init, Registry!Init
<1>2. PushInv /\ [Next]_vars => [Registry!Next]_(Registry!registryVars)
  BY RegistryStep DEF Visible, Registry!registryVars
<1> QED BY <1>1, <1>2, PushInvariant, PTL DEF Spec, StoresAreAtomic, Registry!Spec

-----------------------------------------------------------------------------
(* What the steps contribute to a store's end: a measure of what is left of *)
(* it, which is smaller after its second attempt has begun.                 *)

StepsLeft(pc) ==
    CASE pc = "lock" -> 6 [] pc = "find" -> 5 [] pc \in {"delete", "renew"} -> 4
      [] pc = "count" -> 3 [] pc \in {"rotate", "create"} -> 2 [] OTHER -> 0
Left(r) == IF r = Idle THEN 0 ELSE StepsLeft(r.pc) + (IF r.retried THEN 0 ELSE 6)

LEMMA StepShortens ==
    ASSUME TypeOK, NEW q \in Request, StoreStep(q)
    PROVE  /\ Left(request'[q]) < Left(request[q])
           /\ \A p \in Request : p # q => request'[p] = request[p]
<1> DEFINE To(pc) == [request[q] EXCEPT !.pc = pc]
<1>1. request[q] \in Storing /\ request[q] # Idle /\ request[q].retried \in BOOLEAN
  BY DEF TypeOK, StoreStep, Lock, FindSubscription, DeleteRevoked, CountActive, Rotate, Create,
     Storing, Idle
<1>2. Left(Idle) = 0
  BY DEF Left
<1>3. Left(request[q]) > 0
  BY <1>1 DEF Left, StepsLeft, Storing
<1>4. ASSUME NEW pc \in {"find", "renew", "rotate", "delete", "count", "create"},
             request'[q].pc = pc, request'[q].retried = request[q].retried,
             StepsLeft(pc) < StepsLeft(request[q].pc)
      PROVE  Left(request'[q]) < Left(request[q])
  <2>1. request'[q] # Idle
    BY <1>4 DEF Idle
  <2>2. StepsLeft(pc) \in Nat /\ StepsLeft(request[q].pc) \in Nat
    BY DEF StepsLeft
  <2> QED BY <1>1, <1>4, <2>1, <2>2 DEF Left
<1>5. \A p \in Request : p # q => request'[p] = request[p]
  BY DEF TypeOK, StoreStep, Lock, FindSubscription, DeleteRevoked, CountActive, Rotate, Create,
     Goto, Finish
<1>6. CASE request'[q] = Idle
  BY <1>2, <1>3, <1>5, <1>6
<1>7. CASE request'[q] # Idle
  <2>1. CASE Lock(q)
    <3>1. request'[q].pc = "find" /\ request'[q].retried = request[q].retried
      BY <1>1, <2>1 DEF Lock, Goto, TypeOK, Storing
    <3> QED BY <1>4, <1>5, <2>1, <3>1 DEF Lock, StepsLeft
  <2>2. CASE FindSubscription(q)
    <3>1. /\ request'[q].pc \in {"delete", "renew", "rotate"}
          /\ request'[q].retried = request[q].retried
      BY <1>1, <1>7, <2>2 DEF FindSubscription, Goto, Finish, TypeOK, Storing
    <3> QED BY <1>4, <1>5, <2>2, <3>1 DEF FindSubscription, StepsLeft
  <2>3. CASE DeleteRevoked(q)
    <3>1. request'[q].pc = "count" /\ request'[q].retried = request[q].retried
      BY <1>1, <2>3 DEF DeleteRevoked, TypeOK, Storing
    <3>2. StepsLeft("count") < StepsLeft(request[q].pc)
      BY <2>3 DEF DeleteRevoked, StepsLeft
    <3> QED BY <1>4, <1>5, <3>1, <3>2
  <2>4. CASE CountActive(q)
    <3>1. /\ request'[q].pc \in {"rotate", "create"}
          /\ request'[q].retried = request[q].retried
      BY <1>1, <1>7, <2>4 DEF CountActive, Goto, Finish, TypeOK, Storing
    <3> QED BY <1>4, <1>5, <2>4, <3>1 DEF CountActive, StepsLeft
  <2>5. CASE Rotate(q)
    BY <1>1, <1>7, <2>5 DEF Rotate, Finish, TypeOK
  <2>6. CASE Create(q)
    <3>1. /\ ~request[q].retried /\ request[q].pc = "create"
          /\ request'[q].pc = "lock" /\ request'[q].retried
      <4>1. row[request[q].endpoint] # Absent /\ request[q].pc = "create"
        BY <1>7, <2>6 DEF Create, Finish, TypeOK
      <4>2. request' = [request EXCEPT ![q] =
                IF request[q].retried THEN Idle
                ELSE [@ EXCEPT !.pc = "lock", !.doomed = {}, !.retried = TRUE]]
        BY <2>6, <4>1 DEF Create
      <4>3. request'[q] = IF request[q].retried THEN Idle
                ELSE [request[q] EXCEPT !.pc = "lock", !.doomed = {}, !.retried = TRUE]
        BY <4>2 DEF TypeOK
      <4>4. ~request[q].retried
        BY <1>7, <4>3
      <4> QED BY <1>1, <4>1, <4>3, <4>4 DEF Storing
    <3>2. Left(request[q]) = 8 /\ Left(request'[q]) = 6
      BY <1>1, <1>7, <3>1 DEF Left, StepsLeft
    <3> QED BY <1>5, <3>2
  <2> QED BY <2>1, <2>2, <2>3, <2>4, <2>5, <2>6 DEF StoreStep
<1> QED BY <1>6, <1>7

\* A store cannot go round for ever: whoever steps, it is posted, left alone, or comes
\* nearer its end, and its own steps always bring it nearer; a lost race for the unique
\* index starts it again once only.
THEOREM StoresRunOut ==
    Spec => [][\A q \in Request :
                  /\ request'[q] = request[q] \/ request[q] = Idle
                        \/ Left(request'[q]) < Left(request[q])
                  /\ StoreStep(q) => Left(request'[q]) < Left(request[q])]_vars
<1> DEFINE Nearer ==
        \A q \in Request :
            /\ request'[q] = request[q] \/ request[q] = Idle
                  \/ Left(request'[q]) < Left(request[q])
            /\ StoreStep(q) => Left(request'[q]) < Left(request[q])
<1>1. PushInv /\ [Next]_vars => [Nearer]_vars
  <2> SUFFICES ASSUME PushInv, Next, NEW q \in Request
               PROVE  /\ request'[q] = request[q] \/ request[q] = Idle
                            \/ Left(request'[q]) < Left(request[q])
                      /\ StoreStep(q) => Left(request'[q]) < Left(request[q])
    OBVIOUS
  <2>1. TypeOK
    BY DEF PushInv
  <2>2. StoreStep(q) => Left(request'[q]) < Left(request[q])
    BY <2>1, StepShortens
  <2>3. ASSUME NEW p \in Request, StoreStep(p)
        PROVE  request'[q] = request[q] \/ Left(request'[q]) < Left(request[q])
    BY <2>1, <2>3, StepShortens
  <2>4. ASSUME NEW p \in Request, Abort(p)
        PROVE  request'[q] = request[q] \/ Left(request'[q]) < Left(request[q])
    <3>1. CASE p # q
      BY <2>1, <2>4, <3>1 DEF Abort, Finish, TypeOK
    <3>2. CASE p = q
      <4>1. request'[q] = Idle /\ request[q] # Idle /\ request[q] \in Storing
        BY <2>1, <2>4, <3>2 DEF Abort, Finish, TypeOK
      <4> QED BY <4>1 DEF Left, StepsLeft, Storing
    <3> QED BY <3>1, <3>2
  <2>5. ASSUME NEW b \in Browser, NEW p \in Request, Post(b, p)
        PROVE  request'[q] = request[q] \/ request[q] = Idle
    BY <2>1, <2>5 DEF Post, TypeOK
  <2>6. \/ \E p \in Request : StoreStep(p) \/ Abort(p)
        \/ \E b \in Browser, p \in Request : Post(b, p)
        \/ UNCHANGED request
    BY DEF Next, SignIn, SignOut, Subscribe, Expire, RevokePushSubscription,
       UnsubscribeFromNotifications, AnonymizeAccount, ListActivePushSubscriptions, Send,
       RevokeInvalidPushSubscriptions
  <2> QED BY <2>2, <2>3, <2>4, <2>5, <2>6
<1> HIDE DEF Nearer
<1>2. Spec => [][Nearer]_vars
  BY <1>1, PushInvariant, PTL DEF Spec
<1> QED BY <1>2 DEF Nearer
=============================================================================
