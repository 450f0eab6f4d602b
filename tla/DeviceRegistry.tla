---------------------------- MODULE DeviceRegistry ----------------------------
(***************************************************************************)
(* What the server promises about the devices it notifies, without locks,  *)
(* transactions or retries: a device is stored in one step, for one user,  *)
(* within the user's limit and at nobody's expense; what is stored stays   *)
(* until its user, the account's deletion or a clean-up ends it.           *)
(***************************************************************************)
EXTENDS Integers, FiniteSets

CONSTANTS User, Endpoint, Limit

VARIABLES
    device,      \* per endpoint: absent, or its status and user
    confirmed,   \* per endpoint: the users who were told that it is stored
    closed       \* users whose account is gone

registryVars == <<device, confirmed, closed>>

Absent == [status |-> "absent"]
Active(u) == {e \in Endpoint : device[e] = [status |-> "active", user |-> u]}
Revoked(u) == {e \in Endpoint : device[e] = [status |-> "revoked", user |-> u]}

Init ==
    /\ device = [e \in Endpoint |-> Absent]
    /\ confirmed = [e \in Endpoint |-> {}]
    /\ closed = {}

Confirm(u, e) == confirmed' = [confirmed EXCEPT ![e] = @ \cup {u}]
Without(gone) == [e \in Endpoint |-> IF e \in gone THEN Absent ELSE device[e]]

\* A device that is free or the user's own, and for which there is room; revoked
\* ones of the same user may go.
Store(u, e, gone) ==
    /\ device[e] = Absent \/ e \in Active(u) \cup Revoked(u)
    /\ e \in Active(u) \/ Cardinality(Active(u)) < Limit
    /\ gone \subseteq Revoked(u)
    /\ device' = [Without(gone) EXCEPT ![e] = [status |-> "active", user |-> u]]
    /\ Confirm(u, e)
    /\ UNCHANGED closed

\* An account that was deleted meanwhile is answered all the same.
ConfirmLate(u, e) ==
    /\ u \in closed
    /\ Confirm(u, e)
    /\ UNCHANGED <<device, closed>>

Purge(u, gone) ==
    /\ gone \subseteq Revoked(u)
    /\ device' = Without(gone)
    /\ UNCHANGED <<confirmed, closed>>

Revoke(u, endpoints) ==
    /\ endpoints \subseteq Active(u)
    /\ device' = [e \in Endpoint |->
          IF e \in endpoints THEN [status |-> "revoked", user |-> u] ELSE device[e]]
    /\ confirmed' = [e \in Endpoint |-> IF e \in endpoints THEN {} ELSE confirmed[e]]
    /\ UNCHANGED closed

Close(u) ==
    /\ device' = Without(Active(u) \cup Revoked(u))
    /\ closed' = closed \cup {u}
    /\ UNCHANGED confirmed

Next ==
    \E u \in User :
        \/ \E e \in Endpoint : ConfirmLate(u, e)
        \/ \E gone \in SUBSET Endpoint :
              \/ Purge(u, gone) \/ Revoke(u, gone)
              \/ \E e \in Endpoint : Store(u, e, gone)
        \/ Close(u)

Spec == Init /\ [][Next]_registryVars
=============================================================================
