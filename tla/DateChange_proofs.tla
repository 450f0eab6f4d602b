-------------------------- MODULE DateChange_proofs --------------------------
(***************************************************************************)
(* Proofs about DateChange, for every number of followers, sweeping        *)
(* processes, instants and revisions.                                      *)
(***************************************************************************)
EXTENDS DateChange, TLAPS

\* The tables after one of their entries changed.
WithSweep(s, process) == [sweep EXCEPT ![s] = process]
WithJob(w, r, j) == [job EXCEPT ![w][r] = j]
WithStatus(w, r, status) == [row EXCEPT ![w][r].status = status]

LEMMA OpenRecords ==
    ASSUME TypeOK
    PROVE  /\ \A r \in Revision : revision[r].changeStatus # "NONE" => revision[r] \in Proposed
           /\ \A s \in Sweeper : sweep[s].pc = "next" => sweep[s] \in Sweeping
           /\ \A s \in Sweeper : sweep[s].pc = "planning" => sweep[s] \in Planning
           /\ \A w \in Watchlist, r \in Revision : job[w][r].pc # "idle" => job[w][r] \in Hydration
           /\ parser # Idle => parser \in [pc : {"loaded"}, old : Dates, new : Instant]
<1>1. Idle.pc = "idle" /\ NotProposed.changeStatus = "NONE"
  BY DEF Idle, NotProposed
<1> QED BY <1>1 DEF TypeOK, Sweeping, Planning, Proposed

LEMMA StartIsHydration ==
    ASSUME NEW r \in Revision, NEW at \in Time, NEW accepted \in BOOLEAN
    PROVE  /\ Start(r, at, accepted) \in Hydration
           /\ Start(r, at, accepted).pc = "revision"
           /\ Start(r, at, accepted).revision = r
           /\ Holds(Start(r, at, accepted))
BY DEF Start, Hydration, Holds, NotProposed, Dates

\* A read keeps the hydration's revision, finds what the tables hold, and ends
\* with the look at later revisions.
LEMMA ReadTakesNext ==
    ASSUME TypeOK, NEW h \in Hydration, h.pc # "ready", Holds(h)
    PROVE  /\ Read(h) \in Hydration
           /\ Read(h).revision = h.revision
           /\ Read(h).pc # "idle"
           /\ Holds(Read(h))
           /\ Read(h).pc = "ready" => /\ h.pc = "latest"
                                      /\ Read(h).read = h.read
                                      /\ Read(h).newer <=> LatestApproved \ {h.revision} # {}
<1>1. CASE h.pc = "revision"
  <2>1. Read(h) = [h EXCEPT !.pc = "window", !.read = revision[h.revision]]
    BY <1>1 DEF Read
  <2>2. revision[h.revision] \in {NotProposed} \cup Proposed
    BY DEF TypeOK, Hydration
  <2> QED BY <2>1, <2>2 DEF Hydration, Holds
<1>2. CASE h.pc = "window"
  <2>1. Read(h) = [h EXCEPT !.pc = "pending", !.canonical = published]
    BY <1>2 DEF Read
  <2> QED BY <2>1 DEF Hydration, Holds, TypeOK
<1>3. CASE h.pc = "pending"
  <2>1. Read(h) = [h EXCEPT !.pc = "latest", !.unresolved = Pending \ {h.revision} # {}]
    BY <1>3 DEF Read
  <2> QED BY <2>1 DEF Hydration, Holds
<1>4. CASE h.pc = "latest"
  <2>1. Read(h) = [h EXCEPT !.pc = "ready", !.newer = LatestApproved \ {h.revision} # {}]
    BY <1>4 DEF Read
  <2> QED BY <1>4, <2>1 DEF Hydration, Holds
<1> QED BY <1>1, <1>2, <1>3, <1>4 DEF Hydration

\* An approved revision that no other latest one follows is the latest.
LEMMA SoleLatest ==
    ASSUME TypeOK, DecisionsOrdered, NEW r \in Approved, LatestApproved \ {r} = {}
    PROVE  /\ LatestApproved = {r}
           /\ \A q \in Approved : revision[q].decision <= revision[r].decision
BY DEF DecisionsOrdered, LatestApproved

LEMMA DateChangeInit == Init => DateChangeInv
<1> SUFFICES ASSUME Init PROVE DateChangeInv
  OBVIOUS
<1>1. Idle.pc = "idle" /\ NotProposed.changeStatus = "NONE"
  BY DEF Idle, NotProposed
<1>2. /\ \A r \in Revision : revision[r] = NotProposed
      /\ \A s \in Sweeper : sweep[s] = Idle
      /\ \A w \in Watchlist, r \in Revision :
            job[w][r] = Idle /\ row[w][r] = [status |-> "NONE", scheduledFor |-> 0]
  BY DEF Init
<1>3. Approved = {} /\ LatestApproved = {}
  BY <1>1, <1>2 DEF Approved, LatestApproved
<1>4. TypeOK
  <2>1. 0 \in Time /\ 0 \in 0..MaxEdits
    BY DateChangeAssumption DEF Time
  <2>2. row \in [Watchlist -> [Revision -> Row]]
    BY <2>1 DEF Init, Row
  <2>3. follower \in [Watchlist -> [eligible : BOOLEAN, since : Nat]]
    <3>1. ASSUME NEW E, NEW S, E \subseteq BOOLEAN, S \subseteq Nat,
                 follower \in [Watchlist -> [eligible : E, since : S]]
          PROVE  follower \in [Watchlist -> [eligible : BOOLEAN, since : Nat]]
      BY <3>1
    <3>2. {TRUE} \subseteq BOOLEAN /\ {0, 1} \subseteq Nat
      OBVIOUS
    <3> QED BY <3>1, <3>2 DEF Init
  <2> QED BY <2>1, <2>2, <2>3 DEF Init, TypeOK
<1>5. CatalogueIsCurrent /\ PlannedIsLatest /\ DecisionsOrdered
  BY <1>1, <1>2, <1>3 DEF CatalogueIsCurrent, PlannedIsLatest, DecisionsOrdered
<1>6. OnePlanner /\ ReadsHold /\ RowsAreApproved
  BY <1>1, <1>2 DEF OnePlanner, ReadsHold, RowsAreApproved
<1> QED BY <1>4, <1>5, <1>6 DEF DateChangeInv

-----------------------------------------------------------------------------
(* The catalogue's steps leave sweeps and deliveries alone.                 *)

\* Decisions are final: what was approved stays as it was.
LEMMA CatalogueFrame ==
    ASSUME DateChangeInv,
           \A r \in Approved : r \in Approved' /\ revision'[r] = revision[r],
           UNCHANGED <<row, sweep, job>>
    PROVE  PlannedIsLatest' /\ OnePlanner' /\ ReadsHold' /\ RowsAreApproved'
<1>0. TypeOK /\ PlannedIsLatest /\ OnePlanner /\ ReadsHold /\ RowsAreApproved
  BY DEF DateChangeInv
<1>1. PlannedIsLatest'
  <2>1. ASSUME NEW s \in Sweeper, sweep[s].pc = "planning", sweep[s].hydration.pc = "ready",
               ~sweep[s].hydration.newer, sweep[s].hydration.read.changeStatus = "APPROVED",
               NEW w \in Watchlist, NEW q \in Approved',
               revision'[q].decision > sweep[s].hydration.read.decision
        PROVE  row[w][q].status = "NONE"
    <3>1. CASE q \in Approved
      BY <1>0, <2>1, <3>1 DEF PlannedIsLatest
    <3>2. CASE q \notin Approved
      BY <1>0, <3>2 DEF RowsAreApproved, Approved
    <3> QED BY <3>1, <3>2
  <2> QED BY <2>1 DEF PlannedIsLatest
<1>2. ASSUME NEW h \in Hydration, Holds(h)
      PROVE  Holds(h)'
  BY <1>2 DEF Holds, Approved, Hydration
<1>3. ReadsHold'
  <2>1. ASSUME NEW s \in Sweeper, sweep[s].pc = "planning"
        PROVE  Holds(sweep[s].hydration)'
    <3>1. sweep[s].hydration \in Hydration /\ Holds(sweep[s].hydration)
      BY <1>0, <2>1, OpenRecords DEF ReadsHold, Planning
    <3> QED BY <3>1 DEF Holds, Approved, Hydration
  <2>2. ASSUME NEW w \in Watchlist, NEW r \in Revision, job[w][r].pc # "idle"
        PROVE  Holds(job[w][r])'
    <3>1. job[w][r] \in Hydration /\ Holds(job[w][r])
      BY <1>0, <2>2, OpenRecords DEF ReadsHold
    <3> QED BY <3>1 DEF Holds, Approved, Hydration
  <2> QED BY <2>1, <2>2 DEF ReadsHold
<1>4. OnePlanner'
  BY <1>0 DEF OnePlanner
<1>5. RowsAreApproved'
  BY <1>0 DEF RowsAreApproved
<1> QED BY <1>1, <1>3, <1>4, <1>5

LEMMA CreateKeeps ==
    ASSUME DateChangeInv, CreateRevision
    PROVE  DateChangeInv'
<1>0. TypeOK /\ CatalogueIsCurrent /\ DecisionsOrdered
  BY DEF DateChangeInv
<1>1. parser \in [pc : {"loaded"}, old : Dates, new : Instant]
  BY <1>0, OpenRecords DEF CreateRevision
<1>2. CASE revision' = revision
  <2>1. TypeOK'
    BY <1>0, <1>2 DEF TypeOK, CreateRevision, people
  <2>2. Approved' = Approved /\ LatestApproved' = LatestApproved
    BY <1>2 DEF Approved, LatestApproved
  <2>3. CatalogueIsCurrent' /\ DecisionsOrdered'
    BY <1>0, <1>2, <2>2 DEF CatalogueIsCurrent, DecisionsOrdered, CreateRevision
  <2>4. PlannedIsLatest' /\ OnePlanner' /\ ReadsHold' /\ RowsAreApproved'
    BY <1>2, <2>2, CatalogueFrame DEF CreateRevision
  <2> QED BY <2>1, <2>3, <2>4 DEF DateChangeInv
<1>3. ASSUME NEW new \in Revision,
             \A q \in Revision : revision[q].changeStatus = "NONE" <=> q >= new,
             revision' = [r \in Revision |->
                IF r = new
                THEN [changeStatus |-> "PENDING", old |-> parser.old, new |-> parser.new,
                      hasConflict |-> Pending # {}, reviewedAt |-> 0, decision |-> 0]
                ELSE IF r \in Pending THEN [revision[r] EXCEPT !.hasConflict = TRUE]
                ELSE revision[r]]
      PROVE  DateChangeInv'
  <2>1. revision[new].changeStatus = "NONE"
    BY <1>3 DEF Revision
  <2>2. revision' \in [Revision -> {NotProposed} \cup Proposed]
    <3>1. ASSUME NEW r \in Revision
          PROVE  revision'[r] \in {NotProposed} \cup Proposed
      <4>1. CASE r = new
        <5>1. 0 \in Time
          BY DateChangeAssumption DEF Time
        <5> QED BY <1>1, <1>3, <4>1, <5>1 DEF Proposed
      <4>2. CASE r # new /\ r \in Pending
        <5>1. revision[r] \in Proposed
          BY <1>0, <4>2, OpenRecords DEF Pending
        <5> QED BY <1>3, <4>2, <5>1 DEF Proposed
      <4>3. CASE r # new /\ r \notin Pending
        BY <1>0, <1>3, <4>3 DEF TypeOK
      <4> QED BY <4>1, <4>2, <4>3
    <3> QED BY <1>3, <3>1
  <2>3. TypeOK'
    BY <1>0, <2>2 DEF TypeOK, CreateRevision, people
  <2>4. \A r \in Revision : revision[r].changeStatus \in {"APPROVED", "REJECTED"} =>
           revision'[r] = revision[r]
    BY <1>3, <2>1 DEF Pending
  <2>5. \A r \in Revision : revision'[r].changeStatus \in {"APPROVED", "REJECTED"} =>
           revision'[r] = revision[r]
    <3>1. ASSUME NEW r \in Revision, r \in Pending, r # new
          PROVE  revision'[r].changeStatus = "PENDING"
      <4>1. revision[r] \in Proposed /\ revision[r].changeStatus = "PENDING"
        BY <1>0, <3>1, OpenRecords DEF Pending
      <4> QED BY <1>3, <3>1, <4>1 DEF Proposed
    <3> QED BY <1>3, <3>1
  <2>6. Approved' = Approved
    BY <2>4, <2>5 DEF Approved
  <2>7. LatestApproved' = LatestApproved
    BY <2>4, <2>6 DEF LatestApproved, Approved
  <2>8. CatalogueIsCurrent' /\ DecisionsOrdered'
    BY <1>0, <2>4, <2>5, <2>6, <2>7
       DEF CatalogueIsCurrent, DecisionsOrdered, CreateRevision, LatestApproved, Approved
  <2>9. PlannedIsLatest' /\ OnePlanner' /\ ReadsHold' /\ RowsAreApproved'
    BY <2>4, <2>6, CatalogueFrame DEF CreateRevision, Approved
  <2> QED BY <2>3, <2>8, <2>9 DEF DateChangeInv
<1> QED BY <1>2, <1>3 DEF CreateRevision

\* A decision takes the next number; the revision it is of was pending.
LEMMA DecideIsNext ==
    ASSUME TypeOK, NEW r \in Revision, r \in Pending, NEW status \in {"APPROVED", "REJECTED"},
           Decide(r, status)
    PROVE  /\ revision' \in [Revision -> {NotProposed} \cup Proposed]
           /\ decisions' = decisions + 1 /\ decisions \in Nat
           /\ \A q \in Revision : q # r => revision'[q] = revision[q]
           /\ revision'[r].changeStatus = status
           /\ revision'[r].decision = decisions + 1
           /\ revision'[r].new = revision[r].new
           /\ r \notin Approved
<1>1. revision[r] \in Proposed /\ revision[r].changeStatus = "PENDING"
  BY OpenRecords DEF Pending
<1> DEFINE conflict == status = "REJECTED" /\ revision[r].hasConflict
           decided == [revision[r] EXCEPT !.changeStatus = status, !.hasConflict = conflict,
                          !.reviewedAt = now, !.decision = decisions + 1]
<1>2. revision' = [revision EXCEPT ![r] = decided]
  BY DEF Decide
<1>3. decided \in Proposed /\ decided.changeStatus = status
      /\ decided.decision = decisions + 1 /\ decided.new = revision[r].new
  <2>1. conflict \in BOOLEAN
    OBVIOUS
  <2>2. now \in Time /\ decisions + 1 \in Nat
    BY DEF TypeOK
  <2> HIDE DEF conflict
  <2> QED BY <1>1, <2>1, <2>2 DEF Proposed
<1>4. decisions' = decisions + 1 /\ decisions \in Nat
  BY DEF TypeOK, Decide
<1> HIDE DEF decided
<1>5. revision' \in [Revision -> {NotProposed} \cup Proposed]
  BY <1>2, <1>3 DEF TypeOK
<1>6. revision'[r] = decided /\ \A q \in Revision : q # r => revision'[q] = revision[q]
  BY <1>2 DEF TypeOK
<1> QED BY <1>1, <1>3, <1>4, <1>5, <1>6 DEF Approved

LEMMA ApproveKeeps ==
    ASSUME DateChangeInv, NEW r \in Revision, Approve(r)
    PROVE  DateChangeInv'
<1>0. TypeOK /\ CatalogueIsCurrent /\ DecisionsOrdered
  BY DEF DateChangeInv
<1>1. r \in Pending /\ Decide(r, "APPROVED")
  BY DEF Approve
<1>2. /\ revision' \in [Revision -> {NotProposed} \cup Proposed]
      /\ decisions' = decisions + 1 /\ decisions \in Nat
      /\ \A q \in Revision : q # r => revision'[q] = revision[q]
      /\ revision'[r].changeStatus = "APPROVED"
      /\ revision'[r].decision = decisions + 1
      /\ revision'[r].new = revision[r].new
      /\ r \notin Approved
  BY <1>0, <1>1, DecideIsNext
<1>3. TypeOK'
  <2>1. published' \in Dates
    <3>1. revision[r] \in Proposed
      BY <1>0, <1>1, OpenRecords DEF Pending
    <3> QED BY <3>1 DEF Approve, Proposed, Dates
  <2> QED BY <1>0, <1>2, <2>1 DEF TypeOK, Approve, people
<1>4. Approved' = Approved \cup {r}
  BY <1>2 DEF Approved
<1>5. \A q \in Approved : revision'[q] = revision[q] /\ revision[q].decision \in 1..decisions
  BY <1>0, <1>2 DEF DecisionsOrdered, Approved
<1>6. LatestApproved' = {r}
  BY <1>2, <1>4, <1>5 DEF LatestApproved
<1>7. CatalogueIsCurrent'
  BY <1>2, <1>6 DEF CatalogueIsCurrent, Approve
<1>8. DecisionsOrdered'
  <2>1. \A q \in Revision : revision'[q].changeStatus \in {"APPROVED", "REJECTED"} =>
           revision'[q].decision \in 1..decisions'
    BY <1>0, <1>2 DEF DecisionsOrdered
  <2>2. \A p, q \in Approved' : revision'[p].decision = revision'[q].decision => p = q
    BY <1>0, <1>2, <1>4, <1>5 DEF DecisionsOrdered
  <2> QED BY <1>6, <2>1, <2>2 DEF DecisionsOrdered
<1>9. PlannedIsLatest' /\ OnePlanner' /\ ReadsHold' /\ RowsAreApproved'
  BY <1>4, <1>5, CatalogueFrame DEF Approve
<1> QED BY <1>3, <1>7, <1>8, <1>9 DEF DateChangeInv

LEMMA RejectKeeps ==
    ASSUME DateChangeInv, NEW r \in Revision, Reject(r)
    PROVE  DateChangeInv'
<1>0. TypeOK /\ CatalogueIsCurrent /\ DecisionsOrdered
  BY DEF DateChangeInv
<1>1. /\ revision' \in [Revision -> {NotProposed} \cup Proposed]
      /\ decisions' = decisions + 1 /\ decisions \in Nat
      /\ \A q \in Revision : q # r => revision'[q] = revision[q]
      /\ revision'[r].changeStatus = "REJECTED"
      /\ revision'[r].decision = decisions + 1
      /\ r \notin Approved
  BY <1>0, DecideIsNext DEF Reject
<1>2. TypeOK'
  BY <1>0, <1>1 DEF TypeOK, Reject, people
<1>3. Approved' = Approved /\ \A q \in Approved : revision'[q] = revision[q]
  BY <1>1 DEF Approved
<1>4. LatestApproved' = LatestApproved
  BY <1>3 DEF LatestApproved
<1>5. CatalogueIsCurrent'
  BY <1>0, <1>3, <1>4 DEF CatalogueIsCurrent, LatestApproved, Reject
<1>6. DecisionsOrdered'
  <2>1. \A q \in Revision : revision'[q].changeStatus \in {"APPROVED", "REJECTED"} =>
           revision'[q].decision \in 1..decisions'
    BY <1>0, <1>1 DEF DecisionsOrdered
  <2> QED BY <1>0, <1>3, <1>4, <2>1 DEF DecisionsOrdered
<1>7. PlannedIsLatest' /\ OnePlanner' /\ ReadsHold' /\ RowsAreApproved'
  BY <1>3, CatalogueFrame DEF Reject
<1> QED BY <1>2, <1>5, <1>6, <1>7 DEF DateChangeInv

-----------------------------------------------------------------------------
(* The sweep's steps leave the catalogue alone, all but the plan the rows.  *)

LEMMA TablesFrame ==
    ASSUME DateChangeInv, UNCHANGED catalogue
    PROVE  /\ CatalogueIsCurrent' /\ DecisionsOrdered'
           /\ Approved' = Approved /\ LatestApproved' = LatestApproved
           /\ \A h : Holds(h) => Holds(h)'
<1>1. Approved' = Approved /\ LatestApproved' = LatestApproved
  BY DEF catalogue, Approved, LatestApproved
<1>2. CatalogueIsCurrent' /\ DecisionsOrdered'
  BY <1>1 DEF DateChangeInv, CatalogueIsCurrent, DecisionsOrdered, catalogue
<1>3. revision' = revision
  BY DEF catalogue
<1> QED BY <1>1, <1>2, <1>3 DEF Holds

\* A process that is not planning, or reads on under the lock it holds.
LEMMA SweepFrame ==
    ASSUME DateChangeInv, NEW s \in Sweeper, NEW process, process \in {Idle} \cup Sweeping \cup Planning,
           sweep' = WithSweep(s, process),
           process.pc = "planning" =>
              /\ Holds(process.hydration)
              /\ \A t \in Sweeper : sweep[t].pc = "planning" => t = s
              /\ process.hydration.pc = "ready" =>
                    (process.hydration.newer <=> LatestApproved \ {process.hydration.revision} # {}),
           UNCHANGED <<now, catalogue, people, row, job, sent>>
    PROVE  DateChangeInv'
<1>0. TypeOK /\ PlannedIsLatest /\ DecisionsOrdered /\ OnePlanner /\ ReadsHold /\ RowsAreApproved
  BY DEF DateChangeInv
<1>1. /\ CatalogueIsCurrent' /\ DecisionsOrdered'
      /\ Approved' = Approved /\ LatestApproved' = LatestApproved
      /\ \A h : Holds(h) => Holds(h)'
  BY TablesFrame
<1>2. /\ \A t \in Sweeper : sweep'[t] = IF t = s THEN process ELSE sweep[t]
      /\ sweep' \in [Sweeper -> {Idle} \cup Sweeping \cup Planning]
  BY <1>0 DEF TypeOK, WithSweep
<1>3. TypeOK'
  BY <1>0, <1>2 DEF TypeOK, catalogue, people
<1>4. OnePlanner'
  BY <1>0, <1>2 DEF OnePlanner
<1>5. ReadsHold'
  BY <1>0, <1>1, <1>2 DEF ReadsHold
<1>6. RowsAreApproved'
  BY <1>0, <1>1 DEF RowsAreApproved
<1>7. PlannedIsLatest'
  <2>1. ASSUME NEW t \in Sweeper, sweep'[t].pc = "planning", sweep'[t].hydration.pc = "ready",
               ~sweep'[t].hydration.newer, sweep'[t].hydration.read.changeStatus = "APPROVED",
               NEW w \in Watchlist, NEW q \in Approved',
               revision'[q].decision > sweep'[t].hydration.read.decision
        PROVE  row'[w][q].status = "NONE"
    <3>1. CASE t # s
      BY <1>0, <1>1, <1>2, <2>1, <3>1 DEF PlannedIsLatest, catalogue
    <3>2. CASE t = s
      <4> DEFINE h == process.hydration
      <4>1. process.pc = "planning" /\ h.pc = "ready" /\ ~h.newer
            /\ h.read.changeStatus = "APPROVED" /\ revision[q].decision > h.read.decision
        BY <1>2, <2>1, <3>2 DEF catalogue
      <4>2. process \in Planning /\ h \in Hydration
        <5>1. Idle.pc = "idle"
          BY DEF Idle
        <5> QED BY <4>1, <5>1 DEF Sweeping, Planning
      <4>3. h.read = revision[h.revision] /\ h.revision \in Approved
        BY <4>1, <4>2 DEF Holds, Approved, Hydration
      <4>4. LatestApproved \ {h.revision} = {}
        BY <4>1
      <4>5. revision[q].decision <= revision[h.revision].decision
        BY <1>0, <1>1, <2>1, <4>3, <4>4, SoleLatest
      <4>6. revision[q].decision \in Nat /\ revision[h.revision].decision \in Nat
        BY <1>0, <1>1, <2>1, <4>3 DEF DecisionsOrdered, Approved
      <4> QED BY <4>1, <4>3, <4>5, <4>6
    <3> QED BY <3>1, <3>2
  <2> QED BY <2>1 DEF PlannedIsLatest
<1> QED BY <1>1, <1>3, <1>4, <1>5, <1>6, <1>7 DEF DateChangeInv

LEMMA StartSweepKeeps ==
    ASSUME DateChangeInv, NEW s \in Sweeper, StartSweep(s)
    PROVE  DateChangeInv'
<1> DEFINE process == [pc |-> "next", at |-> now, todo |-> Listed(now)]
<1>1. Listed(now) \subseteq Revision
  BY DEF Listed, Scanned, Approved
<1>2. now \in Time
  BY DEF DateChangeInv, TypeOK
<1>3. process \in Sweeping /\ process.pc # "planning"
  BY <1>1, <1>2 DEF Sweeping
<1>4. sweep' = WithSweep(s, process)
  BY DEF StartSweep, WithSweep
<1> HIDE DEF process
<1> QED BY <1>3, <1>4, SweepFrame DEF StartSweep

LEMMA PlanNextKeeps ==
    ASSUME DateChangeInv, NEW s \in Sweeper, PlanNext(s)
    PROVE  DateChangeInv'
<1>0. sweep[s] \in Sweeping
  BY OpenRecords DEF DateChangeInv, PlanNext
<1>1. PICK r \in sweep[s].todo :
         sweep' = [sweep EXCEPT ![s] =
            [pc |-> "planning", at |-> sweep[s].at, todo |-> sweep[s].todo \ {r},
             hydration |-> Start(r, sweep[s].at, TRUE)]]
  BY DEF PlanNext
<1> DEFINE process == [pc |-> "planning", at |-> sweep[s].at, todo |-> sweep[s].todo \ {r},
                       hydration |-> Start(r, sweep[s].at, TRUE)]
<1>2. /\ Start(r, sweep[s].at, TRUE) \in Hydration
      /\ Start(r, sweep[s].at, TRUE).pc = "revision"
      /\ Holds(Start(r, sweep[s].at, TRUE))
  BY <1>0, StartIsHydration DEF Sweeping
<1>3. process \in Planning /\ process.hydration = Start(r, sweep[s].at, TRUE)
  BY <1>0, <1>2 DEF Sweeping, Planning
<1>4. \A t \in Sweeper : sweep[t].pc # "planning"
  BY DEF PlanNext, PlannerFree, LockFree
<1>5. sweep' = WithSweep(s, process)
  BY <1>1 DEF WithSweep
<1> HIDE DEF process
<1> QED BY <1>2, <1>3, <1>4, <1>5, SweepFrame DEF PlanNext

LEMMA HydratePlanKeeps ==
    ASSUME DateChangeInv, NEW s \in Sweeper, HydratePlan(s)
    PROVE  DateChangeInv'
<1>0. TypeOK /\ OnePlanner /\ ReadsHold
  BY DEF DateChangeInv
<1> DEFINE h == sweep[s].hydration
           process == [sweep[s] EXCEPT !.hydration = Read(h)]
<1>1. sweep[s] \in Planning /\ h \in Hydration /\ h.pc # "ready" /\ Holds(h)
      /\ sweep[s].pc = "planning"
  BY <1>0, OpenRecords DEF HydratePlan, ReadsHold, Planning
<1>2. /\ Read(h) \in Hydration /\ Read(h).revision = h.revision /\ Holds(Read(h))
      /\ Read(h).pc = "ready" => (Read(h).newer <=> LatestApproved \ {h.revision} # {})
  BY <1>0, <1>1, ReadTakesNext
<1>3. process \in Planning /\ process.hydration = Read(h)
  BY <1>1, <1>2 DEF Planning
<1>4. sweep' = WithSweep(s, process)
  BY DEF HydratePlan, WithSweep
<1>5. \A t \in Sweeper : sweep[t].pc = "planning" => t = s
  BY <1>0, <1>1 DEF OnePlanner
<1> HIDE DEF process, h
<1> QED BY <1>2, <1>3, <1>4, <1>5, SweepFrame DEF HydratePlan

LEMMA SweepEndKeeps ==
    ASSUME DateChangeInv, NEW s \in Sweeper, EndSweep(s) \/ SweepError(s)
    PROVE  DateChangeInv'
<1>1. Idle.pc # "planning"
  BY DEF Idle
<1>2. sweep' = WithSweep(s, Idle) /\ UNCHANGED <<now, catalogue, people, row, job, sent>>
  BY DEF EndSweep, SweepError, WithSweep
<1>3. Idle \in {Idle} \cup Sweeping \cup Planning
  OBVIOUS
<1> QED BY <1>1, <1>2, <1>3, SweepFrame

\* Who plans a revision, and what rows the plan leaves.
LEMMA PlanOutcome ==
    ASSUME DateChangeInv, NEW s \in Sweeper, CommitPlan(s), NEW w \in Watchlist, NEW q \in Revision
    PROVE  /\ row'[w][q] \in Row
           /\ row[w][q].status \notin {"NONE", "SCHEDULED"} => row'[w][q] = row[w][q]
           /\ row'[w][q].status # "NONE" => q \in Approved
           /\ q \in LatestApproved => row'[w][q] = row[w][q] \/ row'[w][q].status = "SCHEDULED"
<1>0. TypeOK /\ DecisionsOrdered /\ PlannedIsLatest /\ ReadsHold /\ RowsAreApproved
  BY DEF DateChangeInv
<1> DEFINE h == sweep[s].hydration
<1>1. sweep[s] \in Planning /\ h \in Hydration /\ Holds(h) /\ sweep[s].pc = "planning"
      /\ h.pc = "ready"
  BY <1>0, OpenRecords DEF CommitPlan, ReadsHold, Planning
<1>2. row[w][q] \in Row /\ (row[w][q].status # "NONE" => q \in Approved)
  BY <1>0 DEF TypeOK, RowsAreApproved
<1>3. CASE row' = row
  BY <1>2, <1>3
<1>4. CASE h.read.changeStatus = "APPROVED" /\ ~h.newer
  <2>1. row'[w][q] = IF q = h.revision THEN Planned(w, h, row[w][q]) ELSE Withdrawn(row[w][q])
    BY <1>4 DEF CommitPlan
  <2>2. h.revision \in Approved /\ h.read = revision[h.revision]
    BY <1>1, <1>4 DEF Holds, Approved, Hydration
  <2>3. CASE q = h.revision
    <3>1. \/ row'[w][q] = row[w][q]
          \/ /\ row'[w][q] = [status |-> "SCHEDULED", scheduledFor |-> h.at]
             /\ row[w][q].status = "NONE"
      BY <2>1, <2>3 DEF Planned
    <3>2. h.at \in Time
      BY <1>1 DEF Hydration
    <3> QED BY <1>2, <2>2, <2>3, <3>1, <3>2 DEF Row
  <2>4. CASE q # h.revision
    <3>1. row'[w][q] = Withdrawn(row[w][q])
      BY <2>1, <2>4
    <3>2. q \in LatestApproved => row[w][q].status = "NONE"
      <4>1. SUFFICES ASSUME q \in LatestApproved PROVE row[w][q].status = "NONE"
        OBVIOUS
      <4>2. q \in Approved /\ revision[h.revision].decision <= revision[q].decision
        BY <2>2, <4>1 DEF LatestApproved
      <4>3. revision[h.revision].decision # revision[q].decision
        BY <1>0, <2>2, <2>4, <4>2 DEF DecisionsOrdered
      <4>4. revision[h.revision].decision \in Nat /\ revision[q].decision \in Nat
        BY <1>0, <2>2, <4>2 DEF DecisionsOrdered, Approved
      <4>5. revision[q].decision > h.read.decision
        BY <2>2, <4>2, <4>3, <4>4
      <4> QED BY <1>0, <1>1, <1>4, <4>2, <4>5 DEF PlannedIsLatest
    <3> QED BY <1>2, <3>1, <3>2 DEF Withdrawn, Row
  <2> QED BY <2>3, <2>4
<1> QED BY <1>3, <1>4 DEF CommitPlan

LEMMA CommitPlanKeeps ==
    ASSUME DateChangeInv, NEW s \in Sweeper, CommitPlan(s)
    PROVE  DateChangeInv'
<1>0. TypeOK /\ OnePlanner /\ ReadsHold /\ RowsAreApproved
  BY DEF DateChangeInv
<1> DEFINE process == [pc |-> "next", at |-> sweep[s].at, todo |-> sweep[s].todo]
<1>1. sweep[s] \in Planning /\ sweep[s].pc = "planning"
  BY <1>0, OpenRecords DEF CommitPlan
<1>2. process \in Sweeping
  BY <1>1 DEF Planning, Sweeping
<1>3. sweep' = [sweep EXCEPT ![s] = process]
  BY DEF CommitPlan
<1>4. process.pc = "next"
  OBVIOUS
<1> HIDE DEF process
<1>5. /\ \A t \in Sweeper : sweep'[t] = IF t = s THEN process ELSE sweep[t]
      /\ sweep' \in [Sweeper -> {Idle} \cup Sweeping \cup Planning]
  BY <1>0, <1>2, <1>3 DEF TypeOK
<1>6. \A t \in Sweeper : sweep'[t].pc # "planning"
  BY <1>0, <1>1, <1>4, <1>5 DEF OnePlanner
<1>7. /\ CatalogueIsCurrent' /\ DecisionsOrdered'
      /\ Approved' = Approved /\ \A h : Holds(h) => Holds(h)'
  BY TablesFrame DEF CommitPlan
<1>8. \A w \in Watchlist, q \in Revision :
         /\ row'[w][q] \in Row
         /\ row[w][q].status \notin {"NONE", "SCHEDULED"} => row'[w][q] = row[w][q]
         /\ row'[w][q].status # "NONE" => q \in Approved
  BY PlanOutcome
<1>9. row' \in [Watchlist -> [Revision -> Row]]
  <2>1. CASE row' = row
    BY <1>0, <2>1 DEF TypeOK
  <2>2. CASE row' # row
    <3>1. row' = [w \in Watchlist |-> [r \in Revision |->
                     IF r = sweep[s].hydration.revision
                     THEN Planned(w, sweep[s].hydration, row[w][r])
                     ELSE Withdrawn(row[w][r])]]
      BY <2>2 DEF CommitPlan
    <3> QED BY <1>8, <3>1
  <2> QED BY <2>1, <2>2
<1>10. TypeOK'
  BY <1>0, <1>5, <1>9 DEF TypeOK, CommitPlan, catalogue, people
<1>11. PlannedIsLatest' /\ OnePlanner'
  BY <1>6 DEF PlannedIsLatest, OnePlanner
<1>12. ReadsHold'
  BY <1>0, <1>6, <1>7 DEF ReadsHold, CommitPlan
<1>13. RowsAreApproved'
  BY <1>0, <1>7, <1>8 DEF RowsAreApproved, CommitPlan
<1> QED BY <1>7, <1>10, <1>11, <1>12, <1>13 DEF DateChangeInv

-----------------------------------------------------------------------------
(* A delivery touches the row it has claimed, and nobody else's.            *)

LEMMA JobFrame ==
    ASSUME DateChangeInv, NEW w \in Watchlist, NEW r \in Revision,
           NEW j, j \in {Idle} \cup Hydration,
           row[w][r].status # "NONE",
           row' \in [Watchlist -> [Revision -> Row]],
           row'[w][r].status # "NONE",
           \A v \in Watchlist, q \in Revision : v # w \/ q # r => row'[v][q] = row[v][q],
           job' = WithJob(w, r, j),
           j.pc # "idle" => row'[w][r].status = "PROCESSING" /\ j.revision = r /\ Holds(j),
           sent' \in [Watchlist -> SUBSET Revision],
           UNCHANGED <<now, catalogue, people, sweep>>
    PROVE  DateChangeInv'
<1>0. TypeOK /\ PlannedIsLatest /\ OnePlanner /\ ReadsHold /\ RowsAreApproved
  BY DEF DateChangeInv
<1>1. /\ CatalogueIsCurrent' /\ DecisionsOrdered'
      /\ Approved' = Approved /\ \A h : Holds(h) => Holds(h)'
  BY TablesFrame
<1>2. /\ job' \in [Watchlist -> [Revision -> {Idle} \cup Hydration]]
      /\ \A v \in Watchlist, q \in Revision :
            job'[v][q] = IF v = w /\ q = r THEN j ELSE job[v][q]
  BY <1>0 DEF TypeOK, WithJob
<1>3. TypeOK'
  BY <1>0, <1>2 DEF TypeOK, catalogue, people
<1>4. \A v \in Watchlist, q \in Revision : row[v][q].status = "NONE" <=> row'[v][q].status = "NONE"
  OBVIOUS
<1>5. PlannedIsLatest'
  BY <1>0, <1>1, <1>4 DEF PlannedIsLatest, catalogue, Approved
<1>6. OnePlanner'
  BY <1>0 DEF OnePlanner
<1>7. ReadsHold'
  BY <1>0, <1>1, <1>2 DEF ReadsHold
<1>8. RowsAreApproved'
  <2>1. ASSUME NEW v \in Watchlist, NEW q \in Revision
        PROVE  /\ row'[v][q].status # "NONE" => q \in Approved
               /\ job'[v][q].pc # "idle" => row'[v][q].status = "PROCESSING" /\ job'[v][q].revision = q
    <3>1. row'[v][q].status # "NONE" => q \in Approved
      BY <1>0, <1>4 DEF RowsAreApproved
    <3>2. CASE v = w /\ q = r
      BY <1>2, <3>1, <3>2
    <3>3. CASE v # w \/ q # r
      BY <1>0, <1>2, <3>1, <3>3 DEF RowsAreApproved
    <3> QED BY <3>2, <3>3
  <2> QED BY <1>1, <2>1 DEF RowsAreApproved
<1> QED BY <1>1, <1>3, <1>5, <1>6, <1>7, <1>8 DEF DateChangeInv

\* One row takes another status.
LEMMA RowUpdate ==
    ASSUME TypeOK, NEW w \in Watchlist, NEW r \in Revision,
           NEW status,
           status \in {"NONE", "SCHEDULED", "PROCESSING", "SENT", "FAILED", "CANCELLED"},
           row' = WithStatus(w, r, status)
    PROVE  /\ row' \in [Watchlist -> [Revision -> Row]]
           /\ row'[w][r].status = status
           /\ \A v \in Watchlist, q \in Revision : v # w \/ q # r => row'[v][q] = row[v][q]
<1>1. row[w][r] \in Row
  BY DEF TypeOK
<1>2. [row[w][r] EXCEPT !.status = status] \in Row
      /\ [row[w][r] EXCEPT !.status = status].status = status
  BY <1>1 DEF Row
<1> QED BY <1>2 DEF TypeOK, WithStatus

LEMMA ClaimKeeps ==
    ASSUME DateChangeInv, NEW w \in Watchlist, NEW r \in Revision, Claim(w, r)
    PROVE  DateChangeInv'
<1>0. TypeOK
  BY DEF DateChangeInv
<1> DEFINE accepted == follower[w].eligible /\ Day(row[w][r].scheduledFor) = Day(now)
           j == Start(r, now, accepted)
<1>1. now \in Time /\ accepted \in BOOLEAN
  BY <1>0 DEF TypeOK
<1> HIDE DEF accepted
<1>2. j \in Hydration /\ j.pc = "revision" /\ j.revision = r /\ Holds(j)
  BY <1>1, StartIsHydration
<1>3. job' = WithJob(w, r, j)
  BY DEF Claim, accepted, WithJob
<1> HIDE DEF j
<1>4. /\ row' \in [Watchlist -> [Revision -> Row]]
      /\ row'[w][r].status = "PROCESSING"
      /\ \A v \in Watchlist, q \in Revision : v # w \/ q # r => row'[v][q] = row[v][q]
  BY <1>0, RowUpdate DEF Claim, WithStatus
<1>5. row[w][r].status # "NONE"
  BY DEF Claim
<1>6. sent' \in [Watchlist -> SUBSET Revision]
  BY <1>0 DEF Claim, TypeOK
<1> QED BY <1>2, <1>3, <1>4, <1>5, <1>6, JobFrame DEF Claim

\* A delivery that reads on holds its row.
LEMMA HeldRow ==
    ASSUME DateChangeInv, NEW w \in Watchlist, NEW r \in Revision, job[w][r].pc # "idle"
    PROVE  /\ row[w][r].status = "PROCESSING"
           /\ job[w][r] \in Hydration /\ job[w][r].revision = r /\ Holds(job[w][r])
BY OpenRecords DEF DateChangeInv, RowsAreApproved, ReadsHold

LEMMA HydrateJobKeeps ==
    ASSUME DateChangeInv, NEW w \in Watchlist, NEW r \in Revision, HydrateJob(w, r)
    PROVE  DateChangeInv'
<1>0. TypeOK
  BY DEF DateChangeInv
<1> DEFINE h == job[w][r]
<1>1. row[w][r].status = "PROCESSING" /\ h \in Hydration /\ h.revision = r /\ Holds(h)
      /\ h.pc \notin {"latest", "ready"}
  BY HeldRow DEF HydrateJob
<1>2. Read(h) \in Hydration /\ Read(h).revision = r /\ Holds(Read(h))
  BY <1>0, <1>1, ReadTakesNext
<1>3. job' = WithJob(w, r, Read(h))
  BY DEF HydrateJob, WithJob
<1> HIDE DEF h
<1>4. row' \in [Watchlist -> [Revision -> Row]] /\ sent' \in [Watchlist -> SUBSET Revision]
  BY <1>0 DEF HydrateJob, TypeOK
<1>5. row' = row /\ UNCHANGED <<now, catalogue, people, sweep>>
  BY DEF HydrateJob
<1>6. Read(h) \in {Idle} \cup Hydration
  BY <1>2
<1> QED BY <1>1, <1>2, <1>3, <1>4, <1>5, <1>6, JobFrame

LEMMA PrepareKeeps ==
    ASSUME DateChangeInv, NEW w \in Watchlist, NEW r \in Revision, Prepare(w, r)
    PROVE  DateChangeInv'
<1>0. TypeOK
  BY DEF DateChangeInv
<1>1. /\ row[w][r].status = "PROCESSING"
      /\ job[w][r] \in Hydration /\ job[w][r].revision = r /\ Holds(job[w][r])
      /\ job[w][r].pc = "latest"
  BY HeldRow DEF Prepare
<1>2. Read(job[w][r]) \in Hydration /\ Read(job[w][r]).revision = r /\ Holds(Read(job[w][r]))
  BY <1>0, <1>1, ReadTakesNext
<1>3. sent' \in [Watchlist -> SUBSET Revision]
  BY <1>0 DEF Prepare, TypeOK
<1>4. CASE job' = WithJob(w, r, Read(job[w][r])) /\ row' = row
  <2>1. row' \in [Watchlist -> [Revision -> Row]]
    BY <1>0, <1>4 DEF TypeOK
  <2> QED BY <1>1, <1>2, <1>3, <1>4, <2>1, JobFrame DEF Prepare
<1>5. CASE job' = WithJob(w, r, Idle) /\ row' = WithStatus(w, r, "CANCELLED")
  <2>1. /\ row' \in [Watchlist -> [Revision -> Row]]
        /\ row'[w][r].status = "CANCELLED"
        /\ \A v \in Watchlist, q \in Revision : v # w \/ q # r => row'[v][q] = row[v][q]
    BY <1>0, <1>5, RowUpdate
  <2>2. Idle.pc = "idle" /\ UNCHANGED <<now, catalogue, people, sweep>>
    BY DEF Idle, Prepare
  <2>3. Idle \in {Idle} \cup Hydration
    OBVIOUS
  <2>4. row[w][r].status # "NONE" /\ row'[w][r].status # "NONE"
    BY <1>1, <2>1
  <2> QED BY <1>3, <1>5, <2>1, <2>2, <2>3, <2>4, JobFrame
<1> QED BY <1>4, <1>5 DEF Prepare, WithJob, WithStatus

\* A delivery that ends puts its row into the status it found for it.
LEMMA JobEndKeeps ==
    ASSUME DateChangeInv, NEW w \in Watchlist, NEW r \in Revision, Send(w, r) \/ Recover(w, r)
    PROVE  DateChangeInv'
<1>0. TypeOK
  BY DEF DateChangeInv
<1>1. Idle.pc = "idle"
  BY DEF Idle
<1>2. row[w][r].status = "PROCESSING"
  BY HeldRow DEF Send, Recover
<1>3. PICK status \in {"SENT", "FAILED", "CANCELLED", "SCHEDULED"} :
         row' = WithStatus(w, r, status)
  BY DEF Send, Recover, WithStatus
<1>4. /\ row' \in [Watchlist -> [Revision -> Row]]
      /\ row'[w][r].status = status
      /\ \A v \in Watchlist, q \in Revision : v # w \/ q # r => row'[v][q] = row[v][q]
  <2>1. status \in {"NONE", "SCHEDULED", "PROCESSING", "SENT", "FAILED", "CANCELLED"}
    OBVIOUS
  <2> QED BY <1>0, <1>3, <2>1, RowUpdate
<1>5. sent' \in [Watchlist -> SUBSET Revision]
  <2>1. CASE sent' = sent
    BY <1>0, <2>1 DEF TypeOK
  <2>2. CASE sent' = [sent EXCEPT ![w] = sent[w] \cup {r}]
    <3>1. sent[w] \cup {r} \in SUBSET Revision
      BY <1>0 DEF TypeOK
    <3> QED BY <1>0, <2>2, <3>1 DEF TypeOK
  <2> QED BY <2>1, <2>2 DEF Send, Recover
<1>6. job' = WithJob(w, r, Idle) /\ UNCHANGED <<now, catalogue, people, sweep>>
  BY DEF Send, Recover, WithJob
<1>7. Idle \in {Idle} \cup Hydration
  OBVIOUS
<1>8. row[w][r].status # "NONE" /\ row'[w][r].status # "NONE"
  BY <1>2, <1>4
<1> QED BY <1>1, <1>4, <1>5, <1>6, <1>7, <1>8, JobFrame

-----------------------------------------------------------------------------
\* The parse job's load, a follower's edits and the clock.
LEMMA OutsideKeeps ==
    ASSUME DateChangeInv,
           LoadSnapshot \/ Tick \/ UNCHANGED vars \/ \E w \in Watchlist : Edit(w)
    PROVE  DateChangeInv'
<1>0. TypeOK
  BY DEF DateChangeInv
<1>1. UNCHANGED <<published, revision, decisions, row, sweep, job>>
  BY DEF LoadSnapshot, Tick, Edit, vars, catalogue
<1>2. Approved' = Approved /\ LatestApproved' = LatestApproved
  BY <1>1 DEF Approved, LatestApproved
<1>3. CatalogueIsCurrent' /\ DecisionsOrdered'
  BY <1>1, <1>2 DEF DateChangeInv, CatalogueIsCurrent, DecisionsOrdered
<1>4. PlannedIsLatest' /\ OnePlanner' /\ ReadsHold' /\ RowsAreApproved'
  BY <1>1, <1>2, CatalogueFrame
<1>5. TypeOK'
  <2>1. CASE LoadSnapshot
    BY <1>0, <2>1 DEF TypeOK, LoadSnapshot, people
  <2>2. CASE Tick
    BY <1>0, <2>2, DateChangeAssumption DEF TypeOK, Tick, Time, catalogue, people
  <2>3. ASSUME NEW w \in Watchlist, Edit(w)
        PROVE  TypeOK'
    <3>1. edits' \in 0..MaxEdits
      BY <1>0, <2>3, DateChangeAssumption DEF TypeOK, Edit
    <3>2. follower' \in [Watchlist -> [eligible : BOOLEAN, since : Nat]]
      <4>1. PICK e \in BOOLEAN : e = ~follower[w].eligible
        OBVIOUS
      <4>2. follower[w] \in [eligible : BOOLEAN, since : Nat]
        BY <1>0 DEF TypeOK
      <4>3. [follower[w] EXCEPT !.eligible = e] \in [eligible : BOOLEAN, since : Nat]
        BY <4>2
      <4>4. follower' = [follower EXCEPT ![w] = [follower[w] EXCEPT !.eligible = e]]
        BY <2>3, <4>1 DEF Edit
      <4> QED BY <1>0, <4>3, <4>4 DEF TypeOK
    <3> QED BY <1>0, <1>1, <2>3, <3>1, <3>2 DEF TypeOK, Edit, catalogue
  <2>4. CASE UNCHANGED vars
    BY <1>0, <2>4 DEF TypeOK, vars, catalogue, people
  <2> QED BY <2>1, <2>2, <2>3, <2>4
<1> QED BY <1>3, <1>4, <1>5 DEF DateChangeInv

\* Turning notifications off cancels what is scheduled, and touches nothing else.
LEMMA UnsubscribeOutcome ==
    ASSUME TypeOK, NEW w \in Watchlist, Unsubscribe(w), NEW v \in Watchlist, NEW q \in Revision
    PROVE  /\ row'[v][q] \in Row
           /\ \/ row'[v][q] = row[v][q]
              \/ v = w /\ row[v][q].status = "SCHEDULED" /\ row'[v][q].status = "CANCELLED"
<1>1. row[v][q] \in Row
  BY DEF TypeOK
<1>2. row'[v][q] = row[v][q] \/ (v = w /\ row'[v][q] = Withdrawn(row[v][q]))
  BY DEF TypeOK, Unsubscribe
<1> QED BY <1>1, <1>2 DEF Withdrawn, Row

LEMMA UnsubscribeKeeps ==
    ASSUME DateChangeInv, NEW w \in Watchlist, Unsubscribe(w)
    PROVE  DateChangeInv'
<1>0. TypeOK /\ PlannedIsLatest /\ OnePlanner /\ ReadsHold /\ RowsAreApproved
  BY DEF DateChangeInv
<1>1. UNCHANGED <<now, catalogue, sweep, job, sent>>
  BY DEF Unsubscribe
<1>2. /\ CatalogueIsCurrent' /\ DecisionsOrdered'
      /\ Approved' = Approved /\ \A h : Holds(h) => Holds(h)'
  BY <1>1, TablesFrame
<1>3. \A v \in Watchlist, q \in Revision :
         /\ row'[v][q] \in Row
         /\ row'[v][q].status = "NONE" <=> row[v][q].status = "NONE"
         /\ row[v][q].status = "PROCESSING" => row'[v][q].status = "PROCESSING"
  BY <1>0, UnsubscribeOutcome
<1>4. row' \in [Watchlist -> [Revision -> Row]]
  <2>1. \A v \in Watchlist : row'[v] = [q \in Revision |-> row'[v][q]]
    BY <1>0 DEF TypeOK, Unsubscribe
  <2>2. \A v \in Watchlist : row'[v] \in [Revision -> Row]
    BY <1>3, <2>1
  <2>3. row' = [v \in Watchlist |-> row'[v]]
    BY <1>0 DEF TypeOK, Unsubscribe
  <2> QED BY <2>2, <2>3
<1>5. TypeOK'
  <2>1. edits' \in 0..MaxEdits
    BY <1>0, DateChangeAssumption DEF TypeOK, Unsubscribe
  <2>2. follower' \in [Watchlist -> [eligible : BOOLEAN, since : Nat]]
    <3>1. follower[w] \in [eligible : BOOLEAN, since : Nat]
      BY <1>0 DEF TypeOK
    <3>2. follower' = [follower EXCEPT ![w] = [follower[w] EXCEPT !.eligible = FALSE]]
      BY DEF Unsubscribe
    <3> QED BY <1>0, <3>1, <3>2 DEF TypeOK
  <2> QED BY <1>0, <1>1, <1>4, <2>1, <2>2 DEF TypeOK, catalogue
<1>6. PlannedIsLatest'
  BY <1>0, <1>1, <1>2, <1>3 DEF PlannedIsLatest, catalogue, Approved
<1>7. OnePlanner' /\ ReadsHold'
  BY <1>0, <1>1, <1>2 DEF OnePlanner, ReadsHold
<1>8. RowsAreApproved'
  BY <1>0, <1>1, <1>2, <1>3 DEF RowsAreApproved
<1> QED BY <1>2, <1>5, <1>6, <1>7, <1>8 DEF DateChangeInv

LEMMA DateChangeStep == DateChangeInv /\ [Next]_vars => DateChangeInv'
<1> SUFFICES ASSUME DateChangeInv, [Next]_vars PROVE DateChangeInv'
  OBVIOUS
<1>1. CASE LoadSnapshot \/ Tick \/ UNCHANGED vars \/ \E w \in Watchlist : Edit(w)
  BY <1>1, OutsideKeeps
<1>2. CASE CreateRevision
  BY <1>2, CreateKeeps
<1>3. ASSUME NEW r \in Revision, Approve(r) \/ Reject(r) PROVE DateChangeInv'
  BY <1>3, ApproveKeeps, RejectKeeps
<1>4. ASSUME NEW s \in Sweeper, SweepStep(s) \/ SweepError(s) PROVE DateChangeInv'
  BY <1>4, StartSweepKeeps, PlanNextKeeps, HydratePlanKeeps, CommitPlanKeeps, SweepEndKeeps
     DEF SweepStep
<1>5. ASSUME NEW w \in Watchlist, NEW r \in Revision, DeliveryStep(w, r) \/ Recover(w, r)
      PROVE  DateChangeInv'
  BY <1>5, ClaimKeeps, HydrateJobKeeps, PrepareKeeps, JobEndKeeps DEF DeliveryStep
<1> QED BY <1>1, <1>2, <1>3, <1>4, <1>5, UnsubscribeKeeps DEF Next

-----------------------------------------------------------------------------
(* What a notice says.                                                      *)

\* Only the last read of Prepare makes a delivery ready.
LEMMA ReadyIsCurrent ==
    ASSUME DateChangeInv, [Next]_vars, NEW w \in Watchlist, NEW r \in Revision,
           job[w][r].pc # "ready", job'[w][r].pc = "ready"
    PROVE  LatestApproved = {r} /\ Day(published) = Day(revision[r].new)
<1>0. TypeOK /\ DecisionsOrdered /\ CatalogueIsCurrent /\ job \in [Watchlist -> [Revision -> {Idle} \cup Hydration]]
  BY DEF DateChangeInv, TypeOK
<1>1. Idle.pc = "idle" /\ \A q \in Revision : \A at, accepted : Start(q, at, accepted).pc = "revision"
  BY DEF Idle, Start
<1>2. CASE Prepare(w, r)
  <2>1. /\ job[w][r] \in Hydration /\ job[w][r].revision = r /\ Holds(job[w][r])
        /\ job[w][r].pc = "latest"
    BY <1>2, HeldRow DEF Prepare
  <2>2. Valid(Read(job[w][r]))
    <3>1. CASE job' = [job EXCEPT ![w][r] = Idle]
      BY <1>0, <1>1, <3>1
    <3> QED BY <1>2, <3>1 DEF Prepare
  <2>3. /\ Read(job[w][r]).pc = "ready" => /\ Read(job[w][r]).read = job[w][r].read
                                           /\ Read(job[w][r]).newer <=> LatestApproved \ {r} # {}
    BY <1>0, <2>1, ReadTakesNext
  <2>4. Read(job[w][r]).pc = "ready"
    BY <2>1 DEF Read, Hydration
  <2>5. LatestApproved \ {r} = {} /\ job[w][r].read.changeStatus = "APPROVED"
    BY <2>2, <2>3, <2>4 DEF Valid
  <2>6. r \in Approved
    BY <2>1, <2>5 DEF Holds, Approved
  <2>7. LatestApproved = {r}
    BY <1>0, <2>5, <2>6, SoleLatest
  <2> QED BY <1>0, <2>7 DEF CatalogueIsCurrent
<1>3. CASE HydrateJob(w, r)
  <2>1. job[w][r] \in Hydration /\ job[w][r].revision = r /\ Holds(job[w][r])
        /\ job[w][r].pc \notin {"latest", "ready"}
    BY <1>3, HeldRow DEF HydrateJob
  <2>2. job'[w][r] = Read(job[w][r])
    BY <1>0, <1>3 DEF HydrateJob
  <2> QED BY <1>0, <2>1, <2>2, ReadTakesNext
<1>4. CASE Claim(w, r) \/ Send(w, r) \/ Recover(w, r)
  <2>1. job'[w][r].pc \in {"idle", "revision"}
    BY <1>0, <1>1, <1>4 DEF Claim, Send, Recover
  <2> QED BY <2>1
<1>5. ASSUME NEW v \in Watchlist, NEW q \in Revision, DeliveryStep(v, q) \/ Recover(v, q),
             v # w \/ q # r
      PROVE  job'[w][r] = job[w][r]
  BY <1>0, <1>5 DEF DeliveryStep, Claim, HydrateJob, Prepare, Send, Recover
<1>6. CASE UNCHANGED job
  BY <1>6
<1>7. UNCHANGED job \/ \E v \in Watchlist, q \in Revision : DeliveryStep(v, q) \/ Recover(v, q)
  BY DEF Next, LoadSnapshot, CreateRevision, Approve, Reject, SweepStep, StartSweep, PlanNext,
         HydratePlan, CommitPlan, EndSweep, SweepError, Edit, Unsubscribe, Tick, vars
<1> QED BY <1>2, <1>3, <1>4, <1>5, <1>6, <1>7 DEF DeliveryStep

\* A pending row that a step cancels is not the latest revision's.
LEMMA LatestRowKept ==
    ASSUME DateChangeInv, [Next]_vars, NEW w \in Watchlist, NEW r \in LatestApproved,
           row[w][r].status = "SCHEDULED", ~Unsubscribe(w)
    PROVE  row'[w][r].status # "CANCELLED"
<1>0. TypeOK /\ r \in Revision
  BY DEF DateChangeInv, LatestApproved, Approved
<1>1. ASSUME NEW s \in Sweeper, CommitPlan(s)
      PROVE  row'[w][r].status # "CANCELLED"
  BY <1>0, <1>1, PlanOutcome
<1>2. ASSUME NEW v \in Watchlist, NEW q \in Revision, Claim(v, q) PROVE row'[w][r].status # "CANCELLED"
  <2>1. CASE v = w /\ q = r
    BY <1>0, <1>2, <2>1, RowUpdate DEF Claim, WithStatus
  <2>2. CASE v # w \/ q # r
    BY <1>0, <1>2, <2>2, RowUpdate DEF Claim, WithStatus
  <2> QED BY <2>1, <2>2
<1>3. ASSUME NEW v \in Watchlist, NEW q \in Revision,
             Prepare(v, q) \/ Send(v, q) \/ Recover(v, q)
      PROVE  row'[w][r].status # "CANCELLED"
  <2>1. job[v][q].pc # "idle"
    BY <1>3 DEF Prepare, Send, Recover
  <2>2. v # w \/ q # r
    BY <2>1, HeldRow
  <2>3. row' = row \/ \E status \in {"SENT", "FAILED", "CANCELLED", "SCHEDULED"} :
                         row' = WithStatus(v, q, status)
    BY <1>3 DEF Prepare, Send, Recover, WithStatus
  <2> QED BY <1>0, <2>2, <2>3, RowUpdate
<1>4. CASE UNCHANGED row
  BY <1>4
<1>5. ASSUME NEW v \in Watchlist, Unsubscribe(v) PROVE row'[w][r].status # "CANCELLED"
  BY <1>0, <1>5, UnsubscribeOutcome
<1>6. \/ UNCHANGED row
      \/ \E s \in Sweeper : CommitPlan(s)
      \/ \E v \in Watchlist : Unsubscribe(v)
      \/ \E v \in Watchlist, q \in Revision :
            Claim(v, q) \/ Prepare(v, q) \/ Send(v, q) \/ Recover(v, q)
  BY DEF Next, LoadSnapshot, CreateRevision, Approve, Reject, SweepStep, StartSweep, PlanNext,
         HydratePlan, EndSweep, SweepError, DeliveryStep, HydrateJob, Edit, Tick, vars
<1> QED BY <1>1, <1>2, <1>3, <1>4, <1>5, <1>6

-----------------------------------------------------------------------------
\* Whatever the sweeps, the reviews and the deliveries do in whatever order, only
\* approved revisions have notices, and under the advisory lock a plan that saw no
\* later revision will find none with a notice.
THEOREM DateChangeSafety == Spec => []DateChangeInv
BY DateChangeInit, DateChangeStep, PTL DEF Spec

\* A notice that passes its revalidation announces the latest approved change, and
\* the date the window publishes at that instant, although its reads saw the tables
\* at four different times.
THEOREM NoticeIsTrue == Spec => NoticeIsCurrent
<1>1. DateChangeInv /\ [Next]_vars =>
         [\A w \in Watchlist, r \in Revision :
             job[w][r].pc # "ready" /\ job'[w][r].pc = "ready"
             => LatestApproved = {r} /\ Day(published) = Day(revision[r].new)]_vars
  BY ReadyIsCurrent
<1> QED BY <1>1, DateChangeSafety, PTL DEF Spec, NoticeIsCurrent

\* A sweep that planned on an older reading never cancels the notice of the latest
\* approved revision: only who turns notifications off loses it.
THEOREM LatestNoticeSurvives == Spec => LatestNoticeKept
<1>1. DateChangeInv /\ [Next]_vars =>
         [\A w \in Watchlist : \A r \in LatestApproved :
             row[w][r].status = "SCHEDULED" => row'[w][r].status # "CANCELLED" \/ Unsubscribe(w)]_vars
  BY LatestRowKept
<1> QED BY <1>1, DateChangeSafety, PTL DEF Spec, LatestNoticeKept
-----------------------------------------------------------------------------
(* Every notice is told once, and comes to an end.                          *)

Settled == {"SENT", "FAILED", "CANCELLED"}
SettledStays ==
    \A w \in Watchlist, r \in Revision :
        row[w][r].status \in Settled => row'[w][r].status = row[w][r].status

\* A step of the delivery of one row.
LEMMA RowWritten ==
    ASSUME TypeOK, NEW w \in Watchlist, NEW r \in Revision, NEW status,
           row' = [row EXCEPT ![w][r].status = status]
    PROVE  /\ row'[w][r].status = status
           /\ \A v \in Watchlist, q \in Revision : v # w \/ q # r => row'[v][q] = row[v][q]
BY DEF TypeOK, Row

LEMMA JobWritten ==
    ASSUME TypeOK, NEW w \in Watchlist, NEW r \in Revision, NEW j,
           job' = [job EXCEPT ![w][r] = j]
    PROVE  /\ job'[w][r] = j
           /\ \A v \in Watchlist, q \in Revision : v # w \/ q # r => job'[v][q] = job[v][q]
BY DEF TypeOK

LEMMA SettledStep == DateChangeInv /\ [Next]_vars => SettledStays
<1> SUFFICES ASSUME DateChangeInv, [Next]_vars PROVE SettledStays
  OBVIOUS
<1>0. TypeOK /\ RowsAreApproved
  BY DEF DateChangeInv
<1>1. CASE UNCHANGED row
  BY <1>1 DEF SettledStays
<1>2. ASSUME NEW s \in Sweeper, CommitPlan(s) PROVE SettledStays
  BY <1>2, PlanOutcome DEF SettledStays, Settled
<1>3. ASSUME NEW w \in Watchlist, NEW r \in Revision,
             Claim(w, r) \/ Prepare(w, r) \/ Send(w, r) \/ Recover(w, r)
      PROVE  SettledStays
  <2>1. row[w][r].status \notin Settled
    BY <1>0, <1>3 DEF Claim, Prepare, Send, Recover, RowsAreApproved, Settled
  <2>2. UNCHANGED row \/ \E status : row' = [row EXCEPT ![w][r].status = status]
    BY <1>3 DEF Claim, Prepare, Send, Recover
  <2> QED BY <1>0, <1>1, <2>1, <2>2, RowWritten DEF SettledStays
<1>4. ASSUME NEW w \in Watchlist, Unsubscribe(w) PROVE SettledStays
  BY <1>0, <1>4, UnsubscribeOutcome DEF SettledStays, Settled
<1>5. \/ UNCHANGED row
      \/ \E s \in Sweeper : CommitPlan(s)
      \/ \E w \in Watchlist : Unsubscribe(w)
      \/ \E w \in Watchlist, r \in Revision :
            Claim(w, r) \/ Prepare(w, r) \/ Send(w, r) \/ Recover(w, r)
  BY DEF Next, LoadSnapshot, CreateRevision, Approve, Reject, SweepStep, StartSweep, PlanNext,
         HydratePlan, EndSweep, SweepError, DeliveryStep, HydrateJob, Edit, Tick, vars
<1> QED BY <1>1, <1>2, <1>3, <1>4, <1>5

\* A notice that was handed to the push services has its verdict.
ToldIsSettled == \A w \in Watchlist : \A r \in sent[w] : row[w][r].status \in Settled

LEMMA ToldStep == DateChangeInv /\ ToldIsSettled /\ [Next]_vars => ToldIsSettled'
<1> SUFFICES ASSUME DateChangeInv, ToldIsSettled, [Next]_vars PROVE ToldIsSettled'
  OBVIOUS
<1>0. TypeOK /\ SettledStays
  BY SettledStep DEF DateChangeInv
<1>1. \A w \in Watchlist : sent[w] \subseteq Revision
  BY <1>0 DEF TypeOK
<1>2. CASE UNCHANGED sent
  BY <1>0, <1>1, <1>2 DEF ToldIsSettled, SettledStays
<1>3. ASSUME NEW w \in Watchlist, NEW r \in Revision, Send(w, r)
      PROVE  ToldIsSettled'
  <2>1. row'[w][r].status \in Settled
    <3>1. PICK verdict \in Settled : row' = [row EXCEPT ![w][r].status = verdict]
      BY <1>3 DEF Send, Settled
    <3> QED BY <1>0, <3>1, RowWritten
  <2>2. \A v \in Watchlist : sent'[v] \subseteq IF v = w THEN sent[v] \cup {r} ELSE sent[v]
    BY <1>0, <1>3 DEF Send, TypeOK
  <2> QED BY <1>0, <1>1, <2>1, <2>2 DEF ToldIsSettled, SettledStays
<1>4. UNCHANGED sent \/ \E w \in Watchlist, r \in Revision : Send(w, r)
  BY DEF Next, LoadSnapshot, CreateRevision, Approve, Reject, SweepStep, StartSweep, PlanNext,
         HydratePlan, CommitPlan, EndSweep, SweepError, DeliveryStep, Claim, HydrateJob, Prepare,
         Recover, Edit, Unsubscribe, Tick, vars
<1> QED BY <1>2, <1>3, <1>4

\* No follower is told of a change twice: a notice that was sent has its verdict, and
\* neither a later sweep nor a recovery or another delivery takes a verdict back.
THEOREM NoticeToldOnce ==
    Spec => /\ []ToldIsSettled
            /\ [][/\ SettledStays
                  /\ \A w \in Watchlist, r \in Revision : Send(w, r) => r \notin sent[w]]_vars
<1> DEFINE Final ==
        /\ SettledStays
        /\ \A w \in Watchlist, r \in Revision : Send(w, r) => r \notin sent[w]
<1>1. Init => ToldIsSettled
  BY DEF Init, ToldIsSettled
<1>2. DateChangeInv /\ ToldIsSettled =>
         \A w \in Watchlist, r \in Revision : Send(w, r) => r \notin sent[w]
  BY DEF DateChangeInv, RowsAreApproved, ToldIsSettled, Settled, Send
<1>3. DateChangeInv /\ ToldIsSettled /\ [Next]_vars => [Final]_vars
  BY <1>2, SettledStep
<1> HIDE DEF Final
<1>4. Spec => []ToldIsSettled /\ [][Final]_vars
  BY <1>1, <1>3, ToldStep, DateChangeInit, DateChangeStep, PTL DEF Spec
<1> QED BY <1>4 DEF Final

\* The reads left of a delivery, and its answer.
ReadsLeft(pc) ==
    CASE pc = "revision" -> 5 [] pc = "window" -> 4 [] pc = "pending" -> 3 [] pc = "latest" -> 2
      [] pc = "ready" -> 1 [] OTHER -> 0

LEMMA ReadShortens ==
    ASSUME NEW h \in Hydration, h.pc # "ready"
    PROVE  ReadsLeft(Read(h).pc) < ReadsLeft(h.pc)
<1>1. \/ h.pc = "revision" /\ Read(h).pc = "window"
      \/ h.pc = "window" /\ Read(h).pc = "pending"
      \/ h.pc = "pending" /\ Read(h).pc = "latest"
      \/ h.pc = "latest" /\ Read(h).pc = "ready"
  <2>1. CASE h.pc = "revision"
    <3>1. Read(h) = [h EXCEPT !.pc = "window", !.read = revision[h.revision]]
      BY <2>1 DEF Read
    <3> QED BY <2>1, <3>1 DEF Hydration
  <2>2. CASE h.pc = "window"
    <3>1. Read(h) = [h EXCEPT !.pc = "pending", !.canonical = published]
      BY <2>2 DEF Read
    <3> QED BY <2>2, <3>1 DEF Hydration
  <2>3. CASE h.pc = "pending"
    <3>1. Read(h) = [h EXCEPT !.pc = "latest", !.unresolved = Pending \ {h.revision} # {}]
      BY <2>3 DEF Read
    <3> QED BY <2>3, <3>1 DEF Hydration
  <2>4. CASE h.pc = "latest"
    <3>1. Read(h) = [h EXCEPT !.pc = "ready", !.newer = LatestApproved \ {h.revision} # {}]
      BY <2>4 DEF Read
    <3> QED BY <2>4, <3>1 DEF Hydration
  <2> QED BY <2>1, <2>2, <2>3, <2>4 DEF Hydration
<1> QED BY <1>1 DEF ReadsLeft

LEMMA DeliveryShortens ==
    ASSUME TypeOK, NEW w \in Watchlist, NEW r \in Revision, job[w][r].pc # "idle",
           DeliveryStep(w, r) \/ Recover(w, r), ~Claim(w, r)
    PROVE  /\ ReadsLeft(job'[w][r].pc) < ReadsLeft(job[w][r].pc)
           /\ \A v \in Watchlist, q \in Revision : v # w \/ q # r => job'[v][q] = job[v][q]
<1>1. job[w][r] \in Hydration /\ Idle.pc = "idle"
  BY OpenRecords DEF Idle
<1>2. ReadsLeft(Idle.pc) < ReadsLeft(job[w][r].pc)
  BY <1>1 DEF ReadsLeft, Hydration
<1>3. CASE HydrateJob(w, r)
  <2>1. job[w][r].pc # "ready" /\ job' = [job EXCEPT ![w][r] = Read(job[w][r])]
    BY <1>3 DEF HydrateJob
  <2>2. /\ job'[w][r] = Read(job[w][r])
        /\ \A v \in Watchlist, q \in Revision : v # w \/ q # r => job'[v][q] = job[v][q]
    BY <2>1 DEF TypeOK
  <2>3. ReadsLeft(Read(job[w][r]).pc) < ReadsLeft(job[w][r].pc)
    BY <1>1, <2>1, ReadShortens
  <2> QED BY <2>2, <2>3
<1>4. CASE Prepare(w, r)
  <2>1. /\ job[w][r].pc # "ready"
        /\ \/ job' = [job EXCEPT ![w][r] = Read(job[w][r])]
           \/ job' = [job EXCEPT ![w][r] = Idle]
    BY <1>4 DEF Prepare
  <2>2. /\ job'[w][r] \in {Read(job[w][r]), Idle}
        /\ \A v \in Watchlist, q \in Revision : v # w \/ q # r => job'[v][q] = job[v][q]
    BY <2>1 DEF TypeOK
  <2>3. ReadsLeft(Read(job[w][r]).pc) < ReadsLeft(job[w][r].pc)
    BY <1>1, <2>1, ReadShortens
  <2> QED BY <1>2, <2>2, <2>3
<1>5. CASE Send(w, r) \/ Recover(w, r)
  <2>1. job' = [job EXCEPT ![w][r] = Idle]
    BY <1>5 DEF Send, Recover
  <2>2. /\ job'[w][r] = Idle
        /\ \A v \in Watchlist, q \in Revision : v # w \/ q # r => job'[v][q] = job[v][q]
    BY <2>1 DEF TypeOK
  <2> QED BY <1>2, <2>2
<1> QED BY <1>3, <1>4, <1>5 DEF DeliveryStep

\* A delivery cannot go round for ever, whatever is proposed, reviewed, planned and
\* edited while it reads: it is begun, left alone, or comes nearer its end.
THEOREM DeliveriesRunOut ==
    Spec => [][\A w \in Watchlist, r \in Revision :
                  /\ job'[w][r] = job[w][r] \/ job[w][r] = Idle
                        \/ ReadsLeft(job'[w][r].pc) < ReadsLeft(job[w][r].pc)
                  /\ DeliveryStep(w, r) /\ job[w][r] # Idle =>
                        ReadsLeft(job'[w][r].pc) < ReadsLeft(job[w][r].pc)]_vars
<1> DEFINE Nearer ==
        \A w \in Watchlist, r \in Revision :
            /\ job'[w][r] = job[w][r] \/ job[w][r] = Idle
                  \/ ReadsLeft(job'[w][r].pc) < ReadsLeft(job[w][r].pc)
            /\ DeliveryStep(w, r) /\ job[w][r] # Idle =>
                  ReadsLeft(job'[w][r].pc) < ReadsLeft(job[w][r].pc)
<1>1. DateChangeInv /\ [Next]_vars => [Nearer]_vars
  <2> SUFFICES ASSUME TypeOK, RowsAreApproved, Next, NEW w \in Watchlist, NEW r \in Revision
               PROVE  /\ job'[w][r] = job[w][r] \/ job[w][r] = Idle
                            \/ ReadsLeft(job'[w][r].pc) < ReadsLeft(job[w][r].pc)
                      /\ DeliveryStep(w, r) /\ job[w][r] # Idle =>
                            ReadsLeft(job'[w][r].pc) < ReadsLeft(job[w][r].pc)
    BY DEF DateChangeInv
  <2>0. \A v \in Watchlist, q \in Revision : job[v][q] = Idle <=> job[v][q].pc = "idle"
    <3>1. Idle.pc = "idle" /\ \A h \in Hydration : h.pc # "idle"
      BY DEF Idle, Hydration
    <3>2. \A v \in Watchlist, q \in Revision : job[v][q] \in {Idle} \cup Hydration
      BY DEF TypeOK
    <3> QED BY <3>1, <3>2
  <2>1. \A v \in Watchlist, q \in Revision : Claim(v, q) => job[v][q].pc = "idle"
    BY DEF Claim, RowsAreApproved
  <2>2. DeliveryStep(w, r) /\ job[w][r] # Idle => ReadsLeft(job'[w][r].pc) < ReadsLeft(job[w][r].pc)
    BY <2>0, <2>1, DeliveryShortens
  <2>3. ASSUME NEW v \in Watchlist, NEW q \in Revision, DeliveryStep(v, q) \/ Recover(v, q), ~Claim(v, q)
        PROVE  job'[w][r] = job[w][r] \/ ReadsLeft(job'[w][r].pc) < ReadsLeft(job[w][r].pc)
    <3>1. job[v][q].pc # "idle"
      BY <2>3 DEF DeliveryStep, HydrateJob, Prepare, Send, Recover
    <3> QED BY <2>3, <3>1, DeliveryShortens
  <2>4. ASSUME NEW v \in Watchlist, NEW q \in Revision, Claim(v, q)
        PROVE  job'[w][r] = job[w][r] \/ job[w][r] = Idle
    <3>1. job[v][q] = Idle
      BY <2>0, <2>1, <2>4
    <3> QED BY <2>4, <3>1, JobWritten DEF Claim
  <2>5. UNCHANGED job \/ \E v \in Watchlist, q \in Revision : DeliveryStep(v, q) \/ Recover(v, q)
    BY DEF Next, LoadSnapshot, CreateRevision, Approve, Reject, SweepStep, StartSweep, PlanNext,
           HydratePlan, CommitPlan, EndSweep, SweepError, Edit, Unsubscribe, Tick
  <2> QED BY <2>2, <2>3, <2>4, <2>5
<1> HIDE DEF Nearer
<1>2. Spec => [][Nearer]_vars
  BY <1>1, DateChangeSafety, PTL DEF Spec
<1> QED BY <1>2 DEF Nearer
=============================================================================
