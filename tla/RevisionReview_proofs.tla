------------------------ MODULE RevisionReview_proofs ------------------------
(***************************************************************************)
(* Proofs about RevisionReview, for every number of fields, dates, sources, *)
(* parse jobs, reviewers and revisions; about HtmlText and PdfText, for      *)
(* every set of pages and documents and every limit; and about ParseJob, for *)
(* every set of texts, catalogues, days and claims: what is read and         *)
(* proposed there (PartSpec of MCRevisionReview is the specification of its  *)
(* parts).                                                                   *)
(***************************************************************************)
EXTENDS MCRevisionReview, FiniteSetTheorems, WellFoundedInduction, TLAPS

LEMMA OpenJobs ==
    ASSUME TypeOK
    PROVE  /\ \A p \in Parser : parser[p].pc # "idle" => parser[p] \in ParseJob
           /\ \A v \in Reviewer : review[v].pc # "idle" => review[v] \in Decision
           /\ \A r \in Revision : revision[r].changeStatus # "NONE" => revision[r] \in Proposed
<1>1. Idle.pc = "idle" /\ NotProposed.changeStatus = "NONE"
  BY DEF Idle, NotProposed
<1> QED BY <1>1 DEF TypeOK

LEMMA ReviewInit == Init => ReviewInv
<1> SUFFICES ASSUME Init PROVE ReviewInv
  OBVIOUS
<1>1. Idle.pc = "idle" /\ NotProposed.changeStatus = "NONE"
  BY DEF Idle, NotProposed
<1>2. /\ \A r \in Revision : revision[r] = NotProposed
      /\ \A p \in Parser : parser[p] = Idle
      /\ \A v \in Reviewer : review[v] = Idle
  BY DEF Init
<1>3. \A f \in Field : Pending(f) = {}
  BY <1>1, <1>2 DEF Pending
<1>4. window \in Window
  <2>1. 0 \in Check /\ 1 \in Check
    BY ReviewAssumption DEF Check
  <2>2. CASE window = [date |-> [f \in Field |-> NoDate], publicStatus |-> "NOT_PUBLISHED",
                       lastVerifiedAt |-> 0, source |-> NoSource]
    BY <2>1, <2>2 DEF Window
  <2>3. ASSUME NEW d \in Date, NEW s \in Source, NEW status \in {"EXPECTED", "CONFIRMED"},
               window = [date |-> [f \in Field |-> d], publicStatus |-> status,
                         lastVerifiedAt |-> 1, source |-> s]
        PROVE  window \in Window
    <3>1. [f \in Field |-> d] \in [Field -> Date \cup {NoDate}]
      OBVIOUS
    <3> QED BY <2>1, <2>3, <3>1 DEF Window
  <2> QED BY <2>2, <2>3 DEF Init
<1>5. TypeOK
  <2>1. checkedAt \in [Source -> Check]
    BY ReviewAssumption DEF Init, Check
  <2>2. publishedBy \in [Field -> {0} \cup Revision]
    BY DEF Init
  <2> QED BY <1>4, <2>1, <2>2 DEF Init, TypeOK
<1>6. ComparedIsCurrent /\ ReviewedExists /\ CompetitorsFlagged
  <2>1. \A p \in Parser : parser[p].pc # "compared"
    BY <1>1, <1>2
  <2> QED BY <1>1, <1>2, <1>3, <2>1 DEF ComparedIsCurrent, ReviewedExists, CompetitorsFlagged
<1> QED BY <1>5, <1>6 DEF ReviewInv

\* Nobody compares and the revisions stay: only the processes' own state moves.
LEMMA ParserFrame ==
    ASSUME ReviewInv, NEW p \in Parser, NEW open \in {Idle} \cup ParseJob,
           parser' = [parser EXCEPT ![p] = open],
           open.pc # "compared",
           UNCHANGED <<published, checkedAt, revision, review>>
    PROVE  ReviewInv'
<1>0. TypeOK /\ ComparedIsCurrent /\ ReviewedExists /\ CompetitorsFlagged
  BY DEF ReviewInv
<1>1. TypeOK'
  BY <1>0 DEF TypeOK, published
<1>2. \A q \in Parser : parser'[q] = IF q = p THEN open ELSE parser[q]
  BY <1>0 DEF TypeOK
<1>3. \A f \in Field : Pending(f)' = Pending(f)
  BY DEF Pending
<1>4. \A q \in Parser : parser'[q].pc = "compared" => parser'[q] = parser[q]
  BY <1>2
<1>5. ComparedIsCurrent'
  <2>1. ASSUME NEW q \in Parser, parser'[q].pc = "compared", NEW r \in Pending(parser[q].field)'
        PROVE  parser'[q].conflict /\ revision'[r].new # parser'[q].new
    <3>1. parser'[q] = parser[q] /\ parser[q].pc = "compared"
      BY <1>4, <2>1
    <3>2. r \in Pending(parser[q].field)
      BY <2>1, <3>1 DEF Pending
    <3> QED BY <1>0, <3>1, <3>2 DEF ComparedIsCurrent
  <2> QED BY <1>0, <1>4, <2>1 DEF ComparedIsCurrent
<1>6. ReviewedExists' /\ CompetitorsFlagged'
  BY <1>0, <1>3 DEF ReviewedExists, CompetitorsFlagged, Pending
<1> QED BY <1>1, <1>5, <1>6 DEF ReviewInv

LEMMA StepLoadSnapshot == ASSUME ReviewInv, NEW p \in Parser, LoadSnapshot(p) PROVE ReviewInv'
<1>1. PICK s \in Source, f \in Field, d \in Date :
        parser' = [parser EXCEPT ![p] = [pc |-> "loaded", field |-> f, old |-> window.date[f],
                                         new |-> d, source |-> s, conflict |-> FALSE]]
  BY DEF LoadSnapshot
<1>2. window.date[f] \in Date \cup {NoDate}
  BY DEF ReviewInv, TypeOK, Window
<1>3. [pc |-> "loaded", field |-> f, old |-> window.date[f], new |-> d, source |-> s,
       conflict |-> FALSE] \in ParseJob
  BY <1>2 DEF ParseJob
<1>4. [pc |-> "loaded", field |-> f, old |-> window.date[f], new |-> d, source |-> s,
       conflict |-> FALSE].pc # "compared"
  OBVIOUS
<1> QED BY <1>1, <1>3, <1>4, ParserFrame DEF LoadSnapshot

LEMMA StepParseError == ASSUME ReviewInv, NEW p \in Parser, ParseError(p) PROVE ReviewInv'
<1>1. Idle.pc # "compared"
  BY DEF Idle
<1> QED BY <1>1, ParserFrame DEF ParseError

LEMMA StepComparePending == ASSUME ReviewInv, NEW p \in Parser, ComparePending(p) PROVE ReviewInv'
<1>0. TypeOK /\ ComparedIsCurrent /\ ReviewedExists /\ CompetitorsFlagged
  BY DEF ReviewInv
<1> DEFINE pending == Pending(parser[p].field)
           open == [parser[p] EXCEPT !.pc = "compared", !.conflict = pending # {}]
<1>1. CASE \E r \in pending : revision[r].new = parser[p].new
  <2>1. Idle.pc # "compared"
    BY DEF Idle
  <2> QED BY <1>1, <2>1, ParserFrame DEF ComparePending
<1>2. CASE ~\E r \in pending : revision[r].new = parser[p].new
  <2>1. parser[p] \in ParseJob
    BY <1>0, OpenJobs DEF ComparePending
  <2>2. open \in ParseJob /\ open.pc = "compared" /\ open.field = parser[p].field
        /\ open.new = parser[p].new /\ open.conflict = (pending # {})
    <3> HIDE DEF pending
    <3> QED BY <2>1 DEF ParseJob
  <2>3. parser' = [parser EXCEPT ![p] = open]
    BY <1>2 DEF ComparePending
  <2> HIDE DEF open
  <2>4. \A q \in Parser : parser'[q] = IF q = p THEN open ELSE parser[q]
    BY <1>0, <2>3 DEF TypeOK
  <2>5. UNCHANGED <<published, checkedAt, revision, review>>
    BY DEF ComparePending
  <2>6. TypeOK'
    BY <1>0, <2>2, <2>3, <2>5 DEF TypeOK, published
  <2>7. \A f : Pending(f)' = Pending(f)
    BY <2>5 DEF Pending
  <2>8. \A q \in Parser : q # p /\ parser[q].pc = "compared" => parser[q].field # parser[p].field
    BY DEF ComparePending, LockFree
  <2>9. ComparedIsCurrent'
    <3>1. ASSUME NEW q1 \in Parser, NEW q2 \in Parser, parser'[q1].pc = "compared",
                 parser'[q2].pc = "compared", parser'[q1].field = parser'[q2].field
          PROVE  q1 = q2
      BY <1>0, <2>2, <2>4, <2>8, <3>1 DEF ComparedIsCurrent
    <3>2. ASSUME NEW q \in Parser, parser'[q].pc = "compared", NEW r \in Pending(parser[q].field)'
          PROVE  parser'[q].conflict /\ revision'[r].new # parser'[q].new
      <4>1. r \in Pending(parser'[q].field)
        BY <2>7, <3>2
      <4>2. CASE q = p
        BY <1>2, <2>2, <2>4, <2>5, <4>1, <4>2
      <4>3. CASE q # p
        BY <1>0, <2>4, <2>5, <3>2, <4>1, <4>3 DEF ComparedIsCurrent
      <4> QED BY <4>2, <4>3
    <3> QED BY <3>1, <3>2 DEF ComparedIsCurrent
  <2>10. ReviewedExists' /\ CompetitorsFlagged'
    BY <1>0, <2>5, <2>7 DEF ReviewedExists, CompetitorsFlagged
  <2> QED BY <2>6, <2>9, <2>10 DEF ReviewInv
<1> QED BY <1>1, <1>2

LEMMA StepCreateRevision == ASSUME ReviewInv, NEW p \in Parser, CreateRevision(p) PROVE ReviewInv'
<1>0. TypeOK /\ ComparedIsCurrent /\ ReviewedExists /\ CompetitorsFlagged
  BY DEF ReviewInv
<1>1. parser[p] \in ParseJob /\ parser[p].pc = "compared"
  BY <1>0, OpenJobs DEF CreateRevision
<1> DEFINE f == parser[p].field
           fresh == [changeStatus |-> "PENDING", field |-> parser[p].field,
                     old |-> parser[p].old, new |-> parser[p].new,
                     source |-> parser[p].source, hasConflict |-> parser[p].conflict,
                     reviewedAt |-> 0]
<1>2. PICK new \in Revision :
        /\ Unused(new)
        /\ revision' = [r \in Revision |->
              IF r = new THEN fresh
              ELSE IF Flag(r, f, parser[p].conflict)
                   THEN [revision[r] EXCEPT !.hasConflict = TRUE] ELSE revision[r]]
  BY DEF CreateRevision
<1>3. f \in Field /\ parser[p].conflict \in BOOLEAN
  BY <1>1 DEF ParseJob
<1>4. fresh \in Proposed /\ fresh.changeStatus = "PENDING" /\ fresh.field = f
      /\ fresh.new = parser[p].new /\ fresh.hasConflict = parser[p].conflict
  BY <1>1 DEF ParseJob, Proposed
<1>5. revision[new].changeStatus = "NONE"
  BY <1>2 DEF Unused, Revision
<1> HIDE DEF fresh
<1>6. \A r \in Revision : r # new =>
        /\ revision'[r] \in {NotProposed} \cup Proposed
        /\ revision'[r].changeStatus = revision[r].changeStatus
        /\ revision[r].changeStatus # "NONE" =>
              /\ revision'[r].field = revision[r].field
              /\ revision'[r].new = revision[r].new
              /\ revision[r].hasConflict => revision'[r].hasConflict
              /\ (parser[p].conflict /\ r \in Pending(f)) => revision'[r].hasConflict
  <2> SUFFICES ASSUME NEW r \in Revision, r # new
               PROVE  /\ revision'[r] \in {NotProposed} \cup Proposed
                      /\ revision'[r].changeStatus = revision[r].changeStatus
                      /\ revision[r].changeStatus # "NONE" =>
                            /\ revision'[r].field = revision[r].field
                            /\ revision'[r].new = revision[r].new
                            /\ revision[r].hasConflict => revision'[r].hasConflict
                            /\ (parser[p].conflict /\ r \in Pending(f)) => revision'[r].hasConflict
    OBVIOUS
  <2>1. revision[r] \in {NotProposed} \cup Proposed
    BY <1>0 DEF TypeOK
  <2>2. CASE Flag(r, f, parser[p].conflict)
    <3>1. revision[r] \in Proposed
      BY <1>0, <2>2, OpenJobs DEF Flag, Pending
    <3>2. revision'[r] = [revision[r] EXCEPT !.hasConflict = TRUE]
      BY <1>2, <2>2
    <3> QED BY <3>1, <3>2 DEF Proposed
  <2>3. CASE ~Flag(r, f, parser[p].conflict)
    <3>1. revision'[r] = revision[r]
      BY <1>2, <2>3
    <3> QED BY <2>1, <2>3, <3>1 DEF Flag
  <2> QED BY <2>2, <2>3
<1>7. revision'[new] = fresh
  BY <1>2
<1>8. TypeOK'
  <2>1. revision' \in [Revision -> {NotProposed} \cup Proposed]
    <3>1. \A r \in Revision : revision'[r] \in {NotProposed} \cup Proposed
      BY <1>4, <1>6, <1>7
    <3>2. revision' = [r \in Revision |-> revision'[r]]
      BY <1>2
    <3> QED BY <3>1, <3>2
  <2>2. parser' \in [Parser -> {Idle} \cup ParseJob]
    <3>1. parser' = [parser EXCEPT ![p] = Idle] /\ parser \in [Parser -> {Idle} \cup ParseJob]
      BY <1>0 DEF CreateRevision, TypeOK
    <3> QED BY <3>1
  <2>3. UNCHANGED <<published, checkedAt, review>>
    BY DEF CreateRevision
  <2> QED BY <1>0, <2>1, <2>2, <2>3 DEF TypeOK, published
<1>9. \A q \in Parser : parser'[q] = IF q = p THEN Idle ELSE parser[q]
  BY <1>0 DEF TypeOK, CreateRevision
<1>10. \A g \in Field : \A r \in Pending(g)' :
         \/ r = new /\ g = f
         \/ r # new /\ r \in Pending(g)
  BY <1>4, <1>6, <1>7 DEF Pending
<1>11. ComparedIsCurrent'
  <2>1. \A q \in Parser : parser'[q].pc = "compared" =>
          q # p /\ parser'[q] = parser[q] /\ parser[q].field # f /\ parser[q].field \in Field
    <3>1. Idle.pc # "compared"
      BY DEF Idle
    <3>2. \A q \in Parser : parser[q].pc = "compared" => parser[q].field \in Field
      BY <1>0, OpenJobs DEF ParseJob
    <3>3. \A q \in Parser : q # p /\ parser[q].pc = "compared" => parser[q].field # f
      BY <1>0, <1>1 DEF ComparedIsCurrent
    <3> HIDE DEF f
    <3> SUFFICES ASSUME NEW q \in Parser, parser'[q].pc = "compared"
                 PROVE  q # p /\ parser'[q] = parser[q] /\ parser[q].field # f
                        /\ parser[q].field \in Field
      OBVIOUS
    <3>4. q # p
      BY <1>9, <3>1
    <3>5. parser'[q] = parser[q]
      BY <1>9, <3>4
    <3> QED BY <3>2, <3>3, <3>4, <3>5
  <2>2. ASSUME NEW q \in Parser, parser'[q].pc = "compared", NEW r \in Pending(parser[q].field)'
        PROVE  parser'[q].conflict /\ revision'[r].new # parser'[q].new
    <3>1. r # new /\ r \in Pending(parser[q].field)
      BY <1>10, <2>1, <2>2
    <3>2. r \in Revision /\ revision[r].changeStatus # "NONE"
      BY <3>1 DEF Pending
    <3> QED BY <1>0, <1>6, <2>1, <2>2, <3>1, <3>2 DEF ComparedIsCurrent
  <2> QED BY <1>0, <2>1, <2>2 DEF ComparedIsCurrent
<1>12. ReviewedExists'
  BY <1>0, <1>4, <1>6, <1>7, OpenJobs DEF ReviewedExists, CreateRevision, Decision
<1>13. CompetitorsFlagged'
  <2> SUFFICES ASSUME NEW g \in Field, NEW q \in Pending(g)', NEW r \in Pending(g)', q # r
               PROVE  revision'[q].hasConflict /\ revision'[q].new # revision'[r].new
    BY DEF CompetitorsFlagged
  <2>0. ASSUME NEW x \in Pending(f), x # new
        PROVE  /\ parser[p].conflict /\ revision'[x].hasConflict
               /\ revision'[x].new # fresh.new
    <3>1. x \in Revision /\ revision[x].changeStatus # "NONE"
      BY DEF Pending
    <3> QED BY <1>0, <1>1, <1>4, <1>6, <2>0, <3>1 DEF ComparedIsCurrent
  <2>1. CASE q = new
    BY <1>4, <1>7, <1>10, <2>0, <2>1
  <2>2. CASE r = new
    BY <1>4, <1>7, <1>10, <2>0, <2>2
  <2>3. CASE q # new /\ r # new
    <3>1. q \in Pending(g) /\ r \in Pending(g)
      BY <1>10, <2>3
    <3>2. /\ q \in Revision /\ revision[q].changeStatus # "NONE"
          /\ r \in Revision /\ revision[r].changeStatus # "NONE"
      BY <3>1 DEF Pending
    <3> QED BY <1>0, <1>6, <2>3, <3>1, <3>2 DEF CompetitorsFlagged
  <2> QED BY <2>1, <2>2, <2>3
<1> QED BY <1>8, <1>11, <1>12, <1>13 DEF ReviewInv

LEMMA ReviewFrame ==
    ASSUME ReviewInv, NEW v \in Reviewer, NEW dec \in {Idle} \cup Decision,
           review' = [review EXCEPT ![v] = dec],
           dec.pc # "idle" => revision[dec.revision].changeStatus # "NONE",
           UNCHANGED <<published, checkedAt, revision, parser>>
    PROVE  ReviewInv'
<1>0. TypeOK /\ ComparedIsCurrent /\ ReviewedExists /\ CompetitorsFlagged
  BY DEF ReviewInv
<1>1. TypeOK'
  BY <1>0 DEF TypeOK, published
<1>2. \A u \in Reviewer : review'[u] = IF u = v THEN dec ELSE review[u]
  BY <1>0 DEF TypeOK
<1>3. ReviewedExists'
  BY <1>0, <1>2 DEF ReviewedExists
<1>4. \A f : Pending(f)' = Pending(f)
  BY DEF Pending
<1>5. ComparedIsCurrent' /\ CompetitorsFlagged'
  BY <1>0, <1>4 DEF ComparedIsCurrent, CompetitorsFlagged
<1> QED BY <1>1, <1>3, <1>5 DEF ReviewInv

LEMMA StepRead ==
    ASSUME ReviewInv, NEW v \in Reviewer,
           FindRevision(v) \/ CountCompetitors(v) \/ ReadWindow(v) \/ ReviewError(v)
    PROVE  ReviewInv'
<1>0. TypeOK /\ ReviewedExists
  BY DEF ReviewInv
<1>1. Idle.pc = "idle"
  BY DEF Idle
<1>2. CASE FindRevision(v)
  <2>1. PICK r \in Revision, approve \in BOOLEAN :
          /\ Reviewable(r)
          /\ review' = [review EXCEPT ![v] =
                [pc |-> "found", revision |-> r, approve |-> approve,
                 hasConflict |-> revision[r].hasConflict,
                 checkedAt |-> checkedAt[revision[r].source], write |-> FALSE]]
    BY <1>2 DEF FindRevision
  <2>2. revision[r] \in Proposed /\ revision[r].changeStatus # "NONE"
    BY <1>0, <2>1, OpenJobs DEF Reviewable
  <2>3. revision[r].hasConflict \in BOOLEAN /\ checkedAt[revision[r].source] \in Check
    BY <1>0, <2>2 DEF TypeOK, Proposed
  <2> DEFINE dec == [pc |-> "found", revision |-> r, approve |-> approve,
                     hasConflict |-> revision[r].hasConflict,
                     checkedAt |-> checkedAt[revision[r].source], write |-> FALSE]
  <2>4. dec \in Decision /\ dec.revision = r
    BY <2>3 DEF Decision
  <2>5. review' = [review EXCEPT ![v] = dec] /\ UNCHANGED <<published, checkedAt, revision, parser>>
    BY <1>2, <2>1 DEF FindRevision
  <2> HIDE DEF dec
  <2> QED BY <2>2, <2>4, <2>5, ReviewFrame
<1>3. CASE CountCompetitors(v) \/ ReadWindow(v)
  <2>1. review[v] \in Decision /\ revision[review[v].revision].changeStatus # "NONE"
    BY <1>0, <1>3, OpenJobs DEF CountCompetitors, ReadWindow, ReviewedExists
  <2> DEFINE counted == [review[v] EXCEPT !.pc = "counted"]
             ready == [review[v] EXCEPT !.pc = "ready"]
             write == [review[v] EXCEPT !.pc = "ready", !.write = TRUE]
  <2>2. /\ counted \in Decision /\ counted.revision = review[v].revision
        /\ ready \in Decision /\ ready.revision = review[v].revision
        /\ write \in Decision /\ write.revision = review[v].revision
    BY <2>1 DEF Decision
  <2>3. UNCHANGED <<published, checkedAt, revision, parser>>
    BY <1>3 DEF CountCompetitors, ReadWindow
  <2>4. \/ review' = [review EXCEPT ![v] = Idle]
        \/ review' = [review EXCEPT ![v] = counted]
        \/ review' = [review EXCEPT ![v] = ready]
        \/ review' = [review EXCEPT ![v] = write]
    <3>1. CASE CountCompetitors(v)
      BY <3>1 DEF CountCompetitors
    <3>2. CASE ReadWindow(v)
      BY <3>2 DEF ReadWindow
    <3> QED BY <1>3, <3>1, <3>2
  <2> HIDE DEF counted, ready, write
  <2> QED BY <1>1, <2>1, <2>2, <2>3, <2>4, ReviewFrame
<1>4. CASE ReviewError(v)
  BY <1>1, <1>4, ReviewFrame DEF ReviewError
<1> QED BY <1>2, <1>3, <1>4

LEMMA StepCommit == ASSUME ReviewInv, NEW v \in Reviewer, CommitDecision(v) PROVE ReviewInv'
<1>0. TypeOK /\ ComparedIsCurrent /\ ReviewedExists /\ CompetitorsFlagged
  BY DEF ReviewInv
<1> DEFINE dec == review[v]
           r == review[v].revision
           decided == [revision[r] EXCEPT
                          !.changeStatus = IF review[v].approve THEN "APPROVED" ELSE "REJECTED",
                          !.hasConflict = ~review[v].approve /\ review[v].hasConflict,
                          !.reviewedAt = decisions + 1]
<1>1. dec \in Decision /\ r \in Revision /\ revision[r] \in Proposed
  <2>1. dec \in Decision /\ revision[r].changeStatus # "NONE"
    BY <1>0, OpenJobs DEF CommitDecision, ReviewedExists
  <2> QED BY <1>0, <2>1, OpenJobs DEF Decision
<1>2. decided \in Proposed /\ decided.changeStatus \notin {"PENDING", "NONE"}
  <2>1. dec.approve \in BOOLEAN /\ dec.hasConflict \in BOOLEAN /\ decisions + 1 \in Nat
    BY <1>0, <1>1 DEF Decision, TypeOK
  <2> QED BY <1>1, <2>1 DEF Proposed
<1>3. revision' = [revision EXCEPT ![r] = decided]
  BY DEF CommitDecision
<1>4. window' \in Window
  <2>1. revision[r].field \in Field /\ revision[r].new \in Date /\ revision[r].source \in Source
    BY <1>1 DEF Proposed
  <2>2. dec.checkedAt \in Check
    BY <1>1 DEF Decision
  <2>3. [window.date EXCEPT ![revision[r].field] = revision[r].new] \in [Field -> Date \cup {NoDate}]
    BY <1>0, <2>1 DEF TypeOK, Window
  <2>4. Applied(v) \in Window
    BY <1>0, <2>1, <2>2, <2>3 DEF Applied, TypeOK, Window
  <2> QED BY <2>4 DEF CommitDecision
<1> HIDE DEF decided
<1>5. \A q \in Revision : revision'[q] = IF q = r THEN decided ELSE revision[q]
  BY <1>0, <1>3 DEF TypeOK
<1>6. TypeOK'
  <2>1. revision' \in [Revision -> {NotProposed} \cup Proposed]
    BY <1>0, <1>2, <1>3 DEF TypeOK
  <2>2. review' \in [Reviewer -> {Idle} \cup Decision]
    BY <1>0 DEF TypeOK, CommitDecision
  <2>3. publishedBy' \in [Field -> {0} \cup Revision]
    BY <1>0, <1>1 DEF TypeOK, CommitDecision
  <2>4. decisions' \in Nat /\ UNCHANGED <<checkedAt, parser>>
    BY <1>0 DEF TypeOK, CommitDecision
  <2> QED BY <1>0, <1>4, <2>1, <2>2, <2>3, <2>4 DEF TypeOK
<1>7. \A f : \A q \in Pending(f)' : q \in Pending(f) /\ revision'[q] = revision[q]
  BY <1>2, <1>5 DEF Pending
<1>8. UNCHANGED parser
  BY DEF CommitDecision
<1>9. ComparedIsCurrent' /\ CompetitorsFlagged'
  BY <1>0, <1>7, <1>8 DEF ComparedIsCurrent, CompetitorsFlagged
<1>10. ReviewedExists'
  <2>1. \A u \in Reviewer : review'[u].pc # "idle" =>
          review'[u] = review[u] /\ review[u].pc # "idle" /\ review[u].revision \in Revision
    <3>1. Idle.pc = "idle"
      BY DEF Idle
    <3>2. \A u \in Reviewer : review'[u] = IF u = v THEN Idle ELSE review[u]
      BY <1>0 DEF CommitDecision, TypeOK
    <3> QED BY <1>0, <3>1, <3>2, OpenJobs DEF Decision
  <2> QED BY <1>0, <1>2, <1>5, <2>1 DEF ReviewedExists
<1> QED BY <1>6, <1>9, <1>10 DEF ReviewInv

LEMMA ReviewNext == ReviewInv /\ [Next]_vars => ReviewInv'
<1> SUFFICES ASSUME ReviewInv, [Next]_vars PROVE ReviewInv'
  OBVIOUS
<1>1. ASSUME NEW s \in Source, RecordSourceCheck(s) PROVE ReviewInv'
  <2>1. \A f : Pending(f)' = Pending(f)
    BY <1>1 DEF RecordSourceCheck, Pending
  <2>2. checkedAt' \in [Source -> Check]
    BY <1>1 DEF RecordSourceCheck, ReviewInv, TypeOK, Check
  <2> QED BY <1>1, <2>1, <2>2 DEF RecordSourceCheck, ReviewInv, TypeOK, ComparedIsCurrent,
                                  ReviewedExists, CompetitorsFlagged, published
<1>2. CASE UNCHANGED vars
  <2>1. \A f : Pending(f)' = Pending(f)
    BY <1>2 DEF vars, Pending
  <2> QED BY <1>2, <2>1 DEF vars, published, ReviewInv, TypeOK, ComparedIsCurrent,
                            ReviewedExists, CompetitorsFlagged
<1> QED BY <1>1, <1>2, StepLoadSnapshot, StepComparePending, StepCreateRevision, StepParseError,
           StepRead, StepCommit DEF Next, ParserStep, ReviewStep

\* The inductive invariant of proposing and reviewing dates.
THEOREM ReviewInvariant == Spec => []ReviewInv
BY ReviewInit, ReviewNext, PTL DEF Spec

\* Two pending revisions of one date differ and are both marked as competing.
THEOREM Competitors == Spec => []CompetitorsFlagged
<1>1. ReviewInv => CompetitorsFlagged
  BY DEF ReviewInv
<1> QED BY <1>1, ReviewInvariant, PTL

-----------------------------------------------------------------------------
(* What reviews read one after the other: as long as no two of them decide   *)
(* one revision, of two on competing revisions only one gets past the count  *)
(* of competitors, and so no other writes the date it leaves alone.          *)

Decided(r) == revision[r].changeStatus \in {"APPROVED", "REJECTED"}
OnPending(v) == review[v].pc # "idle" /\ revision[review[v].revision].changeStatus = "PENDING"
Rivals(u, v) ==
    /\ OnPending(u) /\ OnPending(v)
    /\ review[u].revision # review[v].revision
    /\ revision[review[u].revision].field = revision[review[v].revision].field
Past(v) == review[v].pc \in {"counted", "ready"}

DecisionsCounted ==
    \A r \in Revision :
        /\ revision[r].changeStatus = "PENDING" => revision[r].reviewedAt = 0
        /\ Decided(r) => revision[r].reviewedAt \in 1..decisions
        /\ \A q \in Revision :
              Decided(q) /\ Decided(r) /\ revision[q].reviewedAt = revision[r].reviewedAt => q = r

\* Who found a revision unmarked found it without rivals; whoever finds a rival then
\* finds it marked, and is kept at the count while both are pending.
RivalsMarked ==
    \A u, v \in Reviewer :
        Rivals(u, v) /\ ~review[v].hasConflict => review[u].hasConflict /\ ~Past(u)
OnePast == \A u, v \in Reviewer : Rivals(u, v) => ~(Past(u) /\ Past(v))

InForceStays ==
    EachDecidedOnce =>
        \A v \in Reviewer : review[v].pc = "ready" /\ ~review[v].write /\ OnPending(v) =>
            window.date[revision[review[v].revision].field] = revision[review[v].revision].new

\* Only an approval gets past the first read, and only its last read decides to write.
WriteIsApproval ==
    \A v \in Reviewer : review[v].pc # "idle" =>
        /\ review[v].pc = "found" => ~review[v].write
        /\ review[v].pc # "found" => review[v].approve

PublishInv ==
    /\ ReviewInv
    /\ DecisionsCounted
    /\ RivalsMarked
    /\ OnePast
    /\ InForceStays
    /\ WriteIsApproval
    /\ ReviewsPublish

LEMMA PublishInit == Init => PublishInv
<1> SUFFICES ASSUME Init PROVE PublishInv
  OBVIOUS
<1>1. Idle.pc = "idle" /\ NotProposed.changeStatus = "NONE"
  BY DEF Idle, NotProposed
<1>2. /\ \A r \in Revision : revision[r] = NotProposed
      /\ \A v \in Reviewer : review[v] = Idle
      /\ \A f \in Field : publishedBy[f] = 0
  BY DEF Init
<1>3. DecisionsCounted /\ RivalsMarked /\ OnePast /\ InForceStays /\ WriteIsApproval
  BY <1>1, <1>2 DEF DecisionsCounted, RivalsMarked, OnePast, InForceStays, WriteIsApproval,
                    Decided, Rivals, OnPending
<1>4. ReviewsPublish
  BY <1>1, <1>2 DEF ReviewsPublish, PublishedIsApproved, ApprovedIsPublished, LatestApproved
<1> QED BY <1>3, <1>4, ReviewInit DEF PublishInv

\* What the reviews see of the revisions stays, but for new ones.
LEMMA PublishGrows ==
    ASSUME PublishInv, UNCHANGED <<published, review>>, TypeOK', ReviewInv',
           \A r \in Revision :
              \/ /\ revision'[r].changeStatus = revision[r].changeStatus
                 /\ revision[r].changeStatus # "NONE" =>
                       /\ revision'[r].field = revision[r].field
                       /\ revision'[r].new = revision[r].new
                       /\ revision'[r].reviewedAt = revision[r].reviewedAt
              \/ /\ revision[r].changeStatus = "NONE"
                 /\ revision'[r].changeStatus = "PENDING" /\ revision'[r].reviewedAt = 0
    PROVE  PublishInv'
<1> USE DEF published
<1>0. TypeOK /\ ReviewedExists /\ DecisionsCounted /\ decisions \in Nat
  BY DEF PublishInv, ReviewInv, TypeOK
<1>1. \A r \in Revision : revision[r].changeStatus # "NONE" =>
        /\ revision'[r].changeStatus = revision[r].changeStatus
        /\ revision'[r].field = revision[r].field
        /\ revision'[r].new = revision[r].new
        /\ revision'[r].reviewedAt = revision[r].reviewedAt
  OBVIOUS
<1>2. \A r \in Revision : (revision'[r].changeStatus \in {"APPROVED", "REJECTED"} => revision[r].changeStatus # "NONE")
  OBVIOUS
<1>3. \A v \in Reviewer : review[v].pc # "idle" =>
        review[v].revision \in Revision /\ revision[review[v].revision].changeStatus # "NONE"
  BY <1>0, OpenJobs DEF ReviewedExists, Decision
<1>4. \A v \in Reviewer : OnPending(v)' = OnPending(v) /\ Past(v)' = Past(v)
  BY <1>1, <1>3 DEF OnPending, Past
<1>5. \A u, v \in Reviewer : Rivals(u, v)' = Rivals(u, v)
  <2> TAKE u, v \in Reviewer
  <2>1. OnPending(u) => revision'[review[u].revision].field = revision[review[u].revision].field
    BY <1>1, <1>3 DEF OnPending
  <2>2. OnPending(v) => revision'[review[v].revision].field = revision[review[v].revision].field
    BY <1>1, <1>3 DEF OnPending
  <2> QED BY <1>4, <2>1, <2>2 DEF Rivals
<1>6. \A r \in Revision : Decided(r)' = Decided(r)
  BY <1>1, <1>2 DEF Decided
<1>7. DecisionsCounted'
  <2>1. \A r \in Revision : Decided(r) => revision'[r].reviewedAt = revision[r].reviewedAt
    BY <1>1 DEF Decided
  <2>2. \A r \in Revision : revision'[r].changeStatus = "PENDING" => revision'[r].reviewedAt = 0
    BY <1>0 DEF DecisionsCounted
  <2> QED BY <1>0, <1>6, <2>1, <2>2 DEF DecisionsCounted
<1>8. EachDecidedOnce' => EachDecidedOnce
  <2> SUFFICES ASSUME EachDecidedOnce', NEW n \in 1..decisions
               PROVE \E r \in Revision : revision[r].changeStatus # "NONE" /\ revision[r].reviewedAt = n
    BY DEF EachDecidedOnce
  <2>1. PICK r \in Revision : revision'[r].changeStatus # "NONE" /\ revision'[r].reviewedAt = n
    BY DEF EachDecidedOnce
  <2>2. n # 0
    BY <1>0
  <2> QED BY <1>1, <2>1, <2>2
<1>9. RivalsMarked' /\ OnePast' /\ WriteIsApproval'
  BY <1>4, <1>5 DEF PublishInv, RivalsMarked, OnePast, WriteIsApproval
<1>10. InForceStays'
  <2> SUFFICES ASSUME EachDecidedOnce, NEW v \in Reviewer, review[v].pc = "ready", ~review[v].write, OnPending(v)
               PROVE  window.date[revision'[review[v].revision].field] = revision'[review[v].revision].new
    BY <1>4, <1>8 DEF InForceStays
  <2>1. review[v].revision \in Revision /\ revision[review[v].revision].changeStatus # "NONE"
    BY <1>3
  <2> QED BY <1>1, <2>1 DEF PublishInv, InForceStays
<1>11. ReviewsPublish'
  <2> SUFFICES ASSUME EachDecidedOnce PROVE PublishedIsApproved' /\ ApprovedIsPublished'
    BY <1>8 DEF ReviewsPublish
  <2>1. PublishedIsApproved /\ ApprovedIsPublished
    BY DEF PublishInv, ReviewsPublish
  <2>2. PublishedIsApproved'
    BY <1>0, <1>1, <2>1 DEF PublishedIsApproved, TypeOK
  <2>3. \A f \in Field : LatestApproved(f)' \subseteq LatestApproved(f)
    BY <1>1, <1>2 DEF LatestApproved
  <2>4. \A f \in Field : \A r \in LatestApproved(f) : r \in Revision /\ revision'[r].new = revision[r].new
    BY <1>1 DEF LatestApproved
  <2>5. ApprovedIsPublished'
    BY <2>1, <2>3, <2>4 DEF ApprovedIsPublished
  <2> QED BY <2>2, <2>5
<1> QED BY <1>7, <1>9, <1>10, <1>11 DEF PublishInv

LEMMA PublishParser == ASSUME PublishInv, NEW p \in Parser, ParserStep(p), ReviewInv' PROVE PublishInv'
<1>0. TypeOK'
  BY DEF ReviewInv
<1>1. CASE LoadSnapshot(p) \/ ComparePending(p) \/ ParseError(p)
  <2>1. UNCHANGED <<published, review, revision>>
    BY <1>1 DEF LoadSnapshot, ComparePending, ParseError
  <2> QED BY <1>0, <2>1, PublishGrows
<1>2. CASE CreateRevision(p)
  <2>0. TypeOK
    BY DEF PublishInv, ReviewInv
  <2>1. PICK new \in Revision :
          /\ Unused(new)
          /\ revision' = [r \in Revision |->
                IF r = new
                THEN [changeStatus |-> "PENDING", field |-> parser[p].field, old |-> parser[p].old,
                      new |-> parser[p].new, source |-> parser[p].source,
                      hasConflict |-> parser[p].conflict, reviewedAt |-> 0]
                ELSE IF Flag(r, parser[p].field, parser[p].conflict)
                THEN [revision[r] EXCEPT !.hasConflict = TRUE]
                ELSE revision[r]]
    BY <1>2 DEF CreateRevision
  <2>2. revision[new].changeStatus = "NONE"
    BY <2>1 DEF Unused, Revision
  <2>3. ASSUME NEW r \in Revision
        PROVE \/ /\ revision'[r].changeStatus = revision[r].changeStatus
                 /\ revision[r].changeStatus # "NONE" =>
                       /\ revision'[r].field = revision[r].field
                       /\ revision'[r].new = revision[r].new
                       /\ revision'[r].reviewedAt = revision[r].reviewedAt
              \/ /\ revision[r].changeStatus = "NONE"
                 /\ revision'[r].changeStatus = "PENDING" /\ revision'[r].reviewedAt = 0
    <3>1. CASE r = new
      BY <2>1, <2>2, <3>1
    <3>2. CASE r # new /\ Flag(r, parser[p].field, parser[p].conflict)
      <4>1. revision[r] \in Proposed
        BY <2>0, <3>2, OpenJobs DEF Flag, Pending
      <4>2. revision'[r] = [revision[r] EXCEPT !.hasConflict = TRUE]
        BY <2>1, <3>2
      <4> QED BY <4>1, <4>2 DEF Proposed
    <3>3. CASE r # new /\ ~Flag(r, parser[p].field, parser[p].conflict)
      BY <2>1, <3>3
    <3> QED BY <3>1, <3>2, <3>3
  <2>4. UNCHANGED <<published, review>>
    BY <1>2 DEF CreateRevision
  <2> QED BY <1>0, <2>3, <2>4, PublishGrows
<1> QED BY <1>1, <1>2 DEF ParserStep

\* The steps of a review before its commit change only what it has read.
LEMMA PublishRead ==
    ASSUME PublishInv, NEW v \in Reviewer, ReviewInv',
           FindRevision(v) \/ CountCompetitors(v) \/ ReadWindow(v) \/ ReviewError(v)
    PROVE  PublishInv'
<1>0. TypeOK /\ ReviewedExists /\ CompetitorsFlagged /\ RivalsMarked /\ OnePast /\ InForceStays
      /\ WriteIsApproval /\ DecisionsCounted /\ ReviewsPublish
  BY DEF PublishInv, ReviewInv
<1>1. UNCHANGED <<window, decisions, publishedBy, revision>>
  BY DEF published, FindRevision, CountCompetitors, ReadWindow, ReviewError
<1>2. DecisionsCounted' /\ ReviewsPublish' /\ EachDecidedOnce' = EachDecidedOnce
  BY <1>0, <1>1 DEF DecisionsCounted, Decided, ReviewsPublish, EachDecidedOnce, PublishedIsApproved,
                    ApprovedIsPublished, LatestApproved
<1>3. \A u \in Reviewer : u # v => review'[u] = review[u]
  BY <1>0 DEF FindRevision, CountCompetitors, ReadWindow, ReviewError, TypeOK
<1>4. \A u \in Reviewer : review[u].pc # "idle" => review[u] \in Decision /\ review[u].revision \in Revision
  BY <1>0, OpenJobs DEF Decision
<1>5. Idle.pc = "idle"
  BY DEF Idle
<1>6. ASSUME review'[v].pc = "idle"
      PROVE  RivalsMarked' /\ OnePast' /\ InForceStays' /\ WriteIsApproval'
  BY <1>0, <1>1, <1>2, <1>3, <1>6 DEF RivalsMarked, OnePast, InForceStays, WriteIsApproval, Rivals,
                                      OnPending, Past
<1>7. CASE FindRevision(v)
  <2>1. PICK r \in Revision : /\ revision[r].changeStatus = "PENDING"
                              /\ review'[v].pc = "found" /\ review'[v].revision = r /\ ~review'[v].write
                              /\ review'[v].hasConflict = revision[r].hasConflict
    BY <1>0, <1>7 DEF FindRevision, Reviewable, TypeOK
  <2>2. ~Past(v)'
    BY <2>1 DEF Past
  <2>3. \A u \in Reviewer : Rivals(u, v)' \/ Rivals(v, u)' => u # v /\ review'[v].hasConflict
    <3> SUFFICES ASSUME NEW u \in Reviewer, Rivals(u, v)' \/ Rivals(v, u)'
                 PROVE  u # v /\ revision[r].hasConflict
      BY <2>1
    <3>1. u # v
      BY DEF Rivals
    <3>2. /\ review[u].pc # "idle" /\ review[u].revision # r
          /\ revision[review[u].revision].changeStatus = "PENDING"
          /\ revision[review[u].revision].field = revision[r].field
      BY <1>1, <1>3, <2>1, <3>1 DEF Rivals, OnPending
    <3>3. review[u].revision \in Revision /\ revision[r].field \in Field
      BY <1>0, <1>4, <2>1, <3>2, OpenJobs DEF Proposed
    <3> QED BY <1>0, <2>1, <3>1, <3>2, <3>3 DEF CompetitorsFlagged, Pending
  <2>4. \A u, w \in Reviewer : u # v /\ w # v =>
          Rivals(u, w)' = Rivals(u, w) /\ Past(u)' = Past(u) /\ review'[w] = review[w] /\ review'[u] = review[u]
    BY <1>1, <1>3 DEF Rivals, OnPending, Past
  <2>5. RivalsMarked'
    <3> SUFFICES ASSUME NEW u \in Reviewer, NEW w \in Reviewer, Rivals(u, w)', ~review'[w].hasConflict
                 PROVE  review'[u].hasConflict /\ ~Past(u)'
      BY DEF RivalsMarked
    <3>1. w # v
      BY <2>3
    <3>2. CASE u = v
      BY <2>2, <2>3, <3>2
    <3>3. CASE u # v
      BY <1>0, <2>4, <3>1, <3>3 DEF RivalsMarked
    <3> QED BY <3>2, <3>3
  <2>6. OnePast'
    <3> SUFFICES ASSUME NEW u \in Reviewer, NEW w \in Reviewer, Rivals(u, w)' PROVE ~(Past(u)' /\ Past(w)')
      BY DEF OnePast
    <3> QED BY <1>0, <2>2, <2>4 DEF OnePast
  <2>7. InForceStays' /\ WriteIsApproval'
    BY <1>0, <1>1, <1>2, <1>3, <2>1 DEF InForceStays, WriteIsApproval, OnPending
  <2> QED BY <1>2, <2>5, <2>6, <2>7 DEF PublishInv
<1>8. CASE CountCompetitors(v) /\ review'[v].pc # "idle"
  <2>1. /\ review[v].pc = "found" /\ review[v].approve
        /\ ~(review[v].hasConflict /\ Pending(revision[review[v].revision].field) \ {review[v].revision} # {})
        /\ review' = [review EXCEPT ![v].pc = "counted"]
    BY <1>0, <1>5, <1>8 DEF CountCompetitors, TypeOK
  <2>2. /\ review'[v].pc = "counted" /\ review'[v].approve = review[v].approve
        /\ review'[v].revision = review[v].revision /\ review'[v].hasConflict = review[v].hasConflict
    BY <1>0, <1>4, <2>1 DEF TypeOK, Decision
  <2>3. \A u, w \in Reviewer : /\ Rivals(u, w)' = Rivals(u, w)
                               /\ review'[u].hasConflict = review[u].hasConflict
                               /\ u # v => Past(u)' = Past(u)
    BY <1>1, <1>3, <2>1, <2>2 DEF Rivals, OnPending, Past
  <2>4. \A u \in Reviewer : Rivals(u, v) \/ Rivals(v, u) => u # v /\ ~review[v].hasConflict
    <3> SUFFICES ASSUME NEW u \in Reviewer, Rivals(u, v) \/ Rivals(v, u) PROVE u # v /\ ~review[v].hasConflict
      OBVIOUS
    <3>1. /\ u # v /\ review[u].pc # "idle" /\ review[u].revision # review[v].revision
          /\ revision[review[u].revision].changeStatus = "PENDING"
          /\ revision[review[u].revision].field = revision[review[v].revision].field
      BY DEF Rivals, OnPending
    <3> QED BY <1>4, <2>1, <3>1 DEF Pending
  <2>5. RivalsMarked'
    <3> SUFFICES ASSUME NEW u \in Reviewer, NEW w \in Reviewer, Rivals(u, w), ~review[w].hasConflict
                 PROVE  review[u].hasConflict /\ ~Past(u)'
      BY <2>3 DEF RivalsMarked
    <3>1. review[u].hasConflict /\ ~Past(u)
      BY <1>0 DEF RivalsMarked
    <3>2. u # v
      BY <2>4, <3>1
    <3> QED BY <2>3, <3>1, <3>2
  <2>6. OnePast'
    <3> SUFFICES ASSUME NEW u \in Reviewer, NEW w \in Reviewer, Rivals(u, w) PROVE ~(Past(u)' /\ Past(w)')
      BY <2>3 DEF OnePast
    <3>1. Rivals(w, u)
      BY DEF Rivals
    <3>2. CASE u = v
      BY <1>0, <2>3, <2>4, <3>1, <3>2 DEF RivalsMarked
    <3>3. CASE w = v
      BY <1>0, <2>3, <2>4, <3>3 DEF RivalsMarked
    <3>4. CASE u # v /\ w # v
      BY <1>0, <2>3, <3>4 DEF OnePast
    <3> QED BY <3>2, <3>3, <3>4
  <2>7. InForceStays' /\ WriteIsApproval'
    BY <1>0, <1>1, <1>2, <1>3, <2>1, <2>2 DEF InForceStays, WriteIsApproval, OnPending
  <2> QED BY <1>2, <2>5, <2>6, <2>7 DEF PublishInv
<1>9. CASE ReadWindow(v) /\ review'[v].pc # "idle"
  <2> DEFINE ready == [review[v] EXCEPT !.pc = "ready"]
             write == [review[v] EXCEPT !.pc = "ready", !.write = TRUE]
  <2>1. review[v].pc = "counted" /\ review[v] \in Decision /\ review[v].approve
    BY <1>0, <1>4, <1>9 DEF ReadWindow, WriteIsApproval
  <2>2. /\ ready.pc = "ready" /\ ready.approve = review[v].approve
        /\ ready.revision = review[v].revision /\ ready.hasConflict = review[v].hasConflict
        /\ write.pc = "ready" /\ write.approve = review[v].approve /\ write.write
        /\ write.revision = review[v].revision /\ write.hasConflict = review[v].hasConflict
    BY <2>1 DEF Decision
  <2>3. (InForce(v) /\ review'[v] = ready) \/ review'[v] = write
    BY <1>0, <1>5, <1>9 DEF ReadWindow, TypeOK
  <2> HIDE DEF ready, write
  <2>4. /\ review'[v].pc = "ready" /\ review'[v].approve = review[v].approve
        /\ review'[v].revision = review[v].revision /\ review'[v].hasConflict = review[v].hasConflict
        /\ InForce(v) \/ review'[v].write
    <3>1. CASE InForce(v) /\ review'[v] = ready
      BY <2>2, <3>1
    <3>2. CASE review'[v] = write
      BY <2>2, <3>2
    <3> QED BY <2>3, <3>1, <3>2
  <2>5. \A u, w \in Reviewer : /\ Rivals(u, w)' = Rivals(u, w) /\ Past(u)' = Past(u)
                               /\ review'[u].hasConflict = review[u].hasConflict
    BY <1>1, <1>3, <2>1, <2>4 DEF Rivals, OnPending, Past
  <2>6. RivalsMarked' /\ OnePast'
    BY <1>0, <2>5 DEF RivalsMarked, OnePast
  <2>7. InForceStays'
    <3> SUFFICES ASSUME EachDecidedOnce, NEW u \in Reviewer,
                        review'[u].pc = "ready", ~review'[u].write, OnPending(u)'
                 PROVE  window.date[revision[review'[u].revision].field] = revision[review'[u].revision].new
      BY <1>1, <1>2 DEF InForceStays
    <3>1. CASE u = v
      BY <2>4, <3>1 DEF InForce
    <3>2. CASE u # v
      BY <1>0, <1>1, <1>3, <3>2 DEF InForceStays, OnPending
    <3> QED BY <3>1, <3>2
  <2>8. WriteIsApproval'
    BY <1>0, <1>3, <2>1, <2>4 DEF WriteIsApproval
  <2> QED BY <1>2, <2>6, <2>7, <2>8 DEF PublishInv
<1>10. CASE ReviewError(v)
  <2>1. review'[v].pc = "idle"
    BY <1>0, <1>5, <1>10 DEF ReviewError, TypeOK
  <2> QED BY <1>2, <1>6, <2>1 DEF PublishInv
<1> QED BY <1>2, <1>6, <1>7, <1>8, <1>9, <1>10 DEF PublishInv

\* A decision that leaves every decision in its place was of a pending revision, and
\* every decision before it was in its place.
LEMMA DecidedOnce ==
    ASSUME PublishInv, NEW v \in Reviewer, CommitDecision(v), EachDecidedOnce',
           NEW r, r = review[v].revision, NEW decided, decided.reviewedAt = decisions + 1,
           r \in Revision, revision[r].changeStatus # "NONE",
           \A q \in Revision : revision'[q] = IF q = r THEN decided ELSE revision[q]
    PROVE  EachDecidedOnce /\ revision[r].changeStatus = "PENDING"
<1>1. decisions \in Nat /\ decisions' = decisions + 1 /\ DecisionsCounted /\ TypeOK
  BY DEF PublishInv, ReviewInv, TypeOK, CommitDecision
<1>2. \A n \in 1..decisions : \E q \in Revision :
        q # r /\ revision[q].changeStatus # "NONE" /\ revision[q].reviewedAt = n
  <2> SUFFICES ASSUME NEW n \in 1..decisions
               PROVE  \E q \in Revision : q # r /\ revision[q].changeStatus # "NONE" /\ revision[q].reviewedAt = n
    OBVIOUS
  <2>1. n \in 1..decisions' /\ n # decisions + 1
    BY <1>1
  <2>2. PICK q \in Revision : revision'[q].changeStatus # "NONE" /\ revision'[q].reviewedAt = n
    BY <2>1 DEF EachDecidedOnce
  <2>3. q # r
    BY <2>1, <2>2
  <2> QED BY <2>2, <2>3
<1>3. EachDecidedOnce
  BY <1>2 DEF EachDecidedOnce
<1>4. revision[r].changeStatus = "PENDING"
  <2> SUFFICES ASSUME revision[r].changeStatus # "PENDING" PROVE FALSE
    OBVIOUS
  <2>1. Decided(r) /\ revision[r].reviewedAt \in 1..decisions
    BY <1>1, OpenJobs DEF Decided, Proposed, DecisionsCounted
  <2>2. PICK q \in Revision :
          q # r /\ revision[q].changeStatus # "NONE" /\ revision[q].reviewedAt = revision[r].reviewedAt
    BY <1>2, <2>1
  <2>3. Decided(q)
    BY <1>1, <2>1, <2>2, OpenJobs DEF Decided, Proposed, DecisionsCounted
  <2> QED BY <1>1, <2>1, <2>2, <2>3 DEF DecisionsCounted
<1> QED BY <1>3, <1>4

LEMMA PublishCommit == ASSUME PublishInv, NEW v \in Reviewer, CommitDecision(v) PROVE PublishInv'
<1>1. ReviewInv'
  BY StepCommit DEF PublishInv
<1>2. TypeOK /\ ReviewedExists /\ RivalsMarked /\ OnePast /\ InForceStays
      /\ WriteIsApproval /\ DecisionsCounted /\ ReviewsPublish
  BY DEF PublishInv, ReviewInv
<1> DEFINE r == review[v].revision
           decided == [revision[r] EXCEPT
                          !.changeStatus = IF review[v].approve THEN "APPROVED" ELSE "REJECTED",
                          !.hasConflict = ~review[v].approve /\ review[v].hasConflict,
                          !.reviewedAt = decisions + 1]
<1>3. review[v] \in Decision /\ r \in Revision /\ revision[r] \in Proposed
      /\ revision[r].changeStatus # "NONE"
  BY <1>2, OpenJobs DEF CommitDecision, ReviewedExists, Decision
<1>4. /\ decided.changeStatus = IF review[v].approve THEN "APPROVED" ELSE "REJECTED"
      /\ decided.reviewedAt = decisions + 1
      /\ decided.field = revision[r].field /\ decided.new = revision[r].new
  BY <1>3 DEF Proposed
<1>5. revision' = [revision EXCEPT ![r] = decided]
  BY DEF CommitDecision
<1> HIDE DEF decided
<1>6. \A q \in Revision : revision'[q] = IF q = r THEN decided ELSE revision[q]
  BY <1>2, <1>5 DEF TypeOK
<1>7. decisions \in Nat /\ decisions' = decisions + 1
  BY <1>2 DEF TypeOK, CommitDecision
<1>8. /\ review'[v].pc = "idle"
      /\ \A u \in Reviewer : u # v => review'[u] = review[u]
  BY <1>2 DEF CommitDecision, Idle, TypeOK
<1>9. EachDecidedOnce' => EachDecidedOnce /\ revision[r].changeStatus = "PENDING"
  BY <1>3, <1>4, <1>6, DecidedOnce
<1>10. \A u \in Reviewer : OnPending(u)' =>
          /\ u # v /\ OnPending(u) /\ review[u].revision # r /\ review[u].revision \in Revision
          /\ revision'[review[u].revision] = revision[review[u].revision]
  <2> SUFFICES ASSUME NEW u \in Reviewer, OnPending(u)'
               PROVE  /\ u # v /\ OnPending(u) /\ review[u].revision # r /\ review[u].revision \in Revision
                      /\ revision'[review[u].revision] = revision[review[u].revision]
    OBVIOUS
  <2>1. u # v /\ review[u].pc # "idle" /\ revision'[review[u].revision].changeStatus = "PENDING"
    BY <1>8 DEF OnPending
  <2>2. review[u].revision \in Revision
    BY <1>2, <2>1, OpenJobs DEF Decision
  <2>3. review[u].revision # r
    BY <1>4, <1>6, <2>1, <2>2
  <2> QED BY <1>6, <2>1, <2>2, <2>3 DEF OnPending
<1>11. \A u, w \in Reviewer : Rivals(u, w)' =>
          Rivals(u, w) /\ review'[u] = review[u] /\ review'[w] = review[w]
  BY <1>8, <1>10 DEF Rivals
<1>12. RivalsMarked' /\ OnePast'
  BY <1>2, <1>11 DEF RivalsMarked, OnePast, Past
<1>13. WriteIsApproval'
  BY <1>2, <1>8 DEF WriteIsApproval
<1>14. DecisionsCounted'
  <2>1. \A q \in Revision : revision'[q].changeStatus = "PENDING" => revision'[q].reviewedAt = 0
    BY <1>2, <1>4, <1>6 DEF DecisionsCounted
  <2>2. \A q \in Revision : q # r /\ Decided(q)' =>
          Decided(q) /\ revision'[q].reviewedAt = revision[q].reviewedAt /\ revision[q].reviewedAt \in 1..decisions
    BY <1>2, <1>6 DEF DecisionsCounted, Decided
  <2>3. \A q \in Revision : Decided(q)' => revision'[q].reviewedAt \in 1..decisions'
    BY <1>4, <1>6, <1>7, <2>2
  <2>4. ASSUME NEW q \in Revision, NEW x \in Revision, Decided(q)', Decided(x)',
               revision'[q].reviewedAt = revision'[x].reviewedAt
        PROVE  q = x
    <3>1. revision'[r].reviewedAt = decisions + 1
      BY <1>3, <1>4, <1>6
    <3>2. CASE q = r \/ x = r
      BY <1>7, <2>2, <2>4, <3>1, <3>2
    <3>3. CASE q # r /\ x # r
      BY <1>2, <2>2, <2>4, <3>3 DEF DecisionsCounted
    <3> QED BY <3>2, <3>3
  <2> QED BY <2>1, <2>3, <2>4 DEF DecisionsCounted
<1>15. window.date \in [Field -> Date \cup {NoDate}] /\ revision[r].field \in Field
       /\ publishedBy \in [Field -> {0} \cup Revision]
  BY <1>2, <1>3 DEF TypeOK, Window, Proposed
<1>16. \A f \in Field : ~(review[v].write /\ f = revision[r].field) =>
          window'.date[f] = window.date[f] /\ publishedBy'[f] = publishedBy[f]
  BY <1>15 DEF CommitDecision, Applied
<1>17. review[v].write =>
          /\ window'.date[revision[r].field] = revision[r].new
          /\ publishedBy'[revision[r].field] = r
          /\ review[v].approve /\ Past(v)
  BY <1>2, <1>15 DEF CommitDecision, Applied, WriteIsApproval, Past
<1>18. InForceStays'
  <2> SUFFICES ASSUME EachDecidedOnce', NEW u \in Reviewer,
                      review'[u].pc = "ready", ~review'[u].write, OnPending(u)'
               PROVE  window'.date[revision'[review'[u].revision].field] = revision'[review'[u].revision].new
    BY DEF InForceStays
  <2>1. u # v /\ review'[u] = review[u] /\ OnPending(u) /\ review[u].revision # r
        /\ review[u].revision \in Revision
        /\ revision'[review[u].revision] = revision[review[u].revision]
    BY <1>8, <1>10
  <2>2. window.date[revision[review[u].revision].field] = revision[review[u].revision].new
    BY <1>2, <1>9, <2>1 DEF InForceStays
  <2>3. ~(review[v].write /\ revision[review[u].revision].field = revision[r].field)
    <3> SUFFICES ASSUME review[v].write, revision[review[u].revision].field = revision[r].field PROVE FALSE
      OBVIOUS
    <3>1. OnPending(v)
      BY <1>9 DEF OnPending, CommitDecision
    <3>2. Rivals(u, v) /\ Past(u) /\ Past(v)
      BY <1>17, <2>1, <3>1 DEF Rivals, Past
    <3> QED BY <1>2, <3>2 DEF OnePast
  <2>4. revision[review[u].revision].field \in Field
    BY <1>2, <2>1, OpenJobs DEF Proposed, OnPending
  <2> QED BY <1>16, <2>1, <2>2, <2>3, <2>4
<1>19. ReviewsPublish'
  <2> SUFFICES ASSUME EachDecidedOnce' PROVE PublishedIsApproved' /\ ApprovedIsPublished'
    BY DEF ReviewsPublish
  <2>0. EachDecidedOnce /\ revision[r].changeStatus = "PENDING" /\ PublishedIsApproved /\ ApprovedIsPublished
    BY <1>2, <1>9 DEF ReviewsPublish
  <2>1. PublishedIsApproved'
    <3> SUFFICES ASSUME NEW f \in Field, publishedBy'[f] # 0
                 PROVE  revision'[publishedBy'[f]].changeStatus = "APPROVED"
      BY DEF PublishedIsApproved
    <3>1. CASE review[v].write /\ f = revision[r].field
      BY <1>3, <1>4, <1>6, <1>17, <3>1
    <3>2. CASE ~(review[v].write /\ f = revision[r].field)
      <4>1. revision[publishedBy[f]].changeStatus = "APPROVED" /\ publishedBy[f] \in Revision
        BY <1>15, <1>16, <2>0, <3>2 DEF PublishedIsApproved
      <4> QED BY <1>6, <1>16, <2>0, <3>2, <4>1
    <3> QED BY <3>1, <3>2
  <2>2. ApprovedIsPublished'
    <3> SUFFICES ASSUME NEW f \in Field, NEW q \in LatestApproved(f)'
                 PROVE  window'.date[f] = revision'[q].new
      BY DEF ApprovedIsPublished
    <3>1. CASE review[v].approve /\ f = revision[r].field
      <4>1. r \in Revision /\ revision'[r].changeStatus = "APPROVED" /\ revision'[r].field = f
            /\ revision'[r].reviewedAt = decisions + 1 /\ revision'[r].new = revision[r].new
        BY <1>3, <1>4, <1>6, <3>1
      <4>2. q \in Revision /\ revision'[q].changeStatus = "APPROVED"
            /\ revision'[r].reviewedAt <= revision'[q].reviewedAt
        BY <4>1 DEF LatestApproved
      <4>3. revision'[q].reviewedAt \in 1..(decisions + 1)
        BY <1>7, <1>14, <4>2 DEF DecisionsCounted, Decided
      <4>4. q = r
        BY <1>7, <1>14, <4>1, <4>2, <4>3 DEF DecisionsCounted, Decided
      <4>5. CASE review[v].write
        BY <1>17, <3>1, <4>1, <4>4, <4>5
      <4>6. CASE ~review[v].write
        <5>1. review[v].pc = "ready" /\ OnPending(v)
          BY <2>0, <3>1 DEF CommitDecision, OnPending
        <5> QED BY <1>2, <1>16, <2>0, <3>1, <4>1, <4>4, <4>6, <5>1 DEF InForceStays
      <4> QED BY <4>5, <4>6
    <3>2. CASE ~(review[v].approve /\ f = revision[r].field)
      <4>1. q # r
        BY <1>3, <1>4, <1>6, <3>2 DEF LatestApproved
      <4>2. \A x \in Revision : revision[x].changeStatus = "APPROVED" => revision'[x] = revision[x]
        BY <1>6, <2>0
      <4>3. revision'[q] = revision[q]
        BY <1>6, <4>1 DEF LatestApproved
      <4>4. q \in LatestApproved(f)
        BY <4>2, <4>3 DEF LatestApproved
      <4> QED BY <1>16, <1>17, <2>0, <3>2, <4>3, <4>4 DEF ApprovedIsPublished
    <3> QED BY <3>1, <3>2
  <2> QED BY <2>1, <2>2
<1> QED BY <1>1, <1>12, <1>13, <1>14, <1>18, <1>19 DEF PublishInv

LEMMA PublishNext == PublishInv /\ [Next]_vars => PublishInv'
<1> SUFFICES ASSUME PublishInv, [Next]_vars PROVE PublishInv'
  OBVIOUS
<1>1. ReviewInv' /\ TypeOK'
  BY ReviewNext DEF PublishInv, ReviewInv
<1>2. ASSUME UNCHANGED <<published, review, revision>> PROVE PublishInv'
  BY <1>1, <1>2, PublishGrows
<1>3. ASSUME NEW s \in Source, RecordSourceCheck(s) PROVE PublishInv'
  BY <1>2, <1>3 DEF RecordSourceCheck
<1>4. CASE UNCHANGED vars
  BY <1>2, <1>4 DEF vars
<1> QED BY <1>1, <1>3, <1>4, PublishParser, PublishRead, PublishCommit DEF Next, ReviewStep

\* However parse jobs and reviews overlap, as long as no two reviews decide one
\* revision: the revision of a date approved last is published, and what is published
\* stands approved.
THEOREM ReviewsPublishTheLatest == Spec => []ReviewsPublish
<1>1. PublishInv => ReviewsPublish
  BY DEF PublishInv
<1> QED BY <1>1, PublishInit, PublishNext, PTL DEF Spec

-----------------------------------------------------------------------------
(* With one review at a time, approving is publishing.  The runs show that   *)
(* two overlapping reviews break both facts.                                *)

SoleReviewer == \A u, v \in Reviewer : u = v

UnderReviewIsPending ==
    \A v \in Reviewer : review[v].pc # "idle" =>
        revision[review[v].revision].changeStatus = "PENDING"

\* What ReadWindow has found still holds when the decision commits.
ReadyIsInForce ==
    \A v \in Reviewer : review[v].pc = "ready" /\ ~review[v].write =>
        window.date[revision[review[v].revision].field] = revision[review[v].revision].new

DecisionsOrdered ==
    \A r \in Revision : revision[r].changeStatus # "NONE" => revision[r].reviewedAt <= decisions

SoleInv ==
    /\ ReviewInv
    /\ UnderReviewIsPending
    /\ ReadyIsInForce
    /\ WriteIsApproval
    /\ DecisionsOrdered
    /\ PublishedIsApproved
    /\ ApprovedIsPublished

LEMMA SoleInit == Init => SoleInv
<1> SUFFICES ASSUME Init PROVE SoleInv
  OBVIOUS
<1>1. Idle.pc = "idle" /\ NotProposed.changeStatus = "NONE"
  BY DEF Idle, NotProposed
<1>2. /\ \A r \in Revision : revision[r] = NotProposed
      /\ \A v \in Reviewer : review[v] = Idle
      /\ \A f \in Field : publishedBy[f] = 0
  BY DEF Init
<1> QED BY <1>1, <1>2, ReviewInit DEF SoleInv, UnderReviewIsPending, ReadyIsInForce,
           WriteIsApproval, DecisionsOrdered, PublishedIsApproved, ApprovedIsPublished, LatestApproved

\* Steps that publish nothing: revisions keep what was decided or are new.
LEMMA NothingPublished ==
    ASSUME SoleInv, UNCHANGED published,
           \A r \in Revision :
              \/ /\ revision'[r].changeStatus = revision[r].changeStatus
                 /\ revision[r].changeStatus # "NONE" =>
                       /\ revision'[r].field = revision[r].field
                       /\ revision'[r].new = revision[r].new
                       /\ revision'[r].reviewedAt = revision[r].reviewedAt
              \/ /\ revision[r].changeStatus = "NONE"
                 /\ revision'[r].changeStatus = "PENDING"
                 /\ revision'[r].reviewedAt = 0
    PROVE  DecisionsOrdered' /\ PublishedIsApproved' /\ ApprovedIsPublished'
<1>1. UNCHANGED <<window, decisions, publishedBy>>
  BY DEF published
<1>2. decisions \in Nat /\ publishedBy \in [Field -> {0} \cup Revision]
  BY DEF SoleInv, ReviewInv, TypeOK
<1>3. DecisionsOrdered'
  BY <1>1, <1>2 DEF SoleInv, DecisionsOrdered
<1>4. PublishedIsApproved'
  BY <1>1, <1>2 DEF SoleInv, PublishedIsApproved
<1>5. \A f : \A r \in LatestApproved(f)' : r \in LatestApproved(f) /\ revision'[r].new = revision[r].new
  BY DEF LatestApproved
<1>6. ApprovedIsPublished'
  BY <1>1, <1>5 DEF SoleInv, ApprovedIsPublished
<1> QED BY <1>3, <1>4, <1>6

LEMMA SoleCreate == ASSUME SoleInv, NEW p \in Parser, CreateRevision(p) PROVE SoleInv'
<1>1. ReviewInv'
  BY StepCreateRevision DEF SoleInv
<1>2. TypeOK /\ ReviewedExists /\ UnderReviewIsPending /\ ReadyIsInForce
      /\ WriteIsApproval
  BY DEF SoleInv, ReviewInv
<1>3. UNCHANGED <<published, checkedAt, review>> /\ window' = window
  BY DEF CreateRevision, published
<1>4. PICK new \in Revision :
        /\ Unused(new)
        /\ revision' = [r \in Revision |->
              IF r = new
              THEN [changeStatus |-> "PENDING", field |-> parser[p].field,
                    old |-> parser[p].old, new |-> parser[p].new,
                    source |-> parser[p].source, hasConflict |-> parser[p].conflict,
                    reviewedAt |-> 0]
              ELSE IF Flag(r, parser[p].field, parser[p].conflict)
                   THEN [revision[r] EXCEPT !.hasConflict = TRUE] ELSE revision[r]]
  BY DEF CreateRevision
<1>5. revision[new].changeStatus = "NONE"
        /\ revision'[new].changeStatus = "PENDING" /\ revision'[new].reviewedAt = 0
  BY <1>4 DEF Unused, Revision
<1>6. \A r \in Revision : r # new =>
        /\ revision'[r].changeStatus = revision[r].changeStatus
        /\ revision[r].changeStatus # "NONE" =>
              /\ revision'[r].field = revision[r].field
              /\ revision'[r].new = revision[r].new
              /\ revision'[r].reviewedAt = revision[r].reviewedAt
  <2> SUFFICES ASSUME NEW r \in Revision, r # new
               PROVE  /\ revision'[r].changeStatus = revision[r].changeStatus
                      /\ revision[r].changeStatus # "NONE" =>
                            /\ revision'[r].field = revision[r].field
                            /\ revision'[r].new = revision[r].new
                            /\ revision'[r].reviewedAt = revision[r].reviewedAt
    OBVIOUS
  <2>1. CASE Flag(r, parser[p].field, parser[p].conflict)
    <3>1. revision[r] \in Proposed
      BY <1>2, <2>1, OpenJobs DEF Flag, Pending
    <3>2. revision'[r] = [revision[r] EXCEPT !.hasConflict = TRUE]
      BY <1>4, <2>1
    <3> QED BY <3>1, <3>2 DEF Proposed
  <2>2. CASE ~Flag(r, parser[p].field, parser[p].conflict)
    BY <1>4, <2>2
  <2> QED BY <2>1, <2>2
<1>7. DecisionsOrdered' /\ PublishedIsApproved' /\ ApprovedIsPublished'
  BY <1>3, <1>5, <1>6, NothingPublished
<1>8. \A v \in Reviewer : review[v].pc # "idle" =>
        /\ review[v].revision \in Revision
        /\ review[v].revision # new
        /\ revision[review[v].revision].changeStatus = "PENDING"
  BY <1>2, <1>5, OpenJobs DEF UnderReviewIsPending, Decision
<1>9. UnderReviewIsPending'
  BY <1>3, <1>6, <1>8 DEF UnderReviewIsPending
<1>10. ReadyIsInForce'
  BY <1>2, <1>3, <1>6, <1>8 DEF ReadyIsInForce
<1>11. WriteIsApproval'
  BY <1>2, <1>3 DEF WriteIsApproval
<1> QED BY <1>1, <1>7, <1>9, <1>10, <1>11 DEF SoleInv

\* The steps of a review before its commit, and what changes neither the
\* revisions nor the window.
LEMMA SoleRead ==
    ASSUME SoleInv, ReviewInv', UNCHANGED <<published, revision>>,
           \/ UNCHANGED review
           \/ \E v \in Reviewer :
                 FindRevision(v) \/ CountCompetitors(v) \/ ReadWindow(v) \/ ReviewError(v)
    PROVE  SoleInv'
<1>1. TypeOK /\ UnderReviewIsPending /\ ReadyIsInForce /\ WriteIsApproval
      /\ window' = window
  BY DEF SoleInv, ReviewInv, published
<1>2. DecisionsOrdered' /\ PublishedIsApproved' /\ ApprovedIsPublished'
  BY NothingPublished
<1>3. Idle.pc = "idle"
  BY DEF Idle
<1>4. CASE UNCHANGED review
  BY <1>1, <1>2, <1>4 DEF SoleInv, UnderReviewIsPending, ReadyIsInForce, WriteIsApproval
<1>5. ASSUME NEW v \in Reviewer,
             FindRevision(v) \/ CountCompetitors(v) \/ ReadWindow(v) \/ ReviewError(v)
      PROVE  UnderReviewIsPending' /\ ReadyIsInForce' /\ WriteIsApproval'
  <2>1. \A u \in Reviewer : u # v => review'[u] = review[u]
    BY <1>1, <1>5 DEF FindRevision, CountCompetitors, ReadWindow, ReviewError, TypeOK
  <2>2. CASE FindRevision(v)
    <3>1. /\ review'[v].pc = "found" /\ ~review'[v].write
          /\ revision[review'[v].revision].changeStatus = "PENDING"
      BY <1>1, <2>2 DEF FindRevision, Reviewable, TypeOK
    <3> QED BY <1>1, <2>1, <3>1 DEF UnderReviewIsPending, ReadyIsInForce, WriteIsApproval
  <2>3. CASE review' = [review EXCEPT ![v] = Idle]
    <3>1. review'[v].pc = "idle"
      BY <1>1, <1>3, <2>3 DEF TypeOK
    <3> QED BY <1>1, <2>1, <3>1 DEF UnderReviewIsPending, ReadyIsInForce, WriteIsApproval
  <2>4. CASE CountCompetitors(v) /\ ~(review' = [review EXCEPT ![v] = Idle])
    <3>1. review' = [review EXCEPT ![v] = [review[v] EXCEPT !.pc = "counted"]]
      BY <2>4 DEF CountCompetitors
    <3>2. review[v] \in Decision /\ review[v].pc # "idle" /\ review[v].approve
      BY <1>1, <2>4, OpenJobs DEF CountCompetitors
    <3>3. /\ review'[v].pc = "counted" /\ review'[v].approve
          /\ review'[v].revision = review[v].revision
      BY <1>1, <3>1, <3>2 DEF Decision, TypeOK
    <3> QED BY <1>1, <2>1, <3>2, <3>3 DEF UnderReviewIsPending, ReadyIsInForce, WriteIsApproval
  <2>5. CASE ReadWindow(v) /\ ~(review' = [review EXCEPT ![v] = Idle])
    <3>1. \/ InForce(v) /\ review' = [review EXCEPT ![v] = [review[v] EXCEPT !.pc = "ready"]]
          \/ review' = [review EXCEPT ![v] = [review[v] EXCEPT !.pc = "ready", !.write = TRUE]]
      BY <2>5 DEF ReadWindow
    <3>2. review[v] \in Decision /\ review[v].pc # "idle" /\ review[v].approve
      BY <1>1, <2>5, OpenJobs DEF ReadWindow, WriteIsApproval
    <3>3. /\ review'[v].pc = "ready" /\ review'[v].approve
          /\ review'[v].revision = review[v].revision
          /\ InForce(v) \/ review'[v].write
      <4> DEFINE ready == [review[v] EXCEPT !.pc = "ready"]
                 write == [review[v] EXCEPT !.pc = "ready", !.write = TRUE]
      <4>1. /\ ready.pc = "ready" /\ ready.approve = review[v].approve
            /\ ready.revision = review[v].revision
        BY <3>2 DEF Decision
      <4>2. /\ write.pc = "ready" /\ write.approve = review[v].approve
            /\ write.revision = review[v].revision /\ write.write = TRUE
        BY <3>2 DEF Decision
      <4>3. (InForce(v) /\ review'[v] = ready) \/ review'[v] = write
        BY <1>1, <3>1 DEF TypeOK
      <4> HIDE DEF ready, write
      <4>4. CASE InForce(v) /\ review'[v] = ready
        BY <3>2, <4>1, <4>4
      <4>5. CASE review'[v] = write
        BY <3>2, <4>2, <4>5
      <4> QED BY <4>3, <4>4, <4>5
    <3> QED BY <1>1, <2>1, <3>2, <3>3 DEF UnderReviewIsPending, ReadyIsInForce, WriteIsApproval, InForce
  <2> QED BY <1>5, <2>2, <2>3, <2>4, <2>5 DEF ReviewError
<1> QED BY <1>2, <1>4, <1>5 DEF SoleInv

LEMMA SoleCommit ==
    ASSUME SoleReviewer, SoleInv, NEW v \in Reviewer, CommitDecision(v)
    PROVE  SoleInv'
<1>1. ReviewInv'
  BY StepCommit DEF SoleInv
<1>2. TypeOK /\ UnderReviewIsPending /\ ReadyIsInForce /\ WriteIsApproval
      /\ DecisionsOrdered /\ PublishedIsApproved /\ ApprovedIsPublished
  BY DEF SoleInv, ReviewInv
<1> DEFINE r == review[v].revision
           decided == [revision[r] EXCEPT
                          !.changeStatus = IF review[v].approve THEN "APPROVED" ELSE "REJECTED",
                          !.hasConflict = ~review[v].approve /\ review[v].hasConflict,
                          !.reviewedAt = decisions + 1]
<1>3. review[v] \in Decision /\ r \in Revision /\ revision[r] \in Proposed
      /\ revision[r].changeStatus = "PENDING"
  BY <1>2, OpenJobs DEF CommitDecision, UnderReviewIsPending, Decision
<1>4. /\ decided.changeStatus = IF review[v].approve THEN "APPROVED" ELSE "REJECTED"
      /\ decided.reviewedAt = decisions + 1
      /\ decided.field = revision[r].field /\ decided.new = revision[r].new
  BY <1>3 DEF Proposed
<1>5. revision' = [revision EXCEPT ![r] = decided]
  BY DEF CommitDecision
<1> HIDE DEF decided
<1>6. \A q \in Revision : revision'[q] = IF q = r THEN decided ELSE revision[q]
  BY <1>2, <1>5 DEF TypeOK
<1>7. decisions \in Nat /\ decisions' = decisions + 1
  BY <1>2 DEF TypeOK, CommitDecision
<1>8. \A u \in Reviewer : review'[u].pc = "idle"
  <2>1. review' = [review EXCEPT ![v] = Idle] /\ Idle.pc = "idle"
    BY DEF CommitDecision, Idle
  <2>2. \A u \in Reviewer : u = v
    BY DEF SoleReviewer
  <2> QED BY <1>2, <2>1, <2>2 DEF TypeOK
<1>9. UnderReviewIsPending' /\ ReadyIsInForce' /\ WriteIsApproval'
  BY <1>8 DEF UnderReviewIsPending, ReadyIsInForce, WriteIsApproval
<1>10. DecisionsOrdered'
  <2>1. \A q \in Revision : revision[q].changeStatus # "NONE" => revision[q].reviewedAt \in Nat
    BY <1>2, OpenJobs DEF Proposed
  <2> QED BY <1>2, <1>4, <1>6, <1>7, <2>1 DEF DecisionsOrdered
<1>11. PublishedIsApproved'
  <2> SUFFICES ASSUME NEW f \in Field, publishedBy'[f] # 0
               PROVE  revision'[publishedBy'[f]].changeStatus = "APPROVED"
    BY DEF PublishedIsApproved
  <2>1. publishedBy \in [Field -> {0} \cup Revision] /\ revision[r].field \in Field
    BY <1>2, <1>3 DEF TypeOK, Proposed
  <2>2. CASE review[v].write /\ f = revision[r].field
    <3>1. publishedBy'[f] = r
      BY <2>1, <2>2 DEF CommitDecision
    <3>2. review[v].approve
      BY <1>2, <2>2 DEF CommitDecision, WriteIsApproval
    <3> QED BY <1>3, <1>4, <1>6, <3>1, <3>2
  <2>3. CASE ~(review[v].write /\ f = revision[r].field)
    <3>1. publishedBy'[f] = publishedBy[f]
      BY <2>1, <2>3 DEF CommitDecision
    <3>2. revision[publishedBy[f]].changeStatus = "APPROVED" /\ publishedBy[f] \in Revision
      BY <1>2, <2>1, <3>1 DEF PublishedIsApproved
    <3> QED BY <1>3, <1>6, <3>1, <3>2
  <2> QED BY <2>2, <2>3
<1>12. ApprovedIsPublished'
  <2> SUFFICES ASSUME NEW f \in Field, NEW q \in LatestApproved(f)'
               PROVE  window'.date[f] = revision'[q].new
    BY DEF ApprovedIsPublished
  <2>1. window.date \in [Field -> Date \cup {NoDate}] /\ revision[r].field \in Field
    BY <1>2, <1>3 DEF TypeOK, Window, Proposed
  <2>2. CASE review[v].approve /\ f = revision[r].field
    <3>1. r \in Revision /\ revision'[r].changeStatus = "APPROVED" /\ revision'[r].field = f
          /\ revision'[r].reviewedAt = decisions + 1 /\ revision'[r].new = revision[r].new
      BY <1>3, <1>4, <1>6, <2>2
    <3>2. q \in Revision /\ revision'[q].changeStatus = "APPROVED"
          /\ revision'[r].reviewedAt <= revision'[q].reviewedAt
      BY <3>1 DEF LatestApproved
    <3>3. q = r
      <4>1. SUFFICES ASSUME q # r PROVE FALSE
        OBVIOUS
      <4>2. revision'[q] = revision[q] /\ revision[q] \in Proposed /\ revision[q].reviewedAt <= decisions
        BY <1>2, <1>6, <3>2, <4>1, OpenJobs DEF DecisionsOrdered
      <4> QED BY <1>7, <3>1, <3>2, <4>2 DEF Proposed
    <3>4. CASE review[v].write
      BY <2>1, <2>2, <3>1, <3>3, <3>4 DEF CommitDecision, Applied
    <3>5. CASE ~review[v].write
      <4>1. window' = window /\ review[v].pc = "ready"
        BY <2>2, <3>5 DEF CommitDecision, Applied, WriteIsApproval
      <4> QED BY <1>2, <2>2, <3>1, <3>3, <3>5, <4>1 DEF ReadyIsInForce
    <3> QED BY <3>4, <3>5
  <2>3. CASE ~(review[v].approve /\ f = revision[r].field)
    <3>1. q # r
      BY <1>3, <1>4, <1>6, <2>3 DEF LatestApproved
    <3>2. q \in LatestApproved(f) /\ revision'[q].new = revision[q].new
      <4>1. \A x \in Revision : revision[x].changeStatus = "APPROVED" => revision'[x] = revision[x]
        BY <1>3, <1>6
      <4>2. revision'[q] = revision[q]
        BY <1>6, <3>1 DEF LatestApproved
      <4> QED BY <4>1, <4>2 DEF LatestApproved
    <3>3. window'.date[f] = window.date[f]
      <4>1. CASE review[v].write
        <5>1. review[v].approve
          BY <1>2, <4>1 DEF CommitDecision, WriteIsApproval
        <5> QED BY <2>1, <2>3, <4>1, <5>1 DEF CommitDecision, Applied
      <4>2. CASE ~review[v].write
        BY <4>2 DEF CommitDecision, Applied
      <4> QED BY <4>1, <4>2
    <3> QED BY <1>2, <3>2, <3>3 DEF ApprovedIsPublished
  <2> QED BY <2>2, <2>3
<1> QED BY <1>1, <1>9, <1>10, <1>11, <1>12 DEF SoleInv

LEMMA SoleNext == ASSUME SoleReviewer, SoleInv, [Next]_vars PROVE SoleInv'
<1>1. ReviewInv'
  BY ReviewNext DEF SoleInv
<1>2. ASSUME NEW p \in Parser, LoadSnapshot(p) \/ ComparePending(p) \/ ParseError(p)
      PROVE  SoleInv'
  BY <1>1, <1>2, SoleRead DEF LoadSnapshot, ComparePending, ParseError
<1>3. ASSUME NEW s \in Source, RecordSourceCheck(s)
      PROVE  SoleInv'
  BY <1>1, <1>3, SoleRead DEF RecordSourceCheck
<1>4. ASSUME NEW v \in Reviewer,
             FindRevision(v) \/ CountCompetitors(v) \/ ReadWindow(v) \/ ReviewError(v)
      PROVE  SoleInv'
  <2>1. UNCHANGED <<published, revision>>
    BY <1>4 DEF FindRevision, CountCompetitors, ReadWindow, ReviewError
  <2> QED BY <1>1, <1>4, <2>1, SoleRead
<1>5. CASE UNCHANGED vars
  BY <1>1, <1>5, SoleRead DEF vars
<1> QED BY <1>2, <1>3, <1>4, <1>5, SoleCreate, SoleCommit DEF Next, ParserStep, ReviewStep

\* With one reviewer at a time, every published date rests on a revision that
\* stands approved, and the latest approved revision of a date is published.
THEOREM SoleReviewerPublishes ==
    ASSUME SoleReviewer
    PROVE  Spec => [](PublishedIsApproved /\ ApprovedIsPublished)
<1>1. Init => SoleInv
  BY SoleInit
<1>2. SoleInv /\ [Next]_vars => SoleInv'
  BY SoleNext
<1>3. SoleInv => PublishedIsApproved /\ ApprovedIsPublished
  BY DEF SoleInv
<1> QED BY <1>1, <1>2, <1>3, PTL DEF Spec

-----------------------------------------------------------------------------
(* The dates of a page (DateReading): which words a pattern claims.         *)

LEMMA ShapeIsSeven == Len(J!Shape) = 7
  BY DEF J!Shape

\* What pattern p adds to what the patterns before it claimed.
ReadNext(text, claims, p) ==
    claims \cup {m \in J!Matches(text, p) : ~J!OverlapsClaim(m, claims)}

LEMMA ClaimPatternAfterPattern ==
    \A text : \E g : /\ J!RawDates(text) = g[7]
                     /\ g[0] = {}
                     /\ \A p \in 1..7 : g[p] = ReadNext(text, g[p - 1], p)
<1> TAKE text
<1> DEFINE Read(c, p) == ReadNext(text, c, p)
           c1 == Read({}, 1)
           c2 == Read(c1, 2)
           c3 == Read(c2, 3)
           c4 == Read(c3, 4)
           c5 == Read(c4, 5)
           c6 == Read(c5, 6)
           c7 == Read(c6, 7)
           g == [p \in 0..7 |-> IF p = 0 THEN {} ELSE IF p = 1 THEN c1 ELSE IF p = 2 THEN c2
                                ELSE IF p = 3 THEN c3 ELSE IF p = 4 THEN c4 ELSE IF p = 5 THEN c5
                                ELSE IF p = 6 THEN c6 ELSE c7]
           R(f) == [p \in 0..7 |-> IF p = 0 THEN {} ELSE Read(f[p - 1], p)]
           h == CHOOSE f : f = R(f)
<1>1. J!RawDates(text) = h[7]
  BY ShapeIsSeven DEF J!RawDates, ReadNext
<1> HIDE DEF Read
<1>2. \A p \in 0..7 : g[p] = IF p = 0 THEN {} ELSE Read(g[p - 1], p)
  <2>1. /\ g[0] = {} /\ g[1] = c1 /\ g[2] = c2 /\ g[3] = c3 /\ g[4] = c4 /\ g[5] = c5
        /\ g[6] = c6 /\ g[7] = c7
    BY SMT
  <2>2. /\ g[1] = Read(g[0], 1) /\ g[2] = Read(g[1], 2) /\ g[3] = Read(g[2], 3)
        /\ g[4] = Read(g[3], 4) /\ g[5] = Read(g[4], 5) /\ g[6] = Read(g[5], 6) /\ g[7] = Read(g[6], 7)
    BY <2>1
  <2> HIDE DEF g
  <2>3. \A p \in 0..7 : p = 0 \/ p = 1 \/ p = 2 \/ p = 3 \/ p = 4 \/ p = 5 \/ p = 6 \/ p = 7
    BY SMT
  <2> QED BY <2>1, <2>2, <2>3, SMT
<1>3. g = R(g)
  <2>1. g = [p \in 0..7 |-> g[p]]
    OBVIOUS
  <2> HIDE DEF g
  <2> QED BY <1>2, <2>1, Zenon
<1>4. h = R(h)
  <2> HIDE DEF g, R
  <2> QED BY <1>3
<1> HIDE DEF h
<1>5. \A p \in 0..7 : h[p] = IF p = 0 THEN {} ELSE Read(h[p - 1], p)
  BY <1>4, Zenon
<1>6. h[0] = {} /\ \A p \in 1..7 : h[p] = Read(h[p - 1], p)
  BY <1>5, SMT
<1> QED BY <1>1, <1>6 DEF Read

\* What is read is a match of one of the seven patterns.
LEMMA ReadMatches ==
    ASSUME NEW text, NEW m \in J!RawDates(text)
    PROVE \E p \in 1..7 : m \in J!Matches(text, p)
<1>1. PICK g : /\ J!RawDates(text) = g[7]
               /\ g[0] = {}
               /\ \A p \in 1..7 : g[p] = ReadNext(text, g[p - 1], p)
  BY ClaimPatternAfterPattern
<1>2. \A p \in 1..7 : m \in g[p] => m \in g[p - 1] \/ m \in J!Matches(text, p)
  BY <1>1 DEF ReadNext
<1> QED BY <1>1, <1>2, SMT

LEMMA WordOfShape ==
    /\ \A q \in {2, 3} : /\ J!Shape[q][1] \in {"number", "month"} /\ J!Shape[q][2] \in {"number", "month"}
                         /\ J!Shape[q][3] = "year"
    /\ J!Shape[2][1] = "number" /\ J!Shape[2][2] = "month"
    /\ J!Shape[3][1] = "month" /\ J!Shape[3][2] = "number"
    /\ J!Shape[1][1] = "iso" /\ J!Shape[4][1] = "numeric"
  BY DEF J!Shape

LEMMA PatternShapes ==
    /\ J!Shape[1] = <<"iso">>
    /\ J!Shape[2] = <<"number", "month", "year">>
    /\ J!Shape[3] = <<"month", "number", "year">>
    /\ J!Shape[4] = <<"numeric">>
    /\ J!Shape[5] = <<"month", "year">>
    /\ J!Shape[6] = <<"season", "year">>
    /\ J!Shape[7] = <<"month", "number">>
  BY DEF J!Shape

\* Matches of the patterns of whole dates: of one word, or of three.
LEMMA OneWordMatches ==
    ASSUME NEW text, Len(text) \in Nat, NEW p \in {1, 4}, NEW m \in J!Matches(text, p)
    PROVE \E i \in 1..Len(text) : /\ m = [pattern |-> p, from |-> i, to |-> i]
                                  /\ text[i].is = J!Shape[p][1]
<1>1. Len(J!Shape[p]) = 1
  <2>1. Len(J!Shape[1]) = 1 /\ Len(J!Shape[4]) = 1
    BY PatternShapes
  <2> QED BY <2>1
<1>2. PICK i \in 1..Len(text) + 1 - 1 :
            /\ \A k \in 1..1 : text[i + k - 1].is = J!Shape[p][k]
            /\ m = [pattern |-> p, from |-> i, to |-> i + 1 - 1]
  BY <1>1, Zenon DEF J!Matches
<1>3. i + 1 - 1 = i /\ i \in 1..Len(text) /\ 1 \in 1..1
  BY SMT
<1> QED BY <1>2, <1>3, Zenon

LEMMA ThreeWordMatches ==
    ASSUME NEW text, Len(text) \in Nat, NEW p \in {2, 3}, NEW m \in J!Matches(text, p)
    PROVE \E i \in 1..Len(text) - 2 : /\ m = [pattern |-> p, from |-> i, to |-> i + 2]
                                      /\ text[i].is = J!Shape[p][1]
                                      /\ text[i + 1].is = J!Shape[p][2]
                                      /\ text[i + 2].is = J!Shape[p][3]
<1>1. Len(J!Shape[p]) = 3
  <2>1. Len(J!Shape[2]) = 3 /\ Len(J!Shape[3]) = 3
    BY PatternShapes
  <2> QED BY <2>1
<1>2. PICK i \in 1..Len(text) + 1 - 3 :
            /\ \A k \in 1..3 : text[i + k - 1].is = J!Shape[p][k]
            /\ m = [pattern |-> p, from |-> i, to |-> i + 3 - 1]
  BY <1>1, Zenon DEF J!Matches
<1>3. /\ i + 3 - 1 = i + 2 /\ i + 1 - 1 = i /\ i + 2 - 1 = i + 1
      /\ i \in 1..Len(text) - 2 /\ 1 \in 1..3 /\ 2 \in 1..3 /\ 3 \in 1..3
  BY SMT
<1> QED BY <1>2, <1>3, Zenon

\* No two patterns of whole dates match at places that overlap.
LEMMA WholeDatesAreApart ==
    ASSUME NEW text, Len(text) \in Nat, NEW p \in 2..4, NEW q \in 1..3, q < p,
           NEW m \in J!Matches(text, p), NEW c \in J!Matches(text, q)
    PROVE ~(m.from <= c.to /\ m.to >= c.from)
<1>1. CASE p = 4 /\ q = 1
  <2>1. PICK i \in 1..Len(text) : m = [pattern |-> p, from |-> i, to |-> i] /\ text[i].is = "numeric"
    BY <1>1, OneWordMatches, WordOfShape
  <2>2. PICK j \in 1..Len(text) : c = [pattern |-> q, from |-> j, to |-> j] /\ text[j].is = "iso"
    BY <1>1, OneWordMatches, WordOfShape
  <2>3. i # j
    BY <2>1, <2>2
  <2> QED BY <2>1, <2>2, <2>3, SMT
<1>2. CASE p = 4 /\ q \in {2, 3}
  <2>1. PICK i \in 1..Len(text) : m = [pattern |-> p, from |-> i, to |-> i] /\ text[i].is = "numeric"
    BY <1>2, OneWordMatches, WordOfShape
  <2>2. PICK j \in 1..Len(text) - 2 : /\ c = [pattern |-> q, from |-> j, to |-> j + 2]
                                      /\ text[j].is # "numeric" /\ text[j + 1].is # "numeric"
                                      /\ text[j + 2].is # "numeric"
    BY <1>2, ThreeWordMatches, WordOfShape
  <2>3. i # j /\ i # j + 1 /\ i # j + 2
    BY <2>1, <2>2
  <2> QED BY <2>1, <2>2, <2>3, SMT
<1>3. CASE p \in {2, 3} /\ q = 1
  <2>1. PICK i \in 1..Len(text) : c = [pattern |-> q, from |-> i, to |-> i] /\ text[i].is = "iso"
    BY <1>3, OneWordMatches, WordOfShape
  <2>2. PICK j \in 1..Len(text) - 2 : /\ m = [pattern |-> p, from |-> j, to |-> j + 2]
                                      /\ text[j].is # "iso" /\ text[j + 1].is # "iso"
                                      /\ text[j + 2].is # "iso"
    BY <1>3, ThreeWordMatches, WordOfShape
  <2>3. i # j /\ i # j + 1 /\ i # j + 2
    BY <2>1, <2>2
  <2> QED BY <2>1, <2>2, <2>3, SMT
<1>4. CASE p = 3 /\ q = 2
  <2>1. PICK i \in 1..Len(text) - 2 : /\ m = [pattern |-> p, from |-> i, to |-> i + 2]
                                      /\ text[i].is = "month" /\ text[i + 1].is = "number"
                                      /\ text[i + 2].is = "year"
    BY <1>4, ThreeWordMatches, WordOfShape
  <2>2. PICK j \in 1..Len(text) - 2 : /\ c = [pattern |-> q, from |-> j, to |-> j + 2]
                                      /\ text[j].is = "number" /\ text[j + 1].is = "month"
                                      /\ text[j + 2].is = "year"
    BY <1>4, ThreeWordMatches, WordOfShape
  <2>3. /\ i # j /\ i # j + 2
        /\ (i + 2 = j + 1) => FALSE
        /\ (i + 1 = j + 2) => FALSE
        /\ (i + 2 = j) => FALSE
    BY <2>1, <2>2
  <2> QED BY <2>1, <2>2, <2>3, SMT
<1> QED BY <1>1, <1>2, <1>3, <1>4, SMT

\* Whole dates are all read: nothing claims their words before them.
LEMMA WholeDatesAreRead ==
    ASSUME NEW text, Len(text) \in Nat, NEW p \in 1..4, NEW m \in J!Matches(text, p)
    PROVE m \in J!RawDates(text)
<1>1. PICK g : /\ J!RawDates(text) = g[7]
               /\ g[0] = {}
               /\ \A q \in 1..7 : g[q] = ReadNext(text, g[q - 1], q)
  BY ClaimPatternAfterPattern
<1>2. /\ g[1] \subseteq J!Matches(text, 1)
      /\ g[2] \subseteq g[1] \cup J!Matches(text, 2)
      /\ g[3] \subseteq g[2] \cup J!Matches(text, 3)
  <2>1. 1 \in 1..7 /\ 2 \in 1..7 /\ 3 \in 1..7 /\ 1 - 1 = 0 /\ 2 - 1 = 1 /\ 3 - 1 = 2
    BY SMT
  <2> QED BY <1>1, <2>1, Zenon DEF ReadNext
<1>3. \A c \in g[p - 1] : \E q \in 1..3 : q < p /\ c \in J!Matches(text, q)
  <2>1. CASE p = 1 BY <1>1, <2>1
  <2>2. CASE p = 2 BY <1>2, <2>2
  <2>3. CASE p = 3 BY <1>2, <2>3
  <2>4. CASE p = 4 BY <1>2, <2>4
  <2> QED BY <2>1, <2>2, <2>3, <2>4, SMT
<1>4. ~J!OverlapsClaim(m, g[p - 1])
  <2> SUFFICES ASSUME NEW c \in g[p - 1] PROVE ~(m.from <= c.to /\ m.to >= c.from)
    BY Zenon DEF J!OverlapsClaim
  <2>1. PICK q \in 1..3 : q < p /\ c \in J!Matches(text, q)
    BY <1>3
  <2>2. p \in 2..4
    BY <2>1, SMT
  <2> QED BY <2>1, <2>2, WholeDatesAreApart, Zenon
<1>5. m \in g[p]
  BY <1>1, <1>4, SMT DEF ReadNext
<1>6. \A q \in 1..7 : g[q - 1] \subseteq g[q]
  BY <1>1 DEF ReadNext
<1>7. g[1] \subseteq g[2] /\ g[2] \subseteq g[3] /\ g[3] \subseteq g[4] /\ g[4] \subseteq g[5]
      /\ g[5] \subseteq g[6] /\ g[6] \subseteq g[7]
  <2>1. /\ 2 \in 1..7 /\ 3 \in 1..7 /\ 4 \in 1..7 /\ 5 \in 1..7 /\ 6 \in 1..7 /\ 7 \in 1..7
        /\ 2 - 1 = 1 /\ 3 - 1 = 2 /\ 4 - 1 = 3 /\ 5 - 1 = 4 /\ 6 - 1 = 5 /\ 7 - 1 = 6
    BY SMT
  <2> QED BY <1>6, <2>1, Zenon
<1>8. g[p] \subseteq g[7]
  <2>1. p = 1 \/ p = 2 \/ p = 3 \/ p = 4
    BY SMT
  <2> QED BY <1>7, <2>1, Zenon
<1> QED BY <1>1, <1>5, <1>8

\* What DateOf accepts is a date of the years that are read.
LEMMA ValidDate ==
    ASSUME NEW y, NEW m, NEW d, J!DateOf(y, m, d) # J!InvalidDate
    PROVE /\ y \in 2000..2100 /\ m \in 1..12
          /\ J!DateOf(y, m, d) = <<y, m, d>>
<1> DEFINE valid == y \in 2000..2100 /\ m \in 1..12 /\ d >= 1 /\ d <= J!DaysIn(y, m)
<1>1. J!DateOf(y, m, d) = IF valid THEN <<y, m, d>> ELSE J!InvalidDate
  BY DEF J!DateOf
<1>2. valid
  BY <1>1
<1> QED BY <1>1, <1>2

WholeDate(date) == \E year \in 2000..2100, month \in 1..12 : \E dom : date = <<year, month, dom>>

\* The day of the parse only completes dates without a year.
LEMMA WholeDateIsTimeless ==
    ASSUME NEW text, NEW m, m.pattern \in 1..4, NEW order, NEW a, NEW b
    PROVE J!LocalDate(text, m, [order |-> order, today |-> a])
            = J!LocalDate(text, m, [order |-> order, today |-> b])
  BY SMT DEF J!LocalDate, J!NumericDate, J!NumericOrder

LEMMA WholeDateRead ==
    ASSUME NEW text, NEW m, m.pattern \in 1..4, NEW options,
           J!LocalDate(text, m, options) # J!InvalidDate
    PROVE WholeDate(J!LocalDate(text, m, options))
<1>1. \E y, mm, d : J!LocalDate(text, m, options) = J!DateOf(y, mm, d)
  <2>1. CASE m.pattern = 1 BY <2>1, SMT DEF J!LocalDate
  <2>2. CASE m.pattern = 2 BY <2>2, SMT DEF J!LocalDate
  <2>3. CASE m.pattern = 3 BY <2>3, SMT DEF J!LocalDate
  <2>4. CASE m.pattern = 4 
    <3>1. \E w, order : J!LocalDate(text, m, options) = J!NumericDate(w, order)
      BY <2>4, SMT DEF J!LocalDate
    <3> QED BY <3>1, Zenon DEF J!NumericDate
  <2> QED BY <2>1, <2>2, <2>3, <2>4, SMT
<1>2. PICK y, mm, d : J!LocalDate(text, m, options) = J!DateOf(y, mm, d)
  BY <1>1
<1>3. /\ y \in 2000..2100 /\ mm \in 1..12
      /\ J!LocalDate(text, m, options) = <<y, mm, d>>
  BY <1>2, ValidDate
<1>4. \E e : J!LocalDate(text, m, options) = <<y, mm, e>>
  BY <1>3
<1> QED BY <1>3, <1>4 DEF WholeDate

LEMMA PatternOfMatch ==
    ASSUME NEW text, NEW p, NEW m \in J!Matches(text, p)
    PROVE m.pattern = p
  BY DEF J!Matches

\* A candidate without doubts but that of a missing label is a whole date of the text.
LEMMA CertainCandidate ==
    ASSUME NEW text, NEW options, NEW c \in J!Candidates(text, options),
           c.date # J!InvalidDate, c.reasons \subseteq {"MISSING_CONTEXT"}
    PROVE \E m \in J!RawDates(text) :
            /\ m.pattern \in 1..4 /\ m \in J!Matches(text, m.pattern)
            /\ c.from = m.from /\ c.date = J!LocalDate(text, m, options)
<1>1. PICK m \in J!RawDates(text) : c = J!Candidate(text, m, options)
  BY DEF J!Candidates
<1>2. PICK p \in 1..7 : m \in J!Matches(text, p)
  BY ReadMatches
<1>3. m.pattern = p
  BY <1>2, PatternOfMatch
<1>4. c.from = m.from /\ c.date = J!LocalDate(text, m, options)
  BY <1>1 DEF J!Candidate
<1>5. m.pattern = 7 => "INFERRED_YEAR" \in c.reasons
  BY <1>1 DEF J!Candidate
<1>6. m.pattern \in {5, 6} => "PARTIAL_DATE" \in c.reasons
  BY <1>1 DEF J!Candidate
<1>7. m.pattern \in 1..4
  BY <1>2, <1>3, <1>5, <1>6
<1> QED BY <1>2, <1>3, <1>4, <1>7

-----------------------------------------------------------------------------
LEMMA FiniteIsFinite == \A S : J!IsFiniteSet(S) = IsFiniteSet(S) /\ J!Cardinality(S) = Cardinality(S)
  BY Zenon DEF J!IsFiniteSet, IsFiniteSet, J!Cardinality, Cardinality

LEMMA OnlyElement ==
    ASSUME NEW S, IsFiniteSet(S), J!Cardinality(S) = 1
    PROVE \E x : S = {x}
  BY FiniteIsFinite, FS_Singleton

LEMMA AtMostOne ==
    ASSUME NEW S, IsFiniteSet(S), S # {}, ~(J!Cardinality(S) > 1)
    PROVE \E x : S = {x}
<1>1. Cardinality(S) \in Nat /\ Cardinality(S) # 0
  BY FS_CardinalityType, FS_EmptySet
<1>2. J!Cardinality(S) = 1
  BY <1>1, FiniteIsFinite, SMT
<1> QED BY <1>2, OnlyElement

\* An intake that is over and could be meant by a whole date makes the date stale.
LEMMA OldIntakeOldDate ==
    ASSUME NEW i, i.year \in Nat, i.month \in 0..12,
           NEW date, WholeDate(date), NEW day, day[1] \in Int, day[2] \in Int,
           J!IsChronologicallyEligible(i, date), J!IsOldIntake(i, day)
    PROVE J!IsStaleCandidate(date, day)
<1>1. PICK y \in 2000..2100, m \in 1..12 : \E d : date = <<y, m, d>>
  BY DEF WholeDate
<1>2. date # <<>> /\ Len(date) = 3 /\ date[1] = y /\ date[2] = m
  BY <1>1
<1>3. i.year > y \/ (i.year = y /\ (i.month = 0 \/ i.month >= m))
  BY <1>2 DEF J!IsChronologicallyEligible, J!NoMonth
<1>4. i.year < day[1] \/ (i.year = day[1] /\ i.month # 0 /\ i.month < day[2])
  BY DEF J!IsOldIntake, J!NoMonth
<1>5. y < day[1] \/ (y = day[1] /\ m < day[2])
  BY <1>3, <1>4, SMT
<1> QED BY <1>2, <1>5 DEF J!IsStaleCandidate

\* What matches: the one intake that is not over and that the hint, or else the date,
\* allows.
LEMMA MatchedIntake ==
    ASSUME NEW e, NEW ints, IsFiniteSet(ints), NEW day,
           J!Match(e, ints, day).status = "MATCHED"
    PROVE \E i \in ints :
            /\ e.automaticPublication
            /\ J!Match(e, ints, day).intake = i.id
            /\ J!Match(e, ints, day).round = J!ResolveRound(i, e.round).round
            /\ e.hint # J!NoHint => J!MatchesHint(i, e.hint)
            /\ e.hint = J!NoHint =>
                 /\ ~J!IsStaleCandidate(e.date, day)
                 /\ J!IsChronologicallyEligible(i, e.date)
                 /\ \A j \in ints : J!IsChronologicallyEligible(j, e.date) =>
                                      j = i \/ J!IsOldIntake(j, day)
<1> DEFINE doubts == IF e.automaticPublication THEN {} ELSE {"CANDIDATE_REQUIRES_REVIEW"}
           matching == IF e.hint # J!NoHint
                       THEN {i \in ints : J!MatchesHint(i, e.hint)}
                       ELSE {i \in ints : J!IsChronologicallyEligible(i, e.date)}
           current == {i \in matching : ~J!IsOldIntake(i, day)}
           intake == CHOOSE i \in current : TRUE
           resolved == J!ResolveRound(intake, e.round)
           stale == e.hint = J!NoHint /\ J!IsStaleCandidate(e.date, day)
           reasons == doubts \cup resolved.reasons
           match == J!Match(e, ints, day)
<1>1. match = IF stale THEN J!Result("REVIEW", doubts \cup {"STALE_CANDIDATE"})
              ELSE IF matching # {} /\ current = {} THEN J!Result("REJECTED", {"OLD_INTAKE"})
              ELSE IF current = {} THEN J!Result("REVIEW", doubts \cup {"NO_ELIGIBLE_INTAKE"})
              ELSE IF J!Cardinality(current) > 1 THEN J!Result("REVIEW", doubts \cup {"AMBIGUOUS_INTAKE"})
              ELSE [status |-> IF reasons = {} THEN "MATCHED" ELSE "REVIEW", reasons |-> reasons,
                    intake |-> intake.id, round |-> resolved.round]
  BY Zenon DEF J!Match
<1>2. \A x, r : (J!Result(x, r)).status = x
  BY DEF J!Result
<1>3. IsFiniteSet(current)
  <2>1. current \subseteq ints
    OBVIOUS
  <2> QED BY <2>1, FS_Subset
<1>4. /\ ~stale /\ current # {} /\ ~(J!Cardinality(current) > 1) /\ reasons = {}
      /\ match.intake = intake.id /\ match.round = resolved.round
  <2> HIDE DEF stale, doubts, matching, current, intake, resolved, reasons
  <2>1. match.status = "MATCHED"
    OBVIOUS
  <2> HIDE DEF match
  <2> QED BY <1>1, <1>2, <2>1
<1>5. PICK i : current = {i}
  BY <1>3, <1>4, AtMostOne
<1>6. intake = i
  BY <1>5
<1>7. i \in ints /\ i \in matching
  BY <1>5
<1>8. e.automaticPublication
  BY <1>4
<1>9. e.hint # J!NoHint => J!MatchesHint(i, e.hint)
  BY <1>7
<1>10. ASSUME e.hint = J!NoHint
       PROVE  /\ ~J!IsStaleCandidate(e.date, day)
              /\ J!IsChronologicallyEligible(i, e.date)
              /\ \A j \in ints : J!IsChronologicallyEligible(j, e.date) =>
                                    j = i \/ J!IsOldIntake(j, day)
  <2>1. matching = {j \in ints : J!IsChronologicallyEligible(j, e.date)}
    BY <1>10
  <2> QED BY <1>4, <1>5, <1>7, <1>10, <2>1
<1> QED BY <1>4, <1>6, <1>7, <1>8, <1>9, <1>10, Zenon

\* The round: one of the name given, or the only one if none was given.
LEMMA ResolvedRound ==
    ASSUME NEW i, IsFiniteSet(i.rounds), NEW name,
           J!ResolveRound(i, name).round # J!NoRound
    PROVE \E v \in i.rounds : /\ J!ResolveRound(i, name).round = v.id
                              /\ v.name = name \/ i.rounds = {v}
<1> DEFINE named == IF name = J!NoName THEN i.rounds ELSE {r \in i.rounds : r.name = name}
           only == CHOOSE r \in named : TRUE
<1>1. J!ResolveRound(i, name) =
        IF J!Cardinality(named) = 1 THEN [round |-> only.id, reasons |-> {}]
        ELSE [round |-> J!NoRound, reasons |-> IF named = {} THEN {} ELSE {"AMBIGUOUS_ROUND"}]
  BY Zenon DEF J!ResolveRound
<1>2. IsFiniteSet(named)
  BY FS_Subset
<1>3. J!Cardinality(named) = 1 /\ J!ResolveRound(i, name).round = only.id
  <2> HIDE DEF named, only
  <2> QED BY <1>1
<1>4. PICK v : named = {v}
  BY <1>2, <1>3, OnlyElement
<1>5. only = v
  BY <1>4
<1>6. v \in i.rounds
  BY <1>4
<1>7. v.name = name \/ i.rounds = {v}
  BY <1>4
<1> QED BY <1>3, <1>5, <1>6, <1>7

-----------------------------------------------------------------------------
(* What a model quotes.                                                      *)

\* The words of a quote are those of the page, but for the number it may begin within.
LEMMA QuotedWords ==
    ASSUME Len(page) \in Nat, \E S : page \in Seq(S), NEW q \in J!Quotation
    PROVE /\ Len(J!Quote(q)) = q.to - q.from + 1
          /\ q.from \in 1..Len(page) /\ q.to \in 1..Len(page) /\ q.from <= q.to
          /\ \A k \in 1..Len(J!Quote(q)) :
                /\ q.from + k - 1 \in 1..Len(page)
                /\ J!Quote(q)[k].is = page[q.from + k - 1].is
                /\ k # 1 \/ ~q.cut => J!Quote(q)[k] = page[q.from + k - 1]
<1> DEFINE words == SubSeq(page, q.from, q.to)
<1>1. PICK S : page \in Seq(S)
  OBVIOUS
<1>2. DOMAIN page = 1..Len(page)
  BY <1>1
<1>3. q.from \in 1..Len(page) /\ q.to \in 1..Len(page) /\ q.from <= q.to
  BY <1>2 DEF J!Quotation
<1>4. Len(words) = q.to - q.from + 1 /\ words \in Seq(S)
  BY <1>1, <1>3, SMT
<1>5. \A k \in 1..Len(words) : q.from + k - 1 \in 1..Len(page) /\ words[k] = page[q.from + k - 1]
  BY <1>1, <1>3, <1>4, SMT
<1>6. CASE ~q.cut
  <2>1. J!Quote(q) = words
    BY <1>6 DEF J!Quote
  <2> QED BY <1>3, <1>4, <1>5, <2>1
<1>7. CASE q.cut
  <2>1. J!Quote(q) = [words EXCEPT ![1].number = @ % 10, ![1].width = @ - 1]
    BY <1>7 DEF J!Quote
  <2> HIDE DEF words
  <2>2. /\ DOMAIN J!Quote(q) = DOMAIN words
        /\ \A k \in DOMAIN words : k # 1 => J!Quote(q)[k] = words[k]
        /\ \A k \in DOMAIN words : J!Quote(q)[k].is = words[k].is
    BY <2>1
  <2>3. DOMAIN words = 1..Len(words)
    BY <1>4
  <2>4. Len(J!Quote(q)) = Len(words)
    BY <1>3, <1>4, <2>2, <2>3
  <2> QED BY <1>3, <1>4, <1>5, <1>7, <2>2, <2>3, <2>4
<1> QED BY <1>6, <1>7

LEMMA MatchedWords ==
    ASSUME NEW text, Len(text) \in Nat, NEW p \in 1..4, NEW i \in 1..Len(text),
           i + Len(J!Shape[p]) - 1 <= Len(text),
           \A k \in 1..Len(J!Shape[p]) : text[i + k - 1].is = J!Shape[p][k]
    PROVE [pattern |-> p, from |-> i, to |-> i + Len(J!Shape[p]) - 1] \in J!Matches(text, p)
<1> DEFINE n == Len(J!Shape[p])
<1>1. n \in Nat
  <2>1. Len(J!Shape[1]) \in Nat /\ Len(J!Shape[2]) \in Nat /\ Len(J!Shape[3]) \in Nat /\ Len(J!Shape[4]) \in Nat
    BY DEF J!Shape
  <2>2. p = 1 \/ p = 2 \/ p = 3 \/ p = 4
    BY SMT
  <2> QED BY <2>1, <2>2
<1>2. i \in 1..Len(text) + 1 - n
  BY <1>1, SMT
<1> QED BY <1>2, Zenon DEF J!Matches

LEMMA WordsOfMatch ==
    ASSUME NEW text, Len(text) \in Nat, NEW p \in 1..4, NEW m \in J!Matches(text, p)
    PROVE /\ m.from \in 1..Len(text) /\ m.from + Len(J!Shape[p]) - 1 \in 1..Len(text)
          /\ Len(J!Shape[p]) \in 1..3 /\ (p \in {2, 3} => Len(J!Shape[p]) = 3)
          /\ \A k \in 1..Len(J!Shape[p]) : text[m.from + k - 1].is = J!Shape[p][k]
<1> DEFINE n == Len(J!Shape[p])
<1>1. n \in 1..3 /\ (p \in {2, 3} => n = 3)
  <2>1. Len(J!Shape[1]) = 1 /\ Len(J!Shape[2]) = 3 /\ Len(J!Shape[3]) = 3 /\ Len(J!Shape[4]) = 1
    BY DEF J!Shape
  <2>2. p = 1 \/ p = 2 \/ p = 3 \/ p = 4
    BY SMT
  <2> QED BY <2>1, <2>2
<1>2. PICK i \in 1..Len(text) + 1 - n :
            /\ \A k \in 1..n : text[i + k - 1].is = J!Shape[p][k]
            /\ m = [pattern |-> p, from |-> i, to |-> i + n - 1]
  BY Zenon DEF J!Matches
<1>3. m.from = i
  BY <1>2
<1> HIDE DEF n
<1>4. i \in 1..Len(text) /\ i + n - 1 \in 1..Len(text)
  BY <1>1, SMT
<1> QED BY <1>1, <1>2, <1>3, <1>4, Zenon DEF n

\* A whole date reads the same wherever its words stand.
LEMMA SameWordsSameDate ==
    ASSUME NEW a, NEW b, NEW p \in 1..4, NEW m, NEW n, m.pattern = p, n.pattern = p, NEW options,
           a[m.from + 1 - 1] = b[n.from + 1 - 1],
           p \in {2, 3} => /\ a[m.from + 2 - 1] = b[n.from + 2 - 1]
                           /\ a[m.from + 3 - 1] = b[n.from + 3 - 1]
    PROVE J!LocalDate(a, m, options) = J!LocalDate(b, n, options)
<1>1. CASE p = 1 BY <1>1, SMT DEF J!LocalDate
<1>2. CASE p = 2 BY <1>2, SMT DEF J!LocalDate
<1>3. CASE p = 3 BY <1>3, SMT DEF J!LocalDate
<1>4. CASE p = 4 BY <1>4, SMT DEF J!LocalDate
<1> QED BY <1>1, <1>2, <1>3, <1>4, SMT

\* A whole date in a quote is one of the page, unless it begins within a number.
LEMMA QuotedDate ==
    ASSUME Len(page) \in Nat, \E S : page \in Seq(S), NEW q \in J!Quotation, NEW options,
           NEW m \in J!RawDates(J!Quote(q)), m.pattern \in 1..4,
           m \in J!Matches(J!Quote(q), m.pattern), m.from # 1 \/ ~q.cut
    PROVE \E n \in J!RawDates(page) :
            /\ n.pattern = m.pattern
            /\ J!LocalDate(page, n, options) = J!LocalDate(J!Quote(q), m, options)
<1> DEFINE quote == J!Quote(q)
           p == m.pattern
           size == Len(J!Shape[p])
           from == q.from + m.from - 1
           n == [pattern |-> p, from |-> from, to |-> from + size - 1]
<1>1. /\ Len(quote) = q.to - q.from + 1 /\ Len(quote) \in Nat
      /\ q.from \in 1..Len(page) /\ q.to \in 1..Len(page) /\ q.from <= q.to
      /\ \A k \in 1..Len(quote) :
            /\ q.from + k - 1 \in 1..Len(page)
            /\ quote[k].is = page[q.from + k - 1].is
            /\ k # 1 \/ ~q.cut => quote[k] = page[q.from + k - 1]
  <2>1. /\ Len(quote) = q.to - q.from + 1
        /\ q.from \in 1..Len(page) /\ q.to \in 1..Len(page) /\ q.from <= q.to
        /\ \A k \in 1..Len(quote) :
              /\ q.from + k - 1 \in 1..Len(page)
              /\ quote[k].is = page[q.from + k - 1].is
              /\ k # 1 \/ ~q.cut => quote[k] = page[q.from + k - 1]
    BY QuotedWords
  <2>2. Len(quote) \in Nat
    BY <2>1, SMT
  <2> QED BY <2>1, <2>2
<1>2. /\ m.from \in 1..Len(quote) /\ m.from + size - 1 \in 1..Len(quote)
      /\ size \in 1..3 /\ (p \in {2, 3} => size = 3)
      /\ \A k \in 1..size : quote[m.from + k - 1].is = J!Shape[p][k]
  <2>1. m \in J!Matches(quote, p) /\ p \in 1..4
    OBVIOUS
  <2> HIDE DEF quote, p
  <2>2. Len(quote) \in Nat
    BY <1>1
  <2> QED BY <2>1, <2>2, WordsOfMatch
<1>21. m.from # 1 \/ ~q.cut
  OBVIOUS
<1> HIDE DEF quote, size, p
<1>3. \A k \in 1..size : /\ m.from + k - 1 \in 1..Len(quote)
                         /\ from + k - 1 = q.from + (m.from + k - 1) - 1
                         /\ m.from + k - 1 # 1 \/ ~q.cut
  <2> TAKE k \in 1..size
  <2>1. m.from + k - 1 \in 1..Len(quote) /\ from + k - 1 = q.from + (m.from + k - 1) - 1
    <3>1. m.from \in 1..Len(quote) /\ m.from + size - 1 \in 1..Len(quote) /\ size \in 1..3
      BY <1>2
    <3>2. Len(quote) \in Nat /\ q.from \in 1..Len(page)
      BY <1>1
    <3> HIDE DEF n
    <3> QED BY <3>1, <3>2, SMT
  <2>2. m.from # 1 => m.from + k - 1 # 1
    BY <1>1, <1>2, SMT
  <2> QED BY <1>21, <2>1, <2>2, Zenon
<1>4. \A k \in 1..size : /\ page[from + k - 1].is = J!Shape[p][k]
                         /\ quote[m.from + k - 1] = page[from + k - 1]
  BY <1>1, <1>2, <1>3, Zenon
<1>5. from \in 1..Len(page) /\ from + size - 1 <= Len(page)
  BY <1>1, <1>2, SMT
<1>6. p \in 1..4
  BY DEF p
<1>7. n \in J!RawDates(page)
  <2>1. n \in J!Matches(page, p)
    BY <1>4, <1>5, <1>6, MatchedWords DEF size
  <2> QED BY <1>6, <2>1, WholeDatesAreRead
<1>8. J!LocalDate(page, n, options) = J!LocalDate(quote, m, options)
  <2>1. 1 \in 1..size /\ (p \in {2, 3} => 2 \in 1..size /\ 3 \in 1..size)
    BY <1>2, SMT
  <2>2. m.pattern = p /\ n.pattern = p /\ n.from = from
    BY DEF p
  <2> HIDE DEF n, from
  <2>3. /\ page[n.from + 1 - 1] = quote[m.from + 1 - 1]
        /\ p \in {2, 3} => /\ page[n.from + 2 - 1] = quote[m.from + 2 - 1]
                           /\ page[n.from + 3 - 1] = quote[m.from + 3 - 1]
    BY <1>4, <2>1, <2>2
  <2> QED BY <1>6, <2>2, <2>3, SameWordsSameDate
<1> QED BY <1>7, <1>8 DEF quote, p

-----------------------------------------------------------------------------
(* Evidence, and what it proposes.                                          *)

Sound(e) ==
    /\ e.instant # J!NotPublished => e.instant.date = e.date /\ e.instant.at \in {"noon", "time"}
    /\ e.automaticPublication => WholeDate(e.date) /\ (J!Stated(e.date) \/ e.cut)

LEMMA InstantOfDate ==
    ASSUME NEW c, J!Instant(c) # J!NotPublished
    PROVE J!Instant(c).date = c.date /\ J!Instant(c).at \in {"noon", "time"}
<1>1. CASE c.date = J!InvalidDate
  BY <1>1, SMT DEF J!Instant
<1>2. CASE c.date # J!InvalidDate /\ c.precision = "DATE"
  BY <1>2, SMT DEF J!Instant
<1>3. CASE c.date # J!InvalidDate /\ c.precision = "DATE_TIME" /\ c.zone = "UTC"
  BY <1>3, SMT DEF J!Instant
<1>4. CASE c.date # J!InvalidDate /\ c.precision # "DATE" /\ ~(c.precision = "DATE_TIME" /\ c.zone = "UTC")
  BY <1>4, SMT DEF J!Instant
<1> QED BY <1>1, <1>2, <1>3, <1>4

LEMMA ReadersEvidence ==
    ASSUME Len(page) \in Nat, NEW day, NEW e \in J!ParserEvidence(day)
    PROVE Sound(e)
<1> DEFINE Evidence(x) == [from |-> x.from, cut |-> FALSE, kind |-> x.kind, date |-> x.date,
                           instant |-> J!Instant(x), automaticPublication |-> x.reasons = {},
                           hint |-> J!NoHint, round |-> J!NoName]
<1>1. PICK c \in J!Candidates(page, J!Options(day)) : e = Evidence(c)
  BY Zenon DEF J!ParserEvidence
<1>2. e.date = c.date /\ e.instant = J!Instant(c) /\ (e.automaticPublication <=> c.reasons = {})
  BY <1>1
<1>3. e.instant # J!NotPublished => e.instant.date = e.date /\ e.instant.at \in {"noon", "time"}
  BY <1>2, InstantOfDate
<1>4. ASSUME c.reasons = {} PROVE WholeDate(c.date) /\ J!Stated(c.date)
  <2>1. c.date # J!InvalidDate
    <3>1. PICK n \in J!RawDates(page) : c = J!Candidate(page, n, J!Options(day))
      BY DEF J!Candidates
    <3>2. c.date = J!InvalidDate => "INVALID_DATE" \in c.reasons
      BY <3>1 DEF J!Candidate
    <3> QED BY <1>4, <3>2
  <2>2. PICK n \in J!RawDates(page) :
          n.pattern \in 1..4 /\ c.date = J!LocalDate(page, n, J!Options(day))
    BY <1>4, <2>1, CertainCandidate
  <2>3. WholeDate(c.date)
    BY <2>1, <2>2, WholeDateRead
  <2>4. J!LocalDate(page, n, J!Options(today)) = c.date
    BY <2>2, WholeDateIsTimeless DEF J!Options
  <2> QED BY <2>2, <2>3, <2>4 DEF J!Stated
<1> QED BY <1>2, <1>3, <1>4 DEF Sound

LEMMA ModelsEvidence ==
    ASSUME Len(page) \in Nat, \E S : page \in Seq(S), NEW q \in J!Quotation, NEW claim, NEW day,
           NEW e \in J!ModelEvidence(claim, q, J!ExactDates(J!Quote(q), day))
    PROVE Sound(e)
<1> DEFINE Evidence(x) == [from |-> q.from + x.from - 1, cut |-> q.cut /\ x.from = 1,
                           kind |-> claim.kind, date |-> x.date, instant |-> J!Instant(x),
                           automaticPublication |-> TRUE, hint |-> claim.hint, round |-> claim.round]
           exact == J!ExactDates(J!Quote(q), day)
<1>1. PICK c \in exact : e = Evidence(c)
  BY Zenon DEF J!ModelEvidence
<1>2. /\ e.date = c.date /\ e.instant = J!Instant(c)
      /\ e.cut <=> (q.cut /\ c.from = 1)
  BY <1>1
<1>3. e.instant # J!NotPublished => e.instant.date = e.date /\ e.instant.at \in {"noon", "time"}
  BY <1>2, InstantOfDate
<1>4. /\ c \in J!Candidates(J!Quote(q), J!Options(day))
      /\ c.date # J!InvalidDate /\ c.reasons \subseteq {"MISSING_CONTEXT"}
  BY <1>1 DEF J!ExactDates, J!Exact
<1>5. PICK m \in J!RawDates(J!Quote(q)) :
        /\ m.pattern \in 1..4 /\ m \in J!Matches(J!Quote(q), m.pattern)
        /\ c.from = m.from /\ c.date = J!LocalDate(J!Quote(q), m, J!Options(day))
  BY <1>4, CertainCandidate
<1>6. WholeDate(c.date)
  BY <1>4, <1>5, WholeDateRead
<1>7. ASSUME m.from # 1 \/ ~q.cut PROVE J!Stated(c.date)
  <2>1. PICK n \in J!RawDates(page) :
          /\ n.pattern = m.pattern
          /\ J!LocalDate(page, n, J!Options(day)) = J!LocalDate(J!Quote(q), m, J!Options(day))
    BY <1>5, <1>7, QuotedDate
  <2>2. J!LocalDate(page, n, J!Options(today)) = c.date
    BY <1>5, <2>1, WholeDateIsTimeless DEF J!Options
  <2> QED BY <1>5, <2>1, <2>2 DEF J!Stated
<1>8. J!Stated(c.date) \/ e.cut
  BY <1>2, <1>5, <1>7
<1> QED BY <1>2, <1>3, <1>6, <1>8 DEF Sound

FieldFor(e) == IF e.kind = "APPLICATION_DEADLINE" THEN "closesAt" ELSE "opensAt"

LEMMA ProposalsMade ==
    ASSUME NEW evidence, NEW day, NEW pub, NEW x
    PROVE x \in J!Proposals(evidence, day, pub) <=>
            \E e \in evidence : \E w \in J!Window :
               /\ J!Match(e, intakes, day).status = "MATCHED"
               /\ x = [evidence |-> e, window |-> w, field |-> FieldFor(e), value |-> e.instant]
               /\ x.value # J!NotPublished
               /\ x.window \in J!Target(J!Match(x.evidence, intakes, day))
               /\ pub[x.window.id][x.field] # x.value
<1> DEFINE matched == {e \in evidence : J!Match(e, intakes, day).status = "MATCHED"}
           made == {[evidence |-> e, window |-> w, field |-> FieldFor(e), value |-> e.instant] :
                       e \in matched, w \in J!Window}
<1>1. J!Proposals(evidence, day, pub) =
        {p \in made : /\ p.value # J!NotPublished
                      /\ p.window \in J!Target(J!Match(p.evidence, intakes, day))
                      /\ pub[p.window.id][p.field] # p.value}
  BY DEF J!Proposals, FieldFor
<1>2. x \in made <=>
        \E e \in matched : \E w \in J!Window :
           x = [evidence |-> e, window |-> w, field |-> FieldFor(e), value |-> e.instant]
  <2> HIDE DEF matched
  <2> QED OBVIOUS
<1>3. \A e : e \in matched <=> e \in evidence /\ J!Match(e, intakes, day).status = "MATCHED"
  OBVIOUS
<1> HIDE DEF made, matched
<1>4. x \in J!Proposals(evidence, day, pub) <=>
        /\ x \in made
        /\ x.value # J!NotPublished
        /\ x.window \in J!Target(J!Match(x.evidence, intakes, day))
        /\ pub[x.window.id][x.field] # x.value
  BY <1>1
<1> QED BY <1>2, <1>3, <1>4, Zenon

LEMMA CatalogueTyped ==
    ASSUME intakes \in Catalogue
    PROVE /\ IsFiniteSet(intakes)
          /\ \A i \in intakes : i.year \in Nat /\ i.month \in 0..12 /\ IsFiniteSet(i.rounds)
          /\ \A i, j \in intakes : i.id = j.id => i = j
          /\ \A i, j \in intakes : \A v \in i.rounds, w \in j.rounds : v.id = w.id => v = w
  BY ParsingAssumption, FiniteIsFinite DEF J!ParseAssumption

LEMMA PageTyped ==
    ASSUME page \in Page
    PROVE Len(page) \in Nat /\ \E S : page \in Seq(S)
<1>1. page \in Seq({page[i] : i \in DOMAIN page})
  BY ParsingAssumption DEF J!ParseAssumption
<1>2. PICK S : page \in Seq(S)
  <2> DEFINE S == {page[i] : i \in DOMAIN page}
  <2> HIDE DEF S
  <2> QED BY <1>1 DEF S
<1>3. Len(page) \in Nat
  BY <1>2
<1> QED BY <1>2, <1>3

GroundedProposal(p) ==
    /\ J!Stated(p.value.date) \/ p.evidence.cut
    /\ \E i \in intakes :
          /\ p.window \in i.rounds
          /\ i.rounds = {p.window} \/ p.window.name = p.evidence.round
          /\ p.evidence.hint # J!NoHint => J!MatchesHint(i, p.evidence.hint)

\* Sound evidence makes grounded proposals.
LEMMA ProposalsOfSoundEvidence ==
    ASSUME intakes \in Catalogue, NEW evidence, \A e \in evidence : Sound(e),
           NEW day, NEW pub, NEW p \in J!Proposals(evidence, day, pub)
    PROVE /\ GroundedProposal(p) /\ J!IsRevision(J!Row(p))
          /\ p.value # J!NotPublished
<1>1. PICK e \in evidence, w \in J!Window :
             /\ J!Match(e, intakes, day).status = "MATCHED"
             /\ p = [evidence |-> e, window |-> w, field |-> FieldFor(e), value |-> e.instant]
             /\ p.value # J!NotPublished
             /\ p.window \in J!Target(J!Match(p.evidence, intakes, day))
             /\ pub[p.window.id][p.field] # p.value
  BY ProposalsMade
<1>2. p.evidence = e /\ p.window = w /\ p.field = FieldFor(e) /\ p.value = e.instant
  BY <1>1
<1> DEFINE match == J!Match(e, intakes, day)
<1>3. PICK i \in intakes :
          /\ e.automaticPublication
          /\ match.intake = i.id
          /\ match.round = J!ResolveRound(i, e.round).round
          /\ e.hint # J!NoHint => J!MatchesHint(i, e.hint)
  BY <1>1, CatalogueTyped, MatchedIntake
<1>4. p.value.date = e.date /\ p.value.at \in {"noon", "time"}
  BY <1>1, <1>2 DEF Sound
<1>5. J!Stated(p.value.date) \/ p.evidence.cut
  BY <1>2, <1>3, <1>4 DEF Sound
<1> HIDE DEF match
<1>6. (CHOOSE j \in intakes : j.id = match.intake) = i
  BY <1>3, CatalogueTyped, Zenon
<1>7. IsFiniteSet(i.rounds)
  BY CatalogueTyped
<1>8. w \in IF match.round # J!NoRound THEN {v \in i.rounds : v.id = match.round}
            ELSE IF J!Cardinality(i.rounds) = 1 THEN i.rounds ELSE {}
  <2>1. w \in J!Target(match)
    BY <1>1, <1>2 DEF match
  <2> QED BY <1>6, <2>1, Zenon DEF J!Target
<1>9. w \in i.rounds /\ (i.rounds = {w} \/ w.name = e.round)
  <2>1. CASE match.round # J!NoRound
    <3>1. w \in i.rounds /\ w.id = match.round
      BY <1>8, <2>1
    <3>2. PICK v \in i.rounds : /\ match.round = v.id
                                /\ v.name = e.round \/ i.rounds = {v}
      BY <1>3, <1>7, <2>1, ResolvedRound
    <3>3. v = w
      BY <3>1, <3>2, CatalogueTyped
    <3> QED BY <3>1, <3>2, <3>3
  <2>2. CASE match.round = J!NoRound
    <3>1. w \in i.rounds /\ J!Cardinality(i.rounds) = 1
      BY <1>8, <2>2
    <3> QED BY <1>7, <3>1, OnlyElement
  <2> QED BY <2>1, <2>2
<1>10. J!IsRevision(J!Row(p))
  <2>1. /\ J!Row(p).window = w.id /\ J!Row(p).field = FieldFor(e) /\ J!Row(p).value = p.value
        /\ J!Row(p) = [window |-> w.id, field |-> FieldFor(e), value |-> p.value]
    BY <1>2 DEF J!Row
  <2>2. w.id \in J!WindowId
    BY DEF J!WindowId
  <2>3. FieldFor(e) \in J!WindowField
    BY DEF FieldFor, J!WindowField
  <2> QED BY <1>4, <2>1, <2>2, <2>3 DEF J!IsRevision
<1> QED BY <1>1, <1>2, <1>3, <1>5, <1>9, <1>10 DEF GroundedProposal

LEMMA BindingsOfSoundEvidence ==
    ASSUME intakes \in Catalogue, NEW evidence, \A e \in evidence : Sound(e),
           NEW day, day[1] \in Int, day[2] \in Int, NEW b \in J!Bindings(evidence, day)
    PROVE {i.id : i \in {j \in intakes : J!IsChronologicallyEligible(j, b.date)}} = {b.intake}
<1>1. PICK e \in evidence :
             /\ e.hint = J!NoHint /\ J!Match(e, intakes, day).status = "MATCHED"
             /\ b.date = e.date /\ b.intake = J!Match(e, intakes, day).intake
  BY DEF J!Bindings
<1>2. PICK i \in intakes :
          /\ e.automaticPublication
          /\ b.intake = i.id
          /\ ~J!IsStaleCandidate(e.date, day)
          /\ J!IsChronologicallyEligible(i, e.date)
          /\ \A j \in intakes : J!IsChronologicallyEligible(j, e.date) =>
                                    j = i \/ J!IsOldIntake(j, day)
  BY <1>1, CatalogueTyped, MatchedIntake
<1>3. WholeDate(e.date)
  BY <1>2 DEF Sound
<1>4. \A j \in intakes : J!IsChronologicallyEligible(j, e.date) => ~J!IsOldIntake(j, day)
  BY <1>2, <1>3, CatalogueTyped, OldIntakeOldDate
<1>5. {j \in intakes : J!IsChronologicallyEligible(j, e.date)} = {i}
  BY <1>2, <1>4
<1> QED BY <1>1, <1>2, <1>5, Zenon

-----------------------------------------------------------------------------
(* The job's steps.                                                         *)

LEMMA PageStays ==
    ASSUME UNCHANGED <<page, intakes, country>>
    PROVE /\ \A d : J!ParserEvidence(d)' = J!ParserEvidence(d)
          /\ J!Window' = J!Window /\ J!WindowId' = J!WindowId
          /\ \A r : J!IsRevision(r)' <=> J!IsRevision(r)
          /\ \A p : GroundedProposal(p)' <=> GroundedProposal(p)
<1>1. \A d : J!ParserEvidence(d)' = J!ParserEvidence(d)
  BY DEF J!ParserEvidence, J!Options
<1>2. J!Window' = J!Window /\ J!WindowId' = J!WindowId
  BY DEF J!Window, J!WindowId
<1>3. \A r : J!IsRevision(r)' <=> J!IsRevision(r)
  BY <1>2 DEF J!IsRevision
<1>4. \A d : J!Stated(d)' <=> J!Stated(d)
  <2> SUFFICES ASSUME NEW d PROVE J!Stated(d)' <=> J!Stated(d)
    OBVIOUS
  <2>1. J!Options(today) = [order |-> country, today |-> today]
        /\ J!Options(today)' = [order |-> country, today |-> today']
    BY DEF J!Options
  <2>2. \A m : m.pattern \in 1..4 =>
           J!LocalDate(page, m, J!Options(today))' = J!LocalDate(page, m, J!Options(today))
    BY <2>1, WholeDateIsTimeless
  <2> QED BY <2>2 DEF J!Stated
<1>5. \A p : GroundedProposal(p)' <=> GroundedProposal(p)
  BY <1>4 DEF GroundedProposal
<1> QED BY <1>1, <1>2, <1>3, <1>5

Ahead == J!Rows(J!Proposals(J!ParserEvidence(today), today, parseWindow))
LEMMA AheadStays ==
    ASSUME UNCHANGED <<page, intakes, country, today, parseWindow>>
    PROVE Ahead' = Ahead
<1>1. J!ParserEvidence(today)' = J!ParserEvidence(today)
  BY PageStays
<1> QED BY <1>1 DEF Ahead, J!Rows, J!Proposals, J!Window, J!Target

\* What the reader proposes on the day, to a pass that began with these windows.
OfTheDay == J!Rows(J!Proposals(J!ParserEvidence(today), today, job.loaded))

\* The pass at hand: what it has to propose is grounded, the reader's is that of the
\* day, and only a model is asked.
PassInv ==
    /\ job.pc \in {"propose", "enqueue"} =>
         /\ \A p \in job.todo : GroundedProposal(p) /\ J!IsRevision(J!Row(p))
         /\ \A r \in job.next : J!IsRevision(r)
         /\ job.pass = "parser" => J!Rows(job.todo) \cup job.next \subseteq OfTheDay
    /\ job.pc \in {"propose", "ask"} => job.next = {}
    /\ job.pc = "ask" => job.pass = "model"

ParsingIInv ==
    /\ J!ParseInv /\ PassInv
    /\ \A p \in proposed : GroundedProposal(p)
    /\ J!BindingIsTimeless

LEMMA DayStays ==
    ASSUME UNCHANGED <<page, intakes, country, today>>, job'.loaded = job.loaded
    PROVE OfTheDay' = OfTheDay
<1>1. J!ParserEvidence(today)' = J!ParserEvidence(today)
  BY PageStays
<1> QED BY <1>1 DEF OfTheDay, J!Rows, J!Proposals, J!Window, J!Target

LEMMA ProposedAgain ==
    ASSUME NEW pub, NEW r \in J!Rows(J!Proposals(J!ParserEvidence(today), today, pub)),
           parseWindow[r.window][r.field] # r.value
    PROVE r \in Ahead
<1>1. PICK p \in J!Proposals(J!ParserEvidence(today), today, pub) : r = J!Row(p)
  BY DEF J!Rows
<1>2. PICK e \in J!ParserEvidence(today), w \in J!Window :
             /\ J!Match(e, intakes, today).status = "MATCHED"
             /\ p = [evidence |-> e, window |-> w, field |-> FieldFor(e), value |-> e.instant]
             /\ p.value # J!NotPublished
             /\ p.window \in J!Target(J!Match(p.evidence, intakes, today))
  BY ProposalsMade
<1>3. parseWindow[p.window.id][p.field] # p.value
  BY <1>1 DEF J!Row
<1>4. p \in J!Proposals(J!ParserEvidence(today), today, parseWindow)
  BY <1>2, <1>3, ProposalsMade
<1> QED BY <1>1, <1>4 DEF Ahead, J!Rows

LEMMA DayTyped ==
    ASSUME today \in Day
    PROVE today[1] \in Int /\ today[2] \in Int
<1>1. today # J!InvalidDate /\ J!DateOf(today[1], today[2], today[3]) = today
  BY ParsingAssumption DEF J!ParseAssumption
<1>2. today[1] \in 2000..2100 /\ today[2] \in 1..12
  BY <1>1, ValidDate
<1> QED BY <1>2

LEMMA BindingStays ==
    ASSUME UNCHANGED <<intakes, bound>>, J!BindingIsTimeless
    PROVE J!BindingIsTimeless'
  BY DEF J!BindingIsTimeless

\* The part of the typing that no step of the job touches.
LEMMA TypedFrame ==
    ASSUME J!TypeOK, UNCHANGED <<page, intakes, country>>,
           today' \in Day, failures' \in 0..MaxFailures
    PROVE /\ page' \in Page /\ intakes' \in Catalogue /\ country' \in {"DMY", "MDY"}
          /\ today' \in Day /\ failures' \in 0..MaxFailures
          /\ UNCHANGED parseWindow =>
               /\ parseWindow' = [w \in J!WindowId' |-> [f \in J!WindowField |-> parseWindow'[w][f]]]
               /\ \A w \in J!WindowId', f \in J!WindowField :
                     parseWindow'[w][f].at \in {"never", "noon", "time"}
          /\ proposals' \subseteq proposals => \A r \in proposals' : J!IsRevision(r)'
<1>1. J!WindowId' = J!WindowId /\ \A r : J!IsRevision(r)' <=> J!IsRevision(r)
  BY PageStays
<1> QED BY <1>1 DEF J!TypeOK

\* The fields of a pass, whatever it is doing.
LEMMA PassFields ==
    ASSUME J!TypeOK, job.pc \in {"propose", "enqueue", "ask"}
    PROVE J!IsPass(job)
<1>1. J!Idle.pc = "idle"
  BY DEF J!Idle
<1>2. job # J!Idle /\ job # [pc |-> "failed"] /\ job.pc # "done" /\ job.pc # "load"
  BY <1>1
<1> QED BY <1>2 DEF J!TypeOK

LEMMA EnqueueStep ==
    ASSUME ParsingIInv, NEW day \in Day, J!Enqueue(day)
    PROVE ParsingIInv'
<1>1. /\ job.pc \in {"idle", "done", "failed"} /\ today' = day
      /\ job' = [pc |-> "load", attempts |-> 0]
      /\ UNCHANGED <<page, intakes, country, parseWindow, proposals, reviewJob, failures,
                     proposed, bound, swallowed>>
  BY DEF J!Enqueue, J!given, J!history
<1>2. job'.pc = "load" /\ job'.attempts = 0
  BY <1>1
<1>3. J!TypeOK'
  <2>1. job'.pc = "load" /\ job' = [pc |-> "load", attempts |-> job'.attempts] /\ job'.attempts \in Nat
    BY <1>1, <1>2
  <2>2. J!TypeOK /\ failures' \in 0..MaxFailures
    BY <1>1 DEF ParsingIInv, J!ParseInv, J!TypeOK
  <2> QED BY <1>1, <2>1, <2>2, TypedFrame DEF J!TypeOK
<1>4. proposals \subseteq reviewJob \cup swallowed
  BY <1>1 DEF ParsingIInv, J!ParseInv, J!ReviewsFollow
<1>5. J!ReviewsFollow' /\ J!WaitingIsAhead'
  BY <1>1, <1>2, <1>4 DEF J!ReviewsFollow, J!WaitingIsAhead
<1>6. PassInv'
  BY <1>2 DEF PassInv
<1>7. \A p \in proposed' : GroundedProposal(p)'
  BY <1>1, PageStays DEF ParsingIInv
<1>8. J!BindingIsTimeless'
  BY <1>1, BindingStays DEF ParsingIInv
<1> QED BY <1>3, <1>5, <1>6, <1>7, <1>8 DEF ParsingIInv, J!ParseInv

\* The retry finds again what the failed attempt left without review job.
LEMMA LoadStep ==
    ASSUME ParsingIInv, J!Load
    PROVE ParsingIInv'
<1> DEFINE evidence == J!ParserEvidence(today)
           made == J!Proposals(evidence, today, parseWindow)
<1>1. /\ job.pc = "load"
      /\ UNCHANGED <<page, intakes, country, today, parseWindow, proposals, reviewJob, failures,
                     proposed, swallowed>>
      /\ IF intakes = {} THEN job' = [pc |-> "done", made |-> {}] /\ UNCHANGED bound
         ELSE /\ job' = [pc |-> "propose", pass |-> "parser", attempts |-> job.attempts,
                         loaded |-> parseWindow, made |-> {}, next |-> {}, todo |-> made]
              /\ bound' = J!Bindings(evidence, today)
  BY DEF J!Load, J!given
<1>2. /\ J!TypeOK /\ page \in Page /\ intakes \in Catalogue /\ today \in Day
      /\ failures \in 0..MaxFailures /\ job.attempts \in Nat
  <2>1. J!Idle.pc = "idle" /\ [pc |-> "failed"].pc = "failed"
    BY DEF J!Idle
  <2> QED BY <1>1, <2>1 DEF ParsingIInv, J!ParseInv, J!TypeOK, J!IsPass
<1>3. \A e \in evidence : Sound(e)
  BY <1>2, PageTyped, ReadersEvidence
<1> HIDE DEF evidence, made
<1>4. proposals \ (reviewJob \cup swallowed) \subseteq J!Rows(made)
  BY <1>1 DEF ParsingIInv, J!ParseInv, J!WaitingIsAhead, made, evidence
<1>5. \A p \in proposed' : GroundedProposal(p)'
  BY <1>1, PageStays DEF ParsingIInv
<1>6. CASE intakes = {}
  <2>1. job' = [pc |-> "done", made |-> {}] /\ UNCHANGED bound
    BY <1>1, <1>6
  <2>2. job'.pc = "done" /\ job' = [pc |-> "done", made |-> job'.made]
    BY <2>1
  <2>3. J!TypeOK'
    BY <1>1, <1>2, <2>2, TypedFrame DEF J!TypeOK
  <2>4. J!Rows(made) = {}
    <3>1. J!Window = {}
      BY <1>6 DEF J!Window
    <3> QED BY <3>1, ProposalsMade DEF J!Rows, made
  <2>5. J!ReviewsFollow' /\ J!WaitingIsAhead'
    BY <1>1, <1>4, <2>2, <2>4 DEF J!ReviewsFollow, J!WaitingIsAhead
  <2>6. PassInv'
    BY <2>2 DEF PassInv
  <2>7. J!BindingIsTimeless'
    BY <1>1, <2>1, BindingStays DEF ParsingIInv
  <2> QED BY <1>5, <2>3, <2>5, <2>6, <2>7 DEF ParsingIInv, J!ParseInv
<1>7. CASE intakes # {}
  <2>1. /\ job' = [pc |-> "propose", pass |-> "parser", attempts |-> job.attempts,
                   loaded |-> parseWindow, made |-> {}, next |-> {}, todo |-> made]
        /\ bound' = J!Bindings(evidence, today)
    BY <1>1, <1>7
  <2>2. /\ job'.pc = "propose" /\ job'.pass = "parser" /\ job'.attempts \in Nat
        /\ job'.loaded = parseWindow /\ job'.todo = made /\ job'.next = {}
        /\ job' = [pc |-> job'.pc, pass |-> job'.pass, attempts |-> job'.attempts,
                   loaded |-> job'.loaded, made |-> job'.made, todo |-> job'.todo, next |-> job'.next]
    BY <1>2, <2>1
  <2>3. J!IsPass(job)'
    BY <2>2 DEF J!IsPass
  <2>4. J!TypeOK'
    BY <1>1, <1>2, <2>3, TypedFrame DEF J!TypeOK
  <2>5. J!ReviewsFollow' /\ J!WaitingIsAhead'
    BY <1>1, <1>4, <2>2 DEF J!ReviewsFollow, J!WaitingIsAhead, J!Rows
  <2>6. \A p \in made : GroundedProposal(p) /\ J!IsRevision(J!Row(p))
    BY <1>2, <1>3, ProposalsOfSoundEvidence DEF made
  <2>7. J!Rows(made) = Ahead /\ Ahead' = Ahead
    BY <1>1, AheadStays DEF Ahead, made, evidence
  <2>8. Ahead' = OfTheDay'
    BY <1>1, <2>2 DEF Ahead, OfTheDay
  <2>9. (J!Rows(job.todo) \cup job.next)' = J!Rows(made)
    BY <2>2 DEF J!Rows
  <2>10. PassInv'
    BY <1>1, <2>2, <2>6, <2>7, <2>8, <2>9, PageStays DEF PassInv
  <2>11. J!BindingIsTimeless'
    BY <1>1, <1>2, <1>3, <2>1, DayTyped, BindingsOfSoundEvidence DEF J!BindingIsTimeless
  <2> QED BY <1>5, <2>4, <2>5, <2>10, <2>11 DEF ParsingIInv, J!ParseInv
<1> QED BY <1>6, <1>7

LEMMA ProposeStep ==
    ASSUME ParsingIInv, J!Propose
    PROVE ParsingIInv'
<1>1. /\ job.pc = "propose"
      /\ UNCHANGED <<page, intakes, country, today, parseWindow, reviewJob, failures, bound, swallowed>>
  BY DEF J!Propose, J!given
<1>2. PICK p \in job.todo :
        /\ proposals' = proposals \cup {J!Row(p)} /\ proposed' = {p}
        /\ job' = [job EXCEPT !.pc = "enqueue", !.todo = @ \ {p}, !.next = {J!Row(p)}]
  BY DEF J!Propose
<1>3. J!IsPass(job) /\ J!TypeOK
  BY <1>1, PassFields DEF ParsingIInv, J!ParseInv
<1>4. /\ job'.pc = "enqueue" /\ job'.pass = job.pass /\ job'.attempts = job.attempts
      /\ job'.loaded = job.loaded /\ job'.todo = job.todo \ {p} /\ job'.next = {J!Row(p)}
      /\ job' = [pc |-> job'.pc, pass |-> job'.pass, attempts |-> job'.attempts,
                 loaded |-> job'.loaded, made |-> job'.made, todo |-> job'.todo, next |-> job'.next]
  BY <1>2, <1>3 DEF J!IsPass
<1>5. J!IsPass(job)'
  BY <1>3, <1>4 DEF J!IsPass
<1>6. \A x \in job.todo : GroundedProposal(x) /\ J!IsRevision(J!Row(x))
  BY <1>1 DEF ParsingIInv, PassInv
<1>7. J!TypeOK'
  <2>1. \A r \in proposals' : J!IsRevision(r)'
    BY <1>1, <1>2, <1>3, <1>6, PageStays DEF J!TypeOK
  <2>2. today' \in Day /\ failures' \in 0..MaxFailures
    BY <1>1, <1>3 DEF J!TypeOK
  <2> QED BY <1>1, <1>3, <1>5, <2>1, <2>2, TypedFrame DEF J!TypeOK
<1>8. J!Rows(job.todo) = J!Rows(job'.todo) \cup {J!Row(p)}
  BY <1>4 DEF J!Rows
<1>9. J!ReviewsFollow' /\ J!WaitingIsAhead'
  <2>1. proposals \ (reviewJob \cup swallowed) \subseteq J!Rows(job.todo) \cup job.next
    BY <1>1 DEF ParsingIInv, J!ParseInv, J!WaitingIsAhead
  <2>2. job.next = {}
    BY <1>1 DEF ParsingIInv, PassInv
  <2>3. J!Rows(job.todo)' = J!Rows(job'.todo)
    BY DEF J!Rows
  <2>4. (proposals \ (reviewJob \cup swallowed))' \subseteq (J!Rows(job.todo) \cup job.next)'
    BY <1>1, <1>2, <1>4, <1>8, <2>1, <2>2, <2>3
  <2> QED BY <1>4, <2>4 DEF J!ReviewsFollow, J!WaitingIsAhead
<1>10. PassInv'
  <2>1. \A r \in job'.next : J!IsRevision(r)'
    BY <1>1, <1>4, <1>6, PageStays
  <2>2. \A x \in job'.todo : GroundedProposal(x)' /\ J!IsRevision(J!Row(x))'
    BY <1>1, <1>4, <1>6, PageStays
  <2>3. J!Rows(job'.todo) \cup job'.next = J!Rows(job.todo) \cup job'.next
    BY <1>4, <1>8
  <2>4. J!Rows(job.todo) \cup job'.next \subseteq J!Rows(job.todo) \cup job.next
    BY <1>4, <1>8
  <2>5. OfTheDay' = OfTheDay
    BY <1>1, <1>4, DayStays
  <2>6. job'.pass = "parser" => J!Rows(job'.todo) \cup job'.next \subseteq OfTheDay'
    BY <1>1, <1>4, <2>3, <2>4, <2>5 DEF ParsingIInv, PassInv
  <2>7. J!Rows(job.todo)' = J!Rows(job'.todo)
    BY DEF J!Rows
  <2> QED BY <1>4, <2>1, <2>2, <2>6, <2>7 DEF PassInv
<1>11. \A x \in proposed' : GroundedProposal(x)'
  BY <1>1, <1>2, <1>6, PageStays
<1>12. J!BindingIsTimeless'
  BY <1>1, BindingStays DEF ParsingIInv
<1> QED BY <1>7, <1>9, <1>10, <1>11, <1>12 DEF ParsingIInv, J!ParseInv

LEMMA EnqueueReviewStep ==
    ASSUME ParsingIInv, J!EnqueueReview
    PROVE ParsingIInv'
<1>1. /\ job.pc = "enqueue"
      /\ job' = [job EXCEPT !.pc = "propose", !.made = @ \cup job.next, !.next = {}]
      /\ reviewJob' = reviewJob \cup job.next
      /\ UNCHANGED <<page, intakes, country, today, parseWindow, proposals, failures,
                     proposed, bound, swallowed>>
  BY DEF J!EnqueueReview, J!given, J!history
<1>2. J!IsPass(job) /\ J!TypeOK
  BY <1>1, PassFields DEF ParsingIInv, J!ParseInv
<1>3. /\ job'.pc = "propose" /\ job'.pass = job.pass /\ job'.attempts = job.attempts
      /\ job'.loaded = job.loaded /\ job'.todo = job.todo /\ job'.next = {}
      /\ job' = [pc |-> job'.pc, pass |-> job'.pass, attempts |-> job'.attempts,
                 loaded |-> job'.loaded, made |-> job'.made, todo |-> job'.todo, next |-> job'.next]
  BY <1>1, <1>2 DEF J!IsPass
<1>4. J!IsPass(job)'
  BY <1>2, <1>3 DEF J!IsPass
<1>5. J!TypeOK'
  <2>1. today' \in Day /\ failures' \in 0..MaxFailures
    BY <1>1, <1>2 DEF J!TypeOK
  <2> QED BY <1>1, <1>2, <1>4, <2>1, TypedFrame DEF J!TypeOK
<1>6. J!Rows(job.todo)' = J!Rows(job.todo)
  BY <1>3 DEF J!Rows
<1>7. J!ReviewsFollow' /\ J!WaitingIsAhead'
  <2>1. proposals \ (reviewJob \cup swallowed) \subseteq J!Rows(job.todo) \cup job.next
    BY <1>1 DEF ParsingIInv, J!ParseInv, J!WaitingIsAhead
  <2> QED BY <1>1, <1>3, <1>6, <2>1 DEF J!ReviewsFollow, J!WaitingIsAhead
<1>8. PassInv'
  <2>1. \A x \in job'.todo : GroundedProposal(x)' /\ J!IsRevision(J!Row(x))'
    BY <1>1, <1>3, PageStays DEF ParsingIInv, PassInv
  <2>2. OfTheDay' = OfTheDay
    BY <1>1, <1>3, DayStays
  <2>3. job'.pass = "parser" => J!Rows(job.todo) \subseteq OfTheDay'
    BY <1>1, <1>3, <2>2 DEF ParsingIInv, PassInv
  <2> QED BY <1>3, <1>6, <2>1, <2>3 DEF PassInv
<1>9. \A x \in proposed' : GroundedProposal(x)'
  BY <1>1, PageStays DEF ParsingIInv
<1>10. J!BindingIsTimeless'
  BY <1>1, BindingStays DEF ParsingIInv
<1> QED BY <1>5, <1>7, <1>8, <1>9, <1>10 DEF ParsingIInv, J!ParseInv

LEMMA EndPassStep ==
    ASSUME ParsingIInv, J!EndPass
    PROVE ParsingIInv'
<1>1. /\ job.pc = "propose" /\ job.todo = {}
      /\ UNCHANGED <<page, intakes, country, today, parseWindow, proposals, reviewJob, failures,
                     proposed, bound, swallowed>>
  BY DEF J!EndPass, J!given, J!history
<1>2. J!IsPass(job) /\ J!TypeOK
  BY <1>1, PassFields DEF ParsingIInv, J!ParseInv
<1>3. today' \in Day /\ failures' \in 0..MaxFailures
  BY <1>1, <1>2 DEF J!TypeOK
<1>4. \A x \in proposed' : GroundedProposal(x)'
  BY <1>1, PageStays DEF ParsingIInv
<1>5. J!BindingIsTimeless'
  BY <1>1, BindingStays DEF ParsingIInv
<1>6. proposals \ (reviewJob \cup swallowed) \subseteq job.next
  BY <1>1 DEF ParsingIInv, J!ParseInv, J!WaitingIsAhead, J!Rows
<1>7. job.next = {}
  BY <1>1 DEF ParsingIInv, PassInv
<1>8. CASE job' = [pc |-> "done", made |-> job.made]
  <2>1. job'.pc = "done" /\ job' = [pc |-> "done", made |-> job'.made]
    BY <1>8
  <2>2. J!TypeOK'
    BY <1>1, <1>2, <1>3, <2>1, TypedFrame DEF J!TypeOK
  <2>3. J!ReviewsFollow' /\ J!WaitingIsAhead'
    BY <1>1, <1>6, <1>7, <2>1 DEF J!ReviewsFollow, J!WaitingIsAhead
  <2>4. PassInv'
    BY <2>1 DEF PassInv
  <2> QED BY <1>4, <1>5, <2>2, <2>3, <2>4 DEF ParsingIInv, J!ParseInv
<1>9. CASE job' = [job EXCEPT !.pc = "ask", !.pass = "model"]
  <2>1. /\ job'.pc = "ask" /\ job'.pass = "model" /\ job'.attempts = job.attempts /\ job'.next = job.next
        /\ job' = [pc |-> job'.pc, pass |-> job'.pass, attempts |-> job'.attempts,
                   loaded |-> job'.loaded, made |-> job'.made, todo |-> job'.todo, next |-> job'.next]
    BY <1>2, <1>9 DEF J!IsPass
  <2>2. J!IsPass(job)'
    BY <1>2, <2>1 DEF J!IsPass
  <2>3. J!TypeOK'
    BY <1>1, <1>2, <1>3, <2>2, TypedFrame DEF J!TypeOK
  <2>4. J!ReviewsFollow' /\ J!WaitingIsAhead'
    BY <1>1, <1>6, <1>7, <2>1 DEF J!ReviewsFollow, J!WaitingIsAhead
  <2>5. PassInv'
    BY <1>7, <2>1 DEF PassInv
  <2> QED BY <1>4, <1>5, <2>3, <2>4, <2>5 DEF ParsingIInv, J!ParseInv
<1> QED BY <1>1, <1>8, <1>9 DEF J!EndPass

LEMMA AskStep ==
    ASSUME ParsingIInv, J!Ask
    PROVE ParsingIInv'
<1>1. /\ job.pc = "ask"
      /\ UNCHANGED <<page, intakes, country, today, parseWindow, proposals, reviewJob, failures,
                     proposed, swallowed>>
  BY DEF J!Ask, J!given
<1>2. J!IsPass(job) /\ J!TypeOK
  BY <1>1, PassFields DEF ParsingIInv, J!ParseInv
<1>3. /\ page \in Page /\ intakes \in Catalogue /\ today \in Day /\ failures \in 0..MaxFailures
  BY <1>2 DEF J!TypeOK
<1>4. PICK q \in J!Quotation, claim \in J!Claim :
        \E evidence \in {J!ModelEvidence(claim, q, J!ExactDates(J!Quote(q), today))} :
          /\ job' = [job EXCEPT !.pc = "propose",
                                !.todo = J!Proposals(evidence, today, job.loaded)]
          /\ bound' = J!Bindings(evidence, today)
  BY DEF J!Ask
<1> DEFINE evidence == J!ModelEvidence(claim, q, J!ExactDates(J!Quote(q), today))
           made == J!Proposals(evidence, today, job.loaded)
<1>5. /\ job' = [job EXCEPT !.pc = "propose", !.todo = made]
      /\ bound' = J!Bindings(evidence, today)
  BY <1>4
<1>6. \A e \in evidence : Sound(e)
  BY <1>3, PageTyped, ModelsEvidence
<1> HIDE DEF evidence
<1>7. \A p \in made : GroundedProposal(p) /\ J!IsRevision(J!Row(p))
  BY <1>3, <1>6, ProposalsOfSoundEvidence
<1> HIDE DEF made
<1>8. job.next = {} /\ job.pass = "model"
  BY <1>1 DEF ParsingIInv, PassInv
<1>9. /\ job'.pc = "propose" /\ job'.pass = job.pass /\ job'.attempts = job.attempts
      /\ job'.next = job.next /\ job'.todo = made
      /\ job' = [pc |-> job'.pc, pass |-> job'.pass, attempts |-> job'.attempts,
                 loaded |-> job'.loaded, made |-> job'.made, todo |-> job'.todo, next |-> job'.next]
  BY <1>2, <1>5 DEF J!IsPass
<1>10. J!IsPass(job)'
  BY <1>2, <1>9 DEF J!IsPass
<1>11. J!TypeOK'
  BY <1>1, <1>2, <1>3, <1>10, TypedFrame DEF J!TypeOK
<1>12. proposals \subseteq reviewJob \cup swallowed
  BY <1>1 DEF ParsingIInv, J!ParseInv, J!WaitingIsAhead
<1>13. J!ReviewsFollow' /\ J!WaitingIsAhead'
  BY <1>1, <1>9, <1>12 DEF J!ReviewsFollow, J!WaitingIsAhead
<1>14. PassInv'
  BY <1>1, <1>7, <1>8, <1>9, PageStays DEF PassInv
<1>15. \A x \in proposed' : GroundedProposal(x)'
  BY <1>1, PageStays DEF ParsingIInv
<1>16. J!BindingIsTimeless'
  BY <1>1, <1>3, <1>5, <1>6, DayTyped, BindingsOfSoundEvidence DEF J!BindingIsTimeless
<1> QED BY <1>11, <1>13, <1>14, <1>15, <1>16 DEF ParsingIInv, J!ParseInv

LEMMA FailStep ==
    ASSUME ParsingIInv, J!Fail
    PROVE ParsingIInv'
<1> DEFINE inModelPass == job.pc # "load" /\ job.pass = "model"
           retried == ~inModelPass /\ job.attempts + 1 < Attempts
           waiting == proposals \ (reviewJob \cup swallowed)
<1>1. /\ job.pc \in {"load", "propose", "enqueue", "ask"}
      /\ failures < MaxFailures /\ failures' = failures + 1
      /\ job' = IF inModelPass THEN [pc |-> "done", made |-> job.made]
                ELSE IF retried THEN [pc |-> "load", attempts |-> job.attempts + 1]
                ELSE [pc |-> "failed"]
      /\ swallowed' = swallowed \cup
            {r \in proposals \ reviewJob : ~retried \/ parseWindow[r.window][r.field] = r.value}
      /\ UNCHANGED <<page, intakes, country, today, parseWindow, proposals, reviewJob, proposed, bound>>
  BY DEF J!Fail, J!given
<1>2. J!TypeOK
  BY DEF ParsingIInv, J!ParseInv
<1>3. today' \in Day /\ failures' \in 0..MaxFailures
  <2>1. today \in Day /\ failures \in 0..MaxFailures /\ MaxFailures \in Nat
    BY <1>2, ParsingAssumption DEF J!TypeOK, J!ParseAssumption
  <2>2. failures' \in 0..MaxFailures
    BY <1>1, <2>1, SMT
  <2> QED BY <1>1, <2>1, <2>2
<1>4. \A x \in proposed' : GroundedProposal(x)'
  BY <1>1, PageStays DEF ParsingIInv
<1>5. J!BindingIsTimeless'
  BY <1>1, BindingStays DEF ParsingIInv
<1>6. CASE retried
  <2>1. job' = [pc |-> "load", attempts |-> job.attempts + 1]
    BY <1>1, <1>6
  <2>2. job.attempts \in Nat
    <3>1. CASE job.pc = "load"
      <4>1. J!Idle.pc = "idle" /\ [pc |-> "failed"].pc = "failed"
        BY DEF J!Idle
      <4> QED BY <1>2, <3>1, <4>1 DEF J!TypeOK, J!IsPass
    <3>2. CASE job.pc # "load"
      BY <1>1, <1>2, <3>2, PassFields DEF J!IsPass
    <3> QED BY <3>1, <3>2
  <2>3. job'.pc = "load" /\ job' = [pc |-> "load", attempts |-> job'.attempts] /\ job'.attempts \in Nat
    BY <2>1, <2>2
  <2>4. J!TypeOK'
    BY <1>1, <1>2, <1>3, <2>3, TypedFrame DEF J!TypeOK
  <2>5. waiting \subseteq Ahead \cup {r \in proposals : parseWindow[r.window][r.field] = r.value}
    <3>1. CASE job.pc = "load"
      BY <3>1 DEF ParsingIInv, J!ParseInv, J!WaitingIsAhead, Ahead
    <3>2. CASE job.pc \in {"propose", "enqueue"}
      <4>1. job.pass = "parser"
        BY <1>2, <1>6, <3>2, PassFields DEF J!IsPass
      <4>2. waiting \subseteq OfTheDay
        BY <3>2, <4>1 DEF ParsingIInv, J!ParseInv, J!WaitingIsAhead, PassInv
      <4> HIDE DEF waiting
      <4>3. \A r \in waiting : parseWindow[r.window][r.field] # r.value => r \in Ahead
        BY <4>2, ProposedAgain DEF OfTheDay
      <4> QED BY <4>3 DEF waiting
    <3>3. CASE job.pc = "ask"
      BY <3>3 DEF ParsingIInv, J!ParseInv, J!WaitingIsAhead
    <3> QED BY <1>1, <3>1, <3>2, <3>3
  <2>6. (proposals \ (reviewJob \cup swallowed))' \subseteq Ahead
    BY <1>1, <2>5
  <2>7. Ahead' = Ahead
    BY <1>1, AheadStays
  <2>8. J!ReviewsFollow' /\ J!WaitingIsAhead'
    <3>1. J!Rows(J!Proposals(J!ParserEvidence(today), today, parseWindow))' = Ahead'
      BY DEF Ahead
    <3> QED BY <2>3, <2>6, <2>7, <3>1 DEF J!ReviewsFollow, J!WaitingIsAhead
  <2>9. PassInv'
    BY <2>3 DEF PassInv
  <2> QED BY <1>4, <1>5, <2>4, <2>8, <2>9 DEF ParsingIInv, J!ParseInv
<1>7. CASE ~retried
  <2>1. job' = [pc |-> "done", made |-> job.made] \/ job' = [pc |-> "failed"]
    BY <1>1, <1>7
  <2>2. /\ job'.pc \in {"done", "failed"}
        /\ \/ job' = [pc |-> "failed"]
           \/ job'.pc = "done" /\ job' = [pc |-> "done", made |-> job'.made]
    BY <2>1
  <2>3. J!TypeOK'
    BY <1>1, <1>2, <1>3, <2>2, TypedFrame DEF J!TypeOK
  <2>4. proposals' \subseteq reviewJob' \cup swallowed'
    BY <1>1, <1>7
  <2>5. J!ReviewsFollow' /\ J!WaitingIsAhead'
    BY <2>2, <2>4 DEF J!ReviewsFollow, J!WaitingIsAhead
  <2>6. PassInv'
    BY <2>2 DEF PassInv
  <2> QED BY <1>4, <1>5, <2>3, <2>5, <2>6 DEF ParsingIInv, J!ParseInv
<1> QED BY <1>6, <1>7

\* What a reviewer publishes is no longer proposed, and nothing else is lost by it.
LEMMA DecideStep ==
    ASSUME ParsingIInv, NEW d \in proposals, J!Decide(d)
    PROVE ParsingIInv'
<1>1. /\ proposals' = proposals \ {d} /\ reviewJob' = reviewJob \ {d} /\ swallowed' = swallowed \ {d}
      /\ parseWindow' = [parseWindow EXCEPT ![d.window][d.field] = d.value] \/ UNCHANGED parseWindow
      /\ UNCHANGED <<page, intakes, country, today, job, failures, proposed, bound>>
  BY DEF J!Decide, J!given
<1>2. J!TypeOK
  BY DEF ParsingIInv, J!ParseInv
<1>3. /\ today' \in Day /\ failures' \in 0..MaxFailures
      /\ J!IsRevision(d)
  BY <1>1, <1>2 DEF J!TypeOK
<1>4. /\ parseWindow = [w \in J!WindowId |-> [f \in J!WindowField |-> parseWindow[w][f]]]
      /\ d.window \in J!WindowId /\ d.field \in J!WindowField /\ d.value.at \in {"noon", "time"}
      /\ \A w \in J!WindowId, f \in J!WindowField : parseWindow[w][f].at \in {"never", "noon", "time"}
  BY <1>2, <1>3 DEF J!TypeOK, J!IsRevision
<1>5. ASSUME parseWindow' = [parseWindow EXCEPT ![d.window][d.field] = d.value]
      PROVE  /\ parseWindow' = [w \in J!WindowId |-> [f \in J!WindowField |-> parseWindow'[w][f]]]
             /\ \A w \in J!WindowId, f \in J!WindowField :
                   parseWindow'[w][f] = IF w = d.window /\ f = d.field THEN d.value ELSE parseWindow[w][f]
  <2>1. DOMAIN parseWindow = J!WindowId
    BY <1>4
  <2>2. \A w \in J!WindowId : /\ DOMAIN parseWindow[w] = J!WindowField
                              /\ parseWindow[w] = [f \in J!WindowField |-> parseWindow[w][f]]
    BY <1>4
  <2>3. parseWindow' = [w \in J!WindowId |->
                          IF w = d.window THEN [parseWindow[w] EXCEPT ![d.field] = d.value] ELSE parseWindow[w]]
    BY <1>5, <2>1
  <2>4. \A w \in J!WindowId : 
           parseWindow'[w] = IF w = d.window THEN [parseWindow[w] EXCEPT ![d.field] = d.value] ELSE parseWindow[w]
    BY <2>3
  <2>5. parseWindow'[d.window] = [f \in J!WindowField |-> IF f = d.field THEN d.value ELSE parseWindow[d.window][f]]
    BY <1>4, <2>2, <2>4
  <2>6. \A w \in J!WindowId, f \in J!WindowField :
          parseWindow'[w][f] = IF w = d.window /\ f = d.field THEN d.value ELSE parseWindow[w][f]
    BY <1>4, <2>4, <2>5
  <2>7. \A w \in J!WindowId : parseWindow'[w] = [f \in J!WindowField |-> parseWindow'[w][f]]
    BY <2>2, <2>4, <2>5
  <2>8. parseWindow' = [w \in J!WindowId |-> parseWindow'[w]]
    BY <2>3, Zenon
  <2>9. parseWindow' = [w \in J!WindowId |-> [f \in J!WindowField |-> parseWindow'[w][f]]]
    BY <2>7, <2>8, Zenon
  <2> QED BY <2>6, <2>9
<1>6. J!WindowId' = J!WindowId
  BY <1>1, PageStays
<1>7. J!TypeOK'
  <2>1. /\ parseWindow' = [w \in J!WindowId' |-> [f \in J!WindowField |-> parseWindow'[w][f]]]
        /\ \A w \in J!WindowId', f \in J!WindowField :
              parseWindow'[w][f].at \in {"never", "noon", "time"}
    <3>1. CASE parseWindow' = [parseWindow EXCEPT ![d.window][d.field] = d.value]
      BY <1>4, <1>5, <1>6, <3>1
    <3>2. CASE UNCHANGED parseWindow
      BY <1>1, <1>2, <1>3, <3>2, TypedFrame
    <3> QED BY <1>1, <3>1, <3>2
  <2>2. J!IsPass(job)' = J!IsPass(job)
    BY <1>1 DEF J!IsPass
  <2>3. proposals' \subseteq proposals
    BY <1>1
  <2> QED BY <1>1, <1>2, <1>3, <2>1, <2>2, <2>3, TypedFrame DEF J!TypeOK
<1>8. (proposals \ (reviewJob \cup swallowed))' \subseteq (proposals \ (reviewJob \cup swallowed)) \ {d}
  BY <1>1
<1>9. ASSUME job.pc = "load" PROVE (proposals \ (reviewJob \cup swallowed))' \subseteq Ahead'
  <2> SUFFICES ASSUME NEW r \in (proposals \ (reviewJob \cup swallowed))' PROVE r \in Ahead'
    OBVIOUS
  <2>1. r \in proposals /\ r # d /\ r \in Ahead
    BY <1>8, <1>9 DEF ParsingIInv, J!ParseInv, J!WaitingIsAhead, Ahead
  <2>2. CASE UNCHANGED parseWindow
    BY <1>1, <2>1, <2>2, AheadStays
  <2>3. CASE parseWindow' = [parseWindow EXCEPT ![d.window][d.field] = d.value]
    <3>1. PICK p \in J!Proposals(J!ParserEvidence(today), today, parseWindow) : r = J!Row(p)
      BY <2>1 DEF Ahead, J!Rows
    <3>2. PICK e \in J!ParserEvidence(today), w \in J!Window :
             /\ J!Match(e, intakes, today).status = "MATCHED"
             /\ p = [evidence |-> e, window |-> w, field |-> FieldFor(e), value |-> e.instant]
             /\ p.value # J!NotPublished
             /\ p.window \in J!Target(J!Match(p.evidence, intakes, today))
             /\ parseWindow[p.window.id][p.field] # p.value
      BY ProposalsMade
    <3>3. r.window = p.window.id /\ r.field = p.field /\ r.value = p.value
      BY <3>1 DEF J!Row
    <3>4. /\ J!IsRevision(r) /\ r.window \in J!WindowId /\ r.field \in J!WindowField
      BY <1>2, <2>1 DEF J!TypeOK, J!IsRevision
    <3>5. r.window = d.window /\ r.field = d.field => r.value # d.value
      BY <1>3, <2>1, <3>4 DEF J!IsRevision
    <3>6. parseWindow'[p.window.id][p.field] # p.value
      BY <1>5, <2>3, <3>2, <3>3, <3>4, <3>5
    <3>7. p \in J!Proposals(J!ParserEvidence(today), today, parseWindow')
      BY <3>2, <3>6, ProposalsMade
    <3>8. J!ParserEvidence(today)' = J!ParserEvidence(today)
      BY <1>1, PageStays
    <3>9. J!Proposals(J!ParserEvidence(today), today, parseWindow)'
            = J!Proposals(J!ParserEvidence(today), today, parseWindow')
      BY <1>1, <3>8 DEF J!Proposals, J!Window, J!Target
    <3> QED BY <3>1, <3>7, <3>9 DEF Ahead, J!Rows
  <2> QED BY <1>1, <2>2, <2>3
<1>10. J!ReviewsFollow' /\ J!WaitingIsAhead'
  <2>1. J!ReviewsFollow'
    BY <1>1 DEF ParsingIInv, J!ParseInv, J!ReviewsFollow
  <2>2. job.pc = "load" => (proposals \ (reviewJob \cup swallowed))'
           \subseteq J!Rows(J!Proposals(J!ParserEvidence(today), today, parseWindow))'
    BY <1>9 DEF Ahead
  <2>3. J!Rows(job.todo)' = J!Rows(job.todo)
    BY <1>1 DEF J!Rows
  <2>4. /\ job.pc \in {"propose", "enqueue"} =>
             (proposals \ (reviewJob \cup swallowed))' \subseteq J!Rows(job.todo)' \cup job'.next
        /\ job.pc = "ask" => (proposals \ (reviewJob \cup swallowed))' = {}
    BY <1>1, <1>8, <2>3 DEF ParsingIInv, J!ParseInv, J!WaitingIsAhead
  <2> QED BY <1>1, <2>1, <2>2, <2>4 DEF J!WaitingIsAhead
<1>11. PassInv'
  <2>1. J!Rows(job.todo)' = J!Rows(job.todo)
    BY <1>1 DEF J!Rows
  <2>2. OfTheDay' = OfTheDay
    BY <1>1, DayStays
  <2>3. job.pc \in {"propose", "enqueue"} =>
          /\ \A x \in job'.todo : GroundedProposal(x)' /\ J!IsRevision(J!Row(x))'
          /\ \A r \in job'.next : J!IsRevision(r)'
    BY <1>1, PageStays DEF ParsingIInv, PassInv
  <2> QED BY <1>1, <2>1, <2>2, <2>3 DEF ParsingIInv, PassInv
<1>12. \A x \in proposed' : GroundedProposal(x)'
  BY <1>1, PageStays DEF ParsingIInv
<1>13. J!BindingIsTimeless'
  BY <1>1, BindingStays DEF ParsingIInv
<1> QED BY <1>7, <1>10, <1>11, <1>12, <1>13 DEF ParsingIInv, J!ParseInv

LEMMA ParseInit == J!Init => ParsingIInv
<1> SUFFICES ASSUME J!Init PROVE ParsingIInv
  OBVIOUS
<1>1. /\ page \in Page /\ intakes \in Catalogue /\ country \in {"DMY", "MDY"} /\ today \in Day
      /\ parseWindow = [w \in J!WindowId |-> [f \in J!WindowField |-> J!NotPublished]]
      /\ proposals = {} /\ reviewJob = {} /\ job = J!Idle /\ failures = 0 /\ proposed = {} /\ bound = {}
  BY DEF J!Init
<1>2. job.pc = "idle"
  BY <1>1 DEF J!Idle
<1>3. J!TypeOK
  <2>1. /\ parseWindow = [w \in J!WindowId |-> [f \in J!WindowField |-> parseWindow[w][f]]]
        /\ \A w \in J!WindowId, f \in J!WindowField : parseWindow[w][f] = J!NotPublished
    BY <1>1
  <2>2. J!NotPublished.at = "never"
    BY DEF J!NotPublished
  <2>3. failures \in 0..MaxFailures
    BY <1>1, ParsingAssumption DEF J!ParseAssumption
  <2> QED BY <1>1, <2>1, <2>2, <2>3 DEF J!TypeOK
<1> QED BY <1>1, <1>2, <1>3
    DEF ParsingIInv, J!ParseInv, J!ReviewsFollow, J!WaitingIsAhead, PassInv, J!BindingIsTimeless

LEMMA ParseStutter ==
    ASSUME ParsingIInv,
           UNCHANGED <<page, intakes, country, today, parseWindow, proposals, reviewJob, job,
                       failures, proposed, bound, swallowed>>
    PROVE ParsingIInv'
<1>1. J!TypeOK /\ today' \in Day /\ failures' \in 0..MaxFailures
  BY DEF ParsingIInv, J!ParseInv, J!TypeOK
<1>2. J!TypeOK'
  <2>1. J!IsPass(job)' = J!IsPass(job)
    BY DEF J!IsPass
  <2> QED BY <1>1, <2>1, TypedFrame DEF J!TypeOK
<1>3. J!Rows(job.todo)' = J!Rows(job.todo) /\ Ahead' = Ahead /\ OfTheDay' = OfTheDay
  <2>1. job'.loaded = job.loaded
    OBVIOUS
  <2> QED BY <2>1, AheadStays, DayStays DEF J!Rows
<1>4. J!Rows(J!Proposals(J!ParserEvidence(today), today, parseWindow))' = Ahead'
  BY DEF Ahead
<1>5. J!ReviewsFollow' /\ J!WaitingIsAhead'
  BY <1>3, <1>4 DEF ParsingIInv, J!ParseInv, J!ReviewsFollow, J!WaitingIsAhead, Ahead
<1>6. PassInv'
  <2>1. job.pc \in {"propose", "enqueue"} =>
          /\ \A x \in job'.todo : GroundedProposal(x)' /\ J!IsRevision(J!Row(x))'
          /\ \A r \in job'.next : J!IsRevision(r)'
    BY PageStays DEF ParsingIInv, PassInv
  <2> QED BY <1>3, <2>1 DEF ParsingIInv, PassInv
<1>7. \A x \in proposed' : GroundedProposal(x)'
  BY PageStays DEF ParsingIInv
<1>8. J!BindingIsTimeless'
  BY BindingStays DEF ParsingIInv
<1> QED BY <1>2, <1>5, <1>6, <1>7, <1>8 DEF ParsingIInv, J!ParseInv

\* The part that parses keeps its invariant; the other parts never become it.
ParsingPart == stage = "parse" => ParsingIInv

LEMMA ParsingNext == ParsingPart /\ [PartNext]_all => ParsingPart'
<1> SUFFICES ASSUME ParsingPart, [PartNext]_all PROVE ParsingPart'
  OBVIOUS
<1>1. CASE UNCHANGED all
  BY <1>1, ParseStutter DEF ParsingPart, all, parseOnly, alike
<1>2. ASSUME NEW p \in Parser, Reviewing, ParserStep(p) PROVE ParsingPart'
  BY <1>2 DEF Reviewing, ParsingPart
<1>3. ASSUME NEW v \in Reviewer, Reviewing, ReviewStep(v) PROVE ParsingPart'
  BY <1>3 DEF Reviewing, ParsingPart
<1>4. ASSUME NEW s \in Source, Reviewing, RecordSourceCheck(s) PROVE ParsingPart'
  BY <1>4 DEF Reviewing, ParsingPart
<1>5. CASE ReadingHtml
  BY <1>5 DEF ReadingHtml, ParsingPart
<1>6. CASE ReadingPdf
  BY <1>6 DEF ReadingPdf, ParsingPart
<1>7. ASSUME NEW day \in Day, Parsing, J!Enqueue(day) PROVE ParsingPart'
  BY <1>7, EnqueueStep DEF Parsing, ParsingPart
<1>8. CASE Parsing /\ J!Load
  BY <1>8, LoadStep DEF Parsing, ParsingPart
<1>9. CASE Parsing /\ J!Propose
  BY <1>9, ProposeStep DEF Parsing, ParsingPart
<1>10. CASE Parsing /\ J!EnqueueReview
  BY <1>10, EnqueueReviewStep DEF Parsing, ParsingPart
<1>11. CASE Parsing /\ J!EndPass
  BY <1>11, EndPassStep DEF Parsing, ParsingPart
<1>12. CASE Parsing /\ J!Ask
  BY <1>12, AskStep DEF Parsing, ParsingPart
<1>13. CASE Parsing /\ J!Fail
  BY <1>13, FailStep DEF Parsing, ParsingPart
<1>14. ASSUME NEW d \in proposals, Parsing, J!Decide(d) PROVE ParsingPart'
  BY <1>14, DecideStep DEF Parsing, ParsingPart
<1>15. CASE PartNext
  BY <1>15, <1>2, <1>3, <1>4, <1>5, <1>6, <1>7, <1>8, <1>9, <1>10, <1>11, <1>12, <1>13, <1>14, Zenon
     DEF PartNext
<1> QED BY <1>1, <1>15

LEMMA ParsingStart == PartInit => ParsingPart
  BY ParseInit DEF PartInit, ParsingPart

LEMMA ParsingAlways == PartSpec => []ParsingPart
<1>1. PartInit => ParsingPart
  BY ParsingStart
<1>2. ParsingPart /\ [PartNext]_all => ParsingPart'
  BY ParsingNext
<1> QED BY <1>1, <1>2, PTL DEF PartSpec

\* ParseJob: through failed calls and retries no proposal waits without its review job,
\* and one that still does is ahead of the job.
THEOREM NoProposalIsForgotten == PartSpec => []ParseInv
<1>1. ParsingPart => ParseInv
  BY DEF ParsingPart, ParsingIInv, ParseInv
<1> QED BY <1>1, ParsingAlways, PTL

\* ParseJob: whatever the page, the model's claim and the failures, what is proposed is
\* an exact date of the page, for the window the evidence names.
THEOREM ModelNeverInvents == PartSpec => []ProposalsAreGrounded
<1>1. ParsingPart => ProposalsAreGrounded
  BY DEF ParsingPart, ParsingIInv, ProposalsAreGrounded, J!ProposalsAreGrounded, GroundedProposal
<1> QED BY <1>1, ParsingAlways, PTL

\* ParseJob: a date binds to an intake without a hint only if it could be for no other,
\* on whatever day the page is parsed.
THEOREM DayNeverDecides == PartSpec => []BindingIsTimeless
<1>1. ParsingPart => BindingIsTimeless
  BY DEF ParsingPart, ParsingIInv, BindingIsTimeless
<1> QED BY <1>1, ParsingAlways, PTL

-----------------------------------------------------------------------------
(* What the collector makes of texts (TextCollector).  What holds of the    *)
(* texts up to the n-th is shown of the least n of which it would not.      *)

LEMMA LeastNatural ==
    ASSUME NEW S, S \subseteq Nat, S # {}
    PROVE  \E n \in S : \A m \in S : n <= m
<1>1. \E x \in S : \A y \in S : ~ (<<y, x>> \in OpToRel(<,Nat))
  BY NatLessThanWellFounded, WFMin
<1>2. \A x \in S, y \in S : ~ (<<y, x>> \in OpToRel(<,Nat)) => x <= y
  BY DEF OpToRel
<1> QED BY <1>1, <1>2

Separators == {"none", "line", "space"}
Collected(Id) == [out : Seq([id : Id, after : Separators]), pending : Separators]

LEMMA ElementOfSeq == ASSUME NEW T, NEW s \in Seq(T) PROVE Len(s) \in Nat /\ \A i \in 1..Len(s) : s[i] \in T
OBVIOUS

LEMMA ChunksTyped ==
    ASSUME NEW Id, NEW c \in Collected(Id)
    PROVE  /\ Len(c.out) \in Nat /\ c.pending \in Separators
           /\ \A i \in 1..Len(c.out) : c.out[i].id \in Id /\ c.out[i].after \in Separators
<1> DEFINE T == [id : Id, after : Separators]
<1>1. c.out \in Seq(T) /\ c.pending \in Separators
  BY DEF Collected
<1> HIDE DEF T
<1>2. Len(c.out) \in Nat /\ \A i \in 1..Len(c.out) : c.out[i] \in T
  BY <1>1, ElementOfSeq
<1> QED BY <1>1, <1>2 DEF T

\* The collector is one module, of which HtmlText and PdfText have an instance each.
LEMMA SameCollector ==
    /\ \A c : H!Line(c) = P!Line(c)
    /\ \A c : H!Space(c) = P!Space(c)
    /\ \A c, t, id : H!Text(c, t, id) = P!Text(c, t, id)
BY DEF H!Line, P!Line, H!Space, P!Space, H!Text, P!Text, H!SpaceIf, P!SpaceIf

LEMMA LineKeeps ==
    ASSUME NEW Id, NEW c \in Collected(Id)
    PROVE  /\ P!Line(c) \in Collected(Id)
           /\ P!Line(c).out = c.out
           /\ c.out # <<>> => P!Line(c).pending = "line"
           /\ P!Line(c).pending = "none" => c.pending = "none"
BY DEF P!Line, Collected, Separators

LEMMA SpaceKeeps ==
    ASSUME NEW Id, NEW c \in Collected(Id)
    PROVE  /\ P!Space(c) \in Collected(Id)
           /\ P!Space(c).out = c.out
           /\ c.out # <<>> => P!Space(c).pending # "none"
           /\ P!Space(c).pending = "none" => c.pending = "none"
BY DEF P!Space, Collected, Separators

LEMMA SpaceIfKeeps ==
    ASSUME NEW Id, NEW c \in Collected(Id), NEW condition
    PROVE  /\ P!SpaceIf(condition, c) \in Collected(Id)
           /\ P!SpaceIf(condition, c).out = c.out
           /\ condition /\ c.out # <<>> => P!SpaceIf(condition, c).pending # "none"
           /\ P!SpaceIf(condition, c).pending = "none" => c.pending = "none"
BY SpaceKeeps DEF P!SpaceIf

\* A blank text adds nothing, another adds one chunk, which adjoins the last only if
\* nothing was due.
LEMMA BlankText ==
    ASSUME NEW Id, NEW c \in Collected(Id), NEW t, NEW id \in Id, t.blank
    PROVE  /\ P!Text(c, t, id) \in Collected(Id)
           /\ P!Text(c, t, id).out = c.out
           /\ P!Text(c, t, id).pending = "none" => c.pending = "none"
<1>1. P!Text(c, t, id) = P!SpaceIf(t.lead \/ t.trail, c)
  BY DEF P!Text
<1> QED BY <1>1, SpaceIfKeeps

LEMMA AddedText ==
    ASSUME NEW Id, NEW c \in Collected(Id), NEW t, NEW id \in Id, ~t.blank
    PROVE  \E due \in Separators :
              /\ P!Text(c, t, id) \in Collected(Id)
              /\ P!Text(c, t, id).out = Append(c.out, [id |-> id, after |-> due])
              /\ due = "none" => c.pending = "none"
              /\ t.trail => P!Text(c, t, id).pending # "none"
<1> DEFINE due == P!SpaceIf(t.lead, c).pending
           chunk == [id |-> id, after |-> due]
           added == [out |-> Append(c.out, chunk), pending |-> "none"]
<1>1. due \in Separators /\ (due = "none" => c.pending = "none")
  BY SpaceIfKeeps DEF Collected
<1>2. P!Text(c, t, id) = P!SpaceIf(t.trail, added)
  BY DEF P!Text
<1>3. added \in Collected(Id) /\ added.out = Append(c.out, chunk) /\ added.out # <<>>
  <2>1. chunk \in [id : Id, after : Separators]
    BY <1>1
  <2>2. c.out \in Seq([id : Id, after : Separators])
    BY DEF Collected
  <2> HIDE DEF chunk, due
  <2>3. Append(c.out, chunk) \in Seq([id : Id, after : Separators]) /\ Append(c.out, chunk) # <<>>
    BY <2>1, <2>2
  <2> QED BY <2>3 DEF Collected, Separators
<1> HIDE DEF added
<1> QED BY <1>1, <1>2, <1>3, SpaceIfKeeps

\* What is put after the chunks of c comes from one place, and its first chunk adjoins
\* them only if nothing was due.
Continues(Id, r, c, id) ==
    /\ r \in Collected(Id)
    /\ Len(c.out) <= Len(r.out)
    /\ \A i \in 1..Len(c.out) : r.out[i] = c.out[i]
    /\ \A i \in Len(c.out) + 1..Len(r.out) : r.out[i].id = id
    /\ Len(r.out) = Len(c.out) /\ r.pending = "none" => c.pending = "none"
    /\ Len(r.out) > Len(c.out) /\ r.out[Len(c.out) + 1].after = "none" => c.pending = "none"

LEMMA TextContinues ==
    ASSUME NEW Id, NEW c \in Collected(Id), NEW t, NEW id \in Id
    PROVE  Continues(Id, P!Text(c, t, id), c, id)
<1>1. Len(c.out) \in Nat
  BY ChunksTyped
<1>2. CASE t.blank
  BY <1>1, <1>2, BlankText DEF Continues
<1>3. CASE ~t.blank
  <2>1. PICK due \in Separators :
              /\ P!Text(c, t, id) \in Collected(Id)
              /\ P!Text(c, t, id).out = Append(c.out, [id |-> id, after |-> due])
              /\ due = "none" => c.pending = "none"
              /\ t.trail => P!Text(c, t, id).pending # "none"
    BY <1>3, AddedText
  <2>2. c.out \in Seq([id : Id, after : Separators])
    BY DEF Collected
  <2> DEFINE out == Append(c.out, [id |-> id, after |-> due])
  <2>3. /\ Len(out) = Len(c.out) + 1 /\ out[Len(c.out) + 1] = [id |-> id, after |-> due]
        /\ \A i \in 1..Len(c.out) : out[i] = c.out[i]
    BY <2>2
  <2> HIDE DEF out
  <2>4. P!Text(c, t, id).out = out
    BY <2>1 DEF out
  <2> QED BY <1>1, <2>1, <2>3, <2>4 DEF Continues
<1> QED BY <1>2, <1>3

LEMMA ContinuesOn ==
    ASSUME NEW Id, NEW a \in Collected(Id), NEW b, NEW c, NEW id, Continues(Id, b, a, id), Continues(Id, c, b, id)
    PROVE  Continues(Id, c, a, id)
<1>1. Len(a.out) \in Nat /\ Len(b.out) \in Nat /\ Len(c.out) \in Nat
  BY ChunksTyped DEF Continues
<1>2. \A i \in 1..Len(a.out) : i \in 1..Len(b.out) /\ c.out[i] = b.out[i] /\ b.out[i] = a.out[i]
  BY <1>1 DEF Continues
<1>3. \A i \in Len(a.out) + 1..Len(c.out) : c.out[i].id = id
  <2> SUFFICES ASSUME NEW i \in Len(a.out) + 1..Len(c.out) PROVE c.out[i].id = id
    OBVIOUS
  <2>1. CASE i \in 1..Len(b.out)
    BY <1>1, <2>1 DEF Continues
  <2>2. CASE i \in Len(b.out) + 1..Len(c.out)
    BY <1>1, <2>2 DEF Continues
  <2> QED BY <1>1, <2>1, <2>2
<1>4. CASE Len(b.out) = Len(a.out)
  BY <1>1, <1>2, <1>3, <1>4 DEF Continues
<1>5. CASE Len(b.out) > Len(a.out)
  <2>1. Len(a.out) + 1 \in 1..Len(b.out)
    BY <1>1, <1>5
  <2>2. c.out[Len(a.out) + 1] = b.out[Len(a.out) + 1]
    BY <2>1 DEF Continues
  <2>3. Len(a.out) <= Len(c.out) /\ Len(c.out) # Len(a.out)
    BY <1>1, <1>5 DEF Continues
  <2> QED BY <1>1, <1>2, <1>3, <1>5, <2>2, <2>3 DEF Continues
<1> QED BY <1>1, <1>4, <1>5 DEF Continues

LEMMA TextsContinue ==
    ASSUME NEW c \in Collected(Nat \X Nat), NEW texts, Len(texts) \in Nat, <<stream, operation>> \in Nat \X Nat
    PROVE  Continues(Nat \X Nat, P!Texts(c, texts), c, <<stream, operation>>)
<1> DEFINE id == <<stream, operation>>
           Def(f, n) == f = [i \in 0..n |-> IF i = 0 THEN c ELSE P!Text(f[i - 1], texts[i], id)]
<1>1. \A n \in 0..Len(texts) : \E f : Def(f, n)
  <2> DEFINE S == {n \in 0..Len(texts) : ~ \E f : Def(f, n)}
  <2> SUFFICES ASSUME S # {} PROVE FALSE
    OBVIOUS
  <2>0. S \subseteq Nat
    OBVIOUS
  <2> HIDE DEF S
  <2>1. PICK n \in S : \A m \in S : n <= m
    BY <2>0, LeastNatural
  <2> USE DEF S
  <2>2. n # 0
    <3>1. Def([i \in 0..0 |-> c], 0)
      OBVIOUS
    <3> QED BY <3>1, <2>1
  <2>3. n - 1 \in 0..Len(texts) /\ n - 1 \notin S
    <3>1. n \in 0..Len(texts)
      BY <2>1
    <3> HIDE DEF S
    <3> QED BY <2>1, <2>2, <3>1
  <2>4. PICK f : Def(f, n - 1)
    BY <2>3
  <2> DEFINE g == [i \in 0..n |-> IF i = n THEN P!Text(f[n - 1], texts[n], id) ELSE f[i]]
  <2>5. \A i \in 0..n : g[i] = IF i = 0 THEN c ELSE P!Text(g[i - 1], texts[i], id)
    <3> SUFFICES ASSUME NEW i \in 0..n PROVE g[i] = IF i = 0 THEN c ELSE P!Text(g[i - 1], texts[i], id)
      OBVIOUS
    <3>1. CASE i = n
      <4>1. n - 1 \in 0..n /\ n - 1 # n
        BY <2>2
      <4>2. g[n - 1] = f[n - 1]
        BY <4>1
      <4> QED BY <3>1, <4>2, <2>2
    <3>2. CASE i # n
      <4>1. i \in 0..n - 1 /\ (i # 0 => i - 1 \in 0..n /\ i - 1 # n)
        BY <3>2
      <4>2. f[i] = IF i = 0 THEN c ELSE P!Text(f[i - 1], texts[i], id)
        BY <2>4, <4>1
      <4>3. g[i] = f[i] /\ (i # 0 => g[i - 1] = f[i - 1])
        BY <3>2, <4>1
      <4> QED BY <4>2, <4>3
    <3> QED BY <3>1, <3>2
  <2>6. g = [i \in 0..n |-> IF i = 0 THEN c ELSE P!Text(g[i - 1], texts[i], id)]
    BY <2>5
  <2>7. \E h : Def(h, n)
    BY <2>6
  <2> QED BY <2>1, <2>7
<1> DEFINE after == CHOOSE f : Def(f, Len(texts))
<1>2. Def(after, Len(texts))
  <2>1. \E f : Def(f, Len(texts))
    BY <1>1
  <2> HIDE DEF Def
  <2> QED BY <2>1
<1>3. P!Texts(c, texts) = after[Len(texts)]
  BY DEF P!Texts
<1> HIDE DEF after
<1>4. after[0] = c /\ \A i \in 1..Len(texts) : after[i] = P!Text(after[i - 1], texts[i], id)
  <2>1. \A i \in 0..Len(texts) : after[i] = IF i = 0 THEN c ELSE P!Text(after[i - 1], texts[i], id)
    BY <1>2
  <2> QED BY <2>1
<1>5. \A n \in 0..Len(texts) : Continues(Nat \X Nat, after[n], c, id)
  <2> DEFINE S == {n \in 0..Len(texts) : ~Continues(Nat \X Nat, after[n], c, id)}
  <2> SUFFICES ASSUME S # {} PROVE FALSE
    OBVIOUS
  <2>0. S \subseteq Nat
    OBVIOUS
  <2> HIDE DEF S
  <2>1. PICK n \in S : \A m \in S : n <= m
    BY <2>0, LeastNatural
  <2> USE DEF S
  <2>2. Continues(Nat \X Nat, c, c, id)
    BY ChunksTyped DEF Continues
  <2>3. n \in 1..Len(texts) /\ n - 1 \in 0..Len(texts) /\ n - 1 \notin S
    BY <1>4, <2>1, <2>2
  <2>4. Continues(Nat \X Nat, after[n - 1], c, id) /\ after[n - 1] \in Collected(Nat \X Nat)
    BY <2>3 DEF Continues
  <2>5. Continues(Nat \X Nat, after[n], after[n - 1], id)
    <3>1. after[n] = P!Text(after[n - 1], texts[n], id) /\ id \in Nat \X Nat
      BY <1>4, <2>3
    <3> HIDE DEF id
    <3> QED BY <2>4, <3>1, TextContinues
  <2> QED BY <2>1, <2>4, <2>5, ContinuesOn
<1> QED BY <1>3, <1>5

-----------------------------------------------------------------------------
(* What the reader of a PDF has read (PdfText).                             *)

\* What has been read lies before the operation that is next.
Earlier(id) == id[1] < stream \/ (id[1] = stream /\ id[2] < operation)
StreamsTyped ==
    /\ pdf \in Document
    /\ outcome \in {"streams", "showing", "done", "failed"}
    /\ stream \in 1..Len(pdf.streams) + 1
    /\ held.streams \subseteq 1..Len(pdf.streams)
    /\ held.bytes \in 0..MaximumDecodedBytes
    /\ operation \in Nat \ {0}
    /\ operations \in 0..MaximumOperations + 1
    /\ outcome # "failed" => operations <= MaximumOperations
ReaderTyped ==
    /\ inText \in BOOLEAN
    /\ textY = {} \/ \E y \in Int : textY = {y}
    /\ collector \in Collected(Nat \X Nat)
    /\ outcome # "failed" => Len(collector.out) <= MaximumPdfOutput
    /\ DOMAIN page = {"y", "font", "seen"} /\ page.y \in Int
    /\ \A s \in shown : s.id \in Nat \X Nat /\ s.y \in Int
PdfTyped == StreamsTyped /\ ReaderTyped
ReadInOrder ==
    /\ outcome = "streams" => shown = {} /\ collector.out = <<>>
    /\ \A s \in shown : Earlier(s.id)
    /\ \A s, t \in shown : s.id = t.id => s = t
    /\ \A i \in 1..Len(collector.out) : Earlier(collector.out[i].id)
\* Where the next text would adjoin the last, the reader has not left its line.
LastOnLine ==
    Len(collector.out) > 0 /\ collector.pending = "none" =>
        LET last == collector.out[Len(collector.out)].id
        IN  /\ last[1] # stream => \A k \in 1..operation - 1 : ~P!Down(P!Operations(stream)[k])
            /\ last[1] = stream => \A s \in shown : s.id = last /\ s.tracked => textY = {s.y}
\* The maps tried are all, or those of the font that the reader saw selected.
FontRead ==
    outcome = "showing" /\ page.seen =>
        \/ activeMaps = P!CMaps(held.streams)
        \/ activeMaps # {} /\ activeMaps = P!MapsByFontName(page.font)
PdfIInv == PdfTyped /\ ReadInOrder /\ LastOnLine /\ FontRead /\ P!LinesKeptApart /\ P!StringsReadByTheirFont

LEMMA PdfLimits ==
    /\ MaximumStreams \in Nat /\ MaximumStreamBytes \in Nat /\ MaximumDecodedBytes \in Nat
    /\ MaximumCMaps \in Nat /\ MaximumOperations \in Nat /\ MaximumPdfOutput \in Nat
BY PdfDocuments DEF P!PdfAssumption

LEMMA DocumentTyped ==
    ASSUME pdf \in Document
    PROVE  /\ Len(pdf.streams) \in Nat /\ DOMAIN pdf.streams = 1..Len(pdf.streams)
           /\ Len(pdf.fonts) \in Nat /\ DOMAIN pdf.fonts = 1..Len(pdf.fonts)
           /\ \A i \in 1..Len(pdf.streams) : pdf.streams[i].bytes \in Nat
<1>1. P!IsSequence(pdf.streams) /\ P!IsSequence(pdf.fonts)
  BY PdfDocuments DEF P!PdfAssumption
<1>2. pdf.streams \in Seq({pdf.streams[i] : i \in DOMAIN pdf.streams})
  BY <1>1 DEF P!IsSequence
<1>3. pdf.fonts \in Seq({pdf.fonts[i] : i \in DOMAIN pdf.fonts})
  BY <1>1 DEF P!IsSequence
<1>4. Len(pdf.streams) \in Nat /\ DOMAIN pdf.streams = 1..Len(pdf.streams)
  BY <1>2
<1>5. Len(pdf.fonts) \in Nat /\ DOMAIN pdf.fonts = 1..Len(pdf.fonts)
  BY <1>3
<1>6. \A i \in DOMAIN pdf.streams : pdf.streams[i].bytes \in Nat
  BY PdfDocuments DEF P!PdfAssumption
<1> QED BY <1>4, <1>5, <1>6

LEMMA OperationsTyped ==
    ASSUME pdf \in Document, NEW i \in 1..Len(pdf.streams)
    PROVE  /\ Len(P!Operations(i)) \in Nat /\ DOMAIN P!Operations(i) = 1..Len(P!Operations(i))
           /\ \A k \in DOMAIN P!Operations(i) :
                 /\ P!Operations(i)[k].op \in {"Tm", "Td"} => P!Operations(i)[k].y \in Int
                 /\ P!Operations(i)[k].op \in {"Tj", "'"} => Len(P!Operations(i)[k].texts) \in Nat
<1> DEFINE ops == pdf.streams[i].operations
<1>1. i \in DOMAIN pdf.streams
  BY DocumentTyped
<1>2. /\ P!IsSequence(ops)
      /\ \A k \in DOMAIN ops : /\ ops[k].op \in {"Tm", "Td"} => ops[k].y \in Int
                               /\ ops[k].op \in {"Tj", "'"} => P!IsSequence(ops[k].texts)
  BY <1>1, PdfDocuments DEF P!PdfAssumption
<1>3. \A s : P!IsSequence(s) => Len(s) \in Nat /\ DOMAIN s = 1..Len(s)
  <2> TAKE s
  <2>1. s \in Seq({s[x] : x \in DOMAIN s}) => Len(s) \in Nat /\ DOMAIN s = 1..Len(s)
    OBVIOUS
  <2> QED BY <2>1 DEF P!IsSequence
<1>4. CASE i \in held.streams
  <2>1. P!Operations(i) = ops
    BY <1>4 DEF P!Operations
  <2> HIDE DEF ops
  <2> QED BY <1>2, <1>3, <2>1
<1>5. CASE i \notin held.streams
  BY <1>5 DEF P!Operations
<1> QED BY <1>4, <1>5

LEMMA PdfInit == P!Init => PdfIInv
<1> SUFFICES ASSUME P!Init PROVE PdfIInv
  OBVIOUS
<1> USE DEF P!Init
<1>1. collector \in Collected(Nat \X Nat) /\ collector.out = <<>> /\ Len(collector.out) = 0
  BY DEF P!Nothing, Collected, Separators
<1>2. StreamsTyped
  <2>1. held.streams = {} /\ held.bytes \in 0..MaximumDecodedBytes
    BY PdfLimits
  <2>2. operations \in 0..MaximumOperations + 1 /\ operations <= MaximumOperations
    BY PdfLimits
  <2>3. stream \in 1..Len(pdf.streams) + 1
    BY DocumentTyped
  <2> QED BY <2>1, <2>2, <2>3 DEF StreamsTyped
<1>3. ReaderTyped
  <2>1. DOMAIN page = {"y", "font", "seen"} /\ page.y \in Int
    BY DEF P!Nowhere
  <2>2. Len(collector.out) <= MaximumPdfOutput
    BY <1>1, PdfLimits
  <2> QED BY <1>1, <2>1, <2>2 DEF ReaderTyped
<1>4. ReadInOrder /\ LastOnLine /\ FontRead
  BY <1>1 DEF ReadInOrder, LastOnLine, FontRead
<1>5. P!LinesKeptApart /\ P!StringsReadByTheirFont
  BY DEF P!LinesKeptApart, P!StringsReadByTheirFont
<1> QED BY <1>2, <1>3, <1>4, <1>5 DEF PdfIInv, PdfTyped

\* While the streams are decoded nothing is shown.
LEMMA PdfNothingShown ==
    ASSUME shown' = {}, collector' = collector, collector.out = <<>>
    PROVE  /\ ReadInOrder' /\ LastOnLine' /\ P!LinesKeptApart' /\ P!StringsReadByTheirFont'
<1>1. Len(collector'.out) = 0
  OBVIOUS
<1> QED BY <1>1 DEF ReadInOrder, LastOnLine, P!LinesKeptApart, P!StringsReadByTheirFont

LEMMA StepReadStream == ASSUME PdfIInv, P!ReadStream PROVE PdfIInv'
<1> USE DEF P!ReadStream, P!reader
<1>1. shown = {} /\ collector.out = <<>> /\ outcome' # "showing"
  BY DEF PdfIInv, ReadInOrder, PdfTyped, StreamsTyped, ReaderTyped
<1>2. PdfTyped'
  <2>1. Len(pdf.streams) \in Nat /\ pdf.streams[stream].bytes \in Nat
    BY DocumentTyped DEF PdfIInv, PdfTyped, StreamsTyped, ReaderTyped
  <2>2. CASE UNCHANGED <<held, stream>>
    BY <2>2 DEF PdfIInv, PdfTyped, StreamsTyped, ReaderTyped
  <2>3. CASE stream' = stream + 1 /\ held' = held /\ UNCHANGED outcome
    BY <2>1, <2>3 DEF PdfIInv, PdfTyped, StreamsTyped, ReaderTyped
  <2>4. CASE /\ stream' = stream + 1 /\ UNCHANGED outcome
             /\ held' = [streams |-> held.streams \cup {stream}, bytes |-> held.bytes + pdf.streams[stream].bytes]
             /\ ~(held.bytes + pdf.streams[stream].bytes > MaximumDecodedBytes)
    <3>1. /\ held'.streams = held.streams \cup {stream}
          /\ held'.bytes = held.bytes + pdf.streams[stream].bytes
      BY <2>4
    <3>2. held'.streams \subseteq 1..Len(pdf.streams)
      BY <2>1, <3>1 DEF PdfIInv, PdfTyped, StreamsTyped, ReaderTyped
    <3>3. held'.bytes \in 0..MaximumDecodedBytes
      BY <2>1, <2>4, <3>1, PdfLimits DEF PdfIInv, PdfTyped, StreamsTyped, ReaderTyped
    <3> QED BY <2>1, <2>4, <3>1, <3>2, <3>3 DEF PdfIInv, PdfTyped, StreamsTyped, ReaderTyped
  <2> QED BY <2>2, <2>3, <2>4
<1> QED BY <1>1, <1>2, PdfNothingShown DEF PdfIInv, FontRead

LEMMA StepReadFonts == ASSUME PdfIInv, P!ReadFonts PROVE PdfIInv'
<1> USE DEF P!ReadFonts, P!BeginStream
<1>1. shown = {} /\ collector.out = <<>>
  BY DEF PdfIInv, ReadInOrder
<1>2. StreamsTyped'
  <2>1. Len(pdf.streams) \in Nat
    BY DocumentTyped DEF PdfIInv, PdfTyped, StreamsTyped
  <2> QED BY <2>1 DEF PdfIInv, PdfTyped, StreamsTyped
<1>3. ReaderTyped'
  <2>1. DOMAIN page' = {"y", "font", "seen"} /\ page'.y \in Int
    BY DEF P!Nowhere
  <2> QED BY <2>1 DEF PdfIInv, PdfTyped, ReaderTyped
<1>4. FontRead'
  BY DEF FontRead, P!CMaps
<1> QED BY <1>1, <1>2, <1>3, <1>4, PdfNothingShown DEF PdfIInv, PdfTyped

\* What is not read again stays as it was.
LEMMA PdfReadBefore ==
    ASSUME PdfIInv, shown' = shown, collector' \in Collected(Nat \X Nat), collector'.out = collector.out,
           pdf' = pdf, held' = held, outcome = "showing",
           \/ stream' = stream /\ operation' = operation + 1
           \/ stream' = stream + 1
    PROVE  (outcome' # "streams" => ReadInOrder') /\ P!LinesKeptApart' /\ P!StringsReadByTheirFont'
<1>1. P!LinesKeptApart'
  BY DEF PdfIInv, P!LinesKeptApart, P!Adjoined, P!Operations
<1>2. P!StringsReadByTheirFont'
  BY DEF PdfIInv, P!StringsReadByTheirFont, P!FontOf, P!CMaps, P!Codes
<1>3. \A id \in Nat \X Nat : Earlier(id) => Earlier(id)'
  BY DEF Earlier, PdfIInv, PdfTyped, StreamsTyped, ReaderTyped
<1>4. \A i \in 1..Len(collector.out) : collector.out[i].id \in Nat \X Nat
  BY ChunksTyped DEF PdfIInv, PdfTyped, StreamsTyped, ReaderTyped
<1> QED BY <1>1, <1>2, <1>3, <1>4 DEF PdfIInv, PdfTyped, StreamsTyped, ReaderTyped, ReadInOrder

LEMMA StepEndStream == ASSUME PdfIInv, P!EndStream PROVE PdfIInv'
<1> USE DEF P!EndStream, P!BeginStream
<1>1. Len(pdf.streams) \in Nat /\ collector \in Collected(Nat \X Nat) /\ stream \in Nat
  BY DocumentTyped DEF PdfIInv, PdfTyped, StreamsTyped, ReaderTyped
<1>2. StreamsTyped'
  BY <1>1 DEF PdfIInv, PdfTyped, StreamsTyped
<1>3. ReaderTyped'
  <2>1. DOMAIN page' = {"y", "font", "seen"} /\ page'.y \in Int
    BY DEF P!Nowhere
  <2> QED BY <2>1 DEF PdfIInv, PdfTyped, ReaderTyped
<1>4. ReadInOrder' /\ P!LinesKeptApart' /\ P!StringsReadByTheirFont'
  BY <1>1, PdfReadBefore
<1>5. LastOnLine'
  <2> SUFFICES ASSUME Len(collector.out) > 0
               PROVE  collector.out[Len(collector.out)].id[1] # stream + 1
    BY DEF LastOnLine
  <2>1. Len(collector.out) \in 1..Len(collector.out)
    BY <1>1, ChunksTyped
  <2>2. Earlier(collector.out[Len(collector.out)].id) /\ collector.out[Len(collector.out)].id \in Nat \X Nat
    BY <1>1, <2>1, ChunksTyped DEF PdfIInv, ReadInOrder
  <2> QED BY <1>1, <2>2 DEF Earlier
<1>6. FontRead'
  BY DEF FontRead, P!CMaps
<1> QED BY <1>2, <1>3, <1>4, <1>5, <1>6 DEF PdfIInv, PdfTyped

LEMMA StepPdfFinish == ASSUME PdfIInv, P!Finish PROVE PdfIInv'
<1> USE DEF P!Finish, P!reader
<1>1. StreamsTyped'
  BY DEF PdfIInv, PdfTyped, StreamsTyped
<1>2. ReaderTyped'
  BY DEF PdfIInv, PdfTyped, ReaderTyped
<1>3. ReadInOrder'
  BY DEF PdfIInv, ReadInOrder, Earlier
<1>4. LastOnLine'
  BY DEF PdfIInv, LastOnLine, P!Operations
<1>5. FontRead'
  BY DEF FontRead
<1>6. P!LinesKeptApart'
  BY DEF PdfIInv, P!LinesKeptApart, P!Adjoined, P!Operations
<1>7. P!StringsReadByTheirFont'
  BY DEF PdfIInv, P!StringsReadByTheirFont, P!FontOf, P!CMaps, P!Codes
<1> QED BY <1>1, <1>2, <1>3, <1>4, <1>5, <1>6, <1>7 DEF PdfIInv, PdfTyped

-----------------------------------------------------------------------------
\* An operation of the stream is run.
Operates(c) == (\E name : P!Running(name)) /\ P!Run /\ P!Outcome(c)

LEMMA RunTyped ==
    ASSUME PdfIInv, NEW c, Operates(c)
    PROVE  /\ StreamsTyped'
           /\ outcome = "showing" /\ outcome' # "streams"
           /\ outcome' # "failed" => ~P!Overflows(c, MaximumPdfOutput)
           /\ stream \in 1..Len(pdf.streams) /\ <<stream, operation>> \in Nat \X Nat
           /\ operation \in 1..Len(P!Operations(stream))
           /\ UNCHANGED <<pdf, stream, held>> /\ operation' = operation + 1
<1> USE DEF PdfIInv, PdfTyped
<1>1. outcome = "showing" /\ operation \in DOMAIN P!Operations(stream) /\ stream <= Len(pdf.streams)
  BY DEF Operates, P!Running
<1>2. UNCHANGED <<pdf, stream, held>> /\ operation' = operation + 1
      /\ operations' = IF inText THEN operations + 1 ELSE operations
  BY DEF Operates, P!Run
<1>3. outcome' = IF P!Exhausted \/ P!Overflows(c, MaximumPdfOutput) THEN "failed" ELSE outcome
  BY DEF Operates, P!Outcome
<1>4. Len(pdf.streams) \in Nat /\ stream \in 1..Len(pdf.streams) /\ operation \in Nat
  BY <1>1, DocumentTyped DEF StreamsTyped
<1>5. operation \in 1..Len(P!Operations(stream))
  BY <1>1, <1>4, OperationsTyped DEF StreamsTyped
<1>6. operations' \in 0..MaximumOperations + 1 /\ (outcome' # "failed" => operations' <= MaximumOperations)
  BY <1>1, <1>2, <1>3, PdfLimits DEF StreamsTyped, P!Exhausted
<1>7. StreamsTyped'
  BY <1>1, <1>2, <1>3, <1>4, <1>6 DEF StreamsTyped
<1>8. outcome' # "streams" /\ (outcome' # "failed" => ~P!Overflows(c, MaximumPdfOutput))
  BY <1>1, <1>3
<1>9. <<stream, operation>> \in Nat \X Nat
  BY <1>4
<1> QED BY <1>1, <1>2, <1>4, <1>5, <1>7, <1>8, <1>9

LEMMA FontKept ==
    ASSUME PdfIInv, NEW c, Operates(c), page'.font = page.font, page'.seen = page.seen, activeMaps' = activeMaps
    PROVE  FontRead'
<1>1. outcome = "showing" /\ UNCHANGED <<pdf, held>>
  BY RunTyped
<1>2. P!CMaps(held.streams)' = P!CMaps(held.streams)
  BY <1>1 DEF P!CMaps
<1>3. \A font : P!FontMap(font)' = P!FontMap(font)
  BY <1>1 DEF P!FontMap
<1>4. P!FontCharacterMaps(pdf.fonts)' = P!FontCharacterMaps(pdf.fonts)
  BY <1>1, <1>3 DEF P!FontCharacterMaps, P!FontMap
<1>5. P!MapsByFontName(page.font)' = P!MapsByFontName(page.font)
  BY <1>4 DEF P!MapsByFontName
<1> QED BY <1>1, <1>2, <1>5 DEF PdfIInv, FontRead

\* The last text stays on the reader's line, unless a line is due before the next.
LEMMA LastStays ==
    ASSUME PdfIInv, NEW c, Operates(c), collector'.out = collector.out, shown' = shown,
           collector.out # <<>> /\ collector'.pending = "none" =>
              /\ collector.pending = "none"
              /\ ~P!Down(P!Operations(stream)[operation])
              /\ \A y \in Int : textY = {y} => textY' = {y}
    PROVE  LastOnLine'
<1> DEFINE last == collector.out[Len(collector.out)].id
<1> SUFFICES ASSUME Len(collector.out) > 0, collector'.pending = "none"
             PROVE  /\ last[1] # stream => \A k \in 1..operation : ~P!Down(P!Operations(stream)[k])
                    /\ last[1] = stream => \A s \in shown : s.id = last /\ s.tracked => textY' = {s.y}
  <2>1. /\ UNCHANGED <<pdf, stream, held>> /\ operation' = operation + 1 /\ operation \in Nat
        /\ P!Operations(stream)' = P!Operations(stream)
    BY RunTyped DEF P!Operations
  <2>2. operation' - 1 = operation
    BY <2>1
  <2> QED BY <2>1, <2>2 DEF LastOnLine
<1>1. collector.out # <<>>
  OBVIOUS
<1>2. operation \in Nat /\ \A s \in shown : s.y \in Int
  BY RunTyped DEF PdfIInv, PdfTyped, ReaderTyped
<1>3. /\ last[1] # stream => \A k \in 1..operation - 1 : ~P!Down(P!Operations(stream)[k])
      /\ last[1] = stream => \A s \in shown : s.id = last /\ s.tracked => textY = {s.y}
  BY <1>1 DEF PdfIInv, LastOnLine
<1> QED BY <1>1, <1>2, <1>3

LEMMA NothingShownStep ==
    ASSUME PdfIInv, NEW c, Operates(c), c.out = collector.out, collector' \in Collected(Nat \X Nat),
           collector'.out = collector.out, shown' = shown, LastOnLine', FontRead',
           inText' \in BOOLEAN, textY' = {} \/ \E y \in Int : textY' = {y},
           DOMAIN page' = {"y", "font", "seen"}, page'.y \in Int
    PROVE  PdfIInv'
<1>1. ReaderTyped'
  <2>1. outcome' # "failed" => ~(Len(collector.out) > MaximumPdfOutput)
    BY RunTyped DEF P!Overflows
  <2>2. Len(collector.out) \in Nat
    BY ChunksTyped DEF PdfIInv, PdfTyped, ReaderTyped
  <2>3. outcome' # "failed" => Len(collector.out) <= MaximumPdfOutput
    BY <2>1, <2>2, PdfLimits
  <2> QED BY <2>3 DEF PdfIInv, PdfTyped, ReaderTyped
<1>2. StreamsTyped' /\ ReadInOrder' /\ P!LinesKeptApart' /\ P!StringsReadByTheirFont'
  BY RunTyped, PdfReadBefore
<1> QED BY <1>1, <1>2 DEF PdfIInv, PdfTyped

LEMMA StepBT == ASSUME PdfIInv, P!BT PROVE PdfIInv'
<1> USE DEF P!BT
<1>1. Operates(collector)
  BY DEF Operates
<1>2. P!Operations(stream)[operation].op = "BT"
  BY DEF P!Running
<1>3. collector \in Collected(Nat \X Nat) /\ DOMAIN page = {"y", "font", "seen"} /\ (textY = {} \/ \E y \in Int : textY = {y})
  BY DEF PdfIInv, PdfTyped, ReaderTyped
<1>4. DOMAIN page' = {"y", "font", "seen"} /\ page'.y = 0 /\ page'.font = page.font /\ page'.seen = page.seen
  BY <1>3
<1>5. LastOnLine'
  BY <1>1, <1>2, LastStays DEF P!Down
<1>6. FontRead'
  BY <1>1, <1>4, FontKept
<1> QED BY <1>1, <1>3, <1>4, <1>5, <1>6, NothingShownStep

LEMMA StepET == ASSUME PdfIInv, P!ET PROVE PdfIInv'
<1> USE DEF P!ET
<1>1. Operates(collector)
  BY DEF Operates
<1>2. P!Operations(stream)[operation].op = "ET"
  BY DEF P!Running
<1>3. /\ collector \in Collected(Nat \X Nat) /\ DOMAIN page = {"y", "font", "seen"} /\ page.y \in Int
      /\ textY = {} \/ \E y \in Int : textY = {y}
  BY DEF PdfIInv, PdfTyped, ReaderTyped
<1>4. LastOnLine'
  BY <1>1, <1>2, LastStays DEF P!Down
<1>5. FontRead'
  BY <1>1, FontKept
<1> QED BY <1>1, <1>3, <1>4, <1>5, NothingShownStep

LEMMA StepTf == ASSUME PdfIInv, P!Tf PROVE PdfIInv'
<1> USE DEF P!Tf
<1>1. Operates(collector)
  BY DEF Operates
<1>2. P!Operations(stream)[operation].op = "Tf"
  BY DEF P!Running
<1>3. /\ collector \in Collected(Nat \X Nat) /\ DOMAIN page = {"y", "font", "seen"} /\ page.y \in Int /\ inText \in BOOLEAN
      /\ textY = {} \/ \E y \in Int : textY = {y}
  BY DEF PdfIInv, PdfTyped, ReaderTyped
<1>4. /\ DOMAIN page' = {"y", "font", "seen"} /\ page'.y = page.y
      /\ page'.font = P!Operation.name /\ page'.seen = inText
  BY <1>3
<1>5. LastOnLine'
  BY <1>1, <1>2, LastStays DEF P!Down
<1>6. FontRead'
  <2>1. UNCHANGED <<pdf, held>>
    BY <1>1, RunTyped
  <2>2. P!CMaps(held.streams)' = P!CMaps(held.streams)
    BY <2>1 DEF P!CMaps
  <2>3. P!FontCharacterMaps(pdf.fonts)' = P!FontCharacterMaps(pdf.fonts)
    BY <2>1 DEF P!FontCharacterMaps, P!FontMap
  <2>4. P!MapsByFontName(page.font)' = P!MapsByFontName(P!Operation.name)
    BY <1>4, <2>3 DEF P!MapsByFontName
  <2> QED BY <1>4, <2>2, <2>4 DEF FontRead
<1> QED BY <1>1, <1>3, <1>4, <1>5, <1>6, NothingShownStep

LEMMA StepTm == ASSUME PdfIInv, P!Tm PROVE PdfIInv'
<1> USE DEF P!Tm
<1>1. Operates(collector)
  BY DEF Operates
<1>2. P!Operations(stream)[operation].op = "Tm" /\ P!Operation.y \in Int
  BY <1>1, RunTyped, OperationsTyped DEF P!Running, P!Operation, PdfIInv, PdfTyped, StreamsTyped
<1>3. /\ collector \in Collected(Nat \X Nat) /\ DOMAIN page = {"y", "font", "seen"} /\ inText \in BOOLEAN
      /\ textY = {} \/ \E y \in Int : textY = {y}
  BY DEF PdfIInv, PdfTyped, ReaderTyped
<1>4. DOMAIN page' = {"y", "font", "seen"} /\ page'.y = P!Operation.y /\ page'.font = page.font /\ page'.seen = page.seen
  BY <1>3
<1>5. collector' \in Collected(Nat \X Nat) /\ collector'.out = collector.out
  BY <1>3, LineKeeps
<1>6. LastOnLine'
  <2>1. ASSUME collector.out # <<>>, collector'.pending = "none"
        PROVE  textY \subseteq {P!Operation.y} /\ collector' = collector
    BY <1>3, <2>1, LineKeeps
  <2>2. ~P!Down(P!Operations(stream)[operation])
    BY <1>2 DEF P!Down
  <2> QED BY <1>1, <1>5, <2>1, <2>2, LastStays
<1>7. FontRead'
  BY <1>1, <1>4, FontKept
<1> QED BY <1>1, <1>2, <1>3, <1>4, <1>5, <1>6, <1>7, NothingShownStep

LEMMA StepTd == ASSUME PdfIInv, P!Td PROVE PdfIInv'
<1> USE DEF P!Td
<1>1. Operates(collector)
  BY DEF Operates
<1>2. P!Operations(stream)[operation].op = "Td" /\ P!Operation.y \in Int /\ P!Operation = P!Operations(stream)[operation]
  BY <1>1, RunTyped, OperationsTyped DEF P!Running, P!Operation, PdfIInv, PdfTyped, StreamsTyped
<1>3. /\ collector \in Collected(Nat \X Nat) /\ DOMAIN page = {"y", "font", "seen"} /\ page.y \in Int /\ inText \in BOOLEAN
      /\ textY = {} \/ \E y \in Int : textY = {y}
  BY DEF PdfIInv, PdfTyped, ReaderTyped
<1>4. /\ DOMAIN page' = {"y", "font", "seen"} /\ page'.y = page.y + P!Operation.y
      /\ page'.font = page.font /\ page'.seen = page.seen
  BY <1>3
<1>5. collector' \in Collected(Nat \X Nat) /\ collector'.out = collector.out
  BY <1>3, LineKeeps DEF P!Offset
<1>6. textY' = {} \/ \E y \in Int : textY' = {y}
  BY <1>2, <1>3
<1>7. LastOnLine'
  <2>1. ASSUME collector.out # <<>>, collector'.pending = "none"
        PROVE  P!Operation.y = 0 /\ collector' = collector
    BY <1>3, <2>1, LineKeeps DEF P!Offset
  <2>2. P!Operation.y = 0 => ~P!Down(P!Operations(stream)[operation])
    BY <1>2 DEF P!Down
  <2>3. ASSUME P!Operation.y = 0, NEW y \in Int, textY = {y} PROVE textY' = {y}
    <3>1. textY' = {x + P!Operation.y : x \in textY}
      BY <2>3
    <3>2. textY' = {y + 0}
      BY <3>1, <2>3
    <3> QED BY <3>2
  <2> QED BY <1>1, <1>5, <2>1, <2>2, <2>3, LastStays
<1>8. FontRead'
  BY <1>1, <1>4, FontKept
<1> QED BY <1>1, <1>2, <1>3, <1>4, <1>5, <1>6, <1>7, <1>8, NothingShownStep

LEMMA StepNextLine == ASSUME PdfIInv, P!NextLine PROVE PdfIInv'
<1> USE DEF P!NextLine
<1>1. Operates(collector)
  BY DEF Operates
<1>2. /\ collector \in Collected(Nat \X Nat) /\ DOMAIN page = {"y", "font", "seen"} /\ page.y \in Int /\ inText \in BOOLEAN
  BY DEF PdfIInv, PdfTyped, ReaderTyped
<1>3. /\ DOMAIN page' = {"y", "font", "seen"} /\ page'.y = page.y - 1
      /\ page'.font = page.font /\ page'.seen = page.seen
  BY <1>2
<1>4. collector' \in Collected(Nat \X Nat) /\ collector'.out = collector.out /\ (collector.out # <<>> => collector'.pending = "line")
  BY <1>2, LineKeeps
<1>5. LastOnLine'
  BY <1>1, <1>4, LastStays
<1>6. FontRead'
  BY <1>1, <1>3, FontKept
<1> QED BY <1>1, <1>2, <1>3, <1>4, <1>5, <1>6, NothingShownStep

-----------------------------------------------------------------------------
\* Which map reads a string.
LEMMA PdfFinite == \A S : P!IsFiniteSet(S) = IsFiniteSet(S) /\ P!Cardinality(S) = Cardinality(S)
BY DEF P!IsFiniteSet, P!Cardinality, IsFiniteSet, Cardinality

LEMMA OneMapOfFont ==
    ASSUME pdf \in Document, NEW i \in DOMAIN pdf.fonts, P!FontMap(pdf.fonts[i]) # P!NoMap,
           P!MapsByFontName(pdf.fonts[i].name) # {}
    PROVE  P!MapsByFontName(pdf.fonts[i].name) = {P!FontMap(pdf.fonts[i])}
<1> DEFINE fonts == pdf.fonts
           name == fonts[i].name
           given(n) == {P!FontMap(fonts[k]) : k \in {j \in DOMAIN fonts : fonts[j].name = n}} \ {P!NoMap}
<1>1. P!FontMap(fonts[i]) \in given(name)
  OBVIOUS
<1>2. \A n : IsFiniteSet(given(n))
  <2> TAKE n
  <2> DEFINE I == {j \in DOMAIN fonts : fonts[j].name = n}
             F == [j \in I |-> P!FontMap(fonts[j])]
  <2>1. IsFiniteSet(1..Len(fonts)) /\ I \subseteq 1..Len(fonts)
    <3>1. Len(fonts) \in Int
      BY DocumentTyped
    <3>2. IsFiniteSet(1..Len(fonts))
      BY <3>1, FS_Interval
    <3>3. DOMAIN fonts = 1..Len(fonts)
      BY DocumentTyped
    <3> HIDE DEF fonts
    <3> QED BY <3>2, <3>3
  <2>2. IsFiniteSet(I)
    BY <2>1, FS_Subset
  <2> HIDE DEF I
  <2>3. IsFiniteSet({P!FontMap(fonts[k]) : k \in I})
    <3>1. F \in Surjection(I, {P!FontMap(fonts[k]) : k \in I})
      BY DEF Surjection
    <3> QED BY <2>2, <3>1, FS_Surjection
  <2>4. given(n) \subseteq {P!FontMap(fonts[k]) : k \in I}
    BY DEF I
  <2> QED BY <2>3, <2>4, FS_Subset
<1>3. \A p \in P!FontCharacterMaps(fonts) : p.map \in given(p.name) /\ P!Cardinality(given(p.name)) = 1
  <2> TAKE p \in P!FontCharacterMaps(fonts)
  <2>1. PICK n \in {fonts[k].name : k \in DOMAIN fonts} :
              p \in {[name |-> n, map |-> m] : m \in {x \in given(n) : P!Cardinality(given(n)) = 1}}
    BY DEF P!FontCharacterMaps
  <2> HIDE DEF given
  <2>2. PICK m \in {x \in given(n) : P!Cardinality(given(n)) = 1} : p = [name |-> n, map |-> m]
    BY <2>1
  <2>3. p.name = n /\ p.map = m
    BY <2>2
  <2> QED BY <2>2, <2>3
<1> HIDE DEF given
<1>4. \A p \in P!FontCharacterMaps(fonts) : p.name = name => given(name) = {P!FontMap(fonts[i])} /\ p.map \in given(name)
  <2> TAKE p \in P!FontCharacterMaps(fonts)
  <2> HAVE p.name = name
  <2>1. Cardinality(given(name)) = 1 /\ p.map \in given(name)
    BY <1>3, PdfFinite
  <2>2. \E x : given(name) = {x}
    BY <1>2, <2>1, FS_Singleton
  <2> QED BY <1>1, <2>1, <2>2
<1> QED BY <1>4 DEF P!MapsByFontName

LEMMA ReadByItsFont ==
    ASSUME PdfIInv, outcome = "showing", page.seen, NEW codes,
           NEW i \in DOMAIN pdf.fonts, pdf.fonts[i].name = page.font,
           {m \in P!CMaps(held.streams) : codes \subseteq P!Codes(m)} = {pdf.fonts[i].map}
    PROVE  P!Decode(codes, activeMaps) = pdf.fonts[i].map
<1> DEFINE map == pdf.fonts[i].map
<1>1. map \in P!CMaps(held.streams) /\ codes \subseteq P!Codes(map)
  OBVIOUS
<1>2. map \in held.streams /\ map \in 1..Len(pdf.streams)
  BY <1>1, DocumentTyped DEF P!CMaps, PdfIInv, PdfTyped, StreamsTyped
<1>3. map \in Int /\ map # P!NoMap
  BY <1>2 DEF P!NoMap
<1>4. P!FontMap(pdf.fonts[i]) = map
  BY <1>2 DEF P!FontMap
<1>5. P!Min({map}) = map
  <2>1. \A x \in {map} : (\A y \in {map} : x <= y) <=> TRUE
    BY <1>3
  <2> QED BY <2>1, <1>3 DEF P!Min
<1>6. CASE activeMaps = P!CMaps(held.streams)
  BY <1>5, <1>6 DEF P!Decode
<1>7. CASE activeMaps # {} /\ activeMaps = P!MapsByFontName(page.font)
  <2>1. activeMaps = {map}
    BY <1>3, <1>4, <1>7, OneMapOfFont DEF PdfIInv, PdfTyped, StreamsTyped
  <2>2. {m \in activeMaps : codes \subseteq P!Codes(m)} = {map}
    BY <1>1, <2>1
  <2> QED BY <1>5, <2>2 DEF P!Decode
<1> QED BY <1>6, <1>7 DEF PdfIInv, FontRead

\* A string is shown after c, which is what was collected, with a line if one is due.
LEMMA ShowStep ==
    ASSUME PdfIInv, NEW c \in Collected(Nat \X Nat), NEW y \in Int, Operates(P!Texts(c, P!Operation.texts)),
           c.out = collector.out,
           c.out # <<>> /\ c.pending = "none" =>
              collector.pending = "none" /\ ~P!Down(P!Operations(stream)[operation]),
           P!Show(c, y), P!Operations(stream)[operation].op \in {"Tj", "'"},
           UNCHANGED <<inText, textY, activeMaps>>,
           DOMAIN page' = {"y", "font", "seen"}, page'.y \in Int,
           page'.font = page.font, page'.seen = page.seen
    PROVE  PdfIInv'
<1> DEFINE id == <<stream, operation>>
           new == [id |-> id, y |-> y, tracked |-> textY = {y}, font |-> page.font, seen |-> page.seen,
                   codes |-> P!Operation.codes, map |-> P!Decode(P!Operation.codes, activeMaps)]
           n == Len(c.out)
           m == Len(collector'.out)
<1> USE DEF PdfIInv, PdfTyped
<1>1. /\ StreamsTyped' /\ outcome = "showing" /\ outcome' # "streams"
      /\ outcome' # "failed" => ~P!Overflows(P!Texts(c, P!Operation.texts), MaximumPdfOutput)
      /\ stream \in 1..Len(pdf.streams) /\ stream \in Nat /\ operation \in Nat /\ id \in Nat \X Nat
      /\ operation \in 1..Len(P!Operations(stream))
      /\ UNCHANGED <<pdf, stream, held>> /\ operation' = operation + 1
  BY RunTyped
<1>2. collector' = P!Texts(c, P!Operation.texts) /\ shown' = shown \cup {new}
  BY DEF P!Show
<1>3. Continues(Nat \X Nat, collector', c, id)
  <2>1. pdf \in Document
    BY DEF StreamsTyped
  <2>2. Len(P!Operation.texts) \in Nat
    BY <1>1, <2>1, OperationsTyped DEF P!Operation
  <2> QED BY <1>1, <1>2, <2>2, TextsContinue
<1>4. n \in Nat /\ m \in Nat /\ n <= m /\ collector \in Collected(Nat \X Nat) /\ collector' \in Collected(Nat \X Nat)
  BY <1>3, ChunksTyped DEF Continues, ReaderTyped
<1> HIDE DEF new
<1>5. new.id = id /\ new.y = y /\ new.font = page.font /\ new.seen = page.seen /\ new.codes = P!Operation.codes
      /\ new.map = P!Decode(P!Operation.codes, activeMaps) /\ (new.tracked <=> textY = {y})
  BY DEF new
<1>6. \A i \in 1..n : collector'.out[i] = collector.out[i] /\ collector'.out[i].id \in Nat \X Nat
                      /\ Earlier(collector'.out[i].id)
  <2>1. \A i \in 1..n : collector'.out[i] = collector.out[i]
    BY <1>3 DEF Continues
  <2>2. \A i \in 1..n : collector.out[i].id \in Nat \X Nat /\ Earlier(collector.out[i].id)
    BY <1>4, ChunksTyped DEF ReadInOrder
  <2> QED BY <2>1, <2>2
<1>7. \A i \in n + 1..m : collector'.out[i].id = id
  BY <1>3 DEF Continues
<1>8. ~Earlier(id)
  BY <1>1 DEF Earlier
<1>9. \A s \in shown : Earlier(s.id) /\ s.id \in Nat \X Nat /\ s.y \in Int /\ s.id # id
  BY <1>8 DEF ReadInOrder, ReaderTyped
<1>10. ReaderTyped'
  <2>1. outcome' # "failed" => m <= MaximumPdfOutput
    BY <1>1, <1>2, <1>4, PdfLimits DEF P!Overflows
  <2>2. \A s \in shown' : s.id \in Nat \X Nat /\ s.y \in Int
    BY <1>1, <1>2, <1>5, <1>9
  <2> QED BY <1>4, <2>1, <2>2 DEF ReaderTyped
<1>11. ReadInOrder'
  <2> DEFINE Later(x) == x[1] < stream' \/ (x[1] = stream' /\ x[2] < operation')
  <2>1. \A x \in Nat \X Nat : Earlier(x) => Later(x)
    BY <1>1 DEF Earlier
  <2>2. Later(id)
    BY <1>1
  <2> HIDE DEF Later
  <2>3. \A s \in shown' : Later(s.id)
    BY <1>2, <1>5, <1>9, <2>1, <2>2
  <2>4. \A s, t \in shown' : s.id = t.id => s = t
    BY <1>2, <1>5, <1>9 DEF ReadInOrder
  <2>5. \A i \in 1..m : Later(collector'.out[i].id)
    <3> TAKE i \in 1..m
    <3>1. i \in 1..n \/ i \in n + 1..m
      BY <1>4
    <3> QED BY <1>6, <1>7, <2>1, <2>2, <3>1
  <2> QED BY <1>1, <2>3, <2>4, <2>5 DEF ReadInOrder, Later, Earlier
<1>12. P!Operations(stream)' = P!Operations(stream)
  BY <1>1 DEF P!Operations
\* The last text that stood before: where it leaves nothing due, the reader is on its line.
<1>13. ASSUME n > 0, c.pending = "none"
       PROVE  LET last == collector'.out[n].id
              IN  /\ last[1] # stream => \A k \in 1..operation : ~P!Down(P!Operations(stream)[k])
                  /\ last[1] = stream => \A s \in shown : s.id = last /\ s.tracked => textY = {s.y}
  <2>1. collector.pending = "none" /\ ~P!Down(P!Operations(stream)[operation])
    BY <1>13
  <2>2. n \in 1..n /\ collector'.out[n] = collector.out[n]
    BY <1>4, <1>6, <1>13
  <2>3. LET last == collector'.out[n].id
        IN  /\ last[1] # stream => \A k \in 1..operation - 1 : ~P!Down(P!Operations(stream)[k])
            /\ last[1] = stream => \A s \in shown : s.id = last /\ s.tracked => textY = {s.y}
    BY <1>13, <2>1, <2>2 DEF LastOnLine
  <2>4. \A k \in 1..operation : k \in 1..operation - 1 \/ k = operation
    BY <1>1
  <2> QED BY <2>1, <2>3, <2>4
<1>14. LastOnLine'
  <2> DEFINE last == collector'.out[m].id
  <2> SUFFICES ASSUME m > 0, collector'.pending = "none"
               PROVE  /\ last[1] # stream => \A k \in 1..operation : ~P!Down(P!Operations(stream)[k])
                      /\ last[1] = stream => \A s \in shown' : s.id = last /\ s.tracked => textY = {s.y}
    <3>1. operation' - 1 = operation
      BY <1>1
    <3> QED BY <1>1, <1>12, <3>1 DEF LastOnLine
  <2>1. CASE m = n
    <3>1. c.pending = "none" /\ m \in 1..n
      BY <1>3, <1>4, <2>1 DEF Continues
    <3>2. last # id
      BY <1>6, <1>8, <3>1
    <3> QED BY <1>2, <1>5, <1>13, <2>1, <3>1, <3>2
  <2>2. CASE m > n
    <3>1. last = id /\ last[1] = stream
      BY <1>4, <1>7, <2>2
    <3> QED BY <1>2, <1>5, <1>9, <3>1
  <2> QED BY <1>4, <2>1, <2>2
<1>15. P!LinesKeptApart'
  <2> SUFFICES ASSUME NEW s \in shown', NEW t \in shown', NEW i \in 2..m,
                      collector'.out[i - 1].id = s.id, collector'.out[i].id = t.id,
                      collector'.out[i].after = "none"
               PROVE  IF s.id[1] = t.id[1] THEN s.y = t.y \/ ~s.tracked \/ ~t.tracked
                      ELSE \A k \in 1..t.id[2] : ~P!Down(P!Operations(t.id[1])[k])
    BY <1>1 DEF P!LinesKeptApart, P!Adjoined, P!Operations
  <2>1. CASE i <= n
    <3>1. i \in 1..n /\ i - 1 \in 1..n /\ i \in 2..Len(collector.out)
      BY <2>1
    <3>2. s \in shown /\ t \in shown
      <4>1. Earlier(s.id) /\ Earlier(t.id)
        BY <1>6, <3>1
      <4>2. s # new /\ t # new
        BY <1>5, <1>8, <4>1
      <4> QED BY <1>2, <4>2
    <3>3. P!Adjoined(collector, s.id, t.id)
      BY <1>6, <3>1 DEF P!Adjoined
    <3> QED BY <3>2, <3>3 DEF P!LinesKeptApart
  <2>2. CASE i = n + 1
    <3>1. n > 0 /\ n \in 1..n /\ i - 1 = n /\ i \in n + 1..m
      BY <1>4, <2>2
    <3>2. t.id = id /\ t = new
      BY <1>2, <1>7, <1>9, <3>1
    <3>3. s.id # id /\ s \in shown
      <4>1. Earlier(s.id)
        BY <1>6, <3>1
      <4>2. s.id # id
        BY <1>8, <4>1
      <4> QED BY <1>2, <1>5, <4>2
    <3>4. c.pending = "none"
      BY <1>3, <1>4, <2>2 DEF Continues
    <3>5. /\ s.id[1] # stream => \A k \in 1..operation : ~P!Down(P!Operations(stream)[k])
          /\ s.id[1] = stream => (s.tracked => textY = {s.y})
      BY <1>13, <3>1, <3>3, <3>4
    <3>6. new.tracked => textY = {new.y}
      BY <1>5
    <3>7. t.id[1] = stream /\ t.id[2] = operation
      BY <3>2
    <3>8. s.id[1] = stream /\ s.tracked /\ t.tracked => s.y = t.y
      BY <3>2, <3>5, <3>6
    <3> QED BY <3>5, <3>7, <3>8
  <2>3. CASE i > n + 1
    <3>1. i \in n + 1..m /\ i - 1 \in n + 1..m
      BY <1>4, <2>3
    <3>2. s = new /\ t = new
      BY <1>2, <1>7, <1>9, <3>1
    <3> QED BY <3>2
  <2> QED BY <1>4, <2>1, <2>2, <2>3
<1>16. P!StringsReadByTheirFont'
  <2>1. \A s : P!FontOf(s)' = P!FontOf(s)
    BY <1>1 DEF P!FontOf
  <2>2. P!CMaps(held.streams)' = P!CMaps(held.streams) /\ \A x : P!Codes(x)' = P!Codes(x)
    BY <1>1 DEF P!CMaps, P!Codes
  <2>3. ASSUME NEW f \in P!FontOf(new), new.seen,
               {x \in P!CMaps(held.streams) : new.codes \subseteq P!Codes(x)} = {f.map}
        PROVE  new.map = f.map
    <3>1. PICK i \in DOMAIN pdf.fonts : f = pdf.fonts[i] /\ pdf.fonts[i].name = page.font
      BY <1>5 DEF P!FontOf
    <3> DEFINE codes == P!Operation.codes
    <3>2. page.seen /\ {x \in P!CMaps(held.streams) : codes \subseteq P!Codes(x)} = {pdf.fonts[i].map}
      BY <1>5, <2>3, <3>1
    <3> HIDE DEF codes
    <3>3. P!Decode(codes, activeMaps) = pdf.fonts[i].map
      BY <1>1, <3>1, <3>2, ReadByItsFont
    <3> QED BY <1>5, <3>1, <3>3 DEF codes
  <2>4. \A s \in shown' : \A f \in P!FontOf(s) :
           LET covering == {x \in P!CMaps(held.streams) : s.codes \subseteq P!Codes(x)}
           IN  s.seen /\ covering = {f.map} => s.map = f.map
    BY <1>2, <2>3 DEF P!StringsReadByTheirFont
  <2> QED BY <1>1, <2>4 DEF P!StringsReadByTheirFont, P!FontOf, P!CMaps, P!Codes
<1>17. FontRead'
  BY FontKept
<1> QED BY <1>1, <1>10, <1>11, <1>14, <1>15, <1>16, <1>17

LEMMA StepTj == ASSUME PdfIInv, P!Tj PROVE PdfIInv'
<1> USE DEF P!Tj
<1>1. Operates(P!Texts(collector, P!Operation.texts))
  BY DEF Operates, P!Show
<1>2. P!Operations(stream)[operation].op = "Tj"
  BY DEF P!Running
<1>3. collector \in Collected(Nat \X Nat) /\ DOMAIN page = {"y", "font", "seen"} /\ page.y \in Int
  BY DEF PdfIInv, PdfTyped, ReaderTyped
<1> QED BY <1>1, <1>2, <1>3, ShowStep DEF P!Down

LEMMA StepQuote == ASSUME PdfIInv, P!Quote PROVE PdfIInv'
<1> USE DEF P!Quote
<1>1. Operates(P!Texts(P!Line(collector), P!Operation.texts))
  BY DEF Operates, P!Show
<1>2. P!Operations(stream)[operation].op = "'"
  BY DEF P!Running
<1>3. collector \in Collected(Nat \X Nat) /\ DOMAIN page = {"y", "font", "seen"} /\ page.y \in Int
  BY DEF PdfIInv, PdfTyped, ReaderTyped
<1>4. /\ DOMAIN page' = {"y", "font", "seen"} /\ page'.y = page.y - 1
      /\ page'.font = page.font /\ page'.seen = page.seen
  BY <1>3
<1>5. /\ P!Line(collector) \in Collected(Nat \X Nat) /\ P!Line(collector).out = collector.out
      /\ collector.out # <<>> => P!Line(collector).pending = "line"
  BY <1>3, LineKeeps
<1>6. page.y - 1 \in Int /\ P!Show(P!Line(collector), page.y - 1)
  BY <1>3
<1> QED BY <1>1, <1>2, <1>4, <1>5, <1>6, ShowStep

LEMMA PdfStutter ==
    ASSUME PdfIInv, UNCHANGED <<pdf, outcome, stream, held, operation, operations, inText, textY,
                                activeMaps, collector, page, shown>>
    PROVE  PdfIInv'
<1>1. StreamsTyped' /\ ReaderTyped'
  BY DEF PdfIInv, PdfTyped, StreamsTyped, ReaderTyped
<1>2. ReadInOrder' /\ LastOnLine'
  BY DEF PdfIInv, ReadInOrder, Earlier, LastOnLine, P!Operations
<1>3. FontRead'
  <2>1. P!CMaps(held.streams)' = P!CMaps(held.streams)
    BY DEF P!CMaps
  <2>2. P!FontCharacterMaps(pdf.fonts)' = P!FontCharacterMaps(pdf.fonts)
    BY DEF P!FontCharacterMaps, P!FontMap
  <2>3. P!MapsByFontName(page.font)' = P!MapsByFontName(page.font)
    BY <2>2 DEF P!MapsByFontName
  <2> QED BY <2>1, <2>3 DEF PdfIInv, FontRead
<1>4. P!LinesKeptApart'
  BY DEF PdfIInv, P!LinesKeptApart, P!Adjoined, P!Operations
<1>5. P!StringsReadByTheirFont'
  BY DEF PdfIInv, P!StringsReadByTheirFont, P!FontOf, P!CMaps, P!Codes
<1> QED BY <1>1, <1>2, <1>3, <1>4, <1>5 DEF PdfIInv, PdfTyped

LEMMA PdfHolds == PdfIInv => P!PdfInv
<1> SUFFICES ASSUME PdfIInv PROVE P!PdfInv
  OBVIOUS
<1>1. P!Cardinality(textY) <= 1
  <2>1. P!Cardinality({}) = 0 /\ \A y : P!Cardinality({y}) = 1
    BY FS_EmptySet, FS_Singleton, PdfFinite
  <2>2. CASE textY = {}
    <3>1. P!Cardinality(textY) = 0
      BY <2>1, <2>2
    <3> QED BY <3>1
  <2>3. ASSUME NEW y, textY = {y} PROVE P!Cardinality(textY) <= 1
    <3>1. P!Cardinality(textY) = 1
      BY <2>1, <2>3, Zenon
    <3> QED BY <3>1
  <2> QED BY <2>2, <2>3 DEF PdfIInv, PdfTyped, ReaderTyped
<1>2. outcome # "failed" => ~P!Overflows(collector, MaximumPdfOutput)
  BY ChunksTyped, PdfLimits DEF PdfIInv, PdfTyped, ReaderTyped, P!Overflows
<1>3. P!TypeOK
  BY <1>1, <1>2 DEF PdfIInv, PdfTyped, StreamsTyped, ReaderTyped, P!TypeOK
<1>4. P!MemoryIsBounded
  BY PdfLimits DEF PdfIInv, PdfTyped, StreamsTyped, P!MemoryIsBounded
<1> QED BY <1>3, <1>4 DEF PdfIInv, P!PdfInv

PdfPart == stage = "pdf" => PdfIInv

LEMMA PdfNext == PdfPart /\ [PartNext]_all => PdfPart'
<1> SUFFICES ASSUME PdfPart, [PartNext]_all PROVE PdfPart'
  OBVIOUS
<1>1. CASE UNCHANGED all
  BY <1>1, PdfStutter DEF PdfPart, all, pdfOnly, alike
<1>2. ASSUME Reviewing \/ ReadingHtml \/ Parsing PROVE PdfPart'
  BY <1>2 DEF Reviewing, ReadingHtml, Parsing, PdfPart
<1>3. ASSUME ReadingPdf,
             \/ P!ReadStream \/ P!ReadFonts \/ P!EndStream \/ P!Finish \/ P!BT \/ P!ET
             \/ P!Tf \/ P!Tj \/ P!Quote \/ P!Tm \/ P!Td \/ P!NextLine
      PROVE PdfPart'
  <2>1. stage = "pdf" /\ stage' = "pdf"
    BY <1>3 DEF ReadingPdf
  <2>2. PdfIInv
    BY <2>1 DEF PdfPart
  <2>3. PdfIInv'
    BY <1>3, <2>2, StepReadStream, StepReadFonts, StepEndStream, StepPdfFinish, StepBT, StepET,
       StepTf, StepTj, StepQuote, StepTm, StepTd, StepNextLine
  <2> QED BY <2>3 DEF PdfPart
<1>4. CASE PartNext
  BY <1>2, <1>3, <1>4, Zenon DEF PartNext
<1> QED BY <1>1, <1>4

\* PdfText: whatever the document, what is held stays within the limit, texts of
\* different lines are not run together while the reader knows the line, and a string
\* is read with the map of its font.
THEOREM PdfIsReadInLines == PartSpec => []PdfInv
<1>1. PartInit => PdfPart
  BY PdfInit DEF PartInit, PdfPart
<1>2. PdfPart /\ [PartNext]_all => PdfPart'
  BY PdfNext
<1>3. PdfPart => PdfInv
  BY PdfHolds DEF PdfPart, PdfInv
<1> QED BY <1>1, <1>2, <1>3, PTL DEF PartSpec

-----------------------------------------------------------------------------
(* What the reader of a page has read (HtmlText).  Of a well nested page, the*)
(* elements that are open and not forgotten are frames of the stack, in their*)
(* order, and there are no other frames as long as no tag was swallowed.     *)

LEMMA HtmlFinite == \A S : H!IsFiniteSet(S) = IsFiniteSet(S) /\ H!Cardinality(S) = Cardinality(S)
BY DEF H!IsFiniteSet, H!Cardinality, IsFiniteSet, Cardinality

LEMMA MinOfSet ==
    ASSUME NEW S, S \subseteq Nat, S # {}
    PROVE  H!Min(S) \in S /\ \A x \in S : H!Min(S) <= x
<1>1. \E x \in S : \A y \in S : x <= y
  BY LeastNatural
<1> QED BY <1>1 DEF H!Min

LEMMA MaxOfSet ==
    ASSUME NEW n \in Nat, NEW S, S \subseteq 1..n, S # {}
    PROVE  H!Max(S) \in S /\ \A x \in S : x <= H!Max(S)
<1> DEFINE R == {x \in 0..n : n - x \in S}
<1>1. R # {}
  <2>1. PICK x \in S : TRUE
    OBVIOUS
  <2>2. x \in 1..n
    OBVIOUS
  <2>3. n - x \in 0..n /\ n - (n - x) = x
    BY <2>2
  <2> QED BY <2>1, <2>3
<1>2. R \subseteq Nat
  OBVIOUS
<1>3. PICK r \in R : \A y \in R : r <= y
  <2> HIDE DEF R
  <2> QED BY <1>1, <1>2, LeastNatural
<1>4. ASSUME NEW x \in S PROVE x <= n - r
  <2>1. x \in 1..n
    OBVIOUS
  <2>2. n - x \in 0..n /\ n - (n - x) = x
    BY <2>1
  <2>3. n - x \in R
    BY <2>2
  <2> QED BY <1>3, <2>1, <2>3
<1>5. \E x \in S : \A y \in S : x >= y
  <2>1. n - r \in S /\ n - r \in Int
    BY <1>3
  <2>2. \A y \in S : y \in Int
    OBVIOUS
  <2> QED BY <1>4, <2>1, <2>2
<1>6. H!Max(S) \in S /\ \A x \in S : H!Max(S) >= x
  BY <1>5 DEF H!Max
<1>7. \A x \in S : x \in Int
  OBVIOUS
<1> QED BY <1>6, <1>7

Frame == [name : {html[i].name : i \in DOMAIN html}, hidden : BOOLEAN]
HiddenAt(s) == {i \in 1..Len(s) : s[i].hidden}

LEMMA HiddenFramesIs ==
    ASSUME NEW T, NEW s \in Seq(T)
    PROVE  /\ IsFiniteSet(HiddenAt(s)) /\ H!HiddenFrames(s) = Cardinality(HiddenAt(s))
           /\ H!HiddenFrames(s) \in 0..Len(s)
           /\ H!HiddenFrames(s) = 0 <=> \A i \in 1..Len(s) : ~s[i].hidden
<1>1. Len(s) \in Nat /\ DOMAIN s = 1..Len(s)
  OBVIOUS
<1>2. IsFiniteSet(1..Len(s)) /\ Cardinality(1..Len(s)) = Len(s)
  <2>1. Cardinality(1..Len(s)) = IF 1 > Len(s) THEN 0 ELSE Len(s) - 1 + 1
    BY <1>1, FS_Interval
  <2> QED BY <1>1, <2>1, FS_Interval
<1>3. IsFiniteSet(HiddenAt(s)) /\ Cardinality(HiddenAt(s)) <= Len(s) /\ Cardinality(HiddenAt(s)) \in Nat
  <2>1. HiddenAt(s) \subseteq 1..Len(s)
    BY DEF HiddenAt
  <2> QED BY <1>2, <2>1, FS_Subset, FS_CardinalityType
<1>4. H!HiddenFrames(s) = Cardinality(HiddenAt(s))
  <2>1. H!HiddenFrames(s) = H!Cardinality(HiddenAt(s))
    BY <1>1 DEF H!HiddenFrames, HiddenAt
  <2> QED BY <2>1, HtmlFinite
<1>5. Cardinality(HiddenAt(s)) = 0 <=> HiddenAt(s) = {}
  BY <1>3, FS_EmptySet
<1>6. HiddenAt(s) = {} <=> \A i \in 1..Len(s) : ~s[i].hidden
  BY DEF HiddenAt
<1> QED BY <1>1, <1>3, <1>4, <1>5, <1>6

LEMMA HiddenOfAppend ==
    ASSUME NEW T, NEW s \in Seq(T), NEW e \in T
    PROVE  H!HiddenFrames(Append(s, e)) = IF e.hidden THEN H!HiddenFrames(s) + 1 ELSE H!HiddenFrames(s)
<1>1. Append(s, e) \in Seq(T) /\ Len(Append(s, e)) = Len(s) + 1 /\ Len(s) \in Nat
      /\ Append(s, e)[Len(s) + 1] = e /\ \A i \in 1..Len(s) : Append(s, e)[i] = s[i]
  OBVIOUS
<1> DEFINE r == Append(s, e)
<1> HIDE DEF r
<1>2. CASE e.hidden
  <2>1. HiddenAt(r) = HiddenAt(s) \cup {Len(s) + 1} /\ Len(s) + 1 \notin HiddenAt(s)
    BY <1>1, <1>2 DEF HiddenAt, r
  <2>2. Cardinality(HiddenAt(s) \cup {Len(s) + 1}) = Cardinality(HiddenAt(s)) + 1
    BY <2>1, HiddenFramesIs, FS_AddElement
  <2> QED BY <1>1, <1>2, <2>1, <2>2, HiddenFramesIs DEF r
<1>3. CASE ~e.hidden
  <2>1. HiddenAt(r) = HiddenAt(s)
    BY <1>1, <1>3 DEF HiddenAt, r
  <2> QED BY <1>1, <1>3, <2>1, HiddenFramesIs DEF r
<1> QED BY <1>2, <1>3

LEMMA HiddenOfParts ==
    ASSUME NEW T, NEW s \in Seq(T), NEW k \in 0..Len(s)
    PROVE  /\ SubSeq(s, 1, k) \in Seq(T) /\ Len(SubSeq(s, 1, k)) = k
           /\ \A i \in 1..k : SubSeq(s, 1, k)[i] = s[i]
           /\ H!HiddenFrames(SubSeq(s, 1, k)) = H!HiddenFrames(s) - H!HiddenFrames(SubSeq(s, k + 1, Len(s)))
<1> DEFINE a == SubSeq(s, 1, k)
           b == SubSeq(s, k + 1, Len(s))
<1>1. Len(s) \in Nat
  OBVIOUS
<1>2. a \in Seq(T) /\ Len(a) = k /\ \A i \in 1..k : a[i] = s[i]
  OBVIOUS
<1>3. b \in Seq(T) /\ Len(b) = Len(s) - k /\ \A i \in 1..Len(s) - k : b[i] = s[k + i]
  OBVIOUS
<1> HIDE DEF a, b
<1> DEFINE B == {i \in k + 1..Len(s) : s[i].hidden}
<1>4. HiddenAt(s) = HiddenAt(a) \cup B /\ HiddenAt(a) \cap B = {} /\ B \subseteq HiddenAt(s)
  BY <1>1, <1>2 DEF HiddenAt
<1>5. IsFiniteSet(B)
  BY <1>4, HiddenFramesIs, FS_Subset
<1> HIDE DEF B
<1>6. Cardinality(HiddenAt(s)) = Cardinality(HiddenAt(a)) + Cardinality(B)
  <2>1. IsFiniteSet(HiddenAt(a))
    BY <1>2, HiddenFramesIs
  <2>2. Cardinality(HiddenAt(a) \cup B) = Cardinality(HiddenAt(a)) + Cardinality(B) - Cardinality(HiddenAt(a) \cap B)
    BY <1>5, <2>1, FS_Union
  <2>3. Cardinality(HiddenAt(a)) \in Nat /\ Cardinality(B) \in Nat /\ Cardinality({}) = 0
    BY <1>5, <2>1, FS_CardinalityType, FS_EmptySet
  <2>4. Cardinality(HiddenAt(a) \cap B) = 0 /\ Cardinality(HiddenAt(s)) = Cardinality(HiddenAt(a) \cup B)
    BY <1>4, <2>3, Zenon
  <2> QED BY <2>2, <2>3, <2>4
<1>7. Cardinality(B) = Cardinality(HiddenAt(b))
  <2> DEFINE f == [i \in HiddenAt(b) |-> k + i]
  <2>1. \A i \in HiddenAt(b) : i \in 1..Len(s) - k /\ b[i].hidden /\ b[i] = s[k + i]
    BY <1>3 DEF HiddenAt
  <2>2. f \in Bijection(HiddenAt(b), B)
    <3>1. f \in [HiddenAt(b) -> B]
      BY <1>1, <2>1 DEF B
    <3>2. \A i, j \in HiddenAt(b) : f[i] = f[j] => i = j
      BY <1>1, <2>1
    <3>3. \A x \in B : \E i \in HiddenAt(b) : f[i] = x
      <4> TAKE x \in B
      <4>1. x - k \in 1..Len(s) - k /\ k + (x - k) = x
        BY <1>1 DEF B
      <4>2. x - k \in HiddenAt(b)
        BY <1>3, <4>1 DEF HiddenAt, B
      <4> QED BY <4>1, <4>2
    <3> HIDE DEF f
    <3>4. f \in Injection(HiddenAt(b), B)
      BY <3>1, <3>2 DEF Injection, IsInjective
    <3>5. f \in Surjection(HiddenAt(b), B)
      BY <3>1, <3>3 DEF Surjection
    <3> QED BY <3>4, <3>5 DEF Bijection
  <2>3. IsFiniteSet(HiddenAt(b))
    BY <1>3, HiddenFramesIs
  <2> QED BY <2>2, <2>3, FS_Bijection DEF ExistsBijection
<1>8. H!HiddenFrames(s) = H!HiddenFrames(a) + H!HiddenFrames(b)
  BY <1>2, <1>3, <1>6, <1>7, HiddenFramesIs
<1>9. H!HiddenFrames(a) \in Nat /\ H!HiddenFrames(b) \in Nat
  BY <1>1, <1>2, <1>3, HiddenFramesIs
<1> QED BY <1>2, <1>8, <1>9 DEF a, b

-----------------------------------------------------------------------------
\* The elements that are open before a piece.
OpenAt(c) == {i \in H!Elements : i < c /\ c <= H!Min(H!Ends(i))}

LEMMA MarkupTyped ==
    ASSUME html \in HtmlPage
    PROVE  /\ Len(html) \in Nat /\ DOMAIN html = 1..Len(html)
           /\ \A i \in 1..Len(html) :
                 /\ html[i].is \in {"open", "less"} => html[i].hidden \in BOOLEAN
                 /\ html[i].is \in {"open", "close"} => html[i].slash \in BOOLEAN
                 /\ html[i].is \in {"open", "close", "less"} => html[i].long \in BOOLEAN
<1>1. html \in Seq({html[i] : i \in DOMAIN html})
  BY PagesOfHtml DEF H!HtmlAssumption, H!IsSequence
<1>2. Len(html) \in Nat /\ DOMAIN html = 1..Len(html)
  BY <1>1
<1> QED BY <1>2, PagesOfHtml DEF H!HtmlAssumption

LEMMA LimitsOfHtml == MaximumTags \in Nat /\ MaximumNestingDepth \in Nat /\ MaximumOutput \in Nat
BY PagesOfHtml DEF H!HtmlAssumption

LEMMA EndOfElement ==
    ASSUME html \in HtmlPage, H!WellNested, NEW i \in H!Elements
    PROVE  /\ i \in 1..Len(html) /\ html[i].is = "open"
           /\ H!Min(H!Ends(i)) \in i + 1..Len(html)
           /\ html[H!Min(H!Ends(i))].is = "close"
           /\ html[H!Min(H!Ends(i))].name = html[i].name
<1>1. i \in 1..Len(html) /\ html[i].is = "open"
  BY MarkupTyped DEF H!Elements
<1>2. Len(html) \in Nat
  BY MarkupTyped
<1>3. H!Ends(i) # {}
  BY DEF H!WellNested
<1>4. \A k \in H!Ends(i) : k \in i + 1..Len(html) /\ html[k].is = "close" /\ html[k].name = html[i].name
  BY DEF H!Ends
<1>5. H!Ends(i) \subseteq Nat
  BY <1>1, <1>2, <1>4
<1>6. H!Min(H!Ends(i)) \in H!Ends(i)
  BY <1>3, <1>5, MinOfSet
<1> QED BY <1>1, <1>4, <1>6

LEMMA OpenAfterOther ==
    ASSUME html \in HtmlPage, H!WellNested, NEW c \in 1..Len(html), c \notin H!Elements, html[c].is # "close"
    PROVE  OpenAt(c + 1) = OpenAt(c)
<1>1. \A i \in H!Elements : i < c + 1 /\ c + 1 <= H!Min(H!Ends(i)) <=> i < c /\ c <= H!Min(H!Ends(i))
  <2> TAKE i \in H!Elements
  <2>1. i \in Int /\ H!Min(H!Ends(i)) \in Int /\ i # c /\ H!Min(H!Ends(i)) # c
    BY EndOfElement, MarkupTyped
  <2> QED BY <2>1
<1> QED BY <1>1 DEF OpenAt

LEMMA OpenAfterOpening ==
    ASSUME html \in HtmlPage, H!WellNested, NEW c \in H!Elements
    PROVE  OpenAt(c + 1) = OpenAt(c) \cup {c} /\ \A i \in OpenAt(c) : i \in Int /\ i < c
<1>1. \A i \in H!Elements : (i < c + 1 /\ c + 1 <= H!Min(H!Ends(i))) <=> (i = c \/ (i < c /\ c <= H!Min(H!Ends(i))))
  <2> TAKE i \in H!Elements
  <2>1. c \in Int /\ html[c].is = "open" /\ i \in Int /\ H!Min(H!Ends(i)) \in Int
        /\ i + 1 <= H!Min(H!Ends(i)) /\ html[H!Min(H!Ends(i))].is = "close"
    BY EndOfElement, MarkupTyped
  <2>2. H!Min(H!Ends(i)) # c
    BY <2>1
  <2> QED BY <2>1, <2>2
<1>2. \A i \in H!Elements : i \in Int
  BY EndOfElement
<1> QED BY <1>1, <1>2 DEF OpenAt

\* A closing tag ends the innermost element that is open.
LEMMA OpenAfterClosing ==
    ASSUME html \in HtmlPage, H!WellNested, NEW c \in 1..Len(html), html[c].is = "close"
    PROVE  \E i \in OpenAt(c) :
              /\ html[i].name = html[c].name
              /\ OpenAt(c + 1) = OpenAt(c) \ {i}
              /\ \A j \in OpenAt(c) : j <= i
              /\ c = H!Min(H!Ends(i))
<1>1. PICK i \in H!Elements : c = H!Min(H!Ends(i))
  BY MarkupTyped DEF H!WellNested
<1>2. c \in Int /\ \A j \in H!Elements : j \in Int /\ H!Min(H!Ends(j)) \in Int
  BY EndOfElement, MarkupTyped
<1>3. i \in OpenAt(c) /\ html[i].name = html[c].name
  BY <1>1, <1>2, EndOfElement, MarkupTyped DEF OpenAt
<1>4. \A j \in H!Elements : i < j /\ j < c => H!Min(H!Ends(j)) < c
  BY <1>1 DEF H!WellNested
<1>5. \A j \in OpenAt(c) : j <= i
  BY <1>2, <1>4 DEF OpenAt
<1>6. \A j \in H!Elements : H!Min(H!Ends(j)) = c => j = i
  <2> SUFFICES ASSUME NEW j \in H!Elements, H!Min(H!Ends(j)) = c, j # i PROVE FALSE
    OBVIOUS
  <2>1. j < c /\ i < c
    BY <1>1, <1>2, EndOfElement, MarkupTyped
  <2>2. \A x, y \in H!Elements : x < y /\ y < H!Min(H!Ends(x)) => H!Min(H!Ends(y)) < H!Min(H!Ends(x))
    BY DEF H!WellNested
  <2> QED BY <1>1, <1>2, <2>1, <2>2
<1>7. \A j \in H!Elements : (j < c + 1 /\ c + 1 <= H!Min(H!Ends(j))) <=> (j # i /\ j < c /\ c <= H!Min(H!Ends(j)))
  <2> TAKE j \in H!Elements
  <2>1. j # c
    BY EndOfElement
  <2> QED BY <1>1, <1>2, <1>6, <2>1
<1> QED BY <1>1, <1>3, <1>5, <1>7 DEF OpenAt

LEMMA OpenAfterSwallowed ==
    ASSUME html \in HtmlPage, H!WellNested, NEW c \in 1..Len(html), NEW e \in 1..Len(html), c <= e,
           \A k \in c..e : html[k].is # "open"
    PROVE  OpenAt(e + 1) \subseteq OpenAt(c)
<1>1. \A i \in H!Elements : i < e + 1 /\ e + 1 <= H!Min(H!Ends(i)) => i < c /\ c <= H!Min(H!Ends(i))
  <2> TAKE i \in H!Elements
  <2>1. i \in Int /\ H!Min(H!Ends(i)) \in Int /\ i \notin c..e /\ Len(html) \in Nat
    BY EndOfElement, MarkupTyped
  <2> QED BY <2>1
<1> QED BY <1>1 DEF OpenAt

LEMMA ShownIf ==
    ASSUME html \in HtmlPage, H!WellNested, NEW k \in 1..Len(html)
    PROVE  /\ html[k].is # "close" => (H!Shown(k) <=> \A i \in OpenAt(k) : ~H!Hides(i))
           /\ html[k].is = "close" => (H!Shown(k) <=> \A i \in OpenAt(k + 1) : ~H!Hides(i))
           /\ html[k].is # "close" => \A i \in H!Elements : H!Within(k, i) => i \in OpenAt(k)
<1>1. \A i \in H!Elements : html[k].is # "close" => (H!Within(k, i) <=> i < k /\ k <= H!Min(H!Ends(i)))
  <2> TAKE i \in H!Elements
  <2>1. html[H!Min(H!Ends(i))].is = "close" /\ H!Min(H!Ends(i)) \in Int /\ i \in Int /\ k \in Int
    BY EndOfElement, MarkupTyped
  <2> QED BY <2>1 DEF H!Within
<1>2. \A i \in H!Elements : html[k].is = "close" => (H!Within(k, i) <=> i < k + 1 /\ k + 1 <= H!Min(H!Ends(i)))
  <2> TAKE i \in H!Elements
  <2>1. html[i].is = "open" /\ H!Min(H!Ends(i)) \in Int /\ i \in Int /\ k \in Int
    BY EndOfElement, MarkupTyped
  <2> QED BY <2>1 DEF H!Within
<1> QED BY <1>1, <1>2 DEF H!Shown, OpenAt

-----------------------------------------------------------------------------
\* The frames of s in which the elements of D stand, and no others if exact.
Follows(f, D, s, exact) ==
    /\ f \in [D -> 1..Len(s)]
    /\ \A i, j \in D : i < j => f[i] < f[j]
    /\ \A i \in D : s[f[i]].name = html[i].name /\ (s[f[i]].hidden <=> H!Hides(i))
    /\ exact => \A d \in 1..Len(s) : \E i \in D : f[i] = d

LEMMA FollowsFewer ==
    ASSUME NEW D, NEW D2, NEW s, NEW exact, NEW f, Follows(f, D, s, exact), D2 \subseteq D
    PROVE  \E g : Follows(g, D2, s, FALSE)
<1> DEFINE g == [i \in D2 |-> f[i]]
<1>1. Follows(g, D2, s, FALSE)
  BY DEF Follows
<1> QED BY <1>1

LEMMA FollowsPushed ==
    ASSUME NEW T, NEW s \in Seq(T), NEW e \in T, NEW c \in Int, NEW D, NEW f, NEW exact, Follows(f, D, s, exact),
           \A i \in D : i \in Int /\ i < c,
           e.name = html[c].name, e.hidden <=> H!Hides(c)
    PROVE  \E g : Follows(g, D \cup {c}, Append(s, e), exact)
<1> DEFINE r == Append(s, e)
           D2 == D \cup {c}
<1>1. Len(r) = Len(s) + 1 /\ Len(s) \in Nat /\ r[Len(s) + 1] = e /\ \A i \in 1..Len(s) : r[i] = s[i]
  OBVIOUS
<1> HIDE DEF r
<1> DEFINE g == [i \in D2 |-> IF i = c THEN Len(s) + 1 ELSE f[i]]
<1>2. c \notin D /\ \A i \in D : f[i] \in 1..Len(s) /\ g[i] = f[i] /\ i # c
  BY DEF Follows
<1>3. g[c] = Len(s) + 1 /\ c \in D2
  OBVIOUS
<1>5. \A i \in D2 : i = c \/ i \in D
  OBVIOUS
<1>4. g \in [D2 -> 1..Len(r)]
  <2>1. \A i \in D2 : g[i] \in 1..Len(r)
    <3> HIDE DEF g
    <3> QED BY <1>1, <1>2, <1>3, <1>5
  <2> QED BY <2>1
<1> HIDE DEF g
<1>6. \A i, j \in D2 : i < j => g[i] < g[j]
  BY <1>1, <1>2, <1>3, <1>5 DEF Follows
<1>7. \A i \in D2 : r[g[i]].name = html[i].name /\ (r[g[i]].hidden <=> H!Hides(i))
  BY <1>1, <1>2, <1>3, <1>5 DEF Follows
<1>8. exact => \A d \in 1..Len(r) : \E i \in D2 : g[i] = d
  <2> SUFFICES ASSUME exact, NEW d \in 1..Len(r) PROVE \E i \in D2 : g[i] = d
    OBVIOUS
  <2>1. CASE d = Len(s) + 1
    BY <1>3, <2>1
  <2>2. CASE d \in 1..Len(s)
    <3>1. PICK i \in D : f[i] = d
      BY <2>2 DEF Follows
    <3> QED BY <1>2, <3>1
  <2> QED BY <1>1, <2>1, <2>2
<1> QED BY <1>4, <1>6, <1>7, <1>8 DEF Follows, r

LEMMA FollowsOther ==
    ASSUME NEW T, NEW s \in Seq(T), NEW e \in T, NEW D, NEW f, NEW exact, Follows(f, D, s, exact)
    PROVE  Follows(f, D, Append(s, e), FALSE)
<1> DEFINE r == Append(s, e)
<1>1. Len(r) = Len(s) + 1 /\ Len(s) \in Nat /\ \A i \in 1..Len(s) : r[i] = s[i]
  OBVIOUS
<1> HIDE DEF r
<1>2. \A i \in D : f[i] \in 1..Len(s) /\ f[i] \in 1..Len(r)
  BY <1>1 DEF Follows
<1>3. f \in [D -> 1..Len(r)]
  BY <1>2 DEF Follows
<1> QED BY <1>1, <1>2, <1>3 DEF Follows, r

\* What is left when the frames from m on are closed, the last element's among them if
\* it has one.
LEMMA FollowsPopped ==
    ASSUME NEW T, NEW s \in Seq(T), NEW D, NEW f, NEW exact, Follows(f, D, s, exact),
           NEW i, \A j \in D : j \in Int /\ j <= i, NEW m \in 1..Len(s), i \in D => f[i] <= m,
           NEW D2, D2 = {j \in D \ {i} : f[j] < m}
    PROVE  \E g : Follows(g, D2, SubSeq(s, 1, m - 1), exact)
<1> DEFINE r == SubSeq(s, 1, m - 1)
           g == [j \in D2 |-> f[j]]
<1>1. Len(s) \in Nat /\ m - 1 \in 0..Len(s) /\ m \in Nat
  OBVIOUS
<1>2. Len(r) = m - 1 /\ \A d \in 1..m - 1 : r[d] = s[d]
  BY <1>1, HiddenOfParts
<1> HIDE DEF r
<1>3. \A j \in D : f[j] \in 1..Len(s)
  BY DEF Follows
<1>4. \A j \in D2 : j \in D /\ g[j] = f[j] /\ g[j] \in 1..m - 1
  BY <1>1, <1>3
<1>5. exact => \A d \in 1..m - 1 : \E j \in D2 : g[j] = d
  <2> SUFFICES ASSUME exact, NEW d \in 1..m - 1 PROVE \E j \in D2 : g[j] = d
    OBVIOUS
  <2>1. PICK j \in D : f[j] = d
    <3>1. d \in 1..Len(s)
      BY <1>1
    <3> QED BY <3>1 DEF Follows
  <2>2. d < m /\ d \in Int
    BY <1>1
  <2>3. j # i
    <3> SUFFICES ASSUME i \in D, f[i] = d PROVE FALSE
      BY <2>1
    <3>1. PICK x \in D : f[x] = Len(s)
      <4>1. Len(s) \in 1..Len(s)
        BY <1>1
      <4> QED BY <4>1 DEF Follows
    <3>2. x \in Int /\ i \in Int /\ x <= i
      BY <3>1
    <3>3. CASE x = i
      BY <1>1, <2>2, <3>1, <3>3
    <3>4. CASE x < i
      <4>1. f[x] < f[i]
        BY <3>4 DEF Follows
      <4> QED BY <1>1, <2>2, <3>1, <4>1
    <3> QED BY <3>2, <3>3, <3>4
  <2> QED BY <2>1, <2>2, <2>3
<1> HIDE DEF g
<1>7. \A j \in D2 : r[g[j]] = s[f[j]]
  BY <1>2, <1>4
<1>8. g \in [D2 -> 1..Len(r)]
  BY <1>2, <1>4 DEF g
<1>9. Follows(g, D2, r, exact)
  BY <1>2, <1>4, <1>5, <1>7, <1>8 DEF Follows
<1> QED BY <1>9 DEF r

\* Nothing hides where no frame is hidden, and the other way if there are no others.
LEMMA FollowsVisible ==
    ASSUME NEW T, NEW s \in Seq(T), NEW D, NEW f, NEW exact, Follows(f, D, s, exact)
    PROVE  /\ H!HiddenFrames(s) = 0 => \A i \in D : ~H!Hides(i)
           /\ exact /\ (\A i \in D : ~H!Hides(i)) => H!HiddenFrames(s) = 0
<1>1. H!HiddenFrames(s) = 0 <=> \A d \in 1..Len(s) : ~s[d].hidden
  BY HiddenFramesIs
<1>2. \A i \in D : f[i] \in 1..Len(s) /\ (s[f[i]].hidden <=> H!Hides(i))
  BY DEF Follows
<1>3. exact => \A d \in 1..Len(s) : \E i \in D : f[i] = d
  BY DEF Follows
<1> QED BY <1>1, <1>2, <1>3

\* The stack holds the elements open before c that are not forgotten: D of them, and
\* none that no tag of the page opened.
Kept(D, c) ==
    /\ D \subseteq OpenAt(c) \ H!Unopened
    /\ \A i \in OpenAt(c) \ D : H!Forgotten(i, c)

-----------------------------------------------------------------------------
HtmlTyped ==
    /\ html \in HtmlPage
    /\ cursor \in 1..Len(html) + 1
    /\ stack \in Seq(Frame) /\ Len(stack) <= MaximumNestingDepth
    /\ hiddenDepth = H!HiddenFrames(stack)
    /\ tagsVisited \in 0..MaximumTags + 1
    /\ outcome = "reading" => tagsVisited <= MaximumTags
    /\ outcome \in {"reading", "done", "failed"}
    /\ outcome = "done" => cursor = Len(html) + 1
    /\ collector \in Collected(Nat)
    /\ outcome # "failed" => Len(collector.out) <= MaximumOutput
    /\ \A i \in 1..Len(collector.out) : collector.out[i].id < cursor
StackIsOpen ==
    outcome = "reading" /\ H!WellNested /\ "open" \notin swallowed =>
        \E D, f : Kept(D, cursor) /\ Follows(f, D, stack, swallowed = {})
ReadIsShown ==
    H!WellNested /\ "open" \notin swallowed =>
        \A k \in H!Texts, i \in H!Elements :
            k \in H!Ids(collector) /\ H!Hides(i) /\ H!Within(k, i) => H!Forgotten(i, k)
ReadSoFar ==
    outcome \in {"reading", "done"} /\ H!WellNested /\ swallowed = {} =>
        \A k \in H!Texts : k < cursor /\ H!Shown(k) => k \in H!Ids(collector)
NoBoundarySince ==
    outcome = "reading" /\ H!WellNested /\ swallowed = {} /\ Len(collector.out) > 0 /\ collector.pending = "none" =>
        \A k \in collector.out[Len(collector.out)].id + 1..cursor - 1 : ~H!Boundary(k)
HtmlIInv ==
    /\ HtmlTyped /\ StackIsOpen
    /\ ReadIsShown /\ ReadSoFar
    /\ NoBoundarySince /\ H!BlocksKeptApart

LEMMA HtmlStays ==
    ASSUME html' = html
    PROVE  /\ H!WellNested' = H!WellNested
           /\ H!Texts' = H!Texts
           /\ \A k : H!Shown(k)' = H!Shown(k) /\ H!Boundary(k)' = H!Boundary(k)
           /\ \A k, i : H!Within(k, i)' = H!Within(k, i) /\ H!Hides(i)' = H!Hides(i)
           /\ H!Elements' = H!Elements /\ H!Unopened' = H!Unopened
           /\ \A i : H!Ends(i)' = H!Ends(i)
           /\ \A c : OpenAt(c)' = OpenAt(c)
<1>1. H!Elements' = H!Elements
  BY DEF H!Elements
<1>2. \A i : H!Ends(i)' = H!Ends(i)
  BY DEF H!Ends, H!Count
<1>3. \A i : H!Hides(i)' = H!Hides(i)
  BY DEF H!Hides
<1>4. H!WellNested' = H!WellNested
  BY <1>1, <1>2 DEF H!WellNested
<1>5. H!Texts' = H!Texts
  BY DEF H!Texts
<1>6. \A k, i : H!Within(k, i)' = H!Within(k, i)
  BY <1>2 DEF H!Within
<1>7. \A k : H!Shown(k)' = H!Shown(k)
  BY <1>1, <1>3, <1>6 DEF H!Shown
<1>8. \A k : H!Boundary(k)' = H!Boundary(k)
  BY <1>3, <1>7 DEF H!Boundary
<1>9. \A c : OpenAt(c)' = OpenAt(c)
  BY <1>1, <1>2 DEF OpenAt
<1>10. H!Unopened' = H!Unopened
  BY <1>1 DEF H!Unopened
<1> QED BY <1>1, <1>2, <1>3, <1>4, <1>5, <1>6, <1>7, <1>8, <1>9, <1>10

\* What is forgotten stays so, however far the reader is.
LEMMA ForgottenStays ==
    ASSUME html' = html, swallowed \subseteq swallowed'
    PROVE  \A i, k : H!Forgotten(i, k) => H!Forgotten(i, k)'
<1>1. /\ H!Elements' = H!Elements /\ H!Unopened' = H!Unopened
      /\ \A k, i : H!Within(k, i)' = H!Within(k, i)
      /\ \A i : H!Ends(i)' = H!Ends(i)
  BY HtmlStays
<1> QED BY <1>1 DEF H!Forgotten

LEMMA UnopenedEnds ==
    ASSUME html \in HtmlPage, H!WellNested, NEW s \in H!Unopened
    PROVE  s \in H!Elements /\ H!Min(H!Ends(s)) \in Int
BY EndOfElement DEF H!Unopened

LEMMA ForgottenLater ==
    ASSUME html \in HtmlPage, H!WellNested, NEW c \in Int, NEW d \in Int, c <= d, NEW i, H!Forgotten(i, c)
    PROVE  H!Forgotten(i, d)
<1>1. \A s \in H!Unopened : H!Min(H!Ends(s)) < c => H!Min(H!Ends(s)) < d
  BY UnopenedEnds
<1> QED BY <1>1 DEF H!Forgotten

LEMMA HtmlInit == H!Init => HtmlIInv
<1> SUFFICES ASSUME H!Init PROVE HtmlIInv
  OBVIOUS
<1> USE DEF H!Init
<1>1. Len(html) \in Nat
  BY MarkupTyped
<1>2. collector \in Collected(Nat) /\ collector.out = <<>> /\ Len(collector.out) = 0
  BY DEF H!Nothing, Collected, Separators
<1>3. stack \in Seq(Frame) /\ Len(stack) = 0 /\ H!HiddenFrames(stack) = 0
  <2>1. \A s \in Seq(Frame) : Len(s) = 0 => H!HiddenFrames(s) = 0
    <3> TAKE s \in Seq(Frame)
    <3>1. Len(s) = 0 => \A i \in 1..Len(s) : ~s[i].hidden
      OBVIOUS
    <3> QED BY <3>1, HiddenFramesIs
  <2>2. stack \in Seq(Frame) /\ Len(stack) = 0
    OBVIOUS
  <2> QED BY <2>1, <2>2
<1>4. HtmlTyped
  BY <1>1, <1>2, <1>3, LimitsOfHtml DEF HtmlTyped
<1>5. StackIsOpen
  <2> SUFFICES ASSUME H!WellNested PROVE \E D, f : Kept(D, 1) /\ Follows(f, D, stack, TRUE)
    BY DEF StackIsOpen
  <2>1. Kept({}, 1)
    BY EndOfElement DEF OpenAt, Kept
  <2>2. Follows([i \in {} |-> 0], {}, stack, TRUE)
    BY <1>3 DEF Follows
  <2> QED BY <2>1, <2>2
<1>6. H!Ids(collector) = {} /\ ~ \E i \in 2..Len(collector.out) : TRUE
  BY <1>2 DEF H!Ids
<1>7. \A k \in H!Texts : ~(k < cursor)
  BY MarkupTyped DEF H!Texts
<1>8. ReadIsShown /\ ReadSoFar /\ NoBoundarySince
  BY <1>2, <1>6, <1>7 DEF ReadIsShown, ReadSoFar, NoBoundarySince
<1>9. H!BlocksKeptApart
  BY <1>6 DEF H!BlocksKeptApart, H!Adjoined
<1> QED BY <1>4, <1>5, <1>8, <1>9 DEF HtmlIInv

\* What a step adds: nothing, or one chunk for the piece "at".
Collects(at) ==
    /\ collector' \in Collected(Nat)
    /\ \/ /\ collector'.out = collector.out
          /\ collector'.pending = "none" => collector.pending = "none"
       \/ \E due : /\ collector'.out = Append(collector.out, [id |-> at, after |-> due])
                   /\ due = "none" => collector.pending = "none"

LEMMA CollectedChunks ==
    ASSUME collector \in Collected(Nat), NEW at \in Nat, Collects(at)
    PROVE  LET n == Len(collector.out)
               m == Len(collector'.out)
           IN  /\ n \in Nat /\ m \in Nat
               /\ \/ m = n /\ collector'.out = collector.out
                  \/ m = n + 1 /\ collector'.out # collector.out
               /\ \A i \in 1..n : collector'.out[i] = collector.out[i]
               /\ m = n => (collector'.pending = "none" => collector.pending = "none")
               /\ m = n + 1 => /\ collector'.out[m].id = at
                               /\ collector'.out[m].after = "none" => collector.pending = "none"
               /\ H!Ids(collector)' = H!Ids(collector) \cup (IF m = n THEN {} ELSE {at})
<1>1. collector.out \in Seq([id : Nat, after : Separators]) /\ Len(collector.out) \in Nat
  BY DEF Collected
<1> DEFINE n == Len(collector.out)
<1>2. H!Ids(collector) = {collector.out[i].id : i \in 1..n}
  BY <1>1 DEF H!Ids
<1>3. H!Ids(collector)' = {collector'.out[i].id : i \in 1..Len(collector'.out)}
  BY DEF H!Ids, Collects, Collected
<1>4. CASE /\ collector'.out = collector.out
           /\ collector'.pending = "none" => collector.pending = "none"
  BY <1>1, <1>2, <1>3, <1>4
<1>5. ASSUME NEW due, collector'.out = Append(collector.out, [id |-> at, after |-> due]),
             due = "none" => collector.pending = "none"
      PROVE  /\ Len(collector'.out) = n + 1 /\ collector'.out # collector.out
             /\ \A i \in 1..n : collector'.out[i] = collector.out[i]
             /\ collector'.out[n + 1].id = at
             /\ collector'.out[n + 1].after = "none" => collector.pending = "none"
             /\ H!Ids(collector)' = H!Ids(collector) \cup {at}
  <2>1. /\ Len(collector'.out) = n + 1
        /\ \A i \in 1..n : collector'.out[i] = collector.out[i]
        /\ collector'.out[n + 1] = [id |-> at, after |-> due]
    BY <1>1, <1>5
  <2>2. \A i : i \in 1..n + 1 <=> i \in 1..n \/ i = n + 1
    BY <1>1
  <2>3. {collector'.out[i].id : i \in 1..n + 1} = {collector.out[i].id : i \in 1..n} \cup {at}
    <3>1. \A i \in 1..n : collector'.out[i].id = collector.out[i].id
      BY <2>1
    <3>2. collector'.out[n + 1].id = at
      BY <2>1
    <3> QED BY <2>2, <3>1, <3>2
  <2>4. Len(collector'.out) # Len(collector.out)
    BY <1>1, <2>1
  <2>5. collector'.out # collector.out
    BY <2>4
  <2> QED BY <1>2, <1>3, <1>5, <2>1, <2>3, <2>5
<1>6. CASE \E due : /\ collector'.out = Append(collector.out, [id |-> at, after |-> due])
                    /\ due = "none" => collector.pending = "none"
  <2>1. /\ Len(collector'.out) = n + 1 /\ collector'.out # collector.out
        /\ \A i \in 1..n : collector'.out[i] = collector.out[i]
        /\ collector'.out[n + 1].id = at
        /\ collector'.out[n + 1].after = "none" => collector.pending = "none"
        /\ H!Ids(collector)' = H!Ids(collector) \cup {at}
    BY <1>5, <1>6
  <2>2. Len(collector'.out) # n
    BY <1>1, <2>1
  <2> QED BY <1>1, <2>1, <2>2
<1> QED BY <1>4, <1>6 DEF Collects

\* What hides shows in the depth, unless it is forgotten.
LEMMA VisibleIf ==
    ASSUME HtmlTyped, StackIsOpen, outcome = "reading", H!WellNested
    PROVE  /\ "open" \notin swallowed /\ hiddenDepth = 0 =>
                 \A i \in OpenAt(cursor) : H!Hides(i) => H!Forgotten(i, cursor)
           /\ swallowed = {} /\ (\A i \in OpenAt(cursor) : ~H!Hides(i)) => hiddenDepth = 0
<1>1. stack \in Seq(Frame) /\ hiddenDepth = H!HiddenFrames(stack)
  BY DEF HtmlTyped
<1>2. "open" \notin swallowed => \E D, f : Kept(D, cursor) /\ Follows(f, D, stack, swallowed = {})
  BY DEF StackIsOpen
<1>3. ASSUME NEW D, NEW f, Kept(D, cursor), Follows(f, D, stack, swallowed = {})
      PROVE /\ hiddenDepth = 0 => \A i \in OpenAt(cursor) : H!Hides(i) => H!Forgotten(i, cursor)
            /\ swallowed = {} /\ (\A i \in OpenAt(cursor) : ~H!Hides(i)) => hiddenDepth = 0
  <2>1. /\ hiddenDepth = 0 => \A i \in D : ~H!Hides(i)
        /\ swallowed = {} /\ (\A i \in D : ~H!Hides(i)) => hiddenDepth = 0
    BY <1>1, <1>3, FollowsVisible
  <2> QED BY <1>3, <2>1 DEF Kept
<1> QED BY <1>2, <1>3

\* A step of the reader: from the pieces up to "at" it collects what "at" stands for.
Reads(at) ==
    /\ outcome = "reading" /\ html' = html
    /\ cursor \in 1..Len(html) /\ at \in cursor..Len(html) /\ cursor' = at + 1
    /\ Collects(at)
    /\ swallowed \subseteq swallowed' /\ (swallowed' = {} => at = cursor)
    /\ html[at].is = "text" => at = cursor
    /\ at \in H!Texts /\ collector'.out # collector.out => hiddenDepth = 0
ReadsShown ==
    H!WellNested /\ swallowed' = {} /\ cursor \in H!Texts /\ H!Shown(cursor) /\ outcome' = "reading" =>
        collector'.out # collector.out
Divides ==
    /\ H!WellNested /\ swallowed' = {} /\ outcome' = "reading" /\ H!Boundary(cursor)
    /\ collector'.out = collector.out /\ collector'.out # <<>>
    => collector'.pending # "none"
KeepsFrames ==
    /\ stack' \in Seq(Frame) /\ Len(stack') <= MaximumNestingDepth
    /\ hiddenDepth' = H!HiddenFrames(stack')
Ending ==
    /\ outcome' \in {"reading", "failed"}
    /\ outcome' = "reading" => Len(collector'.out) <= MaximumOutput
    /\ tagsVisited' \in 0..MaximumTags + 1
    /\ outcome' = "reading" => tagsVisited' <= MaximumTags

LEMMA HtmlStep ==
    ASSUME HtmlIInv, NEW at, Reads(at), ReadsShown, Divides, KeepsFrames, Ending, StackIsOpen'
    PROVE  HtmlIInv'
<1> USE DEF Reads
<1>1. HtmlTyped /\ html \in HtmlPage /\ Len(html) \in Nat /\ at \in Nat
      /\ collector \in Collected(Nat) /\ collector' \in Collected(Nat)
  BY MarkupTyped DEF HtmlIInv, HtmlTyped, Collects
<1> DEFINE n == Len(collector.out)
           m == Len(collector'.out)
<1>2. /\ n \in Nat /\ m \in Nat
      /\ \/ m = n /\ collector'.out = collector.out
         \/ m = n + 1 /\ collector'.out # collector.out
      /\ \A i \in 1..n : collector'.out[i] = collector.out[i]
      /\ m = n => (collector'.pending = "none" => collector.pending = "none")
      /\ m = n + 1 => /\ collector'.out[m].id = at
                      /\ collector'.out[m].after = "none" => collector.pending = "none"
      /\ H!Ids(collector)' = H!Ids(collector) \cup (IF m = n THEN {} ELSE {at})
  BY <1>1, CollectedChunks
<1> HIDE DEF n, m
<1>3. H!Ids(collector) = {collector.out[i].id : i \in 1..n} /\ H!Ids(collector)' = {collector'.out[i].id : i \in 1..m}
  <2>1. DOMAIN collector.out = 1..n /\ DOMAIN collector'.out = 1..m
    BY <1>1, ChunksTyped DEF n, m
  <2> QED BY <2>1 DEF H!Ids
<1>4. \A i \in 1..n : collector.out[i].id < cursor /\ collector.out[i].id \in Nat
  BY <1>1, ChunksTyped DEF HtmlTyped, n
<1>5. HtmlTyped'
  <2>1. cursor' \in 1..Len(html) + 1 /\ cursor \in Nat /\ cursor <= at /\ cursor' = at + 1
    BY <1>1
  <2>2. \A i \in 1..m : collector'.out[i].id < cursor'
    <3> TAKE i \in 1..m
    <3>1. CASE i \in 1..n
      <4>1. collector'.out[i].id < cursor /\ collector'.out[i].id \in Nat
        BY <1>2, <1>4, <3>1
      <4> QED BY <1>1, <2>1, <4>1
    <3>2. CASE i = m /\ m = n + 1
      BY <1>1, <1>2, <2>1, <3>2
    <3> QED BY <1>2, <3>1, <3>2
  <2>3. html' \in HtmlPage /\ cursor' \in 1..Len(html') + 1
    BY <1>1, <2>1
  <2>4. stack' \in Seq(Frame)' /\ Len(stack') <= MaximumNestingDepth /\ hiddenDepth' = H!HiddenFrames(stack)'
    BY DEF KeepsFrames, Frame, H!HiddenFrames
  <2>5. outcome' \in {"reading", "done", "failed"} /\ outcome' # "done" /\ tagsVisited' \in 0..MaximumTags + 1
        /\ (outcome' = "reading" => tagsVisited' <= MaximumTags)
        /\ (outcome' # "failed" => Len(collector'.out) <= MaximumOutput)
    BY DEF Ending
  <2> QED BY <1>1, <2>2, <2>3, <2>4, <2>5 DEF HtmlTyped, m
<1>6. /\ H!WellNested' = H!WellNested /\ H!Texts' = H!Texts
      /\ \A k : H!Shown(k)' = H!Shown(k) /\ H!Boundary(k)' = H!Boundary(k)
      /\ H!Elements' = H!Elements
      /\ \A k, i : H!Within(k, i)' = H!Within(k, i) /\ H!Hides(i)' = H!Hides(i)
  BY HtmlStays
<1>7. ReadIsShown'
  <2> SUFFICES ASSUME H!WellNested, "open" \notin swallowed', NEW k \in H!Texts, NEW i \in H!Elements,
                      k \in H!Ids(collector)', H!Hides(i), H!Within(k, i)
               PROVE H!Forgotten(i, k)
    <3>1. \A i_, k_ : H!Forgotten(i_, k_) => H!Forgotten(i_, k_)'
      BY ForgottenStays
    <3> QED BY <1>6, <3>1 DEF ReadIsShown
  <2>0. "open" \notin swallowed
    OBVIOUS
  <2>1. CASE k \in H!Ids(collector)
    BY <2>0, <2>1 DEF HtmlIInv, ReadIsShown
  <2>2. CASE k = at /\ m # n
    <3>1. k = cursor /\ html[k].is = "text" /\ hiddenDepth = 0
      BY <1>2, <2>2 DEF H!Texts
    <3>2. i \in OpenAt(cursor)
      BY <1>1, <3>1, ShownIf
    <3> QED BY <1>1, <2>0, <3>1, <3>2, VisibleIf DEF HtmlIInv
  <2> QED BY <1>2, <2>1, <2>2
<1>8. ReadSoFar'
  <2> SUFFICES ASSUME outcome' = "reading", H!WellNested, swallowed' = {}, NEW k \in H!Texts, k < cursor', H!Shown(k)
               PROVE k \in H!Ids(collector)'
    BY <1>6 DEF ReadSoFar, Ending
  <2>1. at = cursor /\ swallowed = {}
    OBVIOUS
  <2>2. k \in Nat
    BY <1>1, MarkupTyped DEF H!Texts
  <2>3. CASE k < cursor
    BY <1>2, <2>1, <2>3 DEF HtmlIInv, ReadSoFar
  <2>4. CASE k = cursor
    BY <1>2, <2>1, <2>4 DEF ReadsShown
  <2> QED BY <1>1, <2>1, <2>2, <2>3, <2>4
<1>9. NoBoundarySince'
  <2> SUFFICES ASSUME outcome' = "reading", H!WellNested, swallowed' = {}, m > 0, collector'.pending = "none",
                      NEW k \in collector'.out[m].id + 1..cursor' - 1
               PROVE ~H!Boundary(k)
    BY <1>6 DEF NoBoundarySince, m
  <2>1. at = cursor /\ swallowed = {}
    OBVIOUS
  <2>2. m = n
    BY <1>1, <1>2, <2>1
  <2>3. CASE k = cursor
    <3>1. collector'.out = collector.out /\ collector'.out # <<>>
      BY <1>1, <1>2, <2>2 DEF m
    <3> QED BY <2>3, <3>1 DEF Divides
  <2>4. CASE k < cursor
    <3>1. k \in collector.out[n].id + 1..cursor - 1 /\ n > 0 /\ collector.pending = "none"
      BY <1>1, <1>2, <1>4, <2>1, <2>2, <2>4
    <3> QED BY <2>1, <3>1 DEF HtmlIInv, NoBoundarySince, n
  <2>5. collector'.out[m].id \in Nat
    BY <1>1, <1>2, ChunksTyped DEF m
  <2> QED BY <1>1, <2>1, <2>3, <2>4, <2>5
<1>10. H!BlocksKeptApart'
  <2> SUFFICES ASSUME H!WellNested, swallowed' = {}, NEW a \in H!Texts, NEW b \in H!Texts, a < b,
                      H!Adjoined(collector', a, b), NEW k \in a..b
               PROVE ~H!Boundary(k)
    BY <1>6 DEF H!BlocksKeptApart, H!Adjoined
  <2>1. at = cursor /\ swallowed = {}
    OBVIOUS
  <2>2. PICK i \in 2..m : collector'.out[i - 1].id = a /\ collector'.out[i].id = b /\ collector'.out[i].after = "none"
    BY DEF H!Adjoined, m
  <2>3. CASE i \in 2..n
    <3>1. collector.out[i - 1].id = a /\ collector.out[i].id = b /\ collector.out[i].after = "none"
      BY <1>2, <2>2, <2>3
    <3>2. H!Adjoined(collector, a, b)
      BY <2>3, <3>1 DEF H!Adjoined, n
    <3> QED BY <2>1, <3>2 DEF HtmlIInv, H!BlocksKeptApart
  <2>4. CASE i = m /\ m = n + 1
    <3>1. b = cursor /\ collector.pending = "none" /\ n > 0
      BY <1>2, <2>1, <2>2, <2>4
    <3>2. collector.out[n].id = a
      BY <1>2, <2>2, <2>4, <3>1
    <3>3. CASE k \in a + 1..cursor - 1
      BY <2>1, <3>1, <3>2, <3>3 DEF HtmlIInv, NoBoundarySince, n
    <3>4. CASE k = a \/ k = b
      BY <3>4 DEF H!Texts, H!Boundary
    <3>5. a \in Nat /\ cursor \in Nat
      BY <1>1, MarkupTyped DEF H!Texts
    <3> QED BY <3>1, <3>3, <3>4, <3>5
  <2> QED BY <1>2, <2>3, <2>4
<1> QED BY <1>5, <1>7, <1>8, <1>9, <1>10 DEF HtmlIInv

-----------------------------------------------------------------------------
\* What an opening tag puts into the text: nothing, or the mark of a list item; where
\* a block, a line or a cell begins, something is due after the texts before it.
LEMMA IntroducedKeeps ==
    ASSUME NEW c \in Collected(Nat), NEW name, NEW at \in Nat
    PROVE  LET r == H!Introduced(name, at)
           IN  collector = c =>
                 /\ r \in Collected(Nat)
                 /\ \/ r.out = c.out /\ (r.pending = "none" => c.pending = "none")
                    \/ \E due : /\ r.out = Append(c.out, [id |-> at, after |-> due])
                                /\ due = "none" => c.pending = "none"
                 /\ name \in BLOCK_TAGS \cup CELL_TAGS \cup {"br"} /\ r.out # <<>> => r.pending # "none"
<1> SUFFICES ASSUME collector = c
             PROVE  LET r == H!Introduced(name, at)
                    IN  /\ r \in Collected(Nat)
                        /\ \/ r.out = c.out /\ (r.pending = "none" => c.pending = "none")
                           \/ \E due : /\ r.out = Append(c.out, [id |-> at, after |-> due])
                                       /\ due = "none" => c.pending = "none"
                        /\ name \in BLOCK_TAGS \cup CELL_TAGS \cup {"br"} /\ r.out # <<>> => r.pending # "none"
  OBVIOUS
<1> DEFINE lined == IF name = "br" \/ name \in BLOCK_TAGS THEN P!Line(c) ELSE c
           r == IF name = "li" THEN P!Text(lined, H!Mark, at)
                ELSE IF name \in CELL_TAGS THEN P!Space(lined)
                ELSE lined
<1>1. H!Introduced(name, at) = r
  BY SameCollector DEF H!Introduced
<1>2. /\ lined \in Collected(Nat) /\ lined.out = c.out
      /\ lined.pending = "none" => c.pending = "none"
      /\ (name = "br" \/ name \in BLOCK_TAGS) /\ c.out # <<>> => lined.pending # "none"
  BY LineKeeps
<1> HIDE DEF lined
<1>3. CASE name = "li"
  <2>1. ~H!Mark.blank /\ H!Mark.trail
    BY DEF H!Mark
  <2>2. PICK due \in Separators :
              /\ P!Text(lined, H!Mark, at) \in Collected(Nat)
              /\ P!Text(lined, H!Mark, at).out = Append(lined.out, [id |-> at, after |-> due])
              /\ due = "none" => lined.pending = "none"
              /\ H!Mark.trail => P!Text(lined, H!Mark, at).pending # "none"
    BY <1>2, <2>1, AddedText
  <2>3. r = P!Text(lined, H!Mark, at)
    BY <1>3
  <2> HIDE DEF r
  <2> QED BY <1>1, <1>2, <2>1, <2>2, <2>3
<1>4. CASE name # "li" /\ name \in CELL_TAGS
  <2>1. r = P!Space(lined)
    BY <1>4
  <2> HIDE DEF r
  <2> QED BY <1>1, <1>2, <2>1, SpaceKeeps
<1>5. CASE name # "li" /\ name \notin CELL_TAGS
  <2>1. r = lined
    BY <1>5
  <2> HIDE DEF r
  <2> QED BY <1>1, <1>2, <1>5, <2>1
<1> QED BY <1>3, <1>4, <1>5

\* The text of a piece: one chunk, unless it is blank.
LEMMA TextKeeps ==
    ASSUME NEW c \in Collected(Nat), NEW t, NEW at \in Nat
    PROVE  LET r == H!Text(c, t, at)
           IN  /\ r \in Collected(Nat)
               /\ \/ r.out = c.out /\ (r.pending = "none" => c.pending = "none")
                  \/ \E due : /\ r.out = Append(c.out, [id |-> at, after |-> due])
                              /\ due = "none" => c.pending = "none"
               /\ ~t.blank => r.out # c.out
<1>1. CASE t.blank
  BY <1>1, BlankText, SameCollector
<1>2. CASE ~t.blank
  <2>0. PICK due \in Separators :
              /\ P!Text(c, t, at) \in Collected(Nat)
              /\ P!Text(c, t, at).out = Append(c.out, [id |-> at, after |-> due])
              /\ due = "none" => c.pending = "none"
              /\ t.trail => P!Text(c, t, at).pending # "none"
    BY <1>2, AddedText
  <2>1. Append(c.out, [id |-> at, after |-> due]) # c.out
    <3>1. c.out \in Seq([id : Nat, after : Separators])
      BY DEF Collected
    <3>2. \A e : Len(Append(c.out, e)) = Len(c.out) + 1 /\ Len(c.out) \in Nat
      BY <3>1
    <3> QED BY <3>2
  <2> QED BY <1>2, <2>0, <2>1, SameCollector
<1> QED BY <1>1, <1>2

LEMMA TextCollects ==
    ASSUME collector \in Collected(Nat), NEW t, NEW at \in Nat, collector' = H!Text(collector, t, at)
    PROVE  Collects(at) /\ (~t.blank => collector'.out # collector.out)
<1> DEFINE r == H!Text(collector, t, at)
<1>1. /\ r \in Collected(Nat)
      /\ \/ r.out = collector.out /\ (r.pending = "none" => collector.pending = "none")
         \/ \E due : /\ r.out = Append(collector.out, [id |-> at, after |-> due])
                     /\ due = "none" => collector.pending = "none"
      /\ ~t.blank => r.out # collector.out
  BY TextKeeps
<1>2. collector' = r
  OBVIOUS
<1> HIDE DEF r
<1> QED BY <1>1, <1>2 DEF Collects

LEMMA StaysOpen ==
    ASSUME html' = html, swallowed \subseteq swallowed',
           outcome' = "reading" /\ H!WellNested /\ "open" \notin swallowed' =>
               \E D, f : Kept(D, cursor') /\ Follows(f, D, stack', swallowed' = {})
    PROVE  StackIsOpen'
<1>1. /\ H!WellNested' = H!WellNested
      /\ H!Unopened' = H!Unopened
      /\ \A i : H!Hides(i)' = H!Hides(i)
      /\ \A c : OpenAt(c)' = OpenAt(c)
  BY HtmlStays
<1>2. OpenAt(cursor)' = OpenAt(cursor')
  BY HtmlStays DEF OpenAt
<1>3. \A i, k : H!Forgotten(i, k) => H!Forgotten(i, k)'
  BY ForgottenStays
<1>4. \A i : H!Forgotten(i, cursor') => H!Forgotten(i, cursor)'
  BY ForgottenStays, HtmlStays DEF H!Forgotten
<1>5. \A D : Kept(D, cursor') => Kept(D, cursor)'
  BY <1>1, <1>2, <1>4 DEF Kept
<1>6. \A D, f : Follows(f, D, stack', swallowed' = {}) => Follows(f, D, stack, swallowed = {})'
  BY <1>1 DEF Follows
<1> QED BY <1>1, <1>5, <1>6 DEF StackIsOpen

\* A piece that opens and closes nothing leaves the frames, one that swallows a tag the
\* frames of what is open after it and others.
LEMMA KeptOn ==
    ASSUME HtmlTyped, StackIsOpen, outcome = "reading", H!WellNested, "open" \notin swallowed,
           OpenAt(cursor + 1) = OpenAt(cursor)
    PROVE  \E D, f : Kept(D, cursor + 1) /\ Follows(f, D, stack, swallowed = {})
<1>1. html \in HtmlPage /\ cursor \in Int /\ cursor + 1 \in Int /\ cursor <= cursor + 1
  BY MarkupTyped DEF HtmlTyped
<1>2. PICK D, f : Kept(D, cursor) /\ Follows(f, D, stack, swallowed = {})
  BY DEF StackIsOpen
<1>3. \A i : H!Forgotten(i, cursor) => H!Forgotten(i, cursor + 1)
  BY <1>1, ForgottenLater
<1>4. Kept(D, cursor + 1)
  BY <1>2, <1>3 DEF Kept
<1> QED BY <1>2, <1>4

LEMMA KeptFewer ==
    ASSUME HtmlTyped, StackIsOpen, outcome = "reading", H!WellNested, "open" \notin swallowed,
           NEW e \in cursor..Len(html), OpenAt(e + 1) \subseteq OpenAt(cursor)
    PROVE  \E D, f : Kept(D, e + 1) /\ Follows(f, D, stack, FALSE)
<1>1. html \in HtmlPage /\ cursor \in Int /\ e + 1 \in Int /\ cursor <= e + 1
  BY MarkupTyped DEF HtmlTyped
<1>2. PICK D, f : Kept(D, cursor) /\ Follows(f, D, stack, swallowed = {})
  BY DEF StackIsOpen
<1>3. \A i : H!Forgotten(i, cursor) => H!Forgotten(i, e + 1)
  BY <1>1, ForgottenLater
<1>4. Kept(D \cap OpenAt(e + 1), e + 1)
  BY <1>2, <1>3 DEF Kept
<1>5. \E g : Follows(g, D \cap OpenAt(e + 1), stack, FALSE)
  BY <1>2, FollowsFewer
<1> QED BY <1>4, <1>5

LEMMA StepReadText == ASSUME HtmlIInv, H!ReadText PROVE HtmlIInv'
<1> USE DEF H!ReadText, H!Reading, H!Collect
<1>1. HtmlTyped /\ StackIsOpen /\ html \in HtmlPage /\ Len(html) \in Nat /\ cursor \in 1..Len(html)
      /\ collector \in Collected(Nat) /\ outcome = "reading" /\ html[cursor].is = "text" /\ html' = html
      /\ swallowed' = swallowed /\ cursor' = cursor + 1
  BY MarkupTyped DEF HtmlIInv, HtmlTyped
<1>2. collector' = IF hiddenDepth = 0 THEN H!Text(collector, html[cursor], cursor) ELSE collector
  BY DEF H!Visible, H!Piece
<1>3. Collects(cursor)
  <2>1. CASE hiddenDepth = 0
    <3>1. collector' = H!Text(collector, html[cursor], cursor) /\ cursor \in Nat
      BY <1>1, <1>2, <2>1
    <3> QED BY <1>1, <3>1, TextCollects
  <2> QED BY <1>1, <1>2, <2>1 DEF Collects
<1>4. Reads(cursor)
  BY <1>1, <1>2, <1>3 DEF Reads
<1>5. ReadsShown
  <2> SUFFICES ASSUME H!WellNested, swallowed = {}, cursor \in H!Texts, H!Shown(cursor)
               PROVE collector'.out # collector.out
    BY <1>1 DEF ReadsShown
  <2>1. hiddenDepth = 0
    BY <1>1, ShownIf, VisibleIf
  <2>2. ~html[cursor].blank
    BY DEF H!Texts
  <2> QED BY <1>1, <1>2, <2>1, <2>2, TextKeeps
<1>6. Divides
  BY <1>1 DEF Divides, H!Boundary
<1>7. KeepsFrames
  BY <1>1 DEF KeepsFrames, HtmlTyped
<1>8. Ending
  <2>1. Len(collector'.out) \in Nat
    BY <1>3, ChunksTyped DEF Collects
  <2> QED BY <1>1, <2>1, LimitsOfHtml DEF Ending, HtmlTyped, H!Overflows
<1>9. StackIsOpen'
  <2> SUFFICES ASSUME H!WellNested, "open" \notin swallowed
               PROVE  \E D, f : Kept(D, cursor') /\ Follows(f, D, stack', swallowed' = {})
    BY <1>1, StaysOpen
  <2>1. OpenAt(cursor + 1) = OpenAt(cursor)
    BY <1>1, OpenAfterOther DEF H!Elements
  <2>2. \E D, f : Kept(D, cursor + 1) /\ Follows(f, D, stack, swallowed = {})
    BY <1>1, <2>1, KeptOn
  <2> QED BY <1>1, <2>2
<1> QED BY <1>3, <1>4, <1>5, <1>6, <1>7, <1>8, <1>9, HtmlStep

LEMMA StepReadComment == ASSUME HtmlIInv, H!ReadComment PROVE HtmlIInv'
<1> USE DEF H!ReadComment, H!Reading
<1>1. HtmlTyped /\ StackIsOpen /\ html \in HtmlPage /\ Len(html) \in Nat /\ cursor \in 1..Len(html)
      /\ collector \in Collected(Nat) /\ outcome = "reading" /\ html[cursor].is = "comment" /\ html' = html
      /\ swallowed' = swallowed /\ cursor' = cursor + 1 /\ collector' = collector
  BY MarkupTyped DEF HtmlIInv, HtmlTyped
<1>2. Reads(cursor) /\ ReadsShown /\ Divides
  BY <1>1 DEF Reads, Collects, ReadsShown, Divides, H!Texts, H!Boundary
<1>3. KeepsFrames /\ Ending
  BY <1>1 DEF KeepsFrames, Ending, HtmlTyped
<1>4. StackIsOpen'
  <2> SUFFICES ASSUME H!WellNested, "open" \notin swallowed
               PROVE  \E D, f : Kept(D, cursor') /\ Follows(f, D, stack', swallowed' = {})
    BY <1>1, StaysOpen
  <2>1. OpenAt(cursor + 1) = OpenAt(cursor)
    BY <1>1, OpenAfterOther DEF H!Elements
  <2>2. \E D, f : Kept(D, cursor + 1) /\ Follows(f, D, stack, swallowed = {})
    BY <1>1, <2>1, KeptOn
  <2> QED BY <1>1, <2>2
<1> QED BY <1>2, <1>3, <1>4, HtmlStep

\* An opening tag that ends at "at", as the reader takes it, and the frame it pushes.
LEMMA OpensStep ==
    ASSUME HtmlTyped, outcome = "reading", html' = html, NEW at \in cursor..Len(html), cursor \in 1..Len(html),
           html[at].is # "text",
           NEW name \in {html[i].name : i \in DOMAIN html}, NEW hiddenAttribute \in BOOLEAN, NEW selfClosing \in BOOLEAN,
           H!Opens(name, hiddenAttribute, selfClosing, at),
           swallowed \subseteq swallowed', swallowed' = {} => at = cursor
    PROVE  LET hidden == hiddenAttribute \/ name \in HIDDEN_CONTENT_TAGS
           IN  /\ Reads(at) /\ KeepsFrames /\ Ending
               /\ outcome' = "reading" => stack' = IF selfClosing THEN stack
                                                   ELSE Append(stack, [name |-> name, hidden |-> hidden])
               /\ hiddenDepth = 0 /\ ~hidden /\ name \in BLOCK_TAGS \cup CELL_TAGS \cup {"br"} /\ collector'.out # <<>> =>
                     collector'.pending # "none"
<1> DEFINE hidden == hiddenAttribute \/ name \in HIDDEN_CONTENT_TAGS
           frame == [name |-> name, hidden |-> hidden]
           collected == IF hiddenDepth = 0 /\ ~hidden THEN H!Introduced(name, at) ELSE collector
           ended == \/ tagsVisited = MaximumTags \/ H!Overflows(collected, MaximumOutput)
                    \/ ~selfClosing /\ Len(stack) = MaximumNestingDepth
<1>1. Len(html) \in Nat /\ at \in Nat /\ cursor \in Nat /\ collector \in Collected(Nat)
  BY MarkupTyped DEF HtmlTyped
<1>2. /\ tagsVisited' = tagsVisited + 1 /\ cursor' = at + 1 /\ collector' = collected
      /\ IF ended THEN outcome' = "failed" /\ UNCHANGED <<stack, hiddenDepth>>
         ELSE /\ outcome' = outcome
              /\ IF selfClosing THEN UNCHANGED <<stack, hiddenDepth>>
                 ELSE /\ stack' = Append(stack, frame)
                      /\ hiddenDepth' = IF hidden THEN hiddenDepth + 1 ELSE hiddenDepth
  BY DEF H!Opens, H!Visible
<1>3. /\ Collects(at)
      /\ hiddenDepth = 0 /\ ~hidden /\ name \in BLOCK_TAGS \cup CELL_TAGS \cup {"br"} /\ collector'.out # <<>> =>
            collector'.pending # "none"
  <2>1. CASE hiddenDepth = 0 /\ ~hidden
    <3> DEFINE r == H!Introduced(name, at)
    <3>1. /\ r \in Collected(Nat)
          /\ \/ r.out = collector.out /\ (r.pending = "none" => collector.pending = "none")
             \/ \E due : /\ r.out = Append(collector.out, [id |-> at, after |-> due])
                         /\ due = "none" => collector.pending = "none"
          /\ name \in BLOCK_TAGS \cup CELL_TAGS \cup {"br"} /\ r.out # <<>> => r.pending # "none"
      BY <1>1, IntroducedKeeps
    <3>2. collector' = r
      BY <1>2, <2>1
    <3> HIDE DEF r
    <3> QED BY <3>1, <3>2 DEF Collects
  <2>2. CASE ~(hiddenDepth = 0 /\ ~hidden)
    <3>1. collector' = collector
      BY <1>2, <2>2
    <3> QED BY <1>1, <2>2, <3>1 DEF Collects
  <2> QED BY <2>1, <2>2
<1>4. Reads(at)
  BY <1>1, <1>2, <1>3 DEF Reads, H!Texts
<1>5. Ending
  <2>1. Len(collector'.out) \in Nat
    BY <1>3, ChunksTyped DEF Collects
  <2>2. tagsVisited \in 0..MaximumTags
    BY DEF HtmlTyped
  <2> QED BY <1>2, <2>1, <2>2, LimitsOfHtml DEF Ending, H!Overflows
<1>6. KeepsFrames
  <2>1. stack \in Seq(Frame) /\ Len(stack) \in Nat /\ Len(stack) <= MaximumNestingDepth
        /\ hiddenDepth = H!HiddenFrames(stack)
    BY DEF HtmlTyped
  <2>2. CASE UNCHANGED <<stack, hiddenDepth>>
    BY <2>1, <2>2 DEF KeepsFrames
  <2>3. CASE /\ ~ended /\ ~selfClosing /\ stack' = Append(stack, frame)
             /\ hiddenDepth' = IF hidden THEN hiddenDepth + 1 ELSE hiddenDepth
    <3>1. frame \in Frame /\ (frame.hidden <=> hidden)
      BY DEF Frame
    <3> HIDE DEF frame, hidden
    <3>2. Append(stack, frame) \in Seq(Frame) /\ Len(Append(stack, frame)) = Len(stack) + 1
      BY <2>1, <3>1
    <3>3. H!HiddenFrames(Append(stack, frame)) = IF frame.hidden THEN H!HiddenFrames(stack) + 1 ELSE H!HiddenFrames(stack)
      BY <2>1, <3>1, HiddenOfAppend
    <3>4. Len(stack) # MaximumNestingDepth
      BY <2>3
    <3> QED BY <2>1, <2>3, <3>1, <3>2, <3>3, <3>4, LimitsOfHtml DEF KeepsFrames
  <2> HIDE DEF ended, collected, hidden, frame
  <2> QED BY <1>2, <2>2, <2>3
<1> QED BY <1>2, <1>3, <1>4, <1>5, <1>6

LEMMA StepReadOpen == ASSUME HtmlIInv, H!ReadOpen PROVE HtmlIInv'
<1> DEFINE name == html[cursor].name
           hidden == html[cursor].hidden \/ name \in HIDDEN_CONTENT_TAGS
           selfClosing == name \in VOID_TAGS \/ html[cursor].slash
<1>1. HtmlTyped /\ StackIsOpen /\ html \in HtmlPage /\ Len(html) \in Nat /\ cursor \in 1..Len(html)
      /\ DOMAIN html = 1..Len(html) /\ outcome = "reading" /\ html[cursor].is = "open" /\ html' = html
      /\ swallowed' = swallowed /\ ~html[cursor].long
  BY MarkupTyped DEF HtmlIInv, HtmlTyped, H!ReadOpen, H!Reading, H!Piece
<1>2. H!Opens(name, html[cursor].hidden, selfClosing, cursor)
  BY DEF H!ReadOpen, H!Piece
<1>3. html[cursor].hidden \in BOOLEAN /\ selfClosing \in BOOLEAN /\ name \in {html[i].name : i \in DOMAIN html}
      /\ cursor \in cursor..Len(html)
  BY <1>1, MarkupTyped
<1>4. /\ Reads(cursor) /\ KeepsFrames /\ Ending
      /\ outcome' = "reading" => stack' = IF selfClosing THEN stack ELSE Append(stack, [name |-> name, hidden |-> hidden])
      /\ hiddenDepth = 0 /\ ~hidden /\ name \in BLOCK_TAGS \cup CELL_TAGS \cup {"br"} /\ collector'.out # <<>> =>
            collector'.pending # "none"
  <2> HIDE DEF selfClosing
  <2> QED BY <1>1, <1>2, <1>3, OpensStep
<1>5. ReadsShown
  BY <1>1 DEF ReadsShown, H!Texts
<1>6. Divides
  <2> SUFFICES ASSUME H!WellNested, swallowed = {}, H!Boundary(cursor), collector'.out # <<>>
               PROVE collector'.pending # "none"
    BY <1>1 DEF Divides
  <2>1. H!Shown(cursor) /\ ~hidden /\ name \in BLOCK_TAGS \cup CELL_TAGS \cup {"br"}
    BY <1>1 DEF H!Boundary, H!Hides
  <2>2. hiddenDepth = 0
    BY <1>1, <2>1, ShownIf, VisibleIf
  <2> QED BY <1>4, <2>1, <2>2
<1>7. StackIsOpen'
  <2> SUFFICES ASSUME outcome' = "reading", H!WellNested, "open" \notin swallowed
               PROVE  \E D, f : Kept(D, cursor') /\ Follows(f, D, stack', swallowed = {})
    BY <1>1, StaysOpen
  <2>1. PICK D, f : Kept(D, cursor) /\ Follows(f, D, stack, swallowed = {})
    BY <1>1 DEF StackIsOpen
  <2>2. cursor' = cursor + 1 /\ cursor \in Int
    BY <1>1, <1>4 DEF Reads
  <2>3. CASE name \in VOID_TAGS
    <3>1. OpenAt(cursor + 1) = OpenAt(cursor)
      BY <1>1, <2>3, OpenAfterOther DEF H!Elements
    <3>2. stack' = stack
      BY <1>4, <2>3
    <3>3. \E D2, g : Kept(D2, cursor + 1) /\ Follows(g, D2, stack, swallowed = {})
      BY <1>1, <3>1, KeptOn
    <3> QED BY <2>2, <3>2, <3>3
  <2>4. CASE name \notin VOID_TAGS
    <3> DEFINE frame == [name |-> name, hidden |-> hidden]
    <3>1. cursor \in H!Elements /\ (cursor \in H!Unopened <=> html[cursor].slash)
      BY <1>1, <2>4 DEF H!Elements, H!Unopened
    <3>2. OpenAt(cursor + 1) = OpenAt(cursor) \cup {cursor} /\ \A i \in OpenAt(cursor) : i \in Int /\ i < cursor
      BY <1>1, <3>1, OpenAfterOpening
    <3>3. \A i : H!Forgotten(i, cursor) => H!Forgotten(i, cursor + 1)
      BY <1>1, <2>2, ForgottenLater
    <3>4. CASE html[cursor].slash
      <4>1. H!Forgotten(cursor, cursor + 1)
        BY <3>1, <3>4 DEF H!Forgotten
      <4>2. Kept(D, cursor + 1)
        BY <2>1, <3>2, <3>3, <4>1 DEF Kept
      <4>3. stack' = stack
        BY <1>4, <3>4
      <4> QED BY <2>1, <2>2, <4>2, <4>3
    <3>5. CASE ~html[cursor].slash
      <4>1. Kept(D \cup {cursor}, cursor + 1)
        BY <2>1, <3>1, <3>2, <3>3, <3>5 DEF Kept
      <4>2. frame \in Frame /\ frame.name = html[cursor].name /\ (frame.hidden <=> H!Hides(cursor))
        BY <1>3 DEF Frame, H!Hides
      <4>3. stack' = Append(stack, frame) /\ stack \in Seq(Frame)
        BY <1>1, <1>4, <2>4, <3>5 DEF HtmlTyped
      <4>4. \A i \in D : i \in Int /\ i < cursor
        BY <2>1, <3>2 DEF Kept
      <4> HIDE DEF frame, hidden
      <4>5. \E g : Follows(g, D \cup {cursor}, Append(stack, frame), swallowed = {})
        BY <2>1, <2>2, <4>2, <4>3, <4>4, FollowsPushed
      <4> QED BY <2>2, <4>1, <4>3, <4>5
    <3> QED BY <3>4, <3>5
  <2> QED BY <2>3, <2>4
<1> QED BY <1>4, <1>5, <1>6, <1>7, HtmlStep

\* What a "less" sign puts into the text if no end is near: one chunk, where it is shown.
LEMMA ReadAsTextStep ==
    ASSUME HtmlTyped, outcome = "reading", html' = html, cursor \in 1..Len(html), html[cursor].is # "text",
           swallowed \subseteq swallowed', H!ReadAsText
    PROVE  /\ Reads(cursor) /\ KeepsFrames /\ Ending /\ ReadsShown
           /\ hiddenDepth = 0 => collector'.out # collector.out
           /\ cursor' = cursor + 1 /\ stack' = stack /\ cursor \in Int
<1>1. /\ Len(html) \in Nat /\ collector \in Collected(Nat) /\ cursor \in Nat
      /\ collector' = IF hiddenDepth = 0 THEN H!Text(collector, H!Sign, cursor) ELSE collector
      /\ outcome' = IF H!Overflows(collector', MaximumOutput) THEN "failed" ELSE outcome
      /\ cursor' = cursor + 1
      /\ UNCHANGED <<html, stack, hiddenDepth, tagsVisited>>
  BY MarkupTyped DEF HtmlTyped, H!ReadAsText, H!Collect, H!Visible
<1>2. Collects(cursor) /\ (hiddenDepth = 0 => collector'.out # collector.out)
  <2>1. CASE hiddenDepth = 0
    <3>1. collector' = H!Text(collector, H!Sign, cursor) /\ ~H!Sign.blank
      BY <1>1, <2>1 DEF H!Sign
    <3> QED BY <1>1, <3>1, TextCollects
  <2> QED BY <1>1, <2>1 DEF Collects
<1>3. Reads(cursor)
  BY <1>1, <1>2 DEF Reads, H!Texts
<1>4. KeepsFrames
  BY <1>1 DEF KeepsFrames, HtmlTyped
<1>5. Ending
  <2>1. Len(collector'.out) \in Nat
    BY <1>2, ChunksTyped DEF Collects
  <2> QED BY <1>1, <2>1, LimitsOfHtml DEF Ending, HtmlTyped, H!Overflows
<1>6. ReadsShown
  BY DEF ReadsShown, H!Texts
<1> QED BY <1>1, <1>2, <1>3, <1>4, <1>5, <1>6

LEMMA StepReadLong == ASSUME HtmlIInv, H!ReadLong PROVE HtmlIInv'
<1>1. HtmlTyped /\ StackIsOpen /\ html \in HtmlPage /\ Len(html) \in Nat /\ cursor \in 1..Len(html)
      /\ outcome = "reading" /\ html[cursor].is \in {"open", "close"} /\ html[cursor].long /\ html' = html
      /\ swallowed' = swallowed \cup (IF html[cursor].is = "close" THEN {"close"} ELSE {})
      /\ H!ReadAsText
  BY MarkupTyped DEF HtmlIInv, HtmlTyped, H!ReadLong, H!Reading, H!Piece, H!ReadAsText
<1>2. /\ Reads(cursor) /\ KeepsFrames /\ Ending /\ ReadsShown
      /\ hiddenDepth = 0 => collector'.out # collector.out
      /\ cursor' = cursor + 1 /\ stack' = stack /\ cursor \in Int
  BY <1>1, ReadAsTextStep
<1>3. Divides
  <2> SUFFICES ASSUME H!WellNested, swallowed = {}, html[cursor].is = "open", H!Boundary(cursor)
               PROVE collector'.out # collector.out
    BY <1>1 DEF Divides
  <2>1. H!Shown(cursor)
    BY DEF H!Boundary
  <2> QED BY <1>1, <1>2, <2>1, ShownIf, VisibleIf
<1>4. StackIsOpen'
  <2> SUFFICES ASSUME H!WellNested, "open" \notin swallowed
               PROVE  \E D, f : Kept(D, cursor + 1) /\ Follows(f, D, stack, swallowed' = {})
    BY <1>1, <1>2, StaysOpen
  <2>1. CASE html[cursor].is = "close"
    <3>1. OpenAt(cursor + 1) \subseteq OpenAt(cursor)
      BY <1>1, <2>1, OpenAfterClosing
    <3>2. cursor \in cursor..Len(html)
      BY <1>1
    <3>4. \E D, f : Kept(D, cursor + 1) /\ Follows(f, D, stack, FALSE)
      BY <1>1, <3>1, <3>2, KeptFewer
    <3>3. (swallowed' = {}) = FALSE
      BY <1>1, <2>1
    <3> QED BY <3>3, <3>4
  <2>2. CASE html[cursor].is = "open" /\ cursor \notin H!Elements
    <3>1. OpenAt(cursor + 1) = OpenAt(cursor)
      BY <1>1, <2>2, OpenAfterOther
    <3>2. \E D, f : Kept(D, cursor + 1) /\ Follows(f, D, stack, swallowed = {})
      BY <1>1, <3>1, KeptOn
    <3> QED BY <1>1, <2>2, <3>2
  <2>3. CASE html[cursor].is = "open" /\ cursor \in H!Elements
    <3>1. PICK D, f : Kept(D, cursor) /\ Follows(f, D, stack, swallowed = {})
      BY <1>1 DEF StackIsOpen
    <3>2. OpenAt(cursor + 1) = OpenAt(cursor) \cup {cursor}
      BY <1>1, <2>3, OpenAfterOpening
    <3>3. \A i : H!Forgotten(i, cursor) => H!Forgotten(i, cursor + 1)
      BY <1>1, <1>2, ForgottenLater
    <3>4. H!Forgotten(cursor, cursor + 1)
      BY <1>1, <2>3 DEF H!Forgotten, H!Unopened
    <3>5. Kept(D, cursor + 1)
      BY <3>1, <3>2, <3>3, <3>4 DEF Kept
    <3> QED BY <1>1, <2>3, <3>1, <3>5
  <2> QED BY <1>1, <2>1, <2>2, <2>3
<1> QED BY <1>2, <1>3, <1>4, HtmlStep

\* Closing a frame: what is within goes with it, and the count of hidden ones.
LEMMA ClosedFrame ==
    ASSUME HtmlTyped, NEW name, H!CloseFrame(name)
    PROVE  /\ KeepsFrames
           /\ \A d \in 1..Len(stack) : stack[d].name = name =>
                 \E m \in 1..Len(stack) : d <= m /\ stack[m].name = name /\ stack' = SubSeq(stack, 1, m - 1)
           /\ (\A d \in 1..Len(stack) : stack[d].name # name) => stack' = stack
<1>1. stack \in Seq(Frame) /\ Len(stack) \in Nat /\ DOMAIN stack = 1..Len(stack) /\ Len(stack) <= MaximumNestingDepth
      /\ hiddenDepth = H!HiddenFrames(stack)
  BY DEF HtmlTyped
<1>2. H!Matching(name) \subseteq 1..Len(stack) /\ \A d \in 1..Len(stack) : stack[d].name = name <=> d \in H!Matching(name)
  BY <1>1 DEF H!Matching
<1>3. CASE H!Matching(name) = {}
  BY <1>1, <1>2, <1>3 DEF H!CloseFrame, KeepsFrames
<1>4. CASE H!Matching(name) # {}
  <2> DEFINE m == H!Max(H!Matching(name))
  <2>1. m \in 1..Len(stack) /\ m \in H!Matching(name) /\ \A d \in H!Matching(name) : d <= m
    BY <1>1, <1>2, <1>4, MaxOfSet
  <2>2. stack' = SubSeq(stack, 1, m - 1)
        /\ hiddenDepth' = hiddenDepth - H!HiddenFrames(SubSeq(stack, m - 1 + 1, Len(stack)))
    BY <1>4 DEF H!CloseFrame
  <2> HIDE DEF m
  <2>3. m - 1 \in 0..Len(stack)
    BY <1>1, <2>1
  <2>4. /\ SubSeq(stack, 1, m - 1) \in Seq(Frame) /\ Len(SubSeq(stack, 1, m - 1)) = m - 1
        /\ H!HiddenFrames(SubSeq(stack, 1, m - 1)) = H!HiddenFrames(stack) - H!HiddenFrames(SubSeq(stack, m - 1 + 1, Len(stack)))
    BY <1>1, <2>3, HiddenOfParts
  <2>5. KeepsFrames
    BY <1>1, <2>1, <2>2, <2>4, LimitsOfHtml DEF KeepsFrames
  <2> QED BY <1>2, <2>1, <2>2, <2>5
<1> QED BY <1>3, <1>4

LEMMA StepReadClose == ASSUME HtmlIInv, H!ReadClose PROVE HtmlIInv'
<1> DEFINE name == html[cursor].name
<1>1. HtmlTyped /\ StackIsOpen /\ html \in HtmlPage /\ Len(html) \in Nat /\ cursor \in 1..Len(html)
      /\ collector \in Collected(Nat) /\ outcome = "reading" /\ html[cursor].is = "close" /\ html' = html
      /\ swallowed' = swallowed /\ cursor' = cursor + 1 /\ tagsVisited' = tagsVisited + 1
      /\ tagsVisited \in 0..MaximumTags /\ MaximumTags \in Nat /\ cursor \in Int
  BY MarkupTyped, LimitsOfHtml DEF HtmlIInv, HtmlTyped, H!ReadClose, H!Reading
<1>2. \/ outcome' = "failed" /\ UNCHANGED <<stack, hiddenDepth, collector>>
      \/ /\ outcome' = outcome /\ tagsVisited # MaximumTags /\ H!CloseFrame(name)
         /\ collector' = IF H!CloseLines(name) THEN H!Line(collector) ELSE collector
  BY DEF H!ReadClose, H!Piece
<1>3. collector' = collector \/ collector' = P!Line(collector)
  BY <1>2, SameCollector
<1>4. Collects(cursor) /\ collector'.out = collector.out
  BY <1>1, <1>3, LineKeeps DEF Collects
<1>5. Reads(cursor)
  BY <1>1, <1>4 DEF Reads, H!Texts
<1>6. ReadsShown
  BY <1>1 DEF ReadsShown, H!Texts
<1>7. KeepsFrames
  BY <1>1, <1>2, ClosedFrame DEF KeepsFrames, HtmlTyped
<1>8. Ending
  BY <1>1, <1>2, <1>4 DEF Ending, HtmlTyped
<1>9. ASSUME outcome' = "reading", H!WellNested, "open" \notin swallowed
      PROVE  \E D, f : Kept(D, cursor') /\ Follows(f, D, stack', swallowed' = {})
  <2>1. PICK D, f : Kept(D, cursor) /\ Follows(f, D, stack, swallowed = {})
    BY <1>1, <1>9 DEF StackIsOpen
  <2>2. PICK i \in OpenAt(cursor) : /\ html[i].name = name
                                    /\ OpenAt(cursor + 1) = OpenAt(cursor) \ {i}
                                    /\ \A j \in OpenAt(cursor) : j <= i
                                    /\ cursor = H!Min(H!Ends(i))
    BY <1>1, <1>9, OpenAfterClosing
  <2>3. \A j \in OpenAt(cursor) : j \in Int /\ j < cursor /\ cursor <= H!Min(H!Ends(j)) /\ H!Min(H!Ends(j)) \in Int
                                  /\ j \in H!Elements
    BY <1>1, <1>9, EndOfElement DEF OpenAt
  <2>4. D \subseteq OpenAt(cursor) \ H!Unopened /\ \A j \in OpenAt(cursor) \ D : H!Forgotten(j, cursor)
    BY <2>1 DEF Kept
  <2>5. \A j : H!Forgotten(j, cursor) => H!Forgotten(j, cursor + 1)
    BY <1>1, <1>9, ForgottenLater
  <2>6. ASSUME NEW s \in H!Unopened, H!Within(s, i) \/ s = i, H!Min(H!Ends(s)) <= cursor,
               \/ swallowed # {}
               \/ \E d \in H!Elements \ H!Unopened : html[d].name = html[s].name /\ H!Within(s, d),
               NEW j \in OpenAt(cursor), j # i
        PROVE  H!Forgotten(j, cursor + 1)
    <3>1. j < i
      BY <2>2, <2>3, <2>6
    <3>2. s \in Int /\ H!Min(H!Ends(s)) < cursor + 1
      BY <1>1, <1>9, <2>6, UnopenedEnds, EndOfElement
    <3>3. H!Within(s, j)
      BY <1>1, <2>2, <2>3, <2>6, <3>1, <3>2 DEF H!Within
    <3> QED BY <2>6, <3>2, <3>3 DEF H!Forgotten
  <2>7. CASE stack' = stack /\ \A d \in 1..Len(stack) : stack[d].name # name
    <3>1. i \notin D
      BY <2>1, <2>2, <2>7 DEF Follows
    <3>2. Kept(D, cursor + 1)
      BY <2>2, <2>4, <2>5, <3>1 DEF Kept
    <3> QED BY <1>1, <2>1, <2>7, <3>2
  <2>8. ASSUME NEW m \in 1..Len(stack), stack[m].name = name, stack' = SubSeq(stack, 1, m - 1),
               i \in D => f[i] <= m
        PROVE  \E D2, g : Kept(D2, cursor + 1) /\ Follows(g, D2, stack', swallowed = {})
    <3> DEFINE D2 == {j \in D \ {i} : f[j] < m}
    <3>1. stack \in Seq(Frame) /\ Len(stack) \in Nat /\ \A j \in D : f[j] \in 1..Len(stack)
      BY <1>1, <2>1 DEF HtmlTyped, Follows
    <3>2. \A j \in D : j \in Int /\ j <= i
      BY <2>2, <2>3, <2>4
    <3>3. \E g : Follows(g, D2, SubSeq(stack, 1, m - 1), swallowed = {})
      <4>1. Follows(f, D, stack, swallowed = {})
        BY <2>1
      <4>2. stack \in Seq(Frame) /\ m \in 1..Len(stack) /\ (i \in D => f[i] <= m)
        BY <2>8, <3>1
      <4>3. D2 = {j \in D \ {i} : f[j] < m}
        OBVIOUS
      <4> HIDE DEF D2
      <4> QED BY <3>2, <4>1, <4>2, <4>3, FollowsPopped
    <3>4. ASSUME NEW j \in OpenAt(cursor + 1), j \notin D2 PROVE H!Forgotten(j, cursor + 1)
      <4>1. j \in OpenAt(cursor) /\ j # i
        BY <2>2
      <4>2. CASE j \notin D
        BY <2>4, <2>5, <4>1, <4>2
      <4>3. CASE j \in D
        <5>1. ~(f[j] < m)
          BY <3>4, <4>1, <4>3
        <5>2. i \notin D
          <6> SUFFICES ASSUME i \in D PROVE FALSE
            OBVIOUS
          <6>1. j < i
            BY <2>2, <2>3, <4>1
          <6>2. f[j] < f[i]
            BY <2>1, <4>3, <6>1 DEF Follows
          <6> QED BY <2>8, <3>1, <4>3, <5>1, <6>2
        <5>3. H!Forgotten(i, cursor)
          BY <2>4, <5>2
        <5>4. CASE i \in H!Unopened
          <6>1. \/ swallowed # {}
                \/ \E d \in H!Elements \ H!Unopened : html[d].name = html[i].name /\ H!Within(i, d)
            <7> SUFFICES ASSUME swallowed = {}
                         PROVE  \E d \in H!Elements \ H!Unopened : html[d].name = html[i].name /\ H!Within(i, d)
              OBVIOUS
            <7>1. PICK d \in D : f[d] = m
              BY <2>1, <2>8 DEF Follows
            <7>2. html[d].name = name /\ d \in OpenAt(cursor) /\ d \in H!Elements \ H!Unopened /\ d # i
              BY <2>1, <2>3, <2>4, <2>8, <5>2, <7>1 DEF Follows
            <7>3. H!Within(i, d)
              BY <1>1, <2>2, <2>3, <7>2 DEF H!Within
            <7> QED BY <2>2, <7>2, <7>3
          <6>2. H!Min(H!Ends(i)) <= cursor
            BY <1>1, <2>2
          <6> QED BY <2>6, <4>1, <5>4, <6>1, <6>2
        <5>5. CASE i \notin H!Unopened
          <6>1. PICK s \in H!Unopened :
                  /\ H!Within(s, i) /\ H!Min(H!Ends(s)) < cursor
                  /\ \/ swallowed # {}
                     \/ \E d \in H!Elements \ H!Unopened : html[d].name = html[s].name /\ H!Within(s, d)
            BY <5>3, <5>5 DEF H!Forgotten
          <6>2. H!Min(H!Ends(s)) <= cursor
            BY <1>1, <1>9, <6>1, UnopenedEnds
          <6> QED BY <2>6, <4>1, <6>1, <6>2
        <5> QED BY <5>4, <5>5
      <4> QED BY <4>2, <4>3
    <3>5. D2 \subseteq OpenAt(cursor + 1) \ H!Unopened
      BY <2>2, <2>4
    <3>6. Kept(D2, cursor + 1)
      <4> HIDE DEF D2
      <4> QED BY <3>4, <3>5 DEF Kept
    <3> QED BY <2>8, <3>3, <3>6
  <2>9. \/ stack' = stack /\ \A d \in 1..Len(stack) : stack[d].name # name
        \/ \E m \in 1..Len(stack) : /\ stack[m].name = name /\ stack' = SubSeq(stack, 1, m - 1)
                                    /\ i \in D => f[i] <= m
    <3>1. H!CloseFrame(name)
      BY <1>1, <1>2, <1>9
    <3>2. i \in D => f[i] \in 1..Len(stack) /\ stack[f[i]].name = name
      BY <2>1, <2>2 DEF Follows
    <3>3. CASE i \in D
      BY <1>1, <3>1, <3>2, <3>3, ClosedFrame
    <3>4. CASE i \notin D
      BY <1>1, <3>1, <3>4, ClosedFrame
    <3> QED BY <3>3, <3>4
  <2> QED BY <1>1, <2>7, <2>8, <2>9

<1>10. Divides
  <2> SUFFICES ASSUME H!WellNested, swallowed = {}, outcome' = "reading", H!Boundary(cursor), collector'.out # <<>>
               PROVE collector'.pending # "none"
    BY <1>1 DEF Divides
  <2>1. H!Shown(cursor) /\ name \in BLOCK_TAGS
    BY <1>1 DEF H!Boundary
  <2>2. \A i \in OpenAt(cursor + 1) : ~H!Hides(i)
    BY <1>1, <2>1, ShownIf
  <2>3. PICK D, f : Kept(D, cursor + 1) /\ Follows(f, D, stack', TRUE)
    BY <1>1, <1>9
  <2>4. hiddenDepth' = 0
    <3>1. \A i \in D : ~H!Hides(i)
      BY <2>2, <2>3 DEF Kept
    <3> QED BY <1>7, <2>3, <3>1, FollowsVisible DEF KeepsFrames
  <2>5. collector' = P!Line(collector)
    BY <1>1, <1>2, <2>1, <2>4, SameCollector DEF H!CloseLines
  <2> QED BY <1>1, <1>4, <2>5, LineKeeps
<1>11. StackIsOpen'
  BY <1>1, <1>9, StaysOpen
<1> QED BY <1>5, <1>6, <1>7, <1>8, <1>10, <1>11, HtmlStep

LEMMA StepReadLess == ASSUME HtmlIInv, H!ReadLess PROVE HtmlIInv'
<1> DEFINE end == H!Min(H!NextTags)
           name == html[cursor].name
           attribute == html[cursor].hidden \/ (html[end].is = "open" /\ html[end].hidden)
           selfClosing == html[end].is \in {"open", "close"} /\ html[end].slash
<1>1. HtmlTyped /\ StackIsOpen /\ html \in HtmlPage /\ Len(html) \in Nat /\ cursor \in 1..Len(html)
      /\ DOMAIN html = 1..Len(html)
      /\ collector \in Collected(Nat) /\ outcome = "reading" /\ html[cursor].is = "less" /\ html' = html
  BY MarkupTyped DEF HtmlIInv, HtmlTyped, H!ReadLess, H!Reading, H!ReadAsText
<1>2. \/ H!ReadAsText /\ swallowed' = swallowed
      \/ /\ H!NextTags # {} /\ swallowed' = swallowed \cup {html[end].is}
         /\ name = "" /\ cursor' = end + 1
         /\ UNCHANGED <<stack, hiddenDepth, tagsVisited, collector, outcome>>
      \/ /\ H!NextTags # {} /\ swallowed' = swallowed \cup {html[end].is}
         /\ H!Opens(name, attribute, selfClosing, end)
  BY DEF H!ReadLess, H!Piece
<1>3. ReadsShown /\ Divides
  <2>1. cursor \notin H!Texts /\ ~H!Boundary(cursor)
    BY <1>1 DEF H!Texts, H!Boundary
  <2> QED BY <2>1 DEF ReadsShown, Divides
<1>4. CASE H!ReadAsText /\ swallowed' = swallowed
  <2>1. /\ Reads(cursor) /\ KeepsFrames /\ Ending
        /\ cursor' = cursor + 1 /\ stack' = stack /\ cursor \in Int
    BY <1>1, <1>4, ReadAsTextStep
  <2>2. StackIsOpen'
    <3> SUFFICES ASSUME H!WellNested, "open" \notin swallowed
                 PROVE  \E D, f : Kept(D, cursor') /\ Follows(f, D, stack', swallowed' = {})
      BY <1>1, <1>4, StaysOpen
    <3>1. OpenAt(cursor + 1) = OpenAt(cursor)
      BY <1>1, OpenAfterOther DEF H!Elements
    <3>2. \E D, f : Kept(D, cursor + 1) /\ Follows(f, D, stack, swallowed = {})
      BY <1>1, <3>1, KeptOn
    <3> QED BY <1>4, <2>1, <3>2
  <2> QED BY <1>3, <2>1, <2>2, HtmlStep
<1>5. ASSUME H!NextTags # {}, swallowed' = swallowed \cup {html[end].is}
      PROVE  /\ end \in cursor + 1..Len(html) /\ html[end].is \in {"open", "close", "comment"}
             /\ swallowed \subseteq swallowed' /\ swallowed' # {}
             /\ H!WellNested /\ "open" \notin swallowed' =>
                   /\ "open" \notin swallowed
                   /\ OpenAt(end + 1) \subseteq OpenAt(cursor)
  <2>1. H!NextTags \subseteq Nat
    BY <1>1 DEF H!NextTags
  <2>2. end \in H!NextTags /\ \A i \in H!NextTags : end <= i
    BY <1>5, <2>1, MinOfSet
  <2> HIDE DEF end
  <2>3. end \in cursor + 1..Len(html) /\ html[end].is \in {"open", "close", "comment"}
    BY <2>2 DEF H!NextTags
  <2>4. ASSUME H!WellNested, "open" \notin swallowed' PROVE OpenAt(end + 1) \subseteq OpenAt(cursor)
    <3>1. html[end].is # "open"
      BY <1>5, <2>4
    <3>2. \A k \in cursor..end : html[k].is # "open"
      <4> SUFFICES ASSUME NEW k \in cursor..end, html[k].is = "open" PROVE FALSE
        OBVIOUS
      <4>1. k # cursor /\ k # end
        BY <1>1, <3>1
      <4>2. k \in H!NextTags /\ k < end
        BY <1>1, <2>3, <4>1 DEF H!NextTags
      <4> QED BY <1>1, <2>2, <2>3, <4>2
    <3>3. end \in 1..Len(html) /\ cursor <= end
      BY <1>1, <2>3
    <3> QED BY <1>1, <2>4, <3>2, <3>3, OpenAfterSwallowed
  <2> QED BY <1>5, <2>3, <2>4
<1> HIDE DEF end
\* The frames that are left when a tag is swallowed, whatever is pushed.
<1>6. ASSUME H!NextTags # {}, swallowed' = swallowed \cup {html[end].is}, H!WellNested, "open" \notin swallowed'
      PROVE  /\ \E D, f : Kept(D, end + 1) /\ Follows(f, D, stack, FALSE)
             /\ (swallowed' = {}) = FALSE
  <2>1. end \in cursor + 1..Len(html) /\ OpenAt(end + 1) \subseteq OpenAt(cursor) /\ "open" \notin swallowed
        /\ swallowed' # {}
    BY <1>5, <1>6
  <2>2. end \in cursor..Len(html)
    BY <1>1, <2>1
  <2> QED BY <1>1, <1>6, <2>1, <2>2, KeptFewer
<1>7. CASE /\ H!NextTags # {} /\ swallowed' = swallowed \cup {html[end].is}
           /\ name = "" /\ cursor' = end + 1
           /\ UNCHANGED <<stack, hiddenDepth, tagsVisited, collector, outcome>>
  <2>0. end \in cursor + 1..Len(html) /\ html[end].is \in {"open", "close", "comment"}
    BY <1>5, <1>7
  <2>1. end \in cursor..Len(html) /\ html[end].is # "text"
    BY <1>1, <2>0
  <2>2. Reads(end)
    BY <1>1, <1>5, <1>7, <2>1 DEF Reads, Collects, H!Texts
  <2>3. KeepsFrames /\ Ending
    BY <1>1, <1>7 DEF KeepsFrames, Ending, HtmlTyped
  <2>4. StackIsOpen'
    BY <1>1, <1>6, <1>7, StaysOpen
  <2> QED BY <1>3, <2>2, <2>3, <2>4, HtmlStep
<1>8. CASE /\ H!NextTags # {} /\ swallowed' = swallowed \cup {html[end].is}
           /\ H!Opens(name, attribute, selfClosing, end)
  <2> DEFINE hidden == attribute \/ name \in HIDDEN_CONTENT_TAGS
  <2>1. end \in cursor..Len(html) /\ html[end].is # "text" /\ end \in 1..Len(html)
    BY <1>1, <1>5, <1>8
  <2>2. attribute \in BOOLEAN /\ selfClosing \in BOOLEAN /\ name \in {html[i].name : i \in DOMAIN html}
    BY <1>1, <2>1, MarkupTyped
  <2>3. swallowed \subseteq swallowed' /\ (swallowed' = {} => end = cursor)
    BY <1>5, <1>8
  <2>4. /\ Reads(end) /\ KeepsFrames /\ Ending
        /\ outcome' = "reading" => stack' = IF selfClosing THEN stack
                                            ELSE Append(stack, [name |-> name, hidden |-> hidden])
    <3> HIDE DEF attribute, name, selfClosing
    <3> QED BY <1>1, <1>8, <2>1, <2>2, <2>3, OpensStep
  <2>5. StackIsOpen'
    <3> DEFINE frame == [name |-> name, hidden |-> hidden]
    <3> SUFFICES ASSUME H!WellNested, "open" \notin swallowed', outcome' = "reading"
                 PROVE  \E D, f : Kept(D, cursor') /\ Follows(f, D, stack', swallowed' = {})
      BY <1>1, <2>3, StaysOpen
    <3>1. PICK D, f : Kept(D, end + 1) /\ Follows(f, D, stack, FALSE)
      BY <1>6, <1>8
    <3>2. (swallowed' = {}) = FALSE /\ cursor' = end + 1
      BY <1>6, <1>8, <2>4 DEF Reads
    <3>3. CASE selfClosing
      BY <2>4, <3>1, <3>2, <3>3
    <3>4. CASE ~selfClosing
      <4>1. frame \in Frame /\ stack \in Seq(Frame)
        BY <1>1, <2>2 DEF Frame, HtmlTyped
      <4>2. stack' = Append(stack, frame)
        BY <2>4, <3>4
      <4> HIDE DEF frame
      <4>3. Follows(f, D, Append(stack, frame), FALSE)
        BY <3>1, <4>1, FollowsOther
      <4> QED BY <3>1, <3>2, <4>2, <4>3
    <3> QED BY <3>3, <3>4
  <2> QED BY <1>3, <2>4, <2>5, HtmlStep
<1> QED BY <1>2, <1>4, <1>7, <1>8

LEMMA StepHtmlFinish == ASSUME HtmlIInv, H!Finish PROVE HtmlIInv'
<1>1. HtmlTyped /\ outcome = "reading" /\ outcome' = "done" /\ cursor = Len(html) + 1
      /\ UNCHANGED <<html, cursor, stack, hiddenDepth, tagsVisited, collector, swallowed>>
  BY DEF HtmlIInv, H!Finish
<1>2. HtmlTyped'
  BY <1>1 DEF HtmlTyped, Frame, H!HiddenFrames
<1>3. StackIsOpen' /\ NoBoundarySince'
  BY <1>1 DEF StackIsOpen, NoBoundarySince
<1>4. ReadIsShown' /\ ReadSoFar' /\ H!BlocksKeptApart'
  BY <1>1, HtmlStays, ForgottenStays DEF HtmlIInv, ReadIsShown, ReadSoFar, H!BlocksKeptApart, H!Ids, H!Adjoined
<1> QED BY <1>2, <1>3, <1>4 DEF HtmlIInv

LEMMA HtmlStutter ==
    ASSUME HtmlIInv, UNCHANGED <<html, cursor, stack, hiddenDepth, tagsVisited, collector, outcome, swallowed>>
    PROVE  HtmlIInv'
<1>1. HtmlTyped'
  BY DEF HtmlIInv, HtmlTyped, Frame, H!HiddenFrames
<1>2. StackIsOpen'
  BY StaysOpen DEF HtmlIInv, StackIsOpen
<1>3. ReadIsShown' /\ ReadSoFar' /\ H!BlocksKeptApart' /\ NoBoundarySince'
  BY HtmlStays, ForgottenStays
     DEF HtmlIInv, ReadIsShown, ReadSoFar, NoBoundarySince, H!BlocksKeptApart, H!Ids, H!Adjoined
<1> QED BY <1>1, <1>2, <1>3 DEF HtmlIInv

LEMMA HtmlHolds == HtmlIInv => H!HtmlInv
<1> SUFFICES ASSUME HtmlIInv PROVE H!HtmlInv
  OBVIOUS
<1>1. HtmlTyped /\ html \in HtmlPage /\ Len(html) \in Nat /\ DOMAIN html = 1..Len(html)
  BY MarkupTyped DEF HtmlIInv, HtmlTyped
<1>2. H!TypeOK
  <2>1. hiddenDepth \in 0..Len(stack)
    BY <1>1, HiddenFramesIs DEF HtmlTyped
  <2>2. outcome # "failed" => ~H!Overflows(collector, MaximumOutput)
    BY <1>1, ChunksTyped, LimitsOfHtml DEF HtmlTyped, H!Overflows
  <2> QED BY <1>1, <2>1, <2>2 DEF HtmlTyped, H!TypeOK
<1>3. H!DepthIsTrue
  BY <1>1 DEF HtmlTyped, H!DepthIsTrue
<1>4. H!ShownIsRead
  <2>1. ASSUME H!WellNested, swallowed \cap {"open"} = {}
        PROVE  \A k \in H!Texts, i \in H!Elements :
                  k \in H!Ids(collector) /\ H!Hides(i) /\ H!Within(k, i) => H!Forgotten(i, k)
    <3>1. "open" \notin swallowed
      BY <2>1
    <3> QED BY <2>1, <3>1 DEF HtmlIInv, ReadIsShown
  <2>2. ASSUME H!WellNested, swallowed = {}, NEW k \in H!Texts, outcome = "done", H!Shown(k)
        PROVE  k \in H!Ids(collector)
    <3>1. k < cursor
      BY <1>1, <2>2 DEF HtmlTyped, H!Texts
    <3> QED BY <2>2, <3>1 DEF HtmlIInv, ReadSoFar
  <2> QED BY <2>1, <2>2 DEF H!ShownIsRead
<1> QED BY <1>2, <1>3, <1>4 DEF HtmlIInv, H!HtmlInv

HtmlPart == stage = "html" => HtmlIInv

LEMMA HtmlNext == HtmlPart /\ [PartNext]_all => HtmlPart'
<1> SUFFICES ASSUME HtmlPart, [PartNext]_all PROVE HtmlPart'
  OBVIOUS
<1>1. CASE UNCHANGED all
  BY <1>1, HtmlStutter DEF HtmlPart, all, htmlOnly, alike
<1>2. ASSUME Reviewing \/ ReadingPdf \/ Parsing PROVE HtmlPart'
  BY <1>2 DEF Reviewing, ReadingPdf, Parsing, HtmlPart
<1>3. ASSUME ReadingHtml,
             H!ReadText \/ H!ReadComment \/ H!ReadOpen \/ H!ReadLong \/ H!ReadClose \/ H!ReadLess \/ H!Finish
      PROVE HtmlPart'
  <2>1. stage = "html" /\ stage' = "html"
    BY <1>3 DEF ReadingHtml
  <2>2. HtmlIInv
    BY <2>1 DEF HtmlPart
  <2>3. HtmlIInv'
    BY <1>3, <2>2, StepReadText, StepReadComment, StepReadOpen, StepReadLong, StepReadClose, StepReadLess, StepHtmlFinish
  <2> QED BY <2>3 DEF HtmlPart
<1>4. CASE PartNext
  BY <1>2, <1>3, <1>4, Zenon DEF PartNext
<1> QED BY <1>1, <1>4

\* HtmlText: whatever the page, the count of hidden elements is that of the stack, and
\* of a well nested page what is shown is read, hidden text only within an element the
\* reader forgot (for one that ended in "/>" or was too long), and its blocks are not
\* run together.
THEOREM HtmlIsReadAsShown == PartSpec => []HtmlInv
<1>1. PartInit => HtmlPart
  BY HtmlInit DEF PartInit, HtmlPart
<1>2. HtmlPart /\ [PartNext]_all => HtmlPart'
  BY HtmlNext
<1>3. HtmlPart => HtmlInv
  BY HtmlHolds DEF HtmlPart, HtmlInv
<1> QED BY <1>1, <1>2, <1>3, PTL DEF PartSpec
=============================================================================
