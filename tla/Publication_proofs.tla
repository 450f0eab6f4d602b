-------------------------- MODULE Publication_proofs ---------------------------
(***************************************************************************)
(* Proofs about Publication, for every number of submissions, requests and *)
(* reviewers, and every resemblance of names and marks; and about the      *)
(* imports beside it (CatalogueImport), for every set of names and any     *)
(* number of transactions.                                                 *)
(***************************************************************************)
EXTENDS MCPublication, TLAPS

\* ReadsStillHold, of one publication.
Fits(r) ==
    r.pc \notin {"idle", "lock"} =>
        /\ r.pc # "find" => r.submission \in approved /\ submission[r.submission] # "DUPLICATE"
        /\ r.pc \notin {"find", "prior"} => r.submission \notin record
        /\ r.pc \notin {"find", "prior", "review", "pending"} =>
              \A f \in Field : revision[r.submission][f] # "PENDING"
        /\ r.pc \in {"domain", "create", "commit"} =>
              /\ revision[r.submission]["duplicate_candidates"] = "NONE"
              /\ r.seen \subseteq record
              /\ \A t \in r.seen : ~Alike(content[r.submission], content[t])

Contributions ==
    /\ SubmittedFirst /\ ReviewsExist
    /\ DuplicateIsUnpublished /\ DoubtedIsUnpublished /\ PublishedWasReviewed /\ TwinsOverlapped

LEMMA InvParts ==
    PublicationInv <=>
        TypeOK /\ Contributions /\ PublicationsAreSerial /\ \A p \in Publisher : Fits(publisher[p])
BY DEF PublicationInv, Contributions, ReadsStillHold, Fits, InTransaction

LEMMA InvPartsNext ==
    PublicationInv' <=>
        (TypeOK /\ Contributions /\ PublicationsAreSerial /\ \A p \in Publisher : Fits(publisher[p]))'
BY InvParts, PTL

LEMMA IdleParts == Idle.pc = "idle" /\ Fits(Idle)
BY DEF Idle, Fits

LEMMA OpenPublication ==
    ASSUME PublicationInv, NEW p \in Publisher, publisher[p].pc # "idle"
    PROVE  /\ publisher[p] \in Publishing /\ publisher[p].submission \in Submission
           /\ Fits(publisher[p])
           /\ InTransaction(p) =>
                 \A q \in Publisher \ {p} :
                    InTransaction(q) => publisher[q].submission # publisher[p].submission
<1>1. publisher[p] \in Publishing
  BY IdleParts DEF PublicationInv, TypeOK
<1> QED BY <1>1, InvParts DEF Publishing, PublicationInv, PublicationsAreSerial

-----------------------------------------------------------------------------
(* Steps of one publication that write nothing.                             *)

LEMMA PublisherFrame ==
    ASSUME PublicationInv, NEW p \in Publisher, NEW new \in {Idle} \cup Publishing,
           publisher' = [publisher EXCEPT ![p] = new],
           UNCHANGED <<contribution, catalogue, reviewer, approved>>,
           Fits(new),
           new.pc \notin {"idle", "lock"} =>
              \A q \in Publisher \ {p} : InTransaction(q) => publisher[q].submission # new.submission
    PROVE  PublicationInv'
<1>1. \A q \in Publisher : publisher'[q] = IF q = p THEN new ELSE publisher[q]
  BY DEF PublicationInv, TypeOK
<1>2. TypeOK'
  BY DEF PublicationInv, TypeOK, contribution, catalogue
<1>3. Contributions'
  BY DEF PublicationInv, Contributions, SubmittedFirst, ReviewsExist, DuplicateIsUnpublished,
         DoubtedIsUnpublished, PublishedWasReviewed, TwinsOverlapped, contribution, catalogue
<1>4. PublicationsAreSerial'
  BY <1>1 DEF PublicationInv, PublicationsAreSerial, InTransaction
<1>5. \A r : Fits(r)' <=> Fits(r)
  BY DEF Fits, contribution, catalogue
<1>6. (\A q \in Publisher : Fits(publisher[q]))'
  <2> SUFFICES ASSUME NEW q \in Publisher
               PROVE  Fits(publisher[q])'
    OBVIOUS
  <2>1. PICK r : r = publisher'[q]
    OBVIOUS
  <2>2. Fits(r)'
    BY <1>1, <1>5, <2>1, InvParts
  <2> QED BY <2>1, <2>2 DEF Fits
<1> QED BY <1>2, <1>3, <1>4, <1>6, InvPartsNext

LEMMA FinishPreserves ==
    ASSUME PublicationInv, NEW p \in Publisher, Finish(p),
           UNCHANGED <<contribution, catalogue, reviewer, approved>>
    PROVE  PublicationInv'
BY PublisherFrame, IdleParts DEF Finish

LEMMA RequestPreserves ==
    ASSUME PublicationInv, NEW p \in Publisher, NEW s \in Submission, Request(p, s)
    PROVE  PublicationInv'
<1> DEFINE new == [pc |-> "lock", submission |-> s, seen |-> {}]
<1>1. new \in Publishing
  BY DEF Publishing
<1>2. Fits(new)
  BY DEF Fits
<1> QED BY <1>1, <1>2, PublisherFrame DEF Request

\* A move to pc inside the transaction.
LEMMA GotoPreserves ==
    ASSUME PublicationInv, NEW p \in Publisher, InTransaction(p),
           NEW pc \in {"prior", "review", "pending", "duplicates", "create", "commit"}, Goto(p, pc),
           UNCHANGED <<contribution, catalogue, reviewer, approved>>,
           Fits([publisher[p] EXCEPT !.pc = pc])
    PROVE  PublicationInv'
<1> DEFINE new == [publisher[p] EXCEPT !.pc = pc]
<1>1. publisher[p].pc # "idle"
  BY DEF InTransaction
<1>2. new \in Publishing /\ new.submission = publisher[p].submission
  BY <1>1, OpenPublication DEF Publishing
<1>3. publisher' = [publisher EXCEPT ![p] = new]
  BY DEF Goto
<1>4. \A q \in Publisher \ {p} : InTransaction(q) => publisher[q].submission # new.submission
  BY <1>1, <1>2, OpenPublication
<1> HIDE DEF new
<1>5. Fits(new)
  BY DEF new
<1> QED BY <1>2, <1>3, <1>4, <1>5, PublisherFrame

LEMMA LockPreserves ==
    ASSUME PublicationInv, NEW p \in Publisher, Lock(p)
    PROVE  PublicationInv'
<1> DEFINE new == [publisher[p] EXCEPT !.pc = "find"]
<1>1. publisher[p].pc = "lock"
  BY DEF Lock
<1>2. new \in Publishing /\ new.pc = "find" /\ new.submission = publisher[p].submission
  BY <1>1, OpenPublication DEF Publishing
<1>3. publisher' = [publisher EXCEPT ![p] = new]
  BY DEF Lock, Goto
<1>4. \A q \in Publisher \ {p} : InTransaction(q) => publisher[q].submission # new.submission
  BY <1>2 DEF Lock, LockFree
<1>5. UNCHANGED <<contribution, catalogue, reviewer, approved>>
  BY DEF Lock
<1>6. Fits(new)
  BY <1>2 DEF Fits
<1> HIDE DEF new
<1> QED BY <1>2, <1>3, <1>4, <1>5, <1>6, PublisherFrame

LEMMA CheckPreserves ==
    ASSUME PublicationInv, NEW p \in Publisher,
           \/ FindApproved(p) \/ PriorPublication(p) \/ FindReview(p) \/ CountPending(p)
           \/ CreateRecord(p)
    PROVE  PublicationInv'
<1> DEFINE s == publisher[p].submission
<1>1. publisher[p].pc \in {"find", "prior", "review", "pending", "create"}
  BY DEF FindApproved, PriorPublication, FindReview, CountPending, CreateRecord, Check
<1>2. InTransaction(p)
  BY <1>1 DEF InTransaction
<1>3. publisher[p] \in Publishing /\ s \in Submission /\ Fits(publisher[p])
  BY <1>1, OpenPublication
<1>4. UNCHANGED <<contribution, catalogue, reviewer, approved>>
  BY DEF FindApproved, PriorPublication, FindReview, CountPending, CreateRecord, Check
<1>5. CASE Finish(p)
  BY <1>4, <1>5, FinishPreserves
<1>6. ASSUME NEW pc \in {"prior", "review", "pending", "duplicates", "commit"}, Goto(p, pc),
             LET new == [publisher[p] EXCEPT !.pc = pc] IN Fits(new)
      PROVE  PublicationInv'
  BY <1>2, <1>4, <1>6, GotoPreserves
<1>7. ASSUME NEW pc \in {"prior", "review", "pending", "duplicates", "commit"}
      PROVE  LET new == [publisher[p] EXCEPT !.pc = pc]
             IN  new.pc = pc /\ new.submission = s /\ new.seen = publisher[p].seen
  BY <1>3 DEF Publishing
<1>8. CASE FindApproved(p)
  <2>1. submission[s] = "APPROVED" => s \in approved
    BY <1>3 DEF PublicationInv, SubmittedFirst
  <2> QED BY <1>5, <1>6, <1>7, <1>8, <2>1 DEF FindApproved, Check, Fits
<1>9. CASE PriorPublication(p)
  BY <1>3, <1>5, <1>6, <1>7, <1>9 DEF PriorPublication, Check, Fits
<1>10. CASE FindReview(p)
  BY <1>3, <1>5, <1>6, <1>7, <1>10 DEF FindReview, Check, Fits
<1>11. CASE CountPending(p)
  BY <1>3, <1>5, <1>6, <1>7, <1>11 DEF CountPending, Check, Fits
<1>12. CASE CreateRecord(p)
  BY <1>3, <1>5, <1>6, <1>7, <1>12 DEF CreateRecord, Check, Fits
<1> QED BY <1>8, <1>9, <1>10, <1>11, <1>12

LEMMA FindDuplicatesPreserves ==
    ASSUME PublicationInv, NEW p \in Publisher, FindDuplicates(p)
    PROVE  PublicationInv'
<1> DEFINE s == publisher[p].submission
           c == content[s]
           pc == IF Candidates(c) # {} THEN "duplicate"
                 ELSE IF c.domain = NoDomain THEN "create" ELSE "domain"
           new == [publisher[p] EXCEPT !.seen = record, !.pc = pc]
<1>1. publisher[p].pc = "duplicates" /\ InTransaction(p)
  BY DEF FindDuplicates, InTransaction
<1>2. publisher[p] \in Publishing /\ s \in Submission /\ Fits(publisher[p])
  BY <1>1, OpenPublication
<1>3. record \subseteq Submission
  BY DEF PublicationInv, TypeOK
<1>4. new \in Publishing /\ new.submission = s /\ new.seen = record /\ new.pc = pc
  BY <1>2, <1>3 DEF Publishing
<1>5. publisher' = [publisher EXCEPT ![p] = new]
  BY <1>1, <1>2 DEF FindDuplicates, PublicationInv, TypeOK, Publishing
<1>6. UNCHANGED <<contribution, catalogue, reviewer, approved>>
  BY DEF FindDuplicates
<1>7. pc # "duplicate" => Candidates(c) = {}
  OBVIOUS
<1>8. Candidates(c) = {} => /\ \A t \in record : ~Alike(content[s], content[t])
                            /\ revision[s]["duplicate_candidates"] = "NONE"
  BY <1>2 DEF Candidates, PublicationInv, SubmittedFirst
<1>9. Fits(new)
  <2>1. pc \in {"duplicate", "create", "domain"}
    OBVIOUS
  <2> HIDE DEF pc, new
  <2> QED BY <1>1, <1>2, <1>4, <1>7, <1>8, <2>1 DEF Fits
<1>10. \A q \in Publisher \ {p} : InTransaction(q) => publisher[q].submission # new.submission
  BY <1>1, <1>4, OpenPublication
<1> HIDE DEF new
<1> QED BY <1>4, <1>5, <1>6, <1>9, <1>10, PublisherFrame

LEMMA UpsertPreserves ==
    ASSUME PublicationInv, NEW p \in Publisher, UpsertDomain(p)
    PROVE  PublicationInv'
<1>1. publisher[p].pc = "domain" /\ InTransaction(p)
  BY DEF UpsertDomain, InTransaction
<1>2. publisher[p] \in Publishing /\ Fits(publisher[p])
  BY <1>1, OpenPublication
<1>3. Fits([publisher[p] EXCEPT !.pc = "create"])
  BY <1>1, <1>2 DEF Fits, Publishing
<1> QED BY <1>1, <1>3, GotoPreserves DEF UpsertDomain

-----------------------------------------------------------------------------
(* Steps that write.                                                        *)

LEMMA MarkPreserves ==
    ASSUME PublicationInv, NEW p \in Publisher, MarkDuplicate(p)
    PROVE  PublicationInv'
<1> DEFINE s == publisher[p].submission
<1>1. publisher[p].pc = "duplicate" /\ InTransaction(p)
  BY DEF MarkDuplicate, InTransaction
<1>2. publisher[p] \in Publishing /\ s \in Submission /\ Fits(publisher[p])
  BY <1>1, OpenPublication
<1>3. s \notin record /\ s \in approved
  BY <1>1, <1>2 DEF Fits
<1>4. \A q \in Publisher : publisher'[q] = IF q = p THEN Idle ELSE publisher[q]
  BY DEF MarkDuplicate, Finish, PublicationInv, TypeOK
<1>5. TypeOK'
  BY <1>2 DEF MarkDuplicate, Finish, PublicationInv, TypeOK, catalogue
<1>6. \A t \in Submission : submission'[t] = IF t = s THEN "DUPLICATE" ELSE submission[t]
  BY DEF MarkDuplicate, PublicationInv, TypeOK
<1>7. UNCHANGED <<content, revision, record, domains, missed, reviewer, approved>>
  BY DEF MarkDuplicate, catalogue
<1>8. Contributions'
  BY <1>3, <1>6, <1>7 DEF PublicationInv, Contributions, SubmittedFirst, ReviewsExist,
     DuplicateIsUnpublished, DoubtedIsUnpublished, PublishedWasReviewed, TwinsOverlapped
<1>9. PublicationsAreSerial'
  BY <1>4, IdleParts DEF PublicationInv, PublicationsAreSerial, InTransaction
<1>10. (\A q \in Publisher : Fits(publisher[q]))'
  <2> SUFFICES ASSUME NEW q \in Publisher
               PROVE  Fits(publisher[q])'
    OBVIOUS
  <2>1. CASE q = p
    BY <1>4, <2>1, IdleParts DEF Fits
  <2>2. CASE q # p
    <3>1. PICK r \in {Idle} \cup Publishing : r = publisher[q] /\ r = publisher'[q]
      BY <1>4, <2>2 DEF PublicationInv, TypeOK
    <3>2. Fits(r)
      BY <3>1, InvParts
    <3>3. r.pc \notin {"idle", "lock"} => r.submission # s /\ r.submission \in Submission
      BY <1>1, <2>2, <3>1, OpenPublication DEF InTransaction
    <3>4. Fits(r)'
      BY <1>6, <1>7, <3>2, <3>3 DEF Fits
    <3> QED BY <3>1, <3>4 DEF Fits
  <2> QED BY <2>1, <2>2
<1> QED BY <1>5, <1>8, <1>9, <1>10, InvPartsNext
LEMMA AlikeSymmetric == \A c, d : Alike(c, d) => Alike(d, c)
BY DEF Alike

LEMMA RecordPreserves ==
    ASSUME PublicationInv, NEW p \in Publisher, RecordPublication(p)
    PROVE  PublicationInv'
<1> DEFINE s == publisher[p].submission
<1>1. publisher[p].pc = "commit" /\ InTransaction(p)
  BY DEF RecordPublication, InTransaction
<1>2. publisher[p] \in Publishing /\ s \in Submission /\ Fits(publisher[p])
  BY <1>1, OpenPublication
<1>3. /\ s \in approved /\ submission[s] # "DUPLICATE" /\ s \notin record
      /\ \A f \in Field : revision[s][f] # "PENDING"
      /\ revision[s]["duplicate_candidates"] = "NONE"
      /\ \A t \in publisher[p].seen : ~Alike(content[s], content[t])
  BY <1>1, <1>2 DEF Fits
<1>4. \A q \in Publisher : publisher'[q] = IF q = p THEN Idle ELSE publisher[q]
  BY DEF RecordPublication, Finish, PublicationInv, TypeOK
<1>5. record' = record \cup {s} /\ record \subseteq Submission
  BY DEF RecordPublication, PublicationInv, TypeOK
<1>6. \A t \in Submission : missed'[t] = IF t = s THEN record \ publisher[p].seen ELSE missed[t]
  BY DEF RecordPublication, PublicationInv, TypeOK
<1>7. UNCHANGED <<content, submission, revision, reviewer, approved>>
  BY DEF RecordPublication, contribution
<1>8. TypeOK'
  <2>1. content[s].domain \in Domain \cup {NoDomain}
    BY <1>2, <1>3 DEF PublicationInv, SubmittedFirst, Content
  <2>2. domains' \subseteq Domain
    BY <2>1 DEF RecordPublication, PublicationInv, TypeOK
  <2>3. publisher' \in [Publisher -> {Idle} \cup Publishing]
    BY DEF RecordPublication, Finish, PublicationInv, TypeOK
  <2>4. missed' \in [Submission -> SUBSET Submission]
    BY <1>2 DEF RecordPublication, PublicationInv, TypeOK
  <2> QED BY <1>2, <1>5, <1>7, <2>2, <2>3, <2>4 DEF PublicationInv, TypeOK
<1>9. Contributions'
  <2>1. (SubmittedFirst /\ ReviewsExist)'
    BY <1>5, <1>7 DEF PublicationInv, SubmittedFirst, ReviewsExist
  <2>2. (DuplicateIsUnpublished /\ DoubtedIsUnpublished /\ PublishedWasReviewed)'
    BY <1>3, <1>5, <1>7 DEF PublicationInv, DuplicateIsUnpublished, DoubtedIsUnpublished,
       PublishedWasReviewed
  <2>3. TwinsOverlapped'
    BY <1>2, <1>3, <1>5, <1>6, <1>7, AlikeSymmetric DEF PublicationInv, TwinsOverlapped, Alike
  <2> QED BY <2>1, <2>2, <2>3 DEF Contributions
<1>10. PublicationsAreSerial'
  BY <1>4, IdleParts DEF PublicationInv, PublicationsAreSerial, InTransaction
<1>11. (\A q \in Publisher : Fits(publisher[q]))'
  <2> SUFFICES ASSUME NEW q \in Publisher
               PROVE  Fits(publisher[q])'
    OBVIOUS
  <2>1. CASE q = p
    BY <1>4, <2>1, IdleParts DEF Fits
  <2>2. CASE q # p
    <3>1. PICK r \in {Idle} \cup Publishing : r = publisher[q] /\ r = publisher'[q]
      BY <1>4, <2>2 DEF PublicationInv, TypeOK
    <3>2. Fits(r)
      BY <3>1, InvParts
    <3>3. r.pc \notin {"idle", "lock"} => r.submission # s
      BY <1>1, <2>2, <3>1, OpenPublication DEF InTransaction
    <3>4. Fits(r)'
      BY <1>5, <1>7, <3>2, <3>3 DEF Fits
    <3> QED BY <3>1, <3>4 DEF Fits
  <2> QED BY <2>1, <2>2
<1> QED BY <1>8, <1>9, <1>10, <1>11, InvPartsNext

\* A step that leaves the requests alone keeps what publications have read if it
\* changes only what they do not rely on.
LEMMA PublicationsKept ==
    ASSUME PublicationInv, UNCHANGED <<publisher, record>>,
           approved \subseteq approved',
           \A s \in Submission : s \in approved =>
              /\ submission'[s] = "DUPLICATE" => submission[s] = "DUPLICATE"
              /\ \A f \in Field : revision'[s][f] \in {"PENDING", "NONE"} =>
                    revision'[s][f] = revision[s][f]
              /\ revision[s]["duplicate_candidates"] = "NONE" =>
                    revision'[s]["duplicate_candidates"] = "NONE"
              /\ content'[s] = content[s],
           \A s \in record : content'[s] = content[s]
    PROVE  PublicationsAreSerial' /\ (\A p \in Publisher : Fits(publisher[p]))'
<1>1. PublicationsAreSerial'
  BY DEF PublicationInv, PublicationsAreSerial, InTransaction
<1>2. ASSUME NEW p \in Publisher
      PROVE  Fits(publisher[p])'
  <2>1. PICK r \in {Idle} \cup Publishing : r = publisher[p]
    BY DEF PublicationInv, TypeOK
  <2>2. Fits(r)
    BY <2>1, InvParts
  <2>3. r.pc \notin {"idle", "lock"} => r.submission \in Submission
    BY <2>1, OpenPublication
  <2>4. Fits(r)'
    BY <2>1, <2>2, <2>3 DEF Fits
  <2> QED BY <2>1, <2>4 DEF Fits
<1> QED BY <1>1, <1>2

LEMMA CreatePreserves ==
    ASSUME PublicationInv, NEW s \in Submission, NEW c \in Content, CreateSubmission(s, c)
    PROVE  PublicationInv'
<1>1. /\ submission[s] = "NONE" /\ s \notin approved /\ s \notin record
      /\ \A f \in Field : revision[s][f] = "NONE"
  BY DEF CreateSubmission, PublicationInv, SubmittedFirst, PublishedWasReviewed
<1>2. UNCHANGED <<record, domains, missed, publisher, reviewer, approved>>
  BY DEF CreateSubmission, catalogue
<1>3. \A t \in Submission :
         /\ content'[t] = IF t = s THEN c ELSE content[t]
         /\ submission'[t] = IF t = s THEN "PENDING" ELSE submission[t]
         /\ t # s => revision'[t] = revision[t]
  BY DEF CreateSubmission, PublicationInv, TypeOK
<1>4. \A f \in Field : revision'[s][f] =
         IF f = "duplicate_candidates" /\ Candidates(c) = {} THEN "NONE" ELSE "PENDING"
  BY DEF CreateSubmission, PublicationInv, TypeOK
<1>5. TypeOK'
  BY <1>2 DEF CreateSubmission, PublicationInv, TypeOK
<1>6. record \subseteq Submission /\ "duplicate_candidates" \in Field
  BY DEF PublicationInv, TypeOK, Field
<1>7. SubmittedFirst'
  <2> SUFFICES ASSUME NEW t \in Submission
               PROVE  /\ submission'[t] = "NONE" =>
                            t \notin approved' /\ \A f \in Field : revision'[t][f] = "NONE"
                      /\ submission'[t] # "NONE" => content'[t] \in Content
                      /\ submission'[t] = "APPROVED" => t \in approved'
                      /\ revision'[t]["duplicate_candidates"] # "NONE" =>
                            \E u \in record' : u # t /\ Alike(content'[t], content'[u])
    BY DEF SubmittedFirst, Alike
  <2>1. CASE t = s
    <3>1. Candidates(c) # {} => \E u \in record : u # s /\ Alike(c, content[u])
      BY <1>1 DEF Candidates
    <3> QED BY <1>2, <1>3, <1>4, <1>6, <2>1, <3>1
  <2>2. CASE t # s
    <3>1. /\ submission[t] = "NONE" =>
                t \notin approved /\ \A f \in Field : revision[t][f] = "NONE"
          /\ submission[t] # "NONE" => content[t] \in Content
          /\ submission[t] = "APPROVED" => t \in approved
          /\ revision[t]["duplicate_candidates"] # "NONE" =>
                \E u \in record : u # t /\ Alike(content[t], content[u])
      BY DEF PublicationInv, SubmittedFirst
    <3> QED BY <1>1, <1>2, <1>3, <1>6, <2>2, <3>1
  <2> QED BY <2>1, <2>2
<1>8. ReviewsExist'
  <2>1. \A v \in Reviewer : reviewer[v] # Idle =>
           reviewer[v].submission \in Submission /\ reviewer[v].field \in Field
    BY DEF PublicationInv, TypeOK, Reviewing
  <2> QED BY <1>1, <1>2, <1>3, <2>1 DEF PublicationInv, ReviewsExist
<1>9. (DuplicateIsUnpublished /\ DoubtedIsUnpublished /\ PublishedWasReviewed)'
  BY <1>1, <1>2, <1>3, <1>6 DEF PublicationInv, DuplicateIsUnpublished, DoubtedIsUnpublished,
     PublishedWasReviewed
<1>10. TwinsOverlapped'
  BY <1>1, <1>2, <1>3, <1>6 DEF PublicationInv, TwinsOverlapped, Alike
<1>11. PublicationsAreSerial' /\ (\A p \in Publisher : Fits(publisher[p]))'
  BY <1>1, <1>2, <1>3, <1>6, PublicationsKept
<1> QED BY <1>5, <1>7, <1>8, <1>9, <1>10, <1>11, InvPartsNext DEF Contributions

LEMMA DecidePreserves ==
    ASSUME PublicationInv, NEW v \in Reviewer, Decide(v)
    PROVE  PublicationInv'
<1> DEFINE s == reviewer[v].submission
           f == reviewer[v].field
           d == reviewer[v].decision
<1>1. s \in Submission /\ f \in Field /\ d \in {"APPROVED", "REJECTED"} /\ revision[s][f] # "NONE"
  BY DEF Decide, PublicationInv, TypeOK, Reviewing, ReviewsExist
<1>2. submission[s] # "NONE"
  BY <1>1 DEF PublicationInv, SubmittedFirst
<1>3. UNCHANGED <<content, record, domains, missed, publisher>>
  BY DEF Decide, catalogue
<1>4. \A t \in Submission, g \in Field :
         revision'[t][g] = IF t = s /\ g = f THEN d ELSE revision[t][g]
  BY <1>1 DEF Decide, PublicationInv, TypeOK
<1>5. \A t \in Submission :
         submission'[t] = IF t = s /\ f = "submissionReview" THEN d ELSE submission[t]
  BY <1>1 DEF Decide, PublicationInv, TypeOK
<1>6. approved \subseteq approved' /\ approved' \subseteq approved \cup {s}
      /\ (f = "submissionReview" /\ d = "APPROVED" => s \in approved')
  BY DEF Decide
<1>7. \A w \in Reviewer : reviewer'[w] = IF w = v THEN Idle ELSE reviewer[w]
  BY DEF Decide, PublicationInv, TypeOK
<1>8. TypeOK'
  <2>1. submission' \in [Submission -> {"NONE", "PENDING", "APPROVED", "REJECTED", "DUPLICATE"}]
    BY <1>1 DEF Decide, PublicationInv, TypeOK
  <2>2. revision' \in [Submission -> [Field -> {"NONE", "PENDING", "APPROVED", "REJECTED"}]]
    BY <1>1 DEF Decide, PublicationInv, TypeOK
  <2>3. reviewer' \in [Reviewer -> {Idle} \cup Reviewing]
    BY DEF Decide, PublicationInv, TypeOK
  <2> QED BY <1>1, <1>3, <1>6, <2>1, <2>2, <2>3 DEF PublicationInv, TypeOK
<1>9. record \subseteq Submission /\ record \subseteq approved /\ "duplicate_candidates" \in Field
  BY DEF PublicationInv, TypeOK, PublishedWasReviewed, Field
<1>10. f = "duplicate_candidates" => s \notin record
  BY <1>1 DEF PublicationInv, DoubtedIsUnpublished
<1>11. SubmittedFirst'
  <2> SUFFICES ASSUME NEW t \in Submission
               PROVE  /\ submission'[t] = "NONE" =>
                            t \notin approved' /\ \A g \in Field : revision'[t][g] = "NONE"
                      /\ submission'[t] # "NONE" => content'[t] \in Content
                      /\ submission'[t] = "APPROVED" => t \in approved'
                      /\ revision'[t]["duplicate_candidates"] # "NONE" =>
                            \E u \in record' : u # t /\ Alike(content'[t], content'[u])
    BY DEF SubmittedFirst, Alike
  <2>1. /\ submission[t] = "NONE" =>
              t \notin approved /\ \A g \in Field : revision[t][g] = "NONE"
        /\ submission[t] # "NONE" => content[t] \in Content
        /\ submission[t] = "APPROVED" => t \in approved
        /\ revision[t]["duplicate_candidates"] # "NONE" =>
              \E u \in record : u # t /\ Alike(content[t], content[u])
    BY DEF PublicationInv, SubmittedFirst
  <2> QED BY <1>1, <1>2, <1>3, <1>4, <1>5, <1>6, <1>9, <2>1
<1>12. ReviewsExist'
  <2>1. \A w \in Reviewer : reviewer[w] # Idle =>
           reviewer[w].submission \in Submission /\ reviewer[w].field \in Field
    BY DEF PublicationInv, TypeOK, Reviewing
  <2> QED BY <1>1, <1>4, <1>7, <2>1 DEF PublicationInv, ReviewsExist
<1>13. (DuplicateIsUnpublished /\ DoubtedIsUnpublished /\ PublishedWasReviewed)'
  BY <1>1, <1>3, <1>4, <1>5, <1>6, <1>9, <1>10 DEF PublicationInv, DuplicateIsUnpublished,
     DoubtedIsUnpublished, PublishedWasReviewed
<1>14. TwinsOverlapped'
  BY <1>3 DEF PublicationInv, TwinsOverlapped
<1>15. PublicationsAreSerial' /\ (\A p \in Publisher : Fits(publisher[p]))'
  BY <1>1, <1>3, <1>4, <1>5, <1>6, <1>9, PublicationsKept
<1> QED BY <1>8, <1>11, <1>12, <1>13, <1>14, <1>15, InvPartsNext DEF Contributions

\* Reviewers that start or give up.
LEMMA ReviewerPreserves ==
    ASSUME PublicationInv, NEW v \in Reviewer, NEW s \in Submission, NEW f \in Field,
           FindRevision(v, s, f) \/ AbortReview(v)
    PROVE  PublicationInv'
<1>1. UNCHANGED <<contribution, catalogue, publisher, approved>>
  BY DEF FindRevision, AbortReview
<1>2. PICK r \in {Idle} \cup Reviewing :
         /\ reviewer' = [reviewer EXCEPT ![v] = r]
         /\ r # Idle => revision[r.submission][r.field] # "NONE"
  <2>1. ASSUME NEW d \in {"APPROVED", "REJECTED"}
        PROVE  [pc |-> "decide", submission |-> s, field |-> f, decision |-> d] \in Reviewing
    BY DEF Reviewing
  <2> QED BY <2>1 DEF FindRevision, AbortReview
<1>3. TypeOK' /\ ReviewsExist'
  BY <1>1, <1>2 DEF PublicationInv, TypeOK, ReviewsExist, contribution, catalogue
<1>4. (Contributions /\ PublicationsAreSerial)'
  BY <1>1, <1>3 DEF PublicationInv, Contributions, SubmittedFirst, DuplicateIsUnpublished,
     DoubtedIsUnpublished, PublishedWasReviewed, TwinsOverlapped, PublicationsAreSerial,
     InTransaction, contribution, catalogue
<1>5. PublicationsAreSerial' /\ (\A p \in Publisher : Fits(publisher[p]))'
  BY <1>1, PublicationsKept DEF contribution, catalogue
<1> QED BY <1>3, <1>4, <1>5, InvPartsNext

-----------------------------------------------------------------------------
(* Theorems.                                                                *)

LEMMA InitInv == Init => PublicationInv
BY DEF Init, PublicationInv, TypeOK, SubmittedFirst, ReviewsExist, PublicationsAreSerial,
       ReadsStillHold, DuplicateIsUnpublished, DoubtedIsUnpublished, PublishedWasReviewed,
       TwinsOverlapped, InTransaction, Idle, Field

LEMMA StepPreserves ==
    ASSUME PublicationInv, NEW p \in Publisher, PublicationStep(p) \/ AbortPublication(p)
    PROVE  PublicationInv'
BY LockPreserves, CheckPreserves, FindDuplicatesPreserves, MarkPreserves, UpsertPreserves,
   RecordPreserves, FinishPreserves DEF PublicationStep, AbortPublication

LEMMA NextPreserves == PublicationInv /\ [Next]_vars => PublicationInv'
<1> SUFFICES ASSUME PublicationInv, [Next]_vars
             PROVE  PublicationInv'
  OBVIOUS
<1>1. CASE \E s \in Submission, c \in Content : CreateSubmission(s, c)
  BY <1>1, CreatePreserves
<1>2. CASE \E v \in Reviewer, s \in Submission, f \in Field : FindRevision(v, s, f)
  BY <1>2, ReviewerPreserves
<1>3. CASE \E v \in Reviewer : Decide(v)
  BY <1>3, DecidePreserves
<1>4. ASSUME NEW v \in Reviewer, AbortReview(v)
      PROVE  PublicationInv'
  <2>1. reviewer[v].submission \in Submission /\ reviewer[v].field \in Field
    BY <1>4 DEF AbortReview, PublicationInv, TypeOK, Reviewing
  <2> QED BY <1>4, <2>1, ReviewerPreserves
<1>5. CASE \E p \in Publisher, s \in Submission : Request(p, s)
  BY <1>5, RequestPreserves
<1>6. CASE \E p \in Publisher : PublicationStep(p) \/ AbortPublication(p)
  BY <1>6, StepPreserves
<1>7. CASE UNCHANGED vars
  <2>1. UNCHANGED <<content, submission, revision, record, domains, missed, publisher, reviewer,
                    approved>>
    BY <1>7 DEF vars, contribution, catalogue
  <2> QED BY <2>1 DEF PublicationInv, TypeOK, SubmittedFirst, ReviewsExist, PublicationsAreSerial,
         ReadsStillHold, DuplicateIsUnpublished, DoubtedIsUnpublished, PublishedWasReviewed,
         TwinsOverlapped, InTransaction
<1> QED BY <1>1, <1>2, <1>3, <1>4, <1>5, <1>6, <1>7 DEF Next

\* The inductive invariant of submitting, reviewing and publishing: publications
\* of one submission are serial, and what they have read of it holds until they end.
THEOREM PublicationInvariant == Spec => []PublicationInv
BY InitInv, NextPreserves, PTL DEF Spec

\* publishUniversity and publishProgram never call a published submission a
\* duplicate, however many requests for it arrive at the same time.
THEOREM NoRecordIsDoubted == Spec => []DuplicateIsUnpublished
<1>1. PublicationInv => DuplicateIsUnpublished
  BY DEF PublicationInv
<1> QED BY <1>1, PublicationInvariant, PTL

\* A submission that resembled a record when it was sent never becomes one,
\* whatever is decided about its duplicates.
THEOREM DoubtIsFinal == Spec => []DoubtedIsUnpublished
<1>1. PublicationInv => DoubtedIsUnpublished
  BY DEF PublicationInv
<1> QED BY <1>1, PublicationInvariant, PTL

\* Two records that resemble each other were published by transactions that
\* overlapped: the repeated search finds everything that had been committed.
THEOREM TwinsOnlyOverlap == Spec => []TwinsOverlapped
<1>1. PublicationInv => TwinsOverlapped
  BY DEF PublicationInv
<1> QED BY <1>1, PublicationInvariant, PTL

-----------------------------------------------------------------------------
(* CatalogueImport.  I!None is the model's name of what is missing.         *)

USE DEF I!None

LEMMA ImportConstants ==
    /\ Alias \subseteq UniversityName /\ "none" \notin UniversityName
    /\ Historical \in UniversityName /\ Canonical \in UniversityName /\ Historical # Canonical
    /\ MaxCommits \in Nat
BY CatalogueAssumption DEF I!ImportAssumption

LEMMA CatalogueFields ==
    ASSUME NEW c
    PROVE  c \in I!Catalogue <=>
              /\ c = [university |-> c.university, alias |-> c.alias,
                      program |-> c.program, intake |-> c.intake]
              /\ c.university \in [I!University -> I!Row \cup {I!NoRow}]
              /\ c.alias \subseteq I!University \X UniversityName
              /\ c.program \in [I!University -> I!Program \cup {"none"}]
              /\ c.intake \in [I!Program -> I!Intake \cup {"none"}]
BY DEF I!Catalogue

LEMMA RowFields ==
    ASSUME NEW r \in I!Row \cup {I!NoRow}
    PROVE  /\ r.name \in UniversityName \cup {"none"} /\ r.active \in BOOLEAN
           /\ r.name = "none" => r = I!NoRow
           /\ r.active => r.name # "none"
           /\ r.name # "none" =>
                 /\ r \in I!Row
                 /\ [r EXCEPT !.city = "registry"] \in I!Row
                 /\ [r EXCEPT !.active = FALSE] \in I!Row
<1>1. CASE r \in I!Row
  <2>1. /\ r = [name |-> r.name, active |-> r.active, city |-> r.city]
        /\ r.name \in UniversityName /\ r.active \in BOOLEAN
        /\ r.city \in {"none", "curated", "registry"}
    BY <1>1 DEF I!Row
  <2>2. r.name # "none"
    BY <2>1, ImportConstants
  <2>3. [r EXCEPT !.city = "registry"] \in I!Row
    BY <2>1 DEF I!Row
  <2>4. [r EXCEPT !.active = FALSE] \in I!Row
    BY <2>1 DEF I!Row
  <2> QED BY <1>1, <2>1, <2>2, <2>3, <2>4
<1>2. CASE r = I!NoRow
  BY <1>2 DEF I!NoRow
<1> QED BY <1>1, <1>2

\* g is f after v was given to x.
Moves(f, g, D, x, v) ==
    /\ I!Injective(g)
    /\ \A y \in D : g[y] = IF y = x THEN v ELSE IF f[y] = v THEN "none" ELSE f[y]
    /\ \A w : I!Stored(f, w) => I!Stored(g, w) \/ w = "none"
    /\ \A w : I!Stored(g, w) => I!Stored(f, w) \/ w \in {v, "none"}

\* A write that gives a key to one row and takes it from whatever held it.
LEMMA MovedFacts ==
    ASSUME NEW D, NEW R, NEW f \in [D -> R \cup {"none"}], NEW x \in D, NEW v \in R, v # "none",
           I!Injective(f), f[x] \in {"none", v}
    PROVE  /\ I!Moved(f, x, v) \in [D -> R \cup {"none"}]
           /\ Moves(f, I!Moved(f, x, v), D, x, v)
<1>1. /\ I!Moved(f, x, v) = [y \in D |-> IF y = x THEN v ELSE IF f[y] = v THEN "none" ELSE f[y]]
      /\ DOMAIN f = D
  BY DEF I!Moved
<1>2. DOMAIN I!Moved(f, x, v) = D
  BY <1>1
<1>3. I!Injective(I!Moved(f, x, v))
  BY <1>1, <1>2 DEF I!Injective
<1>4. \A w : I!Stored(f, w) => I!Stored(I!Moved(f, x, v), w) \/ w = "none"
  <2>1. SUFFICES ASSUME NEW w, I!Stored(f, w), w # "none"
                 PROVE  I!Stored(I!Moved(f, x, v), w)
    OBVIOUS
  <2>2. PICK y \in D : f[y] = w
    BY <2>1, <1>1 DEF I!Stored
  <2> QED BY <2>1, <2>2, <1>1, <1>2 DEF I!Stored
<1> QED BY <1>1, <1>2, <1>3, <1>4 DEF I!Stored, Moves

-----------------------------------------------------------------------------
(* What a writer may do to the catalogue.                                   *)

Sound(c) == c \in I!Catalogue /\ I!Whole(c) /\ I!RowsAreOwn(c) /\ I!Emptied(c)

Grows(c, d) ==
    /\ \A u \in I!University : I!Exists(c, u) => I!Exists(d, u)
    /\ c.alias \subseteq d.alias
    /\ \A w \in I!Program : I!Stored(c.program, w) => I!Stored(d.program, w)
ArchivesNothing(c, d) ==
    \A u \in I!University :
        /\ I!ActiveIn(c, u) => I!ActiveIn(d, u)
        /\ I!Exists(c, u) /\ I!ArchivedIn(d, u) => I!ArchivedIn(c, u)
KeepsIntakes(c, d) ==
    \A p \in I!Program : c.intake[p] # "none" => d.intake[p] = c.intake[p]
SubmitsNothing(c, d) ==
    I!Stored(d.program, "submittedProgram") => I!Stored(c.program, "submittedProgram")

NamesDiffer(f) ==
    \A u, w \in I!University : f[u].name = f[w].name /\ f[u].name # "none" => u = w

LEMMA WholeParts ==
    ASSUME NEW c
    PROVE  I!Whole(c) <=>
              /\ NamesDiffer(c.university)
              /\ I!Injective(c.program) /\ I!Injective(c.intake)
              /\ \A u \in I!University : c.program[u] # "none" => I!Exists(c, u)
              /\ \A a \in c.alias : I!Exists(c, a[1])
              /\ \A p \in I!Program : c.intake[p] # "none" => I!Stored(c.program, p)
<1>1. I!Injective([u \in I!University |-> c.university[u].name]) <=> NamesDiffer(c.university)
  BY DEF I!Injective, NamesDiffer
<1> QED BY <1>1 DEF I!Whole

\* A university is created, or its row replaced by one of the same or a free name.
LEMMA RowWritten ==
    ASSUME NEW f \in [I!University -> I!Row \cup {I!NoRow}], NamesDiffer(f),
           NEW u \in I!University, NEW r \in I!Row \cup {I!NoRow},
           \A w \in I!University \ {u} : f[w].name # r.name \/ r.name = "none"
    PROVE  /\ [f EXCEPT ![u] = r] \in [I!University -> I!Row \cup {I!NoRow}]
           /\ NamesDiffer([f EXCEPT ![u] = r])
           /\ \A w \in I!University : [f EXCEPT ![u] = r][w] = IF w = u THEN r ELSE f[w]
BY DEF NamesDiffer

LEMMA AliasAdded ==
    ASSUME NEW c \in I!Catalogue, NEW u \in I!University, NEW n \in UniversityName \cup {"none"}
    PROVE  /\ I!AddAlias(c, u, n) \in I!Catalogue
           /\ I!AddAlias(c, u, n).university = c.university
           /\ I!AddAlias(c, u, n).program = c.program
           /\ I!AddAlias(c, u, n).intake = c.intake
           /\ I!AddAlias(c, u, n).alias = IF n = "none" THEN c.alias ELSE c.alias \cup {<<u, n>>}
BY CatalogueFields DEF I!AddAlias, I!Catalogue

LEMMA ProgramMoved ==
    ASSUME NEW c \in I!Catalogue, I!Whole(c), NEW u \in I!University, NEW p \in I!Program,
           c.program[u] \in {"none", p}
    PROVE  /\ I!Moved(c.program, u, p) \in [I!University -> I!Program \cup {"none"}]
           /\ Moves(c.program, I!Moved(c.program, u, p), I!University, u, p)
<1>1. p # "none"
  BY DEF I!Program, I!University
<1>2. c.program \in [I!University -> I!Program \cup {"none"}] /\ I!Injective(c.program)
  BY CatalogueFields, WholeParts
<1> QED BY <1>1, <1>2, MovedFacts

LEMMA IntakeMoved ==
    ASSUME NEW c \in I!Catalogue, I!Whole(c), NEW p \in I!Program, NEW i \in I!Intake,
           c.intake[p] \in {"none", i}
    PROVE  /\ I!Moved(c.intake, p, i) \in [I!Program -> I!Intake \cup {"none"}]
           /\ Moves(c.intake, I!Moved(c.intake, p, i), I!Program, p, i)
<1>1. i # "none"
  BY DEF I!Intake, I!Program, I!University
<1>2. c.intake \in [I!Program -> I!Intake \cup {"none"}] /\ I!Injective(c.intake)
  BY CatalogueFields, WholeParts
<1> QED BY <1>1, <1>2, MovedFacts

\* d is c after a write that upserts a university, its programme and its intake.
SeedWrites(plan, c, d, u, p, i, n, r) ==
    /\ u = plan.university /\ p = plan.program /\ i = plan.intake /\ n = plan.record.alias
    /\ u \in I!University /\ p \in I!Program /\ i \in I!Intake
    /\ r = [name |-> plan.record.name, active |-> TRUE, city |-> "curated"]
    /\ r \in I!Row /\ r.name = plan.record.name /\ r.name # "none" /\ r.active
    /\ \A w \in I!University \ {u} : c.university[w].name # r.name
    /\ c.program[u] \in {"none", p} /\ c.intake[p] \in {"none", i}
    /\ d \in I!Catalogue
    /\ d.university = [c.university EXCEPT ![u] = r]
    /\ d.program = I!Moved(c.program, u, p)
    /\ d.intake = I!Moved(c.intake, p, i)
    /\ n \in UniversityName \cup {"none"}
    /\ d.alias = IF n = "none" THEN c.alias ELSE c.alias \cup {<<u, n>>}

LEMMA SeedWriteParts ==
    ASSUME NEW c \in I!Catalogue, I!Whole(c), NEW plan \in I!SeedPlans,
           I!SeedWrite(c, plan).ok,
           NEW d, d = I!SeedWrite(c, plan).catalogue
    PROVE  \E u, p, i, n, r : SeedWrites(plan, c, d, u, p, i, n, r)
<1>0. PICK u, p, i, n, r :
        /\ u = plan.university /\ p = plan.program /\ i = plan.intake
        /\ r = [name |-> plan.record.name, active |-> TRUE, city |-> "curated"]
        /\ n = plan.record.alias
  OBVIOUS
<1> DEFINE written == [university |-> [c.university EXCEPT ![u] = r], alias |-> c.alias,
                        program |-> I!Moved(c.program, u, p), intake |-> I!Moved(c.intake, p, i)]
<1>1. plan.record \in I!Record /\ u \in I!University /\ p \in I!Program /\ i \in I!Intake
  BY <1>0 DEF I!SeedPlans
<1>2. /\ plan.record.name \in UniversityName /\ n \in UniversityName \cup {"none"}
  BY <1>0, <1>1, ImportConstants DEF I!Record
<1>3. /\ ~(I!Named(c, plan.record.name) \ {u} # {})
      /\ ~I!Refused(c.program, u, p, plan.newProgram)
      /\ ~I!Refused(c.intake, p, i, plan.newIntake)
      /\ I!SeedWrite(c, plan) = I!Done(I!AddAlias(written, u, n))
  BY <1>0 DEF I!SeedWrite, I!Failed
<1>4. /\ c.program[u] \in {"none", p} /\ c.intake[p] \in {"none", i}
      /\ \A w \in I!University \ {u} : c.university[w].name # r.name
  BY <1>0, <1>3 DEF I!Refused, I!Named
<1>5. r \in I!Row /\ r.name = plan.record.name /\ r.name # "none" /\ r.active
  BY <1>0, <1>2, ImportConstants DEF I!Row
<1>7. [c.university EXCEPT ![u] = r] \in [I!University -> I!Row \cup {I!NoRow}]
  BY CatalogueFields, <1>1, <1>5
<1>8. /\ I!Moved(c.program, u, p) \in [I!University -> I!Program \cup {"none"}]
      /\ I!Moved(c.intake, p, i) \in [I!Program -> I!Intake \cup {"none"}]
  BY <1>1, <1>4, ProgramMoved, IntakeMoved
<1>9. c.alias \in SUBSET (I!University \X UniversityName)
  BY CatalogueFields
<1>10. written \in I!Catalogue
  BY <1>7, <1>8, <1>9 DEF I!Catalogue
<1>11. d = I!AddAlias(written, u, n)
  BY <1>3 DEF I!Done
<1>12. /\ written.university = [c.university EXCEPT ![u] = r] /\ written.alias = c.alias
       /\ written.program = I!Moved(c.program, u, p) /\ written.intake = I!Moved(c.intake, p, i)
  OBVIOUS
<1> HIDE DEF written
<1>13. /\ d \in I!Catalogue
       /\ d.university = written.university /\ d.program = written.program
       /\ d.intake = written.intake
       /\ d.alias = IF n = "none" THEN written.alias ELSE written.alias \cup {<<u, n>>}
  <2>1. u \in I!University /\ n \in UniversityName \cup {"none"} /\ written \in I!Catalogue
    BY <1>1, <1>2, <1>10
  <2> QED BY ONLY <2>1, <1>11, AliasAdded, Zenon
<1>14. SeedWrites(plan, c, d, u, p, i, n, r)
  BY <1>0, <1>1, <1>2, <1>4, <1>5, <1>12, <1>13 DEF SeedWrites
<1> QED BY <1>14

LEMMA SeedKeeps ==
    ASSUME NEW c, Sound(c), NEW plan \in I!SeedPlans, I!SeedWrite(c, plan).ok,
           plan.university = "seed" \/ I!Exists(c, plan.university),
           plan.program = "seedProgram" \/ I!Stored(c.program, plan.program),
           plan.intake \in {"seedIntake", c.intake[plan.program]},
           NEW d, d = I!SeedWrite(c, plan).catalogue
    PROVE  Sound(d) /\ Grows(c, d) /\ ArchivesNothing(c, d) /\ SubmitsNothing(c, d)
<1>1. PICK u, p, i, n, r : SeedWrites(plan, c, d, u, p, i, n, r)
  BY SeedWriteParts DEF Sound
<1>2. /\ u = plan.university /\ p = plan.program /\ i = plan.intake /\ n = plan.record.alias
      /\ u \in I!University /\ p \in I!Program /\ i \in I!Intake
      /\ r \in I!Row /\ r.name = plan.record.name /\ r.name # "none" /\ r.active
      /\ \A w \in I!University \ {u} : c.university[w].name # r.name
      /\ c.program[u] \in {"none", p} /\ c.intake[p] \in {"none", i}
      /\ d \in I!Catalogue
      /\ d.university = [c.university EXCEPT ![u] = r]
      /\ d.program = I!Moved(c.program, u, p)
      /\ d.intake = I!Moved(c.intake, p, i)
      /\ n \in UniversityName \cup {"none"}
      /\ d.alias = IF n = "none" THEN c.alias ELSE c.alias \cup {<<u, n>>}
  BY <1>1 DEF SeedWrites
<1>3. /\ c \in I!Catalogue /\ I!Whole(c) /\ I!RowsAreOwn(c) /\ I!Emptied(c)
      /\ c.university \in [I!University -> I!Row \cup {I!NoRow}]
      /\ c.alias \subseteq I!University \X UniversityName
      /\ c.program \in [I!University -> I!Program \cup {"none"}]
      /\ c.intake \in [I!Program -> I!Intake \cup {"none"}]
  BY CatalogueFields DEF Sound
<1>4. /\ NamesDiffer(c.university)
      /\ \A w \in I!University : c.program[w] # "none" => I!Exists(c, w)
      /\ \A a \in c.alias : I!Exists(c, a[1])
      /\ \A q \in I!Program : c.intake[q] # "none" => I!Stored(c.program, q)
  BY <1>3, WholeParts
<1>5. /\ NamesDiffer(d.university)
      /\ \A w \in I!University : d.university[w] = IF w = u THEN r ELSE c.university[w]
  BY <1>2, <1>3, <1>4, RowWritten
<1>6. Moves(c.program, d.program, I!University, u, p) /\ Moves(c.intake, d.intake, I!Program, p, i)
  BY <1>2, <1>3, ProgramMoved, IntakeMoved
<1>6a. /\ I!Injective(d.program)
       /\ \A w \in I!University : d.program[w] =
             IF w = u THEN p ELSE IF c.program[w] = p THEN "none" ELSE c.program[w]
       /\ \A q : I!Stored(c.program, q) => I!Stored(d.program, q) \/ q = "none"
       /\ \A q : I!Stored(d.program, q) => I!Stored(c.program, q) \/ q \in {p, "none"}
  BY <1>6 DEF Moves
<1>6b. /\ I!Injective(d.intake)
       /\ \A q \in I!Program : d.intake[q] =
             IF q = p THEN i ELSE IF c.intake[q] = i THEN "none" ELSE c.intake[q]
  BY <1>6 DEF Moves
<1>7. \A w \in I!University : I!Exists(c, w) \/ w = u => I!Exists(d, w)
  BY <1>2, <1>5 DEF I!Exists
<1>8. \A q \in I!Program : q # "none"
  BY DEF I!Program, I!University
<1>9. I!Stored(d.program, p)
  <2>1. u \in DOMAIN d.program /\ d.program[u] = p
    BY <1>2, <1>6a, <1>6b, CatalogueFields
  <2> QED BY <2>1 DEF I!Stored
<1>10. Grows(c, d)
  BY <1>2, <1>6a, <1>6b, <1>7, <1>8 DEF Grows
<1>11. I!Whole(d)
  <2>1. \A w \in I!University : d.program[w] # "none" => I!Exists(d, w)
    BY <1>4, <1>6a, <1>6b, <1>7
  <2>2. \A a \in d.alias : I!Exists(d, a[1])
    <3>1. \A a \in c.alias : a[1] \in I!University
      BY <1>3
    <3> QED BY <1>2, <1>4, <1>7, <3>1
  <2>3. \A q \in I!Program : d.intake[q] # "none" => I!Stored(d.program, q)
    BY <1>4, <1>6a, <1>6b, <1>8, <1>9
  <2> QED BY <1>5, <1>6a, <1>6b, <2>1, <2>2, <2>3, WholeParts
<1>12. I!RowsAreOwn(d)
  <2>1. \A q \in I!Program : d.intake[q] \in {"none", q, "seedIntake"}
    <3>1. i \in {"seedIntake", p}
      BY <1>1, <1>2, <1>3 DEF I!RowsAreOwn, I!Intake, I!Program, I!University
    <3> QED BY <1>3, <1>6a, <1>6b, <3>1 DEF I!RowsAreOwn
  <2>2. I!Exists(d, "tmm") => I!Stored(d.program, "tmm")
    <3>1. I!Exists(d, "tmm") => I!Exists(c, "tmm")
      BY <1>2, <1>5 DEF I!Exists, I!University
    <3>2. "tmm" \in I!Program
      BY DEF I!Program, I!University
    <3> QED BY <1>3, <1>10, <3>1, <3>2 DEF I!RowsAreOwn, Grows
  <2> QED BY <2>1, <2>2 DEF I!RowsAreOwn
<1>13. I!Emptied(d)
  <2>1. SUFFICES ASSUME NEW w \in I!University, I!ArchivedIn(d, w)
                 PROVE  \/ d.program[w] \in {"none", "submittedProgram"}
                        \/ I!Aliased(d, w) /\ d.program[w] = w
    BY DEF I!Emptied
  <2>2. w # u /\ I!ArchivedIn(c, w)
    BY <1>2, <1>5, <2>1 DEF I!ArchivedIn, I!ActiveIn, I!Exists
  <2>3. \/ c.program[w] \in {"none", "submittedProgram"}
        \/ I!Aliased(c, w) /\ c.program[w] = w
    BY <1>3, <2>2 DEF I!Emptied
  <2> QED BY <1>2, <1>6a, <1>6b, <2>2, <2>3 DEF I!Aliased
<1>14. ArchivesNothing(c, d)
  BY <1>2, <1>5 DEF ArchivesNothing, I!ArchivedIn, I!ActiveIn, I!Exists
<1>15. SubmitsNothing(c, d)
  BY <1>2, <1>6a DEF SubmitsNothing
<1> QED BY <1>2, <1>10, <1>11, <1>12, <1>13, <1>14, <1>15 DEF Sound

\* A university is created or completed; nothing but its row and an alias changes.
UniversityWrites(c, d, u, n, r) ==
    /\ d \in I!Catalogue /\ u \in I!University /\ n \in UniversityName \cup {"none"}
    /\ r \in I!Row /\ r.name # "none"
    /\ I!Exists(c, u) => r.name = c.university[u].name /\ r.active = c.university[u].active
    /\ ~I!Exists(c, u) =>
          u # "tmm" /\ r.active /\ \A w \in I!University : c.university[w].name # r.name
    /\ d.university = [c.university EXCEPT ![u] = r]
    /\ d.alias = IF n = "none" THEN c.alias ELSE c.alias \cup {<<u, n>>}
    /\ d.program = c.program /\ d.intake = c.intake

LEMMA UniversityKeeps ==
    ASSUME NEW c, Sound(c), NEW d, NEW u, NEW n, NEW r, UniversityWrites(c, d, u, n, r)
    PROVE  Sound(d) /\ Grows(c, d) /\ ArchivesNothing(c, d) /\ KeepsIntakes(c, d) /\ SubmitsNothing(c, d)
<1>0. /\ d \in I!Catalogue /\ u \in I!University /\ n \in UniversityName \cup {"none"}
      /\ r \in I!Row /\ r.name # "none"
      /\ I!Exists(c, u) => r.name = c.university[u].name /\ r.active = c.university[u].active
      /\ ~I!Exists(c, u) =>
            u # "tmm" /\ r.active /\ \A w \in I!University : c.university[w].name # r.name
      /\ d.university = [c.university EXCEPT ![u] = r]
      /\ d.alias = IF n = "none" THEN c.alias ELSE c.alias \cup {<<u, n>>}
      /\ d.program = c.program /\ d.intake = c.intake
  BY DEF UniversityWrites
<1>1. /\ c \in I!Catalogue /\ I!Whole(c) /\ I!RowsAreOwn(c) /\ I!Emptied(c)
      /\ c.university \in [I!University -> I!Row \cup {I!NoRow}]
      /\ c.alias \subseteq I!University \X UniversityName
  BY CatalogueFields DEF Sound
<1>2. /\ NamesDiffer(c.university) /\ I!Injective(c.program) /\ I!Injective(c.intake)
      /\ \A w \in I!University : c.program[w] # "none" => I!Exists(c, w)
      /\ \A a \in c.alias : I!Exists(c, a[1])
      /\ \A q \in I!Program : c.intake[q] # "none" => I!Stored(c.program, q)
  BY <1>1, WholeParts
<1>3. \A w \in I!University \ {u} : c.university[w].name # r.name
  BY <1>0, <1>2 DEF NamesDiffer, I!Exists
<1>4. /\ NamesDiffer(d.university)
      /\ \A w \in I!University : d.university[w] = IF w = u THEN r ELSE c.university[w]
  BY <1>0, <1>1, <1>2, <1>3, RowWritten
<1>5. \A w \in I!University : I!Exists(c, w) \/ w = u => I!Exists(d, w)
  BY <1>0, <1>4 DEF I!Exists
<1>6. \A w \in I!University :
         /\ I!ActiveIn(c, w) => I!ActiveIn(d, w)
         /\ I!ArchivedIn(d, w) => I!ArchivedIn(c, w)
  <2>1. \A w \in I!University : I!ActiveIn(c, w) => I!Exists(c, w)
    BY <1>1, RowFields DEF I!ActiveIn, I!Exists
  <2> QED BY <1>0, <1>4, <2>1 DEF I!ActiveIn, I!ArchivedIn, I!Exists
<1>7. Grows(c, d) /\ ArchivesNothing(c, d) /\ KeepsIntakes(c, d) /\ SubmitsNothing(c, d)
  BY <1>0, <1>5, <1>6 DEF Grows, ArchivesNothing, KeepsIntakes, SubmitsNothing
<1>8. I!Whole(d)
  <2>1. \A a \in c.alias : a[1] \in I!University
    BY <1>1
  <2>2. \A a \in d.alias : I!Exists(d, a[1])
    BY <1>0, <1>2, <1>5, <2>1
  <2> QED BY <1>0, <1>2, <1>4, <1>5, <2>2, WholeParts
<1>9. I!RowsAreOwn(d)
  <2>1. I!Exists(d, "tmm") => I!Exists(c, "tmm")
    BY <1>0, <1>4 DEF I!Exists, I!University
  <2> QED BY <1>0, <1>1, <2>1 DEF I!RowsAreOwn
<1>10. I!Emptied(d)
  BY <1>0, <1>1, <1>6 DEF I!Emptied, I!Aliased
<1> QED BY <1>0, <1>7, <1>8, <1>9, <1>10 DEF Sound

LEMMA RorKeeps ==
    ASSUME NEW c, Sound(c), NEW plan \in I!RorPlans, I!RorWrite(c, plan).ok,
           plan.new => plan.university = "ror",
           plan.fill => I!Exists(c, plan.university),
           NEW d, d = I!RorWrite(c, plan).catalogue
    PROVE  Sound(d) /\ Grows(c, d) /\ ArchivesNothing(c, d) /\ KeepsIntakes(c, d) /\ SubmitsNothing(c, d)
<1>1. PICK u, n, m, row : /\ u = plan.university /\ n = plan.record.alias /\ m = plan.record.name
                          /\ row = [name |-> m, active |-> TRUE, city |-> "registry"]
  OBVIOUS
<1>2. /\ u \in I!University /\ m \in UniversityName /\ n \in UniversityName \cup {"none"}
      /\ row \in I!Row /\ row.name = m /\ row.name # "none" /\ row.active
  BY <1>1, ImportConstants DEF I!RorPlans, I!Record, I!Row
<1>3. /\ c \in I!Catalogue
      /\ c.university \in [I!University -> I!Row \cup {I!NoRow}]
  BY CatalogueFields DEF Sound
<1> DEFINE create == plan.new /\ ~I!Exists(c, u) /\ I!Named(c, m) = {}
           written == IF create THEN [c EXCEPT !.university[u] = row]
                      ELSE IF plan.fill THEN [c EXCEPT !.university[u].city = "registry"] ELSE c
<1>4. I!Exists(written, u) /\ d = I!AddAlias(written, u, n)
  BY <1>1 DEF I!RorWrite, I!Done, I!Failed
<1>5. PICK r \in I!Row :
        /\ r.name # "none"
        /\ I!Exists(c, u) => r.name = c.university[u].name /\ r.active = c.university[u].active
        /\ ~I!Exists(c, u) => u # "tmm" /\ r.active /\ \A w \in I!University : c.university[w].name # r.name
        /\ written = [c EXCEPT !.university = [c.university EXCEPT ![u] = r]]
  <2>1. CASE create
    BY <1>1, <1>2, <2>1 DEF I!Named
  <2>2. CASE ~create /\ plan.fill
    <3> DEFINE r == [c.university[u] EXCEPT !.city = "registry"]
    <3>1. I!Exists(c, u) /\ c.university[u] \in I!Row \cup {I!NoRow}
      BY <1>1, <1>2, <1>3, <2>2
    <3>2. c.university[u].name # "none"
      BY <3>1 DEF I!Exists
    <3>3. r \in I!Row
      BY <3>1, <3>2, RowFields
    <3>4. r.name = c.university[u].name /\ r.active = c.university[u].active
      <4>1. c.university[u] \in I!Row
        BY <3>1, <3>2, RowFields
      <4> QED BY <4>1 DEF I!Row
    <3>5. written = [c EXCEPT !.university = [c.university EXCEPT ![u] = r]]
      BY <1>2, <1>3, <2>2
    <3> QED BY <3>1, <3>2, <3>3, <3>4, <3>5
  <2>3. CASE ~create /\ ~plan.fill
    <3>1. I!Exists(c, u) /\ c.university[u] \in I!Row \cup {I!NoRow} /\ written = c
      BY <1>2, <1>3, <1>4, <2>3
    <3>2. c.university[u].name # "none" /\ c.university[u] \in I!Row
      BY <3>1, RowFields DEF I!Exists
    <3>3. c = [c EXCEPT !.university = [c.university EXCEPT ![u] = c.university[u]]]
      <4>1. c.university = [c.university EXCEPT ![u] = c.university[u]]
        BY <1>2, <1>3
      <4>2. c = [c EXCEPT !.university = c.university]
        BY <1>3 DEF I!Catalogue
      <4> QED BY <4>1, <4>2
    <3> QED BY <3>1, <3>2, <3>3
  <2> QED BY <2>1, <2>2, <2>3
<1> HIDE DEF written
<1>6. /\ written \in I!Catalogue
      /\ written.university = [c.university EXCEPT ![u] = r]
      /\ written.alias = c.alias /\ written.program = c.program /\ written.intake = c.intake
  BY <1>2, <1>3, <1>5 DEF I!Catalogue
<1>7. /\ d \in I!Catalogue
      /\ d.university = [c.university EXCEPT ![u] = r]
      /\ d.alias = IF n = "none" THEN c.alias ELSE c.alias \cup {<<u, n>>}
      /\ d.program = c.program /\ d.intake = c.intake
  BY <1>2, <1>4, <1>6, AliasAdded
<1>8. UniversityWrites(c, d, u, n, r)
  BY <1>2, <1>5, <1>7 DEF UniversityWrites
<1> QED BY <1>8, UniversityKeeps

LEMMA PublishUniversityKeeps ==
    ASSUME NEW c, Sound(c), NEW m \in UniversityName, ~I!Exists(c, "submission"),
           I!Named(c, m) = {},
           NEW d, d = [c EXCEPT !.university["submission"] =
                          [name |-> m, active |-> TRUE, city |-> "none"]]
    PROVE  Sound(d) /\ Grows(c, d) /\ ArchivesNothing(c, d) /\ KeepsIntakes(c, d) /\ SubmitsNothing(c, d)
<1>1. PICK r : r = [name |-> m, active |-> TRUE, city |-> "none"]
  OBVIOUS
<1>2. r \in I!Row /\ r.name = m /\ r.name # "none" /\ r.active
  BY <1>1, ImportConstants DEF I!Row
<1>3. /\ c \in I!Catalogue
      /\ c.university \in [I!University -> I!Row \cup {I!NoRow}]
  BY CatalogueFields DEF Sound
<1>4. \A w \in I!University : c.university[w].name # r.name
  BY <1>2 DEF I!Named
<1>5. /\ d \in I!Catalogue
      /\ d.university = [c.university EXCEPT !["submission"] = r]
      /\ d.alias = c.alias /\ d.program = c.program /\ d.intake = c.intake
  BY <1>1, <1>2, <1>3 DEF I!Catalogue
<1>6. "submission" \in I!University /\ "submission" # "tmm"
  BY DEF I!University
<1>7. UniversityWrites(c, d, "submission", "none", r)
  BY <1>2, <1>4, <1>5, <1>6 DEF UniversityWrites
<1> QED BY <1>7, UniversityKeeps

LEMMA SoundFacts ==
    ASSUME NEW c, Sound(c)
    PROVE  /\ c \in I!Catalogue /\ I!Whole(c) /\ I!RowsAreOwn(c) /\ I!Emptied(c)
           /\ c.university \in [I!University -> I!Row \cup {I!NoRow}]
           /\ c.alias \subseteq I!University \X UniversityName
           /\ c.program \in [I!University -> I!Program \cup {"none"}]
           /\ c.intake \in [I!Program -> I!Intake \cup {"none"}]
           /\ NamesDiffer(c.university) /\ I!Injective(c.program) /\ I!Injective(c.intake)
           /\ \A u \in I!University : c.program[u] # "none" => I!Exists(c, u)
           /\ \A a \in c.alias : I!Exists(c, a[1])
           /\ \A p \in I!Program : c.intake[p] # "none" => I!Stored(c.program, p)
<1>1. c \in I!Catalogue /\ I!Whole(c) /\ I!RowsAreOwn(c) /\ I!Emptied(c)
  BY DEF Sound
<1> QED BY <1>1, CatalogueFields, WholeParts

\* A row is created under a free key.
LEMMA Added ==
    ASSUME NEW D, NEW R, NEW f \in [D -> R \cup {"none"}], NEW x \in D, NEW v \in R, v # "none",
           I!Injective(f), f[x] = "none", ~I!Stored(f, v)
    PROVE  /\ [f EXCEPT ![x] = v] \in [D -> R \cup {"none"}]
           /\ Moves(f, [f EXCEPT ![x] = v], D, x, v)
<1>1. /\ [f EXCEPT ![x] = v] = I!Moved(f, x, v)
      /\ f[x] \in {"none", v}
  <2>1. \A y \in D : f[y] # v
    BY DEF I!Stored
  <2>2. I!Moved(f, x, v) = [y \in D |-> IF y = x THEN v ELSE IF f[y] = v THEN "none" ELSE f[y]]
    BY DEF I!Moved
  <2>3. [y \in D |-> IF y = x THEN v ELSE IF f[y] = v THEN "none" ELSE f[y]] = [f EXCEPT ![x] = v]
    BY <2>1
  <2> QED BY <2>2, <2>3
<1>2. /\ I!Moved(f, x, v) \in [D -> R \cup {"none"}]
      /\ Moves(f, I!Moved(f, x, v), D, x, v)
  BY <1>1, MovedFacts
<1> QED BY ONLY <1>1, <1>2

LEMMA PublishProgramKeeps ==
    ASSUME NEW c, Sound(c), NEW u \in I!University, I!Exists(c, u), c.program[u] = "none",
           ~I!Stored(c.program, "submittedProgram"),
           NEW d, d = [c EXCEPT !.program[u] = "submittedProgram"]
    PROVE  Sound(d) /\ Grows(c, d) /\ ArchivesNothing(c, d) /\ KeepsIntakes(c, d)
<1>1. PICK v : v = "submittedProgram"
  OBVIOUS
<1>2. v \in I!Program /\ v # "none" /\ v # "tmm" /\ "tmm" \in I!University /\ "tmm" \in I!Program
      /\ \A q \in I!Program : q # "none"
  BY <1>1 DEF I!Program, I!University
<1>3. /\ [c.program EXCEPT ![u] = v] \in [I!University -> I!Program \cup {"none"}]
      /\ Moves(c.program, [c.program EXCEPT ![u] = v], I!University, u, v)
  BY <1>1, <1>2, SoundFacts, Added
<1>4. /\ d \in I!Catalogue
      /\ d.program = [c.program EXCEPT ![u] = v]
      /\ d.university = c.university /\ d.alias = c.alias /\ d.intake = c.intake
  BY <1>1, <1>3, SoundFacts DEF I!Catalogue
<1>5. /\ I!Injective(d.program)
      /\ \A w \in I!University : d.program[w] = IF w = u THEN v ELSE IF c.program[w] = v THEN "none" ELSE c.program[w]
      /\ \A w : I!Stored(c.program, w) => I!Stored(d.program, w) \/ w = "none"
  BY <1>3, <1>4 DEF Moves
<1>6. Grows(c, d) /\ ArchivesNothing(c, d) /\ KeepsIntakes(c, d)
  BY <1>2, <1>4, <1>5
     DEF Grows, ArchivesNothing, KeepsIntakes, I!Exists, I!ActiveIn, I!ArchivedIn
<1>7. I!Whole(d)
  <2>1. \A w \in I!University : I!Exists(d, w) <=> I!Exists(c, w)
    BY <1>4 DEF I!Exists
  <2>2. \A a \in d.alias : I!Exists(d, a[1])
    BY <1>4, SoundFacts DEF I!Exists
  <2>3. \A p \in I!Program : d.intake[p] # "none" => I!Stored(d.program, p)
    BY <1>2, <1>4, <1>5, SoundFacts
  <2>4. \A w \in I!University : d.program[w] # "none" => I!Exists(d, w)
    BY <1>5, <2>1, SoundFacts
  <2>5. NamesDiffer(d.university) /\ I!Injective(d.intake)
    BY <1>4, SoundFacts
  <2> QED BY <1>5, <2>2, <2>3, <2>4, <2>5, WholeParts
<1>8. I!RowsAreOwn(d)
  BY <1>2, <1>4, <1>5, SoundFacts DEF I!RowsAreOwn, I!Exists
<1>9. I!Emptied(d)
  <2>1. \A w \in I!University : I!ArchivedIn(d, w) => I!ArchivedIn(c, w)
    BY <1>4 DEF I!ArchivedIn, I!ActiveIn, I!Exists
  <2> QED BY <1>1, <1>4, <1>5, <2>1, SoundFacts DEF I!Emptied, I!Aliased
<1> QED BY <1>4, <1>6, <1>7, <1>8, <1>9 DEF Sound

TmmCreates(c, plan) ==
    plan.new /\ ~I!Exists(c, plan.university) /\ I!Named(c, plan.name) = {}
\* The university has its programme, and that its intake, or the key is taken.
TmmSettled(c, u) ==
    /\ c.program[u] # "none" \/ I!Stored(c.program, u)
    /\ c.program[u] # "none" => c.intake[c.program[u]] = c.program[u]

\* A TMM import writes what its plan lacks.
LEMMA TmmKeeps ==
    ASSUME NEW c, Sound(c), NEW plan \in I!TmmPlans, I!TmmWrite(c, plan).ok,
           IF plan.new THEN plan.university = "tmm"
           ELSE I!Exists(c, plan.university)
                /\ (I!ArchivedIn(c, plan.university) => I!Aliased(c, plan.university)),
           NEW d, d = I!TmmWrite(c, plan).catalogue
    PROVE  /\ Sound(d) /\ Grows(c, d) /\ ArchivesNothing(c, d) /\ KeepsIntakes(c, d)
           /\ SubmitsNothing(c, d)
           /\ d.alias = c.alias
           /\ \A w \in I!University : d.university[w] =
                 IF TmmCreates(c, plan) /\ w = plan.university
                 THEN [name |-> plan.name, active |-> TRUE, city |-> "registry"]
                 ELSE c.university[w]
           /\ TmmSettled(d, plan.university)
<1>1. PICK u, m, row : /\ u = plan.university /\ m = plan.name
                       /\ row = [name |-> m, active |-> TRUE, city |-> "registry"]
  OBVIOUS
<1>2. /\ u \in I!University /\ m \in UniversityName
      /\ row \in I!Row /\ row.name = m /\ row.name # "none" /\ row.active
  BY <1>1, ImportConstants DEF I!TmmPlans, I!Row
<1> DEFINE create == plan.new /\ ~I!Exists(c, u) /\ I!Named(c, m) = {}
           universities == IF create THEN [c EXCEPT !.university[u] = row] ELSE c
           taken == c.program[u] # "none" \/ I!Stored(c.program, u)
           programs == IF taken THEN universities ELSE [universities EXCEPT !.program[u] = u]
           p == programs.program[u]
           intakes == IF p # "none" /\ programs.intake[p] = "none"
                      THEN [programs EXCEPT !.intake[p] = p] ELSE programs
<1>3. /\ d = intakes
      /\ ~(~taken /\ ~I!Exists(universities, u))
      /\ ~(p # "none" /\ ~I!Stored(programs.program, p))
      /\ ~(p # "none" /\ intakes.intake[p] # p)
  BY <1>1 DEF I!TmmWrite, I!TmmProgram, I!Done, I!Failed
<1>4. PICK cu : cu = universities
  OBVIOUS
<1>5. PICK cp : cp = programs
  OBVIOUS
<1>6. /\ cu \in I!Catalogue
      /\ cu.alias = c.alias /\ cu.program = c.program /\ cu.intake = c.intake
      /\ NamesDiffer(cu.university)
      /\ \A w \in I!University : cu.university[w] = IF create /\ w = u THEN row ELSE c.university[w]
  <2>1. CASE create
    <3>1. \A w \in I!University \ {u} : c.university[w].name # row.name
      BY <1>2, <2>1 DEF I!Named
    <3>2. /\ [c.university EXCEPT ![u] = row] \in [I!University -> I!Row \cup {I!NoRow}]
          /\ NamesDiffer([c.university EXCEPT ![u] = row])
      BY <1>2, <3>1, SoundFacts, RowWritten
    <3>3. cu = [c EXCEPT !.university = [c.university EXCEPT ![u] = row]]
      BY <1>4, <2>1
    <3>4. /\ cu.alias = c.alias /\ cu.program = c.program /\ cu.intake = c.intake
          /\ cu.university = [c.university EXCEPT ![u] = row]
          /\ cu \in I!Catalogue
      BY <3>2, <3>3, SoundFacts DEF I!Catalogue
    <3> QED BY <1>2, <2>1, <3>2, <3>4, SoundFacts
  <2>2. CASE ~create
    BY <1>4, <2>2, SoundFacts
  <2> QED BY <2>1, <2>2
<1>7. /\ \A w \in I!University : I!Exists(c, w) => I!Exists(cu, w)
      /\ \A w \in I!University : I!Exists(cu, w) => I!Exists(c, w) \/ (create /\ w = u)
      /\ \A w \in I!University : I!ActiveIn(c, w) => I!ActiveIn(cu, w)
      /\ \A w \in I!University : I!ArchivedIn(cu, w) => I!ArchivedIn(c, w)
  <2>1. \A w \in I!University : I!Exists(c, w) => I!Exists(cu, w)
    BY <1>2, <1>6 DEF I!Exists
  <2> QED BY <1>2, <1>6, <2>1 DEF I!Exists, I!ActiveIn, I!ArchivedIn
<1>8. create => u = "tmm" /\ c.program[u] = "none"
  BY <1>1, <1>2, SoundFacts
<1>9. /\ cp \in I!Catalogue
      /\ cp.alias = c.alias /\ cp.university = cu.university /\ cp.intake = c.intake
      /\ I!Injective(cp.program)
      /\ \A w \in I!University : cp.program[w] = IF ~taken /\ w = u THEN u ELSE c.program[w]
      /\ \A q \in I!Program : I!Stored(c.program, q) => I!Stored(cp.program, q)
      /\ \A q \in I!Program : I!Stored(cp.program, q) => I!Stored(c.program, q) \/ q = u
      /\ ~taken => I!Stored(cp.program, u)
  <2>1. CASE taken
    BY <1>4, <1>5, <1>6, <2>1, SoundFacts
  <2>2. CASE ~taken
    <3>1. u \in I!Program /\ u # "none" /\ \A x \in I!Program : x # "none"
      BY <1>2 DEF I!Program, I!University
    <3>2. /\ [c.program EXCEPT ![u] = u] \in [I!University -> I!Program \cup {"none"}]
          /\ Moves(c.program, [c.program EXCEPT ![u] = u], I!University, u, u)
      BY <1>2, <2>2, <3>1, SoundFacts, Added
    <3>3. cp = [cu EXCEPT !.program = [c.program EXCEPT ![u] = u]]
      BY <1>4, <1>5, <1>6, <2>2
    <3>4. /\ cp \in I!Catalogue
          /\ cp.alias = c.alias /\ cp.university = cu.university /\ cp.intake = c.intake
          /\ cp.program = [c.program EXCEPT ![u] = u]
      BY <1>6, <3>2, <3>3 DEF I!Catalogue
    <3>5. /\ I!Injective(cp.program)
          /\ \A w \in I!University : cp.program[w] =
                IF w = u THEN u ELSE IF c.program[w] = u THEN "none" ELSE c.program[w]
          /\ \A x : I!Stored(c.program, x) => I!Stored(cp.program, x) \/ x = "none"
          /\ \A x : I!Stored(cp.program, x) => I!Stored(c.program, x) \/ x \in {u, "none"}
      BY <3>2, <3>4 DEF Moves
    <3>6. \A w \in I!University : c.program[w] # u
      BY <2>2, SoundFacts DEF I!Stored
    <3>7. I!Stored(cp.program, u)
      <4>1. u \in DOMAIN cp.program
        BY <1>2, <3>4, SoundFacts
      <4> QED BY <1>2, <3>5, <4>1 DEF I!Stored
    <3>8. \A w \in I!University : cp.program[w] = IF ~taken /\ w = u THEN u ELSE c.program[w]
      BY <2>2, <3>5, <3>6
    <3> QED BY <3>1, <3>4, <3>5, <3>7, <3>8
  <2> QED BY <2>1, <2>2
<1>10. PICK q : q = p
  OBVIOUS
<1>11. /\ d \in I!Catalogue
       /\ d.alias = c.alias /\ d.university = cu.university /\ d.program = cp.program
       /\ I!Injective(d.intake)
       /\ \A x \in I!Program : d.intake[x] =
             IF q # "none" /\ x = q /\ c.intake[q] = "none" THEN q ELSE c.intake[x]
  <2>0. d = IF q # "none" /\ cp.intake[q] = "none" THEN [cp EXCEPT !.intake[q] = q] ELSE cp
    BY <1>3, <1>5, <1>10
  <2> HIDE DEF create, universities, programs, p, intakes
  <2>1. CASE q # "none" /\ c.intake[q] = "none"
    <3>1. q \in I!Program /\ q \in I!Intake
      <4>1. q = cp.program[u] /\ cp.program \in [I!University -> I!Program \cup {"none"}]
        BY <1>5, <1>9, <1>10, CatalogueFields DEF p
      <4> QED BY <1>2, <2>1, <4>1 DEF I!Intake
    <3>2. ~I!Stored(c.intake, q)
      BY <2>1, <3>1, SoundFacts DEF I!Stored, I!RowsAreOwn, I!Program, I!University
    <3>3. /\ [c.intake EXCEPT ![q] = q] \in [I!Program -> I!Intake \cup {"none"}]
          /\ Moves(c.intake, [c.intake EXCEPT ![q] = q], I!Program, q, q)
      BY <2>1, <3>1, <3>2, SoundFacts, Added
    <3>4. d = [cp EXCEPT !.intake = [c.intake EXCEPT ![q] = q]]
      BY <1>9, <2>0, <2>1
    <3>5. /\ d \in I!Catalogue
          /\ d.alias = c.alias /\ d.university = cu.university /\ d.program = cp.program
          /\ d.intake = [c.intake EXCEPT ![q] = q]
      BY <1>9, <3>3, <3>4 DEF I!Catalogue
    <3> QED BY <2>1, <3>1, <3>3, <3>5, SoundFacts DEF Moves
  <2>2. CASE ~(q # "none" /\ c.intake[q] = "none")
    BY <1>9, <2>0, <2>2, SoundFacts
  <2> QED BY <2>1, <2>2
<1>12. q # "none" => I!Stored(d.program, q)
  BY <1>3, <1>5, <1>10, <1>11
<1>12a. \A w \in I!University : d.university[w] =
           IF TmmCreates(c, plan) /\ w = u THEN row ELSE c.university[w]
  BY <1>1, <1>6, <1>11 DEF TmmCreates
<1>12b. TmmSettled(d, u)
  <2>1. d.program[u] = q /\ (q # "none" => d.intake[q] = q)
    BY <1>3, <1>5, <1>10, <1>11
  <2>2. CASE taken
    <3>1. "none" \notin I!Program /\ u \in I!Program
      BY <1>2 DEF I!Program, I!University
    <3> QED BY <1>2, <1>9, <1>11, <2>1, <2>2, <3>1 DEF TmmSettled
  <2>3. CASE ~taken
    BY <1>2, <1>9, <1>11, <2>1, <2>3 DEF TmmSettled
  <2> QED BY <2>2, <2>3
<1> HIDE DEF create, universities, programs, p, intakes
<1>13. /\ Grows(c, d) /\ ArchivesNothing(c, d) /\ KeepsIntakes(c, d) /\ SubmitsNothing(c, d)
  <2>1. \A w \in I!University : I!Exists(d, w) <=> I!Exists(cu, w)
    BY <1>11 DEF I!Exists
  <2>2. \A w \in I!University : /\ I!ActiveIn(d, w) <=> I!ActiveIn(cu, w)
                                /\ I!ArchivedIn(d, w) <=> I!ArchivedIn(cu, w)
    BY <1>11 DEF I!ActiveIn, I!ArchivedIn, I!Exists
  <2>3. "submittedProgram" \in I!Program /\ u # "submittedProgram"
    BY <1>2 DEF I!Program, I!University
  <2> QED BY <1>7, <1>9, <1>11, <2>1, <2>2, <2>3
          DEF Grows, ArchivesNothing, KeepsIntakes, SubmitsNothing
<1>14. I!Whole(d)
  <2>1. \A w \in I!University : I!Exists(c, w) => I!Exists(d, w)
    BY <1>13 DEF Grows
  <2>2. \A w \in I!University : d.program[w] # "none" => I!Exists(d, w)
    <3>1. ~taken => I!Exists(d, u)
      BY <1>3, <1>4, <1>11 DEF I!Exists
    <3> QED BY <1>9, <1>11, <2>1, <3>1, SoundFacts
  <2>3. \A a \in d.alias : I!Exists(d, a[1])
    <3>1. \A a \in c.alias : a[1] \in I!University
      BY SoundFacts
    <3> QED BY <1>11, <2>1, <3>1, SoundFacts
  <2>4. \A x \in I!Program : d.intake[x] # "none" => I!Stored(d.program, x)
    BY <1>9, <1>11, <1>12, SoundFacts
  <2> QED BY <1>6, <1>9, <1>11, <2>2, <2>3, <2>4, WholeParts
<1>15. I!RowsAreOwn(d)
  <2>1. \A x \in I!Program : d.intake[x] \in {"none", x, "seedIntake"}
    BY <1>11, SoundFacts DEF I!RowsAreOwn
  <2>2. ASSUME I!Exists(d, "tmm") PROVE I!Stored(d.program, "tmm")
    <3>1. "tmm" \in I!University /\ "tmm" \in I!Program
      BY DEF I!Program, I!University
    <3>2. CASE I!Exists(c, "tmm")
      BY <1>13, <3>1, <3>2, SoundFacts DEF Grows, I!RowsAreOwn
    <3>3. CASE ~I!Exists(c, "tmm")
      <4>1. create /\ u = "tmm"
        BY <1>7, <1>11, <2>2, <3>1, <3>3 DEF I!Exists
      <4>2. I!Stored(cp.program, u)
        BY <1>8, <1>9, <3>1, <4>1
      <4> QED BY <1>11, <4>1, <4>2
    <3> QED BY <3>2, <3>3
  <2> QED BY <2>1, <2>2 DEF I!RowsAreOwn
<1>16. I!Emptied(d)
  <2>1. SUFFICES ASSUME NEW w \in I!University, I!ArchivedIn(d, w)
                 PROVE  \/ d.program[w] \in {"none", "submittedProgram"}
                        \/ I!Aliased(d, w) /\ d.program[w] = w
    BY DEF I!Emptied
  <2>2. I!ArchivedIn(c, w)
    BY <1>7, <1>11, <2>1 DEF I!ArchivedIn, I!ActiveIn, I!Exists
  <2>3. I!Aliased(c, w) => I!Aliased(d, w)
    BY <1>11 DEF I!Aliased
  <2>4. CASE ~taken /\ w = u
    <3>1. I!Exists(c, "tmm") => I!Stored(c.program, "tmm")
      BY SoundFacts DEF I!RowsAreOwn
    <3>2. ~plan.new
      BY <1>1, <2>2, <2>4, <3>1 DEF I!ArchivedIn
    <3>3. d.program[w] = w
      BY <1>9, <1>11, <2>4
    <3> QED BY <1>1, <2>2, <2>3, <2>4, <3>2, <3>3
  <2>5. CASE ~(~taken /\ w = u)
    BY <1>9, <1>11, <2>2, <2>3, <2>5, SoundFacts DEF I!Emptied
  <2> QED BY <2>4, <2>5
<1> QED BY <1>1, <1>11, <1>12a, <1>12b, <1>13, <1>14, <1>15, <1>16 DEF Sound

LEMMA RepairKeeps ==
    ASSUME NEW c, Sound(c), NEW plan \in I!RepairPlans, I!RepairWrite(c, plan).ok,
           plan.duplicate \cap plan.canonical = {},
           \A w \in plan.duplicate \cup plan.canonical : I!ActiveIn(c, w),
           NEW d, d = I!RepairWrite(c, plan).catalogue
    PROVE  Sound(d) /\ Grows(c, d) /\ KeepsIntakes(c, d) /\ SubmitsNothing(c, d)
<1>1. CASE plan.duplicate = {} \/ plan.canonical = {}
  <2>1. d = c
    BY <1>1 DEF I!RepairWrite, I!Done
  <2> QED BY <2>1 DEF Grows, KeepsIntakes, SubmitsNothing
<1>2. CASE plan.duplicate # {} /\ plan.canonical # {}
  <2> DEFINE x == CHOOSE w \in plan.duplicate : TRUE
             u == CHOOSE w \in plan.canonical : TRUE
  <2>1. x \in plan.duplicate /\ u \in plan.canonical
    BY <1>2
  <2>2. x \in I!University /\ u \in I!University /\ x # u /\ I!ActiveIn(c, x) /\ I!ActiveIn(c, u)
    BY <2>1 DEF I!RepairPlans
  <2> DEFINE kept == IF c.program[x] = "none" THEN c.program[u] ELSE c.program[x]
             f == [c.program EXCEPT ![u] = kept, ![x] = "none"]
             g == [c.university EXCEPT ![x].active = FALSE]
  <2>3. /\ ~(c.program[x] # "none" /\ c.program[u] # "none")
        /\ d = [university |-> g, alias |-> c.alias \cup {<<u, Historical>>},
                program |-> f, intake |-> c.intake]
    BY <1>2 DEF I!RepairWrite, I!Done, I!Failed
  <2> HIDE DEF x, u
  <2>4. /\ f \in [I!University -> I!Program \cup {"none"}]
        /\ \A w \in I!University :
              f[w] = IF w = x THEN "none" ELSE IF w = u THEN kept ELSE c.program[w]
    BY <2>2, SoundFacts
  <2>5. I!Injective(f)
    BY <2>2, <2>3, <2>4, SoundFacts DEF I!Injective
  <2>6. \A q : I!Stored(c.program, q) <=> I!Stored(f, q)
    <3>1. DOMAIN c.program = I!University /\ DOMAIN f = I!University
      BY <2>4, SoundFacts
    <3>2. ASSUME NEW q, NEW y \in I!University, c.program[y] = q
          PROVE  \E z \in I!University : f[z] = q
      <4>1. f[x] = "none" /\ f[u] = kept
        BY <2>2, <2>4
      <4>2. CASE y \in {x, u}
        BY <2>2, <2>3, <3>2, <4>1, <4>2
      <4>3. CASE y \notin {x, u}
        BY <2>4, <3>2, <4>3
      <4> QED BY <4>2, <4>3
    <3>3. ASSUME NEW q, NEW y \in I!University, f[y] = q
          PROVE  \E z \in I!University : c.program[z] = q
      BY <2>2, <2>3, <2>4, <3>3
    <3> QED BY <3>1, <3>2, <3>3 DEF I!Stored
  <2>7. /\ c.university[x] \in I!Row /\ [c.university[x] EXCEPT !.active = FALSE] \in I!Row
        /\ I!Exists(c, x) /\ I!Exists(c, u)
    <3>1. c.university[x] \in I!Row \cup {I!NoRow} /\ c.university[u] \in I!Row \cup {I!NoRow}
      BY <2>2, SoundFacts
    <3> QED BY <2>2, <3>1, RowFields DEF I!ActiveIn, I!Exists
  <2>8. /\ g \in [I!University -> I!Row \cup {I!NoRow}]
        /\ \A w \in I!University : g[w].name = c.university[w].name
        /\ \A w \in I!University \ {x} : g[w] = c.university[w]
    <3>1. g = [c.university EXCEPT ![x] = [c.university[x] EXCEPT !.active = FALSE]]
      BY <2>2, SoundFacts
    <3>2. [c.university[x] EXCEPT !.active = FALSE].name = c.university[x].name
      BY <2>7 DEF I!Row
    <3> HIDE DEF g
    <3> QED BY <2>2, <2>7, <3>1, <3>2, SoundFacts
  <2> HIDE DEF f, g
  <2>9. /\ d \in I!Catalogue
        /\ d.university = g /\ d.program = f /\ d.intake = c.intake
        /\ d.alias = c.alias \cup {<<u, Historical>>}
    BY <2>2, <2>3, <2>4, <2>8, SoundFacts, ImportConstants DEF I!Catalogue
  <2>10. \A w \in I!University : I!Exists(c, w) <=> I!Exists(d, w)
    BY <2>8, <2>9 DEF I!Exists
  <2>11. Grows(c, d) /\ KeepsIntakes(c, d) /\ SubmitsNothing(c, d)
    BY <2>6, <2>9, <2>10 DEF Grows, KeepsIntakes, SubmitsNothing
  <2>12. I!Whole(d)
    <3>1. NamesDiffer(d.university)
      BY <2>8, <2>9, SoundFacts DEF NamesDiffer
    <3>2. \A w \in I!University : d.program[w] # "none" => I!Exists(d, w)
      BY <2>4, <2>7, <2>9, <2>10, SoundFacts
    <3>3. \A a \in d.alias : I!Exists(d, a[1])
      <4>1. \A a \in c.alias : a[1] \in I!University /\ I!Exists(c, a[1])
        BY SoundFacts
      <4> QED BY <2>2, <2>7, <2>9, <2>10, <4>1
    <3>4. \A p \in I!Program : d.intake[p] # "none" => I!Stored(d.program, p)
      BY <2>6, <2>9, SoundFacts
    <3> QED BY <2>5, <2>9, <3>1, <3>2, <3>3, <3>4, SoundFacts, WholeParts
  <2>13. I!RowsAreOwn(d)
    <3>1. "tmm" \in I!University
      BY DEF I!University
    <3> QED BY <2>6, <2>9, <2>10, <3>1, SoundFacts DEF I!RowsAreOwn
  <2>14. I!Emptied(d)
    <3>1. SUFFICES ASSUME NEW w \in I!University, I!ArchivedIn(d, w), w # x
                   PROVE  \/ d.program[w] \in {"none", "submittedProgram"}
                          \/ I!Aliased(d, w) /\ d.program[w] = w
      BY <2>2, <2>4, <2>9 DEF I!Emptied
    <3>2. I!ArchivedIn(c, w) /\ w # u
      BY <2>2, <2>8, <2>9, <3>1 DEF I!ArchivedIn, I!ActiveIn, I!Exists
    <3>3. \/ c.program[w] \in {"none", "submittedProgram"}
          \/ I!Aliased(c, w) /\ c.program[w] = w
      BY <3>2, SoundFacts DEF I!Emptied
    <3>4. d.program[w] = c.program[w]
      BY <2>4, <2>9, <3>1, <3>2
    <3> QED BY <2>9, <3>3, <3>4 DEF I!Aliased
  <2> QED BY <2>9, <2>11, <2>12, <2>13, <2>14 DEF Sound
<1> QED BY <1>1, <1>2

-----------------------------------------------------------------------------
(* What an import plans.                                                    *)

LEMMA NamedFacts ==
    ASSUME NEW c, Sound(c), NEW n \in UniversityName, NEW u \in I!Named(c, n)
    PROVE  u \in I!University /\ c.university[u].name = n /\ I!Exists(c, u) /\ I!Named(c, n) = {u}
<1>1. u \in I!University /\ c.university[u].name = n /\ n # "none"
  BY ImportConstants DEF I!Named
<1>2. \A w \in I!Named(c, n) : w = u
  BY <1>1, SoundFacts DEF I!Named, NamesDiffer
<1> QED BY <1>1, <1>2 DEF I!Exists

LEMMA UpsertedFacts ==
    ASSUME NEW c, Sound(c)
    PROVE  /\ \A u \in I!University :
                 LET p == I!Upserted(c.program, u, "seedProgram")
                 IN  p \in I!Program /\ (p = "seedProgram" \/ I!Stored(c.program, p))
           /\ \A p \in I!Program :
                 LET i == I!Upserted(c.intake, p, "seedIntake")
                 IN  i \in I!Intake /\ i \in {"seedIntake", c.intake[p]}
<1>1. "seedProgram" \in I!Program /\ "seedIntake" \in I!Intake
  BY DEF I!Program, I!Intake
<1>2. ASSUME NEW u \in I!University
      PROVE  LET p == I!Upserted(c.program, u, "seedProgram")
             IN  p \in I!Program /\ (p = "seedProgram" \/ I!Stored(c.program, p))
  <2>1. c.program[u] \in I!Program \cup {"none"} /\ u \in DOMAIN c.program
    BY SoundFacts
  <2> QED BY <1>1, <2>1 DEF I!Upserted, I!Stored
<1>3. ASSUME NEW p \in I!Program
      PROVE  LET i == I!Upserted(c.intake, p, "seedIntake")
             IN  i \in I!Intake /\ i \in {"seedIntake", c.intake[p]}
  <2>1. c.intake[p] \in I!Intake \cup {"none"}
    BY SoundFacts
  <2> QED BY <1>1, <2>1 DEF I!Upserted
<1> QED BY <1>2, <1>3

LEMMA SeedPlanned ==
    ASSUME NEW c, Sound(c), NEW r \in I!Record
    PROVE  /\ I!SeedPlan(c, r) \in I!SeedPlans
           /\ I!SeedPlan(c, r).university = "seed" \/ I!Exists(c, I!SeedPlan(c, r).university)
           /\ \/ I!SeedPlan(c, r).program = "seedProgram"
              \/ I!Stored(c.program, I!SeedPlan(c, r).program)
           /\ I!SeedPlan(c, r).intake \in {"seedIntake", c.intake[I!SeedPlan(c, r).program]}
           /\ I!SeedPlan(c, r).record = r
           /\ \/ I!SeedPlan(c, r).university = "seed"
              \/ ~I!Exists(c, "seed") /\ I!Named(c, r.name) = {I!SeedPlan(c, r).university}
<1> DEFINE found == I!Find(c, "seed", r.name)
           u == IF found = {} THEN "seed" ELSE CHOOSE x \in found : TRUE
           p == I!Upserted(c.program, u, "seedProgram")
           i == I!Upserted(c.intake, p, "seedIntake")
<1>1. I!SeedPlan(c, r) = [record |-> r, university |-> u, new |-> found = {},
                          program |-> p, newProgram |-> ~I!Stored(c.program, p),
                          intake |-> i, newIntake |-> ~I!Stored(c.intake, i)]
  <2>1. PICK a, b : a = u /\ b = (found = {})
    OBVIOUS
  <2>2. PICK first : first = [record |-> r, university |-> a, new |-> b,
                              program |-> "seedProgram", newProgram |-> TRUE,
                              intake |-> "seedIntake", newIntake |-> TRUE]
    OBVIOUS
  <2>3. I!SeedUniversity(c, r) = first
    BY <2>1, <2>2 DEF I!SeedUniversity
  <2>4. PICK q, e : q = p /\ e = ~I!Stored(c.program, p)
    OBVIOUS
  <2>5. q = I!Upserted(c.program, a, "seedProgram") /\ e = ~I!Stored(c.program, q)
    BY <2>1, <2>4
  <2>6. PICK second : second = [record |-> r, university |-> a, new |-> b,
                                program |-> q, newProgram |-> e,
                                intake |-> "seedIntake", newIntake |-> TRUE]
    OBVIOUS
  <2>7. I!SeedProgram(c, first) = second
    <3>1. first.university = a
      BY <2>2
    <3>2. I!SeedProgram(c, first) = [first EXCEPT !.program = q, !.newProgram = e]
      BY <2>5, <3>1 DEF I!SeedProgram
    <3> QED BY <2>2, <2>6, <3>2
  <2>8. PICK j, g : j = i /\ g = ~I!Stored(c.intake, i)
    OBVIOUS
  <2>9. j = I!Upserted(c.intake, q, "seedIntake") /\ g = ~I!Stored(c.intake, j)
    BY <2>4, <2>8
  <2>10. I!SeedIntake(c, second) = [record |-> r, university |-> a, new |-> b,
                                    program |-> q, newProgram |-> e,
                                    intake |-> j, newIntake |-> g]
    <3>1. second.program = q
      BY <2>6
    <3>2. I!SeedIntake(c, second) = [second EXCEPT !.intake = j, !.newIntake = g]
      BY <2>9, <3>1 DEF I!SeedIntake
    <3> QED BY <2>6, <3>2
  <2> HIDE DEF found, u, p, i
  <2> QED BY <2>1, <2>3, <2>4, <2>7, <2>8, <2>10 DEF I!SeedPlan
<1>2. r.name \in UniversityName /\ "seed" \in I!University
  BY DEF I!Record, I!University
<1>3. \A w \in found : w \in I!University /\ I!Exists(c, w)
  <2>1. CASE I!Exists(c, "seed")
    BY <1>2, <2>1 DEF I!Find
  <2>2. CASE ~I!Exists(c, "seed")
    BY <1>2, <2>2, NamedFacts DEF I!Find
  <2> QED BY <2>1, <2>2
<1>4. u \in I!University /\ (u = "seed" \/ I!Exists(c, u))
  BY <1>2, <1>3
<1>4a. u = "seed" \/ (~I!Exists(c, "seed") /\ I!Named(c, r.name) = {u})
  <2>1. CASE I!Exists(c, "seed")
    BY <2>1 DEF I!Find
  <2>2. CASE ~I!Exists(c, "seed") /\ found # {}
    <3>1. found = I!Named(c, r.name) /\ u \in found
      BY <2>2 DEF I!Find
    <3> QED BY <1>2, <2>2, <3>1, NamedFacts
  <2> QED BY <2>1, <2>2
<1> HIDE DEF u, found
<1>5. p \in I!Program /\ (p = "seedProgram" \/ I!Stored(c.program, p))
  BY <1>4, UpsertedFacts
<1> HIDE DEF p
<1>6. i \in I!Intake /\ i \in {"seedIntake", c.intake[p]}
  BY <1>5, UpsertedFacts
<1> HIDE DEF i
<1>7. (found = {}) \in BOOLEAN /\ I!Stored(c.program, p) \in BOOLEAN /\ I!Stored(c.intake, i) \in BOOLEAN
  BY DEF I!Stored
<1> QED BY <1>1, <1>4, <1>4a, <1>5, <1>6, <1>7 DEF I!SeedPlans

\* What each read of the seed makes of its plan.
LEMMA SeedUniversityRead ==
    ASSUME NEW c, Sound(c), NEW r \in I!Record
    PROVE  /\ I!SeedUniversity(c, r) \in I!SeedPlans
           /\ I!SeedPlanHolds(c, I!SeedUniversity(c, r))
           /\ I!SeedUniversity(c, r).intake = "seedIntake"
<1> DEFINE found == I!Find(c, "seed", r.name)
           u == IF found = {} THEN "seed" ELSE CHOOSE x \in found : TRUE
<1>1. I!SeedUniversity(c, r) =
         [record |-> r, university |-> u, new |-> found = {}, program |-> "seedProgram",
          newProgram |-> TRUE, intake |-> "seedIntake", newIntake |-> TRUE]
  BY DEF I!SeedUniversity
<1>2. \A w \in found : w \in I!University /\ I!Exists(c, w)
  BY NamedFacts DEF I!Find, I!Record, I!University
<1>3. u \in I!University /\ (u = "seed" \/ I!Exists(c, u))
  BY <1>2 DEF I!University
<1>4. (found = {}) \in BOOLEAN /\ "seedProgram" \in I!Program /\ "seedIntake" \in I!Intake
  BY DEF I!Program, I!Intake
<1> HIDE DEF u, found
<1> QED BY <1>1, <1>3, <1>4 DEF I!SeedPlans, I!SeedPlanHolds

LEMMA SeedRowRead ==
    ASSUME NEW c, Sound(c), NEW plan \in I!SeedPlans, I!SeedPlanHolds(c, plan)
    PROVE  /\ plan.intake = "seedIntake" =>
                 /\ I!SeedProgram(c, plan) \in I!SeedPlans
                 /\ I!SeedPlanHolds(c, I!SeedProgram(c, plan))
           /\ I!SeedIntake(c, plan) \in I!SeedPlans
           /\ I!SeedPlanHolds(c, I!SeedIntake(c, plan))
<1>1. plan.university \in I!University /\ plan.program \in I!Program
  BY DEF I!SeedPlans
<1> DEFINE p == I!Upserted(c.program, plan.university, "seedProgram")
           i == I!Upserted(c.intake, plan.program, "seedIntake")
<1>2. p \in I!Program /\ (p = "seedProgram" \/ I!Stored(c.program, p))
  BY <1>1, UpsertedFacts
<1>3. i \in I!Intake /\ i \in {"seedIntake", c.intake[plan.program]}
  BY <1>1, UpsertedFacts
<1>4. /\ I!SeedProgram(c, plan) = [plan EXCEPT !.program = p, !.newProgram = ~I!Stored(c.program, p)]
      /\ I!SeedIntake(c, plan) = [plan EXCEPT !.intake = i, !.newIntake = ~I!Stored(c.intake, i)]
  BY DEF I!SeedProgram, I!SeedIntake
<1>5. I!Stored(c.program, p) \in BOOLEAN /\ I!Stored(c.intake, i) \in BOOLEAN
  BY DEF I!Stored
<1> HIDE DEF p, i
<1> QED BY <1>2, <1>3, <1>4, <1>5 DEF I!SeedPlans, I!SeedPlanHolds

LEMMA RorPlanned ==
    ASSUME NEW c, Sound(c), NEW r \in I!Record
    PROVE  /\ I!RorPlan(c, r) \in I!RorPlans
           /\ I!RorPlan(c, r).new => I!RorPlan(c, r).university = "ror"
           /\ ~I!RorPlan(c, r).new => I!Exists(c, I!RorPlan(c, r).university)
           /\ I!RorPlan(c, r).fill => I!Exists(c, I!RorPlan(c, r).university)
           /\ I!RorPlan(c, r).record = r
           /\ I!RorPlan(c, r).new <=> I!Named(c, r.name) = {}
           /\ ~I!RorPlan(c, r).new => I!RorPlan(c, r).university \in I!Named(c, r.name)
           /\ I!RorPlan(c, r).fill <=>
                 ~I!RorPlan(c, r).new /\ c.university[I!RorPlan(c, r).university].city = "none"
<1> DEFINE found == I!Named(c, r.name)
           u == IF found = {} THEN "ror" ELSE CHOOSE x \in found : TRUE
<1>1. I!RorPlan(c, r) = [record |-> r, university |-> u, new |-> found = {},
                         fill |-> found # {} /\ c.university[u].city = "none"]
  BY DEF I!RorPlan
<1>2. r.name \in UniversityName /\ "ror" \in I!University
  BY DEF I!Record, I!University
<1>3. \A w \in found : w \in I!University /\ I!Exists(c, w)
  BY <1>2, NamedFacts
<1>4. u \in I!University /\ (found # {} => I!Exists(c, u)) /\ (found = {} => u = "ror")
  BY <1>2, <1>3
<1>4a. /\ found = {} <=> I!Named(c, r.name) = {}
       /\ found # {} => u \in I!Named(c, r.name)
  OBVIOUS
<1> HIDE DEF u, found
<1>5. /\ I!RorPlan(c, r) \in I!RorPlans
      /\ I!RorPlan(c, r).new <=> found = {}
      /\ I!RorPlan(c, r).university = u
      /\ I!RorPlan(c, r).fill <=> found # {} /\ c.university[u].city = "none"
      /\ I!RorPlan(c, r).record = r
  <2>1. PICK b \in BOOLEAN, e \in BOOLEAN :
           (b <=> found = {}) /\ (e <=> found # {} /\ c.university[u].city = "none")
    OBVIOUS
  <2>2. I!RorPlan(c, r) = [record |-> r, university |-> u, new |-> b, fill |-> e]
    BY <1>1, <2>1
  <2>3. [record |-> r, university |-> u, new |-> b, fill |-> e] \in I!RorPlans
    BY <1>4 DEF I!RorPlans
  <2> QED BY <2>1, <2>2, <2>3
<1> QED BY <1>4, <1>4a, <1>5

LEMMA RepairPlanned ==
    ASSUME NEW c, Sound(c)
    PROVE  /\ I!RepairPlan(c) \in I!RepairPlans
           /\ I!RepairPlan(c).duplicate \cap I!RepairPlan(c).canonical = {}
           /\ \A u \in I!RepairPlan(c).duplicate \cup I!RepairPlan(c).canonical : I!ActiveIn(c, u)
BY ImportConstants DEF I!RepairPlan, I!RepairPlans, I!Named, I!ActiveIn

LEMMA TmmPlanned ==
    ASSUME NEW c, Sound(c), NEW n \in UniversityName
    PROVE  /\ I!TmmPlan(c, n) \in I!TmmPlans
           /\ IF I!TmmPlan(c, n).new THEN I!TmmPlan(c, n).university = "tmm"
              ELSE /\ I!Exists(c, I!TmmPlan(c, n).university)
                   /\ I!ArchivedIn(c, I!TmmPlan(c, n).university) =>
                         I!Aliased(c, I!TmmPlan(c, n).university)
           /\ I!TmmPlan(c, n).name = n
           /\ I!TmmPlan(c, n).new => I!Named(c, I!Lookup(n)) = {}
<1> DEFINE l == I!Lookup(n)
           named == I!Named(c, l)
           aliased == {w \in I!University : <<w, l>> \in c.alias}
           found == IF named # {} THEN named ELSE aliased
           u == IF found = {} THEN "tmm" ELSE CHOOSE w \in found : TRUE
<1>1. I!TmmPlan(c, n) = [name |-> n, new |-> found = {}, university |-> u]
  BY DEF I!TmmPlan
<1>2. l \in UniversityName /\ l # Historical /\ "tmm" \in I!University
  BY ImportConstants DEF I!Lookup, I!University
<1>2a. found = {} => I!Named(c, I!Lookup(n)) = {}
  OBVIOUS
<1> HIDE DEF l
<1>3. \A w \in named : w \in I!University /\ I!Exists(c, w) /\ ~I!ArchivedIn(c, w)
  BY <1>2, NamedFacts DEF I!ArchivedIn
<1>4. \A w \in aliased : w \in I!University /\ I!Exists(c, w) /\ I!Aliased(c, w)
  BY SoundFacts DEF I!Aliased, l
<1> HIDE DEF named, aliased
<1>5. u \in I!University
      /\ IF found = {} THEN u = "tmm"
         ELSE I!Exists(c, u) /\ (I!ArchivedIn(c, u) => I!Aliased(c, u))
  BY <1>2, <1>3, <1>4
<1> HIDE DEF u, found
<1>6. /\ I!TmmPlan(c, n) \in I!TmmPlans
      /\ I!TmmPlan(c, n).new <=> found = {}
      /\ I!TmmPlan(c, n).university = u /\ I!TmmPlan(c, n).name = n
  <2>1. PICK b \in BOOLEAN : b <=> found = {}
    OBVIOUS
  <2>2. I!TmmPlan(c, n) = [name |-> n, new |-> b, university |-> u]
    BY <1>1, <2>1
  <2>3. [name |-> n, new |-> b, university |-> u] \in I!TmmPlans
    BY <1>5 DEF I!TmmPlans
  <2> QED BY <2>1, <2>2, <2>3
<1> QED BY <1>2a, <1>5, <1>6

-----------------------------------------------------------------------------
(* What an import that nothing overlaps does.                               *)

LEMMA RorOnceWins ==
    ASSUME NEW c, Sound(c), NEW r \in I!Record
    PROVE  /\ I!RorOnce(c, r).ok
           /\ \A w \in I!University : I!Exists(c, w) =>
                 LET old == c.university
                     now == I!RorOnce(c, r).catalogue.university
                 IN  /\ now[w].name = old[w].name /\ now[w].active = old[w].active
                     /\ old[w].city # "none" => now[w].city = old[w].city
<1>1. PICK plan : plan = I!RorPlan(c, r)
  OBVIOUS
<1>2. PICK u, row : /\ u = plan.university
                    /\ row = [name |-> r.name, active |-> TRUE, city |-> "registry"]
  OBVIOUS
<1>3. /\ plan \in I!RorPlans /\ plan.record = r /\ u \in I!University
      /\ ~plan.new => I!Exists(c, u)
      /\ plan.new <=> I!Named(c, r.name) = {}
      /\ plan.fill => ~plan.new /\ c.university[u].city = "none"
  BY <1>1, <1>2, RorPlanned DEF I!RorPlans
<1>4. /\ r.name # "none" /\ r.alias \in UniversityName \cup {"none"}
  BY ImportConstants DEF I!Record
<1> DEFINE create == plan.new /\ ~I!Exists(c, u) /\ I!Named(c, r.name) = {}
           written == IF create THEN [c EXCEPT !.university[u] = row]
                      ELSE IF plan.fill THEN [c EXCEPT !.university[u].city = "registry"] ELSE c
<1>5. I!RorOnce(c, r) = IF I!Exists(written, u) THEN I!Done(I!AddAlias(written, u, r.alias))
                        ELSE I!Failed(c)
  BY <1>1, <1>2, <1>3 DEF I!RorOnce, I!RorWrite
<1>6. /\ written \in I!Catalogue /\ I!Exists(written, u)
      /\ \A w \in I!University : I!Exists(c, w) =>
            /\ written.university[w].name = c.university[w].name
            /\ written.university[w].active = c.university[w].active
            /\ c.university[w].city # "none" => written.university[w].city = c.university[w].city
  <2>1. CASE create
    <3>1. written = [c EXCEPT !.university = [c.university EXCEPT ![u] = row]]
      BY <2>1
    <3>2. row \in I!Row /\ row.name # "none"
      BY <1>2, <1>4, ImportConstants DEF I!Record, I!Row
    <3>3. [c.university EXCEPT ![u] = row] \in [I!University -> I!Row \cup {I!NoRow}]
      BY <1>3, <3>2, SoundFacts
    <3>4. written \in I!Catalogue /\ written.university = [c.university EXCEPT ![u] = row]
      BY <3>1, <3>3, SoundFacts DEF I!Catalogue
    <3>5. ~I!Exists(c, u)
      BY <2>1
    <3> HIDE DEF written, create
    <3> QED BY <1>3, <3>2, <3>4, <3>5, SoundFacts DEF I!Exists
  <2>2. CASE ~create /\ plan.fill
    <3> DEFINE x == [c.university[u] EXCEPT !.city = "registry"]
    <3>1. written = [c EXCEPT !.university = [c.university EXCEPT ![u] = x]]
      BY <1>3, <2>2, SoundFacts
    <3>2. c.university[u] \in I!Row /\ I!Exists(c, u)
      <4>1. c.university[u] \in I!Row \cup {I!NoRow} /\ I!Exists(c, u)
        BY <1>3, <2>2, SoundFacts
      <4> QED BY <4>1, RowFields DEF I!Exists
    <3>3. x.name = c.university[u].name /\ x.active = c.university[u].active
      BY <3>2 DEF I!Row
    <3>3a. x \in I!Row
      BY <3>2, RowFields DEF I!Exists
    <3>4. written \in I!Catalogue /\ written.university = [c.university EXCEPT ![u] = x]
      <4>1. [c.university EXCEPT ![u] = x] \in [I!University -> I!Row \cup {I!NoRow}]
        BY <1>3, <3>3a, SoundFacts
      <4> HIDE DEF x, written, create
      <4> QED BY <3>1, <4>1, SoundFacts DEF I!Catalogue
    <3>5. \A w \in I!University : written.university[w] = IF w = u THEN x ELSE c.university[w]
      BY <1>3, <3>4, SoundFacts
    <3> HIDE DEF written
    <3> QED BY <1>3, <2>2, <3>2, <3>3, <3>4, <3>5 DEF I!Exists
  <2>3. CASE ~create /\ ~plan.fill
    BY <1>3, <2>3, SoundFacts
  <2> QED BY <2>1, <2>2, <2>3
<1> HIDE DEF written
<1>7. I!AddAlias(written, u, r.alias).university = written.university
  <2>1. written \in I!Catalogue /\ u \in I!University /\ r.alias \in UniversityName \cup {"none"}
    BY <1>3, <1>4, <1>6
  <2> QED BY ONLY <2>1, AliasAdded, Zenon
<1> QED BY <1>5, <1>6, <1>7 DEF I!Done

LEMMA TmmFailuresKnown ==
    ASSUME NEW c, Sound(c), NEW n \in UniversityName,
           NEW plan, plan = I!TmmPlan(c, n), NEW u, u = plan.university,
           ~I!TmmWrite(c, plan).ok
    PROVE  \/ c.program[u] # "none" /\ c.intake[c.program[u]] \notin {"none", c.program[u]}
           \/ n = Historical /\ plan.new /\ I!Named(c, Historical) \ {"tmm"} # {}
<1>1. PICK row : row = [name |-> n, active |-> TRUE, city |-> "registry"]
  OBVIOUS
<1>2. /\ u \in I!University /\ plan.name = n /\ row.name = n /\ n # "none"
      /\ plan.new => u = "tmm" /\ I!Named(c, I!Lookup(n)) = {}
      /\ ~plan.new => I!Exists(c, u)
  BY <1>1, TmmPlanned, ImportConstants DEF I!TmmPlans
<1> DEFINE create == plan.new /\ ~I!Exists(c, u) /\ I!Named(c, n) = {}
           universities == IF create THEN [c EXCEPT !.university[u] = row] ELSE c
           taken == c.program[u] # "none" \/ I!Stored(c.program, u)
           programs == IF taken THEN universities ELSE [universities EXCEPT !.program[u] = u]
           p == programs.program[u]
           intakes == IF p # "none" /\ programs.intake[p] = "none"
                      THEN [programs EXCEPT !.intake[p] = p] ELSE programs
<1>3. \/ ~taken /\ ~I!Exists(universities, u)
      \/ p # "none" /\ ~I!Stored(programs.program, p)
      \/ p # "none" /\ intakes.intake[p] # p
  BY <1>1, <1>2 DEF I!TmmWrite, I!TmmProgram, I!Done
<1>4. /\ universities.program = c.program /\ universities.intake = c.intake
      /\ DOMAIN universities = DOMAIN c
      /\ create => I!Exists(universities, u)
  BY <1>2, SoundFacts DEF I!Catalogue, I!Exists
<1>5. /\ programs.intake = c.intake /\ u \in DOMAIN programs.program
      /\ DOMAIN programs = DOMAIN c
      /\ p = IF taken THEN c.program[u] ELSE u
  <2>1. CASE taken
    BY <1>2, <1>4, <2>1, SoundFacts
  <2>2. CASE ~taken
    <3>1. programs = [universities EXCEPT !.program = [c.program EXCEPT ![u] = u]]
      BY <1>4, <2>2
    <3>2. DOMAIN c = {"university", "alias", "program", "intake"}
      BY SoundFacts DEF I!Catalogue
    <3>3. /\ programs.intake = c.intake /\ programs.program = [c.program EXCEPT ![u] = u]
          /\ DOMAIN programs = DOMAIN c
      BY <1>4, <3>1, <3>2
    <3>4. c.program \in [I!University -> I!Program \cup {"none"}]
      BY SoundFacts
    <3> HIDE DEF programs
    <3> QED BY <1>2, <2>2, <3>3, <3>4
  <2> QED BY <2>1, <2>2
<1>6. CASE ~taken /\ ~I!Exists(universities, u)
  <2>1. ~create /\ plan.new /\ ~I!Exists(c, "tmm")
    BY <1>2, <1>4, <1>6
  <2>2. PICK w \in I!University : c.university[w].name = n
    BY <1>2, <2>1 DEF I!Named
  <2>3. n = Historical
    BY <1>2, <2>1, <2>2 DEF I!Lookup, I!Named
  <2>4. w # "tmm"
    BY <1>2, <2>1, <2>2 DEF I!Exists
  <2> QED BY <2>1, <2>2, <2>3, <2>4 DEF I!Named
<1> HIDE DEF programs, universities, p
<1>7. CASE p # "none" /\ ~I!Stored(programs.program, p)
  BY <1>5, <1>7 DEF I!Stored, p
<1>8. CASE p # "none" /\ intakes.intake[p] # p
  <2>1. p \in I!Program
    BY <1>2, <1>5, <1>8, SoundFacts DEF I!Program
  <2>2. c.intake[p] # "none"
    <3>1. SUFFICES ASSUME c.intake[p] = "none" PROVE intakes.intake[p] = p
      BY <1>8
    <3>2. intakes = [programs EXCEPT !.intake = [c.intake EXCEPT ![p] = p]]
      BY <1>5, <1>8, <3>1
    <3>3. "intake" \in DOMAIN programs /\ p \in DOMAIN c.intake
      BY <1>5, <2>1, SoundFacts DEF I!Catalogue
    <3> HIDE DEF intakes
    <3>4. intakes.intake = [c.intake EXCEPT ![p] = p]
      BY <3>2, <3>3
    <3> QED BY <3>3, <3>4
  <2>3. c.intake[p] # p
    BY <1>5, <1>8, <2>2
  <2>4. taken
    BY <1>2, <1>5, <2>1, <2>2, SoundFacts
  <2> QED BY <1>5, <1>8, <2>2, <2>3, <2>4
<1> QED BY <1>3, <1>6, <1>7, <1>8

-----------------------------------------------------------------------------
(* What was planned still holds after another writer committed.             *)

LEMMA SeedPlanKept ==
    ASSUME NEW c, NEW d, NEW plan \in I!SeedPlans, I!SeedPlanHolds(c, plan),
           Grows(c, d), KeepsIntakes(c, d)
    PROVE  I!SeedPlanHolds(d, plan)
<1>1. plan.university \in I!University /\ plan.program \in I!Program /\ plan.intake # "none"
  BY DEF I!SeedPlans, I!Intake, I!Program, I!University
<1> QED BY <1>1 DEF I!SeedPlanHolds, Grows, KeepsIntakes

LEMMA RorPlanKept ==
    ASSUME NEW c, NEW d, NEW plan \in I!RorPlans, I!RorPlanHolds(c, plan), Grows(c, d)
    PROVE  I!RorPlanHolds(d, plan)
<1>1. plan.university \in I!University
  BY DEF I!RorPlans
<1> QED BY <1>1 DEF I!RorPlanHolds, Grows

LEMMA RepairPlanKept ==
    ASSUME NEW c, NEW d, NEW plan \in I!RepairPlans, I!RepairPlanHolds(c, plan),
           ArchivesNothing(c, d)
    PROVE  I!RepairPlanHolds(d, plan)
<1>1. plan.duplicate \subseteq I!University /\ plan.canonical \subseteq I!University
  BY DEF I!RepairPlans
<1> QED BY <1>1 DEF I!RepairPlanHolds, ArchivesNothing

LEMMA TmmPlanKept ==
    ASSUME NEW c, NEW d, NEW plan \in I!TmmPlans, I!TmmPlanHolds(c, plan),
           Grows(c, d), ArchivesNothing(c, d)
    PROVE  I!TmmPlanHolds(d, plan)
<1>1. plan.university \in I!University
  BY DEF I!TmmPlans
<1>2. I!Aliased(c, plan.university) => I!Aliased(d, plan.university)
  BY DEF Grows, I!Aliased
<1> QED BY <1>1, <1>2 DEF I!TmmPlanHolds, Grows, ArchivesNothing

LEMMA PublicationKept ==
    ASSUME NEW c, NEW d, NEW u \in I!University, I!PublicationHolds(c, u),
           Grows(c, d), SubmitsNothing(c, d)
    PROVE  I!PublicationHolds(d, u)
BY DEF I!PublicationHolds, Grows, SubmitsNothing

-----------------------------------------------------------------------------
(* The invariant.                                                           *)

ImportIInv == I!TypeOK /\ Sound(rows) /\ I!PlansStillHold

LEMMA IdleFacts == I!Idle.pc = "idle" /\ \A v : [pc |-> "write", plan |-> v] # I!Idle
BY DEF I!Idle

LEMMA ImportTypes ==
    ASSUME I!TypeOK
    PROVE  /\ seed # I!Idle => seed.plan \in I!SeedPlans
           /\ ror # I!Idle => ror.pc = "write" /\ ror.plan \in I!RorPlans
           /\ tmm.pc = "repair" => tmm.plan \in I!RepairPlans
           /\ tmm.pc = "write" => tmm.plan \in I!TmmPlans
           /\ publication # I!Idle => publication.university \in I!University
           /\ commits \in 0..MaxCommits
<1>1. seed # I!Idle => seed.plan \in I!SeedPlans
  BY DEF I!TypeOK
<1>2. ror # I!Idle => ror.pc = "write" /\ ror.plan \in I!RorPlans
  BY DEF I!TypeOK
<1>3. /\ tmm.pc = "repair" => tmm.plan \in I!RepairPlans
      /\ tmm.pc = "write" => tmm.plan \in I!TmmPlans
  BY DEF I!TypeOK, I!Idle
<1>4. publication # I!Idle => publication.university \in I!University
  BY DEF I!TypeOK
<1> QED BY <1>1, <1>2, <1>3, <1>4 DEF I!TypeOK

LEMMA ImportInit == I!Init => ImportIInv
<1> SUFFICES ASSUME I!Init PROVE ImportIInv
  OBVIOUS
<1>1. /\ rows.university = [u \in I!University |-> I!NoRow] /\ rows.alias = {}
      /\ rows.program = [u \in I!University |-> "none"]
      /\ rows.intake = [p \in I!Program |-> "none"]
      /\ rows \in I!Catalogue
  BY DEF I!Init, I!Catalogue
<1>2. \A u \in I!University : ~I!Exists(rows, u)
  BY <1>1 DEF I!Exists, I!NoRow
<1>3. I!Whole(rows)
  <2>1. NamesDiffer(rows.university)
    BY <1>1 DEF NamesDiffer, I!NoRow
  <2>2. I!Injective(rows.program) /\ I!Injective(rows.intake)
    BY <1>1 DEF I!Injective
  <2> QED BY <1>1, <2>1, <2>2, WholeParts
<1>4. I!RowsAreOwn(rows) /\ I!Emptied(rows)
  <2>1. "tmm" \in I!University
    BY DEF I!University
  <2> QED BY <1>1, <1>2, <2>1 DEF I!RowsAreOwn, I!Emptied, I!ArchivedIn
<1>5. I!TypeOK
  BY <1>1, ImportConstants DEF I!TypeOK, I!Init
<1>6. I!PlansStillHold
  BY DEF I!PlansStillHold, I!Init, I!Idle
<1> QED BY <1>1, <1>3, <1>4, <1>5, <1>6 DEF ImportIInv, Sound

\* The plans of the others, after a commit that grows the catalogue.
LEMMA PlansKept ==
    ASSUME ImportIInv, Grows(rows, rows')
    PROVE  /\ ror' = ror => (ror # I!Idle => I!RorPlanHolds(rows, ror.plan))'
           /\ seed' = seed /\ KeepsIntakes(rows, rows') =>
                 (/\ seed # I!Idle => I!SeedPlanHolds(rows, seed.plan)
                  /\ seed.pc = "program" => seed.plan.intake = "seedIntake")'
           /\ tmm' = tmm /\ ArchivesNothing(rows, rows') =>
                 (tmm.pc = "repair" => I!RepairPlanHolds(rows, tmm.plan))'
           /\ tmm' = tmm /\ ArchivesNothing(rows, rows') =>
                 (tmm.pc = "write" => I!TmmPlanHolds(rows, tmm.plan))'
           /\ publication' = publication /\ SubmitsNothing(rows, rows') =>
                 (publication # I!Idle => I!PublicationHolds(rows, publication.university))'
<1>1. I!TypeOK /\ I!PlansStillHold
  BY DEF ImportIInv
<1>2. ror' = ror => (ror # I!Idle => I!RorPlanHolds(rows, ror.plan))'
  BY <1>1, ImportTypes, RorPlanKept DEF I!PlansStillHold
<1>3. seed' = seed /\ KeepsIntakes(rows, rows') =>
         (/\ seed # I!Idle => I!SeedPlanHolds(rows, seed.plan)
          /\ seed.pc = "program" => seed.plan.intake = "seedIntake")'
  BY <1>1, ImportTypes, SeedPlanKept DEF I!PlansStillHold
<1>4. tmm' = tmm /\ ArchivesNothing(rows, rows') =>
         (tmm.pc = "repair" => I!RepairPlanHolds(rows, tmm.plan))'
  BY <1>1, ImportTypes, RepairPlanKept DEF I!PlansStillHold
<1>5. tmm' = tmm /\ ArchivesNothing(rows, rows') =>
         (tmm.pc = "write" => I!TmmPlanHolds(rows, tmm.plan))'
  BY <1>1, ImportTypes, TmmPlanKept DEF I!PlansStillHold
<1>6. publication' = publication /\ SubmitsNothing(rows, rows') =>
         (publication # I!Idle => I!PublicationHolds(rows, publication.university))'
  BY <1>1, ImportTypes, PublicationKept DEF I!PlansStillHold
<1> QED BY <1>2, <1>3, <1>4, <1>5, <1>6

LEMMA SeedCommitKeeps == ImportIInv /\ I!SeedCommit => ImportIInv'
<1> SUFFICES ASSUME ImportIInv, I!SeedCommit PROVE ImportIInv'
  OBVIOUS
<1>1. /\ seed.pc = "write" /\ seed' = I!Idle /\ UNCHANGED <<ror, tmm, publication>>
      /\ I!SeedWrite(rows, seed.plan).ok
      /\ rows' = I!SeedWrite(rows, seed.plan).catalogue
      /\ commits < MaxCommits /\ commits' = commits + 1
  BY DEF I!SeedCommit, I!Commit
<1>2. /\ seed # I!Idle /\ seed.plan \in I!SeedPlans /\ I!SeedPlanHolds(rows, seed.plan)
      /\ Sound(rows) /\ I!TypeOK
  BY <1>1, ImportTypes, IdleFacts DEF ImportIInv, I!PlansStillHold
<1>3. Sound(rows') /\ Grows(rows, rows') /\ ArchivesNothing(rows, rows') /\ SubmitsNothing(rows, rows')
  BY <1>1, <1>2, SeedKeeps DEF I!SeedPlanHolds
<1>4. I!PlansStillHold'
  <2>1. seed' = I!Idle /\ seed'.pc # "program"
    BY <1>1, IdleFacts
  <2> QED BY <1>1, <1>3, <2>1, PlansKept DEF I!PlansStillHold
<1>5. I!TypeOK'
  BY <1>1, <1>2, <1>3, ImportConstants DEF I!TypeOK, Sound
<1> QED BY <1>3, <1>4, <1>5 DEF ImportIInv, Sound

LEMMA RorCommitKeeps == ImportIInv /\ I!RorCommit => ImportIInv'
<1> SUFFICES ASSUME ImportIInv, I!RorCommit PROVE ImportIInv'
  OBVIOUS
<1>1. /\ ror.pc = "write" /\ ror' = I!Idle /\ UNCHANGED <<seed, tmm, publication>>
      /\ I!RorWrite(rows, ror.plan).ok
      /\ rows' = I!RorWrite(rows, ror.plan).catalogue
      /\ commits < MaxCommits /\ commits' = commits + 1
  BY DEF I!RorCommit, I!Commit
<1>2. /\ ror # I!Idle /\ ror.plan \in I!RorPlans /\ I!RorPlanHolds(rows, ror.plan)
      /\ Sound(rows) /\ I!TypeOK
  BY <1>1, ImportTypes, IdleFacts DEF ImportIInv, I!PlansStillHold
<1>3. /\ Sound(rows') /\ Grows(rows, rows') /\ ArchivesNothing(rows, rows')
      /\ KeepsIntakes(rows, rows') /\ SubmitsNothing(rows, rows')
  BY <1>1, <1>2, RorKeeps DEF I!RorPlanHolds
<1>4. I!PlansStillHold'
  BY <1>1, <1>3, PlansKept DEF I!PlansStillHold
<1>5. I!TypeOK'
  BY <1>1, <1>2, <1>3, ImportConstants DEF I!TypeOK, Sound
<1> QED BY <1>3, <1>4, <1>5 DEF ImportIInv, Sound

LEMMA RepairCommitKeeps == ImportIInv /\ I!RepairCommit => ImportIInv'
<1> SUFFICES ASSUME ImportIInv, I!RepairCommit PROVE ImportIInv'
  OBVIOUS
<1>1. /\ tmm.pc = "repair" /\ tmm' = [pc |-> "read"] /\ UNCHANGED <<seed, ror, publication>>
      /\ I!RepairWrite(rows, tmm.plan).ok
      /\ rows' = I!RepairWrite(rows, tmm.plan).catalogue
      /\ commits < MaxCommits /\ commits' = commits + 1
  BY DEF I!RepairCommit, I!Commit
<1>2. /\ tmm.plan \in I!RepairPlans /\ I!RepairPlanHolds(rows, tmm.plan)
      /\ Sound(rows) /\ I!TypeOK
  BY <1>1, ImportTypes DEF ImportIInv, I!PlansStillHold
<1>3. /\ Sound(rows') /\ Grows(rows, rows')
      /\ KeepsIntakes(rows, rows') /\ SubmitsNothing(rows, rows')
  BY <1>1, <1>2, RepairKeeps DEF I!RepairPlanHolds
<1>4. I!PlansStillHold'
  BY <1>1, <1>3, PlansKept DEF I!PlansStillHold
<1>5. I!TypeOK'
  BY <1>1, <1>2, <1>3, ImportConstants DEF I!TypeOK, Sound
<1> QED BY <1>3, <1>4, <1>5 DEF ImportIInv, Sound

LEMMA TmmCommitKeeps == ImportIInv /\ I!TmmCommit => ImportIInv'
<1> SUFFICES ASSUME ImportIInv, I!TmmCommit PROVE ImportIInv'
  OBVIOUS
<1>1. /\ tmm.pc = "write" /\ tmm' = I!Idle /\ UNCHANGED <<seed, ror, publication>>
      /\ I!TmmWrite(rows, tmm.plan).ok
      /\ rows' = I!TmmWrite(rows, tmm.plan).catalogue
      /\ commits < MaxCommits /\ commits' = commits + 1
  BY DEF I!TmmCommit, I!Commit
<1>2. /\ tmm.plan \in I!TmmPlans /\ I!TmmPlanHolds(rows, tmm.plan)
      /\ Sound(rows) /\ I!TypeOK
  BY <1>1, ImportTypes DEF ImportIInv, I!PlansStillHold
<1>3. /\ Sound(rows') /\ Grows(rows, rows') /\ ArchivesNothing(rows, rows')
      /\ KeepsIntakes(rows, rows') /\ SubmitsNothing(rows, rows')
  BY <1>1, <1>2, TmmKeeps DEF I!TmmPlanHolds
<1>4. I!PlansStillHold'
  BY <1>1, <1>3, PlansKept, IdleFacts DEF I!PlansStillHold
<1>5. I!TypeOK'
  BY <1>1, <1>2, <1>3, ImportConstants DEF I!TypeOK, Sound
<1> QED BY <1>3, <1>4, <1>5 DEF ImportIInv, Sound

LEMMA PublishUniversityStep ==
    ASSUME NEW m \in UniversityName, ImportIInv, I!PublishUniversity(m)
    PROVE  ImportIInv'
<1>1. /\ ~I!Exists(rows, "submission") /\ I!Named(rows, m) = {}
      /\ UNCHANGED <<seed, ror, tmm, publication>>
      /\ rows' = [rows EXCEPT !.university["submission"] =
                      [name |-> m, active |-> TRUE, city |-> "none"]]
      /\ commits < MaxCommits /\ commits' = commits + 1
  BY DEF I!PublishUniversity, I!Commit, I!Done, I!writers
<1>2. Sound(rows) /\ I!TypeOK
  BY DEF ImportIInv
<1>3. /\ Sound(rows') /\ Grows(rows, rows') /\ ArchivesNothing(rows, rows')
      /\ KeepsIntakes(rows, rows') /\ SubmitsNothing(rows, rows')
  BY <1>1, <1>2, PublishUniversityKeeps
<1>4. I!PlansStillHold'
  BY <1>1, <1>3, PlansKept DEF I!PlansStillHold
<1>5. I!TypeOK'
  BY <1>1, <1>2, <1>3, ImportConstants DEF I!TypeOK, Sound
<1> QED BY <1>3, <1>4, <1>5 DEF ImportIInv, Sound

LEMMA PublishCommitKeeps == ImportIInv /\ I!PublishCommit => ImportIInv'
<1> SUFFICES ASSUME ImportIInv, I!PublishCommit PROVE ImportIInv'
  OBVIOUS
<1>1. /\ publication # I!Idle /\ rows.program[publication.university] = "none"
      /\ publication' = I!Idle /\ UNCHANGED <<seed, ror, tmm>>
      /\ rows' = [rows EXCEPT !.program[publication.university] = "submittedProgram"]
      /\ commits < MaxCommits /\ commits' = commits + 1
  BY DEF I!PublishCommit, I!Commit, I!Done
<1>2. /\ publication.university \in I!University
      /\ I!PublicationHolds(rows, publication.university)
      /\ Sound(rows) /\ I!TypeOK
  BY <1>1, ImportTypes DEF ImportIInv, I!PlansStillHold
<1>3. /\ Sound(rows') /\ Grows(rows, rows') /\ ArchivesNothing(rows, rows')
      /\ KeepsIntakes(rows, rows')
  BY <1>1, <1>2, PublishProgramKeeps DEF I!PublicationHolds
<1>4. I!PlansStillHold'
  BY <1>1, <1>3, PlansKept DEF I!PlansStillHold
<1>5. I!TypeOK'
  BY <1>1, <1>2, <1>3, ImportConstants DEF I!TypeOK, Sound
<1> QED BY <1>3, <1>4, <1>5 DEF ImportIInv, Sound

\* Reads and aborts leave the catalogue alone.
LEMMA ReadsKeep ==
    ASSUME ImportIInv,
           \/ I!SeedRead \/ I!SeedReadProgram \/ I!SeedReadIntake
           \/ I!RorRead \/ I!RepairRead \/ I!TmmRead
           \/ \E u \in I!University : I!PublishRead(u)
           \/ I!Abort
    PROVE  ImportIInv'
<1>1. UNCHANGED <<rows, commits>>
  BY DEF I!SeedRead, I!SeedReadProgram, I!SeedReadIntake, I!RorRead, I!RepairRead, I!TmmRead,
         I!PublishRead, I!Abort, I!Unchanged
<1>2. Sound(rows) /\ I!TypeOK /\ I!PlansStillHold
  BY DEF ImportIInv
<1>3. CASE I!SeedRead \/ I!SeedReadProgram \/ I!SeedReadIntake
  <2>1. PICK plan \in I!SeedPlans, pc \in {"program", "intake", "write"} :
           /\ seed' = [pc |-> pc, plan |-> plan] /\ I!SeedPlanHolds(rows, plan)
           /\ pc = "program" => plan.intake = "seedIntake"
    <3>1. CASE I!SeedRead
      BY <1>2, <3>1, SeedUniversityRead DEF I!SeedRead
    <3>2. CASE I!SeedReadProgram \/ I!SeedReadIntake
      <4>1. /\ seed # I!Idle /\ seed.plan \in I!SeedPlans /\ I!SeedPlanHolds(rows, seed.plan)
            /\ seed.pc = "program" => seed.plan.intake = "seedIntake"
        BY <1>2, <3>2, ImportTypes DEF I!SeedReadProgram, I!SeedReadIntake, I!Idle, I!PlansStillHold
      <4> QED BY <1>2, <3>2, <4>1, SeedRowRead DEF I!SeedReadProgram, I!SeedReadIntake
    <3> QED BY <1>3, <3>1, <3>2
  <2>2. UNCHANGED <<ror, tmm, publication>>
    BY <1>3 DEF I!SeedRead, I!SeedReadProgram, I!SeedReadIntake
  <2>3. I!TypeOK' /\ I!PlansStillHold'
    BY <1>1, <1>2, <2>1, <2>2 DEF I!TypeOK, I!PlansStillHold
  <2> QED BY <1>1, <1>2, <2>3 DEF ImportIInv
<1>4. CASE I!RorRead
  <2>1. PICK r \in I!Record : ror' = [pc |-> "write", plan |-> I!RorPlan(rows, r)]
    BY <1>4 DEF I!RorRead
  <2>2. I!RorPlan(rows, r) \in I!RorPlans /\ I!RorPlanHolds(rows, I!RorPlan(rows, r))
    BY <1>2, RorPlanned DEF I!RorPlanHolds
  <2>3. I!TypeOK' /\ I!PlansStillHold'
    BY <1>1, <1>2, <1>4, <2>1, <2>2 DEF I!TypeOK, I!PlansStillHold, I!RorRead
  <2> QED BY <1>1, <1>2, <2>3 DEF ImportIInv
<1>5. CASE I!RepairRead
  <2>1. tmm' = [pc |-> "repair", plan |-> I!RepairPlan(rows)]
    BY <1>5 DEF I!RepairRead
  <2>2. I!RepairPlan(rows) \in I!RepairPlans /\ I!RepairPlanHolds(rows, I!RepairPlan(rows))
    BY <1>2, RepairPlanned DEF I!RepairPlanHolds
  <2>3. I!TypeOK' /\ I!PlansStillHold'
    BY <1>1, <1>2, <1>5, <2>1, <2>2 DEF I!TypeOK, I!PlansStillHold, I!RepairRead
  <2> QED BY <1>1, <1>2, <2>3 DEF ImportIInv
<1>6. CASE I!TmmRead
  <2>1. PICK m \in UniversityName : tmm' = [pc |-> "write", plan |-> I!TmmPlan(rows, m)]
    BY <1>6 DEF I!TmmRead
  <2>2. I!TmmPlan(rows, m) \in I!TmmPlans /\ I!TmmPlanHolds(rows, I!TmmPlan(rows, m))
    BY <1>2, TmmPlanned DEF I!TmmPlanHolds
  <2>3. I!TypeOK' /\ I!PlansStillHold'
    BY <1>1, <1>2, <1>6, <2>1, <2>2 DEF I!TypeOK, I!PlansStillHold, I!TmmRead
  <2> QED BY <1>1, <1>2, <2>3 DEF ImportIInv
<1>7. ASSUME NEW u \in I!University, I!PublishRead(u) PROVE ImportIInv'
  <2>1. I!PublicationHolds(rows, u)
    <3>1. rows.university[u] \in I!Row \cup {I!NoRow}
      BY <1>2, SoundFacts
    <3> QED BY <1>7, <3>1, RowFields DEF I!PublishRead, I!PublicationHolds, I!Exists
  <2>2. publication' = [pc |-> "write", university |-> u]
    BY <1>7 DEF I!PublishRead
  <2>3. I!TypeOK' /\ I!PlansStillHold'
    BY <1>1, <1>2, <1>7, <2>1, <2>2 DEF I!TypeOK, I!PlansStillHold, I!PublishRead
  <2> QED BY <1>1, <1>2, <2>3 DEF ImportIInv
<1>8. CASE I!Abort
  <2>1. I!TypeOK' /\ I!PlansStillHold'
    BY <1>1, <1>2, <1>8, IdleFacts DEF I!TypeOK, I!PlansStillHold, I!Abort
  <2> QED BY <1>1, <1>2, <2>1 DEF ImportIInv
<1> QED BY <1>3, <1>4, <1>5, <1>6, <1>7, <1>8

-----------------------------------------------------------------------------
(* Running an import again.                                                 *)

LEMMA MovedTwice ==
    ASSUME NEW f, I!Injective(f), NEW D, NEW R, f \in [D -> R], NEW x \in D, NEW v,
           f[x] = v, v # "none"
    PROVE  I!Moved(f, x, v) = f
<1>1. \A y \in D : y # x => f[y] # v
  BY DEF I!Injective
<1>2. I!Moved(f, x, v) = [y \in D |-> IF y = x THEN v ELSE IF f[y] = v THEN "none" ELSE f[y]]
  BY DEF I!Moved
<1>3. \A y \in D : (IF y = x THEN v ELSE IF f[y] = v THEN "none" ELSE f[y]) = f[y]
  BY <1>1
<1> QED BY <1>2, <1>3

LEMMA AliasTwice ==
    ASSUME NEW c \in I!Catalogue, NEW u, NEW n, n = "none" \/ <<u, n>> \in c.alias
    PROVE  I!AddAlias(c, u, n) = c
<1>1. CASE n = "none"
  BY <1>1 DEF I!AddAlias
<1>2. CASE n # "none"
  <2>1. c.alias \cup {<<u, n>>} = c.alias
    BY <1>2
  <2>2. I!AddAlias(c, u, n) = [c EXCEPT !.alias = c.alias]
    BY <1>2, <2>1 DEF I!AddAlias
  <2> QED BY <2>2 DEF I!Catalogue
<1> QED BY <1>1, <1>2

LEMMA SeedTwice ==
    ASSUME NEW c, Sound(c), NEW r \in I!Record, I!SeedOnce(c, r).ok,
           NEW d, d = I!SeedOnce(c, r).catalogue
    PROVE  I!SeedOnce(d, r).ok /\ I!SeedOnce(d, r).catalogue = d
<1>1. PICK plan : plan = I!SeedPlan(c, r)
  OBVIOUS
<1>2. /\ plan \in I!SeedPlans /\ plan.record = r
      /\ plan.university = "seed" \/ I!Exists(c, plan.university)
      /\ plan.program = "seedProgram" \/ I!Stored(c.program, plan.program)
      /\ plan.intake \in {"seedIntake", c.intake[plan.program]}
      /\ \/ plan.university = "seed"
         \/ ~I!Exists(c, "seed") /\ I!Named(c, r.name) = {plan.university}
  BY <1>1, SeedPlanned
<1>3. I!SeedWrite(c, plan).ok /\ d = I!SeedWrite(c, plan).catalogue
  BY <1>1 DEF I!SeedOnce
<1>4. PICK u, p, i, n, row : SeedWrites(plan, c, d, u, p, i, n, row)
  BY <1>2, <1>3, SeedWriteParts DEF Sound
<1>5. Sound(d)
  BY <1>2, <1>3, SeedKeeps
<1>6. /\ u = plan.university /\ p = plan.program /\ i = plan.intake /\ n = r.alias
      /\ u \in I!University /\ p \in I!Program /\ i \in I!Intake
      /\ row = [name |-> r.name, active |-> TRUE, city |-> "curated"]
      /\ d.university = [c.university EXCEPT ![u] = row]
      /\ n = "none" \/ <<u, n>> \in d.alias
  BY <1>2, <1>4 DEF SeedWrites
<1>7. /\ d.program[u] = p
      /\ \A q : I!Stored(d.program, q) => I!Stored(c.program, q) \/ q \in {p, "none"}
      /\ d.intake[p] = i
      /\ \A q : I!Stored(d.intake, q) => I!Stored(c.intake, q) \/ q \in {i, "none"}
  <2>1. /\ c.program[u] \in {"none", p} /\ d.program = I!Moved(c.program, u, p)
        /\ c.intake[p] \in {"none", i} /\ d.intake = I!Moved(c.intake, p, i)
    BY <1>4 DEF SeedWrites
  <2>2. Moves(c.program, d.program, I!University, u, p)
    BY <1>6, <2>1, SoundFacts, ProgramMoved
  <2>3. Moves(c.intake, d.intake, I!Program, p, i)
    BY <1>6, <2>1, SoundFacts, IntakeMoved
  <2> QED BY <1>6, <2>2, <2>3 DEF Moves
<1>8. d.university[u] = row /\ \A w \in I!University \ {u} : d.university[w] = c.university[w]
  BY <1>6, SoundFacts
<1>9. r.name \in UniversityName /\ r.name # "none" /\ "seed" \in I!University
  BY ImportConstants DEF I!Record, I!University
<1>10. I!Find(d, "seed", r.name) = {u} /\ I!Named(d, r.name) = {u}
  <2>1. u \in I!Named(d, r.name)
    BY <1>6, <1>8 DEF I!Named
  <2>2. I!Named(d, r.name) = {u}
    BY <1>5, <1>9, <2>1, NamedFacts
  <2>3. CASE u = "seed"
    BY <1>6, <1>8, <1>9, <2>2, <2>3 DEF I!Find, I!Exists
  <2>4. CASE u # "seed"
    BY <1>2, <1>6, <1>8, <1>9, <2>2, <2>4 DEF I!Find, I!Exists
  <2> QED BY <2>2, <2>3, <2>4
<1>11. I!Upserted(d.program, u, "seedProgram") = p
  <2>1. p = I!Upserted(c.program, u, "seedProgram")
    BY <1>1, <1>6 DEF I!SeedPlan, I!SeedUniversity, I!SeedProgram, I!SeedIntake
  <2>2. p # "none"
    BY <1>6 DEF I!Program, I!University
  <2> QED BY <1>7, <2>1, <2>2 DEF I!Upserted
<1>12. I!Upserted(d.intake, p, "seedIntake") = i
  <2>1. i = I!Upserted(c.intake, p, "seedIntake")
    BY <1>1, <1>6 DEF I!SeedPlan, I!SeedUniversity, I!SeedProgram, I!SeedIntake
  <2>2. i # "none"
    BY <1>6 DEF I!Intake, I!Program, I!University
  <2> QED BY <1>7, <2>1, <2>2 DEF I!Upserted
<1>13. PICK again : again = I!SeedPlan(d, r)
  OBVIOUS
<1>14. /\ again.record = r /\ again.university = u /\ ~again.new
       /\ again.program = p /\ ~again.newProgram /\ again.intake = i /\ ~again.newIntake
  <2>1. (CHOOSE x \in I!Find(d, "seed", r.name) : TRUE) = u /\ I!Find(d, "seed", r.name) # {}
    BY <1>10
  <2>2. I!Stored(d.program, p) /\ I!Stored(d.intake, i)
    <3>1. u \in DOMAIN d.program /\ p \in DOMAIN d.intake
      BY <1>5, <1>6, SoundFacts
    <3> QED BY <1>7, <3>1 DEF I!Stored
  <2>3. again = [record |-> r, university |-> u, new |-> FALSE,
                 program |-> p, newProgram |-> ~I!Stored(d.program, p),
                 intake |-> i, newIntake |-> ~I!Stored(d.intake, i)]
    BY <1>11, <1>12, <1>13, <2>1 DEF I!SeedPlan, I!SeedUniversity, I!SeedProgram, I!SeedIntake
  <2> QED BY <2>2, <2>3
<1>15. /\ I!Moved(d.program, u, p) = d.program /\ I!Moved(d.intake, p, i) = d.intake
       /\ [d.university EXCEPT ![u] = row] = d.university
  <2>1. /\ I!Injective(d.program) /\ d.program \in [I!University -> I!Program \cup {"none"}]
        /\ I!Injective(d.intake) /\ d.intake \in [I!Program -> I!Intake \cup {"none"}]
        /\ d.university \in [I!University -> I!Row \cup {I!NoRow}]
    BY <1>5, SoundFacts
  <2>2. p # "none" /\ i # "none"
    BY <1>6 DEF I!Intake, I!Program, I!University
  <2>6. u \in I!University /\ p \in I!Program /\ d.program[u] = p /\ d.intake[p] = i
    BY <1>6, <1>7
  <2>3. I!Moved(d.program, u, p) = d.program
    BY ONLY <2>1, <2>2, <2>6, MovedTwice, Zenon
  <2>4. I!Moved(d.intake, p, i) = d.intake
    BY ONLY <2>1, <2>2, <2>6, MovedTwice, Zenon
  <2>5. [d.university EXCEPT ![u] = row] = d.university
    BY <1>6, <1>8, <2>1
  <2> QED BY <2>3, <2>4, <2>5
<1>16. [university |-> [d.university EXCEPT ![u] = row], alias |-> d.alias,
        program |-> I!Moved(d.program, u, p), intake |-> I!Moved(d.intake, p, i)] = d
  BY <1>5, <1>15, SoundFacts, CatalogueFields
<1>17. /\ ~I!Refused(d.program, u, p, again.newProgram)
       /\ ~I!Refused(d.intake, p, i, again.newIntake)
       /\ I!Named(d, r.name) \ {u} = {}
  BY <1>7, <1>10, <1>14 DEF I!Refused
<1>18. I!SeedWrite(d, again) = I!Done(I!AddAlias(d, u, n))
  BY <1>6, <1>14, <1>16, <1>17 DEF I!SeedWrite
<1>19. I!AddAlias(d, u, n) = d
  BY <1>5, <1>6, SoundFacts, AliasTwice
<1> QED BY <1>13, <1>18, <1>19 DEF I!SeedOnce, I!Done

LEMMA RorTwice ==
    ASSUME NEW c, Sound(c), NEW r \in I!Record, NEW d, d = I!RorOnce(c, r).catalogue
    PROVE  I!RorOnce(d, r).ok /\ I!RorOnce(d, r).catalogue = d
<1>1. PICK plan, u, n, row :
         /\ plan = I!RorPlan(c, r) /\ u = plan.university /\ n = r.alias
         /\ row = [name |-> r.name, active |-> TRUE, city |-> "registry"]
  OBVIOUS
<1>2. /\ plan \in I!RorPlans /\ plan.record = r /\ u \in I!University
      /\ plan.new => u = "ror"
      /\ ~plan.new => u \in I!Named(c, r.name)
      /\ plan.new <=> I!Named(c, r.name) = {}
      /\ plan.fill <=> ~plan.new /\ c.university[u].city = "none"
      /\ plan.fill => I!Exists(c, u)
  BY <1>1, RorPlanned DEF I!RorPlans
<1>3. /\ r.name \in UniversityName /\ r.name # "none" /\ n \in UniversityName \cup {"none"}
  BY <1>1, ImportConstants DEF I!Record
<1> DEFINE create == plan.new /\ ~I!Exists(c, u) /\ I!Named(c, r.name) = {}
           written == IF create THEN [c EXCEPT !.university[u] = row]
                      ELSE IF plan.fill THEN [c EXCEPT !.university[u].city = "registry"] ELSE c
<1>4. I!RorWrite(c, plan).ok /\ d = I!RorWrite(c, plan).catalogue
  BY <1>1, RorOnceWins DEF I!RorOnce
<1>5. Sound(d)
  <2>1. I!RorPlan(c, r).new => I!RorPlan(c, r).university = "ror"
    BY <1>1, <1>2
  <2> QED BY <1>1, <1>2, <1>4, RorKeeps
<1>6. d = I!AddAlias(written, u, n)
  BY <1>1, <1>2, <1>4 DEF I!RorWrite, I!Done, I!Failed
<1>7. /\ written \in I!Catalogue
      /\ \A w \in I!University \ {u} : written.university[w] = c.university[w]
      /\ IF create THEN written.university[u] = row
         ELSE /\ written.university[u].name = c.university[u].name
              /\ ~plan.new => written.university[u].city # "none"
  <2>1. CASE create
    <3>1. written = [c EXCEPT !.university = [c.university EXCEPT ![u] = row]]
      BY <2>1
    <3>2. row \in I!Row
      BY <1>1, <1>3 DEF I!Row
    <3>3. [c.university EXCEPT ![u] = row] \in [I!University -> I!Row \cup {I!NoRow}]
      BY <1>2, <3>2, SoundFacts
    <3>4. written \in I!Catalogue /\ written.university = [c.university EXCEPT ![u] = row]
      BY <3>1, <3>3, SoundFacts DEF I!Catalogue
    <3> HIDE DEF written, create
    <3> QED BY <1>2, <2>1, <3>4, SoundFacts
  <2>2. CASE ~create /\ plan.fill
    <3> DEFINE x == [c.university[u] EXCEPT !.city = "registry"]
    <3>1. written = [c EXCEPT !.university = [c.university EXCEPT ![u] = x]]
      BY <1>2, <2>2, SoundFacts
    <3>2. c.university[u] \in I!Row /\ I!Exists(c, u)
      <4>1. c.university[u] \in I!Row \cup {I!NoRow} /\ I!Exists(c, u)
        BY <1>2, <2>2, SoundFacts
      <4> QED BY <4>1, RowFields DEF I!Exists
    <3>3. x.name = c.university[u].name /\ x.city = "registry"
      BY <3>2 DEF I!Row
    <3>4. x \in I!Row
      BY <3>2, RowFields DEF I!Exists
    <3>5. written \in I!Catalogue /\ written.university = [c.university EXCEPT ![u] = x]
      <4>1. [c.university EXCEPT ![u] = x] \in [I!University -> I!Row \cup {I!NoRow}]
        BY <1>2, <3>4, SoundFacts
      <4> HIDE DEF x, written, create
      <4> QED BY <3>1, <4>1, SoundFacts DEF I!Catalogue
    <3>6. \A w \in I!University : written.university[w] = IF w = u THEN x ELSE c.university[w]
      BY <1>2, <3>5, SoundFacts
    <3> HIDE DEF written, create, x
    <3> QED BY <1>2, <2>2, <3>3, <3>5, <3>6
  <2>3. CASE ~create /\ ~plan.fill
    BY <1>2, <2>3, SoundFacts
  <2> QED BY <2>1, <2>2, <2>3
<1> HIDE DEF written
<1>8. /\ d.university = written.university
      /\ n = "none" \/ <<u, n>> \in d.alias
  <2>1. written \in I!Catalogue /\ u \in I!University /\ n \in UniversityName \cup {"none"}
    BY <1>2, <1>3, <1>7
  <2>2. /\ I!AddAlias(written, u, n).university = written.university
        /\ I!AddAlias(written, u, n).alias =
              IF n = "none" THEN written.alias ELSE written.alias \cup {<<u, n>>}
    BY ONLY <2>1, AliasAdded, Zenon
  <2> QED BY <1>6, <2>2
<1>9. PICK again : again = I!RorPlan(d, r)
  OBVIOUS
<1>10. /\ again.record = r /\ again \in I!RorPlans
       /\ again.new => again.university = "ror"
       /\ ~again.new => again.university \in I!Named(d, r.name)
       /\ again.new <=> I!Named(d, r.name) = {}
       /\ again.fill <=> ~again.new /\ d.university[again.university].city = "none"
  BY <1>5, <1>9, RorPlanned
<1>11. I!Exists(d, u) /\ again.university = u /\ ~again.fill
  <2>1. CASE create \/ ~plan.new
    <3>1. u \in I!Named(d, r.name)
      BY <1>1, <1>2, <1>7, <1>8, <2>1 DEF I!Named
    <3>2. I!Named(d, r.name) = {u} /\ I!Exists(d, u)
      BY <1>3, <1>5, <3>1, NamedFacts
    <3>3. d.university[u].city # "none"
      BY <1>1, <1>7, <1>8, <2>1
    <3> QED BY <1>10, <3>2, <3>3
  <2>2. CASE ~create /\ plan.new
    <3>1. I!Exists(c, u) /\ I!Named(c, r.name) = {} /\ u = "ror"
      BY <1>2, <2>2
    <3>2. \A w \in I!University : d.university[w].name = c.university[w].name
      BY <1>2, <1>7, <1>8, <2>2
    <3>3. I!Named(d, r.name) = {} /\ I!Exists(d, u)
      BY <1>2, <3>1, <3>2 DEF I!Named, I!Exists
    <3> QED BY <1>10, <3>1, <3>3
  <2> QED BY <2>1, <2>2
<1>12. I!RorWrite(d, again) = I!Done(I!AddAlias(d, u, n))
  BY <1>1, <1>10, <1>11 DEF I!RorWrite
<1>13. I!AddAlias(d, u, n) = d
  BY <1>5, <1>8, SoundFacts, AliasTwice
<1> QED BY <1>9, <1>12, <1>13 DEF I!RorOnce, I!Done

\* After a repair that succeeds there is nothing left to repair.
Repaired(c) == I!RepairPlan(c).duplicate = {} \/ I!RepairPlan(c).canonical = {}
LEMMA RepairTwice ==
    ASSUME NEW c, Sound(c), I!RepairOnce(c).ok, NEW d, d = I!RepairOnce(c).catalogue
    PROVE  /\ Sound(d) /\ Repaired(d)
           /\ \A w \in I!University : d.university[w].name = c.university[w].name
<1>1. PICK plan : plan = I!RepairPlan(c)
  OBVIOUS
<1>2. /\ plan \in I!RepairPlans /\ plan.duplicate \cap plan.canonical = {}
      /\ \A w \in plan.duplicate \cup plan.canonical : I!ActiveIn(c, w)
  BY <1>1, RepairPlanned
<1>3. I!RepairWrite(c, plan).ok /\ d = I!RepairWrite(c, plan).catalogue
  BY <1>1 DEF I!RepairOnce
<1>4. Sound(d)
  BY <1>2, <1>3, RepairKeeps
<1>5. CASE plan.duplicate = {} \/ plan.canonical = {}
  <2>1. d = c
    BY <1>3, <1>5 DEF I!RepairWrite, I!Done
  <2> QED BY <1>1, <1>4, <1>5, <2>1 DEF Repaired
<1>6. CASE plan.duplicate # {} /\ plan.canonical # {}
  <2>1. PICK x \in plan.duplicate : x = CHOOSE w \in plan.duplicate : TRUE
    BY <1>6
  <2>2. d.university = [c.university EXCEPT ![x].active = FALSE]
    BY <1>3, <1>6, <2>1 DEF I!RepairWrite, I!Done, I!Failed
  <2>3. x \in I!University /\ x \in I!Named(c, Historical)
    BY <1>1, <2>1 DEF I!RepairPlan, I!Named
  <2>4. I!Named(c, Historical) = {x} /\ I!Exists(c, x)
    BY <2>3, NamedFacts, ImportConstants
  <2>5. c.university[x] \in I!Row
    <3>1. c.university[x] \in I!Row \cup {I!NoRow}
      BY <2>3, SoundFacts
    <3> QED BY <2>4, <3>1, RowFields DEF I!Exists
  <2>6. /\ d.university[x].name = c.university[x].name /\ d.university[x].active = FALSE
        /\ \A w \in I!University \ {x} : d.university[w] = c.university[w]
    BY <2>2, <2>3, <2>5, SoundFacts DEF I!Row
  <2>7. \A w \in I!University : d.university[w].name = c.university[w].name
    BY <2>6
  <2>8. I!RepairPlan(d).duplicate = {}
    BY <2>4, <2>6, <2>7 DEF I!RepairPlan, I!Named
  <2> QED BY <1>4, <2>7, <2>8 DEF Repaired
<1> QED BY <1>5, <1>6

\* A TMM import writes nothing where the university and its programme are there.
LEMMA TmmSettledWrite ==
    ASSUME NEW d, Sound(d), NEW plan \in I!TmmPlans,
           ~TmmCreates(d, plan), TmmSettled(d, plan.university)
    PROVE  I!TmmWrite(d, plan) = I!Done(d)
<1>1. PICK u : u = plan.university /\ u \in I!University
  BY DEF I!TmmPlans
<1>2. PICK p : p = d.program[u]
  OBVIOUS
<1>3. ~(plan.new /\ ~I!Exists(d, u) /\ I!Named(d, plan.name) = {})
  BY <1>1 DEF TmmCreates
<1>4. d.program[u] # "none" \/ I!Stored(d.program, u)
  BY <1>1 DEF TmmSettled
<1>5. p # "none" => d.intake[p] = p /\ I!Stored(d.program, p)
  BY <1>1, <1>2, SoundFacts DEF TmmSettled, I!Stored
<1> QED BY <1>1, <1>2, <1>3, <1>4, <1>5 DEF I!TmmWrite, I!TmmProgram

LEMMA TmmTwice ==
    ASSUME NEW c, Sound(c), NEW n \in UniversityName, I!TmmOnce(c, n).ok,
           NEW d, d = I!TmmOnce(c, n).catalogue,
           ~(n = Canonical /\ I!Named(c, Canonical) = {} /\ I!Named(c, Historical) # {})
    PROVE  I!TmmOnce(d, n).ok /\ I!TmmOnce(d, n).catalogue = d
<1>1. I!RepairOnce(c).ok
  BY DEF I!TmmOnce
<1>2. PICK e, plan : e = I!RepairOnce(c).catalogue /\ plan = I!TmmPlan(e, n)
  OBVIOUS
<1>3. /\ Sound(e) /\ Repaired(e)
      /\ \A w \in I!University : e.university[w].name = c.university[w].name
  BY <1>1, <1>2, RepairTwice
<1>4. /\ plan \in I!TmmPlans /\ plan.name = n
      /\ IF plan.new THEN plan.university = "tmm"
         ELSE /\ I!Exists(e, plan.university)
              /\ I!ArchivedIn(e, plan.university) => I!Aliased(e, plan.university)
      /\ plan.new => I!Named(e, I!Lookup(n)) = {}
  BY <1>2, <1>3, TmmPlanned
<1>5. I!TmmWrite(e, plan).ok /\ d = I!TmmWrite(e, plan).catalogue
  BY <1>1, <1>2 DEF I!TmmOnce
<1>6. PICK u : u = plan.university /\ u \in I!University
  BY <1>4 DEF I!TmmPlans
<1>7. /\ Sound(d) /\ d.alias = e.alias
      /\ \A w \in I!University : d.university[w] =
            IF TmmCreates(e, plan) /\ w = u
            THEN [name |-> n, active |-> TRUE, city |-> "registry"] ELSE e.university[w]
      /\ TmmSettled(d, u)
  BY <1>3, <1>4, <1>5, <1>6, TmmKeeps
<1>8. PICK again : again = I!TmmPlan(d, n)
  OBVIOUS
<1>9. ASSUME ~TmmCreates(e, plan)
      PROVE  Repaired(d) /\ again.university = u /\ ~TmmCreates(d, again)
  <2>1. d.university = e.university
    BY <1>3, <1>7, <1>9, SoundFacts
  <2>2. Repaired(d)
    BY <1>3, <2>1 DEF Repaired, I!RepairPlan, I!Named
  <2>3. again = plan
    BY <1>2, <1>7, <1>8, <2>1 DEF I!TmmPlan, I!Named
  <2>4. ~TmmCreates(d, again)
    BY <1>9, <2>1, <2>3 DEF TmmCreates, I!Exists, I!Named
  <2> QED BY <1>6, <2>2, <2>3, <2>4
<1>10. ASSUME TmmCreates(e, plan)
       PROVE  Repaired(d) /\ again.university = u /\ ~TmmCreates(d, again)
  <2>1. /\ plan.new /\ u = "tmm" /\ I!Named(e, n) = {} /\ I!Named(e, I!Lookup(n)) = {}
    BY <1>4, <1>6, <1>10 DEF TmmCreates
  <2>2. /\ d.university[u].name = n /\ d.university[u].active
        /\ \A w \in I!University \ {u} : d.university[w] = e.university[w]
    BY <1>6, <1>7, <1>10
  <2>3. I!Exists(d, u) /\ I!Named(d, n) = {u}
    BY <1>6, <1>7, <2>2, NamedFacts DEF I!Named
  <2>4. ASSUME NEW m \in UniversityName, m # n
        PROVE  I!Named(d, m) \subseteq I!Named(e, m)
    BY <2>2, <2>4 DEF I!Named
  <2>5. Repaired(d)
    <3>1. CASE n = Historical
      <4>1. I!Named(d, Canonical) = {}
        BY <2>1, <2>4, <3>1, ImportConstants DEF I!Lookup
      <4> QED BY <4>1 DEF Repaired, I!RepairPlan
    <3>2. CASE n = Canonical
      <4>1. I!Named(c, Canonical) = {}
        BY <1>3, <2>1, <3>2 DEF I!Named
      <4>2. I!Named(e, Historical) = {}
        BY <1>3, <3>2, <4>1 DEF I!Named
      <4>3. I!Named(d, Historical) = {}
        BY <2>4, <3>2, <4>2, ImportConstants
      <4> QED BY <4>3 DEF Repaired, I!RepairPlan
    <3>3. CASE n # Historical /\ n # Canonical
      <4>1. /\ I!RepairPlan(d).duplicate \subseteq I!RepairPlan(e).duplicate
            /\ I!RepairPlan(d).canonical \subseteq I!RepairPlan(e).canonical
        BY <2>2, <3>3 DEF I!RepairPlan, I!Named
      <4> QED BY <1>3, <4>1 DEF Repaired
    <3> QED BY <3>1, <3>2, <3>3
  <2>6. again.university = u /\ ~TmmCreates(d, again)
    <3>1. CASE n = Historical
      <4>1. I!Named(d, Canonical) = {} /\ I!Named(e, Canonical) = {} /\ I!Lookup(n) = Canonical
        BY <2>1, <2>4, <3>1, ImportConstants DEF I!Lookup
      <4>2. {w \in I!University : <<w, Canonical>> \in d.alias} = {}
        BY <1>2, <1>7, <2>1, <4>1 DEF I!TmmPlan
      <4>3. again.university = "tmm"
        BY <1>8, <4>1, <4>2 DEF I!TmmPlan
      <4> QED BY <2>1, <2>3, <4>3 DEF TmmCreates
    <3>2. CASE n # Historical
      <4>1. I!Lookup(n) = n
        BY <3>2 DEF I!Lookup
      <4>2. again = [name |-> n, new |-> FALSE, university |-> u]
        BY <1>8, <2>3, <4>1 DEF I!TmmPlan
      <4> QED BY <4>2 DEF TmmCreates
    <3> QED BY <3>1, <3>2
  <2> QED BY <2>5, <2>6
<1>11. Repaired(d) /\ again.university = u /\ ~TmmCreates(d, again)
  BY <1>6, <1>9, <1>10
<1>12. I!RepairOnce(d) = I!Done(d)
  BY <1>11 DEF Repaired, I!RepairOnce, I!RepairWrite
<1>13. again \in I!TmmPlans
  BY <1>7, <1>8, TmmPlanned
<1>14. I!TmmWrite(d, again) = I!Done(d)
  BY <1>7, <1>11, <1>13, TmmSettledWrite
<1> QED BY <1>8, <1>12, <1>14 DEF I!TmmOnce, I!Done

-----------------------------------------------------------------------------
(* The theorems.                                                            *)

ImportStep ==
    \/ I!SeedRead \/ I!SeedReadProgram \/ I!SeedReadIntake \/ I!SeedCommit
    \/ I!RorRead \/ I!RorCommit
    \/ I!RepairRead \/ I!RepairCommit \/ I!TmmRead \/ I!TmmCommit
    \/ \E m \in UniversityName : I!PublishUniversity(m)
    \/ \E u \in I!University : I!PublishRead(u)
    \/ I!PublishCommit \/ I!Abort

LEMMA ImportStepKeeps == ImportIInv /\ ImportStep => ImportIInv'
<1> SUFFICES ASSUME ImportIInv, ImportStep PROVE ImportIInv'
  OBVIOUS
<1>1. CASE I!SeedRead \/ I!SeedReadProgram \/ I!SeedReadIntake
           \/ I!RorRead \/ I!RepairRead \/ I!TmmRead \/ (\E u \in I!University : I!PublishRead(u)) \/ I!Abort
  BY <1>1, ReadsKeep
<1>2. CASE I!SeedCommit
  BY <1>2, SeedCommitKeeps
<1>3. CASE I!RorCommit
  BY <1>3, RorCommitKeeps
<1>4. CASE I!RepairCommit
  BY <1>4, RepairCommitKeeps
<1>5. CASE I!TmmCommit
  BY <1>5, TmmCommitKeeps
<1>6. CASE \E m \in UniversityName : I!PublishUniversity(m)
  BY <1>6, PublishUniversityStep
<1>7. CASE I!PublishCommit
  BY <1>7, PublishCommitKeeps
<1> QED BY <1>1, <1>2, <1>3, <1>4, <1>5, <1>6, <1>7 DEF ImportStep

LEMMA PartKeeps == ImportIInv /\ [PartNext]_all => ImportIInv'
<1> SUFFICES ASSUME ImportIInv, [PartNext]_all PROVE ImportIInv'
  OBVIOUS
<1>1. ImportStep \/ UNCHANGED importing
  BY DEF PartNext, Contributing, Importing, ImportStep, all
<1>2. CASE ImportStep
  BY <1>2, ImportStepKeeps
<1>3. CASE UNCHANGED importing
  <2>1. UNCHANGED <<rows, seed, ror, tmm, publication, commits>>
    BY <1>3 DEF importing
  <2> QED BY <2>1 DEF ImportIInv, I!TypeOK, I!PlansStillHold, Sound
<1> QED BY <1>1, <1>2, <1>3

LEMMA ImportInvariant == PartSpec => []ImportIInv
<1>1. PartInit => ImportIInv
  BY ImportInit DEF PartInit
<1> QED BY <1>1, PartKeeps, PTL DEF PartSpec

LEMMA SoundIsEnough ==
    ASSUME ImportIInv
    PROVE  I!CatalogueInv /\ I!ImportsAreIdempotent
<1>1. /\ Sound(rows) /\ I!TypeOK /\ I!PlansStillHold
      /\ I!CatalogueIsWhole /\ I!ArchivedIsEmpty /\ I!RowsAreOwn(rows)
  BY DEF ImportIInv, Sound, I!CatalogueIsWhole, I!ArchivedIsEmpty
<1>2. I!CuratedDataWins
  BY <1>1, RorOnceWins DEF I!CuratedDataWins
<1>3. I!TmmFailuresAreKnown
  <2>1. ASSUME NEW n \in UniversityName, ~I!TmmWrite(rows, I!TmmPlan(rows, n)).ok
        PROVE  LET plan == I!TmmPlan(rows, n)
                   u == plan.university
                   p == rows.program[u]
               IN  \/ p # "none" /\ rows.intake[p] \notin {"none", p}
                   \/ n = Historical /\ plan.new /\ I!Named(rows, Historical) \ {"tmm"} # {}
    BY <1>1, <2>1, TmmFailuresKnown
  <2> QED BY <2>1 DEF I!TmmFailuresAreKnown
<1>4. ASSUME NEW r \in I!Record
      PROVE  LET s == I!SeedOnce(rows, r)
                 o == I!RorOnce(rows, r)
             IN  /\ I!Again(s, I!SeedOnce(s.catalogue, r))
                 /\ I!Again(o, I!RorOnce(o.catalogue, r))
  BY <1>1, SeedTwice, RorTwice DEF I!Again
<1>5. ASSUME NEW n \in UniversityName
      PROVE  LET t == I!TmmOnce(rows, n)
             IN  \/ I!Again(t, I!TmmOnce(t.catalogue, n))
                 \/ /\ n = Canonical /\ I!Named(rows, Canonical) = {}
                    /\ I!Named(rows, Historical) # {}
  BY <1>1, TmmTwice DEF I!Again
<1>6. I!ImportsAreIdempotent
  BY <1>4, <1>5 DEF I!ImportsAreIdempotent
<1> QED BY <1>1, <1>2, <1>3, <1>6 DEF I!CatalogueInv

\* importSeedFiles, importRorRecords, the TMM script and publications, however
\* they overlap, leave a catalogue whose keys and references hold; a registry
\* import that nothing overlaps overwrites nothing curated, what the repair
\* archives is empty, and a TMM import fails in two known ways only.
THEOREM CatalogueHolds == PartSpec => []CatalogueInv
<1>1. ImportIInv => CatalogueInv
  BY SoundIsEnough DEF CatalogueInv
<1> QED BY <1>1, ImportInvariant, PTL

\* "Re-runs are idempotent": from every catalogue that the imports can reach,
\* running one again right after it succeeded succeeds and changes nothing.
THEOREM ImportsRunTwice == PartSpec => []ImportsAreIdempotent
<1>1. ImportIInv => ImportsAreIdempotent
  BY SoundIsEnough DEF ImportsAreIdempotent
<1> QED BY <1>1, ImportInvariant, PTL
=============================================================================
