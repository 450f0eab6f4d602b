-------------------------- MODULE MCFetching_proofs --------------------------
(***************************************************************************)
(* Proofs about FetchPipeline, OfficialFetcher and BrowserFetch, as the    *)
(* parts of MCFetching: for every page and robots.txt, every number of     *)
(* days, executions, callers and requests, and every limit.                *)
(***************************************************************************)
EXTENDS MCFetching, FiniteSetTheorems, TLAPS

-----------------------------------------------------------------------------
(* FetchPipeline.                                                           *)

JobRecord == [state : {"none", "waiting", "active", "completed", "failed"}, attempts : 0..Attempts]
WithAttempt(w, a) == [worker EXCEPT ![w] = a]
WithRecord(j, x) == [job EXCEPT ![j] = x]

\* What AttemptsAreOrdered says of one attempt, given the files and the rows.
Ordered(a, files, rows) ==
    /\ a.pc \in {"check", "create", "write", "record", "enqueue"} => a.body \in Content
    /\ a.pc \in {"write", "record", "enqueue"} => files[a.body] # "absent"
    /\ a.pc = "enqueue" => a.body \in rows

LEMMA OpenAttempt ==
    ASSUME TypeOK, NEW w \in Worker
    PROVE  /\ worker[w] = Idle <=> worker[w].pc = "idle"
           /\ worker[w].pc # "idle" => worker[w] \in Attempt
<1>1. Idle.pc = "idle" /\ \A a \in Attempt : a.pc # "idle"
  BY DEF Idle, Attempt
<1> QED BY <1>1 DEF TypeOK

LEMMA JobTable ==
    ASSUME TypeOK
    PROVE  job \in [Job -> JobRecord]
BY DEF TypeOK, JobRecord

LEMMA PipelineInit == Init => PipelineInv
<1> SUFFICES ASSUME Init PROVE PipelineInv
  OBVIOUS
<1>1. Idle.pc = "idle" /\ \A w \in Worker : worker[w] = Idle
  BY DEF Idle, Init
<1>2. TypeOK
  <2>1. 0 \in Time /\ 0 \in 0..Attempts /\ 0 \in 0..MaxFailures
    BY PipelineAssumption DEF Time
  <2>2. source \in [contentHash : Content \cup {NoContent}, lastCheckedAt : Time \cup {Never}]
    BY <2>1 DEF Init
  <2>3. object \in [Content -> {"absent", "partial", "complete"}]
    BY DEF Init
  <2>4. job \in [Job -> [state : {"none", "waiting", "active", "completed", "failed"},
                         attempts : 0..Attempts]]
    BY <2>1 DEF Init
  <2> QED BY <2>1, <2>2, <2>3, <2>4 DEF Init, TypeOK
<1>3. EvidenceExists
  BY PipelineAssumption DEF Init, EvidenceExists
<1>4. EvidenceIsWhole /\ PartialIsWritten
  BY DEF Init, EvidenceIsWhole, PartialIsWritten
<1>5. JobsAreHeld /\ AttemptsAreOrdered
  BY <1>1, PipelineAssumption DEF Init, JobsAreHeld, AttemptsAreOrdered
<1> QED BY <1>2, <1>3, <1>4, <1>5 DEF PipelineInv

\* An attempt goes on with its job.
LEMMA GoesOn ==
    ASSUME PipelineInv, NEW w \in Worker, worker[w].pc # "idle",
           NEW a, a \in Attempt, a.job = worker[w].job,
           worker' = WithAttempt(w, a), UNCHANGED job
    PROVE  /\ JobsAreHeld'
           /\ worker' \in [Worker -> {Idle} \cup Attempt]
           /\ \A v \in Worker : worker'[v] = IF v = w THEN a ELSE worker[v]
<1>0. TypeOK /\ JobsAreHeld
  BY DEF PipelineInv
<1>1. /\ worker' \in [Worker -> {Idle} \cup Attempt]
      /\ \A v \in Worker : worker'[v] = IF v = w THEN a ELSE worker[v]
  BY <1>0 DEF TypeOK, WithAttempt
<1> QED BY <1>0, <1>1 DEF JobsAreHeld

\* An attempt ends, and its job is no longer active.
LEMMA Ends ==
    ASSUME PipelineInv, NEW w \in Worker, worker[w].pc # "idle",
           NEW x, x \in JobRecord, x.state # "active",
           x.state \in {"none", "waiting"} => x.attempts < Attempts,
           worker' = WithAttempt(w, Idle), job' = WithRecord(worker[w].job, x)
    PROVE  /\ JobsAreHeld'
           /\ worker' \in [Worker -> {Idle} \cup Attempt]
           /\ job' \in [Job -> JobRecord]
           /\ \A v \in Worker : worker'[v] = IF v = w THEN Idle ELSE worker[v]
<1>0. TypeOK /\ JobsAreHeld
  BY DEF PipelineInv
<1>1. /\ worker' \in [Worker -> {Idle} \cup Attempt]
      /\ \A v \in Worker : worker'[v] = IF v = w THEN Idle ELSE worker[v]
  BY <1>0 DEF TypeOK, WithAttempt
<1>2. worker[w].job \in Job
  BY <1>0, OpenAttempt DEF Attempt
<1>3. /\ job' \in [Job -> JobRecord]
      /\ \A j \in Job : job'[j] = IF j = worker[w].job THEN x ELSE job[j]
  BY <1>0, <1>2, JobTable DEF WithRecord
<1>4. Idle.pc = "idle"
  BY DEF Idle
<1>5. \A v \in Worker : worker[v].pc # "idle" => worker[v].job \in Job
  BY <1>0, OpenAttempt DEF Attempt
<1>6. \A v \in Worker : worker'[v].pc # "idle" =>
         v # w /\ worker'[v] = worker[v] /\ worker[v].job # worker[w].job
  BY <1>0, <1>1, <1>4 DEF JobsAreHeld
<1>7. \A j \in Job : job'[j].state \in {"none", "waiting", "active"} => job'[j].attempts < Attempts
  BY <1>0, <1>3 DEF JobsAreHeld, JobRecord
<1>8. \A v \in Worker : worker'[v].pc # "idle" => job'[worker'[v].job].state = "active"
  BY <1>0, <1>3, <1>5, <1>6 DEF JobsAreHeld
<1>9. \A v, u \in Worker :
         worker'[v].pc # "idle" /\ worker'[u].pc # "idle" /\ worker'[v].job = worker'[u].job => v = u
  BY <1>0, <1>6 DEF JobsAreHeld
<1> QED BY <1>1, <1>3, <1>7, <1>8, <1>9 DEF JobsAreHeld

\* The evidence grows in the order of the attempt that adds to it.
LEMMA EvidenceFrame ==
    ASSUME PipelineInv, TypeOK', JobsAreHeld', EvidenceExists', NEW w \in Worker,
           \A v \in Worker : v # w => worker'[v] = worker[v],
           Ordered(worker'[w], object', snapshot'),
           \A c \in Content : object[c] # "absent" => object'[c] # "absent",
           snapshot \subseteq snapshot', lapses \subseteq lapses',
           \A c \in Content : object'[c] = "partial" =>
              object[c] = "partial" \/ (worker'[w].pc = "write" /\ worker'[w].body = c),
           worker[w].pc = "write" =>
              \/ worker'[w] = worker[w]
              \/ "torn" \in lapses'
              \/ object'[worker[w].body] # "partial"
    PROVE  PipelineInv'
<1>0. TypeOK /\ AttemptsAreOrdered /\ PartialIsWritten
  BY DEF PipelineInv
<1>1. AttemptsAreOrdered'
  <2>1. ASSUME NEW v \in Worker, v # w
        PROVE  Ordered(worker'[v], object', snapshot')
    <3>1. worker'[v] = worker[v] /\ Ordered(worker[v], object, snapshot)
      BY <1>0, <2>1 DEF AttemptsAreOrdered, Ordered
    <3> QED BY <3>1 DEF Ordered
  <2> QED BY <2>1 DEF AttemptsAreOrdered, Ordered
<1>2. PartialIsWritten'
  <2>1. ASSUME NEW c \in Content, object'[c] = "partial"
        PROVE  "torn" \in lapses' \/ (\E v \in Worker : worker'[v].pc = "write" /\ worker'[v].body = c)
    <3>1. CASE object[c] = "partial"
      BY <1>0, <2>1, <3>1 DEF PartialIsWritten
    <3> QED BY <2>1, <3>1
  <2> QED BY <2>1 DEF PartialIsWritten
<1>3. EvidenceIsWhole'
  BY <1>2 DEF PartialIsWritten, EvidenceIsWhole, TypeOK
<1> QED BY <1>1, <1>2, <1>3 DEF PipelineInv

\* A step that no attempt takes.
LEMMA QuietFrame ==
    ASSUME PipelineInv, TypeOK', JobsAreHeld', parse' \subseteq snapshot,
           lapses \subseteq lapses', UNCHANGED <<evidence, worker>>
    PROVE  PipelineInv'
<1>0. EvidenceExists /\ EvidenceIsWhole /\ AttemptsAreOrdered /\ PartialIsWritten
  BY DEF PipelineInv
<1> QED BY <1>0 DEF PipelineInv, EvidenceExists, EvidenceIsWhole, AttemptsAreOrdered,
                    PartialIsWritten, evidence

LEMMA QueueKeeps ==
    ASSUME PipelineInv,
           Tick \/ UNCHANGED vars \/ (\E j \in Job : Enqueue(j)) \/ (\E c \in Content : Parse(c))
    PROVE  PipelineInv'
<1>0. TypeOK /\ JobsAreHeld /\ parse \subseteq snapshot
  BY DEF PipelineInv, EvidenceExists
<1>1. CASE Tick
  <2>1. TypeOK'
    BY <1>0, <1>1, PipelineAssumption DEF TypeOK, Tick, Time, evidence, history
  <2>2. JobsAreHeld'
    BY <1>0, <1>1 DEF JobsAreHeld, Tick
  <2> QED BY <1>0, <1>1, <2>1, <2>2, QuietFrame DEF Tick, history
<1>2. CASE UNCHANGED vars
  <2>1. TypeOK' /\ JobsAreHeld'
    BY <1>0, <1>2 DEF TypeOK, JobsAreHeld, vars, evidence, history
  <2> QED BY <1>0, <1>2, <2>1, QuietFrame DEF vars, history
<1>3. ASSUME NEW j \in Job, Enqueue(j)
      PROVE  PipelineInv'
  <2> DEFINE x == [job[j] EXCEPT !.state = "waiting"]
  <2>1. x \in JobRecord /\ x.state = "waiting" /\ x.attempts = job[j].attempts
    BY <1>0, <1>3, JobTable DEF JobRecord
  <2>2. job' = [job EXCEPT ![j] = x]
    BY <1>3 DEF Enqueue
  <2> HIDE DEF x
  <2>3. job' \in [Job -> JobRecord] /\ \A i \in Job : job'[i] = IF i = j THEN x ELSE job[i]
    BY <1>0, <1>3, <2>1, <2>2, JobTable
  <2>4. TypeOK'
    BY <1>0, <1>3, <2>3 DEF TypeOK, Enqueue, JobRecord, evidence, history
  <2>5. job[j].state = "none" /\ job[j].attempts < Attempts
    BY <1>0, <1>3 DEF Enqueue, JobsAreHeld
  <2>6. JobsAreHeld'
    <3>1. \A w \in Worker : worker[w].pc # "idle" => worker[w].job \in Job
      BY <1>0, OpenAttempt DEF Attempt
    <3> QED BY <1>0, <1>3, <2>1, <2>3, <2>5, <3>1 DEF JobsAreHeld, Enqueue
  <2> QED BY <1>0, <1>3, <2>4, <2>6, QuietFrame DEF Enqueue, history
<1>4. ASSUME NEW c \in Content, Parse(c)
      PROVE  PipelineInv'
  <2>1. parse' \subseteq snapshot /\ parse' \subseteq Content
    BY <1>0, <1>4 DEF Parse, TypeOK
  <2>2. owed' \in BOOLEAN /\ lapses' \subseteq {"orphaned", "torn", "truncated", "unmarked", "overtaken"}
        /\ lapses \subseteq lapses'
    BY <1>0, <1>4 DEF Parse, TypeOK
  <2>3. TypeOK'
    BY <1>0, <1>4, <2>1, <2>2 DEF TypeOK, Parse, evidence
  <2>4. JobsAreHeld'
    BY <1>0, <1>4 DEF JobsAreHeld, Parse
  <2> QED BY <1>4, <2>1, <2>2, <2>3, <2>4, QuietFrame DEF Parse
<1> QED BY <1>1, <1>2, <1>3, <1>4

LEMMA StartKeeps ==
    ASSUME PipelineInv, NEW w \in Worker, NEW j \in Job, Start(w, j)
    PROVE  PipelineInv'
<1>0. TypeOK /\ JobsAreHeld /\ EvidenceExists
  BY DEF PipelineInv
<1> DEFINE a == [pc |-> "fetch", job |-> j, hash |-> source.contentHash, body |-> NoContent, at |-> now]
           x == [job[j] EXCEPT !.state = "active"]
<1>1. a \in Attempt /\ a.pc = "fetch" /\ a.job = j
  BY <1>0 DEF Attempt, TypeOK
<1>2. x \in JobRecord /\ x.state = "active" /\ x.attempts = job[j].attempts
  BY <1>0, JobTable DEF JobRecord
<1>3. worker' = [worker EXCEPT ![w] = a] /\ job' = [job EXCEPT ![j] = x]
  BY DEF Start
<1> HIDE DEF a, x
<1>4. /\ worker' \in [Worker -> {Idle} \cup Attempt]
      /\ \A v \in Worker : worker'[v] = IF v = w THEN a ELSE worker[v]
  BY <1>0, <1>1, <1>3 DEF TypeOK
<1>5. job' \in [Job -> JobRecord] /\ \A i \in Job : job'[i] = IF i = j THEN x ELSE job[i]
  BY <1>0, <1>2, <1>3, JobTable
<1>6. worker[w].pc = "idle" /\ job[j].state = "waiting"
  BY <1>0, OpenAttempt DEF Start
<1>7. \A v \in Worker : worker[v].pc # "idle" => worker[v].job \in Job
  BY <1>0, OpenAttempt DEF Attempt
<1>8. JobsAreHeld'
  BY <1>0, <1>1, <1>2, <1>4, <1>5, <1>6, <1>7 DEF JobsAreHeld
<1>9. TypeOK'
  BY <1>0, <1>4, <1>5 DEF TypeOK, Start, JobRecord, evidence, history
<1>10. EvidenceExists' /\ Ordered(worker'[w], object', snapshot')
  BY <1>0, <1>1, <1>4 DEF EvidenceExists, Ordered, Start, evidence
<1>11. /\ \A c \in Content : object[c] # "absent" => object'[c] # "absent"
       /\ \A c \in Content : object'[c] = "partial" =>
             object[c] = "partial" \/ (worker'[w].pc = "write" /\ worker'[w].body = c)
       /\ snapshot \subseteq snapshot' /\ lapses \subseteq lapses'
       /\ worker[w].pc # "write"
       /\ \A v \in Worker : v # w => worker'[v] = worker[v]
  BY <1>4, <1>6 DEF Start, evidence, history
<1> QED BY <1>8, <1>9, <1>10, <1>11, EvidenceFrame

\* A page, or no page, is found and the check recorded.
LEMMA FetchKeeps ==
    ASSUME PipelineInv, NEW w \in Worker, Fetch(w)
    PROVE  PipelineInv'
<1>0. TypeOK /\ EvidenceExists
  BY DEF PipelineInv
<1>1. worker[w] \in Attempt /\ worker[w].pc = "fetch"
  BY <1>0, OpenAttempt DEF Fetch
<1>2. PICK pc \in {"check", "checkFailed", "checkSkipped"}, body \in Content \cup {NoContent} :
         /\ pc = "check" => body \in Content
         /\ worker' = WithAttempt(w, [worker[w] EXCEPT !.pc = pc, !.at = now, !.body = body])
  <2>1. ASSUME NEW content \in Content,
               worker' = [worker EXCEPT ![w].pc = "check", ![w].at = now, ![w].body = content]
        PROVE  worker' = WithAttempt(w, [worker[w] EXCEPT !.pc = "check", !.at = now, !.body = content])
    BY <2>1 DEF WithAttempt
  <2>2. ASSUME NEW pc \in {"checkFailed", "checkSkipped"}, Goto(w, pc)
        PROVE  worker' = WithAttempt(w, [worker[w] EXCEPT !.pc = pc, !.at = now, !.body = worker[w].body])
    <3>1. [worker[w] EXCEPT !.pc = pc, !.at = now, !.body = worker[w].body]
             = [worker[w] EXCEPT !.pc = pc, !.at = now]
      BY <1>1 DEF Attempt
    <3> QED BY <2>2, <3>1 DEF Goto, WithAttempt
  <2>3. worker[w].body \in Content \cup {NoContent}
    BY <1>1 DEF Attempt
  <2> QED BY <2>1, <2>2, <2>3 DEF Fetch
<1> DEFINE a == [worker[w] EXCEPT !.pc = pc, !.at = now, !.body = body]
<1>3. a \in Attempt /\ a.pc = pc /\ a.body = body /\ a.job = worker[w].job
  BY <1>0, <1>1 DEF Attempt, TypeOK
<1> HIDE DEF a
<1>4. /\ JobsAreHeld'
      /\ worker' \in [Worker -> {Idle} \cup Attempt]
      /\ \A v \in Worker : worker'[v] = IF v = w THEN a ELSE worker[v]
  <2>1. worker' = WithAttempt(w, a) /\ worker[w].pc # "idle"
    BY <1>1, <1>2 DEF a
  <2> QED BY <1>3, <2>1, GoesOn DEF Fetch
<1>5. TypeOK'
  BY <1>0, <1>4 DEF TypeOK, Fetch, evidence, history
<1>6. EvidenceExists' /\ Ordered(worker'[w], object', snapshot')
  BY <1>0, <1>2, <1>3, <1>4 DEF EvidenceExists, Ordered, Fetch, evidence
<1> QED BY <1>1, <1>4, <1>5, <1>6, EvidenceFrame DEF Fetch, evidence, history

LEMMA AbandonEnds ==
    ASSUME PipelineInv, NEW w \in Worker, worker[w].pc # "idle", Abandon(w)
    PROVE  /\ JobsAreHeld'
           /\ worker' \in [Worker -> {Idle} \cup Attempt]
           /\ job' \in [Job -> JobRecord]
           /\ \A v \in Worker : worker'[v] = IF v = w THEN Idle ELSE worker[v]
<1>0. TypeOK /\ JobsAreHeld
  BY DEF PipelineInv
<1> DEFINE j == worker[w].job
<1>1. PICK cost \in {0, 1} :
         job' = [job EXCEPT ![j] = [state |-> Retried(job[j].attempts + cost), attempts |-> job[j].attempts + cost]]
  BY DEF Abandon
<1> DEFINE x == [state |-> Retried(job[j].attempts + cost), attempts |-> job[j].attempts + cost]
<1>2. j \in Job /\ job[j].state = "active"
  BY <1>0, OpenAttempt DEF Attempt, JobsAreHeld
<1>3. job[j].attempts \in 0..Attempts /\ job[j].attempts < Attempts
  BY <1>0, <1>2, JobTable DEF JobsAreHeld, JobRecord
<1>4. x \in JobRecord /\ x.state # "active" /\ (x.state \in {"none", "waiting"} => x.attempts < Attempts)
  BY <1>3, PipelineAssumption DEF JobRecord, Retried
<1>5. worker' = WithAttempt(w, Idle) /\ job' = WithRecord(j, x)
  BY <1>1 DEF Abandon, WithAttempt, WithRecord
<1> HIDE DEF x, j
<1> QED BY <1>4, <1>5, Ends DEF j

LEMMA CompleteEnds ==
    ASSUME PipelineInv, NEW w \in Worker, worker[w].pc # "idle", Complete(w)
    PROVE  /\ JobsAreHeld'
           /\ worker' \in [Worker -> {Idle} \cup Attempt]
           /\ job' \in [Job -> JobRecord]
           /\ \A v \in Worker : worker'[v] = IF v = w THEN Idle ELSE worker[v]
<1>0. TypeOK
  BY DEF PipelineInv
<1> DEFINE j == worker[w].job
           x == [job[j] EXCEPT !.state = "completed"]
<1>1. j \in Job
  BY <1>0, OpenAttempt DEF Attempt
<1>2. x \in JobRecord /\ x.state = "completed"
  BY <1>0, <1>1, JobTable DEF JobRecord
<1>3. worker' = WithAttempt(w, Idle) /\ job' = WithRecord(j, x)
  BY DEF Complete, WithAttempt, WithRecord
<1> HIDE DEF x, j
<1> QED BY <1>2, <1>3, Ends DEF j

\* An attempt that ends leaves the evidence to the others.
LEMMA EndKeeps ==
    ASSUME PipelineInv, NEW w \in Worker, worker'[w] = Idle, TypeOK', JobsAreHeld',
           \A v \in Worker : v # w => worker'[v] = worker[v],
           source'.contentHash = source.contentHash, UNCHANGED <<object, snapshot>>,
           parse' \subseteq snapshot, lapses \subseteq lapses',
           worker[w].pc = "write" => "torn" \in lapses'
    PROVE  PipelineInv'
<1>1. EvidenceExists'
  BY DEF PipelineInv, EvidenceExists
<1>2. Ordered(worker'[w], object', snapshot')
  BY DEF Ordered, Idle
<1> QED BY <1>1, <1>2, EvidenceFrame

LEMMA FailKeeps ==
    ASSUME PipelineInv, NEW w \in Worker, Fail(w)
    PROVE  PipelineInv'
<1>0. TypeOK /\ EvidenceExists
  BY DEF PipelineInv
<1>1. /\ JobsAreHeld'
      /\ worker' \in [Worker -> {Idle} \cup Attempt]
      /\ job' \in [Job -> JobRecord]
      /\ \A v \in Worker : worker'[v] = IF v = w THEN Idle ELSE worker[v]
  BY AbandonEnds DEF Fail
<1>2. PICK lapse \in SUBSET {"orphaned", "torn"} :
         lapses' = lapses \cup lapse /\ (worker[w].pc = "write" => "torn" \in lapse)
  <2>1. CASE worker[w].pc = "enqueue"
    BY <2>1 DEF Fail
  <2>2. CASE worker[w].pc = "write"
    BY <2>2 DEF Fail
  <2>3. CASE worker[w].pc \notin {"enqueue", "write"}
    BY <2>3 DEF Fail
  <2> QED BY <2>1, <2>2, <2>3
<1>3. failures' \in 0..MaxFailures
  BY <1>0, PipelineAssumption DEF Fail, TypeOK
<1>4. TypeOK'
  BY <1>0, <1>1, <1>2, <1>3 DEF TypeOK, Fail, JobRecord, evidence
<1> QED BY <1>0, <1>1, <1>2, <1>4, EndKeeps DEF Fail, evidence, EvidenceExists

LEMMA RecordCheckKeeps ==
    ASSUME PipelineInv, NEW w \in Worker, RecordCheck(w)
    PROVE  PipelineInv'
<1>0. TypeOK /\ EvidenceExists /\ AttemptsAreOrdered
  BY DEF PipelineInv
<1>1. worker[w] \in Attempt /\ worker[w].pc \in {"check", "checkFailed", "checkSkipped"}
  BY <1>0, OpenAttempt DEF RecordCheck
<1>2. /\ source' \in [contentHash : Content \cup {NoContent}, lastCheckedAt : Time \cup {Never}]
      /\ source'.contentHash = source.contentHash
  BY <1>0, <1>1 DEF RecordCheck, TypeOK, Attempt
<1>3. CASE worker[w].pc = "check"
  <2> DEFINE a == [worker[w] EXCEPT !.pc = "create", !.at = now]
  <2>1. Goto(w, "create") /\ UNCHANGED <<job, failures>>
    BY <1>3 DEF RecordCheck
  <2>2. worker' = WithAttempt(w, a)
    BY <2>1 DEF Goto, WithAttempt
  <2>3. a \in Attempt /\ a.pc = "create" /\ a.body = worker[w].body /\ a.job = worker[w].job
    BY <1>0, <1>1 DEF Attempt, TypeOK
  <2> HIDE DEF a
  <2>4. /\ JobsAreHeld'
        /\ worker' \in [Worker -> {Idle} \cup Attempt]
        /\ \A v \in Worker : worker'[v] = IF v = w THEN a ELSE worker[v]
    BY <1>1, <2>1, <2>2, <2>3, GoesOn
  <2>5. TypeOK'
    BY <1>0, <1>2, <2>1, <2>4 DEF TypeOK, RecordCheck, history
  <2>6. EvidenceExists' /\ Ordered(worker'[w], object', snapshot')
    BY <1>0, <1>2, <1>3, <2>3, <2>4 DEF EvidenceExists, Ordered, RecordCheck, AttemptsAreOrdered
  <2> QED BY <1>3, <2>4, <2>5, <2>6, EvidenceFrame DEF RecordCheck, history
<1>4. CASE worker[w].pc # "check"
  <2>1. /\ JobsAreHeld'
        /\ worker' \in [Worker -> {Idle} \cup Attempt]
        /\ job' \in [Job -> JobRecord]
        /\ \A v \in Worker : worker'[v] = IF v = w THEN Idle ELSE worker[v]
    <3>1. CASE worker[w].pc = "checkSkipped"
      BY <3>1, CompleteEnds DEF RecordCheck
    <3>2. CASE worker[w].pc = "checkFailed"
      BY <3>2, AbandonEnds DEF RecordCheck
    <3> QED BY <1>1, <1>4, <3>1, <3>2
  <2>2. failures' \in 0..MaxFailures
    <3>1. failures' = failures \/ (failures < MaxFailures /\ failures' = failures + 1)
      BY <1>1, <1>4 DEF RecordCheck
    <3> QED BY <1>0, <3>1, PipelineAssumption DEF TypeOK
  <2>3. TypeOK'
    BY <1>0, <1>2, <2>1, <2>2 DEF TypeOK, RecordCheck, JobRecord, history
  <2> QED BY <1>0, <1>1, <1>2, <2>1, <2>3, EndKeeps DEF RecordCheck, history, EvidenceExists
<1> QED BY <1>3, <1>4

\* An attempt that goes on to its next step.
LEMMA NextPc ==
    ASSUME PipelineInv, NEW w \in Worker, worker[w].pc # "idle",
           NEW pc, pc \in {"write", "record", "enqueue"},
           worker' = [worker EXCEPT ![w].pc = pc], UNCHANGED job
    PROVE  /\ JobsAreHeld'
           /\ worker' \in [Worker -> {Idle} \cup Attempt]
           /\ worker'[w].pc = pc /\ worker'[w].body = worker[w].body
           /\ \A v \in Worker : v # w => worker'[v] = worker[v]
<1>0. TypeOK
  BY DEF PipelineInv
<1> DEFINE a == [worker[w] EXCEPT !.pc = pc]
<1>1. worker[w] \in Attempt
  BY <1>0, OpenAttempt
<1>2. a \in Attempt /\ a.pc = pc /\ a.body = worker[w].body /\ a.job = worker[w].job
  BY <1>1 DEF Attempt
<1>3. worker' = WithAttempt(w, a)
  BY DEF WithAttempt
<1> HIDE DEF a
<1> QED BY <1>2, <1>3, GoesOn

LEMMA CreateKeeps ==
    ASSUME PipelineInv, NEW w \in Worker, CreateObject(w)
    PROVE  PipelineInv'
<1>0. TypeOK /\ EvidenceExists /\ AttemptsAreOrdered
  BY DEF PipelineInv
<1> DEFINE c == worker[w].body
<1>1. worker[w].pc = "create" /\ c \in Content
  BY <1>0 DEF CreateObject, AttemptsAreOrdered
<1>2. CASE object[c] = "absent"
  <2>1. /\ object' = [object EXCEPT ![c] = "partial"]
        /\ worker' = [worker EXCEPT ![w].pc = "write"]
    BY <1>2 DEF CreateObject
  <2>2. /\ JobsAreHeld'
        /\ worker' \in [Worker -> {Idle} \cup Attempt]
        /\ worker'[w].pc = "write" /\ worker'[w].body = c
        /\ \A v \in Worker : v # w => worker'[v] = worker[v]
    BY <1>1, <2>1, NextPc DEF CreateObject
  <2>3. /\ object' \in [Content -> {"absent", "partial", "complete"}]
        /\ \A d \in Content : object'[d] = IF d = c THEN "partial" ELSE object[d]
    BY <1>0, <1>1, <2>1 DEF TypeOK
  <2>4. TypeOK'
    BY <1>0, <2>2, <2>3 DEF TypeOK, CreateObject, history
  <2>5. EvidenceExists'
    BY <1>0, <1>1, <2>3 DEF EvidenceExists, CreateObject, TypeOK
  <2>6. Ordered(worker'[w], object', snapshot')
    BY <1>1, <2>2, <2>3 DEF Ordered
  <2>7. UNCHANGED <<snapshot, lapses>>
    BY DEF CreateObject, history
  <2> QED BY <1>1, <2>2, <2>3, <2>4, <2>5, <2>6, <2>7, EvidenceFrame
<1>3. CASE object[c] # "absent"
  <2>1. UNCHANGED object /\ worker' = [worker EXCEPT ![w].pc = "record"]
    BY <1>3 DEF CreateObject
  <2>2. /\ JobsAreHeld'
        /\ worker' \in [Worker -> {Idle} \cup Attempt]
        /\ worker'[w].pc = "record" /\ worker'[w].body = c
        /\ \A v \in Worker : v # w => worker'[v] = worker[v]
    BY <1>1, <2>1, NextPc DEF CreateObject
  <2>3. TypeOK'
    BY <1>0, <2>1, <2>2 DEF TypeOK, CreateObject, history
  <2>4. EvidenceExists'
    BY <1>0, <2>1 DEF EvidenceExists, CreateObject
  <2>5. Ordered(worker'[w], object', snapshot')
    BY <1>1, <1>3, <2>1, <2>2 DEF Ordered
  <2>6. UNCHANGED <<snapshot, lapses>>
    BY DEF CreateObject, history
  <2> QED BY <1>1, <2>1, <2>2, <2>3, <2>4, <2>5, <2>6, EvidenceFrame
<1> QED BY <1>2, <1>3

LEMMA WriteKeeps ==
    ASSUME PipelineInv, NEW w \in Worker, WriteObject(w)
    PROVE  PipelineInv'
<1>0. TypeOK /\ EvidenceExists /\ AttemptsAreOrdered
  BY DEF PipelineInv
<1> DEFINE c == worker[w].body
<1>1. worker[w].pc = "write" /\ c \in Content
  BY <1>0 DEF WriteObject, AttemptsAreOrdered
<1>2. /\ JobsAreHeld'
      /\ worker' \in [Worker -> {Idle} \cup Attempt]
      /\ worker'[w].pc = "record" /\ worker'[w].body = c
      /\ \A v \in Worker : v # w => worker'[v] = worker[v]
  BY <1>1, NextPc DEF WriteObject
<1>3. /\ object' \in [Content -> {"absent", "partial", "complete"}]
      /\ \A d \in Content : object'[d] = IF d = c THEN "complete" ELSE object[d]
  BY <1>0, <1>1 DEF TypeOK, WriteObject
<1>4. TypeOK'
  BY <1>0, <1>2, <1>3 DEF TypeOK, WriteObject, history
<1>5. EvidenceExists'
  BY <1>0, <1>1, <1>3 DEF EvidenceExists, WriteObject, TypeOK
<1>6. Ordered(worker'[w], object', snapshot')
  BY <1>1, <1>2, <1>3 DEF Ordered
<1>7. UNCHANGED <<snapshot, lapses>>
  BY DEF WriteObject, history
<1> QED BY <1>1, <1>2, <1>3, <1>4, <1>5, <1>6, <1>7, EvidenceFrame

LEMMA RecordKeeps ==
    ASSUME PipelineInv, NEW w \in Worker, RecordSnapshot(w)
    PROVE  PipelineInv'
<1>0. TypeOK /\ EvidenceExists /\ AttemptsAreOrdered
  BY DEF PipelineInv
<1> DEFINE a == worker[w]
<1>1. a.pc = "record" /\ a \in Attempt /\ a.body \in Content /\ object[a.body] # "absent"
  BY <1>0, OpenAttempt DEF RecordSnapshot, AttemptsAreOrdered
<1>2. snapshot' = snapshot \cup {a.body}
  BY DEF RecordSnapshot
<1>3. source' = source \/ source' = [contentHash |-> a.body, lastCheckedAt |-> a.at]
  BY DEF RecordSnapshot
<1>4. /\ source' \in [contentHash : Content \cup {NoContent}, lastCheckedAt : Time \cup {Never}]
      /\ source'.contentHash \in {source.contentHash, a.body}
  BY <1>0, <1>1, <1>3 DEF TypeOK, Attempt
<1>5. latest' \in Content /\ owed' \in BOOLEAN
  BY <1>1 DEF RecordSnapshot
<1>6. /\ lapses' \subseteq {"orphaned", "torn", "truncated", "unmarked", "overtaken"}
      /\ lapses \subseteq lapses'
  BY <1>0 DEF RecordSnapshot, TypeOK
<1>7. /\ JobsAreHeld'
      /\ worker' \in [Worker -> {Idle} \cup Attempt]
      /\ job' \in [Job -> JobRecord]
      /\ \A v \in Worker : v # w => worker'[v] = worker[v]
      /\ worker'[w].pc = "idle" \/ (worker'[w].pc = "enqueue" /\ worker'[w].body = a.body)
  <2>1. CASE Complete(w)
    <3>1. Idle.pc = "idle"
      BY DEF Idle
    <3> QED BY <1>1, <2>1, <3>1, CompleteEnds
  <2>2. CASE worker' = [worker EXCEPT ![w].pc = "enqueue"] /\ UNCHANGED job
    BY <1>0, <1>1, <2>2, NextPc, JobTable
  <2> QED BY <2>1, <2>2 DEF RecordSnapshot
<1>8. UNCHANGED <<now, object, parse, failures>>
  BY DEF RecordSnapshot
<1> HIDE DEF a
<1>9. TypeOK'
  BY <1>0, <1>1, <1>2, <1>4, <1>5, <1>6, <1>7, <1>8 DEF TypeOK, JobRecord
<1>10. EvidenceExists'
  BY <1>0, <1>1, <1>2, <1>4, <1>8 DEF EvidenceExists
<1>11. Ordered(worker'[w], object', snapshot')
  BY <1>1, <1>2, <1>7, <1>8 DEF Ordered
<1>12. worker[w].pc # "write" /\ snapshot \subseteq snapshot'
  BY <1>1, <1>2 DEF a
<1> QED BY <1>6, <1>7, <1>8, <1>9, <1>10, <1>11, <1>12, EvidenceFrame

LEMMA EnqueueParseKeeps ==
    ASSUME PipelineInv, NEW w \in Worker, EnqueueParse(w)
    PROVE  PipelineInv'
<1>0. TypeOK /\ EvidenceExists /\ AttemptsAreOrdered
  BY DEF PipelineInv
<1>1. /\ worker[w].pc = "enqueue" /\ worker[w].body \in Content /\ worker[w].body \in snapshot
  BY <1>0 DEF EnqueueParse, AttemptsAreOrdered
<1>2. /\ JobsAreHeld'
      /\ worker' \in [Worker -> {Idle} \cup Attempt]
      /\ job' \in [Job -> JobRecord]
      /\ \A v \in Worker : worker'[v] = IF v = w THEN Idle ELSE worker[v]
  BY <1>1, CompleteEnds DEF EnqueueParse
<1>3. parse' \subseteq snapshot /\ parse' \subseteq Content
  BY <1>0, <1>1 DEF EnqueueParse, EvidenceExists, TypeOK
<1>4. TypeOK'
  BY <1>0, <1>2, <1>3 DEF TypeOK, EnqueueParse, JobRecord, evidence, history
<1> QED BY <1>1, <1>2, <1>3, <1>4, EndKeeps DEF EnqueueParse, evidence, history

LEMMA PipelineStep == PipelineInv /\ [Next]_vars => PipelineInv'
<1> SUFFICES ASSUME PipelineInv, [Next]_vars PROVE PipelineInv'
  OBVIOUS
<1>1. CASE Tick \/ UNCHANGED vars \/ (\E j \in Job : Enqueue(j)) \/ (\E c \in Content : Parse(c))
  BY <1>1, QueueKeeps
<1>2. ASSUME NEW w \in Worker, AttemptStep(w) \/ Fail(w) PROVE PipelineInv'
  BY <1>2, StartKeeps, FetchKeeps, RecordCheckKeeps, CreateKeeps, WriteKeeps, RecordKeeps,
     EnqueueParseKeeps, FailKeeps DEF AttemptStep
<1> QED BY <1>1, <1>2 DEF Next

\* However attempts overlap, fail, crash and are retried, no snapshot row lacks its file,
\* no parse job and no recorded hash its row, and a file is truncated only by an attempt
\* that was interrupted while it wrote; no fetch job is tried more often than allowed.
THEOREM PipelineSafety == Spec => []PipelineInv
BY PipelineInit, PipelineStep, PTL DEF Spec

-----------------------------------------------------------------------------
(* Where a change is on its way to its parse.                               *)

Lost == lapses \ {"torn"} # {}
Carries(w) == worker[w].pc = "enqueue" /\ worker[w].body = latest

\* Content that replaced other content is in the parse queue, or held by an attempt that
\* is about to enqueue it, unless it was lost in one of the four known ways; until then
\* the source's hash is that of the content recorded last.
ChangeIsCarried ==
    /\ ~Lost => source.contentHash = latest
    /\ owed => Lost \/ latest \in parse \/ \E w \in Worker : Carries(w)

\* A step of attempts that leaves a change and those who carry it alone.
LEMMA CarriedFrame ==
    ASSUME ChangeIsCarried, UNCHANGED <<latest, owed>>, source'.contentHash = source.contentHash,
           lapses \subseteq lapses', parse \subseteq parse',
           \A w \in Worker : Carries(w) => Lost' \/ latest \in parse' \/ Carries(w)'
    PROVE  ChangeIsCarried'
<1>1. Lost => Lost'
  BY DEF Lost
<1> QED BY <1>1 DEF ChangeIsCarried

\* A step of one attempt that does not end with its change in hand.
LEMMA CarriersStay ==
    ASSUME TypeOK, NEW w \in Worker, worker[w].pc # "enqueue",
           \A v \in Worker \ {w} : worker'[v] = worker[v], UNCHANGED latest
    PROVE  \A v \in Worker : Carries(v) => Carries(v)'
BY DEF Carries

LEMMA AttemptCarries ==
    ASSUME PipelineInv, ChangeIsCarried, NEW w \in Worker,
           (\E j \in Job : Start(w, j)) \/ Fetch(w) \/ RecordCheck(w) \/ CreateObject(w) \/ WriteObject(w)
    PROVE  ChangeIsCarried'
<1>0. TypeOK
  BY DEF PipelineInv
<1>1. UNCHANGED <<latest, owed, lapses, parse>>
  BY DEF Start, Fetch, RecordCheck, CreateObject, WriteObject, history, evidence
<1>2. worker[w].pc # "enqueue"
  <2>1. CASE \E j \in Job : Start(w, j)
    BY <2>1 DEF Start, Idle
  <2>2. CASE Fetch(w)
    BY <2>2 DEF Fetch
  <2>3. CASE RecordCheck(w)
    BY <2>3 DEF RecordCheck
  <2>4. CASE CreateObject(w) \/ WriteObject(w)
    BY <2>4 DEF CreateObject, WriteObject
  <2> QED BY <2>1, <2>2, <2>3, <2>4
<1>3. source'.contentHash = source.contentHash
  <2>1. CASE RecordCheck(w)
    BY <1>0, <2>1 DEF RecordCheck, TypeOK
  <2>2. CASE ~RecordCheck(w)
    <3>1. UNCHANGED source
      BY <2>2 DEF Start, Fetch, CreateObject, WriteObject, evidence
    <3> QED BY <3>1
  <2> QED BY <2>1, <2>2
<1>4. \A v \in Worker \ {w} : worker'[v] = worker[v]
  <2> USE <1>0 DEF TypeOK, Goto, Complete, Abandon
  <2>1. CASE \E j \in Job : Start(w, j)
    BY <2>1 DEF Start
  <2>2. CASE Fetch(w)
    BY <2>2 DEF Fetch
  <2>3. CASE RecordCheck(w)
    BY <2>3 DEF RecordCheck
  <2>4. CASE CreateObject(w)
    BY <2>4 DEF CreateObject
  <2>5. CASE WriteObject(w)
    BY <2>5 DEF WriteObject
  <2> QED BY <2>1, <2>2, <2>3, <2>4, <2>5
<1>5. \A v \in Worker : Carries(v) => Carries(v)'
  BY <1>0, <1>1, <1>2, <1>4, CarriersStay
<1> QED BY <1>1, <1>3, <1>5, CarriedFrame

\* The snapshot is where a change begins.
LEMMA RecordCarries ==
    ASSUME PipelineInv, ChangeIsCarried, NEW w \in Worker, RecordSnapshot(w)
    PROVE  ChangeIsCarried'
<1>0. TypeOK
  BY DEF PipelineInv
<1> DEFINE a == worker[w]
<1>1. /\ a.pc = "record" /\ latest' = a.body /\ owed' = (owed \/ a.body # latest)
      /\ source' = IF Newer(a.at) THEN [contentHash |-> a.body, lastCheckedAt |-> a.at] ELSE source
      /\ lapses' = lapses \cup (IF Newer(a.at) THEN {} ELSE {"unmarked"})
                          \cup (IF a.hash = source.contentHash THEN {} ELSE {"overtaken"})
      /\ parse' = parse
      /\ IF Unchanged(a) THEN Complete(w)
         ELSE worker' = [worker EXCEPT ![w].pc = "enqueue"] /\ UNCHANGED job
  BY DEF RecordSnapshot
<1>2. \A v \in Worker \ {w} : worker'[v] = worker[v]
  BY <1>0, <1>1 DEF TypeOK, Complete
<1>3. ~Lost' => ~Lost /\ Newer(a.at) /\ a.hash = source.contentHash
  BY <1>1 DEF Lost
<1>4. ~Lost' => source'.contentHash = latest'
  BY <1>1, <1>3
<1>5. ASSUME owed', ~Lost' PROVE latest' \in parse' \/ \E v \in Worker : Carries(v)'
  <2>1. source.contentHash = latest /\ a.hash = latest
    BY <1>3, <1>5 DEF ChangeIsCarried
  <2>2. CASE a.body = latest
    <3>1. latest \in parse \/ \E v \in Worker : Carries(v)
      BY <1>1, <1>3, <1>5, <2>2 DEF ChangeIsCarried
    <3>2. \A v \in Worker : Carries(v) => Carries(v)'
      <4>1. UNCHANGED latest /\ worker[w].pc # "enqueue"
        BY <1>1, <2>2
      <4> QED BY <1>0, <1>2, <4>1, CarriersStay
    <3> QED BY <1>1, <2>2, <3>1, <3>2
  <2>3. CASE a.body # latest
    <3>1. worker' = [worker EXCEPT ![w].pc = "enqueue"]
      BY <1>1, <2>1, <2>3 DEF Unchanged
    <3>2. worker[w] \in Attempt
      BY <1>0, <1>1, OpenAttempt
    <3>3. worker'[w].pc = "enqueue" /\ worker'[w].body = a.body
      BY <1>0, <3>1, <3>2 DEF TypeOK, Attempt
    <3> QED BY <1>1, <3>3 DEF Carries
  <2> QED BY <2>2, <2>3
<1> QED BY <1>4, <1>5 DEF ChangeIsCarried

LEMMA PipelineCarries == PipelineInv /\ ChangeIsCarried /\ [Next]_vars => ChangeIsCarried'
<1> SUFFICES ASSUME PipelineInv, ChangeIsCarried, [Next]_vars PROVE ChangeIsCarried'
  OBVIOUS
<1>0. TypeOK
  BY DEF PipelineInv
<1>1. CASE Tick \/ UNCHANGED vars \/ \E j \in Job : Enqueue(j)
  <2>1. UNCHANGED <<source, worker, parse, latest, owed, lapses>>
    BY <1>1 DEF Tick, vars, Enqueue, evidence, history
  <2> QED BY <2>1 DEF ChangeIsCarried, Lost, Carries
<1>2. ASSUME NEW w \in Worker, EnqueueParse(w) PROVE ChangeIsCarried'
  <2>1. /\ worker[w].pc = "enqueue" /\ parse' = parse \cup {worker[w].body}
        /\ UNCHANGED <<source, latest, owed, lapses>>
        /\ \A v \in Worker \ {w} : worker'[v] = worker[v]
    BY <1>0, <1>2 DEF EnqueueParse, Complete, evidence, history, TypeOK
  <2>2. \A v \in Worker : Carries(v) => latest \in parse' \/ Carries(v)'
    BY <2>1 DEF Carries
  <2> QED BY <2>1, <2>2, CarriedFrame
<1>3. ASSUME NEW w \in Worker, Fail(w) PROVE ChangeIsCarried'
  <2>1. /\ UNCHANGED <<source, latest, owed, parse>>
        /\ lapses \subseteq lapses'
        /\ worker[w].pc = "enqueue" => Lost'
        /\ \A v \in Worker \ {w} : worker'[v] = worker[v]
    <3>1. /\ UNCHANGED <<source, latest, owed, parse>> /\ Abandon(w)
          /\ lapses' = lapses \cup
                CASE worker[w].pc = "enqueue" -> {"orphaned"}
                  [] worker[w].pc = "write" -> {"torn"}
                  [] OTHER -> {}
      BY <1>3 DEF Fail, evidence
    <3>2. \A v \in Worker \ {w} : worker'[v] = worker[v]
      BY <1>0, <3>1 DEF Abandon, TypeOK
    <3>3. lapses \subseteq lapses' /\ (worker[w].pc = "enqueue" => "orphaned" \in lapses')
      BY <3>1
    <3> QED BY <3>1, <3>2, <3>3 DEF Lost
  <2>2. \A v \in Worker : Carries(v) => Lost' \/ Carries(v)'
    BY <2>1 DEF Carries
  <2> QED BY <2>1, <2>2, CarriedFrame
<1>4. ASSUME NEW c \in Content, Parse(c) PROVE ChangeIsCarried'
  <2>1. /\ parse' = parse \ {c} /\ UNCHANGED <<source, worker, latest>>
        /\ lapses \subseteq lapses'
        /\ owed' => owed /\ (c # latest \/ Lost')
    <3>1. CASE object[c] = "complete"
      BY <1>0, <1>4, <3>1 DEF Parse, evidence, TypeOK
    <3>2. CASE object[c] # "complete"
      <4>1. /\ lapses' = lapses \cup {"truncated"} /\ UNCHANGED owed
            /\ parse' = parse \ {c} /\ UNCHANGED <<source, worker, latest>>
        BY <1>4, <3>2 DEF Parse, evidence
      <4> QED BY <4>1 DEF Lost
    <3> QED BY <3>1, <3>2
  <2>2. Lost => Lost'
    BY <2>1 DEF Lost
  <2>3. \A v \in Worker : Carries(v) => Carries(v)'
    BY <2>1 DEF Carries
  <2> QED BY <2>1, <2>2, <2>3 DEF ChangeIsCarried
<1> QED BY <1>1, <1>2, <1>3, <1>4, AttemptCarries, RecordCarries DEF Next, AttemptStep

\* However attempts overlap, fail and are retried, and even if the page is reverted
\* meanwhile, a change that was recorded and not parsed is still on its way, unless it
\* was lost in one of the four ways that ChangeIsParsed names.
THEOREM ChangeIsOnItsWay == Spec => []ChangeIsCarried
<1>1. Init => ChangeIsCarried
  BY DEF Init, ChangeIsCarried
<1> QED BY <1>1, PipelineInit, PipelineStep, PipelineCarries, PTL DEF Spec

\* The steps left of an attempt.
AttemptLeft(pc) ==
    CASE pc = "fetch" -> 7 [] pc \in {"check", "checkFailed", "checkSkipped"} -> 6 [] pc = "create" -> 5
      [] pc = "write" -> 4 [] pc = "record" -> 3 [] pc = "enqueue" -> 2 [] OTHER -> 0

LEMMA AttemptShortens ==
    ASSUME TypeOK, NEW w \in Worker, worker[w] # Idle, AttemptStep(w) \/ Fail(w)
    PROVE  /\ AttemptLeft(worker'[w].pc) < AttemptLeft(worker[w].pc)
           /\ \A v \in Worker \ {w} : worker'[v] = worker[v]
<1>1. worker[w] \in Attempt /\ worker \in [Worker -> {Idle} \cup Attempt] /\ Idle.pc = "idle"
  BY DEF TypeOK, Idle
<1>2. ~\E j \in Job : Start(w, j)
  BY DEF Start
<1>3. ASSUME Complete(w) \/ Abandon(w)
      PROVE  worker'[w].pc = "idle" /\ \A v \in Worker \ {w} : worker'[v] = worker[v]
  BY <1>1, <1>3 DEF Complete, Abandon
<1>4. CASE Fail(w)
  <2>1. worker[w].pc # "idle" /\ Abandon(w)
    BY <1>4 DEF Fail
  <2> QED BY <1>1, <1>3, <2>1 DEF AttemptLeft, Attempt
<1>5. CASE Fetch(w)
  <2>1. /\ worker[w].pc = "fetch" /\ worker'[w].pc \in {"check", "checkFailed", "checkSkipped"}
        /\ \A v \in Worker \ {w} : worker'[v] = worker[v]
    BY <1>1, <1>5 DEF Fetch, Goto, Attempt
  <2> QED BY <2>1 DEF AttemptLeft
<1>6. CASE RecordCheck(w)
  <2>1. CASE worker[w].pc = "check"
    <3>1. worker'[w].pc = "create" /\ \A v \in Worker \ {w} : worker'[v] = worker[v]
      BY <1>1, <1>6, <2>1 DEF RecordCheck, Goto, Attempt
    <3> QED BY <2>1, <3>1 DEF AttemptLeft
  <2>2. CASE worker[w].pc # "check"
    <3>1. worker[w].pc \in {"checkFailed", "checkSkipped"} /\ (Complete(w) \/ Abandon(w))
      BY <1>6, <2>2 DEF RecordCheck
    <3> QED BY <1>3, <3>1 DEF AttemptLeft
  <2> QED BY <2>1, <2>2
<1>7. CASE CreateObject(w) \/ WriteObject(w)
  <2>1. /\ \/ worker[w].pc = "create" /\ worker'[w].pc \in {"write", "record"}
           \/ worker[w].pc = "write" /\ worker'[w].pc = "record"
        /\ \A v \in Worker \ {w} : worker'[v] = worker[v]
    BY <1>1, <1>7 DEF CreateObject, WriteObject, Attempt
  <2> QED BY <2>1 DEF AttemptLeft
<1>8. CASE RecordSnapshot(w)
  <2>1. CASE Complete(w)
    BY <1>3, <1>8, <2>1 DEF RecordSnapshot, AttemptLeft
  <2>2. CASE worker' = [worker EXCEPT ![w].pc = "enqueue"]
    <3>1. /\ worker[w].pc = "record" /\ worker'[w].pc = "enqueue"
          /\ \A v \in Worker \ {w} : worker'[v] = worker[v]
      BY <1>1, <1>8, <2>2 DEF RecordSnapshot, Attempt
    <3> QED BY <3>1 DEF AttemptLeft
  <2> QED BY <1>8, <2>1, <2>2 DEF RecordSnapshot
<1>9. CASE EnqueueParse(w)
  BY <1>3, <1>9 DEF EnqueueParse, AttemptLeft
<1> QED BY <1>2, <1>4, <1>5, <1>6, <1>7, <1>8, <1>9 DEF AttemptStep

\* An attempt cannot go round for ever: whoever steps or fails, it is begun, left alone,
\* or comes nearer its end, and its own steps always bring it nearer.  This and
\* ChangeIsOnItsWay are what ChangeIsParsed rests on beside fairness.
THEOREM AttemptsRunOut ==
    Spec => [][\A w \in Worker :
                  /\ worker'[w] = worker[w] \/ worker[w] = Idle
                        \/ AttemptLeft(worker'[w].pc) < AttemptLeft(worker[w].pc)
                  /\ AttemptStep(w) /\ worker[w] # Idle =>
                        AttemptLeft(worker'[w].pc) < AttemptLeft(worker[w].pc)]_vars
<1> DEFINE Nearer ==
        \A w \in Worker :
            /\ worker'[w] = worker[w] \/ worker[w] = Idle
                  \/ AttemptLeft(worker'[w].pc) < AttemptLeft(worker[w].pc)
            /\ AttemptStep(w) /\ worker[w] # Idle =>
                  AttemptLeft(worker'[w].pc) < AttemptLeft(worker[w].pc)
<1>1. PipelineInv /\ [Next]_vars => [Nearer]_vars
  <2> SUFFICES ASSUME TypeOK, Next, NEW w \in Worker
               PROVE  /\ worker'[w] = worker[w] \/ worker[w] = Idle
                            \/ AttemptLeft(worker'[w].pc) < AttemptLeft(worker[w].pc)
                      /\ AttemptStep(w) /\ worker[w] # Idle =>
                            AttemptLeft(worker'[w].pc) < AttemptLeft(worker[w].pc)
    BY DEF PipelineInv
  <2>1. AttemptStep(w) /\ worker[w] # Idle => AttemptLeft(worker'[w].pc) < AttemptLeft(worker[w].pc)
    BY AttemptShortens
  <2>2. ASSUME NEW v \in Worker, AttemptStep(v) \/ Fail(v), worker[v] # Idle
        PROVE  worker'[w] = worker[w] \/ AttemptLeft(worker'[w].pc) < AttemptLeft(worker[w].pc)
    BY <2>2, AttemptShortens
  <2>3. ASSUME NEW v \in Worker, AttemptStep(v) \/ Fail(v), worker[v] = Idle
        PROVE  worker'[w] = worker[w] \/ worker[w] = Idle
    <3>1. worker[v].pc = "idle"
      BY <2>3 DEF Idle
    <3>2. PICK j \in Job : Start(v, j)
      BY <2>3, <3>1 DEF AttemptStep, Fetch, RecordCheck, CreateObject, WriteObject, RecordSnapshot,
         EnqueueParse, Fail
    <3> QED BY <2>3, <3>2 DEF Start, TypeOK
  <2>4. CASE (\E j \in Job : Enqueue(j)) \/ (\E c \in Content : Parse(c)) \/ Tick
    <3>1. worker' = worker
      BY <2>4 DEF Enqueue, Parse, Tick
    <3> QED BY <2>1, <3>1
  <2> QED BY <2>1, <2>2, <2>3, <2>4 DEF Next
<1> HIDE DEF Nearer
<1>2. Spec => [][Nearer]_vars
  BY <1>1, PipelineInit, PipelineStep, PTL DEF Spec
<1> QED BY <1>2 DEF Nearer

-----------------------------------------------------------------------------
(* OfficialFetcher: what is true of one call and of one queue.              *)

Asks == {"resolve", "turn", "sent"}
Queued == {"turn", "sent"}
CallRecord == {F!Idle} \cup F!Consult \cup F!PageRequest

\* What PagesArePermitted says of a page, given the rules its origin has answered.
Permitted(path, rules) ==
    \E content \in rules :
        \A r \in F!RulesFor(content, path) :
            ~r.allow => \E s \in F!RulesFor(content, path) : s.allow /\ s.length >= r.length

\* A call that may go on, given the rules that the origins have answered.
Good(a, answers) ==
    /\ a \in CallRecord
    /\ a.pc # "idle" =>
          /\ F!Approved(a.target)
          /\ a.secure => a.target.secure
          /\ a.pc # "consult" /\ a.kind = "page" => a.url = a.target
    /\ a.pc \in Asks =>
          /\ F!Approved(a.url)
          /\ a.secure => a.url.secure
          /\ a.kind = "page" => Permitted(a.url.path, answers[F!OriginOf(a.url)])

\* A queue of these members, the first of which is the only one that may be served.
Serves(s, members, served) ==
    /\ s \in Seq(Caller)
    /\ \A c \in Caller : (\E i \in 1..Len(s) : s[i] = c) <=> c \in members
    /\ \A i, j \in 1..Len(s) : s[i] = s[j] => i = j
    /\ \A c \in served : s[1] = c

Members(calls, h) == {c \in Caller : calls[c].pc \in Queued /\ calls[c].url.host = h}
Served(calls, h) == {c \in Caller : calls[c].pc = "sent" /\ calls[c].url.host = h}
QueueServes(queues, calls, h) == Serves(queues[h], Members(calls, h), Served(calls, h))

CallsAreGood == \A c \in Caller : Good(call[c], answered)
QueuesServe == \A h \in F!Host : QueueServes(tails, call, h)
SharedOK ==
    /\ call \in [Caller -> CallRecord]
    /\ tails \in [F!Host -> Seq(Caller)]
    /\ wait \in [F!Host -> Nat]
    /\ cache \in [F!Origin -> [rules : Robots \cup {<<>>}, expires : 0..RobotsCacheTime]]
    /\ fetches \in 0..MaxFetches
    /\ answered \in [F!Origin -> SUBSET Robots]
    /\ F!CacheIsAnswered


\* The inductive invariant.
FetcherIInv == SharedOK /\ CallsAreGood /\ QueuesServe

LEMMA Kinds ==
    /\ F!Idle.pc = "idle"
    /\ \A a \in F!Consult : a.pc = "consult"
    /\ \A a \in F!PageRequest : a.pc \in Asks
    /\ \A a \in CallRecord : /\ a.pc = "idle" <=> a = F!Idle
                             /\ a.pc = "consult" <=> a \in F!Consult
                             /\ a.pc \in Asks <=> a \in F!PageRequest
BY DEF F!Idle, F!Consult, F!PageRequest, Asks, CallRecord

LEMMA SameCardinalityOfCalls == \A S : F!Cardinality(S) = Cardinality(S)
BY Zenon DEF F!Cardinality, Cardinality

LEMMA Gather == FetcherIInv => F!FetcherInv
<1> SUFFICES ASSUME SharedOK, CallsAreGood, QueuesServe PROVE F!FetcherInv
  BY DEF FetcherIInv
<1>1. F!TypeOK /\ F!CacheIsAnswered
  BY DEF SharedOK, F!TypeOK, CallRecord
<1>2. F!PagesArePermitted
  BY DEF CallsAreGood, Good, Permitted, F!PagesArePermitted, F!Asking, Asks
<1>3. F!TargetsAreApproved
  BY DEF CallsAreGood, Good, F!TargetsAreApproved
<1>4. F!QueuesAreTrue
  BY DEF QueuesServe, QueueServes, Serves, Members, Served, F!QueuesAreTrue, F!InFlight, F!Asking, Queued
<1>5. F!OneAtATime
  <2> SUFFICES ASSUME NEW h \in F!Host PROVE F!Cardinality(F!InFlight(h)) <= 1
    BY DEF F!OneAtATime
  <2>1. F!InFlight(h) \subseteq {tails[h][1]}
    BY <1>4 DEF F!QueuesAreTrue
  <2>2. IsFiniteSet({tails[h][1]}) /\ Cardinality({tails[h][1]}) = 1
    BY FS_Singleton
  <2>3. Cardinality(F!InFlight(h)) <= 1
    BY <2>1, <2>2, FS_Subset
  <2> QED BY <2>3, SameCardinalityOfCalls
<1> QED BY <1>1, <1>2, <1>3, <1>4, <1>5 DEF F!FetcherInv

-----------------------------------------------------------------------------
(* Calls.                                                                   *)

\* The most specific rules decide.
LEMMA AllowedIsPermitted ==
    ASSUME NEW content \in Robots, NEW path, F!Allowed(content, path), NEW rules, content \in rules
    PROVE  Permitted(path, rules)
<1> DEFINE matching == F!RulesFor(content, path)
<1>1. \A r \in matching : r.length \in Nat
  BY FetchingAssumption DEF F!FetcherAssumption, F!RulesFor, F!Selected
<1>2. ASSUME NEW r \in matching, ~r.allow
      PROVE  \E s \in matching : s.allow /\ s.length >= r.length
  <2>1. PICK s \in matching : s.allow /\ \A q \in matching : q.length <= s.length
    BY <1>2 DEF F!Allowed
  <2> QED BY <1>1, <1>2, <2>1
<1> QED BY <1>2 DEF Permitted

\* Rules that are given leave those given before.
LEMMA GoodStays ==
    ASSUME NEW a, NEW answers, NEW more, Good(a, answers),
           \A o \in F!Origin : answers[o] \subseteq more[o]
    PROVE  Good(a, more)
<1>1. ASSUME a.pc \in Asks, a.kind = "page" PROVE Permitted(a.url.path, more[F!OriginOf(a.url)])
  <2>1. a.url = a.target /\ a.target \in Url
    BY <1>1, Kinds DEF Good, F!PageRequest, Asks
  <2>2. F!OriginOf(a.url) \in F!Origin
    BY <2>1 DEF F!Origin, F!OriginOf
  <2> QED BY <1>1, <2>2 DEF Good, Permitted
<1> QED BY <1>1 DEF Good

LEMMA CallsMove ==
    ASSUME SharedOK, CallsAreGood, NEW c \in Caller, NEW a,
           call' = [call EXCEPT ![c] = a], Good(a, answered'),
           \A o \in F!Origin : answered[o] \subseteq answered'[o]
    PROVE  /\ CallsAreGood'
           /\ call' \in [Caller -> CallRecord]
           /\ \A d \in Caller : call'[d] = IF d = c THEN a ELSE call[d]
<1>1. \A d \in Caller : call'[d] = IF d = c THEN a ELSE call[d]
  BY DEF SharedOK
<1>2. ASSUME NEW d \in Caller PROVE Good(call'[d], answered')
  BY <1>1, <1>2, GoodStays DEF CallsAreGood
<1>3. call' \in [Caller -> CallRecord]
  BY DEF SharedOK, Good
<1> QED BY <1>1, <1>2, <1>3 DEF CallsAreGood

LEMMA GoodIdle == \A answers : Good(F!Idle, answers)
BY Kinds DEF Good, CallRecord, Asks

\* A call whose target its rules allow asks for it.
LEMMA GoodPage ==
    ASSUME NEW c \in Caller, Good(call[c], answered), call[c].pc # "idle",
           NEW content \in Robots, NEW answers, content \in answers[F!OriginOf(call[c].target)]
    PROVE  /\ Good(F!AskPage(c, content), answers)
           /\ F!AskPage(c, content).pc \notin Queued
<1> DEFINE a == call[c]
           b == F!Ask(c, "page", a.target, 0, F!CrawlDelay(content))
<1>1. /\ a.target \in Url /\ a.hops \in 0..MaximumRedirects /\ a.secure \in BOOLEAN
      /\ F!Approved(a.target) /\ (a.secure => a.target.secure)
  BY Kinds DEF Good, CallRecord, F!Consult, F!PageRequest
<1>2. 0 \in 0..MaximumRedirects /\ F!CrawlDelay(content) \in Nat
  BY FetchingAssumption DEF F!FetcherAssumption
<1>3. CASE ~F!Allowed(content, a.target.path)
  BY <1>3, GoodIdle, Kinds DEF F!AskPage, Queued
<1>4. CASE F!Allowed(content, a.target.path)
  <2>1. F!AskPage(c, content) = b
    BY <1>4 DEF F!AskPage
  <2>2. b.pc = "resolve" /\ b.target = a.target /\ b.secure = a.secure /\ b.url = a.target /\ b.kind = "page"
    BY DEF F!Ask
  <2>3. b \in F!PageRequest
    BY <1>1, <1>2 DEF F!Ask, F!PageRequest
  <2>4. Permitted(b.url.path, answers[F!OriginOf(b.url)])
    BY <1>4, <2>2, AllowedIsPermitted
  <2> HIDE DEF a, b
  <2>5. Good(b, answers)
    <3>1. /\ F!Approved(b.target) /\ (b.secure => b.target.secure)
          /\ F!Approved(b.url) /\ (b.secure => b.url.secure) /\ b.url = b.target
      BY <1>1, <2>2
    <3> QED BY <2>3, <2>4, <3>1 DEF Good, CallRecord
  <2> QED BY <2>1, <2>2, <2>5 DEF Queued
<1> QED BY <1>3, <1>4

-----------------------------------------------------------------------------
(* Queues.                                                                  *)

LEMMA Joins ==
    ASSUME NEW s, NEW members, NEW served, Serves(s, members, served),
           NEW c \in Caller, c \notin members, served \subseteq members, members \subseteq Caller
    PROVE  Serves(Append(s, c), members \cup {c}, served)
<1>1. s \in Seq(Caller) /\ Len(s) \in Nat
  BY DEF Serves
<1>2. /\ Append(s, c) \in Seq(Caller)
      /\ Len(Append(s, c)) = Len(s) + 1
      /\ \A i \in 1..Len(s) : Append(s, c)[i] = s[i]
      /\ Append(s, c)[Len(s) + 1] = c
  BY <1>1
<1> DEFINE t == Append(s, c)
<1> HIDE DEF t
<1>3. ASSUME NEW d \in Caller PROVE (\E i \in 1..Len(t) : t[i] = d) <=> d \in members \cup {c}
  <2>1. (\E i \in 1..Len(t) : t[i] = d) <=> (\E i \in 1..Len(s) : s[i] = d) \/ d = c
    BY <1>1, <1>2 DEF t
  <2> QED BY <2>1 DEF Serves
<1>4. \A i \in 1..Len(s) : s[i] # c
  BY DEF Serves
<1>5. ASSUME NEW i \in 1..Len(t), NEW j \in 1..Len(t), t[i] = t[j] PROVE i = j
  <2>1. /\ i \in 1..Len(s) \/ i = Len(s) + 1
        /\ j \in 1..Len(s) \/ j = Len(s) + 1
    BY <1>1, <1>2 DEF t
  <2> QED BY <1>1, <1>2, <1>4, <1>5, <2>1 DEF t, Serves
<1>6. ASSUME NEW d \in served PROVE t[1] = d
  <2>1. \E i \in 1..Len(s) : s[i] = d
    <3>1. d \in members /\ s[1] = d
      BY <1>6 DEF Serves
    <3> QED BY <3>1, <1>1, <1>6 DEF Serves
  <2>2. 1 \in 1..Len(s) /\ s[1] = d
    BY <1>1, <2>1 DEF Serves
  <2> QED BY <1>2, <2>2 DEF t
<1> QED BY <1>2, <1>3, <1>5, <1>6 DEF t, Serves

LEMMA Leaves ==
    ASSUME NEW s, NEW members, NEW served, Serves(s, members, served),
           NEW c \in Caller, c \in members, c \in served
    PROVE  Serves(Tail(s), members \ {c}, {})
<1>1. s \in Seq(Caller) /\ Len(s) \in Nat /\ s[1] = c
  BY DEF Serves
<1>2. s # <<>> /\ Len(s) > 0
  BY <1>1 DEF Serves
<1>3. /\ Tail(s) \in Seq(Caller)
      /\ Len(Tail(s)) = Len(s) - 1
      /\ \A i \in 1..(Len(s) - 1) : Tail(s)[i] = s[i + 1]
  BY <1>1, <1>2
<1> DEFINE t == Tail(s)
<1> HIDE DEF t
<1>4. ASSUME NEW d \in Caller PROVE (\E i \in 1..Len(t) : t[i] = d) <=> d \in members \ {c}
  <2>1. ASSUME NEW i \in 1..Len(t), t[i] = d PROVE d \in members /\ d # c
    <3>1. i + 1 \in 1..Len(s) /\ s[i + 1] = d /\ i + 1 # 1
      BY <1>1, <1>3, <2>1 DEF t
    <3>2. 1 \in 1..Len(s)
      BY <1>1, <1>2
    <3> QED BY <1>1, <3>1, <3>2 DEF Serves
  <2>2. ASSUME d \in members, d # c PROVE \E i \in 1..Len(t) : t[i] = d
    <3>1. PICK i \in 1..Len(s) : s[i] = d
      BY <2>2 DEF Serves
    <3>2. i # 1
      BY <1>1, <2>2, <3>1
    <3>3. i - 1 \in 1..Len(t) /\ t[i - 1] = s[(i - 1) + 1] /\ (i - 1) + 1 = i
      BY <1>1, <1>3, <3>1, <3>2 DEF t
    <3> QED BY <3>1, <3>3
  <2> QED BY <2>1, <2>2
<1>5. ASSUME NEW i \in 1..Len(t), NEW j \in 1..Len(t), t[i] = t[j] PROVE i = j
  <2>1. /\ i + 1 \in 1..Len(s) /\ t[i] = s[i + 1]
        /\ j + 1 \in 1..Len(s) /\ t[j] = s[j + 1]
        /\ i \in Int /\ j \in Int
    BY <1>1, <1>3 DEF t
  <2>2. PICK p \in 1..Len(s) : p = i + 1
    BY <2>1
  <2>3. PICK q \in 1..Len(s) : q = j + 1
    BY <2>1
  <2>4. s[p] = s[q]
    BY <1>5, <2>1, <2>2, <2>3
  <2>5. p = q
    BY <2>4, Zenon DEF Serves
  <2> QED BY <2>1, <2>2, <2>3, <2>5
<1> QED BY <1>3, <1>4, <1>5 DEF t, Serves

\* A queue of which one member is now served, for it is the first.
LEMMA Begins ==
    ASSUME NEW s, NEW members, NEW served, Serves(s, members, served),
           NEW c \in Caller, s[1] = c
    PROVE  Serves(s, members, served \cup {c})
BY DEF Serves

\* Calls that neither enter nor leave a queue.
LEMMA QueuesStay ==
    ASSUME QueuesServe, UNCHANGED tails, NEW c \in Caller, NEW a,
           \A d \in Caller : call'[d] = IF d = c THEN a ELSE call[d],
           call[c].pc \notin Queued, a.pc \notin Queued
    PROVE  QueuesServe'
<1> SUFFICES ASSUME NEW h \in F!Host PROVE QueueServes(tails', call', h)
  BY DEF QueuesServe
<1>1. Members(call', h) = Members(call, h) /\ Served(call', h) = Served(call, h)
  BY DEF Members, Served, Queued
<1> QED BY <1>1 DEF QueuesServe, QueueServes

\* A request that ended gave its turn on.
LEMMA QueueMoves ==
    ASSUME SharedOK, QueuesServe, NEW c \in Caller, NEW a,
           \A d \in Caller : call'[d] = IF d = c THEN a ELSE call[d],
           call[c].pc = "sent", call[c].url.host \in F!Host, a.pc \notin Queued,
           F!Release(c, TRUE)
    PROVE  QueuesServe' /\ tails' \in [F!Host -> Seq(Caller)]
<1> DEFINE own == call[c].url.host
<1>1. \A h \in F!Host : tails'[h] = IF h = own THEN Tail(tails[h]) ELSE tails[h]
  BY DEF F!Release, SharedOK
<1>2. ASSUME NEW h \in F!Host PROVE QueueServes(tails', call', h)
  <2>1. QueueServes(tails, call, h)
    BY DEF QueuesServe
  <2>2. CASE h = own
    <3>1. c \in Members(call, h) /\ c \in Served(call, h)
      BY <2>2 DEF Members, Served, Queued
    <3>2. Members(call', h) = Members(call, h) \ {c}
      BY <2>2 DEF Members
    <3>3. Served(call', h) = {}
      BY <2>1, <3>1 DEF Served, QueueServes, Serves, Queued
    <3> QED BY <1>1, <2>1, <2>2, <3>1, <3>2, <3>3, Leaves DEF QueueServes
  <2>3. CASE h # own
    <3>1. Members(call', h) = Members(call, h) /\ Served(call', h) = Served(call, h)
      BY <2>3 DEF Members, Served, Queued
    <3> QED BY <1>1, <2>1, <2>3, <3>1 DEF QueueServes
  <2> QED BY <2>2, <2>3
<1>3. tails' \in [F!Host -> Seq(Caller)]
  <2>1. \A h \in F!Host : tails'[h] \in Seq(Caller)
    BY <1>2 DEF QueueServes, Serves
  <2> QED BY <2>1 DEF SharedOK, F!Release
<1> QED BY <1>2, <1>3 DEF QueuesServe

-----------------------------------------------------------------------------
(* Steps.                                                                   *)

LEMMA HostOfRequest ==
    ASSUME NEW a \in F!PageRequest
    PROVE  a.url.host \in F!Host
<1>1. \A o \in F!Origin : F!RobotsUrl(o).host \in F!Host
  BY DEF F!Origin, F!Host, F!RobotsUrl
<1> QED BY <1>1 DEF F!PageRequest, F!Host

\* A call that goes on with what it asks for.
LEMMA GoodAdvances ==
    ASSUME NEW a \in F!PageRequest, NEW pc \in Asks, NEW answers, Good(a, answers)
    PROVE  /\ Good([a EXCEPT !.pc = pc], answers)
           /\ [a EXCEPT !.pc = pc].pc = pc
           /\ [a EXCEPT !.pc = pc].url = a.url
<1> DEFINE b == [a EXCEPT !.pc = pc]
<1>1. /\ b \in F!PageRequest /\ b.pc = pc /\ b.url = a.url /\ b.target = a.target
      /\ b.secure = a.secure /\ b.kind = a.kind
  BY DEF F!PageRequest, Asks
<1> HIDE DEF b
<1>2. /\ F!Approved(a.target) /\ (a.secure => a.target.secure)
      /\ (a.kind = "page" => a.url = a.target)
      /\ F!Approved(a.url) /\ (a.secure => a.url.secure)
      /\ (a.kind = "page" => Permitted(a.url.path, answers[F!OriginOf(a.url)]))
  BY Kinds DEF Good, Asks
<1>3. Good(b, answers)
  BY <1>1, <1>2 DEF Good, CallRecord
<1> QED BY <1>1, <1>3 DEF b

LEMMA FetchCallKeeps ==
    ASSUME FetcherIInv, NEW c \in Caller, NEW u \in Url, F!Fetch(c, u)
    PROVE  FetcherIInv'
<1>1. SharedOK /\ CallsAreGood /\ QueuesServe
  BY DEF FetcherIInv
<1>2. UNCHANGED <<tails, wait, cache, answered>> /\ fetches' \in 0..MaxFetches
  BY <1>1, FetchingAssumption DEF F!Fetch, SharedOK, F!FetcherAssumption
<1>3. F!CacheIsAnswered'
  BY <1>1, <1>2 DEF SharedOK, F!CacheIsAnswered
<1>4. CASE ~F!Approved(u)
  <2>1. UNCHANGED call
    BY <1>4 DEF F!Fetch
  <2> QED BY <1>1, <1>2, <1>3, <2>1 DEF FetcherIInv, SharedOK, CallsAreGood, QueuesServe
<1>5. CASE F!Approved(u)
  <2> DEFINE a == [pc |-> "consult", target |-> u, hops |-> 0, secure |-> u.secure]
  <2>1. call' = [call EXCEPT ![c] = a]
    BY <1>5 DEF F!Fetch
  <2>2. 0 \in 0..MaximumRedirects /\ u.secure \in BOOLEAN
    BY FetchingAssumption DEF F!FetcherAssumption
  <2>3. a.pc = "consult" /\ a.target = u /\ a.secure = u.secure /\ a \in F!Consult
    BY <2>2 DEF F!Consult
  <2>4. Good(a, answered')
    BY <1>5, <2>3 DEF Good, CallRecord, Asks
  <2>5. call[c].pc \notin Queued /\ a.pc \notin Queued
    BY <2>3, Kinds DEF F!Fetch, Queued
  <2> HIDE DEF a
  <2>6. /\ CallsAreGood' /\ call' \in [Caller -> CallRecord]
        /\ \A d \in Caller : call'[d] = IF d = c THEN a ELSE call[d]
    BY <1>1, <1>2, <2>1, <2>4, CallsMove
  <2>7. QueuesServe'
    BY <1>1, <1>2, <2>5, <2>6, QueuesStay
  <2> QED BY <1>1, <1>2, <1>3, <2>6, <2>7 DEF FetcherIInv, SharedOK
<1> QED BY <1>4, <1>5

LEMMA ConsultRobotsKeeps ==
    ASSUME FetcherIInv, NEW c \in Caller, F!ConsultRobots(c)
    PROVE  FetcherIInv'
<1>1. SharedOK /\ CallsAreGood /\ QueuesServe
  BY DEF FetcherIInv
<1>2. UNCHANGED <<tails, wait, cache, fetches, answered>> /\ call[c].pc = "consult"
  BY DEF F!ConsultRobots
<1>3. F!CacheIsAnswered'
  BY <1>1, <1>2 DEF SharedOK, F!CacheIsAnswered
<1> DEFINE origin == F!OriginOf(call[c].target)
           a == IF cache[origin].expires > 0 THEN F!AskPage(c, cache[origin].rules)
                ELSE F!Ask(c, "robots", F!RobotsUrl(origin), 0, 0)
<1>4. call' = [call EXCEPT ![c] = a]
  BY DEF F!ConsultRobots
<1>5. call[c] \in F!Consult /\ Good(call[c], answered)
  BY <1>1, <1>2, Kinds DEF SharedOK, CallsAreGood
<1>6. /\ call[c].target \in Url /\ call[c].hops \in 0..MaximumRedirects /\ call[c].secure \in BOOLEAN
      /\ F!Approved(call[c].target) /\ (call[c].secure => call[c].target.secure)
  BY <1>2, <1>5 DEF Good, F!Consult
<1>7. origin \in F!Origin
  BY <1>6 DEF F!Origin, F!OriginOf
<1>8. Good(a, answered) /\ a.pc \notin Queued
  <2>1. CASE cache[origin].expires > 0
    <3>1. cache[origin].rules \in answered[origin] /\ cache[origin].rules \in Robots
      BY <1>1, <1>7, <2>1 DEF SharedOK, F!CacheIsAnswered
    <3> QED BY <1>2, <1>5, <2>1, <3>1, GoodPage
  <2>2. CASE ~(cache[origin].expires > 0)
    <3> DEFINE b == F!Ask(c, "robots", F!RobotsUrl(origin), 0, 0)
    <3>1. /\ b.pc = "resolve" /\ b.target = call[c].target /\ b.secure = call[c].secure
          /\ b.kind = "robots" /\ b.url = F!RobotsUrl(origin)
      BY DEF F!Ask
    <3>2. b \in F!PageRequest
      <4>1. 0 \in 0..MaximumRedirects
        BY FetchingAssumption DEF F!FetcherAssumption
      <4> QED BY <1>6, <1>7, <4>1 DEF F!Ask, F!PageRequest
    <3>3. F!Approved(F!RobotsUrl(origin)) /\ (call[c].secure => F!RobotsUrl(origin).secure)
      BY <1>6 DEF F!RobotsUrl, F!OriginOf, F!Approved
    <3> HIDE DEF b
    <3>4. Good(b, answered) /\ b.pc \notin Queued
      BY <1>6, <3>1, <3>2, <3>3 DEF Good, CallRecord, Queued
    <3> QED BY <2>2, <3>4 DEF b
  <2> QED BY <2>1, <2>2
<1> HIDE DEF a
<1>9. /\ CallsAreGood' /\ call' \in [Caller -> CallRecord]
      /\ \A d \in Caller : call'[d] = IF d = c THEN a ELSE call[d]
  BY <1>1, <1>2, <1>4, <1>8, CallsMove
<1>10. QueuesServe'
  BY <1>1, <1>2, <1>8, <1>9, QueuesStay DEF Queued
<1> QED BY <1>1, <1>2, <1>3, <1>9, <1>10 DEF FetcherIInv, SharedOK

LEMMA ResolveKeeps ==
    ASSUME FetcherIInv, NEW c \in Caller, F!Resolve(c)
    PROVE  FetcherIInv'
<1>1. SharedOK /\ CallsAreGood /\ QueuesServe
  BY DEF FetcherIInv
<1>2. UNCHANGED <<wait, cache, fetches, answered>> /\ call[c].pc = "resolve"
  BY DEF F!Resolve
<1>3. F!CacheIsAnswered'
  BY <1>1, <1>2 DEF SharedOK, F!CacheIsAnswered
<1>4. call[c] \in F!PageRequest /\ Good(call[c], answered)
  BY <1>1, <1>2, Kinds DEF SharedOK, CallsAreGood, Asks
<1> DEFINE own == call[c].url.host
<1>5. own \in F!Host
  BY <1>4, HostOfRequest
<1>6. CASE /\ call' = [call EXCEPT ![c].pc = "turn"]
           /\ tails' = [tails EXCEPT ![call[c].url.host] = Append(@, c)]
  <2> DEFINE a == [call[c] EXCEPT !.pc = "turn"]
  <2>1. Good(a, answered) /\ a.pc = "turn" /\ a.url = call[c].url
    BY <1>4, GoodAdvances DEF Asks
  <2>2. call' = [call EXCEPT ![c] = a]
    BY <1>6
  <2> HIDE DEF a
  <2>3. /\ CallsAreGood' /\ call' \in [Caller -> CallRecord]
        /\ \A d \in Caller : call'[d] = IF d = c THEN a ELSE call[d]
    BY <1>1, <1>2, <2>1, <2>2, CallsMove
  <2>4. \A h \in F!Host : tails'[h] = IF h = own THEN Append(tails[h], c) ELSE tails[h]
    BY <1>1, <1>6 DEF SharedOK
  <2>5. ASSUME NEW h \in F!Host PROVE QueueServes(tails', call', h)
    <3>1. QueueServes(tails, call, h)
      BY <1>1 DEF QueuesServe
    <3>2. Served(call', h) = Served(call, h) /\ Served(call, h) \subseteq Members(call, h)
      BY <1>2, <2>1, <2>3 DEF Served, Members, Queued
    <3>3. CASE h = own
      <4>1. c \notin Members(call, h) /\ Members(call', h) = Members(call, h) \cup {c}
        BY <1>2, <2>1, <2>3, <3>3 DEF Members, Queued
      <4>2. Members(call, h) \subseteq Caller
        BY DEF Members
      <4> QED BY <2>4, <3>1, <3>2, <3>3, <4>1, <4>2, Joins DEF QueueServes
    <3>4. CASE h # own
      <4>1. Members(call', h) = Members(call, h)
        BY <1>2, <2>1, <2>3, <3>4 DEF Members, Queued
      <4> QED BY <2>4, <3>1, <3>2, <3>4, <4>1 DEF QueueServes
    <3> QED BY <3>3, <3>4
  <2>6. QueuesServe'
    BY <2>5 DEF QueuesServe
  <2>7. tails' \in [F!Host -> Seq(Caller)]
    <3>1. \A h \in F!Host : tails'[h] \in Seq(Caller)
      BY <2>5 DEF QueueServes, Serves
    <3> QED BY <1>1, <1>6, <3>1 DEF SharedOK
  <2> QED BY <1>1, <1>2, <1>3, <2>3, <2>6, <2>7 DEF FetcherIInv, SharedOK
<1>7. CASE call' = [call EXCEPT ![c] = F!Idle] /\ UNCHANGED tails
  <2>1. /\ CallsAreGood' /\ call' \in [Caller -> CallRecord]
        /\ \A d \in Caller : call'[d] = IF d = c THEN F!Idle ELSE call[d]
    BY <1>1, <1>2, <1>7, GoodIdle, CallsMove
  <2>2. QueuesServe'
    BY <1>1, <1>2, <1>7, <2>1, Kinds, QueuesStay DEF Queued
  <2> QED BY <1>1, <1>2, <1>3, <1>7, <2>1, <2>2 DEF FetcherIInv, SharedOK
<1> QED BY <1>6, <1>7 DEF F!Resolve

LEMMA LongerIsNatural ==
    ASSUME NEW m \in Nat, NEW n \in Nat
    PROVE  F!Max({m, n}) \in Nat
<1>1. \E x \in {m, n} : \A y \in {m, n} : x >= y
  <2>1. m >= n \/ n >= m
    OBVIOUS
  <2> QED BY <2>1
<1>2. F!Max({m, n}) \in {m, n}
  BY <1>1 DEF F!Max
<1> QED BY <1>2

LEMMA SendKeeps ==
    ASSUME FetcherIInv, NEW c \in Caller, F!Send(c)
    PROVE  FetcherIInv'
<1>1. SharedOK /\ CallsAreGood /\ QueuesServe
  BY DEF FetcherIInv
<1>2. UNCHANGED <<tails, cache, fetches, answered>> /\ call[c].pc = "turn"
  BY DEF F!Send, F!Turn
<1>3. F!CacheIsAnswered'
  BY <1>1, <1>2 DEF SharedOK, F!CacheIsAnswered
<1>4. call[c] \in F!PageRequest /\ Good(call[c], answered)
  BY <1>1, <1>2, Kinds DEF SharedOK, CallsAreGood, Asks
<1> DEFINE own == call[c].url.host
           a == [call[c] EXCEPT !.pc = "sent"]
<1>5. own \in F!Host
  BY <1>4, HostOfRequest
<1>6. wait' \in [F!Host -> Nat]
  <2>1. MinimumInterval \in Nat /\ call[c].delay \in Nat
    BY <1>4, FetchingAssumption DEF F!FetcherAssumption, F!PageRequest
  <2> QED BY <1>1, <1>5, <2>1, LongerIsNatural DEF F!Send, SharedOK
<1>7. Good(a, answered) /\ a.pc = "sent" /\ a.url = call[c].url
  BY <1>4, GoodAdvances DEF Asks
<1>8. call' = [call EXCEPT ![c] = a]
  BY DEF F!Send
<1> HIDE DEF a
<1>9. /\ CallsAreGood' /\ call' \in [Caller -> CallRecord]
      /\ \A d \in Caller : call'[d] = IF d = c THEN a ELSE call[d]
  BY <1>1, <1>2, <1>7, <1>8, CallsMove
<1>10. tails[own][1] = c
  <2>1. QueueServes(tails, call, own) /\ c \in Members(call, own)
    BY <1>1, <1>2, <1>5 DEF QueuesServe, Members, Queued
  <2>2. tails[own] \in Seq(Caller) /\ tails[own] # <<>>
    BY <2>1 DEF QueueServes, Serves
  <2> QED BY <2>2 DEF F!Send, F!Turn
<1>11. ASSUME NEW h \in F!Host PROVE QueueServes(tails', call', h)
  <2>1. QueueServes(tails, call, h)
    BY <1>1 DEF QueuesServe
  <2>2. Members(call', h) = Members(call, h)
    BY <1>2, <1>7, <1>9 DEF Members, Queued
  <2>3. CASE h = own
    <3>1. Served(call', h) = Served(call, h) \cup {c}
      BY <1>7, <1>9, <2>3 DEF Served
    <3> QED BY <1>2, <1>10, <2>1, <2>2, <2>3, <3>1, Begins DEF QueueServes
  <2>4. CASE h # own
    <3>1. Served(call', h) = Served(call, h)
      BY <1>2, <1>7, <1>9, <2>4 DEF Served
    <3> QED BY <1>2, <2>1, <2>2, <3>1 DEF QueueServes
  <2> QED BY <2>3, <2>4
<1> QED BY <1>1, <1>2, <1>3, <1>6, <1>9, <1>11 DEF FetcherIInv, SharedOK, QueuesServe

\* The end of a request: its call goes on, as one that is good, or not at all.
LEMMA AnswerKeeps ==
    ASSUME FetcherIInv, NEW c \in Caller, call[c].pc = "sent", F!Release(c, TRUE),
           NEW a, call' = [call EXCEPT ![c] = a], Good(a, answered'), a.pc \notin Queued,
           UNCHANGED <<wait, fetches>>,
           cache' \in [F!Origin -> [rules : Robots \cup {<<>>}, expires : 0..RobotsCacheTime]],
           answered' \in [F!Origin -> SUBSET Robots],
           \A o \in F!Origin : answered[o] \subseteq answered'[o],
           F!CacheIsAnswered'
    PROVE  FetcherIInv'
<1>1. SharedOK /\ CallsAreGood /\ QueuesServe
  BY DEF FetcherIInv
<1>2. /\ CallsAreGood' /\ call' \in [Caller -> CallRecord]
      /\ \A d \in Caller : call'[d] = IF d = c THEN a ELSE call[d]
  BY <1>1, CallsMove
<1>3. call[c] \in F!PageRequest
  BY <1>1, Kinds DEF SharedOK, Asks
<1>4. QueuesServe' /\ tails' \in [F!Host -> Seq(Caller)]
  BY <1>1, <1>2, <1>3, HostOfRequest, QueueMoves
<1> QED BY <1>1, <1>2, <1>4 DEF FetcherIInv, SharedOK

LEMMA AnswerEndKeeps ==
    ASSUME FetcherIInv, NEW c \in Caller, NEW succeeds \in BOOLEAN, F!AnswerEnd(c, succeeds)
    PROVE  FetcherIInv'
<1>1. F!Release(c, TRUE) /\ call[c].pc = "sent" /\ UNCHANGED <<wait, cache, fetches, answered>>
  BY DEF F!AnswerEnd, F!Release
<1>2. SharedOK /\ F!CacheIsAnswered'
  BY <1>1 DEF FetcherIInv, SharedOK, F!CacheIsAnswered
<1>3. Good(F!Idle, answered') /\ F!Idle.pc \notin Queued
  BY GoodIdle, Kinds DEF Queued
<1> QED BY <1>1, <1>2, <1>3, AnswerKeeps DEF F!AnswerEnd, SharedOK

LEMMA AnswerRedirectKeeps ==
    ASSUME FetcherIInv, NEW c \in Caller, NEW u \in Url, F!AnswerRedirect(c, u)
    PROVE  FetcherIInv'
<1>1. F!Release(c, TRUE) /\ call[c].pc = "sent" /\ UNCHANGED <<wait, cache, fetches, answered>>
  BY DEF F!AnswerRedirect
<1>2. SharedOK /\ CallsAreGood /\ F!CacheIsAnswered'
  BY <1>1 DEF FetcherIInv, SharedOK, F!CacheIsAnswered
<1>3. call[c] \in F!PageRequest /\ Good(call[c], answered)
  BY <1>1, <1>2, Kinds DEF SharedOK, CallsAreGood, Asks
<1> DEFINE redirects == IF call[c].kind = "page" THEN call[c].hops ELSE call[c].redirects
           ask == F!Ask(c, "robots", u, redirects + 1, 0)
           consult == [pc |-> "consult", target |-> u, hops |-> redirects + 1, secure |-> call[c].secure]
           ends == redirects = MaximumRedirects \/ ~F!MayFollow(call[c].url, u)
           a == IF ends THEN F!Idle ELSE IF call[c].kind = "robots" THEN ask ELSE consult
<1>4. call' = [call EXCEPT ![c] = a]
  BY DEF F!AnswerRedirect
<1>5. /\ call[c].target \in Url /\ call[c].hops \in 0..MaximumRedirects /\ call[c].secure \in BOOLEAN
      /\ redirects \in 0..MaximumRedirects
      /\ F!Approved(call[c].target) /\ (call[c].secure => call[c].target.secure)
      /\ call[c].secure => call[c].url.secure
      /\ MaximumRedirects \in Nat
  BY <1>1, <1>3, FetchingAssumption DEF Good, F!PageRequest, Asks, F!FetcherAssumption
<1>6. Good(a, answered) /\ a.pc \notin Queued
  <2>1. CASE ends
    BY <2>1, GoodIdle, Kinds DEF Queued
  <2>2. CASE ~ends
    <3>1. redirects + 1 \in 0..MaximumRedirects /\ F!Approved(u) /\ (call[c].secure => u.secure)
      BY <1>5, <2>2 DEF F!MayFollow
    <3>2. ask \in F!PageRequest
      <4>1. 0 \in Nat
        OBVIOUS
      <4> QED BY <1>5, <3>1, <4>1 DEF F!Ask, F!PageRequest
    <3>3. /\ ask.pc = "resolve" /\ ask.target = call[c].target /\ ask.secure = call[c].secure
          /\ ask.kind = "robots" /\ ask.url = u
      BY DEF F!Ask
    <3>4. /\ consult \in F!Consult
          /\ consult.pc = "consult" /\ consult.target = u /\ consult.secure = call[c].secure
      BY <1>5, <3>1 DEF F!Consult
    <3>5. a = IF call[c].kind = "robots" THEN ask ELSE consult
      BY <2>2
    <3> HIDE DEF a, ask, consult
    <3>6. Good(ask, answered) /\ ask.pc \notin Queued
      BY <1>5, <3>1, <3>2, <3>3 DEF Good, CallRecord, Queued
    <3>7. Good(consult, answered) /\ consult.pc \notin Queued
      BY <3>1, <3>4 DEF Good, CallRecord, Queued, Asks
    <3> QED BY <3>5, <3>6, <3>7
  <2> QED BY <2>1, <2>2
<1> HIDE DEF a
<1> QED BY <1>1, <1>2, <1>4, <1>6, AnswerKeeps DEF SharedOK

LEMMA AnswerRobotsKeeps ==
    ASSUME FetcherIInv, NEW c \in Caller, NEW content \in Robots, F!AnswerRobots(c, content)
    PROVE  FetcherIInv'
<1>1. /\ F!Release(c, TRUE) /\ call[c].pc = "sent" /\ UNCHANGED <<wait, fetches>>
      /\ call' = [call EXCEPT ![c] = F!AskPage(c, content)]
  BY DEF F!AnswerRobots
<1>2. SharedOK /\ CallsAreGood
  BY DEF FetcherIInv
<1>3. Good(call[c], answered) /\ call[c] \in F!PageRequest
  BY <1>1, <1>2, Kinds DEF SharedOK, CallsAreGood, Asks
<1> DEFINE origin == F!OriginOf(call[c].target)
<1>4. origin \in F!Origin
  BY <1>3 DEF F!PageRequest, F!Origin, F!OriginOf
<1>5. /\ answered' \in [F!Origin -> SUBSET Robots]
      /\ \A o \in F!Origin : answered[o] \subseteq answered'[o]
      /\ content \in answered'[origin]
  BY <1>2, <1>4 DEF F!AnswerRobots, SharedOK
<1>6. /\ cache' \in [F!Origin -> [rules : Robots \cup {<<>>}, expires : 0..RobotsCacheTime]]
      /\ \A o \in F!Origin : cache'[o] = IF o = origin THEN [rules |-> content, expires |-> RobotsCacheTime]
                                       ELSE cache[o]
  <2>1. RobotsCacheTime \in 0..RobotsCacheTime
    BY FetchingAssumption DEF F!FetcherAssumption
  <2> QED BY <1>2, <1>4, <2>1 DEF F!AnswerRobots, SharedOK
<1>7. F!CacheIsAnswered'
  <2> SUFFICES ASSUME NEW o \in F!Origin, cache'[o].expires > 0 PROVE cache'[o].rules \in answered'[o]
    BY DEF F!CacheIsAnswered
  <2>1. CASE o = origin
    <3>1. cache'[o].rules = content
      BY <1>6, <2>1
    <3> QED BY <1>5, <2>1, <3>1
  <2>2. CASE o # origin
    <3>1. cache'[o] = cache[o]
      BY <1>6, <2>2
    <3>2. cache[o].rules \in answered[o]
      BY <1>2, <3>1 DEF SharedOK, F!CacheIsAnswered
    <3> QED BY <1>5, <3>1, <3>2
  <2> QED BY <2>1, <2>2
<1>8. Good(F!AskPage(c, content), answered') /\ F!AskPage(c, content).pc \notin Queued
  BY <1>1, <1>3, <1>5, GoodPage
<1> QED BY <1>1, <1>5, <1>6, <1>7, <1>8, AnswerKeeps

LEMMA TickKeeps ==
    ASSUME FetcherIInv, F!Tick
    PROVE  FetcherIInv'
<1>1. SharedOK /\ CallsAreGood /\ QueuesServe
  BY DEF FetcherIInv
<1>2. UNCHANGED <<call, tails, fetches, answered>>
  BY DEF F!Tick
<1>3. wait' \in [F!Host -> Nat]
  <2>1. wait' = [h \in F!Host |-> F!Max({wait[h] - 1, 0})]
    BY DEF F!Tick
  <2>2. ASSUME NEW h \in F!Host PROVE F!Max({wait[h] - 1, 0}) \in Nat
    <3>1. wait[h] \in Nat
      BY <1>1 DEF SharedOK
    <3>2. CASE wait[h] = 0
      <4>1. \E x \in {wait[h] - 1, 0} : \A y \in {wait[h] - 1, 0} : x >= y
        BY <3>2
      <4>2. F!Max({wait[h] - 1, 0}) \in {wait[h] - 1, 0}
        BY <4>1 DEF F!Max
      <4>3. \A y \in {wait[h] - 1, 0} : F!Max({wait[h] - 1, 0}) >= y
        BY <4>1 DEF F!Max
      <4> QED BY <3>2, <4>2, <4>3
    <3>3. CASE wait[h] # 0
      <4>1. wait[h] - 1 \in Nat
        BY <3>1, <3>3
      <4> QED BY <4>1, LongerIsNatural
    <3> QED BY <3>2, <3>3
  <2> QED BY <2>1, <2>2
<1>4. /\ cache' \in [F!Origin -> [rules : Robots \cup {<<>>}, expires : 0..RobotsCacheTime]]
      /\ \A o \in F!Origin : cache'[o].expires > 0 => cache[o].expires > 0 /\ cache'[o].rules = cache[o].rules
  <2>1. cache' = [o \in F!Origin |-> IF cache[o].expires > 1 THEN [cache[o] EXCEPT !.expires = @ - 1]
                                     ELSE F!NoRules]
    BY DEF F!Tick
  <2>2. RobotsCacheTime \in Nat
    BY FetchingAssumption DEF F!FetcherAssumption
  <2>3. ASSUME NEW o \in F!Origin
        PROVE  /\ cache'[o] \in [rules : Robots \cup {<<>>}, expires : 0..RobotsCacheTime]
               /\ cache'[o].expires > 0 => cache[o].expires > 0 /\ cache'[o].rules = cache[o].rules
    <3>1. cache[o] \in [rules : Robots \cup {<<>>}, expires : 0..RobotsCacheTime]
      BY <1>1 DEF SharedOK
    <3>2. CASE cache[o].expires > 1
      <4>1. cache'[o] = [cache[o] EXCEPT !.expires = cache[o].expires - 1]
        BY <2>1, <3>2
      <4>2. cache[o].expires - 1 \in 0..RobotsCacheTime
        BY <2>2, <3>1, <3>2
      <4> QED BY <3>1, <3>2, <4>1, <4>2
    <3>3. CASE ~(cache[o].expires > 1)
      <4>1. cache'[o] = F!NoRules
        BY <2>1, <3>3
      <4>2. F!NoRules.expires = 0 /\ F!NoRules.rules = <<>> /\ 0 \in 0..RobotsCacheTime
        BY <2>2 DEF F!NoRules
      <4>3. F!NoRules \in [rules : Robots \cup {<<>>}, expires : 0..RobotsCacheTime]
        BY <4>2 DEF F!NoRules
      <4> QED BY <4>1, <4>2, <4>3
    <3> QED BY <3>2, <3>3
  <2> QED BY <2>1, <2>3
<1>5. F!CacheIsAnswered'
  <2> SUFFICES ASSUME NEW o \in F!Origin, cache'[o].expires > 0 PROVE cache'[o].rules \in answered'[o]
    BY DEF F!CacheIsAnswered
  <2>1. cache[o].expires > 0 /\ cache'[o].rules = cache[o].rules
    BY <1>4
  <2>2. cache[o].rules \in answered[o]
    BY <1>1, <2>1 DEF SharedOK, F!CacheIsAnswered
  <2> QED BY <1>2, <2>1, <2>2
<1>6. CallsAreGood' /\ QueuesServe'
  BY <1>1, <1>2 DEF CallsAreGood, QueuesServe
<1> QED BY <1>1, <1>2, <1>3, <1>4, <1>5, <1>6 DEF FetcherIInv, SharedOK

LEMMA FetcherInit == F!Init => FetcherIInv
<1> SUFFICES ASSUME F!Init PROVE FetcherIInv
  OBVIOUS
<1>1. \A c \in Caller : call[c] = F!Idle
  BY DEF F!Init
<1>2. CallsAreGood
  BY <1>1, GoodIdle DEF CallsAreGood
<1>3. SharedOK
  <2>1. 0 \in 0..RobotsCacheTime /\ 0 \in 0..MaxFetches
    BY FetchingAssumption DEF F!FetcherAssumption
  <2>2. F!NoRules \in [rules : Robots \cup {<<>>}, expires : 0..RobotsCacheTime] /\ F!NoRules.expires = 0
    BY <2>1 DEF F!NoRules
  <2>3. F!CacheIsAnswered
    BY <2>2 DEF F!Init, F!CacheIsAnswered
  <2>4. <<>> \in Seq(Caller)
    OBVIOUS
  <2> QED BY <2>1, <2>2, <2>3, <2>4 DEF F!Init, SharedOK, CallRecord
<1>4. QueuesServe
  <2> SUFFICES ASSUME NEW h \in F!Host PROVE QueueServes(tails, call, h)
    BY DEF QueuesServe
  <2>1. Members(call, h) = {} /\ Served(call, h) = {}
    BY <1>1, Kinds DEF Members, Served, Queued
  <2>2. tails[h] = <<>> /\ <<>> \in Seq(Caller) /\ Len(<<>>) = 0
    BY DEF F!Init
  <2> QED BY <2>1, <2>2 DEF QueueServes, Serves
<1> QED BY <1>2, <1>3, <1>4 DEF FetcherIInv

LEMMA FetcherStep == FetcherIInv /\ [F!Next]_(F!vars) => FetcherIInv'
<1> SUFFICES ASSUME FetcherIInv, [F!Next]_(F!vars) PROVE FetcherIInv'
  OBVIOUS
<1>1. CASE UNCHANGED F!vars
  BY <1>1 DEF F!vars, FetcherIInv, SharedOK, CallsAreGood, QueuesServe, F!CacheIsAnswered
<1>2. ASSUME NEW c \in Caller, F!Step(c) PROVE FetcherIInv'
  BY <1>2, ConsultRobotsKeeps, ResolveKeeps, SendKeeps, AnswerEndKeeps, AnswerRedirectKeeps,
     AnswerRobotsKeeps DEF F!Step, F!Answer
<1> QED BY <1>1, <1>2, FetchCallKeeps, TickKeeps DEF F!Next

\* Whatever robots.txt files say, wherever hosts redirect to and however calls overlap,
\* the fetcher asks a host for one page at a time, of approved hosts, not in the clear
\* after a secure one, and only if the rules of the page's own origin allow it.
THEOREM FetcherSafety == F!Spec => []F!FetcherInv
BY FetcherInit, FetcherStep, Gather, PTL DEF F!Spec

\* The same of the composed instance, in which the other components may run instead.
THEOREM FetchingSafety == PartSpec => []FetcherInv
<1> DEFINE IInv == stage = "fetch" => FetcherIInv
<1>1. PartInit => IInv
  BY FetcherInit DEF PartInit
<1>2. IInv /\ [PartNext]_all => IInv'
  <2> SUFFICES ASSUME IInv, [PartNext]_all PROVE IInv'
    OBVIOUS
  <2>1. stage' = stage
    BY DEF PartNext, all, Attempting, Fetching, Browsing
  <2>2. ASSUME stage = "fetch" PROVE [F!Next]_(F!vars)
    <3>1. Attempting \/ Browsing => UNCHANGED requesting
      BY DEF Attempting, Browsing
    <3> QED BY <3>1 DEF PartNext, all, requesting, F!vars, F!Next
  <2> QED BY <2>1, <2>2, FetcherStep
<1>3. IInv => FetcherInv
  BY Gather DEF FetcherInv
<1> QED BY <1>1, <1>2, <1>3, PTL DEF PartSpec

-----------------------------------------------------------------------------
(* Every fetch runs out of steps.                                           *)

\* The steps left of a request, of the hop it belongs to, and of the whole call: a hop
\* consults the rules, may ask for a robots.txt again after each redirect of it, and
\* then for the page.
HopSteps == 3 * MaximumRedirects + 7
RequestLeft(pc) == IF pc = "resolve" THEN 3 ELSE IF pc = "turn" THEN 2 ELSE 1
HopLeft(a) ==
    IF a.pc = "consult" THEN HopSteps
    ELSE IF a.kind = "robots" THEN 3 + 3 * (MaximumRedirects - a.redirects) + RequestLeft(a.pc)
    ELSE RequestLeft(a.pc)
HopsLeft(hops) == (MaximumRedirects - hops) * HopSteps
CallLeft(a) == IF a.pc = "idle" THEN 0 ELSE HopsLeft(a.hops) + HopLeft(a)

LEMMA CallLeftIsNatural ==
    ASSUME NEW a \in CallRecord, a.pc # "idle"
    PROVE  /\ HopsLeft(a.hops) \in Nat /\ HopLeft(a) \in Nat \ {0}
           /\ a.hops \in 0..MaximumRedirects
           /\ CallLeft(a) = HopsLeft(a.hops) + HopLeft(a)
           /\ CallLeft(a) \in Nat \ {0}
<1>1. MaximumRedirects \in Nat
  BY FetchingAssumption DEF F!FetcherAssumption
<1>2. a.hops \in 0..MaximumRedirects
  BY Kinds DEF CallRecord, F!Consult, F!PageRequest
<1>3. HopLeft(a) \in Nat \ {0}
  <2>1. CASE a.pc = "consult"
    BY <1>1, <2>1 DEF HopLeft, HopSteps
  <2>2. CASE a.pc # "consult"
    <3>1. a.redirects \in 0..MaximumRedirects
      BY <2>2, Kinds DEF CallRecord, F!Consult, F!PageRequest
    <3> QED BY <1>1, <2>2, <3>1 DEF HopLeft, RequestLeft
  <2> QED BY <2>1, <2>2
<1>4. HopsLeft(a.hops) \in Nat
  <2>1. MaximumRedirects - a.hops \in Nat /\ HopSteps \in Nat
    BY <1>1, <1>2 DEF HopSteps
  <2>2. \A m, n \in Nat : m * n \in Nat
    OBVIOUS
  <2> QED BY <2>1, <2>2 DEF HopsLeft
<1>5. CallLeft(a) = HopsLeft(a.hops) + HopLeft(a)
  BY DEF CallLeft
<1> QED BY <1>2, <1>3, <1>4, <1>5

LEMMA EndsShorten ==
    ASSUME NEW a \in CallRecord, a.pc # "idle"
    PROVE  CallLeft(F!Idle) < CallLeft(a)
<1>1. CallLeft(F!Idle) = 0
  BY Kinds DEF CallLeft
<1> QED BY <1>1, CallLeftIsNatural

LEMMA SameHopShortens ==
    ASSUME NEW a \in CallRecord, a.pc # "idle",
           NEW b, b.pc # "idle", b.hops = a.hops, HopLeft(b) \in Nat, HopLeft(b) < HopLeft(a)
    PROVE  CallLeft(b) < CallLeft(a)
<1>1. /\ HopsLeft(a.hops) \in Nat /\ HopLeft(a) \in Nat
      /\ CallLeft(a) = HopsLeft(a.hops) + HopLeft(a)
  BY CallLeftIsNatural
<1>2. CallLeft(b) = HopsLeft(a.hops) + HopLeft(b)
  BY DEF CallLeft
<1> QED BY <1>1, <1>2

LEMMA NextHopShortens ==
    ASSUME NEW a \in CallRecord, a.pc # "idle", a.hops # MaximumRedirects,
           NEW b, b.pc = "consult", b.hops = a.hops + 1
    PROVE  CallLeft(b) < CallLeft(a)
<1>1. /\ HopsLeft(a.hops) \in Nat /\ HopLeft(a) \in Nat \ {0}
      /\ a.hops \in 0..MaximumRedirects
      /\ CallLeft(a) = HopsLeft(a.hops) + HopLeft(a)
  BY CallLeftIsNatural
<1>2. MaximumRedirects \in Nat /\ HopSteps \in Nat
  BY FetchingAssumption DEF F!FetcherAssumption, HopSteps
<1>3. CallLeft(b) = HopsLeft(a.hops + 1) + HopSteps
  BY DEF CallLeft, HopLeft
<1>4. HopsLeft(a.hops + 1) + HopSteps = HopsLeft(a.hops)
  <2>1. \A m, n, k \in Nat : (m - (n + 1)) * k + k = (m - n) * k
    OBVIOUS
  <2> QED BY <1>1, <1>2, <2>1 DEF HopsLeft
<1> QED BY <1>1, <1>3, <1>4

\* A call that asks for its page has that request left of its hop.
LEMMA PageShortens ==
    ASSUME NEW c \in Caller, call[c] \in CallRecord, call[c].pc # "idle",
           HopLeft(call[c]) > 3, NEW rules
    PROVE  CallLeft(F!AskPage(c, rules)) < CallLeft(call[c])
<1> DEFINE b == F!Ask(c, "page", call[c].target, 0, F!CrawlDelay(rules))
<1>1. b.pc = "resolve" /\ b.hops = call[c].hops /\ b.kind = "page"
  BY DEF F!Ask
<1>2. F!AskPage(c, rules) = b \/ F!AskPage(c, rules) = F!Idle
  BY DEF F!AskPage
<1> HIDE DEF b
<1>3. HopLeft(b) = 3
  BY <1>1 DEF HopLeft, RequestLeft
<1>4. CallLeft(b) < CallLeft(call[c])
  BY <1>1, <1>3, SameHopShortens
<1> QED BY <1>2, <1>4, EndsShorten

\* A call that goes on with its request.
LEMMA AdvanceShortens ==
    ASSUME NEW a \in F!PageRequest, NEW pc \in Asks, RequestLeft(pc) < RequestLeft(a.pc)
    PROVE  CallLeft([a EXCEPT !.pc = pc]) < CallLeft(a)
<1> DEFINE b == [a EXCEPT !.pc = pc]
<1>1. /\ b \in F!PageRequest /\ b.pc = pc /\ b.hops = a.hops /\ b.kind = a.kind
      /\ b.redirects = a.redirects
  BY DEF F!PageRequest, Asks
<1>2. /\ a \in CallRecord /\ b \in CallRecord /\ a.pc \notin {"idle", "consult"} /\ pc \notin {"idle", "consult"}
      /\ a.redirects \in 0..MaximumRedirects /\ MaximumRedirects \in Nat
  BY <1>1, FetchingAssumption DEF CallRecord, F!PageRequest, Asks, F!FetcherAssumption
<1> HIDE DEF b
<1>3. HopLeft(b) < HopLeft(a)
  BY <1>1, <1>2 DEF HopLeft, RequestLeft
<1>4. HopLeft(b) \in Nat
  BY <1>1, <1>2, CallLeftIsNatural
<1>5. CallLeft(b) < CallLeft(a)
  BY <1>1, <1>2, <1>3, <1>4, SameHopShortens
<1> QED BY <1>5 DEF b

LEMMA StepShortensCall ==
    ASSUME SharedOK, NEW c \in Caller, F!Step(c)
    PROVE  /\ CallLeft(call'[c]) < CallLeft(call[c])
           /\ \A d \in Caller : d # c => call'[d] = call[d]
<1>1. /\ call[c] \in CallRecord /\ call \in [Caller -> CallRecord] /\ MaximumRedirects \in Nat
  BY FetchingAssumption DEF SharedOK, F!FetcherAssumption
<1>2. CASE F!ConsultRobots(c)
  <2> DEFINE origin == F!OriginOf(call[c].target)
             b == F!Ask(c, "robots", F!RobotsUrl(origin), 0, 0)
             fresh == cache[origin].expires > 0
             rules == cache[origin].rules
  <2>1. call' = [call EXCEPT ![c] = IF fresh THEN F!AskPage(c, rules) ELSE b] /\ call[c].pc = "consult"
    BY <1>2 DEF F!ConsultRobots
  <2>2. b.pc = "resolve" /\ b.hops = call[c].hops /\ b.kind = "robots" /\ b.redirects = 0
    BY DEF F!Ask
  <2> HIDE DEF b, fresh, rules
  <2>3. HopLeft(call[c]) = HopSteps /\ HopSteps > 3
    BY <1>1, <2>1 DEF HopLeft, HopSteps
  <2>4. HopLeft(b) = HopSteps - 1 /\ HopSteps - 1 \in Nat /\ HopSteps - 1 < HopSteps
    BY <1>1, <2>2 DEF HopLeft, HopSteps, RequestLeft
  <2>5. CallLeft(b) < CallLeft(call[c])
    BY <1>1, <2>1, <2>2, <2>3, <2>4, SameHopShortens
  <2>6. CallLeft(F!AskPage(c, rules)) < CallLeft(call[c])
    BY <1>1, <2>1, <2>3, PageShortens
  <2>7. /\ call'[c] = IF fresh THEN F!AskPage(c, rules) ELSE b
        /\ \A d \in Caller : d # c => call'[d] = call[d]
    BY <1>1, <2>1
  <2> QED BY <2>5, <2>6, <2>7
<1>3. CASE F!Resolve(c)
  <2>1. call[c].pc = "resolve" /\ call[c] \in F!PageRequest
    BY <1>1, <1>3, Kinds DEF F!Resolve, Asks
  <2>2. /\ call'[c] \in {[call[c] EXCEPT !.pc = "turn"], F!Idle}
        /\ \A d \in Caller : d # c => call'[d] = call[d]
    BY <1>1, <1>3 DEF F!Resolve
  <2>3. CallLeft([call[c] EXCEPT !.pc = "turn"]) < CallLeft(call[c])
    <3>1. RequestLeft("turn") < RequestLeft(call[c].pc) /\ "turn" \in Asks
      BY <2>1 DEF RequestLeft, Asks
    <3> QED BY <2>1, <3>1, AdvanceShortens
  <2> QED BY <1>1, <2>1, <2>2, <2>3, EndsShorten
<1>4. CASE F!Send(c)
  <2>1. call[c].pc = "turn" /\ call[c] \in F!PageRequest
    BY <1>1, <1>4, Kinds DEF F!Send, F!Turn, Asks
  <2>2. /\ call'[c] = [call[c] EXCEPT !.pc = "sent"]
        /\ \A d \in Caller : d # c => call'[d] = call[d]
    BY <1>1, <1>4 DEF F!Send
  <2>3. RequestLeft("sent") < RequestLeft(call[c].pc) /\ "sent" \in Asks
    BY <2>1 DEF RequestLeft, Asks
  <2> QED BY <2>1, <2>2, <2>3, AdvanceShortens
<1>5. ASSUME NEW succeeds \in BOOLEAN, F!AnswerEnd(c, succeeds)
      PROVE  /\ CallLeft(call'[c]) < CallLeft(call[c])
             /\ \A d \in Caller : d # c => call'[d] = call[d]
  <2>1. /\ call'[c] = F!Idle /\ call[c].pc # "idle"
        /\ \A d \in Caller : d # c => call'[d] = call[d]
    BY <1>1, <1>5 DEF F!AnswerEnd
  <2> QED BY <1>1, <2>1, EndsShorten
<1>6. ASSUME NEW u \in Url, F!AnswerRedirect(c, u)
      PROVE  /\ CallLeft(call'[c]) < CallLeft(call[c])
             /\ \A d \in Caller : d # c => call'[d] = call[d]
  <2> DEFINE redirects == IF call[c].kind = "page" THEN call[c].hops ELSE call[c].redirects
             ask == F!Ask(c, "robots", u, redirects + 1, 0)
             consult == [pc |-> "consult", target |-> u, hops |-> redirects + 1, secure |-> call[c].secure]
             ends == redirects = MaximumRedirects \/ ~F!MayFollow(call[c].url, u)
             a == IF ends THEN F!Idle ELSE IF call[c].kind = "robots" THEN ask ELSE consult
  <2>1. call' = [call EXCEPT ![c] = a] /\ call[c].pc = "sent"
    BY <1>6 DEF F!AnswerRedirect
  <2>2. /\ call'[c] = a
        /\ \A d \in Caller : d # c => call'[d] = call[d]
    BY <1>1, <2>1
  <2>3. /\ call[c] \in F!PageRequest /\ call[c].kind \in {"page", "robots"}
        /\ call[c].redirects \in 0..MaximumRedirects
    BY <1>1, <2>1, Kinds DEF Asks, F!PageRequest
  <2>4. CASE ends
    BY <1>1, <2>1, <2>2, <2>4, EndsShorten
  <2>5. CASE ~ends /\ call[c].kind = "robots"
    <3>1. a = ask /\ redirects = call[c].redirects /\ redirects # MaximumRedirects
      BY <2>5
    <3>2. ask.pc = "resolve" /\ ask.hops = call[c].hops /\ ask.kind = "robots" /\ ask.redirects = redirects + 1
      BY DEF F!Ask
    <3> HIDE DEF a, ask, redirects, consult
    <3>3. HopLeft(ask) = 3 + 3 * (MaximumRedirects - (redirects + 1)) + 3
      BY <3>2 DEF HopLeft, RequestLeft
    <3>4. HopLeft(call[c]) = 3 + 3 * (MaximumRedirects - redirects) + 1
      BY <2>1, <2>5, <3>1 DEF HopLeft, RequestLeft
    <3>5. HopLeft(ask) \in Nat /\ HopLeft(ask) < HopLeft(call[c])
      BY <1>1, <2>3, <3>1, <3>3, <3>4
    <3> QED BY <1>1, <2>1, <2>2, <3>1, <3>2, <3>5, SameHopShortens
  <2>6. CASE ~ends /\ call[c].kind # "robots"
    <3>1. a = consult /\ redirects = call[c].hops /\ redirects # MaximumRedirects
      BY <2>3, <2>6
    <3>2. consult.pc = "consult" /\ consult.hops = redirects + 1
      OBVIOUS
    <3> HIDE DEF a, ask, redirects, consult
    <3> QED BY <1>1, <2>1, <2>2, <3>1, <3>2, NextHopShortens
  <2> QED BY <2>4, <2>5, <2>6
<1>7. ASSUME NEW content \in Robots, F!AnswerRobots(c, content)
      PROVE  /\ CallLeft(call'[c]) < CallLeft(call[c])
             /\ \A d \in Caller : d # c => call'[d] = call[d]
  <2>1. /\ call'[c] = F!AskPage(c, content) /\ call[c].pc = "sent" /\ call[c].kind = "robots"
        /\ \A d \in Caller : d # c => call'[d] = call[d]
    BY <1>1, <1>7 DEF F!AnswerRobots
  <2>2. call[c].redirects \in 0..MaximumRedirects
    BY <1>1, <2>1, Kinds DEF Asks, F!PageRequest
  <2>3. HopLeft(call[c]) > 3
    BY <1>1, <2>1, <2>2 DEF HopLeft, RequestLeft
  <2> QED BY <1>1, <2>1, <2>3, PageShortens
<1> QED BY <1>2, <1>3, <1>4, <1>5, <1>6, <1>7 DEF F!Step, F!Answer

\* A call cannot go round for ever, whatever robots.txt files say and wherever hosts
\* redirect to: its own steps always bring it nearer its end, and nobody else's change
\* it.  With SomeFetchAdvances this is what FetchesEnd rests on beside fairness.
THEOREM FetchesRunOut ==
    F!Spec => [][\A c \in Caller :
                    /\ call'[c] = call[c] \/ call[c] = F!Idle \/ CallLeft(call'[c]) < CallLeft(call[c])
                    /\ F!Step(c) => CallLeft(call'[c]) < CallLeft(call[c])]_(F!vars)
<1> DEFINE Nearer ==
        \A c \in Caller :
            /\ call'[c] = call[c] \/ call[c] = F!Idle \/ CallLeft(call'[c]) < CallLeft(call[c])
            /\ F!Step(c) => CallLeft(call'[c]) < CallLeft(call[c])
<1>1. FetcherIInv /\ [F!Next]_(F!vars) => [Nearer]_(F!vars)
  <2> SUFFICES ASSUME FetcherIInv, F!Next, NEW c \in Caller
               PROVE  /\ call'[c] = call[c] \/ call[c] = F!Idle \/ CallLeft(call'[c]) < CallLeft(call[c])
                      /\ F!Step(c) => CallLeft(call'[c]) < CallLeft(call[c])
    OBVIOUS
  <2>1. SharedOK
    BY DEF FetcherIInv
  <2>2. F!Step(c) => CallLeft(call'[c]) < CallLeft(call[c])
    BY <2>1, StepShortensCall
  <2>3. ASSUME NEW d \in Caller, F!Step(d)
        PROVE  call'[c] = call[c] \/ CallLeft(call'[c]) < CallLeft(call[c])
    BY <2>1, <2>3, StepShortensCall
  <2>4. ASSUME NEW d \in Caller, NEW u \in Url, F!Fetch(d, u)
        PROVE  call'[c] = call[c] \/ call[c] = F!Idle
    BY <2>1, <2>4 DEF F!Fetch, SharedOK
  <2>5. F!Tick => call' = call
    BY DEF F!Tick
  <2> QED BY <2>2, <2>3, <2>4, <2>5 DEF F!Next
<1> HIDE DEF Nearer
<1>2. F!Spec => [][Nearer]_(F!vars)
  BY <1>1, FetcherInit, FetcherStep, PTL DEF F!Spec
<1> QED BY <1>2 DEF Nearer

\* Fetches do not wait in a circle: while any is under way, one has a step that waits
\* for nobody, or has its host's turn and waits for the time alone.
FetchesAdvance ==
    (\E c \in Caller : call[c] # F!Idle)
        => \E c \in Caller : call[c].pc \in {"consult", "resolve", "sent"} \/ F!Turn(c)

\* However many calls ask the same hosts, their queues never come to a standstill.
THEOREM SomeFetchAdvances == F!Spec => []FetchesAdvance
<1>1. FetcherIInv => FetchesAdvance
  <2> SUFFICES ASSUME FetcherIInv, NEW c \in Caller, call[c] # F!Idle
               PROVE  \E d \in Caller : call[d].pc \in {"consult", "resolve", "sent"} \/ F!Turn(d)
    BY DEF FetchesAdvance
  <2>1. SharedOK /\ QueuesServe /\ call[c] \in CallRecord
    BY DEF FetcherIInv, SharedOK
  <2>2. CASE call[c].pc # "turn"
    BY <2>1, <2>2, Kinds DEF Asks, CallRecord
  <2>3. CASE call[c].pc = "turn"
    <3> DEFINE h == call[c].url.host
    <3>1. h \in F!Host
      BY <2>1, <2>3, Kinds, HostOfRequest DEF Asks
    <3>2. /\ tails[h] \in Seq(Caller)
          /\ \A d \in Caller : (\E i \in 1..Len(tails[h]) : tails[h][i] = d)
                                  <=> call[d].pc \in Queued /\ call[d].url.host = h
      BY <2>1, <3>1 DEF QueuesServe, QueueServes, Serves, Members
    <3>3. Len(tails[h]) \in Nat /\ Len(tails[h]) >= 1
      BY <2>3, <3>2 DEF Queued
    <3>4. PICK d \in Caller : tails[h][1] = d
      BY <3>2, <3>3
    <3>5. call[d].pc \in Queued /\ call[d].url.host = h
      BY <3>2, <3>3, <3>4
    <3>6. Head(tails[h]) = d
      BY <3>2, <3>3, <3>4
    <3> QED BY <3>5, <3>6 DEF Queued, F!Turn
  <2> QED BY <2>2, <2>3
<1> QED BY <1>1, FetcherInit, FetcherStep, PTL DEF F!Spec

-----------------------------------------------------------------------------
(* BrowserFetch.                                                            *)

RouteRecord == [kind : B!Kind, pc : {"none", "target", "robots", "continued", "aborted"}]

LEMMA SameCardinality == \A S : B!Cardinality(S) = Cardinality(S)
BY Zenon DEF B!Cardinality, Cardinality

LEMMA SameFiniteness == \A S : B!IsFiniteSet(S) <=> IsFiniteSet(S)
BY Zenon DEF B!IsFiniteSet, IsFiniteSet

LEMMA AtMostOneMore ==
    ASSUME NEW S, IsFiniteSet(S), NEW r, NEW T, T \subseteq S \cup {r}
    PROVE  /\ IsFiniteSet(T) /\ Cardinality(T) \in Nat /\ Cardinality(S) \in Nat
           /\ Cardinality(T) <= Cardinality(S) + 1
           /\ T \subseteq S => Cardinality(T) <= Cardinality(S)
<1>1. IsFiniteSet(S \cup {r}) /\ Cardinality(S \cup {r}) <= Cardinality(S) + 1
  <2>1. /\ IsFiniteSet(S \cup {r})
        /\ Cardinality(S \cup {r}) = IF r \in S THEN Cardinality(S) ELSE Cardinality(S) + 1
    BY FS_AddElement
  <2> QED BY <2>1, FS_CardinalityType
<1>2. IsFiniteSet(T) /\ Cardinality(T) <= Cardinality(S \cup {r})
  BY <1>1, FS_Subset
<1>3. T \subseteq S => Cardinality(T) <= Cardinality(S)
  BY FS_Subset
<1>4. Cardinality(T) \in Nat /\ Cardinality(S) \in Nat /\ Cardinality(S \cup {r}) \in Nat
  BY <1>1, <1>2, FS_CardinalityType
<1> QED BY <1>1, <1>2, <1>3, <1>4

\* Counts that follow what is let through, one at a time, stay within the limits.
LEMMA CountsKeep ==
    ASSUME B!BrowserInv, B!TypeOK', NEW r,
           B!LetThrough' \subseteq B!LetThrough \cup {r},
           B!Redirected' \subseteq B!Redirected \cup {r},
           counted'.requests >= counted.requests,
           counted'.redirects >= counted.redirects,
           ~(B!LetThrough' \subseteq B!LetThrough)
              => counted.requests < MaximumRequests /\ counted'.requests = counted.requests + 1,
           ~(B!Redirected' \subseteq B!Redirected)
              => counted.redirects < MaximumRedirects /\ counted'.redirects = counted.redirects + 1
    PROVE  B!CountsAreTrue' /\ B!LimitsHold'
<1>1. /\ IsFiniteSet(Request) /\ MaximumRequests \in Nat /\ MaximumRedirects \in Nat
      /\ counted.requests \in Nat /\ counted.redirects \in Nat
      /\ counted'.requests \in Nat /\ counted'.redirects \in Nat
  BY FetchingAssumption, SameFiniteness DEF B!BrowserAssumption, B!BrowserInv, B!TypeOK
<1>2. IsFiniteSet(B!LetThrough) /\ IsFiniteSet(B!Redirected)
  <2>1. B!LetThrough \subseteq Request /\ B!Redirected \subseteq Request
    BY DEF B!LetThrough, B!Redirected
  <2> QED BY <1>1, <2>1, FS_Subset
<1>3. /\ Cardinality(B!LetThrough) <= counted.requests
      /\ Cardinality(B!LetThrough) <= MaximumRequests
      /\ Cardinality(B!Redirected) <= counted.redirects
      /\ Cardinality(B!Redirected) <= MaximumRedirects
  BY SameCardinality DEF B!BrowserInv, B!CountsAreTrue
<1>4. /\ IsFiniteSet(B!LetThrough') /\ Cardinality(B!LetThrough') \in Nat
      /\ Cardinality(B!LetThrough) \in Nat
      /\ Cardinality(B!LetThrough') <= Cardinality(B!LetThrough) + 1
      /\ B!LetThrough' \subseteq B!LetThrough => Cardinality(B!LetThrough') <= Cardinality(B!LetThrough)
  BY <1>2, AtMostOneMore
<1>5. /\ IsFiniteSet(B!Redirected') /\ Cardinality(B!Redirected') \in Nat
      /\ Cardinality(B!Redirected) \in Nat
      /\ Cardinality(B!Redirected') <= Cardinality(B!Redirected) + 1
      /\ B!Redirected' \subseteq B!Redirected => Cardinality(B!Redirected') <= Cardinality(B!Redirected)
  BY <1>2, AtMostOneMore
<1>6. /\ Cardinality(B!LetThrough') <= counted'.requests
      /\ Cardinality(B!LetThrough') <= MaximumRequests
  BY <1>1, <1>3, <1>4
<1>7. /\ Cardinality(B!Redirected') <= counted'.redirects
      /\ Cardinality(B!Redirected') <= MaximumRedirects
  BY <1>1, <1>3, <1>5
<1>8. B!CountsAreTrue'
  BY <1>6, <1>7, SameCardinality DEF B!CountsAreTrue
<1>9. B!Continued(B!Kind)' \subseteq B!LetThrough' /\ B!Continued({"redirect"})' \subseteq B!Redirected'
  BY DEF B!Continued, B!LetThrough, B!Redirected
<1>10. /\ Cardinality(B!Continued(B!Kind)') <= Cardinality(B!LetThrough')
       /\ Cardinality(B!Continued({"redirect"})') <= Cardinality(B!Redirected')
  BY <1>4, <1>5, <1>9, FS_Subset
<1>11. /\ Cardinality(B!Continued(B!Kind)') \in Nat
       /\ Cardinality(B!Continued({"redirect"})') \in Nat
  BY <1>4, <1>5, <1>9, FS_Subset, FS_CardinalityType
<1>12. B!LimitsHold'
  BY <1>1, <1>4, <1>5, <1>6, <1>7, <1>10, <1>11, SameCardinality DEF B!LimitsHold
<1> QED BY <1>8, <1>12

LEMMA CountsStay ==
    ASSUME B!BrowserInv, B!TypeOK', UNCHANGED route,
           counted'.requests = counted.requests, counted'.redirects = counted.redirects
    PROVE  B!CountsAreTrue' /\ B!LimitsHold'
<1>1. B!LetThrough' = B!LetThrough /\ B!Redirected' = B!Redirected
  BY DEF B!LetThrough, B!Redirected
<1>2. counted.requests \in Nat /\ counted.redirects \in Nat
  BY DEF B!BrowserInv, B!TypeOK
<1> QED BY <1>1, <1>2, CountsKeep

\* The retrieval, the deadline and the finally block.
LEMMA RetrievalKeeps ==
    ASSUME B!BrowserInv,
           B!Retrieve \/ B!Deadline \/ B!End \/ B!Cleanup
    PROVE  B!BrowserInv'
<1> USE DEF B!watched, B!resources, B!Fails, B!CloseIfOpen
<1>1. B!TypeOK /\ B!ResultIsClean /\ B!Nested /\ B!StepsAreOrdered
  BY DEF B!BrowserInv
<1>2. UNCHANGED <<route, intercepted, late>>
  BY DEF B!Retrieve, B!Launch, B!NewContext, B!NewPage, B!Goto, B!Settle, B!ReadContent,
         B!Deadline, B!End, B!Cleanup
<1>3. ASSUME B!Launch
      PROVE  B!TypeOK' /\ B!ResultIsClean' /\ B!Nested' /\ B!StepsAreOrdered' /\ UNCHANGED counted
  BY <1>1, <1>2, <1>3 DEF B!Launch, B!Launched, B!TypeOK, B!ResultIsClean, B!Nested, B!StepsAreOrdered
<1>4. ASSUME B!NewContext
      PROVE  B!TypeOK' /\ B!ResultIsClean' /\ B!Nested' /\ B!StepsAreOrdered' /\ UNCHANGED counted
  BY <1>1, <1>2, <1>4 DEF B!NewContext, B!TypeOK, B!ResultIsClean, B!Nested, B!StepsAreOrdered
<1>5. ASSUME B!NewPage
      PROVE  /\ B!TypeOK' /\ B!ResultIsClean' /\ B!Nested' /\ B!StepsAreOrdered'
             /\ counted'.requests = counted.requests /\ counted'.redirects = counted.redirects
  <2>1. counted' \in [requests : Nat, redirects : Nat, pages : Nat]
    BY <1>1, <1>5 DEF B!NewPage, B!TypeOK
  <2>2. counted'.requests = counted.requests /\ counted'.redirects = counted.redirects
    BY <1>1, <1>5 DEF B!NewPage, B!TypeOK
  <2> QED BY <1>1, <1>2, <1>5, <2>1, <2>2 DEF B!NewPage, B!TypeOK, B!ResultIsClean, B!Nested, B!StepsAreOrdered
<1>6. ASSUME B!Goto
      PROVE  B!TypeOK' /\ B!ResultIsClean' /\ B!Nested' /\ B!StepsAreOrdered' /\ UNCHANGED counted
  BY <1>1, <1>2, <1>6 DEF B!Goto, B!TypeOK, B!ResultIsClean, B!Nested, B!StepsAreOrdered
<1>7. ASSUME B!Settle
      PROVE  B!TypeOK' /\ B!ResultIsClean' /\ B!Nested' /\ B!StepsAreOrdered' /\ UNCHANGED counted
  BY <1>1, <1>2, <1>7 DEF B!Settle, B!Settled, B!TypeOK, B!ResultIsClean, B!Nested, B!StepsAreOrdered
<1>8. ASSUME B!ReadContent
      PROVE  B!TypeOK' /\ B!ResultIsClean' /\ B!Nested' /\ B!StepsAreOrdered' /\ UNCHANGED counted
  BY <1>1, <1>2, <1>8 DEF B!ReadContent, B!TypeOK, B!ResultIsClean, B!Nested, B!StepsAreOrdered
<1>9. ASSUME B!Deadline \/ B!End
      PROVE  B!TypeOK' /\ B!ResultIsClean' /\ B!Nested' /\ B!StepsAreOrdered' /\ UNCHANGED counted
  BY <1>1, <1>2, <1>9 DEF B!Deadline, B!End, B!TypeOK, B!ResultIsClean, B!Nested, B!StepsAreOrdered
<1>10. ASSUME B!Cleanup
       PROVE  B!TypeOK' /\ B!ResultIsClean' /\ B!Nested' /\ B!StepsAreOrdered' /\ UNCHANGED counted
  BY <1>1, <1>2, <1>10 DEF B!Cleanup, B!TypeOK, B!ResultIsClean, B!Nested, B!StepsAreOrdered
<1>11. /\ B!TypeOK' /\ B!ResultIsClean' /\ B!Nested' /\ B!StepsAreOrdered'
       /\ counted'.requests = counted.requests /\ counted'.redirects = counted.redirects
  BY <1>3, <1>4, <1>5, <1>6, <1>7, <1>8, <1>9, <1>10 DEF B!Retrieve
<1> QED BY <1>2, <1>11, CountsStay DEF B!BrowserInv

\* What the page does meanwhile.
LEMMA Meanwhile ==
    ASSUME B!BrowserInv,
           UNCHANGED <<operation, browser, context, timedOut, outcome, cleanup>>,
           B!Intercept \/ B!NoIntercept,
           UNCHANGED page \/ (B!Alive /\ page' = "closed"),
           route' \in [Request -> RouteRecord],
           counted' \in [requests : Nat, redirects : Nat, pages : Nat]
    PROVE  B!TypeOK' /\ B!ResultIsClean' /\ B!Nested' /\ B!StepsAreOrdered'
<1>1. B!TypeOK /\ B!ResultIsClean /\ B!Nested /\ B!StepsAreOrdered
  BY DEF B!BrowserInv
<1>2. /\ intercepted' \in BOOLEAN /\ late' \in BOOLEAN
      /\ (operation \in {"content", "result"} => ~intercepted' \/ late')
  <2>1. intercepted \in BOOLEAN /\ late \in BOOLEAN
    BY <1>1 DEF B!TypeOK
  <2>2. operation \in {"content", "result"} => ~intercepted \/ late
    BY <1>1 DEF B!StepsAreOrdered
  <2>3. CASE B!NoIntercept
    BY <2>1, <2>2, <2>3 DEF B!NoIntercept
  <2>4. CASE B!Intercept
    <3>1. (late \/ (~intercepted /\ operation \in {"content", "result"})) \in BOOLEAN
      OBVIOUS
    <3> QED BY <2>1, <2>2, <2>4, <3>1, Zenon DEF B!Intercept
  <2> QED BY <2>3, <2>4
<1>3. B!StepsAreOrdered'
  <2>1. outcome' = "result" => operation' = "result"
    BY <1>1 DEF B!StepsAreOrdered
  <2>2. /\ operation' = "launch" => browser' = "none"
        /\ operation' \in {"launch", "context"} => context' = "none"
        /\ operation' \in {"launch", "context", "page"} => page' = "none"
    BY <1>1 DEF B!StepsAreOrdered, B!Alive
  <2>3. operation' \in {"content", "result"} => ~intercepted' \/ late'
    BY <1>2
  <2> QED BY <2>1, <2>2, <2>3, Zenon DEF B!StepsAreOrdered
<1>4. B!Nested' /\ B!ResultIsClean'
  BY <1>1, <1>3 DEF B!Nested, B!ResultIsClean, B!StepsAreOrdered
<1>5. B!TypeOK'
  BY <1>1, <1>2 DEF B!TypeOK, RouteRecord
<1> QED BY <1>3, <1>4, <1>5

LEMMA PageKeeps ==
    ASSUME B!BrowserInv, B!OpenPage \/ B!ExceedBytes
    PROVE  B!BrowserInv'
<1>1. /\ route \in [Request -> RouteRecord]
      /\ counted \in [requests : Nat, redirects : Nat, pages : Nat]
  BY DEF B!BrowserInv, B!TypeOK, RouteRecord
<1>2. /\ counted' \in [requests : Nat, redirects : Nat, pages : Nat]
      /\ counted'.requests = counted.requests /\ counted'.redirects = counted.redirects
  BY <1>1 DEF B!OpenPage, B!ExceedBytes
<1>3. /\ UNCHANGED <<operation, browser, context, timedOut, outcome, cleanup, route>>
      /\ B!Intercept \/ B!NoIntercept
      /\ UNCHANGED page \/ (B!Alive /\ page' = "closed")
  BY DEF B!OpenPage, B!ExceedBytes, B!asynchronous
<1>4. B!TypeOK' /\ B!ResultIsClean' /\ B!Nested' /\ B!StepsAreOrdered'
  BY <1>1, <1>2, <1>3, Meanwhile
<1> QED BY <1>2, <1>3, <1>4, CountsStay DEF B!BrowserInv

\* What a route is moved to says whether one more request or redirect is let through.
LEMMA RouteMoves ==
    ASSUME B!BrowserInv, NEW r \in Request, NEW pc \in {"target", "robots", "continued", "aborted"},
           B!MoveRoute(r, pc)
    PROVE  /\ route' \in [Request -> RouteRecord]
           /\ B!LetThrough' \subseteq B!LetThrough \cup {r}
           /\ B!Redirected' \subseteq B!Redirected \cup {r}
           /\ pc = "aborted" \/ route[r].pc \in {"target", "robots"} => B!LetThrough' \subseteq B!LetThrough
           /\ pc = "aborted" \/ route[r].pc = "robots" \/ route[r].kind # "redirect" \/ pc = "target"
                 => B!Redirected' \subseteq B!Redirected
<1>1. route \in [Request -> RouteRecord]
  BY DEF B!BrowserInv, B!TypeOK, RouteRecord
<1>2. /\ route' \in [Request -> RouteRecord]
      /\ \A q \in Request : /\ route'[q].kind = route[q].kind
                            /\ route'[q].pc = IF q = r THEN pc ELSE route[q].pc
  BY <1>1 DEF B!MoveRoute, RouteRecord
<1>3. /\ B!LetThrough' \subseteq B!LetThrough \cup {r}
      /\ pc = "aborted" \/ route[r].pc \in {"target", "robots"} => B!LetThrough' \subseteq B!LetThrough
  BY <1>2 DEF B!LetThrough
<1>4. /\ B!Redirected' \subseteq B!Redirected \cup {r}
      /\ pc = "aborted" \/ route[r].pc = "robots" \/ route[r].kind # "redirect" \/ pc = "target"
            => B!Redirected' \subseteq B!Redirected
  BY <1>2 DEF B!Redirected
<1> QED BY <1>2, <1>3, <1>4

LEMMA RouteKeeps ==
    ASSUME B!BrowserInv, NEW r \in Request,
           B!BeginRoute(r) \/ B!VetTarget(r) \/ B!VetRobots(r)
    PROVE  B!BrowserInv'
<1>1. counted \in [requests : Nat, redirects : Nat, pages : Nat]
  BY DEF B!BrowserInv, B!TypeOK
<1>2. PICK pc \in {"target", "robots", "continued", "aborted"} : B!MoveRoute(r, pc)
  BY DEF B!BeginRoute, B!VetTarget, B!VetRobots
<1>3. CASE B!BeginRoute(r)
  <2>1. /\ counted' \in [requests : Nat, redirects : Nat, pages : Nat]
        /\ counted'.requests = counted.requests + 1 /\ counted'.redirects = counted.redirects
    BY <1>1, <1>3 DEF B!BeginRoute
  <2>2. PICK next \in {"target", "aborted"} :
           B!MoveRoute(r, next) /\ (next = "target" => counted.requests < MaximumRequests)
    BY <1>1, <1>3, FetchingAssumption DEF B!BeginRoute, B!BrowserAssumption
  <2>3. /\ route' \in [Request -> RouteRecord]
        /\ B!LetThrough' \subseteq B!LetThrough \cup {r}
        /\ next = "aborted" => B!LetThrough' \subseteq B!LetThrough
        /\ B!Redirected' \subseteq B!Redirected
    BY <2>2, RouteMoves
  <2>4. B!TypeOK' /\ B!ResultIsClean' /\ B!Nested' /\ B!StepsAreOrdered'
    BY <1>3, <2>1, <2>3, Meanwhile DEF B!BeginRoute, B!asynchronous
  <2>5. B!CountsAreTrue' /\ B!LimitsHold'
    BY <1>1, <2>1, <2>2, <2>3, <2>4, CountsKeep
  <2> QED BY <2>4, <2>5 DEF B!BrowserInv
<1>4. CASE B!VetTarget(r)
  <2>1. /\ counted' \in [requests : Nat, redirects : Nat, pages : Nat]
        /\ counted'.requests = counted.requests /\ counted'.redirects >= counted.redirects
    BY <1>1, <1>4 DEF B!VetTarget
  <2>2. PICK next \in {"robots", "continued", "aborted"} :
           /\ B!MoveRoute(r, next)
           /\ \/ next = "aborted" \/ route[r].kind # "redirect"
              \/ counted.redirects < MaximumRedirects /\ counted'.redirects = counted.redirects + 1
    BY <1>1, <1>4 DEF B!VetTarget, B!CountsRedirect
  <2>3. /\ route' \in [Request -> RouteRecord]
        /\ B!LetThrough' \subseteq B!LetThrough
        /\ B!Redirected' \subseteq B!Redirected \cup {r}
        /\ next = "aborted" \/ route[r].kind # "redirect" => B!Redirected' \subseteq B!Redirected
    BY <1>4, <2>2, RouteMoves DEF B!VetTarget
  <2>4. B!TypeOK' /\ B!ResultIsClean' /\ B!Nested' /\ B!StepsAreOrdered'
    BY <1>4, <2>1, <2>3, Meanwhile DEF B!VetTarget, B!asynchronous
  <2>5. B!CountsAreTrue' /\ B!LimitsHold'
    BY <1>1, <2>1, <2>2, <2>3, <2>4, CountsKeep
  <2> QED BY <2>4, <2>5 DEF B!BrowserInv
<1>5. CASE B!VetRobots(r)
  <2>1. counted' = counted
    BY <1>5 DEF B!VetRobots
  <2>2. /\ route' \in [Request -> RouteRecord]
        /\ B!LetThrough' \subseteq B!LetThrough
        /\ B!Redirected' \subseteq B!Redirected
    BY <1>2, <1>5, RouteMoves DEF B!VetRobots
  <2>3. B!TypeOK' /\ B!ResultIsClean' /\ B!Nested' /\ B!StepsAreOrdered'
    BY <1>1, <1>5, <2>1, <2>2, Meanwhile DEF B!VetRobots, B!asynchronous
  <2>4. B!CountsAreTrue' /\ B!LimitsHold'
    BY <1>1, <2>1, <2>2, <2>3, CountsKeep
  <2> QED BY <2>3, <2>4 DEF B!BrowserInv
<1> QED BY <1>3, <1>4, <1>5

LEMMA BrowserInit == B!Init => B!BrowserInv
<1> SUFFICES ASSUME B!Init PROVE B!BrowserInv
  OBVIOUS
<1>1. /\ route \in [Request -> [kind : B!Kind, pc : {"none"}]]
      /\ counted = [requests |-> 0, redirects |-> 0, pages |-> 0]
  BY DEF B!Init
<1>2. /\ route \in [Request -> RouteRecord]
      /\ \A r \in Request : route[r].pc = "none"
      /\ counted \in [requests : Nat, redirects : Nat, pages : Nat]
      /\ counted.requests = 0 /\ counted.redirects = 0
  BY <1>1 DEF RouteRecord
<1>3. B!TypeOK
  BY <1>2 DEF B!Init, B!TypeOK, RouteRecord
<1>4. /\ B!LetThrough = {} /\ B!Redirected = {}
      /\ B!Continued(B!Kind) = {} /\ B!Continued({"redirect"}) = {}
  BY <1>2 DEF B!LetThrough, B!Redirected, B!Continued
<1>5. B!Cardinality({}) = 0
  BY SameCardinality, FS_EmptySet
<1>6. B!CountsAreTrue /\ B!LimitsHold
  <2>1. MaximumRequests \in Nat /\ MaximumRedirects \in Nat
    BY FetchingAssumption DEF B!BrowserAssumption
  <2>2. /\ B!Cardinality(B!Continued(B!Kind)) = 0
        /\ B!Cardinality(B!Continued({"redirect"})) = 0
    BY <1>4, <1>5
  <2>3. B!LimitsHold
    BY <2>1, <2>2 DEF B!LimitsHold
  <2>4. B!Cardinality(B!LetThrough) = 0 /\ B!Cardinality(B!Redirected) = 0
    BY <1>4, <1>5
  <2> QED BY <1>2, <2>1, <2>3, <2>4 DEF B!CountsAreTrue
<1>7. B!ResultIsClean /\ B!Nested /\ B!StepsAreOrdered
  BY DEF B!Init, B!ResultIsClean, B!Nested, B!StepsAreOrdered
<1> QED BY <1>3, <1>6, <1>7 DEF B!BrowserInv

LEMMA RenderingStep == B!BrowserInv /\ [B!Next]_(B!vars) => B!BrowserInv'
<1> SUFFICES ASSUME B!BrowserInv, [B!Next]_(B!vars) PROVE B!BrowserInv'
  OBVIOUS
<1>1. CASE UNCHANGED B!vars
  BY <1>1 DEF B!vars, B!BrowserInv, B!TypeOK, B!LimitsHold, B!Continued, B!ResultIsClean, B!Nested,
     B!CountsAreTrue, B!LetThrough, B!Redirected, B!StepsAreOrdered
<1> QED BY <1>1, RetrievalKeeps, PageKeeps, RouteKeeps DEF B!Next, B!Retrieve

\* However many requests a page makes at once, and whenever the deadline strikes, no
\* more requests and redirects are let through than allowed, and no result of a page
\* with an intercepted request is returned, unless it came while its content was read.
THEOREM BrowserSafety == B!Spec => []B!BrowserInv
BY BrowserInit, RenderingStep, PTL DEF B!Spec

\* What the finally block has closed stays closed: it runs when the race is over, that
\* is after the deadline or the retrieval's own end.
CleanupIsLast ==
    /\ cleanup = "none" <=> outcome = "running"
    /\ outcome # "running" => timedOut \/ operation \in {"result", "failed"}
    /\ cleanup = "done" => browser # "open"

LEMMA CleanupStaysLast ==
    ASSUME B!BrowserInv, CleanupIsLast, [B!Next]_(B!vars)
    PROVE  CleanupIsLast'
<1> USE DEF CleanupIsLast, B!watched, B!resources, B!Fails, B!CloseIfOpen
<1>1. B!TypeOK
  BY DEF B!BrowserInv
<1>2. CASE B!Launch
  BY <1>2 DEF B!Launch, B!Launched
<1>3. CASE B!NewContext
  BY <1>3 DEF B!NewContext
<1>4. CASE B!NewPage \/ B!Goto \/ B!Settle \/ B!ReadContent
  BY <1>4 DEF B!NewPage, B!Goto, B!Settle, B!ReadContent
<1>5. CASE B!Deadline \/ B!End
  BY <1>5 DEF B!Deadline, B!End
<1>6. CASE B!Cleanup
  BY <1>1, <1>6 DEF B!Cleanup, B!TypeOK
<1>7. ASSUME B!OpenPage \/ B!ExceedBytes \/ UNCHANGED B!vars
             \/ \E r \in Request : B!BeginRoute(r) \/ B!VetTarget(r) \/ B!VetRobots(r)
      PROVE  UNCHANGED <<operation, browser, timedOut, outcome, cleanup>>
  BY <1>7 DEF B!OpenPage, B!ExceedBytes, B!BeginRoute, B!VetTarget, B!VetRobots, B!asynchronous, B!vars
<1>8. CASE UNCHANGED <<operation, browser, timedOut, outcome, cleanup>>
  BY <1>8
<1> QED BY <1>2, <1>3, <1>4, <1>5, <1>6, <1>7, <1>8 DEF B!Next

\* The steps left of the retrieval, and of the race and the finally block.
OperationLeft(o) ==
    CASE o = "launch" -> 6 [] o = "context" -> 5 [] o = "page" -> 4 [] o = "goto" -> 3
      [] o = "settle" -> 2 [] o = "content" -> 1 [] OTHER -> 0
CleanupLeft(c) ==
    CASE c = "none" -> 4 [] c = "page" -> 3 [] c = "context" -> 2 [] c = "browser" -> 1 [] OTHER -> 0
RenderingLeft == OperationLeft(operation) + CleanupLeft(cleanup)

LEMMA RenderingShortens ==
    ASSUME B!TypeOK, CleanupIsLast, B!Retrieve \/ B!Deadline \/ B!End \/ B!Cleanup
    PROVE  RenderingLeft' < RenderingLeft
<1> USE DEF B!watched, B!resources, B!Fails
<1>1. \A o : OperationLeft(o) \in 0..6
  BY DEF OperationLeft
<1>2. \A c : CleanupLeft(c) \in 0..4
  BY DEF CleanupLeft
<1>3. ASSUME B!Retrieve
      PROVE  cleanup' = cleanup /\ OperationLeft(operation') < OperationLeft(operation)
  <2>1. cleanup' = cleanup
    BY <1>3 DEF B!Retrieve, B!Launch, B!NewContext, B!NewPage, B!Goto, B!Settle, B!ReadContent
  <2>2. \/ operation = "launch" /\ operation' \in {"context", "failed"}
        \/ operation = "context" /\ operation' \in {"page", "failed"}
        \/ operation = "page" /\ operation' \in {"goto", "failed"}
        \/ operation = "goto" /\ operation' \in {"settle", "failed"}
        \/ operation = "settle" /\ operation' \in {"content", "failed"}
        \/ operation = "content" /\ operation' \in {"result", "failed"}
    BY <1>3 DEF B!Retrieve, B!Launch, B!Launched, B!NewContext, B!NewPage, B!Goto, B!Settle, B!ReadContent
  <2> QED BY <2>1, <2>2 DEF OperationLeft
<1>4. ASSUME B!Deadline \/ B!End \/ B!Cleanup
      PROVE  operation' = operation /\ CleanupLeft(cleanup') < CleanupLeft(cleanup)
  <2>1. operation' = operation
    BY <1>4 DEF B!Deadline, B!End, B!Cleanup
  <2>2. \/ cleanup = "none" /\ cleanup' = "page"
        \/ cleanup = "page" /\ cleanup' = "context"
        \/ cleanup = "context" /\ cleanup' = "browser"
        \/ cleanup = "browser" /\ cleanup' = "done"
    BY <1>4 DEF B!Deadline, B!End, B!Cleanup, CleanupIsLast
  <2> QED BY <2>1, <2>2 DEF CleanupLeft
<1>5. CASE B!Retrieve
  <2>1. RenderingLeft' = OperationLeft(operation') + CleanupLeft(cleanup)
    BY <1>3, <1>5 DEF RenderingLeft
  <2> QED BY <1>1, <1>2, <1>3, <1>5, <2>1 DEF RenderingLeft
<1>6. CASE B!Deadline \/ B!End \/ B!Cleanup
  <2>1. RenderingLeft' = OperationLeft(operation) + CleanupLeft(cleanup')
    BY <1>4, <1>6 DEF RenderingLeft
  <2> QED BY <1>1, <1>2, <1>4, <1>6, <2>1 DEF RenderingLeft
<1> QED BY <1>5, <1>6

\* A retrieval that ran out of steps leaves no browser running, whether the deadline
\* struck while one was launched, its page opened or its content read; and one that did
\* not has a step that waits for nobody else's.
RendersToItsEnd ==
    /\ RenderingLeft = 0 => browser # "open"
    /\ RenderingLeft # 0 =>
          \/ operation \notin {"result", "failed"}
          \/ outcome = "running" /\ operation \in {"result", "failed"}
          \/ cleanup \in {"page", "context", "browser"}

\* Whenever the deadline strikes and whatever the page does, a rendering that is over has
\* no browser running, and one that is not can go on.
THEOREM RenderingEndsClosed == B!Spec => []RendersToItsEnd
<1>1. B!Init => CleanupIsLast
  BY DEF B!Init, CleanupIsLast
<1>2. B!BrowserInv /\ CleanupIsLast => RendersToItsEnd
  <2> SUFFICES ASSUME B!TypeOK, CleanupIsLast PROVE RendersToItsEnd
    BY DEF B!BrowserInv
  <2>1. OperationLeft(operation) \in 0..6 /\ CleanupLeft(cleanup) \in 0..4
    BY DEF OperationLeft, CleanupLeft
  <2>2. operation \in {"result", "failed"} <=> OperationLeft(operation) = 0
    BY DEF OperationLeft, B!TypeOK
  <2>3. cleanup = "done" <=> CleanupLeft(cleanup) = 0
    BY DEF CleanupLeft, B!TypeOK
  <2>4. RenderingLeft = 0 <=> operation \in {"result", "failed"} /\ cleanup = "done"
    BY <2>1, <2>2, <2>3 DEF RenderingLeft
  <2> QED BY <2>4 DEF RendersToItsEnd, CleanupIsLast, B!TypeOK
<1> QED BY <1>1, <1>2, BrowserInit, RenderingStep, CleanupStaysLast, PTL DEF B!Spec

\* A retrieval cannot go on for ever, and what its page does meanwhile does not set it
\* back.  This and RenderingEndsClosed are what BrowserIsClosed rests on beside fairness.
THEOREM RenderingRunsOut ==
    B!Spec => [][/\ RenderingLeft' = RenderingLeft \/ RenderingLeft' < RenderingLeft
                 /\ B!Retrieve \/ B!End \/ B!Cleanup => RenderingLeft' < RenderingLeft]_(B!vars)
<1> DEFINE Nearer ==
        /\ RenderingLeft' = RenderingLeft \/ RenderingLeft' < RenderingLeft
        /\ B!Retrieve \/ B!End \/ B!Cleanup => RenderingLeft' < RenderingLeft
<1>1. B!Init => CleanupIsLast
  BY DEF B!Init, CleanupIsLast
<1>2. B!BrowserInv /\ CleanupIsLast /\ [B!Next]_(B!vars) => [Nearer]_(B!vars)
  <2> SUFFICES ASSUME B!TypeOK, CleanupIsLast, B!Next PROVE Nearer
    BY DEF B!BrowserInv
  <2>1. ASSUME B!OpenPage \/ B!ExceedBytes
               \/ \E r \in Request : B!BeginRoute(r) \/ B!VetTarget(r) \/ B!VetRobots(r)
        PROVE  UNCHANGED <<operation, cleanup>>
    BY <2>1 DEF B!OpenPage, B!ExceedBytes, B!BeginRoute, B!VetTarget, B!VetRobots, B!asynchronous
  <2>2. UNCHANGED <<operation, cleanup>> => RenderingLeft' = RenderingLeft
    BY DEF RenderingLeft
  <2> QED BY <2>1, <2>2, RenderingShortens DEF B!Next, B!Retrieve
<1> HIDE DEF Nearer
<1>3. B!Spec => [][Nearer]_(B!vars)
  BY <1>1, <1>2, BrowserInit, RenderingStep, CleanupStaysLast, PTL DEF B!Spec
<1> QED BY <1>3 DEF Nearer

\* The same of the composed instance, in which the other components may run instead.
THEOREM RenderingSafety == PartSpec => []BrowserInv
<1>1. PartInit => BrowserInv /\ (stage = "browse" => B!BrowserInv)
  BY BrowserInit DEF PartInit, BrowserInv
<1>2. BrowserInv /\ [PartNext]_all => BrowserInv'
  <2> SUFFICES ASSUME BrowserInv, [PartNext]_all PROVE BrowserInv'
    OBVIOUS
  <2>1. stage' = stage
    BY DEF PartNext, all, Attempting, Fetching, Browsing
  <2>2. ASSUME stage = "browse" PROVE [B!Next]_(B!vars)
    <3>1. Attempting \/ Fetching => UNCHANGED rendering
      BY DEF Attempting, Fetching
    <3> QED BY <3>1 DEF PartNext, all, rendering, B!vars, B!Next
  <2> QED BY <2>1, <2>2, RenderingStep DEF BrowserInv
<1> QED BY <1>1, <1>2, PTL DEF PartSpec
=============================================================================
