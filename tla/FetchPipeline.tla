---------------------------- MODULE FetchPipeline ----------------------------
(***************************************************************************)
(* How a change of an official page becomes a parse job: the recheck sweep *)
(* enqueues one fetch per source and day, an attempt fetches the page,     *)
(* records the check, stores the body, records its snapshot and enqueues   *)
(* its parse (apps/worker/src/pipeline/fetch-processor.ts,                 *)
(* source-snapshots.ts, filesystem-snapshot-store.ts; packages/database/   *)
(* src/source-snapshots.ts).  One source; attempts of different days'      *)
(* jobs overlap, and fail or crash between any two steps.                  *)
(***************************************************************************)
EXTENDS Integers, FiniteSets

CONSTANTS
    Content,      \* bodies the page may have
    NoContent,
    Days,         \* bound: days on which the sweep may enqueue the source
    Worker,       \* concurrent executions of the fetch queue
    Attempts,     \* VERIFICATION_ATTEMPTS
    MaxFailures,  \* bound: attempts that fail or crash
    MaxTime       \* bound: the clock stops here

ASSUME PipelineAssumption ==
    /\ NoContent \notin Content
    /\ Attempts \in Nat \ {0}
    /\ Days \in Nat
    /\ MaxFailures \in Nat
    /\ MaxTime \in Nat

VARIABLES
    now,       \* wall clock, in milliseconds
    source,    \* the source's contentHash and lastCheckedAt
    object,    \* the snapshot store on disk
    snapshot,  \* source_snapshots rows
    job,       \* the fetch queue
    worker,    \* the running attempts
    parse,     \* the parse queue
    failures,  \* attempts that failed
    latest,    \* history: the content recorded last
    owed,      \* history: that content replaced another and was not parsed since
    lapses     \* history: the known ways to lose a parse that have occurred

evidence == <<source, object, snapshot>>
history == <<latest, owed, lapses>>
vars == <<now, evidence, job, worker, parse, failures, history>>

Job == 1..Days
Never == -1
Time == 0..MaxTime
Idle == [pc |-> "idle"]
Attempt == [pc : {"fetch", "check", "checkFailed", "checkSkipped", "create", "write", "record", "enqueue"},
            job : Job, hash : Content \cup {NoContent}, body : Content \cup {NoContent}, at : Time]

TypeOK ==
    /\ now \in Time
    /\ source \in [contentHash : Content \cup {NoContent}, lastCheckedAt : Time \cup {Never}]
    /\ object \in [Content -> {"absent", "partial", "complete"}]
    /\ snapshot \subseteq Content
    /\ job \in [Job -> [state : {"none", "waiting", "active", "completed", "failed"},
                        attempts : 0..Attempts]]
    /\ worker \in [Worker -> {Idle} \cup Attempt]
    /\ parse \subseteq Content
    /\ failures \in 0..MaxFailures
    /\ latest \in Content \cup {NoContent}
    /\ owed \in BOOLEAN
    /\ lapses \subseteq {"orphaned", "torn", "truncated", "unmarked", "overtaken"}

\* The source is new, or has been checked, recorded and parsed before.
Init ==
    /\ now = 0
    /\ latest \in Content \cup {NoContent}
    /\ source = [contentHash |-> latest,
                 lastCheckedAt |-> IF latest = NoContent THEN Never ELSE 0]
    /\ object = [c \in Content |-> IF c = latest THEN "complete" ELSE "absent"]
    /\ snapshot = {latest} \ {NoContent}
    /\ job = [j \in Job |-> [state |-> "none", attempts |-> 0]]
    /\ worker = [w \in Worker |-> Idle]
    /\ parse = {}
    /\ failures = 0
    /\ owed = FALSE
    /\ lapses = {}

-----------------------------------------------------------------------------
(* The queue.  A definition that directly precedes another of the same      *)
(* parameters, and that nothing uses, is a broken variant of it:            *)
(* substituting it shows that the properties notice.                        *)

\* Some day's sweep finds the last check too old; the job's id names the day.
Enqueue(j) ==
    /\ job[j].state = "none"
    /\ \A i \in 1..j - 1 : job[i].state # "none"
    /\ job' = [job EXCEPT ![j].state = "waiting"]
    /\ UNCHANGED <<now, evidence, worker, parse, failures, history>>

\* An attempt begins by loading the source.
Start(w, j) ==
    /\ worker[w] = Idle
    /\ job[j].state = "waiting"
    /\ job' = [job EXCEPT ![j].state = "active"]
    /\ worker' = [worker EXCEPT ![w] =
          [pc |-> "fetch", job |-> j, hash |-> source.contentHash, body |-> NoContent, at |-> now]]
    /\ UNCHANGED <<now, evidence, parse, failures, history>>

Complete(w) ==
    /\ job' = [job EXCEPT ![worker[w].job].state = "completed"]
    /\ worker' = [worker EXCEPT ![w] = Idle]

Retried(attempts) == IF attempts < Attempts THEN "waiting" ELSE "failed"

\* An error costs one of the job's attempts; a crash does not, the stalled job is
\* given to another worker.
Abandon(w) ==
    /\ \E cost \in {0, 1} :
          LET j == worker[w].job
              attempts == job[j].attempts + cost
          IN  job' = [job EXCEPT ![j] = [state |-> Retried(attempts), attempts |-> attempts]]
    /\ worker' = [worker EXCEPT ![w] = Idle]

Fail(w) ==
    /\ worker[w].pc \notin {"idle", "checkFailed", "checkSkipped"}
    /\ failures < MaxFailures
    /\ failures' = failures + 1
    /\ Abandon(w)
    /\ lapses' = lapses \cup
          CASE worker[w].pc = "enqueue" -> {"orphaned"}
            [] worker[w].pc = "write" -> {"torn"}
            [] OTHER -> {}
    /\ UNCHANGED <<now, evidence, parse, latest, owed>>

-----------------------------------------------------------------------------
(* One attempt: processFetchJob.                                            *)

Goto(w, pc) == worker' = [worker EXCEPT ![w].pc = pc, ![w].at = now]

\* Robots, rate limits, redirects, the network: an answer, another status, or an
\* error.  The check's instant is read as it ends.
Fetch(w) ==
    /\ worker[w].pc = "fetch"
    /\ \/ \E page \in Content :
             worker' = [worker EXCEPT ![w].pc = "check", ![w].at = now, ![w].body = page]
       \/ /\ failures < MaxFailures
          /\ Goto(w, "checkFailed") \/ Goto(w, "checkSkipped")
    /\ UNCHANGED <<now, evidence, job, parse, failures, history>>

\* recordSourceCheck writes its instant whatever is on record.
RecordCheck(w) ==
    /\ worker[w].pc \in {"check", "checkFailed", "checkSkipped"}
    /\ source' = [source EXCEPT !.lastCheckedAt = worker[w].at]
    /\ CASE worker[w].pc = "check" -> Goto(w, "create") /\ UNCHANGED <<job, failures>>
         [] worker[w].pc = "checkSkipped" -> Complete(w) /\ UNCHANGED failures
         [] worker[w].pc = "checkFailed" ->
               /\ Abandon(w)
               /\ failures' = IF failures < MaxFailures THEN failures + 1 ELSE failures
    /\ UNCHANGED <<now, object, snapshot, parse, history>>

\* putIfAbsent: the file is created exclusively, then written.
CreateObjectUnawaited(w) ==
    /\ worker[w].pc = "create"
    /\ object' = [object EXCEPT ![worker[w].body] = IF @ = "absent" THEN "partial" ELSE @]
    /\ worker' = [worker EXCEPT ![w].pc = "record"]
    /\ UNCHANGED <<now, source, snapshot, job, parse, failures, history>>
CreateObject(w) ==
    /\ worker[w].pc = "create"
    /\ IF object[worker[w].body] = "absent"
       THEN /\ object' = [object EXCEPT ![worker[w].body] = "partial"]
            /\ worker' = [worker EXCEPT ![w].pc = "write"]
       ELSE /\ worker' = [worker EXCEPT ![w].pc = "record"]
            /\ UNCHANGED object
    /\ UNCHANGED <<now, source, snapshot, job, parse, failures, history>>

WriteObject(w) ==
    /\ worker[w].pc = "write"
    /\ object' = [object EXCEPT ![worker[w].body] = "complete"]
    /\ worker' = [worker EXCEPT ![w].pc = "record"]
    /\ UNCHANGED <<now, source, snapshot, job, parse, failures, history>>

\* The check of this attempt is the newest on record.
Newer(at) == source.lastCheckedAt < at

\* Known content of the last check produces no downstream work.
UnchangedIfKnown(a) == a.body \in snapshot
Unchanged(a) == a.hash = a.body /\ a.body \in snapshot

\* recordSourceSnapshot appends the row unless the content has one, and
\* markSourceChecked advances the source.
RecordSnapshot(w) ==
    /\ worker[w].pc = "record"
    /\ LET a == worker[w]
       IN  /\ snapshot' = snapshot \cup {a.body}
           /\ source' = IF Newer(a.at) THEN [contentHash |-> a.body, lastCheckedAt |-> a.at]
                        ELSE source
           /\ latest' = a.body
           /\ owed' = (owed \/ a.body # latest)
           /\ lapses' = lapses \cup (IF Newer(a.at) THEN {} ELSE {"unmarked"})
                               \cup (IF a.hash = source.contentHash THEN {} ELSE {"overtaken"})
           /\ IF Unchanged(a) THEN Complete(w)
              ELSE worker' = [worker EXCEPT ![w].pc = "enqueue"] /\ UNCHANGED job
    /\ UNCHANGED <<now, object, parse, failures>>

EnqueueParse(w) ==
    /\ worker[w].pc = "enqueue"
    /\ parse' = parse \cup {worker[w].body}
    /\ Complete(w)
    /\ UNCHANGED <<now, evidence, failures, history>>

\* processParseJob reads the stored body; a truncated one is read like any other.
\* Jobs for the same snapshot are alike, and a failed one is tried again.
Parse(c) ==
    /\ c \in parse
    /\ parse' = parse \ {c}
    /\ IF object[c] = "complete" THEN owed' = (owed /\ c # latest) /\ UNCHANGED lapses
       ELSE lapses' = lapses \cup {"truncated"} /\ UNCHANGED owed
    /\ UNCHANGED <<now, evidence, job, worker, failures, latest>>

-----------------------------------------------------------------------------
Tick ==
    /\ now < MaxTime
    /\ now' = now + 1
    /\ UNCHANGED <<evidence, job, worker, parse, failures, history>>

AttemptStep(w) ==
    \/ \E j \in Job : Start(w, j)
    \/ Fetch(w) \/ RecordCheck(w) \/ CreateObject(w) \/ WriteObject(w)
    \/ RecordSnapshot(w) \/ EnqueueParse(w)

Next ==
    \/ \E j \in Job : Enqueue(j)
    \/ \E w \in Worker : AttemptStep(w) \/ Fail(w)
    \/ \E c \in Content : Parse(c)
    \/ Tick

Spec == Init /\ [][Next]_vars

\* BullMQ hands out waiting jobs and gives those of dead workers away.
Fairness ==
    /\ \A w \in Worker : WF_vars(AttemptStep(w))
    /\ \A c \in Content : WF_vars(Parse(c))

FairSpec == Spec /\ Fairness

-----------------------------------------------------------------------------
(* Properties.                                                              *)

\* Bytes before metadata: no failure leaves "a database row pointing at missing
\* bytes", and no parse job or source hash without its row.
EvidenceExists ==
    /\ \A c \in snapshot : object[c] # "absent"
    /\ parse \subseteq snapshot
    /\ source.contentHash # NoContent => source.contentHash \in snapshot

\* A row points at a truncated file only if an attempt was interrupted while it
\* wrote, or is still writing.
EvidenceIsWhole ==
    \A c \in snapshot : object[c] = "partial" =>
        "torn" \in lapses \/ \E w \in Worker : worker[w].pc = "write" /\ worker[w].body = c

\* A job has one attempt at a time, and one that may still run has attempts left.
JobsAreHeld ==
    /\ \A j \in Job : job[j].state \in {"none", "waiting", "active"} => job[j].attempts < Attempts
    /\ \A w \in Worker : worker[w].pc # "idle" => job[worker[w].job].state = "active"
    /\ \A v, w \in Worker :
          worker[v].pc # "idle" /\ worker[w].pc # "idle" /\ worker[v].job = worker[w].job => v = w

\* What the attempts have done so far: no row without a file, no parse without a row.
AttemptsAreOrdered ==
    \A w \in Worker :
        /\ worker[w].pc \in {"check", "create", "write", "record", "enqueue"} =>
              worker[w].body \in Content
        /\ worker[w].pc \in {"write", "record", "enqueue"} => object[worker[w].body] # "absent"
        /\ worker[w].pc = "enqueue" => worker[w].body \in snapshot

\* A truncated file has a writer, or had one that was interrupted.
PartialIsWritten ==
    \A c \in Content : object[c] = "partial" =>
        "torn" \in lapses \/ \E w \in Worker : worker[w].pc = "write" /\ worker[w].body = c

PipelineInv ==
    TypeOK /\ EvidenceExists /\ EvidenceIsWhole /\ JobsAreHeld /\ AttemptsAreOrdered /\ PartialIsWritten

\* Content that replaces other content is parsed, through failed attempts,
\* retries and reverted pages: what gets lost is lost in one of four ways, an
\* attempt that dies between the snapshot and its parse job, a body read half
\* written, a check no newer than the one on record, or an overtaken attempt.
ChangeIsParsed == <>[](owed => lapses \ {"torn"} # {})
=============================================================================
