# Athenvia in TLA+

A formal model of the background worker and the database layer of Athenvia
(`apps/worker`, `packages/database`, and the parts of `apps/web` that write the
same rows), model-checked with TLC and proved with TLAPS.  `PROJECT.json` maps
every definition to the source lines it stands for.

## 1. The system

Athenvia tracks university application dates and reminds students by Web Push.
PostgreSQL is the only durable authority; Redis (BullMQ) holds job ids, one
worker process runs every loop and queue processor, the Next.js application
writes preferences, subscriptions, watchlists and reviews.

| Component | State it keeps | Operations | Talks to |
|---|---|---|---|
| Notification delivery (`notification-delivery.ts`, `notifications/push-retries.ts`) | `notification_deliveries.status`, `error_message` (the claim marker), `sent_at`; BullMQ jobs | dispatch, claim, revalidate, promote, send with retries, finalize, recover stale claims | push services, subscriptions, the row's other writers |
| Reminder planning (`notifications/planner.ts`, `reconciliation.ts`, `repository.ts`, `scheduler.ts`) | the same rows' `scheduled_for` | plan the desired reminders of a watchlist, reconcile rows under an advisory lock, sweep all watchlists every 5 minutes | watchlists, application windows, subscriptions |
| Date-change notices (`date-change-notifications.ts`, `date-change-sweep.ts`) | `DATE_CHANGED` rows | plan for each approved revision, supersede older ones, revalidate at delivery | revisions, windows |
| Revision review (`canonical-revisions.ts`, `api/admin/reviews/service.ts`) | `data_revisions` status and conflict flag, the application window | propose, approve or reject, apply | the pipeline, date-change notices |
| Fetch and parse pipeline (`pipeline/`, `source-snapshots.ts`, `dead-letter.ts`) | snapshots, `last_checked_at`, queue jobs | recheck sweep, fetch, store snapshot, parse, propose revisions, dead-letter | HTTP, file system, BullMQ |
| Push subscriptions (`push-subscriptions.ts`) | endpoint rows, `revoked_at` | store, rotate, revoke, revoke invalid | browser, delivery |
| Publication (`publish-submissions.ts`, `submission-reviews.ts`) | catalogue and submissions | submit, review, publish | admin |
| Catalogue import (`seed-import.ts`, `ror-import.ts`, `tmm-import.ts`) | universities, aliases, programmes, intakes | seed, import registry records, import and repair the programme list | publication, watchlists |
| HTTP fetcher (`fetch/`) | the limiter's queues and next allowed instants, the robots.txt cache, a browser per rendered page | fetch with redirects, read robots.txt, wait for a host's turn, render in a browser | official sites |
| Date extraction (`parsing/`, `verification/intake-matching.ts`, `llm-extraction.ts`) | none outside a job | text of HTML and PDF, dates with labels and time zones, the intake a date is for | the parse job, a language model |
| Device and service worker (`components/push-*`, `settings-client.tsx`, `public/sw.js`) | the browser's permission, subscription and caches, what pages show | turn a device on and off, install, activate and offer an update | browser, push subscriptions |
| Watchlists and settings (`watchlists.ts`, `api/settings/`) | watchlists, notification preferences | follow, unfollow, load and save preferences | planner, push subscriptions |
| Rate limiters, search, pages, authentication, observability | see `PROJECT.json` | | |

The hard behaviours: two processes and several job
executions write one row through compare-and-set updates; BullMQ may run a job
twice or lose its lock; a push request without an answer may have been
accepted; loops capture a clock and use it later; the admin and the worker
write the same tables without a common lock; pages of one account, tabs and
deployments of the application act on one server and one browser without knowing
of each other; concurrent fetches share a limiter, and what a page or a document
contains is not in the program's hand.

## 2. Modules

### `NotificationDelivery.tla` (and `DeliveryContract.tla`)

The life of one user's delivery rows.  The row is `status`, `scheduledFor`,
`errorMessage` (a claim marker or a safe message) and `sentAt`; `queue` is
BullMQ's record per delivery id; `run[w]` is the execution in concurrency slot
`w`, whose `pc` names the await it runs next; `maint[m]` is the 30-second loop
of process `m`; `wire` holds requests whose sender stopped waiting.  Every
database call, every network request and every answer is an action, so crashes,
lost locks, recovery rounds, reconciliation and unsubscription fall between any
two of them.  Every write is the `updateMany` of the code with its compare part.
The contents of the revalidation (dates, preferences, evidence) are a free
choice: it may find the reminder stale at any time.

`DeliveryContract` says what this promises, without tokens, queues or clocks:
a delivery is open until an execution commits to the network; only then does an
endpoint receive it, each endpoint once; it may be reopened only if no endpoint
took it; verdicts are final.  `contractPhase` maps the row to the contract (the
commitment is the SENDING marker), and `ContractSpec` is checked and proved.

Properties: `AtMostOnce` (no endpoint is handed a notification twice),
`RetryableMeansUnsent` (a row that can be claimed again never touched the
network), `SentIsTruthful`, `ContractSpec` (of which the finality of
SENT and FAILED, `VerdictIsFinal`, is a part), and under fairness
`ClaimsResolve` and `DueIsProcessed`.  `OneSender` (two executions never post
one delivery concurrently) and `NeverEarly` are parts of the invariant
`DeliveryInv`, which is checked as a whole.

Assumed of the outside: an HTTP error status means the push service did not
accept the request (the code relies on it to retry); all processes share one
wall clock; claim tokens are UUIDs, hence fresh while any is visible; the
recovery scan's limit of 1000 claims is not reached.  "Endpoint" is a
`push_subscriptions` row: a browser that registers a second row is a second
endpoint.

Bounds (`MCNotificationDelivery.cfg`): one delivery, one subscription, two
slots, one loop, four tokens (two executions, the row's marker and the markers
a recovery round listed: a fresh one always exists), `StaleAfter` 1 and the
clock up to `MaxTime` 2 so that claims become stale while their owner still
runs, failures up to `LastCrash` 1, two push attempts.  Interference is between
two executions and one loop over one row; a run with two subscriptions (712 000
states) was also clean.  Rows are independent of each other except for the
dispatcher's batch, which liveness over one delivery does not exercise: batch
starvation is not checked.  `CHECK_DEADLOCK FALSE` because the bounded clock
stops.

Fairness (`FairSpec`): a started execution runs on (`WF JobStep`: the event
loop, with timeouts on every await); a queued job is eventually started (`SF`:
BullMQ's queue is FIFO and slots come free again and again); the stalled-job
check is periodic (`WF ReclaimLostJob`); `setInterval` repeats the loop
(`WF LoopStep`); time passes.  Crashes, the push service, users and the planner
are not fair.

### What is proved about it

The theorems of `NotificationDelivery_proofs` (types, the inductive invariant
and the safety properties, the contract and the action property) hold for every
number of deliveries, endpoints, slots, processes, tokens and attempts and every
bound; they assume only `BoundsAssumption` (the bounds are naturals) and
`SlotAssumption`.

The invariant `DeliveryInv` is proved as three parts about the executions, the
rows, and the link between them.  The argument: an execution that posts
holds its row through a SENDING marker with its own token, or the row is
already FAILED or deleted (`PosterOwnsRow`).  Tokens are unique, so there is one
poster (`OneSender`); recovery never returns a SENDING row to SCHEDULED, so an
open row has no poster and nothing was sent for it (`UncommittedMeansUnsent`);
what the poster knows of each endpoint agrees with what happened to it
(`PosterKnows`), so retries follow refusals only (`AtMostOnce`).  None of these
is inductive alone: a token could collide, or a row be open with a request on
the wire.

Of liveness (`ClaimsResolve`, model-checked) the part that needs no fairness is
proved: an execution cannot go round for ever, whatever the push service answers
(`ExecutionsRunOut`).  Each step is the next stage or, while the execution sends,
one endpoint nearer its outcome and the others as they were, where a retry goes
back two steps and uses up an attempt.

### `ReminderSchedule.tla`

When a follower is reminded.  `window`, `interest` (an active endpoint and not
APPLIED) and `enabled` (the preference) are the source of a plan; `row` holds
one delivery row per watchlist and reminder, which is what the deduplication
key `watchlist:kind:offset` stands for; `job` is the execution that claimed a
row; `sweep[s]` is one process's `runReminderScheduleSweep`, which captures the
clock once and then visits the watchlists one after another.  `Plan` is
`planReminderDeliveries`, `ChangeFor` is `planReminderReconciliation`, and
`Expected`/`Apply` are the compare parts of the `updateMany` calls of
`reconcileWatchlistReminderDeliveries`.  A reconciliation is three steps under
the watchlist's advisory lock: read the source, read the rows, write.  Claims,
revalidations, edits of dates and preferences and unsubscriptions take no such
lock and fall between them.  Claims are exclusive here, which is what
`NotificationDelivery` establishes; that the two levels fit is what
`RemindersKeepContract` says, which maps a reminder's row and job to a delivery of
the same `DeliveryContract`.  `edits`, `plannedFrom` and `posted` are
history.  Reading a source is one step although Prisma issues several selects
for it; a row is written at the commit, which its row lock makes atomic.

Properties: `CountdownIsTrue` (the announced number of days
separates the sending day from the date named), `NewestSourceWins` (rows never
return to an older source), `ScheduleInv` (the inductive invariant, of which
`ReminderSentOnce` is a part), `RemindersKeepContract` (a reminder is committed,
received and closed as `DeliveryContract` says, and planning never reopens it), and
under fairness `SweepCatchesUp` (the sweep alone brings every row to what the planner
wants once edits stop).

Bounds (`MCReminder.cfg`): one follower, since watchlists share only the sweep's
captured clock and its order, and two sweeping processes, which is what a race
needs; days of two ticks, the clock up to 2 and dates at 3 and 5, so that a
reminder becomes due on either side of a day boundary; two edits, so that a
date moves away and back.  Failures end one tick
before the clock does, otherwise the last sweep could always fail.  Weak
fairness of a sweep's and a delivery's steps stands for the timers of
`index.ts`, which repeat for ever and reject overlap, and of `Tick` for time.

Proved, for all constants under `ScheduleAssumption`: `ScheduleInv` is
inductive, hence `ReminderSentOnce` and `CountdownIsTrue`; `NewestSourceWins`; and
the refinement `RemindersKeepContract`, step by step: what a reconciliation, an
unsubscription or an edit writes moves rows among the statuses the contract calls
open, so it is invisible (`MovesOpenRows`), and each of a delivery's steps moves
only its own phase and receipt.  The strengthening relates rows and executions
(`JobHoldsRow`: PROCESSING exactly while a job holds the row, and only finished
rows were posted) and says that the lock makes the source a sweep holds at least
as new as what the rows come from (`LockedAndCurrent`).

Finding (`reminder_due`): the planner does not want instants that are past and
the reconciliation cancels rows that are not wanted.  A sweep that starts after
a reminder became due and before the dispatcher claimed it cancels a reminder
whose delivery would have been accepted.

### `RevisionReview.tla`

How a published date changes.  `window` is the `application_windows` row,
`revision` the `data_revisions` of its two date fields, `parser[p]` a parse job
between loading the dates and inserting its proposal, `review[v]` a reviewer's
transaction, `checkedAt` the last check of each source.  Proposals of a field
hold its advisory lock from `ComparePending` to `CreateRevision`.  A review
takes no lock and runs READ COMMITTED, so each of its reads is a step
(`FindRevision`, `CountCompetitors`, `ReadWindow`); its writes hold row locks
until the commit and are one step (`CommitDecision`), guarded by the database
trigger `enforce_application_window_evidence` (`TriggerAllows`).  A job that
proposes several values one after another with dates it read at its start is
covered by several parse jobs that load at the same time.  All sources are
official and belong to the programme, which the fetch stage and the trigger
demand; the worker never proposes to remove a date (`candidateInstant` returns
an instant), so proposals are dates.

Properties: `CompetitorsFlagged` (two pending values of one date differ and are
both marked; a part of `ReviewInv`), `ReviewsPublish` (as long as no revision was
decided twice, the date approved last is the published one and a published date
stands approved: `ApprovedIsPublished` and `PublishedIsApproved`), and `ReviewInv`,
the inductive invariant.  `ReviewsPublish` is about what a review reads one after
the other: it approves without writing the window when the window it read says the
date already, and refuses when it counted competitors; a review that commits in
between may change the window or decide the competitor.

Bounds (`MCReview.cfg`, run by `MCRevisionReview`): two reviews and two parse
jobs of which three overlap (`SomeIdle`), one date field, two dates, one source
whose checks advance between proposals (`MaxCheck` 2), three revisions: a date
that is published, its competitor, and the first date proposed again.  Dates, jobs
and reviewers are interchangeable (symmetry).

Finding (`review_double`): two overlapping reviews decide the same revision, since
the update does not ask again whether it is pending; a date stays published
whose revision ends rejected.  Seen while modelling and not kept as a run: a
competitor proposed after the review has counted does not stop the approval,
which clears the mark of the conflict on its own row.

Proved: `ReviewInv` and `CompetitorsFlagged` for any number of processes,
`ReviewsPublish` for any number of overlapping reviews (`ReviewsPublishTheLatest`),
and that with a single reviewer at a time `PublishedIsApproved` and
`ApprovedIsPublished` hold as they stand (`SoleReviewerPublishes`), so that two
decisions of one revision are the only cause of the finding.  The strengthening of
`ReviewInv` says that what a parse job has compared under the lock still holds
(`ComparedIsCurrent`).  That of `ReviewsPublish` is about reviews of competing
revisions: who finds its revision unmarked found it without rivals, so of two rivals
one is kept at the count (`RivalsMarked`) and only one gets past it (`OnePast`), and
nobody else writes the date that a review leaves alone (`InForceStays`).

### `DateChange.tla`

How followers learn of a change.  `revision` and `published` are the approved
history and the window of one date field, `row[w][r]` the notice of a follower
for a revision, `sweep[s]` one process's `runDateChangePlanningSweep` (list the
recent approvals, plan them one after the other under the field's lock),
`job[w][r]` the delivery that claimed a notice and reads the same tables again.
Every select of a hydration is a step, reviews commit between any two.
Abstracted: reviews are atomic and one at a time, which `RevisionReview` shows
is needed; one field of one window; the followers' page of a planning and its
`createMany` are one step; dates are only replaced, never removed, as in
`RevisionReview`; a follower's creation is compared with decisions by counting
decisions (`since`), so equal instants do not occur.

Properties: `NoticeIsCurrent` (a notice that passes its revalidation is true
then, although its reads saw the tables at different times),
`LatestNoticeKept` (superseding never cancels the notice of the latest
approval; turning notifications off does), `DateChangeInv`, and under fairness `NoticesSettle` (no notice stays
open, and every change that is to be told got one).

Bounds: `MCDateChangeRace.cfg` has two sweeping processes, one follower, two
revisions and no changes of eligibility: two approvals and two plannings of them
are the smallest case in which an older view can withdraw a newer notice.
`MCDateChangeLive.cfg` has one sweep, a look-back of one day and one change of
eligibility, which is a preference, a subscription or notifications turned off as a
whole (`Unsubscribe`, which also cancels the scheduled notices); the proofs have
any number of them in the race too.  Fairness: the sweep runs every minute, the dispatcher every 30
seconds, and neither overlaps itself in one process.

Proved, for any number of followers, revisions, sweeps and look-back:
`DateChangeInv`, `NoticeIsCurrent` and `LatestNoticeKept` (`DateChange_proofs`,
from `DateChangeAssumption`).  Decisions are final, so what an execution has read
of an approved revision still holds when it writes (`ReadsHold`); a planning that
believes its revision to be the latest, under the lock of the field, sees no row
of a later one (`PlannedIsLatest`), which is why it cannot cancel that one's
notice; rows exist for approved revisions only (`RowsAreApproved`).
Also proved, and stated by no run: no follower is told of a change twice, because a
notice that was sent has its verdict and no sweep, recovery or other delivery takes
a verdict back (`NoticeToldOnce`); and a delivery cannot go round for ever, whatever
is reviewed while it reads (`DeliveriesRunOut`, a part of `NoticesSettle`).

Seen while modelling: a notice that is delivered on a later UTC day than it was
planned for is cancelled, and so is one whose field has a pending competitor at
that instant; no row is ever revived, so the followers are not told although
nothing else happened.  The repository's tests expect the first.

### `FetchPipeline.tla`

How a change of an official page becomes a parse job.  `job[d]` is the day's
entry of the fetch queue (its id names source and day), `worker[w]` an attempt
between two awaits of `processFetchJob`, `source` the row with its content hash
and last check, `object` the snapshot files, `snapshot` the rows, `parse` the
parse queue.  Attempts fail or crash between any two steps; jobs of two days
overlap when the first one is retried.  `lapses` is history: it names the known
ways in which a parse gets lost, each set by the step where it happens: `torn`
(a write interrupted), `truncated` (a torn body was parsed), `orphaned` (an
attempt ended between the snapshot and its parse job), `unmarked` (the check was
not newer than the one on record, so the source did not advance), `overtaken`
(another attempt advanced the source in between).

Properties: `PipelineInv` (bytes before metadata: no row without its file, no
parse without its row, and a truncated file only after an interruption) and,
under fairness, `ChangeIsParsed`: content that replaces other content is parsed
unless one of four lapses occurred, so there is no fifth way.

Bounds (`MCFetching.cfg`): two executions, jobs of two days, two contents so
that a page changes and reverts, two failures, and a clock of three instants for
checks in the same millisecond.  Fairness: BullMQ hands out waiting jobs and
gives those of dead workers away.  The run demands less: that something of what
the event loop, the queue or a timer has to do is done while there is any
(`Scheduled`).

Proved, for any number of days, contents and workers: `PipelineInv`
(`MCFetching_proofs`).  The strengthening says what an attempt has already done
where it stands (`AttemptsAreOrdered`), that a job has one attempt at a time
(`JobsAreHeld`) and that a truncated file has a writer or had one that was
interrupted (`PartialIsWritten`).  Of `ChangeIsParsed` everything but fairness is
proved: a change that is recorded and not parsed is on its way, carried by an
attempt or a queued parse, or one of the four lapses occurred
(`ChangeIsOnItsWay`), and an attempt cannot go round for ever (`AttemptsRunOut`).

Seen while modelling: `putIfAbsent` creates the file under its final name
before it writes it, so a process that dies in between leaves a body cut short
that every later attempt takes for complete; and an attempt that dies between
recording the snapshot and enqueueing its parse makes its retry see unchanged
content.  Both are lapses that `ChangeIsParsed` excepts by name.  Not modelled:
the dead letter and which sources a sweep picks.  What the parse finds is
`ParseJob`'s.

### `OfficialFetcher.tla`

How a page of an approved host is requested.  `call[c]` is one call of
`fetchOfficialUrl`, from its page to the robots.txt of every host a redirect
leads to and back; `tails[h]` and `wait[h]` are the limiter's queue and clock of
a host, `cache` the robots rules by origin with the time they expire.  Calls of
one fetcher interleave at every await.  Clocks count down to zero.

Properties: `FetcherInv`, that is `PagesArePermitted` (no redirect, expired rule
or concurrent call makes the fetcher ask for a page that the origin's own
robots.txt did not allow, of a host that is not approved, or in the clear after a
secure one), `OneAtATime` (a host has one request of a fetcher at a time) and
`QueuesAreTrue`; under fairness `FetchesEnd`.

Bounds: two calls, two hosts of which one is approved, one redirect, three
robots.txt (empty, a delay with two rules of which the longer forbids, a group
for this agent), rules that expire while a call still waits.  Abstracted: the
text of robots.txt, headers, the addresses a name resolves to, the body and its
limits, which end a request in a failure here.

Proved, for any number of calls and hosts, any rules and delays: `FetcherInv`
(`MCFetching_proofs`).  The strengthening says that the queues name those who wait
(`QueuesAreTrue`), that cached rules were given by their origin
(`CacheIsAnswered`) and that the page a call is after stays approved and secure
while it asks for robots.txt (`TargetsAreApproved`).  Of `FetchesEnd`: a call cannot
go round for ever, whatever is redirected where (`FetchesRunOut`: the redirects left
count most, then the requests of a hop), and
while calls are under way one of them waits for nobody or only for the time, so
the queues of the hosts never form a circle (`SomeFetchAdvances`).

Seen while modelling: requests for robots.txt ignore a crawl delay; a production
job makes a fetcher of its own, so neither the limiter nor the cache is shared
between the two jobs that run at a time, and a browser is never used.

### `BrowserFetch.tla`

A page rendered by a browser: `operation` is the awaited step of the retrieval,
`browser`, `context` and `page` what is open, `route[r]` how far each request of
the page is vetted, `cleanup` what the `finally` block closes next.  A deadline
races it all and may win between any two steps, even before the browser exists.

Properties: `BrowserInv`, that is `LimitsHold` (no more requests and redirects are
let through than allowed, however many handlers run at once), `ResultIsClean` (a
page whose requests were intercepted is not returned, unless that happened while
its content was being read) and `Nested`; under fairness `BrowserIsClosed`: not
even a browser that launches after the clean-up is left running.

Proved, for any number of requests, redirects and pages: `BrowserInv`
(`MCFetching_proofs`).  The strengthening counts: what is being vetted or was let
through is at most what was counted, and within the limits (`CountsAreTrue`).  Of
`BrowserIsClosed`: a retrieval cannot go round for ever (`RenderingRunsOut`), and
where it has no step left no browser is open, even if the deadline struck while one
was launched (`RenderingEndsClosed`).

Bounds: three requests with two allowed, one redirect, one page with another
one opened.  Abstracted: the robots rules and the limiter, which `OfficialFetcher`
has, and the content.

### `TextCollector.tla`, `HtmlText.tla`, `PdfText.tla`

How the text of a page is read.  `TextCollector` joins pieces of text with
the separator that is due.  `HtmlText` reads a page of pieces (tags, comments,
texts, "less" signs that are no tags) in one pass with the stack of open
elements and the count of hidden ones.  A tag that ends in "/>" opens no element
(`slash`; the code takes `<div hidden/>` and an unquoted URL before ">" alike), one
that is longer than 16384 characters is text (`long`), and a "less" sign reaches to
the next ">", with the attributes and the slash of the tag it swallows; `PdfText` reads the streams of a document
within its limits, gives character maps to the font names that use them, and
runs the operations of text objects, of whose coordinates only the baseline is
kept.

Properties: `HtmlInv` (`DepthIsTrue`: the count of hidden elements is that of
the stack, however badly the page is nested; `ShownIsRead`: of a well nested
page everything that is shown is read unless a "less" sign or a long closing tag
swallowed something, and hidden text is read only within an element that the reader
never opened or has closed too early, because it, or one in it, ended in "/>" or was
too long, or a "less" sign swallowed the opening; `BlocksKeptApart`: texts of two blocks, lines or cells are never run
together, so no date is made of two cells; a hidden element divides at most where
it ends) and `PdfInv` (`MemoryIsBounded`;
`LinesKeptApart`, but for the three ways in which the reader loses the line;
`StringsReadByTheirFont`: a string that its font's map can read, and no other,
is read with it however pages reuse the font's name, if the font was selected
where the reader looks).

Bounds: every HTML page of up to three of 22 pieces between two texts, and of five
pieces where hidden elements nest with elements that end in "/>"; PDF text objects
of up to four movements, two fonts of one name, streams about the limits.  Both
are sequential, so the instance consists of inputs (`HtmlPages`, `Documents` of
`MCRevisionReview`).  Abstracted: the tokenising of bytes, decompression and
character codes.  In a page, attribute values and texts have no "<" or ">" of their
own (a "less" sign is a piece), a "less" sign stands before a letter or before what
makes neither a tag nor a closing one, and a comment is not longer than the limit of
a tag.

Proved, for all pages and documents and every limit (`HtmlAssumption` and
`PdfAssumption` say only that they are sequences of pieces, streams and
operations): `HtmlInv` and `PdfInv` (`RevisionReview_proofs`).  The strengthening
for a page is that the elements which are open before a piece, told from the
source, are frames of the stack, in the same order and hidden as they are
(`Follows`), but for those the reader has forgotten (`Kept`), and all frames are such
as long as no tag was swallowed (`StackIsOpen`); a closing tag ends the innermost of them because the page is well
nested (`OpenAfterClosing`).  With it goes that no boundary was passed since the
last text while nothing is due (`NoBoundarySince`).  For a document it is that
ids are in order (`ReadInOrder`), that the reader has not left the line of the
last text while nothing is due (`LastOnLine`), and that the maps tried are those
of the font it saw selected (`FontRead`).  That the texts of one operation
continue what was collected (`TextsContinue`), which is an induction over them,
is shown of the least number for which it would fail (`LeastNatural`).

Two definitions were too strong before their proofs, and TLC shows both once the
instance has the input: a hidden `<br>` does not divide, and a font selected
between two text objects is not the one the reader uses.

Seen while modelling: a stream of a PDF that begins with `Tm` continues the line
of the stream before it; so does text after `T*`, and in a second text object; a
movement along the line inserts no space; a font selected outside of a text
object is ignored.  The code reads the hidden text of a tag that ends in "/>", `<div hidden/>` and
`<a hidden href=/x/>` alike, which browsers do not close (`html.ts:277`).  An inline
script with `a<b` and no ">" before `</script>` swallows its closing tag; text between "<b" and the next tag is lost; an unclosed
`<p hidden>` hides until its parent closes.

### `DateReading.tla`, `IntakeMatching.tla`, `ParseJob.tla`

`DateReading` finds the dates in a text of words: seven patterns claim their
words in order, each date takes its kind from the nearest label and its instant
from a time and a zone.  `IntakeMatching` binds a date to the only intake and
round it can be for.  `ParseJob` is `processParseJob` around them: what it loads,
the pass of the reader, a pass of the language model when that proposed nothing
(its quote has to stand in the text), proposals one after the other, a review job
for each, failures at any call and attempts of the queue.  Reviewers publish what
is proposed in between.

Properties: `ProposalsAreGrounded` (a proposed date stands on the page as an
exact date and is for the window its evidence names, or its intake's only one),
`BindingIsTimeless` (the day on which a page is parsed never decides which intake
a date is for) and `ParseInv` with `ReviewsFollow` (no proposal waits without its
review job, but for three named ways).

Bounds: 21 texts about labels on either side, two labels, numeric dates in both
orders, months, seasons and times with zones; three catalogues with one or two
intakes, one or two rounds; two days, one on which an intake is over; two
attempts and one failure.

Proved, for all texts, catalogues, days and claims of a model under
`ParseAssumption` (`RevisionReview_proofs`): `ParseInv`, `ProposalsAreGrounded` and
`BindingIsTimeless`.  What makes them provable is that whole dates are apart: no
other pattern can claim a word of one, so each is read, and a quote that contains
one reads it as the page does (`WholeDatesAreApart`, `QuotedDate`).  A date
that allows an intake which is over is itself over, so the day decides whether a
page is stale and never which intake is meant (`OldIntakeOldDate`).  The
strengthening for `ParseInv` (`WaitingIsAhead`) says that proposals without a review
job are among those that the pass under way has yet to propose or to enqueue.

Seen while modelling: a zone written as `CET` is read as UTC without a reason for
review; a round name that no round has falls back to the intake's only window; a
model's quote may begin within a number ("5 January" of "15 January"), which
`ProposalsAreGrounded` excepts; an error while the model's pass enqueues a review
is swallowed; a proposal made from a stale load of the windows, after a reviewer
published the same value, has no review job if its enqueue fails.

### `PushSubscriptions.tla` (and `DeviceRegistry.tla`)

Who receives on which device.  `stored` is the `push_subscriptions` table by
endpoint, `browser` what each browser holds, `request[q]` a
`storePushSubscription` transaction between two statements, and revocation,
account deletion and a delivery's clean-up are the other writers.  Stores of a
user hold its advisory lock; the other writers take none, and what a
transaction wrote is visible when it commits, so a concurrent statement waits
for a row it has locked.  Deliveries keep a list of rows they read, and a list
names rows by ids, which never return.

`DeviceRegistry` is the same without locks, statements and retries: a device is
stored in one step, free or the user's own and with room for it; revocation, a
purge of revoked rows and the deletion of an account are one step each.
`StoresAreAtomic` says that `PushSubscriptions` implements it, with the rows,
what users were told and the deleted accounts as they are: a store takes effect
at its commit.

Properties: `CleanupSparesDevices` (a clean-up revokes no endpoint that its
browser still holds), `StoresNeverDeadlock`, `StoresAreAtomic`, and `PushInv`, the inductive
invariant: `ActiveWithinLimit` (no user exceeds the limit, on which the
clean-up's own check relies), `StoredIsActive` (an endpoint answered 204 stays
active under its user until that user, the deletion of the account or a clean-up
ends it), stores of a user are serial (`StoresAreSerial`), have room before they
write (`StoresHaveRoom`), renew only rows of their own (`RenewalsAreOwn`),
delete only what stays revoked (`DoomedIsRevoked`), and every row was issued by
a browser (`EndpointsAreIssued`).

Bounds (`MCPushSubscriptions.cfg`): two users, two browsers, two concurrent
stores with a limit of 1, one renewal: the limit is reached by a second browser
and endpoints change hands between users.  Deliveries list one user's endpoints
at a time (`NobodyListed`).  `CHECK_DEADLOCK FALSE`: browsers have a bounded
supply of endpoints.

Proved for every number of users, browsers and requests and every limit:
`PushInv`, `ActiveWithinLimit`, `StoredIsActive`, `CleanupSparesDevices`, and that
stores do not wait in a circle (`SomeStoreAdvances`): while any is under way one
of them waits for nobody, because a store begins to wait for a row only of those
that took their lock after it had found no row of its endpoint.  Nor do they go
round for ever (`StoresRunOut`): a measure of what is left of a store
(`Left`) falls with each of its steps and rises with nobody's, across the one
retry of a lost race.  And `StoresAreAtomic`: what the statements of a store found
earlier (`StoresHaveRoom`, `RenewalsAreOwn`, `DoomedIsRevoked`) still holds when it
commits, which is what the atomic step asks for.  That such a
store can then take its step (ENABLED) is what `StoresNeverDeadlock` adds and TLC
shows.  Not modelled: endpoints at private
addresses, which a delivery also counts as invalid.  Seen while modelling: a
store under way while its account is deleted commits afterwards and its
endpoint stays.

### `DevicePush.tla`

One device of an account.  `permission` and `local` are the browser's, `active`
the server's; `shown` is what the settings page and the panel of a follow show
and `work[a]` what each of their activities awaits (the prompt, the subscription,
the request that stores it, the one that revokes it).  A step may fail, its answer
may be lost, the page may be left, permission changed, the subscription revoked
by another device or by a delivery's clean-up, all between any two steps.

Properties: `DeviceInv`, that is `EnabledIsStored` (a page that turned its
device on says so only if the server stored the subscription it got) and
`InactiveIsKnown` (what the browser holds is active, about to be, or lapsed in
one of five named ways).  Finding (`device_covered`): `SubscribedIsCovered`
fails.  A subscription that the server refused stays in the browser, and the
settings page, opened again, takes it for a device that is on and offers nothing
to repeat.

A subscription that cannot be serialized is among the failures of `Store`.

Bounds: in the composed run one subscription and one failure; in the run of the
finding two of each.

Proved, for any number of activities, subscriptions and failures: `DeviceInv`
(`MCPushSubscriptions_proofs`).  The strengthening says that what is handed to the
server is a subscription, and stored before its answer (`HandedIsStored`), and
that a page which is turning its device on does not say that it is on
(`EnablingIsShown`).

Seen while modelling: "Unsubscribe all" on one device leaves other devices' pages
saying that they are on; the answer to a second follow may close or replace the
panel while an activation runs.

### `NotificationSettings.tla`

The preferences of an account and the pages that edit them: a page loads what the
followed programmes have in common, shows a change before it is saved, sends all
it shows, and takes the change back when that fails.  A `Control` is a switch or a
box: it turns one choice on or off, or, as the switch above a group of days, all
those of the group.  A save finds the watchlists and then writes their preferences
in one transaction; follows, unfollows and other pages fall between.  `changed` and
`since` are history: what others changed since the server read what a page shows, and
what it is being answered.

Properties: `SettingsInv`, that is `PageIsHonest` (what a page that waits for nothing
shows is what the server has, but for the choices that were changed since it was
read) and `SavedIsKept` (the last save holds for every programme followed when it was
committed), and `OnlyTheToggledChanges` (a save from a page however stale does what
was asked of the toggled choices, and changes another choice only if it was changed
since the page was read, whose change it undoes: settings are saved as a whole).

Bounds: two programmes, two choices with a switch each and one for both, two pages,
three writes.

Proved, for any number of programmes, choices, controls and pages: `SettingsInv` and
`OnlyTheToggledChanges` (`MCPushSubscriptions_proofs`).  The strengthening says
that an answer agrees with the server but for what was changed since
(`AnswersAreCurrent`), that what a page showed before its save does so and what it
saves differs from it by one control (`SavesToggleOne`), and that a programme which a save did not find has preferences
of its own (`SavesReachAll`).

Seen while modelling: when the answer to a save is lost the page shows the old
value as saved, and its next save writes it back; a page that another one
overtook writes back all it shows; a programme followed after everything was
turned off starts with everything on; `pushEnabled` has no effect
(`repository.ts:135`).

### `ServiceWorker.tla`

The worker over deployments.  The registration (`installing`, `waiting`, `active`)
and which tabs a worker controls are the platform's; the install that fills the
shell cache, the activation that deletes every cache but its own, the tabs that
register, look for an update when they are shown and every hour (`Update`: the
newest worker's own URL is fetched again, and if the server now has another script
a worker of the same version installs), offer an update and reload are the code's.
`latest` is the versions whose newest worker has the script the server has, `missed`
the tabs that registered during the install under way.

Properties: `WorkerInv`, that is `ActiveIsUsable` (an active worker has the
offline page its install stored, unless the activation of another version
deleted it) and `WaitingIsOffered` (a worker that waits is offered by every
registered tab, unless the tab was not controlled when it was installed or
registered during the install, `unheard`).

Bounds: two tabs, three deployments (an active, a waiting and an installing
version), one failed install.

Proved, for any number of tabs and deployments: `WorkerInv`
(`MCPushSubscriptions_proofs`), with `WaitingIsUsable`: what holds of an active
worker's offline page holds of one that waits.

Seen while modelling: both exceptions happen.  Activating version 2 while 3
installs or waits deletes the caches of 3, which then runs without its offline
page (`sw.js:112`); a tab that registers during an install never hears of its
end. "Update now" for a worker that has become active otherwise does nothing
until the next change of worker, when the tab reloads; a tab of an older
deployment may register the older worker again, and looks for updates of the
older version only.  Workers of one version are not told apart when a tab asks its
worker to skip waiting.  Not modelled: the browser's own check for an update after a
navigation, the caching of assets, showing a notification and opening its page.

### `Publication.tla`

How a contribution becomes a catalogue record: submission, review of the
submission and of its possible duplicates, and publication statement by
statement under the submission's advisory lock.  `content` is what is proposed:
`name` stands for the unique key and `mark` for whatever else makes two records
alike (a similar name, a domain, a URL).  `publisher[p]` is a publication between
two statements, `reviewer[v]` a review between its read and its commit, `record`
the submissions that have a record and their publication audit row.

Properties: `PublicationInv`, with the parts `DuplicateIsUnpublished` (a
submission with a record is never called a duplicate: a second request finds the
first one's record before it looks for duplicates), `DoubtedIsUnpublished` (a
submission that resembled a record when it was sent is never published) and
`TwinsOverlapped` (two records resemble each other only if their publications
overlapped, for the locks are per submission).

Bounds (`MCPublication.cfg`): two submissions, two names, two marks, one domain,
two requests and two reviews, which are interchangeable.  Three submissions with
one review (765 000 states) were also clean.  `CHECK_DEADLOCK FALSE`: nothing is
left to do when everything is published.

Proved for all constants: the invariant and its three parts.  The strengthening
(`ReadsStillHold`) says that what a publication has read about its submission
holds until it ends: approvals are not taken back while it runs in a way it
could miss, the doubt about it was absent, and what it saw of the catalogue does
not resemble it.

Abstracted: resemblance is an equivalence on marks (the code's similarity of
names is not transitive, no property uses that); universities stay active here
(the import's repair archives duplicates, see `CatalogueImport`; a request whose
university is archived meanwhile ends as `AbortPublication` does); a search
never reaches its limit of 1000 rows.  Seen while modelling: rejecting the
duplicate review does not free the submission, the search is repeated and finds
the same record; a repeated request after DUPLICATE is answered 404.

### `CatalogueImport.tla`

How universities, programmes and intakes get into the catalogue: the curated
seed (`seed-import.ts`), the ROR registry (`ror-import.ts`), the French TMM
registry with the repair of universities it once duplicated (`tmm-import.ts`),
and published submissions.  `catalogue` holds the rows by the identity they were
created under (a stable id of the seed, a ROR record, a TMM establishment, a
submission): `university` (name, active, city), `alias`, `program` by university
and `intake` by programme, so a row that another writer created keeps the other
writer's id.  `seed`, `ror`, `tmm` and `publication` are transactions between
what they read and what they write; imports of one kind exclude each other,
imports of different kinds overlap, so `...Read` plans from one catalogue and
`...Commit` writes to another.  The seed looks a row up right before it writes
it, so its three lookups (university, programme, intake) are three steps with
other transactions between them; what it wrote is visible at its commit.
`...Plan` and `...Write` are the plan and the upserts, whose result is not ok
where a unique key or a reference fails.

Properties: `CatalogueInv`, whose parts follow, and `ImportsAreIdempotent` (in
every reachable catalogue each import, run again after it succeeded, succeeds
and changes nothing; exception: a TMM run that creates the canonical university
beside one of the historical name leaves something to repair).  The parts are
`CatalogueIsWhole` (every reference finds its row and a key names one row,
whatever an overlapping import believed), `CuratedDataWins` (a registry import
that nothing overlaps renames, archives and overwrites nothing and never fails),
`ArchivedIsEmpty` (an archived duplicate keeps no programme; exceptions: a
submission being published meanwhile, and TMM's own programme of a university
that a TMM import of one of its aliases finds, or could find, because it looks
at universities of any status; one that the seed renamed between the reads and
the writes of the repair bears another name and is no such duplicate), and
`TmmFailuresAreKnown` (the only ways in which a TMM import that nothing overlaps
fails).

Bounds (`MCPublication.cfg`): three names, one of which is TMM's historical name
of another, one alias and four committed transactions: enough for two
universities, programmes from two writers, a repair, and an import on top of the
result.  What running an import would do is evaluated where none is under way,
which every catalogue is.  `CHECK_DEADLOCK FALSE`: commits are bounded.

Abstracted: one programme name, degree and September intake everywhere; one
record per import transaction; sources, summaries, windows and domains; an alias
that names two universities is resolved by a fixed choice.

Proved, for any set of names and any number of transactions
(`Publication_proofs`, from `ImportAssumption`): `CatalogueInv` and
`ImportsAreIdempotent`.  The strengthening is what the commits need: a plan made
from an older catalogue still refers to rows that are there and can fail but not
dangle (`PlansStillHold`), because no transaction deletes a row, an alias or a
key, and an intake is the seed's or bears the id of its programme
(`RowsAreOwn`).  That every import run again changes nothing is proved of every
catalogue of that kind, not of the reachable ones only.

Seen while modelling: with five transactions the seed can rename a university
between the reads and the writes of the repair, which then archives it under its
new name with the programmes that a TMM import of that name gives it; the proof of
`ArchivedIsEmpty` failed for this step, which four transactions do not reach, and
the property now names it.  The windows of a TMM programme refer to the intake by its
computed id, and a September intake of another writer keeps another id, so one
such programme aborts the whole import.  A new TMM university whose historical
name another writer owns is skipped by its upsert, and its programmes then fail.
The repair fails on a unique key where both universities have the programme, and
since the script repairs first the import then never runs.  The alias that the
repair adds is not consulted, because lookups use the canonical name.  Archived
universities are matched like active ones.  A ROR fill planned from an earlier
read can overwrite what a seed committed in between, which is why
`CuratedDataWins` speaks of imports that nothing overlaps.

### The composed instances

Parts that share no state are checked in one run: `MCFetching`,
`MCRevisionReview`, `MCPublication` and `MCPushSubscriptions` choose in the
initial state which part runs (`stage`); the others keep their initial values or
have none.  Each part's actions and properties are those of its own module, so
such a run is the union of its parts' runs, not a product.  Parts whose
composition matters are one module: executions, loops and contract in
`NotificationDelivery`, sweeps, edits and deliveries in `ReminderSchedule`,
reviews, plannings and deliveries in `DateChange`, jobs and reviews in
`RevisionReview` and `ParseJob`.

## 3. Runs

| Run | Module | Question |
|---|---|---|
| `delivery_safety` | `MCNotificationDelivery` | is a notification sent at most once, under a true verdict, and is the contract implemented? |
| `delivery_liveness` | `MCNotificationDelivery` | does every claim and every due row come to an end? |
| `reminder` | `ReminderSchedule` | is a reminder true and sent once, as the contract says, does the newest source win, does the sweep catch up? |
| `reminder_due` (violation) | `ReminderSchedule` | may a due reminder be withdrawn before it is claimed? |
| `datechange_race` | `MCDateChange` | is every notice that passes its checks true, and is the latest one kept? |
| `datechange_live` | `DateChange` | does every notice end, and is every change told? |
| `review` | `MCRevisionReview` | overlapping proposals and reviews; what is read of a page; what a parse job makes of it |
| `review_double` (violation) | `RevisionReview` | may two reviewers decide one revision? |
| `pipeline` | `MCFetching` | is a change parsed; are only permitted pages requested, does a fetch end, is a browser closed? |
| `push` | `MCPushSubscriptions` | limits and deadlocks of subscriptions, which appear atomic; what devices, settings pages and the worker show |
| `publication` | `MCPublication` | what becomes a record; what imports may do to the catalogue |
| `device_covered` (violation) | `DevicePush` | is a device that shows as turned on covered by the server? |

`CHECK_DEADLOCK FALSE` stands where the system really stops: a bounded supply of
endpoints, writes or commits is used up, a page is read, a job is done.

## 4. What is only model-checked

Liveness (`ClaimsResolve`, `DueIsProcessed`, `SweepCatchesUp`, `NoticesSettle`,
`ChangeIsParsed`, `FetchesEnd`, `BrowserIsClosed`), and of `StoresNeverDeadlock`
that a store which waits for nobody has a step: the prover has neither fairness
nor ENABLED.  Every other property of the passing runs is a theorem.

The two facts that such a property rests on beside fairness are proved where they
say something: that what is under way comes nearer its end with each of its steps
(`ExecutionsRunOut`, `DeliveriesRunOut`, `AttemptsRunOut`, `FetchesRunOut`,
`RenderingRunsOut`, `StoresRunOut`), and that it cannot be lost or all be waiting
(`ChangeIsOnItsWay`, `SomeFetchAdvances`, `RenderingEndsClosed`,
`SomeStoreAdvances`).  That fair steps then reach the end is left to TLC, as are
`DueIsProcessed` and `SweepCatchesUp`, which depend on the loops being repeated.

## 5. Plan

1. The dead letter and the choice of sources of a recheck sweep, beside
   `FetchPipeline`; a source that always fails.
2. `RateLimit`: the application's own request limiter.
3. The display of a notification and the opening of its page, beside
   `ServiceWorker`.

## 6. Not modelled

Pages and read-only queries, configuration parsing, logging and the
authentication library keep no state of their own that another component relies
on.  The tokenising of HTML, PDF objects and robots.txt, and the wording of
labels, are data to the models that use them.  Three hazards have no property,
with the reason beside them in `PROJECT.json`: a sweep that one watchlist ends
every time, more than 200 approvals within the look-back, and a source that
always fails.
