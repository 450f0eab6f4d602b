----------------------------- MODULE MCFetching -----------------------------
(***************************************************************************)
(* An instance of how an official page is followed: the attempts of the      *)
(* fetch queue (FetchPipeline), the fetcher that concurrent ones share      *)
(* (OfficialFetcher) and the browser it may use (BrowserFetch), one of the  *)
(* three in each behaviour.                                                 *)
(***************************************************************************)
EXTENDS FetchPipeline, Sequences

CONSTANTS
    Caller, Url, Robots, ApprovedHost, RobotsPath, MinimumInterval, RobotsCacheTime, MaximumRedirects, MaxFetches,
    Request, MaximumRequests, MaximumPages, MaxOpened

-----------------------------------------------------------------------------
(* What is fetched: pages of two hosts, and what a robots.txt may say.      *)

Address(h, p, s) == [host |-> h, path |-> p, secure |-> s]
OfficialUrl == {Address("www", "programme", TRUE), Address("www", "private", TRUE),
                Address("www", "programme", FALSE), Address("other", "programme", TRUE)}
Rule(allow, paths, length) == [allow |-> allow, paths |-> paths, length |-> length]
Group(agent, delay, rules) == [agent |-> agent, delay |-> delay, rules |-> rules]
RobotsFile ==
    {<<>>,
     <<Group("*", 2, {Rule(FALSE, {"private"}, 8), Rule(TRUE, {"private", "programme"}, 1)})>>,
     <<Group("us", 0, {Rule(FALSE, {"programme"}, 1)}), Group("*", 0, {})>>}

-----------------------------------------------------------------------------
VARIABLES
    stage,  \* the component that runs
    call, tails, wait, cache, fetches, answered,
    operation, browser, context, page, timedOut, outcome, cleanup, route, counted, intercepted, late

F == INSTANCE OfficialFetcher
B == INSTANCE BrowserFetch

ASSUME FetchingAssumption == F!FetcherAssumption /\ B!BrowserAssumption

requesting == <<call, tails, wait, cache, fetches, answered>>
rendering == <<operation, browser, context, page, timedOut, outcome, cleanup, route, counted, intercepted, late>>
all == <<stage, vars, requesting, rendering>>

\* The others stay as they begin.
PartInit ==
    /\ stage \in {"attempt", "fetch", "browse"}
    /\ Init
    /\ F!Init
    /\ B!Init
    /\ stage # "browse" => \A r \in Request : route[r].kind = "navigation"
    /\ stage # "attempt" => latest = NoContent

Attempting == stage = "attempt" /\ UNCHANGED <<stage, requesting, rendering>>
Fetching == stage = "fetch" /\ UNCHANGED <<stage, vars, rendering>>
Browsing == stage = "browse" /\ UNCHANGED <<stage, vars, requesting>>

PartNext ==
    \/ \E j \in Job : Attempting /\ Enqueue(j)
    \/ \E w \in Worker : Attempting /\ (AttemptStep(w) \/ Fail(w))
    \/ \E c \in Content : Attempting /\ Parse(c)
    \/ Attempting /\ Tick
    \/ \E c \in Caller : Fetching /\ F!Step(c)
    \/ \E c \in Caller, u \in Url : Fetching /\ F!Fetch(c, u)
    \/ Fetching /\ F!Tick
    \/ Browsing /\ B!Launch
    \/ Browsing /\ B!NewContext
    \/ Browsing /\ B!NewPage
    \/ Browsing /\ B!Goto
    \/ Browsing /\ B!Settle
    \/ Browsing /\ B!ReadContent
    \/ Browsing /\ B!Deadline
    \/ Browsing /\ B!End
    \/ Browsing /\ B!Cleanup
    \/ Browsing /\ B!OpenPage
    \/ Browsing /\ B!ExceedBytes
    \/ \E r \in Request : Browsing /\ B!BeginRoute(r)
    \/ \E r \in Request : Browsing /\ B!VetTarget(r)
    \/ \E r \in Request : Browsing /\ B!VetRobots(r)

\* As long as the event loop, the queue or a timer has something to do, something is
\* done; no process is preferred to another.  Weaker than the modules' own fairness.
Scheduled ==
    \/ Attempting /\ \E w \in Worker : AttemptStep(w)
    \/ Attempting /\ \E c \in Content : Parse(c)
    \/ Fetching /\ (F!Tick \/ \E c \in Caller : F!Step(c))
    \/ Browsing /\ (B!Retrieve \/ B!End \/ B!Cleanup)

PartSpec == PartInit /\ [][PartNext]_all /\ WF_all(Scheduled)

\* OfficialFetcher: every request has its turn, its host's approval and its robots.txt.
FetcherInv == stage = "fetch" => F!FetcherInv
\* OfficialFetcher: every call comes to an end.
FetchesEnd == F!FetchesEnd
\* BrowserFetch: its limits hold, and no page with an intercepted request is returned.
BrowserInv == stage = "browse" => B!BrowserInv
\* BrowserFetch: no browser is left running.
BrowserIsClosed == B!BrowserIsClosed
=============================================================================
