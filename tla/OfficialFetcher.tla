--------------------------- MODULE OfficialFetcher ---------------------------
(***************************************************************************)
(* How a page of an approved host is requested (apps/worker/src/fetch/      *)
(* index.ts, rate-limit.ts, robots.ts, network-policy.ts, request.ts):      *)
(* every hop needs a robots.txt that allows it, which may itself redirect,  *)
(* and every request waits for its host's turn.  Calls of one fetcher run   *)
(* side by side; they share its limiter and its robots cache.  Clocks are   *)
(* what remains until they run out.                                         *)
(***************************************************************************)
EXTENDS Integers, Sequences, FiniteSets, FiniteSetsExt

CONSTANTS
    Caller,              \* concurrent calls of fetch
    Url,                 \* [host, path, secure]
    ApprovedHost,
    RobotsPath,          \* the path "/robots.txt"
    Robots,              \* contents a robots.txt may have
    MinimumInterval,     \* milliseconds between two requests of a host
    RobotsCacheTime,     \* ROBOTS_CACHE_MS
    MaximumRedirects,
    MaxFetches           \* bound: calls made

VARIABLES
    call,      \* what each caller is at, and whether it asked for a secure page
    tails,     \* per host, the callers waiting for their turn, the first having it
    wait,      \* per host, the time until nextAllowedAt
    cache,     \* per origin, the robots rules and the time until they expire
    fetches,   \* calls made
    answered   \* history: per origin, the robots rules it has given

vars == <<call, tails, wait, cache, fetches, answered>>

Host == {u.host : u \in Url}
Origin == {[host |-> u.host, secure |-> u.secure] : u \in Url}
OriginOf(u) == [host |-> u.host, secure |-> u.secure]
RobotsUrl(origin) == [host |-> origin.host, path |-> RobotsPath, secure |-> origin.secure]
Idle == [pc |-> "idle"]
NoRules == [rules |-> <<>>, expires |-> 0]

Consult == [pc : {"consult"}, target : Url, hops : 0..MaximumRedirects, secure : BOOLEAN]
PageRequest ==
    [pc : {"resolve", "turn", "sent"}, target : Url, hops : 0..MaximumRedirects, secure : BOOLEAN,
     kind : {"page", "robots"}, url : Url \cup {RobotsUrl(o) : o \in Origin},
     redirects : 0..MaximumRedirects, delay : Nat]

TypeOK ==
    /\ call \in [Caller -> {Idle} \cup Consult \cup PageRequest]
    /\ tails \in [Host -> Seq(Caller)]
    /\ wait \in [Host -> Nat]
    /\ cache \in [Origin -> [rules : Robots \cup {<<>>}, expires : 0..RobotsCacheTime]]
    /\ fetches \in 0..MaxFetches
    /\ answered \in [Origin -> SUBSET Robots]

Init ==
    /\ call = [c \in Caller |-> Idle]
    /\ tails = [h \in Host |-> <<>>]
    /\ wait = [h \in Host |-> 0]
    /\ cache = [o \in Origin |-> NoRules]
    /\ fetches = 0
    /\ answered = [o \in Origin |-> {}]

-----------------------------------------------------------------------------
(* robots.txt: a sequence of groups [agent, delay, rules], where an agent is *)
(* "us", "*" or another one and a rule is [allow, paths, length].            *)

\* Groups for this agent, else those for all.
Selected(content) ==
    LET For(agent) == {i \in DOMAIN content : content[i].agent = agent}
    IN  IF For("us") # {} THEN For("us") ELSE For("*")
RulesFor(content, path) ==
    UNION {{r \in content[i].rules : path \in r.paths} : i \in Selected(content)}

\* The most specific rule decides, an allowing one before a disallowing one.
AllowedByAny(content, path) ==
    LET rules == RulesFor(content, path) IN rules = {} \/ \E r \in rules : r.allow
Allowed(content, path) ==
    LET rules == RulesFor(content, path)
        longest == {r \in rules : \A s \in rules : s.length <= r.length}
    IN  rules = {} \/ \E r \in longest : r.allow
CrawlDelay(content) == Max({content[i].delay : i \in Selected(content)} \cup {0})

FetcherAssumption ==
    /\ MinimumInterval \in Nat
    /\ RobotsCacheTime \in Nat \ {0}
    /\ MaximumRedirects \in Nat
    /\ MaxFetches \in Nat
    /\ \A u \in Url : u.path # RobotsPath /\ u.secure \in BOOLEAN
    /\ \A content \in Robots : CrawlDelay(content) \in Nat
    /\ \A content \in Robots : \A i \in DOMAIN content : \A r \in content[i].rules : r.length \in Nat

-----------------------------------------------------------------------------
(* A definition that directly precedes another of the same parameters, and  *)
(* that nothing uses, is a broken variant of it: substituting it shows that *)
(* the properties notice.                                                   *)

Approved(u) == u.host \in ApprovedHost

\* fetchHttp: a host that is not approved fails at once.
Fetch(c, u) ==
    /\ call[c] = Idle
    /\ fetches < MaxFetches
    /\ fetches' = fetches + 1
    /\ call' = IF ~Approved(u) THEN call
               ELSE [call EXCEPT ![c] =
                        [pc |-> "consult", target |-> u, hops |-> 0, secure |-> u.secure]]
    /\ UNCHANGED <<tails, wait, cache, answered>>

\* What a call does next: it asks for a URL, on behalf of its target.
Ask(c, kind, url, redirects, delay) ==
    [pc |-> "resolve", target |-> call[c].target, hops |-> call[c].hops, secure |-> call[c].secure,
     kind |-> kind, url |-> url, redirects |-> redirects, delay |-> delay]
AskPage(c, rules) ==
    IF Allowed(rules, call[c].target.path) THEN Ask(c, "page", call[c].target, 0, CrawlDelay(rules)) ELSE Idle

\* fetchRobots: fresh rules of the origin, else its robots.txt.
ConsultRobots(c) ==
    /\ call[c].pc = "consult"
    /\ LET origin == OriginOf(call[c].target)
       IN  call' = [call EXCEPT ![c] =
              IF cache[origin].expires > 0 THEN AskPage(c, cache[origin].rules)
              ELSE Ask(c, "robots", RobotsUrl(origin), 0, 0)]
    /\ UNCHANGED <<tails, wait, cache, fetches, answered>>

\* requestOnce: the host has public addresses, and the call joins its queue; or not,
\* and the fetch fails.
Resolve(c) ==
    /\ call[c].pc = "resolve"
    /\ \/ /\ call' = [call EXCEPT ![c].pc = "turn"]
          /\ tails' = [tails EXCEPT ![call[c].url.host] = Append(@, c)]
       \/ call' = [call EXCEPT ![c] = Idle] /\ UNCHANGED tails
    /\ UNCHANGED <<wait, cache, fetches, answered>>

\* schedule: all earlier operations of the host have ended, and its time has come.
TurnAtOnce(c) == call[c].pc = "turn"
Turn(c) == call[c].pc = "turn" /\ Head(tails[call[c].url.host]) = c
Send(c) ==
    /\ Turn(c)
    /\ wait[call[c].url.host] = 0
    /\ wait' = [wait EXCEPT ![call[c].url.host] = Max({MinimumInterval, call[c].delay})]
    /\ call' = [call EXCEPT ![c].pc = "sent"]
    /\ UNCHANGED <<tails, cache, fetches, answered>>

\* However the request ends, the next in the queue has its turn.
ReleaseIf(c, ended) ==
    tails' = IF ended THEN [tails EXCEPT ![call[c].url.host] = Tail(@)] ELSE tails
Release(c, ended) == tails' = [tails EXCEPT ![call[c].url.host] = Tail(@)]

\* A redirect stays on approved hosts and does not give up encryption.
MayFollowAnywhere(from, to) == Approved(to)
MayFollow(from, to) == Approved(to) /\ (from.secure => to.secure)

\* Timeouts, oversized bodies, refusing and other statuses, types that cannot be
\* read, and for a page also success: the fetch is over.
AnswerEnd(c, succeeds) ==
    /\ call[c].pc = "sent"
    /\ succeeds => call[c].kind = "page"
    /\ Release(c, succeeds)
    /\ call' = [call EXCEPT ![c] = Idle]
    /\ UNCHANGED <<wait, cache, fetches, answered>>

AnswerRedirect(c, u) ==
    /\ call[c].pc = "sent"
    /\ Release(c, TRUE)
    /\ LET redirects == IF call[c].kind = "page" THEN call[c].hops ELSE call[c].redirects
       IN  call' = [call EXCEPT ![c] =
              IF redirects = MaximumRedirects \/ ~MayFollow(call[c].url, u) THEN Idle
              ELSE IF call[c].kind = "robots" THEN Ask(c, "robots", u, redirects + 1, 0)
              ELSE [pc |-> "consult", target |-> u, hops |-> redirects + 1,
                    secure |-> call[c].secure]]
    /\ UNCHANGED <<wait, cache, fetches, answered>>

\* The origin's rules, wherever its robots.txt was found; one that does not exist
\* allows everything.
AnswerRobots(c, content) ==
    /\ call[c].pc = "sent"
    /\ call[c].kind = "robots"
    /\ Release(c, TRUE)
    /\ LET origin == OriginOf(call[c].target)
       IN  /\ cache' = [cache EXCEPT ![origin] = [rules |-> content, expires |-> RobotsCacheTime]]
           /\ answered' = [answered EXCEPT ![origin] = @ \cup {content}]
    /\ call' = [call EXCEPT ![c] = AskPage(c, content)]
    /\ UNCHANGED <<wait, fetches>>

Tick ==
    /\ \E h \in Host : wait[h] > 0 \/ \E o \in Origin : cache[o].expires > 0
    /\ wait' = [h \in Host |-> Max({wait[h] - 1, 0})]
    /\ cache' = [o \in Origin |-> IF cache[o].expires > 1 THEN [cache[o] EXCEPT !.expires = @ - 1] ELSE NoRules]
    /\ UNCHANGED <<call, tails, fetches, answered>>

Answer(c) ==
    \/ \E succeeds \in BOOLEAN : AnswerEnd(c, succeeds)
    \/ \E u \in Url : AnswerRedirect(c, u)
    \/ \E content \in Robots : AnswerRobots(c, content)
Step(c) == ConsultRobots(c) \/ Resolve(c) \/ Send(c) \/ Answer(c)

Next ==
    \/ \E c \in Caller : Step(c) \/ \E u \in Url : Fetch(c, u)
    \/ Tick

Spec == Init /\ [][Next]_vars

\* The event loop runs what is due, requests end or time out, and timers run out.
Fairness == WF_vars(Tick) /\ \A c \in Caller : WF_vars(Step(c))
FairSpec == Spec /\ Fairness

-----------------------------------------------------------------------------
(* Properties.                                                              *)

Asking == {c \in Caller : call[c].pc \in {"resolve", "turn", "sent"}}
InFlight(h) == {c \in Asking : call[c].pc = "sent" /\ call[c].url.host = h}

\* The rules a call goes by were given by the origin they are applied to.
CacheIsAnswered == \A o \in Origin : cache[o].expires > 0 => cache[o].rules \in answered[o]

\* No redirect, cached rule or concurrent call makes the fetcher ask for a page that
\* the origin's own robots.txt did not allow, of a host that is not approved, or in
\* the clear after a secure one.
PagesArePermitted ==
    \A c \in Asking :
        /\ Approved(call[c].url)
        /\ call[c].secure => call[c].url.secure
        /\ call[c].kind = "page" =>
              \E content \in answered[OriginOf(call[c].url)] :
                  \A r \in RulesFor(content, call[c].url.path) :
                      ~r.allow => \E s \in RulesFor(content, call[c].url.path) : s.allow /\ s.length >= r.length

\* A host never has two requests of one fetcher at a time.
OneAtATime == \A h \in Host : Cardinality(InFlight(h)) <= 1

\* Those who wait are those in the queues, each in one and once; the first is served.
QueuesAreTrue ==
    \A h \in Host :
        /\ \A c \in Caller :
              (\E i \in 1..Len(tails[h]) : tails[h][i] = c)
                 <=> call[c].pc \in {"turn", "sent"} /\ call[c].url.host = h
        /\ \A i, j \in 1..Len(tails[h]) : tails[h][i] = tails[h][j] => i = j
        /\ \A c \in InFlight(h) : tails[h][1] = c

\* What a call is after stays where it began: approved, and not in the clear.
TargetsAreApproved ==
    \A c \in Caller : call[c].pc # "idle" =>
        /\ Approved(call[c].target)
        /\ call[c].secure => call[c].target.secure
        /\ call[c].pc # "consult" /\ call[c].kind = "page" => call[c].url = call[c].target

FetcherInv ==
    /\ TypeOK
    /\ PagesArePermitted
    /\ OneAtATime
    /\ QueuesAreTrue
    /\ CacheIsAnswered
    /\ TargetsAreApproved

\* Every fetch ends, whatever the hosts answer: a failed request gives its turn on,
\* and redirects of pages and of robots.txt come to an end.
FetchesEnd == \A c \in Caller : []<>(call[c] = Idle)
=============================================================================
