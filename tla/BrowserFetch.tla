----------------------------- MODULE BrowserFetch -----------------------------
(***************************************************************************)
(* How a page is rendered by a browser when its source asks for it          *)
(* (apps/worker/src/fetch/playwright.ts): the browser, its context and its  *)
(* page are opened one after the other while every request of the page is   *)
(* vetted, a deadline races it all, and whatever was opened is closed.      *)
(* OfficialFetcher has the robots rules and the limiter that the vetting    *)
(* uses.                                                                    *)
(***************************************************************************)
EXTENDS Integers, FiniteSets

CONSTANTS
    Request,            \* bound: requests the page makes
    MaximumRequests, MaximumRedirects, MaximumPages,
    MaxOpened           \* bound: pages opened

BrowserAssumption ==
    /\ MaximumRequests \in Nat \ {0}
    /\ MaximumRedirects \in Nat
    /\ MaximumPages \in Nat \ {0}
    /\ MaxOpened \in Nat
    /\ IsFiniteSet(Request)

VARIABLES
    operation,   \* the awaited step of the retrieval
    browser, context, page,   \* "none", "open" or "closed"
    timedOut,
    outcome,     \* of the race: "running", "result" or "failed"
    cleanup,     \* what the finally block closes next
    route,       \* the requests and how far they are vetted
    counted,     \* requestCount, redirectCount and openedPages
    intercepted, \* whether an interceptionError is on record
    late         \* history: it came after the last look at it

vars == <<operation, browser, context, page, timedOut, outcome, cleanup, route, counted, intercepted, late>>
resources == <<browser, context, page>>

Kind == {"navigation", "redirect", "subresource"}
TypeOK ==
    /\ operation \in {"launch", "context", "page", "goto", "settle", "content", "result", "failed"}
    /\ {browser, context, page} \subseteq {"none", "open", "closed"}
    /\ timedOut \in BOOLEAN
    /\ outcome \in {"running", "result", "failed"}
    /\ cleanup \in {"none", "page", "context", "browser", "done"}
    /\ route \in [Request -> [kind : Kind, pc : {"none", "target", "robots", "continued", "aborted"}]]
    /\ counted \in [requests : Nat, redirects : Nat, pages : Nat]
    /\ intercepted \in BOOLEAN
    /\ late \in BOOLEAN

Init ==
    /\ operation = "launch"
    /\ browser = "none" /\ context = "none" /\ page = "none"
    /\ timedOut = FALSE
    /\ outcome = "running"
    /\ cleanup = "none"
    /\ route \in [Request -> [kind : Kind, pc : {"none"}]]
    /\ counted = [requests |-> 0, redirects |-> 0, pages |-> 0]
    /\ intercepted = FALSE
    /\ late = FALSE

-----------------------------------------------------------------------------
(* The retrieval.  A definition that directly precedes another of the same  *)
(* parameters, and that nothing uses, is a broken variant of it:            *)
(* substituting it shows that the properties notice.                        *)

Fails == operation' = "failed"
CloseIfOpen(resource) == IF resource = "open" THEN "closed" ELSE resource
watched == <<route, intercepted, late>>

\* A browser that is launched after the deadline is closed by the retrieval itself,
\* for the finally block did not see it.
LaunchedUnchecked == operation' = "context" /\ browser' = "open"
Launched ==
    IF timedOut THEN Fails /\ browser' = "closed"
    ELSE operation' = "context" /\ browser' = "open"
Launch ==
    /\ operation = "launch"
    /\ Launched \/ (Fails /\ UNCHANGED browser)
    /\ UNCHANGED <<context, page, timedOut, outcome, cleanup, counted, watched>>

NewContext ==
    /\ operation = "context"
    /\ \/ /\ browser = "open"
          /\ IF timedOut THEN Fails /\ context' = "closed" /\ browser' = "closed"
             ELSE operation' = "page" /\ context' = "open" /\ UNCHANGED browser
       \/ Fails /\ UNCHANGED <<browser, context>>
    /\ UNCHANGED <<page, timedOut, outcome, cleanup, counted, watched>>

NewPage ==
    /\ operation = "page"
    /\ \/ /\ context = "open"
          /\ operation' = "goto"
          /\ page' = "open"
          /\ counted' = [counted EXCEPT !.pages = @ + 1]
       \/ Fails /\ UNCHANGED <<page, counted>>
    /\ UNCHANGED <<browser, context, timedOut, outcome, cleanup, watched>>

\* goto ends once its navigation was let through; if it does not, or anything was
\* intercepted, the retrieval fails.
Goto ==
    /\ operation = "goto"
    /\ \/ /\ page = "open" /\ ~intercepted
          /\ \E r \in Request : route[r].pc = "continued" /\ route[r].kind # "subresource"
          /\ operation' = "settle"
       \/ Fails
    /\ UNCHANGED <<resources, timedOut, outcome, cleanup, counted, watched>>

\* The network is idle, or is no longer waited for; the status and the type are fine.
SettledUnchecked == TRUE
Settled == ~intercepted
Settle ==
    /\ operation = "settle"
    /\ (Settled /\ operation' = "content") \/ Fails
    /\ UNCHANGED <<resources, timedOut, outcome, cleanup, counted, watched>>

ReadContent ==
    /\ operation = "content"
    /\ (page = "open" /\ operation' = "result") \/ Fails
    /\ UNCHANGED <<resources, timedOut, outcome, cleanup, counted, watched>>

-----------------------------------------------------------------------------
(* The deadline, and the end of the race.                                   *)

Deadline ==
    /\ outcome = "running"
    /\ operation \notin {"result", "failed"}
    /\ timedOut' = TRUE
    /\ outcome' = "failed"
    /\ cleanup' = "page"
    /\ UNCHANGED <<operation, resources, counted, watched>>

End ==
    /\ outcome = "running"
    /\ operation \in {"result", "failed"}
    /\ outcome' = operation
    /\ cleanup' = "page"
    /\ UNCHANGED <<operation, resources, timedOut, counted, watched>>

\* The finally block closes what it finds when it gets there; a context takes its
\* pages with it, and the browser everything.
Cleanup ==
    /\ cleanup \in {"page", "context", "browser"}
    /\ cleanup' = CASE cleanup = "page" -> "context" [] cleanup = "context" -> "browser"
                    [] cleanup = "browser" -> "done"
    /\ page' = CloseIfOpen(page)
    /\ context' = IF cleanup # "page" THEN CloseIfOpen(context) ELSE context
    /\ browser' = IF cleanup = "browser" THEN CloseIfOpen(browser) ELSE browser
    /\ UNCHANGED <<operation, timedOut, outcome, counted, watched>>

-----------------------------------------------------------------------------
(* What the page does meanwhile.                                            *)

Alive == page = "open" /\ operation \in {"goto", "settle", "content"}
\* interceptionError is set once; the retrieval last looks at it before the content.
Intercept ==
    /\ intercepted' = TRUE
    /\ late' = (late \/ (~intercepted /\ operation \in {"content", "result"}))
NoIntercept == UNCHANGED <<intercepted, late>>
asynchronous == <<operation, browser, context, timedOut, outcome, cleanup>>

OpenPage ==
    /\ Alive
    /\ counted.pages < MaxOpened
    /\ counted' = [counted EXCEPT !.pages = @ + 1]
    /\ IF counted.pages >= MaximumPages THEN Intercept ELSE NoIntercept
    /\ UNCHANGED <<asynchronous, page, route>>

\* More bytes than allowed: the page is closed.
ExceedBytes ==
    /\ Alive
    /\ page' = "closed"
    /\ Intercept
    /\ UNCHANGED <<asynchronous, route, counted>>

MoveRoute(r, pc) == route' = [route EXCEPT ![r].pc = pc]

\* A handler begins by counting its request; images and the like are aborted.
BeginRoute(r) ==
    /\ Alive
    /\ route[r].pc = "none"
    /\ counted' = [counted EXCEPT !.requests = @ + 1]
    /\ IF counted.requests >= MaximumRequests THEN MoveRoute(r, "aborted") /\ Intercept
       ELSE /\ NoIntercept
            /\ MoveRoute(r, "target") \/ (route[r].kind = "subresource" /\ MoveRoute(r, "aborted"))
    /\ UNCHANGED <<asynchronous, page>>

\* An approved host, with public addresses; then navigations of the main frame, which
\* are counted if they are redirects, and need the robots rules' consent.
CountsRedirectUnbounded(r) == TRUE
CountsRedirect(r) == counted.redirects < MaximumRedirects
VetTarget(r) ==
    /\ route[r].pc = "target"
    /\ \/ /\ MoveRoute(r, "aborted")
          /\ IF route[r].kind = "subresource" THEN NoIntercept ELSE Intercept
          /\ UNCHANGED counted
       \/ route[r].kind = "subresource" /\ MoveRoute(r, "continued") /\ NoIntercept /\ UNCHANGED counted
       \/ route[r].kind = "navigation" /\ NoIntercept /\ UNCHANGED counted
          /\ (MoveRoute(r, "robots") \/ MoveRoute(r, "aborted"))
       \/ /\ route[r].kind = "redirect"
          /\ counted' = [counted EXCEPT !.redirects = @ + 1]
          /\ IF CountsRedirect(r) THEN MoveRoute(r, "robots") /\ NoIntercept
             ELSE MoveRoute(r, "aborted") /\ Intercept
    /\ UNCHANGED <<asynchronous, page>>

\* The robots rules are fetched, and the host's turn awaited.
VetRobots(r) ==
    /\ route[r].pc = "robots"
    /\ \/ MoveRoute(r, "aborted") /\ Intercept
       \/ page = "open" /\ MoveRoute(r, "continued") /\ NoIntercept
    /\ UNCHANGED <<asynchronous, page, counted>>

Retrieve == Launch \/ NewContext \/ NewPage \/ Goto \/ Settle \/ ReadContent
Next ==
    \/ Launch \/ NewContext \/ NewPage \/ Goto \/ Settle \/ ReadContent
    \/ Deadline \/ End \/ Cleanup
    \/ OpenPage \/ ExceedBytes
    \/ \E r \in Request : BeginRoute(r) \/ VetTarget(r) \/ VetRobots(r)

Spec == Init /\ [][Next]_vars

\* Each step of the retrieval has a time limit of its own, and the event loop runs
\* the rest.
Fairness == WF_vars(Retrieve) /\ WF_vars(End) /\ WF_vars(Cleanup)
FairSpec == Spec /\ Fairness

-----------------------------------------------------------------------------
(* Properties.                                                              *)

Continued(kinds) == {r \in Request : route[r].pc = "continued" /\ route[r].kind \in kinds}

\* However many handlers run at once, no more requests and redirects are let through
\* than allowed.
LimitsHold ==
    /\ Cardinality(Continued(Kind)) <= MaximumRequests
    /\ Cardinality(Continued({"redirect"})) <= MaximumRedirects

\* A page whose requests were intercepted is never returned, unless that happened
\* while its content was being read.
ResultIsClean == outcome = "result" => ~intercepted \/ late

\* An open page or context belongs to an open browser.
Nested == (page = "open" => context = "open") /\ (context = "open" => browser = "open")

\* Requests and redirects are counted before they are let through.
LetThrough == {r \in Request : route[r].pc \in {"target", "robots", "continued"}}
Redirected == {r \in Request : route[r].kind = "redirect" /\ route[r].pc \in {"robots", "continued"}}
CountsAreTrue ==
    /\ Cardinality(LetThrough) <= counted.requests
    /\ Cardinality(LetThrough) <= MaximumRequests
    /\ Cardinality(Redirected) <= counted.redirects
    /\ Cardinality(Redirected) <= MaximumRedirects

\* The content is read of a page without interceptions, and what opens next is not open.
StepsAreOrdered ==
    /\ operation \in {"content", "result"} => ~intercepted \/ late
    /\ outcome = "result" => operation = "result"
    /\ operation = "launch" => browser = "none"
    /\ operation \in {"launch", "context"} => context = "none"
    /\ operation \in {"launch", "context", "page"} => page = "none"

BrowserInv ==
    TypeOK /\ LimitsHold /\ ResultIsClean /\ Nested /\ CountsAreTrue /\ StepsAreOrdered

\* Whenever the deadline strikes, a browser is not left running: not one that
\* launches after everything was cleaned up, either.
BrowserIsClosed == <>[](browser # "open")
=============================================================================
