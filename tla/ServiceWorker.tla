---------------------------- MODULE ServiceWorker ----------------------------
(***************************************************************************)
(* The service worker of the web application across deployments (apps/web/ *)
(* public/sw.js, apps/web/components/service-worker-registration.tsx): the *)
(* tabs that register it, its install, the caches its activation deletes,  *)
(* and the update a tab offers.  What the browser does by itself (one      *)
(* installing and one waiting worker, who is controlled) is the platform's.*)
(***************************************************************************)
EXTENDS Integers

CONSTANTS
    Tab,
    MaxVersions,  \* bound: deployments
    MaxFailures   \* bound: installs that fail

WorkerAssumption == MaxVersions \in Nat \ {0} /\ MaxFailures \in Nat

VARIABLES
    deployed,    \* the version the server serves
    installing,  \* the worker's version that installs, waits and is active (0: none)
    waiting,
    active,
    activating,  \* whether the active worker still handles its activate event
    doomed,      \* whether the cache the installing worker fills was deleted
    skip,        \* whether the waiting worker was told to skip waiting
    latest,      \* versions whose newest worker has the sw.js that the server has now
    shell,       \* per version, its shell cache
    tab,
    missed,      \* tabs that registered while the installing worker was installing already
    failures,
    swept,       \* history: versions whose caches were deleted before they were active
    unheard      \* history: tabs to which the waiting worker was not announced

registration == <<installing, doomed, waiting, active, activating, skip, latest>>
history == <<swept, unheard>>
vars == <<deployed, registration, shell, tab, missed, failures, history>>

Version == 1..MaxVersions
NoWorker == 0

TypeOK ==
    /\ deployed \in Version
    /\ {installing, waiting, active} \subseteq {NoWorker} \cup Version
    /\ {activating, doomed, skip} \subseteq BOOLEAN
    /\ latest \subseteq Version
    /\ shell \in [Version -> {"absent", "empty", "complete"}]
    /\ tab \in [Tab -> [version : {0} \cup Version, registered : BOOLEAN, controlled : BOOLEAN,
                        prompt : {NoWorker} \cup Version, asked : BOOLEAN]]
    /\ missed \subseteq Tab
    /\ failures \in 0..MaxFailures
    /\ swept \subseteq Version
    /\ unheard \subseteq Tab

Closed == [version |-> 0, registered |-> FALSE, controlled |-> FALSE, prompt |-> NoWorker,
           asked |-> FALSE]
IsOpen(t) == tab[t].version # 0
Loaded == [Closed EXCEPT !.version = deployed, !.controlled = active # NoWorker]

Init ==
    /\ deployed = 1
    /\ installing = NoWorker /\ waiting = NoWorker /\ active = NoWorker
    /\ activating = FALSE /\ doomed = FALSE /\ skip = FALSE
    /\ latest = {}
    /\ shell = [v \in Version |-> "absent"]
    /\ tab = [t \in Tab |-> Closed]
    /\ missed = {} /\ failures = 0
    /\ swept = {} /\ unheard = {}

-----------------------------------------------------------------------------
(* A definition that directly precedes another of the same parameters, and  *)
(* that nothing uses, is a broken variant of it: substituting it shows that *)
(* the properties notice.                                                   *)

Deploy ==
    /\ deployed < MaxVersions
    /\ deployed' = deployed + 1
    /\ latest' = {}
    /\ UNCHANGED <<installing, doomed, waiting, active, activating, skip, shell, tab, missed,
                   failures, history>>

Load(t) ==
    /\ ~IsOpen(t)
    /\ tab' = [tab EXCEPT ![t] = Loaded]
    /\ UNCHANGED <<deployed, registration, shell, missed, failures, history>>
Close(t) ==
    /\ IsOpen(t)
    /\ tab' = [tab EXCEPT ![t] = Closed]
    /\ missed' = missed \ {t} /\ unheard' = unheard \ {t}
    /\ UNCHANGED <<deployed, registration, shell, failures, swept>>

\* A worker starts to install, once no other install is under way, from the script that
\* the server has now, and opens the caches of its version.
Newest == IF installing # NoWorker THEN installing ELSE IF waiting # NoWorker THEN waiting ELSE active
Installs(v) ==
    /\ installing = NoWorker
    /\ installing' = v /\ doomed' = FALSE
    /\ latest' = latest \cup {v}
    /\ shell' = [shell EXCEPT ![v] = IF @ = "absent" THEN "empty" ELSE @]

\* register: a version the newest worker does not have is installed; the tab shows a
\* worker that waits already, and from now on hears of those that begin to install.
RegisterOnlyListening(t) ==
    /\ IsOpen(t) /\ ~tab[t].registered
    /\ \/ tab[t].version = Newest /\ UNCHANGED <<installing, doomed, latest, shell>>
       \/ tab[t].version # Newest /\ Installs(tab[t].version)
    /\ missed' = {u \in missed \cup {t} : installing # NoWorker}
    /\ unheard' = unheard \ {t}
    /\ tab' = [tab EXCEPT ![t].registered = TRUE]
    /\ UNCHANGED <<deployed, waiting, active, activating, skip, failures, swept>>
Register(t) ==
    /\ IsOpen(t) /\ ~tab[t].registered
    /\ \/ tab[t].version = Newest /\ UNCHANGED <<installing, doomed, latest, shell>>
       \/ tab[t].version # Newest /\ Installs(tab[t].version)
    /\ missed' = {u \in missed \cup {t} : installing # NoWorker}
    /\ unheard' = unheard \ {t}
    /\ tab' = [tab EXCEPT ![t].registered = TRUE, ![t].prompt = waiting]
    /\ UNCHANGED <<deployed, waiting, active, activating, skip, failures, swept>>

\* checkForUpdate, when the tab is shown or every hour: the newest worker's own URL is
\* fetched again, and another script than it runs is installed, under the same version.
Update(t) ==
    /\ IsOpen(t) /\ tab[t].registered
    /\ Newest # NoWorker /\ Newest \notin latest
    /\ Installs(Newest)
    /\ UNCHANGED <<deployed, waiting, active, activating, skip, tab, missed, failures, history>>

\* cacheShell: every critical resource is stored, in the cache that was opened even if
\* it was deleted since, or the install fails and leaves the cache.
InstallWithWhatArrives ==
    /\ installing # NoWorker
    /\ shell' \in {shell, [shell EXCEPT ![installing] = "complete"]}
    /\ swept' = IF doomed THEN swept \cup {installing} ELSE swept \ {installing}
    /\ waiting' = installing /\ installing' = NoWorker /\ skip' = FALSE
    /\ missed' = {} /\ unheard' = {}
    /\ tab' = [t \in Tab |-> IF tab[t].registered THEN [tab[t] EXCEPT !.prompt = installing] ELSE tab[t]]
    /\ UNCHANGED <<deployed, doomed, active, activating, latest, failures>>
Install ==
    /\ installing # NoWorker
    /\ shell' = [shell EXCEPT ![installing] = IF doomed THEN @ ELSE "complete"]
    /\ swept' = IF doomed THEN swept \cup {installing} ELSE swept \ {installing}
    /\ waiting' = installing /\ installing' = NoWorker /\ skip' = FALSE
    /\ LET heard == {t \in Tab \ missed : tab[t].registered /\ tab[t].controlled} IN
          /\ tab' = [t \in Tab |-> IF t \in heard THEN [tab[t] EXCEPT !.prompt = installing] ELSE tab[t]]
          /\ unheard' = {t \in Tab : tab[t].registered} \ heard
    /\ missed' = {}
    /\ UNCHANGED <<deployed, doomed, active, activating, latest, failures>>
InstallFails ==
    /\ installing # NoWorker
    /\ failures < MaxFailures /\ failures' = failures + 1
    /\ installing' = NoWorker
    /\ latest' = latest \ {installing}
    /\ missed' = {}
    /\ UNCHANGED <<deployed, doomed, waiting, active, activating, skip, shell, tab, history>>

\* applyUpdate: the worker the tab offers is told to skip waiting, which one that was
\* replaced or is active ignores; workers of one version are not told apart.
ApplyUpdate(t) ==
    /\ tab[t].prompt # NoWorker
    /\ tab' = [tab EXCEPT ![t].asked = TRUE]
    /\ skip' = (skip \/ tab[t].prompt = waiting)
    /\ UNCHANGED <<deployed, installing, doomed, waiting, active, activating, latest, shell, missed,
                   failures, history>>

\* A tab whose controller changes reloads if its user asked for the update.
Controlled(t) == IF tab[t].asked THEN [Closed EXCEPT !.version = deployed, !.controlled = TRUE]
                 ELSE [tab[t] EXCEPT !.controlled = TRUE]
Activate ==
    /\ waiting # NoWorker /\ ~activating
    /\ active = NoWorker \/ skip \/ \A t \in Tab : ~tab[t].controlled
    /\ active' = waiting /\ waiting' = NoWorker /\ activating' = TRUE /\ skip' = FALSE
    /\ tab' = [t \in Tab |-> IF tab[t].controlled THEN Controlled(t) ELSE tab[t]]
    /\ unheard' = {}
    /\ UNCHANGED <<deployed, installing, doomed, latest, shell, missed, failures, swept>>

\* The activate event: the caches of every other version are deleted, and the tabs
\* that are not controlled yet are claimed.
OnActivateKeepingNone ==
    /\ activating /\ activating' = FALSE
    /\ shell' = [v \in Version |-> "absent"]
    /\ doomed' = (doomed \/ installing # active)
    /\ swept' = swept \cup ({waiting} \ {NoWorker, active})
    /\ tab' = [t \in Tab |-> IF IsOpen(t) /\ ~tab[t].controlled THEN Controlled(t) ELSE tab[t]]
    /\ UNCHANGED <<deployed, installing, waiting, active, skip, latest, missed, failures, unheard>>
OnActivate ==
    /\ activating /\ activating' = FALSE
    /\ shell' = [v \in Version |-> IF v = active THEN shell[v] ELSE "absent"]
    /\ doomed' = (doomed \/ installing # active)
    /\ swept' = swept \cup ({waiting} \ {NoWorker, active})
    /\ tab' = [t \in Tab |-> IF IsOpen(t) /\ ~tab[t].controlled THEN Controlled(t) ELSE tab[t]]
    /\ UNCHANGED <<deployed, installing, waiting, active, skip, latest, missed, failures, unheard>>

\* networkFirstPage: a navigation opens the caches of the worker that handles it.
Navigate(t) ==
    /\ tab[t].controlled /\ ~activating
    /\ shell' = [shell EXCEPT ![active] = IF @ = "absent" THEN "empty" ELSE @]
    /\ tab' = [tab EXCEPT ![t] = Loaded]
    /\ missed' = missed \ {t} /\ unheard' = unheard \ {t}
    /\ UNCHANGED <<deployed, registration, failures, swept>>

Next ==
    \/ Deploy
    \/ \E t \in Tab : Load(t) \/ Close(t) \/ Register(t) \/ Update(t) \/ ApplyUpdate(t) \/ Navigate(t)
    \/ Install \/ InstallFails \/ Activate \/ OnActivate

Spec == Init /\ [][Next]_vars

-----------------------------------------------------------------------------
(* Properties.                                                              *)

\* An active worker has the offline page that its install had to store, unless the
\* activation of another version deleted its caches before it was active.
IsUsable(v) == v = NoWorker \/ shell[v] = "complete" \/ v \in swept
ActiveIsUsable == IsUsable(active)
WaitingIsUsable == IsUsable(waiting)

\* A worker that waits is offered by every tab that registered, unless the tab was not
\* controlled, or registered while it was installing and so heard neither of its
\* beginning nor of its end.
WaitingIsOffered ==
    \A t \in Tab : waiting # NoWorker /\ tab[t].registered => tab[t].prompt = waiting \/ t \in unheard

WorkerInv == TypeOK /\ ActiveIsUsable /\ WaitingIsUsable /\ WaitingIsOffered
=============================================================================
