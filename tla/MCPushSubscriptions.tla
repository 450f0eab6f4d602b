-------------------------- MODULE MCPushSubscriptions --------------------------
(***************************************************************************)
(* An instance of the user's side of notifications, one part in each        *)
(* behaviour: the subscriptions of an account on the server                 *)
(* (PushSubscriptions, with interchangeable users, browsers and requests),  *)
(* a device that is turned on and off (DevicePush), the settings pages      *)
(* (NotificationSettings), the worker across deployments (ServiceWorker).   *)
(***************************************************************************)
EXTENDS PushSubscriptions, TLC

CONSTANTS
    MaxSubscriptions, MaxFailures,
    Watchlist, Choice, Control, SettingsPage, MaxWrites,
    Tab, MaxVersions

VARIABLES
    stage,  \* the part that runs
    permission, local, issued, active, shown, work, failures, taken, lapsed,
    followed, preference, page, writes, changed, since, saved, late,
    deployed, installing, doomed, waiting, current, activating, skip, latest, shell, tab, missed,
    failed, swept, unheard

D == INSTANCE DevicePush WITH stored <- taken
S == INSTANCE NotificationSettings WITH Page <- SettingsPage
W == INSTANCE ServiceWorker WITH active <- current, failures <- failed

ASSUME PartsAssumption == D!DeviceAssumption /\ S!SettingsAssumption /\ W!WorkerAssumption

device == <<permission, local, issued, active, shown, work, failures, taken, lapsed>>
settings == <<followed, preference, page, writes, changed, since, saved, late>>
worker == <<deployed, installing, doomed, waiting, current, activating, skip, latest, shell, tab,
            missed, failed, swept, unheard>>
all == <<stage, vars, device, settings, worker>>

\* A part that does not run has no state.
NoDevice ==
    /\ permission = 0 /\ local = 0 /\ issued = 0 /\ active = 0 /\ shown = 0 /\ work = 0
    /\ failures = 0 /\ taken = 0 /\ lapsed = 0
NoSettings ==
    /\ followed = 0 /\ preference = 0 /\ page = 0 /\ writes = 0 /\ changed = 0
    /\ since = 0 /\ saved = 0 /\ late = 0
NoWorker ==
    /\ deployed = 0 /\ installing = 0 /\ doomed = 0 /\ waiting = 0 /\ current = 0
    /\ activating = 0 /\ skip = 0 /\ latest = 0 /\ shell = 0 /\ tab = 0 /\ missed = 0
    /\ failed = 0 /\ swept = 0 /\ unheard = 0

PartInit ==
    /\ Init
    /\ \/ stage = "push" /\ NoDevice /\ NoSettings /\ NoWorker
       \/ stage = "device" /\ D!Init /\ NoSettings /\ NoWorker
       \/ stage = "settings" /\ NoDevice /\ S!Init /\ NoWorker
       \/ stage = "worker" /\ NoDevice /\ NoSettings /\ W!Init

Pushing == stage = "push" /\ UNCHANGED <<stage, device, settings, worker>>
OnDevice == stage = "device" /\ UNCHANGED <<stage, vars, settings, worker>>
InSettings == stage = "settings" /\ UNCHANGED <<stage, vars, device, worker>>
OfWorker == stage = "worker" /\ UNCHANGED <<stage, vars, device, settings>>

\* Bound: deliveries list one user's endpoints at a time.
NobodyListed == \A u \in User : delivery[u].pc = "idle"

PartNext ==
    \/ \E b \in Browser, u \in User : Pushing /\ SignIn(b, u)
    \/ \E b \in Browser, q \in Request : Pushing /\ Post(b, q)
    \/ \E b \in Browser : Pushing /\ (SignOut(b) \/ Subscribe(b) \/ Expire(b))
    \/ \E q \in Request : Pushing /\ (StoreStep(q) \/ Abort(q))
    \/ \E u \in User, e \in Endpoint : Pushing /\ RevokePushSubscription(u, e)
    \/ \E u \in User : Pushing /\ (UnsubscribeFromNotifications(u) \/ AnonymizeAccount(u))
    \/ \E u \in User : Pushing /\ NobodyListed /\ ListActivePushSubscriptions(u)
    \/ \E u \in User : Pushing /\ (Send(u) \/ RevokeInvalidPushSubscriptions(u))
    \/ \E p \in D!Page : OnDevice /\ (D!Click(p) \/ D!Prompt(p) \/ D!Prepare(p))
    \/ \E p \in D!Page : OnDevice /\ (D!Subscribe(p) \/ D!SubscribeFails(p))
    \/ \E p \in D!Activity : OnDevice /\ (D!Store(p) \/ D!Stored(p))
    \/ OnDevice /\ (D!Follow \/ D!Synchronise)
    \/ OnDevice /\ (D!Open \/ D!Detect \/ D!ClickUnsubscribe \/ D!Recheck)
    \/ OnDevice /\ (D!Revoke \/ D!RevokedUnanswered \/ D!UnsubscribeBrowser)
    \/ \E p \in D!Page, activity \in D!Activity : OnDevice /\ D!Leave(p, activity)
    \/ OnDevice /\ (D!SetPermission \/ D!UnsubscribeElsewhere)
    \/ \E s \in D!Subscription : OnDevice /\ D!CleanUp(s)
    \/ \E p \in SettingsPage : InSettings /\ (S!Open(p) \/ S!Load(p) \/ S!Deliver(p))
    \/ \E p \in SettingsPage : InSettings /\ (S!Fail(p) \/ S!Leave(p))
    \/ \E p \in SettingsPage : InSettings /\ (S!FindWatchlists(p) \/ S!WritePreferences(p))
    \/ \E p \in SettingsPage, control \in Control : InSettings /\ S!Toggle(p, control)
    \/ \E w \in Watchlist : InSettings /\ (S!Follow(w) \/ S!Unfollow(w))
    \/ OfWorker /\ W!Deploy
    \/ \E t \in Tab : OfWorker /\ (W!Load(t) \/ W!Close(t) \/ W!Register(t) \/ W!Update(t))
    \/ \E t \in Tab : OfWorker /\ (W!ApplyUpdate(t) \/ W!Navigate(t))
    \/ OfWorker /\ (W!Install \/ W!InstallFails)
    \/ OfWorker /\ (W!Activate \/ W!OnActivate)

PartSpec == PartInit /\ [][PartNext]_all

Symmetry == Permutations(User) \cup Permutations(Browser) \cup Permutations(Request)

-----------------------------------------------------------------------------
(* The properties of the other parts, where they are what runs.             *)

\* DevicePush: a device that is on was stored, and one that is not is accounted for.
DeviceInv == stage = "device" => D!DeviceInv
\* NotificationSettings: pages are honest, and what was saved stays.
SettingsInv == stage = "settings" => S!SettingsInv
\* NotificationSettings: a save changes what was toggled and what its page had stale.
OnlyTheToggledChanges == [][stage = "settings" => S!SaveChangesTheToggled]_all
\* ServiceWorker: the active worker is usable, and one that waits is offered.
WorkerInv == stage = "worker" => W!WorkerInv
=============================================================================
