------------------------------ MODULE DevicePush ------------------------------
(***************************************************************************)
(* How a device of an account is turned on and off for notifications, by   *)
(* its settings page and by the panel that a follow may open (apps/web/    *)
(* components/push-permission.ts, push-enable.ts, push-permission-         *)
(* onboarding.tsx; apps/web/app/(app)/settings/settings-client.tsx).       *)
(* Permission and subscription belong to the browser, the row that makes a *)
(* subscription active to the server, and each step between them may fail, *)
(* be overtaken by another page or be left unfinished.                     *)
(***************************************************************************)
EXTENDS Integers

CONSTANTS
    MaxSubscriptions,  \* bound: subscriptions the browser creates
    MaxFailures        \* bound: steps that fail, pages left at work, permissions changed

DeviceAssumption == MaxSubscriptions \in Nat /\ MaxFailures \in Nat

VARIABLES
    permission,  \* Notification.permission
    local,       \* the browser's push subscription (0: none)
    issued,      \* subscriptions created so far
    active,      \* subscriptions whose row is not revoked
    shown,       \* what the settings page and the panel show
    work,        \* what each activity of the pages waits for
    failures,
    stored,      \* history: subscriptions the server has stored
    lapsed       \* history: how the browser's subscription came to lack an active row

browser == <<permission, local, issued>>
history == <<stored, lapsed>>
vars == <<browser, active, shown, work, failures, history>>

Page == {"settings", "panel"}
Activity == Page \cup {"follow"}
Subscription == 1..MaxSubscriptions
Way == {"refused", "abandoned", "elsewhere", "unanswered", "kept"}
None == "none"
Step == {"idle", "prompt", "prepare", "subscribe", "store", "stored", "sync", "unsubscribe",
         "revoked", "recheck"}

\* A page's activity keeps the subscription it last handed to the server; "follow" is
\* what the panel does after a follow, and keeps whether the panel may open for it.
TypeOK ==
    /\ permission \in {"default", "granted", "denied"}
    /\ local \in {0} \cup Subscription
    /\ issued \in {0} \cup Subscription
    /\ active \subseteq Subscription
    /\ shown \in [Page -> {"closed", "checking", "offer", "denied", "enabling", "subscribed",
                           "error", "permission-dismissed"}]
    /\ work \in [Activity -> [pc : Step, handled : {0} \cup Subscription, offered : BOOLEAN]]
    /\ failures \in 0..MaxFailures
    /\ stored \subseteq Subscription
    /\ lapsed \in Way \cup {None}

Nothing == [pc |-> "idle", handled |-> 0, offered |-> FALSE]

Init ==
    /\ permission = "default"
    /\ local = 0
    /\ issued = 0
    /\ active = {}
    /\ shown = [p \in Page |-> "closed"]
    /\ work = [p \in Activity |-> Nothing]
    /\ failures = 0
    /\ stored = {}
    /\ lapsed = None

-----------------------------------------------------------------------------
(* A definition that directly precedes another of the same parameters, and  *)
(* that nothing uses, is a broken variant of it: substituting it shows that *)
(* the properties notice.                                                   *)

At(p, pc) == work[p].pc = pc
Goto(p, pc) == work' = [work EXCEPT ![p].pc = pc]
Hand(p, s, pc) == work' = [work EXCEPT ![p].pc = pc, ![p].handled = s]
Show(p, what) == shown' = [shown EXCEPT ![p] = what]
EndWith(p, what) == Show(p, what) /\ Goto(p, "idle")

\* Something the page waits for fails.
Error == failures < MaxFailures /\ failures' = failures + 1
NoError == UNCHANGED failures

Lapse(way) ==
    /\ lapsed' = IF local \in {0} \cup active THEN None ELSE way
    /\ UNCHANGED <<active, stored>>
Inactive(s, way) == IF s = local THEN Lapse(way) ELSE UNCHANGED <<active, history>>
Activate(s) ==
    /\ active' = active \cup {s}
    /\ stored' = stored \cup {s}
    /\ lapsed' = IF s = local THEN None ELSE lapsed
RevokeAll(way) ==
    /\ active' = {}
    /\ lapsed' = IF local \in active THEN way ELSE lapsed
    /\ UNCHANGED stored
Drop == local' = 0 /\ lapsed' = None

\* classifyPushAvailability and classifyDevicePushState, for a browser that can.
Availability == IF permission = "denied" THEN "denied" ELSE "offer"
Classified == IF permission = "granted" /\ local # 0 THEN "subscribed" ELSE Availability

-----------------------------------------------------------------------------
(* Turning on: enablePushNotifications, from the button of either page.     *)

\* Bound: one activation of a page at a time.
Click(p) ==
    /\ At(p, "idle")
    /\ shown[p] \in {"offer", "error"} \cup (IF p = "settings" THEN {"permission-dismissed"} ELSE {})
    /\ CASE permission = "denied" -> EndWith(p, "denied")
         [] permission = "default" -> Show(p, "enabling") /\ Goto(p, "prompt")
         [] permission = "granted" -> Show(p, "enabling") /\ Goto(p, "prepare")
    /\ UNCHANGED <<browser, active, failures, history>>

\* The prompt is answered, on this page or on the other one.
Prompt(p) ==
    /\ At(p, "prompt")
    /\ permission' \in IF permission = "default" THEN {"default", "granted", "denied"} ELSE {permission}
    /\ CASE permission' = "granted" -> Goto(p, "prepare") /\ UNCHANGED shown
         [] permission' = "denied" -> EndWith(p, "denied")
         [] permission' = "default" -> EndWith(p, "permission-dismissed")
    /\ UNCHANGED <<local, issued, active, failures, history>>

\* The server's key, and the service worker.
Prepare(p) ==
    /\ At(p, "prepare")
    /\ \/ Goto(p, "subscribe") /\ NoError /\ UNCHANGED shown
       \/ EndWith(p, "error") /\ Error
    /\ UNCHANGED <<browser, active, history>>

\* The subscription the browser has, else a new one, for which permission must stand.
SubscribeReusing(p) ==
    /\ At(p, "subscribe")
    /\ IF local # 0 THEN EndWith(p, "subscribed") /\ UNCHANGED <<local, issued>>
       ELSE /\ permission = "granted" /\ issued < MaxSubscriptions
            /\ issued' = issued + 1 /\ local' = issued'
            /\ Hand(p, local', "store") /\ UNCHANGED shown
    /\ UNCHANGED <<permission, active, failures, history>>
Subscribe(p) ==
    /\ At(p, "subscribe")
    /\ IF local # 0 THEN UNCHANGED <<local, issued>>
       ELSE /\ permission = "granted" /\ issued < MaxSubscriptions
            /\ issued' = issued + 1 /\ local' = issued'
    /\ Hand(p, local', "store")
    /\ UNCHANGED <<permission, active, shown, failures, history>>
SubscribeFails(p) ==
    /\ At(p, "subscribe") /\ local = 0
    /\ \/ permission # "granted" /\ NoError
       \/ permission = "granted" /\ Error
    /\ EndWith(p, "error")
    /\ UNCHANGED <<browser, active, history>>

\* An activation always shows its outcome; the work of a follow closes the panel, or
\* opens it for a failure if it may.
Outcome(p, succeeded) ==
    /\ Goto(p, "idle")
    /\ IF p = "follow"
       THEN IF succeeded THEN Show("panel", "closed")
            ELSE IF work[p].offered THEN Show("panel", "error") ELSE UNCHANGED shown
       ELSE Show(p, IF succeeded THEN "subscribed" ELSE "error")

\* POST /api/push/subscriptions: stored, or refused for a limit, a conflict or an
\* outage, or never sent, as for a subscription that the browser cannot serialize, or
\* never arrived; and the answer to one that is stored may be lost.
Store(p) ==
    /\ At(p, "store")
    /\ \/ Activate(work[p].handled) /\ Goto(p, "stored") /\ NoError /\ UNCHANGED shown
       \/ Inactive(work[p].handled, "refused") /\ Outcome(p, FALSE) /\ Error
    /\ UNCHANGED browser
Stored(p) ==
    /\ At(p, "stored")
    /\ \/ Outcome(p, TRUE) /\ NoError
       \/ Outcome(p, FALSE) /\ Error
    /\ UNCHANGED <<browser, active, history>>

-----------------------------------------------------------------------------
(* The panel, after a follow: handleFollowSucceeded.                        *)

\* With permission, what the browser holds is handed to the server again; without, the
\* panel opens for a first follow or an installed app that has not dismissed it.
Follow ==
    /\ At("follow", "idle")
    /\ \E offered \in BOOLEAN :
          IF permission = "granted"
          THEN /\ work' = [work EXCEPT !["follow"] = [Nothing EXCEPT !.pc = "sync", !.offered = offered]]
               /\ UNCHANGED shown
          ELSE Show("panel", IF offered THEN Availability ELSE "closed") /\ UNCHANGED work
    /\ UNCHANGED <<browser, active, failures, history>>
Synchronise ==
    /\ At("follow", "sync")
    /\ IF local # 0 THEN Hand("follow", local, "store") /\ UNCHANGED shown
       ELSE Show("panel", IF work["follow"].offered THEN "offer" ELSE "closed") /\ Goto("follow", "idle")
    /\ UNCHANGED <<browser, active, failures, history>>

-----------------------------------------------------------------------------
(* The settings page.                                                       *)

Open ==
    /\ shown["settings"] = "closed"
    /\ Show("settings", "checking")
    /\ UNCHANGED <<browser, active, work, failures, history>>
Detect ==
    /\ shown["settings"] = "checking"
    /\ Show("settings", Classified)
    /\ UNCHANGED <<browser, active, work, failures, history>>

\* unsubscribe: every device on the server first, then this browser.
ClickUnsubscribe ==
    /\ At("settings", "idle") /\ shown["settings"] # "closed"
    /\ Goto("settings", "unsubscribe")
    /\ UNCHANGED <<browser, active, shown, failures, history>>
Revoke ==
    /\ At("settings", "unsubscribe")
    /\ \/ RevokeAll(None) /\ Goto("settings", "revoked") /\ NoError
       \/ Goto("settings", "idle") /\ Error /\ UNCHANGED <<active, history>>
    /\ UNCHANGED <<browser, shown>>
RevokedUnanswered ==
    /\ At("settings", "revoked")
    /\ Lapse("unanswered") /\ Goto("settings", "idle") /\ Error
    /\ UNCHANGED <<browser, shown>>
UnsubscribeBrowserOnlyServer ==
    /\ At("settings", "revoked")
    /\ Goto("settings", "recheck") /\ NoError
    /\ UNCHANGED <<browser, active, shown, history>>
UnsubscribeBrowser ==
    /\ At("settings", "revoked")
    /\ Goto("settings", "recheck")
    /\ \/ Drop /\ NoError /\ UNCHANGED <<active, stored>>
       \/ Lapse("kept") /\ Error /\ UNCHANGED local
    /\ UNCHANGED <<permission, issued, shown>>
Recheck ==
    /\ At("settings", "recheck")
    /\ work' = [work EXCEPT !["settings"] = Nothing]
    /\ Show("settings", Classified)
    /\ UNCHANGED <<browser, active, failures, history>>

-----------------------------------------------------------------------------
(* What else happens.                                                       *)

\* A page is left, or its panel dismissed: the activities end, but a request that was
\* sent may still be processed.
Leave(p, activity) ==
    /\ activity = p \/ (p = "panel" /\ activity = "follow" /\ At("panel", "idle"))
    /\ p = "panel" /\ activity = p => At("follow", "idle")
    /\ shown[p] # "closed" \/ ~At(activity, "idle")
    /\ Show(p, "closed")
    /\ work' = [work EXCEPT ![activity] = Nothing]
    /\ IF At(activity, "idle") THEN NoError ELSE Error
    /\ CASE At(activity, "store") ->
               Activate(work[activity].handled) \/ Inactive(work[activity].handled, "abandoned")
         [] At(activity, "unsubscribe") -> RevokeAll("abandoned") \/ UNCHANGED <<active, history>>
         [] At(activity, "revoked") -> Lapse("abandoned")
         [] OTHER -> UNCHANGED <<active, history>>
    /\ UNCHANGED browser

\* The user changes the permission in the browser, whose subscription may survive it.
SetPermission ==
    /\ permission # "default"
    /\ permission' \in {"default", "granted", "denied"} \ {permission}
    /\ Drop \/ UNCHANGED <<local, lapsed>>
    /\ Error
    /\ UNCHANGED <<issued, active, shown, work, stored>>

\* The settings page of another device of the account ends every subscription.
UnsubscribeElsewhere ==
    /\ active # {}
    /\ RevokeAll("elsewhere")
    /\ UNCHANGED <<browser, shown, work, failures>>

\* A delivery finds that the push service no longer knows the subscription.
CleanUp(s) ==
    /\ s \in active \ {local}
    /\ active' = active \ {s}
    /\ UNCHANGED <<browser, shown, work, failures, history>>

-----------------------------------------------------------------------------
Activation(p) ==
    \/ Prepare(p) \/ Subscribe(p) \/ SubscribeFails(p) \/ Click(p) \/ Prompt(p)
Settings ==
    \/ Open \/ Detect
    \/ ClickUnsubscribe \/ Revoke \/ RevokedUnanswered \/ UnsubscribeBrowser \/ Recheck
Next ==
    \/ \E p \in Page : Activation(p)
    \/ \E p \in Activity : Store(p) \/ Stored(p)
    \/ Follow \/ Synchronise
    \/ Settings
    \/ \E p \in Page, activity \in Activity : Leave(p, activity)
    \/ SetPermission \/ UnsubscribeElsewhere
    \/ \E s \in Subscription : CleanUp(s)

Spec == Init /\ [][Next]_vars

-----------------------------------------------------------------------------
(* Properties.                                                              *)

\* A page that turned its device on says so only if the server stored the subscription
\* the browser gave it, whatever was refused, lost or revoked before.
EnabledIsStored ==
    \A p \in Page :
        shown[p] = "subscribed" /\ work[p].handled # 0 => work[p].handled \in stored

\* What the browser holds is active on the server, or is about to be, or its row went
\* in one of five ways: the request was refused or abandoned, another device ended
\* all, or this one did and the answer was lost or the browser kept it.
InactiveIsKnown ==
    \/ local \in {0} \cup active
    \/ lapsed # None
    \/ \E p \in DOMAIN work : At(p, "store") /\ work[p].handled = local
    \/ At("settings", "revoked")

\* What is handed to the server is a subscription, and stored before its answer.
HandedIsStored ==
    \A a \in Activity :
        /\ At(a, "store") => work[a].handled # 0
        /\ At(a, "stored") => work[a].handled \in stored

\* A page that turns its device on does not say that it is on, and a settings page that
\* was just opened has handed nothing.
Enabling == {"prompt", "prepare", "subscribe", "store", "stored"}
EnablingIsShown ==
    /\ \A p \in Page : work[p].pc \in Enabling => shown[p] # "subscribed"
    /\ shown["settings"] \in {"closed", "checking"} =>
          work["settings"].pc \notin Enabling /\ work["settings"].handled = 0

DeviceInv == TypeOK /\ EnabledIsStored /\ InactiveIsKnown /\ HandedIsStored /\ EnablingIsShown

\* A settings page that finds its device on, "Athenvia can send reminders to this
\* browser" (settings/push-device.ts), finds a subscription that is active, or one that
\* a page is still at work on.
SubscribedIsCovered ==
    [][shown["settings"] = "checking" /\ shown'["settings"] = "subscribed" =>
          local \in active \/ \E a \in Activity : ~At(a, "idle")]_vars
=============================================================================
