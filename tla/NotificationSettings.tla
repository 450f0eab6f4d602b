------------------------- MODULE NotificationSettings -------------------------
(***************************************************************************)
(* The notification preferences of an account and the settings pages that  *)
(* edit them (apps/web/app/(app)/settings/settings-client.tsx; apps/web/   *)
(* app/api/settings/services.ts, notifications/route.ts; packages/database *)
(* /src/watchlists.ts).  The server keeps one preference per followed      *)
(* program; a page shows what they have in common, shows a change before   *)
(* it is saved, and saves all of what it shows.                            *)
(***************************************************************************)
EXTENDS Integers, FiniteSets

CONSTANTS
    Watchlist,  \* the programs the user may follow
    Choice,     \* what a preference turns on: alerts and reminder days
    Control,    \* per switch or box of a settings page, the choices it turns on and off
    Page,       \* settings pages the user may have open
    MaxWrites   \* bound: saves, follows and unfollows that commit

SettingsAssumption ==
    IsFiniteSet(Watchlist) /\ IsFiniteSet(Choice) /\ Control \subseteq SUBSET Choice /\ MaxWrites \in Nat

VARIABLES
    followed,    \* the user's watchlists
    preference,  \* per watchlist, its preference: at most one set of choices turned on
    page,        \* per page, what it shows and what it waits for
    writes,
    changed,     \* history: per page, what was changed since the server read what the page
                 \* shows or, during a save, showed
    since,       \* history: per page that is being answered, what was changed since the
                 \* server read the answer
    saved,       \* history: what the last save wrote
    late         \* history: watchlists followed after the last save

history == <<changed, since, saved, late>>
vars == <<followed, preference, page, writes, history>>

Default == Choice
Value == SUBSET Choice

\* What a page shows: its choices, and how many programs they are for.
Item == Choice \cup {"programs"}

Shown == [choices : Value, tracked : 0..Cardinality(Watchlist)]
NoShown == [choices |-> {}, tracked |-> 0]
Step == {"closed", "loading", "idle", "sent", "found", "committed", "answered"}

TypeOK ==
    /\ followed \subseteq Watchlist
    /\ preference \in [Watchlist -> SUBSET Value]
    /\ \A w \in Watchlist : Cardinality(preference[w]) <= IF w \in followed THEN 1 ELSE 0
    /\ page \in [Page -> [pc : Step, shown : Shown, previous : Shown, answer : Shown,
                          ids : SUBSET Watchlist]]
    /\ writes \in 0..MaxWrites
    /\ changed \in [Page -> SUBSET Item]
    /\ since \in [Page -> SUBSET Item]
    /\ saved \subseteq Value
    /\ late \subseteq followed

Closed == [pc |-> "closed", shown |-> NoShown, previous |-> NoShown, answer |-> NoShown, ids |-> {}]

\* A watchlist may be older than its preference.
Init ==
    /\ followed \in SUBSET Watchlist
    /\ \E set \in SUBSET followed :
          preference = [w \in Watchlist |-> IF w \in set THEN {Default} ELSE {}]
    /\ page = [p \in Page |-> Closed]
    /\ writes = 0
    /\ changed = [p \in Page |-> {}]
    /\ since = [p \in Page |-> {}]
    /\ saved = {}
    /\ late = {}

-----------------------------------------------------------------------------
(* A definition that directly precedes another of the same parameters, and  *)
(* that nothing uses, is a broken variant of it: substituting it shows that *)
(* the properties notice.                                                   *)

PreferenceOf(w) == IF preference[w] = {} THEN Default ELSE CHOOSE v \in preference[w] : TRUE

\* loadNotificationSettings: a choice is on if it is for every followed program.
Common == {c \in Choice : \A w \in followed : c \in PreferenceOf(w)}
Loaded == [choices |-> Common, tracked |-> Cardinality(followed)]

At(p, pc) == page[p].pc = pc
Goto(p, pc) == page' = [page EXCEPT ![p].pc = pc]

\* What a commit changes of what the server answers, for every page that is open.
Differing == {c \in Choice : (c \in Common) # (c \in Common')}
             \cup {x \in {"programs"} : followed' # followed}
Commits ==
    /\ writes < MaxWrites /\ writes' = writes + 1
    /\ changed' = [p \in Page |-> IF At(p, "closed") THEN {} ELSE changed[p] \cup Differing]
    /\ since' = [p \in Page |-> IF At(p, "answered") THEN since[p] \cup Differing ELSE {}]

-----------------------------------------------------------------------------
(* The settings page.                                                       *)

Open(p) ==
    /\ At(p, "closed")
    /\ Goto(p, "loading")
    /\ UNCHANGED <<followed, preference, writes, history>>

\* The server reads, for a page that loads or after a save.
LoadOnForAny(p) ==
    /\ page[p].pc \in {"loading", "committed"}
    /\ page' = [page EXCEPT ![p].pc = "answered", ![p].answer =
          [Loaded EXCEPT !.choices = {c \in Choice : \E w \in followed : c \in PreferenceOf(w)}]]
    /\ since' = [since EXCEPT ![p] = {}]
    /\ UNCHANGED <<followed, preference, writes, changed, saved, late>>
Load(p) ==
    /\ page[p].pc \in {"loading", "committed"}
    /\ page' = [page EXCEPT ![p].pc = "answered", ![p].answer = Loaded]
    /\ since' = [since EXCEPT ![p] = {}]
    /\ UNCHANGED <<followed, preference, writes, changed, saved, late>>

\* A control that shows one of its choices turns all of them off.
Toggled(choices, control) ==
    IF control \cap choices = {} THEN choices \cup control ELSE choices \ control

\* savePreferences: the page shows the change at once; a save under way disables every
\* control, and without a program nothing is saved.
Toggle(p, control) ==
    /\ At(p, "idle")
    /\ page[p].shown.tracked # 0
    /\ page' = [page EXCEPT ![p].pc = "sent", ![p].previous = page[p].shown,
                   ![p].shown.choices = Toggled(@, control)]
    /\ UNCHANGED <<followed, preference, writes, history>>

\* The answer replaces what the page shows.
Deliver(p) ==
    /\ At(p, "answered")
    /\ page' = [page EXCEPT ![p] = [Closed EXCEPT !.pc = "idle", !.shown = page[p].answer]]
    /\ changed' = [changed EXCEPT ![p] = since[p]]
    /\ since' = [since EXCEPT ![p] = {}]
    /\ UNCHANGED <<followed, preference, writes, saved, late>>

\* Any failure brings back what the page showed before, a lost answer to a save that
\* was committed included; a page that does not load stays empty.
FailKeepingTheChange(p) ==
    /\ page[p].pc \in {"loading", "sent", "found", "committed", "answered"}
    /\ page' = [page EXCEPT ![p] =
          IF page[p].previous = NoShown THEN Closed
          ELSE [Closed EXCEPT !.pc = "idle", !.shown = page[p].shown]]
    /\ since' = [since EXCEPT ![p] = {}]
    /\ UNCHANGED <<followed, preference, writes, changed, saved, late>>
Fail(p) ==
    /\ page[p].pc \in {"loading", "sent", "found", "committed", "answered"}
    /\ page' = [page EXCEPT ![p] =
          IF page[p].previous = NoShown THEN Closed
          ELSE [Closed EXCEPT !.pc = "idle", !.shown = page[p].previous]]
    /\ since' = [since EXCEPT ![p] = {}]
    /\ UNCHANGED <<followed, preference, writes, changed, saved, late>>

\* The page is left; what it sent may still be saved.
Leave(p) ==
    /\ page[p].pc \in {"idle", "loading", "answered", "committed"}
    /\ page' = [page EXCEPT ![p] = Closed]
    /\ changed' = [changed EXCEPT ![p] = {}]
    /\ since' = [since EXCEPT ![p] = {}]
    /\ UNCHANGED <<followed, preference, writes, saved, late>>

-----------------------------------------------------------------------------
(* saveNotificationSettings, one transaction.                               *)

FindWatchlists(p) ==
    /\ At(p, "sent")
    /\ page' = [page EXCEPT ![p].pc = IF followed = {} THEN "committed" ELSE "found",
                            ![p].ids = followed]
    /\ UNCHANGED <<followed, preference, writes, history>>

\* A preference for each watchlist that was found, then what the page shows in every
\* preference of the user; creating one fails if its watchlist is gone.
WritePreferencesOfTheFound(p) ==
    /\ At(p, "found")
    /\ page[p].ids \subseteq followed
    /\ preference' = [w \in Watchlist |-> IF w \in page[p].ids THEN {page[p].shown.choices}
                                          ELSE preference[w]]
    /\ UNCHANGED followed
    /\ Commits
    /\ Goto(p, "committed")
    /\ saved' = {page[p].shown.choices}
    /\ late' = {}
WritePreferences(p) ==
    /\ At(p, "found")
    /\ page[p].ids \subseteq followed
    /\ preference' = [w \in Watchlist |->
          IF preference[w] # {} \/ w \in page[p].ids THEN {page[p].shown.choices} ELSE {}]
    /\ UNCHANGED followed
    /\ Commits
    /\ Goto(p, "committed")
    /\ saved' = {page[p].shown.choices}
    /\ late' = {}

-----------------------------------------------------------------------------
(* The watchlist.                                                           *)

\* followProgram: with the default preference, unless it is followed already.
Follow(w) ==
    /\ w \notin followed
    /\ followed' = followed \cup {w}
    /\ preference' = [preference EXCEPT ![w] = {Default}]
    /\ Commits
    /\ late' = late \cup {w}
    /\ UNCHANGED <<page, saved>>

\* unfollowProgram: the preference goes with its watchlist.
Unfollow(w) ==
    /\ w \in followed
    /\ followed' = followed \ {w}
    /\ preference' = [preference EXCEPT ![w] = {}]
    /\ Commits
    /\ late' = late \ {w}
    /\ UNCHANGED <<page, saved>>

Next ==
    \/ \E p \in Page :
          \/ Open(p) \/ Load(p) \/ Deliver(p) \/ Fail(p) \/ Leave(p)
          \/ FindWatchlists(p) \/ WritePreferences(p)
    \/ \E p \in Page, control \in Control : Toggle(p, control)
    \/ \E w \in Watchlist : Follow(w) \/ Unfollow(w)

Spec == Init /\ [][Next]_vars

-----------------------------------------------------------------------------
(* Properties.                                                              *)

\* The server has it as it was shown, but for what was changed.
Agrees(x, changes) ==
    /\ \A c \in Choice \ changes : c \in x.choices <=> c \in Common
    /\ "programs" \notin changes => x.tracked = Cardinality(followed)

\* A page that waits for nothing is at most stale: each choice it shows and the number
\* of programs are what the server has, or were changed since it read them for the page.
PageIsHonest == \A p \in Page : At(p, "idle") => Agrees(page[p].shown, changed[p])

\* The last save holds for every program that was followed when it was committed, the
\* ones that were followed while it ran included.
SavedIsKept == saved # {} => \A w \in followed \ late : preference[w] = saved

\* The same of an answer and of what a page showed before its save, from which what it
\* sends differs by one control.
AnswersAreCurrent == \A p \in Page : At(p, "answered") => Agrees(page[p].answer, since[p])
SavesToggleOne ==
    \A p \in Page :
        /\ page[p].previous = NoShown \/ (~At(p, "closed") /\ Agrees(page[p].previous, changed[p]))
        /\ page[p].pc \in {"sent", "found"} =>
              /\ page[p].previous # NoShown
              /\ \E control \in Control :
                    page[p].shown.choices = Toggled(page[p].previous.choices, control)
        /\ At(p, "found") => page[p].ids # {}

\* What a save did not find has a preference of its own.
SavesReachAll ==
    \A p \in Page : At(p, "found") => \A w \in followed \ page[p].ids : preference[w] # {}

SettingsInv ==
    TypeOK /\ PageIsHonest /\ SavedIsKept /\ AnswersAreCurrent /\ SavesToggleOne /\ SavesReachAll

\* A save sends all that its page shows, however stale: for all programs together, what
\* was asked is done, and no other choice changes unless somebody changed it since the
\* server read it for the page, which the save then undoes.
Asked(p) == {c \in Choice : (c \in page[p].shown.choices) # (c \in page[p].previous.choices)}
SaveChangesTheToggled ==
    \A p \in Page :
        At(p, "found") /\ page'[p].pc = "committed" =>
            \A c \in Choice : IF c \in Asked(p) THEN c \in Common' <=> c \in page[p].shown.choices
                              ELSE c \in changed[p] \/ (c \in Common' <=> c \in Common)
OnlyTheToggledChanges == [][SaveChangesTheToggled]_vars
=============================================================================
