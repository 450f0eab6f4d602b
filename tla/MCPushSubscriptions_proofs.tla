---------------------- MODULE MCPushSubscriptions_proofs ----------------------
(***************************************************************************)
(* Proofs about NotificationSettings, DevicePush and ServiceWorker, as the  *)
(* parts of MCPushSubscriptions: for every number of programs, choices,    *)
(* pages, tabs, deployments and subscriptions.                              *)
(***************************************************************************)
EXTENDS MCPushSubscriptions, FiniteSetTheorems, TLAPS

-----------------------------------------------------------------------------
(* NotificationSettings.                                                    *)

PageRecord == [pc : S!Step, shown : S!Shown, previous : S!Shown, answer : S!Shown, ids : SUBSET Watchlist]

LEMMA SameFiniteness == \A T : S!IsFiniteSet(T) <=> IsFiniteSet(T)
BY Zenon DEF S!IsFiniteSet, IsFiniteSet

LEMMA SameCardinality == \A T : S!Cardinality(T) = Cardinality(T)
BY Zenon DEF S!Cardinality, Cardinality

LEMMA Counted ==
    ASSUME NEW T, T \subseteq Watchlist
    PROVE  S!Cardinality(T) \in 0..S!Cardinality(Watchlist)
<1>1. IsFiniteSet(Watchlist)
  BY PartsAssumption, SameFiniteness DEF S!SettingsAssumption
<1>2. /\ IsFiniteSet(T) /\ Cardinality(T) <= Cardinality(Watchlist)
      /\ Cardinality(T) \in Nat /\ Cardinality(Watchlist) \in Nat
  BY <1>1, FS_Subset, FS_CardinalityType
<1> QED BY <1>2, SameCardinality

LEMMA CountedPreference ==
    /\ S!Cardinality({}) = 0
    /\ \A v : S!Cardinality({v}) = 1
BY SameCardinality, FS_EmptySet, FS_Singleton

LEMMA NoPreference ==
    ASSUME S!TypeOK, NEW w \in Watchlist
    PROVE  w \notin followed => preference[w] = {}
<1> SUFFICES ASSUME w \notin followed PROVE preference[w] = {}
  OBVIOUS
<1>1. IsFiniteSet(SUBSET Choice)
  BY PartsAssumption, SameFiniteness, FS_SUBSET DEF S!SettingsAssumption
<1>2. IsFiniteSet(preference[w])
  <2>1. preference[w] \subseteq SUBSET Choice
    BY DEF S!TypeOK, S!Value
  <2> QED BY <1>1, <2>1, FS_Subset
<1>3. S!Cardinality(preference[w]) <= 0
  BY DEF S!TypeOK
<1>4. Cardinality(preference[w]) = 0
  BY <1>2, <1>3, SameCardinality, FS_CardinalityType
<1> QED BY <1>2, <1>4, FS_EmptySet

LEMMA LoadedIsShown ==
    ASSUME S!TypeOK
    PROVE  S!Loaded \in S!Shown
<1>1. S!Cardinality(followed) \in 0..S!Cardinality(Watchlist)
  BY Counted DEF S!TypeOK
<1>2. S!Common \subseteq Choice
  BY DEF S!Common
<1> QED BY <1>1, <1>2 DEF S!Loaded, S!Shown, S!Value

LEMMA ClosedPage ==
    /\ S!NoShown \in S!Shown
    /\ S!Closed \in PageRecord /\ S!Closed.pc = "closed" /\ S!Closed.previous = S!NoShown
    /\ \A x \in S!Shown : LET p == [S!Closed EXCEPT !.pc = "idle", !.shown = x]
                          IN  p \in PageRecord /\ p.pc = "idle" /\ p.shown = x /\ p.previous = S!NoShown
<1>1. S!NoShown \in S!Shown
  <2>1. 0 \in 0..S!Cardinality(Watchlist)
    BY Counted, CountedPreference
  <2> QED BY <2>1 DEF S!NoShown, S!Shown, S!Value
<1> QED BY <1>1 DEF S!Closed, PageRecord, S!Step

\* A step of one page: what the other pages are and what is saved stays.
LEMMA PageKeeps ==
    ASSUME S!SettingsInv, NEW p \in SettingsPage, NEW a \in PageRecord,
           page' = [page EXCEPT ![p] = a],
           UNCHANGED <<followed, preference, writes, saved, late>>,
           NEW f \in SUBSET S!Item, changed' = [changed EXCEPT ![p] = f],
           NEW g \in SUBSET S!Item, since' = [since EXCEPT ![p] = g],
           a.pc = "idle" => S!Agrees(a.shown, f),
           a.pc = "answered" => S!Agrees(a.answer, g),
           a.previous = S!NoShown \/ (a.pc # "closed" /\ S!Agrees(a.previous, f)),
           a.pc \in {"sent", "found"} =>
              /\ a.previous # S!NoShown
              /\ \E c \in Control : a.shown.choices = S!Toggled(a.previous.choices, c),
           a.pc = "found" => a.ids # {} /\ \A w \in followed \ a.ids : preference[w] # {}
    PROVE  S!SettingsInv'
<1> USE DEF S!At
<1>1. /\ S!TypeOK /\ S!PageIsHonest /\ S!SavedIsKept
      /\ S!AnswersAreCurrent /\ S!SavesToggleOne /\ S!SavesReachAll
  BY DEF S!SettingsInv
<1>2. /\ page \in [SettingsPage -> PageRecord]
      /\ changed \in [SettingsPage -> SUBSET S!Item] /\ since \in [SettingsPage -> SUBSET S!Item]
  BY <1>1 DEF S!TypeOK, PageRecord
<1>3. /\ page' \in [SettingsPage -> PageRecord]
      /\ changed' \in [SettingsPage -> SUBSET S!Item] /\ since' \in [SettingsPage -> SUBSET S!Item]
      /\ \A q \in SettingsPage : /\ page'[q] = IF q = p THEN a ELSE page[q]
                                 /\ changed'[q] = IF q = p THEN f ELSE changed[q]
                                 /\ since'[q] = IF q = p THEN g ELSE since[q]
  BY <1>2
<1>4. S!Common' = S!Common /\ followed' = followed
  BY DEF S!Common, S!PreferenceOf
<1>5. S!TypeOK'
  BY <1>1, <1>3 DEF S!TypeOK, PageRecord
<1>6. S!PageIsHonest'
  <2> SUFFICES ASSUME NEW q \in SettingsPage, page'[q].pc = "idle"
               PROVE  S!Agrees(page[q].shown, changed[q])'
    BY DEF S!PageIsHonest
  <2>1. S!Agrees(page'[q].shown, changed'[q])
    BY <1>1, <1>3 DEF S!PageIsHonest
  <2> QED BY <1>4, <2>1 DEF S!Agrees
<1>7. S!SavedIsKept'
  BY <1>1 DEF S!SavedIsKept
<1>8. S!AnswersAreCurrent'
  <2> SUFFICES ASSUME NEW q \in SettingsPage, page'[q].pc = "answered"
               PROVE  S!Agrees(page[q].answer, since[q])'
    BY DEF S!AnswersAreCurrent
  <2>1. S!Agrees(page'[q].answer, since'[q])
    BY <1>1, <1>3 DEF S!AnswersAreCurrent
  <2> QED BY <1>4, <2>1 DEF S!Agrees
<1>9. S!SavesToggleOne'
  <2>1. ASSUME NEW q \in SettingsPage, page'[q].previous # S!NoShown
        PROVE  page'[q].pc # "closed" /\ S!Agrees(page[q].previous, changed[q])'
    <3>1. page'[q].pc # "closed" /\ S!Agrees(page'[q].previous, changed'[q])
      BY <1>1, <1>3, <2>1 DEF S!SavesToggleOne
    <3> QED BY <1>4, <3>1 DEF S!Agrees
  <2>2. ASSUME NEW q \in SettingsPage, page'[q].pc \in {"sent", "found"}
        PROVE  /\ page'[q].previous # S!NoShown
               /\ \E c \in Control : page'[q].shown.choices = S!Toggled(page'[q].previous.choices, c)
               /\ page'[q].pc = "found" => page'[q].ids # {}
    BY <1>1, <1>3, <2>2 DEF S!SavesToggleOne
  <2> QED BY <2>1, <2>2 DEF S!SavesToggleOne, S!NoShown
<1>10. S!SavesReachAll'
  BY <1>1, <1>3 DEF S!SavesReachAll
<1> QED BY <1>5, <1>6, <1>7, <1>8, <1>9, <1>10 DEF S!SettingsInv

LEMMA PageStep ==
    ASSUME S!SettingsInv, NEW p \in SettingsPage,
           S!Open(p) \/ S!Load(p) \/ S!Deliver(p) \/ S!Fail(p) \/ S!Leave(p) \/ S!FindWatchlists(p)
    PROVE  S!SettingsInv'
<1> USE DEF S!At, S!history
<1>1. /\ S!TypeOK /\ S!PageIsHonest /\ S!SavedIsKept
      /\ S!AnswersAreCurrent /\ S!SavesToggleOne /\ S!SavesReachAll
  BY DEF S!SettingsInv
<1>2. /\ page \in [SettingsPage -> PageRecord] /\ page[p] \in PageRecord
      /\ changed[p] \in SUBSET S!Item /\ since[p] \in SUBSET S!Item /\ {} \in SUBSET S!Item
      /\ changed = [changed EXCEPT ![p] = changed[p]] /\ since = [since EXCEPT ![p] = since[p]]
  BY <1>1 DEF S!TypeOK, PageRecord
<1>3. UNCHANGED <<followed, preference, writes, saved, late>>
  BY DEF S!Open, S!Load, S!Deliver, S!Fail, S!Leave, S!FindWatchlists
<1>4. CASE S!Open(p)
  <2> DEFINE a == [page[p] EXCEPT !.pc = "loading"]
  <2>1. /\ a \in PageRecord /\ a.pc = "loading" /\ a.previous = page[p].previous
        /\ page' = [page EXCEPT ![p] = a]
    BY <1>2, <1>4 DEF S!Open, S!Goto, PageRecord, S!Step
  <2> HIDE DEF a
  <2>2. changed' = [changed EXCEPT ![p] = changed[p]] /\ since' = [since EXCEPT ![p] = since[p]]
    BY <1>2, <1>4 DEF S!Open
  <2>3. a.previous = S!NoShown
    BY <1>1, <1>4, <2>1 DEF S!Open, S!SavesToggleOne
  <2> QED BY <1>2, <1>3, <2>1, <2>2, <2>3, PageKeeps
<1>5. CASE S!Load(p)
  <2> DEFINE a == [page[p] EXCEPT !.pc = "answered", !.answer = S!Loaded]
  <2>1. /\ a \in PageRecord /\ a.pc = "answered" /\ a.answer = S!Loaded
        /\ a.previous = page[p].previous /\ page' = [page EXCEPT ![p] = a]
    BY <1>1, <1>2, <1>5, LoadedIsShown DEF S!Load, PageRecord, S!Step
  <2> HIDE DEF a
  <2>2. changed' = [changed EXCEPT ![p] = changed[p]] /\ since' = [since EXCEPT ![p] = {}]
    BY <1>2, <1>5 DEF S!Load
  <2>3. S!Agrees(a.answer, {})
    BY <2>1 DEF S!Agrees, S!Loaded
  <2>4. a.previous = S!NoShown \/ S!Agrees(a.previous, changed[p])
    BY <1>1, <2>1 DEF S!SavesToggleOne
  <2> QED BY <1>2, <1>3, <2>1, <2>2, <2>3, <2>4, PageKeeps
<1>6. CASE S!Deliver(p)
  <2> DEFINE a == [S!Closed EXCEPT !.pc = "idle", !.shown = page[p].answer]
  <2>1. page[p].answer \in S!Shown /\ S!Agrees(page[p].answer, since[p])
    BY <1>1, <1>2, <1>6 DEF S!Deliver, S!AnswersAreCurrent, PageRecord
  <2>2. /\ a \in PageRecord /\ a.pc = "idle" /\ a.shown = page[p].answer /\ a.previous = S!NoShown
        /\ page' = [page EXCEPT ![p] = a]
    BY <1>6, <2>1, ClosedPage DEF S!Deliver
  <2> HIDE DEF a
  <2>3. changed' = [changed EXCEPT ![p] = since[p]] /\ since' = [since EXCEPT ![p] = {}]
    BY <1>6 DEF S!Deliver
  <2> QED BY <1>2, <1>3, <2>1, <2>2, <2>3, PageKeeps
<1>7. CASE S!Fail(p)
  <2> DEFINE b == [S!Closed EXCEPT !.pc = "idle", !.shown = page[p].previous]
             a == IF page[p].previous = S!NoShown THEN S!Closed ELSE b
  <2>1. /\ page[p].previous \in S!Shown
        /\ page[p].previous # S!NoShown => S!Agrees(page[p].previous, changed[p])
    BY <1>1, <1>2 DEF S!SavesToggleOne, PageRecord
  <2>2. b \in PageRecord /\ b.pc = "idle" /\ b.shown = page[p].previous /\ b.previous = S!NoShown
    BY <2>1, ClosedPage
  <2>3. page' = [page EXCEPT ![p] = a]
    BY <1>7 DEF S!Fail
  <2> HIDE DEF b
  <2>4. /\ a \in PageRecord /\ a.pc \in {"idle", "closed"} /\ a.previous = S!NoShown
        /\ a.pc = "idle" => S!Agrees(a.shown, changed[p])
    BY <2>1, <2>2, ClosedPage
  <2>5. changed' = [changed EXCEPT ![p] = changed[p]] /\ since' = [since EXCEPT ![p] = {}]
    BY <1>2, <1>7 DEF S!Fail
  <2> HIDE DEF a
  <2> QED BY <1>2, <1>3, <2>3, <2>4, <2>5, PageKeeps
<1>8. CASE S!Leave(p)
  <2>1. /\ page' = [page EXCEPT ![p] = S!Closed]
        /\ changed' = [changed EXCEPT ![p] = {}] /\ since' = [since EXCEPT ![p] = {}]
    BY <1>8 DEF S!Leave
  <2> QED BY <1>2, <1>3, <2>1, ClosedPage, PageKeeps
<1>9. CASE S!FindWatchlists(p)
  <2> DEFINE pc == IF followed = {} THEN "committed" ELSE "found"
             a == [page[p] EXCEPT !.pc = pc, !.ids = followed]
  <2>1. /\ a \in PageRecord /\ a.pc = pc /\ a.ids = followed
        /\ a.shown = page[p].shown /\ a.previous = page[p].previous
        /\ page' = [page EXCEPT ![p] = a]
    BY <1>1, <1>2, <1>9 DEF S!FindWatchlists, PageRecord, S!Step, S!TypeOK
  <2> HIDE DEF a
  <2>2. changed' = [changed EXCEPT ![p] = changed[p]] /\ since' = [since EXCEPT ![p] = since[p]]
    BY <1>2, <1>9 DEF S!FindWatchlists
  <2>3. /\ a.previous # S!NoShown /\ S!Agrees(a.previous, changed[p])
        /\ \E c \in Control : a.shown.choices = S!Toggled(a.previous.choices, c)
    BY <1>1, <1>9, <2>1 DEF S!FindWatchlists, S!SavesToggleOne
  <2> QED BY <1>2, <1>3, <2>1, <2>2, <2>3, PageKeeps
<1> QED BY <1>4, <1>5, <1>6, <1>7, <1>8, <1>9

LEMMA ToggleKeeps ==
    ASSUME S!SettingsInv, NEW p \in SettingsPage, NEW c \in Control, S!Toggle(p, c)
    PROVE  S!SettingsInv'
<1> USE DEF S!At, S!history
<1>1. S!TypeOK /\ S!PageIsHonest /\ c \subseteq Choice
  BY PartsAssumption DEF S!SettingsInv, S!SettingsAssumption
<1>2. /\ page \in [SettingsPage -> PageRecord] /\ page[p] \in PageRecord
      /\ changed[p] \in SUBSET S!Item /\ since[p] \in SUBSET S!Item
      /\ changed' = [changed EXCEPT ![p] = changed[p]] /\ since' = [since EXCEPT ![p] = since[p]]
  BY <1>1 DEF S!TypeOK, PageRecord, S!Toggle
<1> DEFINE before == page[p].shown
           choices == S!Toggled(before.choices, c)
           after == [before EXCEPT !.choices = choices]
           a == [page[p] EXCEPT !.pc = "sent", !.previous = before, !.shown = after]
<1>3. before \in S!Shown /\ after \in S!Shown /\ after.choices = choices
  BY <1>1, <1>2 DEF PageRecord, S!Shown, S!Value, S!Toggled
<1>4. page' = [page EXCEPT ![p] = a]
  BY <1>2 DEF S!Toggle, PageRecord
<1>5. a \in PageRecord /\ a.pc = "sent" /\ a.previous = before /\ a.shown = after
  BY <1>2, <1>3 DEF PageRecord, S!Step
<1>6. S!Agrees(before, changed[p]) /\ before # S!NoShown
  BY <1>1 DEF S!Toggle, S!PageIsHonest, S!NoShown
<1>7. a.shown.choices = S!Toggled(a.previous.choices, c)
  BY <1>3, <1>5
<1>8. UNCHANGED <<followed, preference, writes, saved, late>>
  BY DEF S!Toggle
<1> HIDE DEF a
<1> QED BY <1>2, <1>4, <1>5, <1>6, <1>7, <1>8, PageKeeps

\* What a commit makes of the preferences, and how stale it makes the pages.
LEMMA CommitKeeps ==
    ASSUME S!SettingsInv, S!Commits, followed' \subseteq Watchlist, late' \subseteq followed',
           preference' \in [Watchlist -> SUBSET S!Value], saved' \subseteq S!Value,
           \A w \in Watchlist : S!Cardinality(preference'[w]) <= IF w \in followed' THEN 1 ELSE 0,
           page' \in [SettingsPage -> PageRecord],
           \A q \in SettingsPage :
             page'[q] = page[q] \/ (page[q].pc = "found" /\ page'[q] = [page[q] EXCEPT !.pc = "committed"]),
           S!SavedIsKept', S!SavesReachAll'
    PROVE  S!SettingsInv'
<1> USE DEF S!At
<1>1. writes' \in 0..MaxWrites /\ S!TypeOK
  BY PartsAssumption DEF S!SettingsInv, S!TypeOK, S!Commits, S!SettingsAssumption
<1>2. S!Differing \subseteq S!Item
  BY DEF S!Differing, S!Item
<1> HIDE DEF S!At
<1>3. changed' \in [SettingsPage -> SUBSET S!Item] /\ since' \in [SettingsPage -> SUBSET S!Item]
  BY <1>1, <1>2 DEF S!TypeOK, S!Commits
<1> USE DEF S!At
<1>4. S!TypeOK'
  BY <1>1, <1>3 DEF S!TypeOK, PageRecord
<1>5. \A q \in SettingsPage :
         /\ page[q] \in PageRecord
         /\ page'[q].pc = page[q].pc \/ (page[q].pc = "found" /\ page'[q].pc = "committed")
         /\ page'[q].shown = page[q].shown /\ page'[q].previous = page[q].previous
         /\ page'[q].answer = page[q].answer /\ page'[q].ids = page[q].ids
  BY <1>1 DEF S!TypeOK, PageRecord
<1>6. ASSUME NEW x, NEW changes, S!Agrees(x, changes)
      PROVE  /\ \A c \in Choice \ (changes \cup S!Differing) : c \in x.choices <=> c \in S!Common'
             /\ "programs" \notin changes \cup S!Differing => x.tracked = S!Cardinality(followed')
  BY <1>6 DEF S!Agrees, S!Differing
<1>7. \A q \in SettingsPage :
         /\ page[q].pc # "closed" => changed'[q] = changed[q] \cup S!Differing
         /\ page[q].pc = "answered" => since'[q] = since[q] \cup S!Differing
  BY DEF S!Commits
<1>8. S!PageIsHonest'
  <2> SUFFICES ASSUME NEW q \in SettingsPage, page'[q].pc = "idle"
               PROVE  S!Agrees(page[q].shown, changed[q])'
    BY DEF S!PageIsHonest
  <2>1. S!Agrees(page[q].shown, changed[q]) /\ changed'[q] = changed[q] \cup S!Differing
    BY <1>5, <1>7 DEF S!SettingsInv, S!PageIsHonest
  <2>2. page'[q].shown = page[q].shown
    BY <1>5
  <2> QED BY <1>6, <2>1, <2>2 DEF S!Agrees
<1>9. S!AnswersAreCurrent'
  <2> SUFFICES ASSUME NEW q \in SettingsPage, page'[q].pc = "answered"
               PROVE  S!Agrees(page[q].answer, since[q])'
    BY DEF S!AnswersAreCurrent
  <2>1. S!Agrees(page[q].answer, since[q]) /\ since'[q] = since[q] \cup S!Differing
    BY <1>5, <1>7 DEF S!SettingsInv, S!AnswersAreCurrent
  <2>2. page'[q].answer = page[q].answer
    BY <1>5
  <2> QED BY <1>6, <2>1, <2>2 DEF S!Agrees
<1>10. S!SavesToggleOne'
  <2>1. ASSUME NEW q \in SettingsPage, page'[q].previous # S!NoShown
        PROVE  page'[q].pc # "closed" /\ S!Agrees(page[q].previous, changed[q])'
    <3>1. page[q].pc # "closed" /\ S!Agrees(page[q].previous, changed[q])
      BY <1>5, <2>1 DEF S!SettingsInv, S!SavesToggleOne
    <3>2. /\ changed'[q] = changed[q] \cup S!Differing /\ page'[q].previous = page[q].previous
          /\ page'[q].pc # "closed"
      BY <1>5, <1>7, <3>1
    <3> QED BY <1>6, <3>1, <3>2 DEF S!Agrees
  <2>2. ASSUME NEW q \in SettingsPage, page'[q].pc \in {"sent", "found"}
        PROVE  /\ page'[q].previous # S!NoShown
               /\ \E c \in Control : page'[q].shown.choices = S!Toggled(page'[q].previous.choices, c)
               /\ page'[q].pc = "found" => page'[q].ids # {}
    BY <1>5, <2>2 DEF S!SettingsInv, S!SavesToggleOne
  <2> QED BY <2>1, <2>2 DEF S!SavesToggleOne, S!NoShown
<1> QED BY <1>4, <1>8, <1>9, <1>10 DEF S!SettingsInv

LEMMA WriteKeeps ==
    ASSUME S!SettingsInv, NEW p \in SettingsPage, S!WritePreferences(p)
    PROVE  S!SettingsInv'
<1> USE DEF S!At
<1>1. S!TypeOK /\ S!SavesReachAll
  BY DEF S!SettingsInv
<1>2. page \in [SettingsPage -> PageRecord] /\ page[p] \in PageRecord
  BY <1>1 DEF S!TypeOK, PageRecord
<1> DEFINE x == page[p].shown.choices
<1>3. /\ x \in S!Value /\ page[p].ids \subseteq followed
      /\ UNCHANGED followed /\ late' = {} /\ saved' = {x} /\ S!Commits
  BY <1>2 DEF S!WritePreferences, PageRecord, S!Shown
<1> HIDE DEF x
<1>4. /\ preference' = [w \in Watchlist |->
              IF preference[w] # {} \/ w \in page[p].ids THEN {x} ELSE {}]
  BY DEF S!WritePreferences, x
<1>5. preference' \in [Watchlist -> SUBSET S!Value]
  BY <1>3, <1>4
<1>6. /\ page' = [page EXCEPT ![p].pc = "committed"]
      /\ page' \in [SettingsPage -> PageRecord]
  BY <1>2 DEF S!WritePreferences, S!Goto, PageRecord, S!Step
<1>7. ASSUME NEW w \in Watchlist
      PROVE  S!Cardinality(preference'[w]) <= IF w \in followed' THEN 1 ELSE 0
  <2>1. w \notin followed => preference[w] = {}
    BY <1>1, NoPreference
  <2>2. (preference'[w] = {x} /\ w \in followed) \/ preference'[w] = {}
    BY <1>3, <1>4, <2>1
  <2>3. S!Cardinality({x}) = 1 /\ S!Cardinality({}) = 0
    BY CountedPreference
  <2>4. CASE preference'[w] = {x} /\ w \in followed
    BY <1>3, <2>3, <2>4
  <2>5. CASE preference'[w] = {}
    <3>1. S!Cardinality(preference'[w]) = 0
      BY <2>3, <2>5
    <3> QED BY <3>1
  <2> QED BY <2>2, <2>4, <2>5
<1>8. S!SavedIsKept'
  <2> SUFFICES ASSUME NEW w \in followed' \ late' PROVE preference'[w] = saved'
    BY DEF S!SavedIsKept
  <2>1. w \in Watchlist /\ w \in followed
    BY <1>1, <1>3 DEF S!TypeOK
  <2>2. preference[w] # {} \/ w \in page[p].ids
    BY <1>1, <2>1 DEF S!WritePreferences, S!SavesReachAll
  <2> QED BY <1>3, <1>4, <2>1, <2>2
<1>9. S!SavesReachAll'
  <2> SUFFICES ASSUME NEW q \in SettingsPage, page'[q].pc = "found", NEW w \in followed' \ page'[q].ids
               PROVE  preference'[w] # {}
    BY DEF S!SavesReachAll
  <2>1. page'[q] = page[q]
    BY <1>2, <1>6 DEF PageRecord
  <2>2. w \in Watchlist /\ preference[w] # {}
    BY <1>1, <1>3, <2>1 DEF S!TypeOK, S!SavesReachAll
  <2> QED BY <1>4, <2>2
<1>10. followed' \subseteq Watchlist /\ late' \subseteq followed' /\ saved' \subseteq S!Value
  BY <1>1, <1>3 DEF S!TypeOK
<1>11. \A q \in SettingsPage :
         page'[q] = page[q] \/ (page[q].pc = "found" /\ page'[q] = [page[q] EXCEPT !.pc = "committed"])
  <2> SUFFICES ASSUME NEW q \in SettingsPage
               PROVE  \/ page'[q] = page[q]
                      \/ page[q].pc = "found" /\ page'[q] = [page[q] EXCEPT !.pc = "committed"]
    OBVIOUS
  <2>1. page[p].pc = "found"
    BY DEF S!WritePreferences
  <2>2. CASE q = p
    <3>1. page'[p] = [page[p] EXCEPT !.pc = "committed"]
      BY <1>2, <1>6
    <3> QED BY <2>1, <2>2, <3>1
  <2>3. CASE q # p
    BY <1>2, <1>6, <2>3
  <2> QED BY <2>2, <2>3
<1> QED BY <1>3, <1>5, <1>6, <1>7, <1>8, <1>9, <1>10, <1>11, CommitKeeps

LEMMA FollowKeeps ==
    ASSUME S!SettingsInv, NEW w \in Watchlist, S!Follow(w) \/ S!Unfollow(w)
    PROVE  S!SettingsInv'
<1> USE DEF S!At
<1>1. S!TypeOK /\ S!SavedIsKept /\ S!SavesReachAll
  BY DEF S!SettingsInv
<1>2. /\ UNCHANGED <<page, saved>> /\ S!Commits
      /\ page' \in [SettingsPage -> PageRecord] /\ saved' \subseteq S!Value
  BY <1>1 DEF S!Follow, S!Unfollow, S!TypeOK, PageRecord
<1>3. /\ followed' \subseteq Watchlist /\ late' \subseteq followed'
      /\ followed' \ {w} = followed \ {w} /\ late' \ {w} = late \ {w}
      /\ w \in followed' => w \in late'
  BY <1>1 DEF S!Follow, S!Unfollow, S!TypeOK
<1>4. PICK x \in SUBSET S!Value :
         /\ preference' = [preference EXCEPT ![w] = x]
         /\ w \in followed' => x = {S!Default}
         /\ w \notin followed' => x = {}
  BY <1>1 DEF S!Follow, S!Unfollow, S!Default, S!Value, S!TypeOK
<1>5. /\ preference' \in [Watchlist -> SUBSET S!Value]
      /\ \A v \in Watchlist : preference'[v] = IF v = w THEN x ELSE preference[v]
  BY <1>1, <1>4 DEF S!TypeOK
<1>6. ASSUME NEW v \in Watchlist
      PROVE  S!Cardinality(preference'[v]) <= IF v \in followed' THEN 1 ELSE 0
  <2>1. CASE v # w
    BY <1>1, <1>3, <1>5, <2>1 DEF S!TypeOK
  <2>2. CASE v = w /\ w \in followed'
    <3>1. preference'[v] = {S!Default}
      BY <1>4, <1>5, <2>2
    <3>2. S!Cardinality(preference'[v]) = 1
      BY <3>1, CountedPreference
    <3> QED BY <2>2, <3>2
  <2>3. CASE v = w /\ w \notin followed'
    <3>1. preference'[v] = {}
      BY <1>4, <1>5, <2>3
    <3>2. S!Cardinality(preference'[v]) = 0
      BY <3>1, CountedPreference
    <3> QED BY <2>3, <3>2
  <2> QED BY <2>1, <2>2, <2>3
<1>7. S!SavedIsKept'
  BY <1>1, <1>2, <1>3, <1>5 DEF S!SavedIsKept
<1>8. S!SavesReachAll'
  <2> SUFFICES ASSUME NEW q \in SettingsPage, page'[q].pc = "found", NEW v \in followed' \ page'[q].ids
               PROVE  preference'[v] # {}
    BY DEF S!SavesReachAll
  <2>1. v \in Watchlist /\ page' = page
    BY <1>2, <1>3
  <2>2. CASE v = w
    BY <1>4, <1>5, <2>1, <2>2
  <2>3. CASE v # w
    BY <1>1, <1>3, <1>5, <2>1, <2>3 DEF S!SavesReachAll
  <2> QED BY <2>2, <2>3
<1>9. \A q \in SettingsPage :
         page'[q] = page[q] \/ (page[q].pc = "found" /\ page'[q] = [page[q] EXCEPT !.pc = "committed"])
  BY <1>2
<1> QED BY <1>2, <1>3, <1>5, <1>6, <1>7, <1>8, <1>9, CommitKeeps

LEMMA SettingsInit == S!Init => S!SettingsInv
<1> SUFFICES ASSUME S!Init PROVE S!SettingsInv
  OBVIOUS
<1> USE DEF S!At
<1>1. /\ \A p \in SettingsPage : page[p] = S!Closed
      /\ page \in [SettingsPage -> PageRecord]
      /\ changed \in [SettingsPage -> SUBSET S!Item] /\ since \in [SettingsPage -> SUBSET S!Item]
  BY ClosedPage DEF S!Init
<1>2. PICK set \in SUBSET followed :
         preference = [w \in Watchlist |-> IF w \in set THEN {S!Default} ELSE {}]
  BY DEF S!Init
<1>3. followed \subseteq Watchlist /\ saved = {} /\ late = {} /\ writes = 0
  BY DEF S!Init
<1>4. preference \in [Watchlist -> SUBSET S!Value]
  BY <1>2 DEF S!Default, S!Value
<1>5. ASSUME NEW w \in Watchlist
      PROVE  S!Cardinality(preference[w]) <= IF w \in followed THEN 1 ELSE 0
  <2>1. CASE w \in set
    <3>1. preference[w] = {S!Default} /\ w \in followed
      BY <1>2, <2>1
    <3>2. S!Cardinality(preference[w]) = 1
      BY <3>1, CountedPreference
    <3> QED BY <3>1, <3>2
  <2>2. CASE w \notin set
    <3>1. preference[w] = {}
      BY <1>2, <2>2
    <3>2. S!Cardinality(preference[w]) = 0
      BY <3>1, CountedPreference
    <3> QED BY <3>2
  <2> QED BY <2>1, <2>2
<1>6. S!TypeOK
  BY <1>1, <1>3, <1>4, <1>5, PartsAssumption DEF S!TypeOK, S!SettingsAssumption, PageRecord
<1>7. S!PageIsHonest /\ S!SavedIsKept /\ S!AnswersAreCurrent /\ S!SavesToggleOne /\ S!SavesReachAll
  BY <1>1, <1>3, ClosedPage DEF S!NoShown, S!PageIsHonest, S!SavedIsKept, S!AnswersAreCurrent, S!SavesToggleOne,
     S!SavesReachAll
<1> QED BY <1>6, <1>7 DEF S!SettingsInv

LEMMA SettingsStep == S!SettingsInv /\ [S!Next]_(S!vars) => S!SettingsInv'
<1> SUFFICES ASSUME S!SettingsInv, [S!Next]_(S!vars) PROVE S!SettingsInv'
  OBVIOUS
<1>1. CASE UNCHANGED S!vars
  <2> USE <1>1 DEF S!vars, S!history, S!At
  <2>1. S!Common' = S!Common
    BY DEF S!Common, S!PreferenceOf
  <2> QED BY <2>1 DEF S!SettingsInv, S!TypeOK, S!PageIsHonest, S!SavedIsKept, S!AnswersAreCurrent,
     S!SavesToggleOne, S!SavesReachAll, S!Agrees
<1> QED BY <1>1, PageStep, ToggleKeeps, WriteKeeps, FollowKeeps DEF S!Next

\* A save writes what its page shows, in every preference there is.
LEMMA SaveToggles == S!SettingsInv /\ [S!Next]_(S!vars) => S!SaveChangesTheToggled
<1> SUFFICES ASSUME S!SettingsInv, [S!Next]_(S!vars),
                    NEW p \in SettingsPage, page[p].pc = "found", page'[p].pc = "committed",
                    NEW c \in Choice
             PROVE  IF c \in S!Asked(p) THEN c \in S!Common' <=> c \in page[p].shown.choices
                    ELSE c \in changed[p] \/ (c \in S!Common' <=> c \in S!Common)
  BY DEF S!SaveChangesTheToggled, S!At
<1> USE DEF S!At
<1>1. S!TypeOK /\ S!SavesToggleOne
  BY DEF S!SettingsInv
<1>2. page \in [SettingsPage -> PageRecord]
  BY <1>1 DEF S!TypeOK, PageRecord
<1>3. S!WritePreferences(p)
  <2>1. ASSUME NEW q \in SettingsPage, q # p,
               S!Open(q) \/ S!Load(q) \/ S!Deliver(q) \/ S!Fail(q) \/ S!Leave(q) \/ S!FindWatchlists(q)
               \/ S!WritePreferences(q) \/ \E control \in Control : S!Toggle(q, control)
        PROVE  FALSE
    <3>1. page'[p] = page[p]
      BY <1>2, <2>1 DEF S!Open, S!Load, S!Deliver, S!Fail, S!Leave, S!FindWatchlists, S!WritePreferences,
         S!Toggle, S!Goto
    <3> QED BY <3>1
  <2>2. ~S!Open(p) /\ ~S!Load(p) /\ ~S!Deliver(p) /\ ~S!Leave(p) /\ ~S!FindWatchlists(p)
    BY DEF S!Open, S!Load, S!Deliver, S!Leave, S!FindWatchlists
  <2>3. ~S!Fail(p)
    <3> SUFFICES ASSUME S!Fail(p) PROVE FALSE
      OBVIOUS
    <3>1. page'[p] \in {S!Closed, [S!Closed EXCEPT !.pc = "idle", !.shown = page[p].previous]}
      BY <1>2 DEF S!Fail
    <3>2. page[p].previous \in S!Shown
      BY <1>2 DEF PageRecord
    <3>3. page'[p].pc \in {"closed", "idle"}
      BY <3>1, <3>2, ClosedPage
    <3> QED BY <3>3
  <2>4. \A control \in Control : ~S!Toggle(p, control)
    BY DEF S!Toggle
  <2>5. \A w \in Watchlist : ~S!Follow(w) /\ ~S!Unfollow(w)
    BY DEF S!Follow, S!Unfollow
  <2>6. ~UNCHANGED S!vars
    BY DEF S!vars
  <2> QED BY <2>1, <2>2, <2>3, <2>4, <2>5, <2>6 DEF S!Next
<1> DEFINE x == page[p].shown.choices
<1>4. /\ page[p].ids \subseteq followed /\ followed # {} /\ followed' = followed
      /\ followed \subseteq Watchlist /\ x \subseteq Choice
  BY <1>1, <1>2, <1>3 DEF S!SavesToggleOne, S!WritePreferences, S!TypeOK, PageRecord, S!Shown, S!Value
<1>5. S!Agrees(page[p].previous, changed[p]) /\ S!SavesReachAll
  BY <1>1 DEF S!SettingsInv, S!SavesToggleOne
<1> HIDE DEF x
<1>6. \A w \in followed' : preference'[w] = {x}
  BY <1>3, <1>4, <1>5 DEF S!WritePreferences, S!SavesReachAll, x
<1>7. \A w \in followed' : S!PreferenceOf(w)' = x
  BY <1>6 DEF S!PreferenceOf
<1>8. S!Common' = x
  BY <1>4, <1>7 DEF S!Common
<1> QED BY <1>5, <1>8 DEF S!Asked, S!Agrees, x

\* A settings page that waits for nothing shows what the server has, but for what was
\* changed since the server read it, and a save reaches every program that is followed.
THEOREM SettingsSafety == PartSpec => []SettingsInv
<1>1. PartInit => SettingsInv
  BY SettingsInit DEF PartInit, SettingsInv
<1>2. SettingsInv /\ [PartNext]_all => SettingsInv'
  <2> SUFFICES ASSUME SettingsInv, [PartNext]_all PROVE SettingsInv'
    OBVIOUS
  <2>1. stage' = stage
    BY DEF PartNext, all, Pushing, OnDevice, InSettings, OfWorker
  <2>2. ASSUME stage = "settings" PROVE [S!Next]_(S!vars)
    <3>1. Pushing \/ OnDevice \/ OfWorker => UNCHANGED settings
      BY DEF Pushing, OnDevice, OfWorker
    <3> QED BY <3>1 DEF PartNext, all, settings, S!vars, S!history, S!Next
  <2> QED BY <2>1, <2>2, SettingsStep DEF SettingsInv
<1> QED BY <1>1, <1>2, PTL DEF PartSpec

\* However stale its page is, a save does what was asked for all programs that are
\* followed, and changes no other choice but those that other pages' saves, follows and
\* unfollows changed since the server read them for the page.
THEOREM SavesChangeTheToggled == PartSpec => OnlyTheToggledChanges
<1>1. SettingsInv /\ [PartNext]_all => [stage = "settings" => S!SaveChangesTheToggled]_all
  <2> SUFFICES ASSUME SettingsInv, [PartNext]_all, stage = "settings" PROVE S!SaveChangesTheToggled
    OBVIOUS
  <2>1. [S!Next]_(S!vars)
    <3>1. Pushing \/ OnDevice \/ OfWorker => UNCHANGED settings
      BY DEF Pushing, OnDevice, OfWorker
    <3> QED BY <3>1 DEF PartNext, all, settings, S!vars, S!history, S!Next
  <2> QED BY <2>1, SaveToggles DEF SettingsInv
<1> QED BY <1>1, SettingsSafety, PTL DEF PartSpec, OnlyTheToggledChanges

-----------------------------------------------------------------------------
(* DevicePush.                                                              *)

Look == {"closed", "checking", "offer", "denied", "enabling", "subscribed", "error", "permission-dismissed"}
WorkRecord == [pc : D!Step, handled : {0} \cup D!Subscription, offered : BOOLEAN]

LEMMA DeviceTables ==
    ASSUME D!TypeOK
    PROVE  /\ permission \in {"default", "granted", "denied"}
           /\ local \in {0} \cup D!Subscription /\ issued \in {0} \cup D!Subscription
           /\ active \subseteq D!Subscription /\ taken \subseteq D!Subscription
           /\ shown \in [D!Page -> Look] /\ work \in [D!Activity -> WorkRecord]
           /\ failures \in 0..MaxFailures /\ lapsed \in D!Way \cup {D!None}
           /\ D!Page \subseteq D!Activity /\ "settings" \in D!Page /\ "panel" \in D!Page
           /\ D!Activity = {"settings", "panel", "follow"}
           /\ 0 \notin D!Subscription /\ MaxFailures \in Nat /\ MaxSubscriptions \in Nat
BY PartsAssumption DEF D!TypeOK, Look, WorkRecord, D!Page, D!Activity, D!Subscription, D!DeviceAssumption

LEMMA NothingIsDone == D!Nothing \in WorkRecord /\ D!Nothing.pc = "idle" /\ D!Nothing.handled = 0
BY DEF D!Nothing, WorkRecord, D!Step

LEMMA Moved ==
    ASSUME NEW x \in WorkRecord, NEW pc \in D!Step
    PROVE  LET y == [x EXCEPT !.pc = pc]
           IN  y \in WorkRecord /\ y.pc = pc /\ y.handled = x.handled /\ y.offered = x.offered
BY DEF WorkRecord

\* One activity moves: what it must keep of the invariant.
LEMMA ActivityKeeps ==
    ASSUME D!DeviceInv, NEW a \in D!Activity, NEW x \in WorkRecord,
           work' = [work EXCEPT ![a] = x],
           shown' \in [D!Page -> Look],
           permission' \in {"default", "granted", "denied"},
           local' \in {0} \cup D!Subscription, issued' \in {0} \cup D!Subscription,
           active' \subseteq D!Subscription, taken' \subseteq D!Subscription, taken \subseteq taken',
           failures' \in 0..MaxFailures, lapsed' \in D!Way \cup {D!None},
           x.pc = "store" => x.handled # 0,
           x.pc = "stored" => x.handled \in taken',
           \A p \in D!Page : shown'[p] = "subscribed" =>
              \/ p # a /\ shown[p] = "subscribed"
              \/ p = a /\ x.pc \notin D!Enabling /\ (x.handled # 0 => x.handled \in taken'),
           shown'["settings"] \in {"closed", "checking"} =>
              \/ a # "settings" /\ shown["settings"] \in {"closed", "checking"}
              \/ a = "settings" /\ x.pc \notin D!Enabling /\ x.handled = 0,
           D!InactiveIsKnown'
    PROVE  D!DeviceInv'
<1> USE DEF D!At
<1>1. /\ D!TypeOK /\ D!EnabledIsStored /\ D!HandedIsStored /\ D!EnablingIsShown
  BY DEF D!DeviceInv
<1>2. /\ work' \in [D!Activity -> WorkRecord]
      /\ \A b \in D!Activity : work'[b] = IF b = a THEN x ELSE work[b]
      /\ D!Page \subseteq D!Activity /\ "settings" \in D!Page
  BY <1>1, DeviceTables
<1>3. D!TypeOK'
  BY <1>2 DEF D!TypeOK, Look, WorkRecord
<1>4. D!EnabledIsStored'
  <2> SUFFICES ASSUME NEW p \in D!Page, shown'[p] = "subscribed", work'[p].handled # 0
               PROVE  work'[p].handled \in taken'
    BY DEF D!EnabledIsStored
  <2> QED BY <1>1, <1>2 DEF D!EnabledIsStored
<1>5. D!HandedIsStored'
  BY <1>1, <1>2 DEF D!HandedIsStored
<1>6. D!EnablingIsShown'
  <2>1. ASSUME NEW p \in D!Page, work'[p].pc \in D!Enabling PROVE shown'[p] # "subscribed"
    BY <1>1, <1>2, <2>1 DEF D!EnablingIsShown
  <2>2. shown'["settings"] \in {"closed", "checking"} =>
           work'["settings"].pc \notin D!Enabling /\ work'["settings"].handled = 0
    BY <1>1, <1>2 DEF D!EnablingIsShown
  <2> QED BY <2>1, <2>2 DEF D!EnablingIsShown
<1> QED BY <1>3, <1>4, <1>5, <1>6 DEF D!DeviceInv

\* Neither a page nor an activity moves.
LEMMA OutsideKeeps ==
    ASSUME D!DeviceInv, UNCHANGED <<work, shown, issued, taken>>,
           permission' \in {"default", "granted", "denied"}, local' \in {0} \cup D!Subscription,
           active' \subseteq D!Subscription,
           failures' \in 0..MaxFailures, lapsed' \in D!Way \cup {D!None},
           D!InactiveIsKnown'
    PROVE  D!DeviceInv'
BY DEF D!DeviceInv, D!TypeOK, D!EnabledIsStored, D!HandedIsStored, D!EnablingIsShown, D!At

\* An activity that hands nothing to the server, and waits for no revocation.
LEMMA KnownStays ==
    ASSUME D!DeviceInv, NEW a \in D!Activity, NEW x \in WorkRecord,
           work' = [work EXCEPT ![a] = x],
           UNCHANGED <<local, active, lapsed>>,
           work[a].pc \notin {"store", "revoked"}
    PROVE  D!InactiveIsKnown'
<1> USE DEF D!At
<1>1. D!TypeOK /\ D!InactiveIsKnown
  BY DEF D!DeviceInv
<1>2. /\ \A b \in D!Activity : work'[b] = IF b = a THEN x ELSE work[b]
      /\ DOMAIN work = D!Activity /\ DOMAIN work' = D!Activity /\ "settings" \in D!Activity
  BY <1>1, DeviceTables
<1>3. CASE local \in {0} \cup active \/ lapsed # D!None
  BY <1>3 DEF D!InactiveIsKnown
<1>4. CASE \E p \in DOMAIN work : work[p].pc = "store" /\ work[p].handled = local
  BY <1>2, <1>4 DEF D!InactiveIsKnown
<1>5. CASE work["settings"].pc = "revoked"
  BY <1>2, <1>5 DEF D!InactiveIsKnown
<1> QED BY <1>1, <1>3, <1>4, <1>5 DEF D!InactiveIsKnown

\* What a page or an activity does without the server.
LEMMA PageMoves ==
    ASSUME D!DeviceInv, NEW p \in D!Page, NEW x \in WorkRecord, NEW look \in Look,
           work' = [work EXCEPT ![p] = x], shown' = [shown EXCEPT ![p] = look],
           UNCHANGED <<local, issued, active, taken, lapsed>>,
           permission' \in {"default", "granted", "denied"}, failures' \in 0..MaxFailures,
           work[p].pc \notin {"store", "revoked"}, x.pc # "store",
           x.pc = "stored" => x.handled \in taken,
           look = "subscribed" => x.pc \notin D!Enabling /\ (x.handled # 0 => x.handled \in taken),
           look \in {"closed", "checking"} => x.pc \notin D!Enabling /\ x.handled = 0
    PROVE  D!DeviceInv'
<1>1. D!TypeOK
  BY DEF D!DeviceInv
<1>2. /\ shown' \in [D!Page -> Look] /\ p \in D!Activity
      /\ \A q \in D!Page : shown'[q] = IF q = p THEN look ELSE shown[q]
  BY <1>1, DeviceTables
<1>3. D!InactiveIsKnown'
  BY <1>2, KnownStays
<1>4. /\ local' \in {0} \cup D!Subscription /\ issued' \in {0} \cup D!Subscription
      /\ active' \subseteq D!Subscription /\ taken' \subseteq D!Subscription /\ taken \subseteq taken'
      /\ lapsed' \in D!Way \cup {D!None} /\ "settings" \in D!Page
  BY <1>1, DeviceTables
<1> QED BY <1>2, <1>3, <1>4, ActivityKeeps

LEMMA WorkMoves ==
    ASSUME D!DeviceInv, NEW a \in D!Activity, NEW x \in WorkRecord,
           work' = [work EXCEPT ![a] = x],
           UNCHANGED <<local, issued, active, taken, lapsed, shown>>, failures' \in 0..MaxFailures,
           permission' \in {"default", "granted", "denied"},
           work[a].pc \notin {"store", "revoked"},
           x.pc = "store" => x.handled # 0,
           x.pc = "stored" => x.handled \in taken,
           a = "follow" \/ (x.handled = work[a].handled /\ (x.pc \in D!Enabling => work[a].pc \in D!Enabling))
    PROVE  D!DeviceInv'
<1>1. D!TypeOK /\ D!EnabledIsStored /\ D!EnablingIsShown
  BY DEF D!DeviceInv
<1>2. D!InactiveIsKnown'
  BY KnownStays
<1>3. /\ local' \in {0} \cup D!Subscription /\ issued' \in {0} \cup D!Subscription
      /\ permission' \in {"default", "granted", "denied"} /\ shown' \in [D!Page -> Look]
      /\ active' \subseteq D!Subscription /\ taken' \subseteq D!Subscription /\ taken \subseteq taken'
      /\ lapsed' \in D!Way \cup {D!None} /\ "settings" \in D!Page /\ "follow" \notin D!Page
  BY <1>1, DeviceTables DEF D!Page
<1>4. ASSUME NEW p \in D!Page, shown'[p] = "subscribed"
      PROVE  \/ p # a /\ shown[p] = "subscribed"
             \/ p = a /\ x.pc \notin D!Enabling /\ (x.handled # 0 => x.handled \in taken')
  BY <1>1, <1>3, <1>4 DEF D!EnabledIsStored, D!EnablingIsShown
<1>5. ASSUME shown'["settings"] \in {"closed", "checking"}
      PROVE  \/ a # "settings" /\ shown["settings"] \in {"closed", "checking"}
             \/ a = "settings" /\ x.pc \notin D!Enabling /\ x.handled = 0
  BY <1>1, <1>5 DEF D!EnablingIsShown
<1> QED BY <1>2, <1>3, <1>4, <1>5, ActivityKeeps

\* The work of a follow closes the panel or opens it.
LEMMA PanelMoves ==
    ASSUME D!DeviceInv, NEW x \in WorkRecord, NEW look \in Look \ {"subscribed"},
           work' = [work EXCEPT !["follow"] = x],
           shown' = [shown EXCEPT !["panel"] = look],
           UNCHANGED <<permission, local, issued, active, taken, lapsed>>, failures' \in 0..MaxFailures,
           work["follow"].pc \notin {"store", "revoked"},
           x.pc = "store" => x.handled # 0,
           x.pc = "stored" => x.handled \in taken
    PROVE  D!DeviceInv'
<1>1. D!TypeOK
  BY DEF D!DeviceInv
<1>2. /\ shown' \in [D!Page -> Look] /\ "follow" \in D!Activity /\ "follow" \notin D!Page
      /\ \A q \in D!Page : shown'[q] = IF q = "panel" THEN look ELSE shown[q]
  BY <1>1, DeviceTables DEF D!Page
<1>3. D!InactiveIsKnown'
  BY <1>2, KnownStays
<1>4. /\ local' \in {0} \cup D!Subscription /\ issued' \in {0} \cup D!Subscription
      /\ permission' \in {"default", "granted", "denied"}
      /\ active' \subseteq D!Subscription /\ taken' \subseteq D!Subscription /\ taken \subseteq taken'
      /\ lapsed' \in D!Way \cup {D!None} /\ "settings" \in D!Page
  BY <1>1, DeviceTables
<1>5. ASSUME NEW p \in D!Page, shown'[p] = "subscribed"
      PROVE  p # "follow" /\ shown[p] = "subscribed"
  BY <1>2, <1>5
<1>6. shown'["settings"] = shown["settings"]
  BY <1>2, <1>4
<1> QED BY <1>2, <1>3, <1>4, <1>5, <1>6, ActivityKeeps

\* The settings page after its device was on, and what becomes of it there.
LEMMA SettingsPageMoves ==
    ASSUME D!DeviceInv, NEW x \in WorkRecord, work' = [work EXCEPT !["settings"] = x],
           UNCHANGED <<permission, issued, taken, shown>>, failures' \in 0..MaxFailures,
           local' \in {0} \cup D!Subscription, active' \subseteq D!Subscription,
           lapsed' \in D!Way \cup {D!None},
           x.pc \notin D!Enabling, x.handled = work["settings"].handled,
           D!InactiveIsKnown'
    PROVE  D!DeviceInv'
<1>1. D!TypeOK /\ D!EnabledIsStored /\ D!EnablingIsShown
  BY DEF D!DeviceInv
<1>2. /\ issued' \in {0} \cup D!Subscription
      /\ permission' \in {"default", "granted", "denied"} /\ shown' \in [D!Page -> Look]
      /\ taken' \subseteq D!Subscription /\ taken \subseteq taken' /\ "settings" \in D!Activity
  BY <1>1, DeviceTables
<1>3. x.pc # "store" /\ x.pc # "stored"
  BY DEF D!Enabling
<1>4. ASSUME NEW p \in D!Page, shown'[p] = "subscribed"
      PROVE  \/ p # "settings" /\ shown[p] = "subscribed"
             \/ p = "settings" /\ x.pc \notin D!Enabling /\ (x.handled # 0 => x.handled \in taken')
  BY <1>1, <1>4 DEF D!EnabledIsStored
<1>5. shown'["settings"] \in {"closed", "checking"} => x.pc \notin D!Enabling /\ x.handled = 0
  BY <1>1 DEF D!EnablingIsShown
<1> QED BY <1>2, <1>3, <1>4, <1>5, ActivityKeeps

LEMMA FailuresAreBounded ==
    ASSUME D!DeviceInv, D!Error \/ D!NoError
    PROVE  failures' \in 0..MaxFailures
<1>1. failures \in 0..MaxFailures /\ MaxFailures \in Nat
  BY DeviceTables DEF D!DeviceInv
<1> QED BY <1>1 DEF D!Error, D!NoError

LEMMA ActivationKeeps ==
    ASSUME D!DeviceInv, NEW p \in D!Page, D!Click(p) \/ D!Prompt(p) \/ D!Prepare(p) \/ D!SubscribeFails(p)
    PROVE  D!DeviceInv'
<1> USE DEF D!At, D!browser, D!history, D!Goto, D!Show, D!EndWith
<1>1. D!TypeOK
  BY DEF D!DeviceInv
<1>2. /\ work[p] \in WorkRecord /\ p \in D!Activity /\ failures \in 0..MaxFailures
      /\ permission \in {"default", "granted", "denied"}
      /\ "idle" \notin D!Enabling
  BY <1>1, DeviceTables DEF D!Enabling, Look
<1> DEFINE To(pc) == [work[p] EXCEPT !.pc = pc]
<1>3. \A pc \in D!Step : To(pc) \in WorkRecord /\ To(pc).pc = pc /\ To(pc).handled = work[p].handled
  BY <1>2, Moved
<1>4. {"idle", "prompt", "prepare", "subscribe"} \subseteq D!Step
  BY DEF D!Step
<1>5. {"denied", "enabling", "error", "permission-dismissed"} \subseteq Look \ {"subscribed", "closed", "checking"}
  BY DEF Look
<1>6. CASE D!Click(p)
  <2>1. /\ UNCHANGED <<permission, local, issued, active, failures, taken, lapsed>>
        /\ work[p].pc = "idle"
        /\ \E pc \in {"idle", "prompt", "prepare"}, what \in {"denied", "enabling"} :
              work' = [work EXCEPT ![p] = To(pc)] /\ shown' = [shown EXCEPT ![p] = what]
    BY <1>2, <1>6 DEF D!Click
  <2>2. PICK pc \in {"idle", "prompt", "prepare"}, what \in {"denied", "enabling"} :
           work' = [work EXCEPT ![p] = To(pc)] /\ shown' = [shown EXCEPT ![p] = what]
    BY <2>1
  <2>3. To(pc) \in WorkRecord /\ To(pc).pc = pc /\ pc \notin {"store", "stored"}
    BY <1>3, <1>4
  <2> HIDE DEF To
  <2> QED BY <1>2, <1>5, <2>1, <2>2, <2>3, PageMoves
<1>7. CASE D!Prompt(p)
  <2>1. /\ UNCHANGED <<local, issued, active, failures, taken, lapsed>> /\ work[p].pc = "prompt"
        /\ permission' \in {"default", "granted", "denied"}
    BY <1>2, <1>7 DEF D!Prompt
  <2>2. CASE permission' = "granted"
    <3>1. work' = [work EXCEPT ![p] = To("prepare")] /\ UNCHANGED shown
      BY <1>7, <2>2 DEF D!Prompt
    <3>2. To("prepare") \in WorkRecord /\ To("prepare").pc = "prepare" /\ To("prepare").handled = work[p].handled
      BY <1>3, <1>4
    <3>3. "prompt" \in D!Enabling
      BY DEF D!Enabling
    <3> HIDE DEF To
    <3> QED BY <1>2, <2>1, <3>1, <3>2, <3>3, WorkMoves
  <2>3. CASE permission' # "granted"
    <3>1. PICK what \in {"denied", "permission-dismissed"} :
             work' = [work EXCEPT ![p] = To("idle")] /\ shown' = [shown EXCEPT ![p] = what]
      BY <1>7, <2>1, <2>3 DEF D!Prompt
    <3>2. To("idle") \in WorkRecord /\ To("idle").pc = "idle"
      BY <1>3, <1>4
    <3> HIDE DEF To
    <3> QED BY <1>2, <1>5, <2>1, <3>1, <3>2, PageMoves
  <2> QED BY <2>2, <2>3
<1>8. CASE D!Prepare(p)
  <2>1. /\ UNCHANGED <<permission, local, issued, active, taken, lapsed>> /\ work[p].pc = "prepare"
        /\ failures' \in 0..MaxFailures
    BY <1>8, FailuresAreBounded DEF D!Prepare
  <2>2. CASE D!Goto(p, "subscribe") /\ UNCHANGED shown
    <3>1. work' = [work EXCEPT ![p] = To("subscribe")]
      BY <2>2
    <3>2. To("subscribe") \in WorkRecord /\ To("subscribe").pc = "subscribe" /\ To("subscribe").handled = work[p].handled
      BY <1>3, <1>4
    <3>3. "prepare" \in D!Enabling
      BY DEF D!Enabling
    <3> HIDE DEF To
    <3> QED BY <1>2, <2>1, <2>2, <3>1, <3>2, <3>3, WorkMoves
  <2>3. CASE D!EndWith(p, "error")
    <3>1. work' = [work EXCEPT ![p] = To("idle")] /\ shown' = [shown EXCEPT ![p] = "error"]
      BY <2>3
    <3>2. To("idle") \in WorkRecord /\ To("idle").pc = "idle"
      BY <1>3, <1>4
    <3> HIDE DEF To
    <3> QED BY <1>2, <1>5, <2>1, <3>1, <3>2, PageMoves
  <2> QED BY <1>8, <2>2, <2>3 DEF D!Prepare
<1>9. CASE D!SubscribeFails(p)
  <2>1. /\ UNCHANGED <<permission, local, issued, active, taken, lapsed>> /\ work[p].pc = "subscribe"
        /\ failures' \in 0..MaxFailures
        /\ work' = [work EXCEPT ![p] = To("idle")] /\ shown' = [shown EXCEPT ![p] = "error"]
    BY <1>9, FailuresAreBounded DEF D!SubscribeFails
  <2>2. To("idle") \in WorkRecord /\ To("idle").pc = "idle"
    BY <1>3, <1>4
  <2> HIDE DEF To
  <2> QED BY <1>2, <1>5, <2>1, <2>2, PageMoves
<1> QED BY <1>6, <1>7, <1>8, <1>9

LEMMA SubscribeKeeps ==
    ASSUME D!DeviceInv, NEW p \in D!Page, D!Subscribe(p)
    PROVE  D!DeviceInv'
<1> USE DEF D!At, D!browser, D!history
<1>1. D!TypeOK /\ D!EnablingIsShown
  BY DEF D!DeviceInv
<1>2. /\ UNCHANGED <<permission, active, shown, failures, taken, lapsed>> /\ work[p].pc = "subscribe"
      /\ local' \in D!Subscription /\ issued' \in {0} \cup D!Subscription
  <2>1. CASE local # 0
    BY <1>1, <2>1, DeviceTables DEF D!Subscribe
  <2>2. CASE local = 0
    <3>1. issued' = issued + 1 /\ local' = issued' /\ issued < MaxSubscriptions
      BY <2>2 DEF D!Subscribe
    <3>2. issued + 1 \in 1..MaxSubscriptions
      BY <1>1, <3>1, DeviceTables DEF D!Subscription
    <3> QED BY <3>1, <3>2 DEF D!Subscribe, D!Subscription
  <2> QED BY <2>1, <2>2
<1> DEFINE x == [work[p] EXCEPT !.pc = "store", !.handled = local']
<1>3. /\ x \in WorkRecord /\ x.pc = "store" /\ x.handled = local' /\ x.handled # 0
      /\ p \in D!Activity
  <2>1. work[p] \in WorkRecord /\ "store" \in D!Step /\ 0 \notin D!Subscription /\ p \in D!Activity
    BY <1>1, DeviceTables DEF D!Step
  <2> QED BY <1>2, <2>1 DEF WorkRecord
<1>4. work' = [work EXCEPT ![p] = x]
  BY DEF D!Subscribe, D!Hand
<1> HIDE DEF x
<1>5. D!InactiveIsKnown'
  <2>1. DOMAIN work' = D!Activity /\ work'[p] = x
    BY <1>1, <1>3, <1>4, DeviceTables
  <2> QED BY <1>3, <2>1 DEF D!InactiveIsKnown
<1>6. shown'[p] # "subscribed" /\ (p = "settings" => shown'["settings"] \notin {"closed", "checking"})
  BY <1>1, <1>2 DEF D!EnablingIsShown, D!Enabling
<1>7. /\ permission' \in {"default", "granted", "denied"} /\ shown' \in [D!Page -> Look]
      /\ active' \subseteq D!Subscription /\ taken' \subseteq D!Subscription /\ taken \subseteq taken'
      /\ lapsed' \in D!Way \cup {D!None} /\ failures' \in 0..MaxFailures
  BY <1>1, <1>2, DeviceTables
<1>8. \A q \in D!Page : shown'[q] = "subscribed" => q # p /\ shown[q] = "subscribed"
  BY <1>2, <1>6
<1> QED BY <1>2, <1>3, <1>4, <1>5, <1>6, <1>7, <1>8, ActivityKeeps

\* An activity that was at work on the server: what it handed is active, or known.
LEMMA KnownMoves ==
    ASSUME D!DeviceInv, NEW a \in D!Activity, NEW x \in WorkRecord,
           work' = [work EXCEPT ![a] = x], UNCHANGED local,
           \/ local \in {0} \cup active \/ lapsed # D!None
           \/ work[a].pc = "store" /\ work[a].handled = local
           \/ a = "settings" /\ work[a].pc = "revoked"
           => local \in {0} \cup active' \/ lapsed' # D!None
    PROVE  D!InactiveIsKnown'
<1> USE DEF D!At
<1>1. D!TypeOK /\ D!InactiveIsKnown
  BY DEF D!DeviceInv
<1>2. /\ \A b \in D!Activity : work'[b] = IF b = a THEN x ELSE work[b]
      /\ DOMAIN work = D!Activity /\ DOMAIN work' = D!Activity /\ "settings" \in D!Activity
  BY <1>1, DeviceTables
<1>3. CASE local \in {0} \cup active \/ lapsed # D!None
  BY <1>3 DEF D!InactiveIsKnown
<1>4. CASE \E p \in DOMAIN work : work[p].pc = "store" /\ work[p].handled = local
  BY <1>2, <1>4 DEF D!InactiveIsKnown
<1>5. CASE work["settings"].pc = "revoked"
  BY <1>2, <1>5 DEF D!InactiveIsKnown
<1> QED BY <1>1, <1>3, <1>4, <1>5 DEF D!InactiveIsKnown

\* An activation shows its outcome.
LEMMA OutcomeKeeps ==
    ASSUME D!DeviceInv, NEW p \in D!Activity, NEW succeeded \in BOOLEAN, D!Outcome(p, succeeded),
           succeeded => work[p].handled \in taken,
           UNCHANGED <<permission, local, issued, taken>>, active' \subseteq D!Subscription,
           failures' \in 0..MaxFailures, lapsed' \in D!Way \cup {D!None},
           D!InactiveIsKnown'
    PROVE  D!DeviceInv'
<1> DEFINE x == [work[p] EXCEPT !.pc = "idle"]
<1>1. D!TypeOK
  BY DEF D!DeviceInv
<1>2. work' = [work EXCEPT ![p] = x]
  BY DEF D!Outcome, D!Goto
<1>3. x \in WorkRecord /\ x.pc = "idle" /\ x.handled = work[p].handled
  BY <1>1, DeviceTables, Moved DEF D!Step
<1>4. /\ permission' \in {"default", "granted", "denied"} /\ local' \in {0} \cup D!Subscription
      /\ issued' \in {0} \cup D!Subscription /\ taken' \subseteq D!Subscription /\ taken \subseteq taken'
      /\ shown \in [D!Page -> Look] /\ "idle" \notin D!Enabling
  BY <1>1, DeviceTables DEF D!Enabling
<1>5. CASE p = "follow"
  <2>1. shown' = shown \/ \E look \in {"closed", "error"} : shown' = [shown EXCEPT !["panel"] = look]
    BY <1>5 DEF D!Outcome, D!Show
  <2>2. /\ shown' \in [D!Page -> Look] /\ shown'["settings"] = shown["settings"]
        /\ \A q \in D!Page : q # "follow" /\ (shown'[q] = "subscribed" => shown[q] = "subscribed")
    BY <1>4, <2>1 DEF D!Page, Look
  <2> HIDE DEF x
  <2> QED BY <1>2, <1>3, <1>4, <1>5, <2>2, ActivityKeeps
<1>6. CASE p \in D!Page
  <2>1. shown' = [shown EXCEPT ![p] = IF succeeded THEN "subscribed" ELSE "error"]
    BY <1>6 DEF D!Outcome, D!Show, D!Page
  <2>2. /\ shown' \in [D!Page -> Look] /\ "settings" \in D!Page
        /\ \A q \in D!Page : shown'[q] = IF q # p THEN shown[q] ELSE IF succeeded THEN "subscribed" ELSE "error"
    BY <1>4, <2>1 DEF D!Page, Look
  <2>3. \A q \in D!Page : shown'[q] = "subscribed" =>
           \/ q # p /\ shown[q] = "subscribed"
           \/ q = p /\ x.pc \notin D!Enabling /\ (x.handled # 0 => x.handled \in taken')
    BY <1>3, <1>4, <2>2
  <2>4. shown'["settings"] \in {"closed", "checking"} =>
           p # "settings" /\ shown["settings"] \in {"closed", "checking"}
    BY <2>2
  <2> HIDE DEF x
  <2> QED BY <1>2, <1>3, <1>4, <2>2, <2>3, <2>4, ActivityKeeps
<1> QED BY <1>5, <1>6 DEF D!Activity

LEMMA StoreKeeps ==
    ASSUME D!DeviceInv, NEW p \in D!Activity, D!Store(p)
    PROVE  D!DeviceInv'
<1> USE DEF D!At, D!browser, D!history
<1> DEFINE x(pc) == [work[p] EXCEPT !.pc = pc]
<1>1. D!TypeOK /\ D!HandedIsStored /\ D!EnabledIsStored /\ D!EnablingIsShown
  BY DEF D!DeviceInv
<1>2. /\ work[p] \in WorkRecord /\ work[p].pc = "store" /\ work[p].handled \in D!Subscription
      /\ UNCHANGED <<permission, local, issued>> /\ failures' \in 0..MaxFailures
  BY <1>1, DeviceTables, FailuresAreBounded DEF D!Store, D!HandedIsStored, WorkRecord
<1>3. \A pc \in {"idle", "stored"} : x(pc) \in WorkRecord /\ x(pc).pc = pc /\ x(pc).handled = work[p].handled
  <2>1. {"idle", "stored"} \subseteq D!Step
    BY DEF D!Step
  <2> QED BY <1>2, <2>1, Moved
<1>4. CASE D!Activate(work[p].handled) /\ D!Goto(p, "stored") /\ UNCHANGED shown
  <2>1. /\ active' = active \cup {work[p].handled} /\ taken' = taken \cup {work[p].handled}
        /\ lapsed' = IF work[p].handled = local THEN D!None ELSE lapsed
        /\ work' = [work EXCEPT ![p] = x("stored")]
    BY <1>4 DEF D!Activate, D!Goto
  <2>2. D!InactiveIsKnown'
    BY <1>2, <1>3, <2>1, KnownMoves
  <2>3. /\ permission' \in {"default", "granted", "denied"} /\ shown' \in [D!Page -> Look]
        /\ local' \in {0} \cup D!Subscription /\ issued' \in {0} \cup D!Subscription
        /\ active' \subseteq D!Subscription /\ taken' \subseteq D!Subscription /\ taken \subseteq taken'
        /\ lapsed' \in D!Way \cup {D!None}
    BY <1>1, <1>2, <1>4, <2>1, DeviceTables
  <2>4. /\ \A q \in D!Page : shown'[q] = "subscribed" => q # p /\ shown[q] = "subscribed"
        /\ shown'["settings"] \in {"closed", "checking"} =>
              p # "settings" /\ shown["settings"] \in {"closed", "checking"}
    BY <1>1, <1>2, <1>4 DEF D!EnablingIsShown, D!Enabling
  <2>5. /\ x("stored") \in WorkRecord /\ x("stored").pc = "stored" /\ x("stored").handled \in taken'
    BY <1>3, <2>1
  <2> HIDE DEF x
  <2> QED BY <1>2, <2>1, <2>2, <2>3, <2>4, <2>5, ActivityKeeps
<1>5. CASE D!Inactive(work[p].handled, "refused") /\ D!Outcome(p, FALSE)
  <2>1. /\ UNCHANGED <<active, taken>>
        /\ lapsed' \in {lapsed, D!None, "refused"}
        /\ work[p].handled = local => local \in {0} \cup active' \/ lapsed' # D!None
        /\ work[p].handled # local => lapsed' = lapsed
    BY <1>5 DEF D!Inactive, D!Lapse, D!None
  <2>2. work' = [work EXCEPT ![p] = x("idle")] /\ x("idle") \in WorkRecord
    BY <1>3, <1>5 DEF D!Outcome, D!Goto
  <2>3. D!InactiveIsKnown'
    <3> HIDE DEF x
    <3> QED BY <1>2, <2>1, <2>2, KnownMoves
  <2>4. active' \subseteq D!Subscription /\ lapsed' \in D!Way \cup {D!None}
    BY <1>1, <2>1, DeviceTables DEF D!Way
  <2>5. D!Outcome(p, FALSE)
    BY <1>5
  <2> QED BY <1>2, <2>1, <2>3, <2>4, <2>5, OutcomeKeeps
<1> QED BY <1>4, <1>5 DEF D!Store

LEMMA StoredKeeps ==
    ASSUME D!DeviceInv, NEW p \in D!Activity, D!Stored(p)
    PROVE  D!DeviceInv'
<1> USE DEF D!At, D!browser, D!history
<1>1. D!TypeOK /\ D!HandedIsStored
  BY DEF D!DeviceInv
<1>2. /\ UNCHANGED <<permission, local, issued, active, taken, lapsed>> /\ failures' \in 0..MaxFailures
      /\ work[p] \in WorkRecord /\ work[p].pc = "stored" /\ work[p].handled \in taken
      /\ active' \subseteq D!Subscription /\ lapsed' \in D!Way \cup {D!None}
  BY <1>1, DeviceTables, FailuresAreBounded DEF D!Stored, D!HandedIsStored
<1>3. PICK succeeded \in BOOLEAN : D!Outcome(p, succeeded)
  BY DEF D!Stored
<1>4. D!InactiveIsKnown'
  <2> DEFINE x == [work[p] EXCEPT !.pc = "idle"]
  <2>1. x \in WorkRecord /\ work' = [work EXCEPT ![p] = x]
    BY <1>2, <1>3, Moved DEF D!Outcome, D!Goto, D!Step
  <2> HIDE DEF x
  <2> QED BY <1>2, <2>1, KnownStays
<1> QED BY <1>2, <1>3, <1>4, OutcomeKeeps

LEMMA PanelFollowKeeps ==
    ASSUME D!DeviceInv, D!Follow \/ D!Synchronise
    PROVE  D!DeviceInv'
<1> USE DEF D!At, D!browser, D!history
<1>1. D!TypeOK /\ "follow" \in D!Activity
  BY DEF D!DeviceInv, D!Activity
<1>2. /\ UNCHANGED <<permission, local, issued, active, taken, lapsed>> /\ failures' \in 0..MaxFailures
      /\ permission' \in {"default", "granted", "denied"}
      /\ work["follow"] \in WorkRecord /\ work["follow"].pc \in {"idle", "sync"}
  BY <1>1, DeviceTables DEF D!Follow, D!Synchronise
<1>3. ASSUME NEW x \in WorkRecord, work' = [work EXCEPT !["follow"] = x], x.pc # "stored",
             x.pc = "store" => x.handled # 0,
             UNCHANGED shown \/ \E look \in Look \ {"subscribed"} : shown' = [shown EXCEPT !["panel"] = look]
      PROVE  D!DeviceInv'
  <2>1. CASE UNCHANGED shown
    BY <1>1, <1>2, <1>3, <2>1, WorkMoves
  <2>2. ASSUME NEW look \in Look \ {"subscribed"}, shown' = [shown EXCEPT !["panel"] = look]
        PROVE  D!DeviceInv'
    BY <1>2, <1>3, <2>2, PanelMoves
  <2> QED BY <1>3, <2>1, <2>2
<1>4. {"offer", "denied", "closed"} \subseteq Look \ {"subscribed"} /\ D!Availability \in {"offer", "denied"}
  BY DEF Look, D!Availability
<1>5. CASE D!Follow
  <2>1. PICK offered \in BOOLEAN :
           IF permission = "granted"
           THEN /\ work' = [work EXCEPT !["follow"] = [D!Nothing EXCEPT !.pc = "sync", !.offered = offered]]
                /\ UNCHANGED shown
           ELSE D!Show("panel", IF offered THEN D!Availability ELSE "closed") /\ UNCHANGED work
    BY <1>5 DEF D!Follow
  <2>2. CASE permission = "granted"
    <3> DEFINE x == [D!Nothing EXCEPT !.pc = "sync", !.offered = offered]
    <3>1. x \in WorkRecord /\ x.pc = "sync"
      BY DEF D!Nothing, WorkRecord, D!Step
    <3>2. work' = [work EXCEPT !["follow"] = x] /\ UNCHANGED shown
      BY <2>1, <2>2
    <3> HIDE DEF x
    <3> QED BY <1>3, <3>1, <3>2
  <2>3. CASE permission # "granted"
    <3>1. /\ work' = [work EXCEPT !["follow"] = work["follow"]]
          /\ \E look \in Look \ {"subscribed"} : shown' = [shown EXCEPT !["panel"] = look]
      BY <1>1, <1>4, <2>1, <2>3, DeviceTables DEF D!Show
    <3>2. work["follow"].pc = "idle"
      BY <1>5 DEF D!Follow
    <3> QED BY <1>2, <1>3, <3>1, <3>2
  <2> QED BY <2>2, <2>3
<1>6. CASE D!Synchronise
  <2>1. CASE local # 0
    <3> DEFINE x == [work["follow"] EXCEPT !.pc = "store", !.handled = local]
    <3>1. x \in WorkRecord /\ x.pc = "store" /\ x.handled = local
      <4>1. local \in {0} \cup D!Subscription /\ "store" \in D!Step
        BY <1>1, DeviceTables DEF D!Step
      <4> QED BY <1>2, <4>1 DEF WorkRecord
    <3>2. work' = [work EXCEPT !["follow"] = x] /\ UNCHANGED shown
      BY <1>6, <2>1 DEF D!Synchronise, D!Hand
    <3> HIDE DEF x
    <3> QED BY <1>3, <2>1, <3>1, <3>2
  <2>2. CASE local = 0
    <3> DEFINE x == [work["follow"] EXCEPT !.pc = "idle"]
    <3>1. x \in WorkRecord /\ x.pc = "idle"
      BY <1>2, Moved DEF D!Step
    <3>2. /\ work' = [work EXCEPT !["follow"] = x]
          /\ \E look \in {"offer", "closed"} : shown' = [shown EXCEPT !["panel"] = look]
      BY <1>6, <2>2 DEF D!Synchronise, D!Goto, D!Show
    <3> HIDE DEF x
    <3> QED BY <1>3, <1>4, <3>1, <3>2
  <2> QED BY <2>1, <2>2
<1> QED BY <1>5, <1>6

LEMMA SettingsOpen ==
    ASSUME D!DeviceInv, D!Open \/ D!Detect \/ D!ClickUnsubscribe
    PROVE  D!DeviceInv'
<1> USE DEF D!At, D!browser, D!history
<1>1. D!TypeOK /\ D!EnablingIsShown
  BY DEF D!DeviceInv
<1>2. /\ UNCHANGED <<permission, local, issued, active, taken, lapsed>> /\ failures' \in 0..MaxFailures
      /\ permission' \in {"default", "granted", "denied"}
      /\ work["settings"] \in WorkRecord /\ "settings" \in D!Page /\ "settings" \in D!Activity
      /\ work \in [D!Activity -> WorkRecord]
  BY <1>1, DeviceTables DEF D!Open, D!Detect, D!ClickUnsubscribe
<1>3. CASE D!Open \/ D!Detect
  <2>1. PICK look \in Look : shown' = [shown EXCEPT !["settings"] = look]
    BY <1>3 DEF D!Open, D!Detect, D!Show, Look, D!Classified, D!Availability
  <2>2. /\ work["settings"].pc \notin D!Enabling /\ work["settings"].handled = 0
        /\ work' = [work EXCEPT !["settings"] = work["settings"]]
    BY <1>1, <1>2, <1>3 DEF D!EnablingIsShown, D!Open, D!Detect
  <2>3. CASE work["settings"].pc # "revoked"
    BY <1>2, <2>1, <2>2, <2>3, PageMoves DEF D!Enabling
  <2>4. CASE work["settings"].pc = "revoked"
    <3>1. D!InactiveIsKnown'
      BY <1>2, <2>4, <1>3 DEF D!InactiveIsKnown, D!Open, D!Detect
    <3>2. /\ shown' \in [D!Page -> Look] /\ shown'["settings"] = look
          /\ \A q \in D!Page : q # "settings" => shown'[q] = shown[q]
          /\ local' \in {0} \cup D!Subscription /\ issued' \in {0} \cup D!Subscription
          /\ active' \subseteq D!Subscription /\ taken' \subseteq D!Subscription /\ taken \subseteq taken'
          /\ lapsed' \in D!Way \cup {D!None}
      BY <1>1, <1>2, <2>1, DeviceTables
    <3> QED BY <1>2, <2>2, <2>4, <3>1, <3>2, ActivityKeeps
  <2> QED BY <2>3, <2>4
<1>4. CASE D!ClickUnsubscribe
  <2> DEFINE x == [work["settings"] EXCEPT !.pc = "unsubscribe"]
  <2>1. x \in WorkRecord /\ x.pc = "unsubscribe" /\ x.handled = work["settings"].handled
    BY <1>2, Moved DEF D!Step
  <2>2. work' = [work EXCEPT !["settings"] = x] /\ UNCHANGED shown /\ work["settings"].pc = "idle"
    BY <1>4 DEF D!ClickUnsubscribe, D!Goto
  <2>3. "unsubscribe" \notin D!Enabling
    BY DEF D!Enabling
  <2> HIDE DEF x
  <2> QED BY <1>2, <2>1, <2>2, <2>3, WorkMoves
<1> QED BY <1>3, <1>4

LEMMA SettingsEnds ==
    ASSUME D!DeviceInv, D!Revoke \/ D!RevokedUnanswered \/ D!UnsubscribeBrowser \/ D!Recheck
    PROVE  D!DeviceInv'
<1> USE DEF D!At, D!browser, D!history
<1> DEFINE x(pc) == [work["settings"] EXCEPT !.pc = pc]
<1>1. D!TypeOK
  BY DEF D!DeviceInv
<1>2. /\ work["settings"] \in WorkRecord /\ "settings" \in D!Page /\ "settings" \in D!Activity
      /\ permission \in {"default", "granted", "denied"} /\ local \in {0} \cup D!Subscription
      /\ issued \in {0} \cup D!Subscription /\ active \subseteq D!Subscription
      /\ lapsed \in D!Way \cup {D!None} /\ failures \in 0..MaxFailures
      /\ {"refused", "abandoned", "elsewhere", "unanswered", "kept"} = D!Way /\ D!None = "none"
  BY <1>1, DeviceTables DEF D!Way, D!None
<1>3. {"idle", "revoked", "recheck"} \subseteq D!Step /\ {"idle", "revoked", "recheck"} \cap D!Enabling = {}
  BY DEF D!Step, D!Enabling
<1>4. \A pc \in {"idle", "revoked", "recheck"} :
         x(pc) \in WorkRecord /\ x(pc).pc = pc /\ x(pc).handled = work["settings"].handled
  BY <1>2, <1>3, Moved
<1>5. CASE D!Revoke
  <2>1. UNCHANGED <<permission, local, issued, shown>> /\ failures' \in 0..MaxFailures
    BY <1>5, FailuresAreBounded DEF D!Revoke
  <2>2. CASE D!RevokeAll(D!None) /\ D!Goto("settings", "revoked")
    <3>1. /\ work' = [work EXCEPT !["settings"] = x("revoked")] /\ active' = {} /\ taken' = taken
          /\ lapsed' \in {lapsed, D!None}
      BY <2>2 DEF D!RevokeAll, D!Goto
    <3>2. D!InactiveIsKnown'
      <4>1. work'["settings"] = x("revoked")
        BY <1>1, <1>2, <3>1, DeviceTables
      <4> QED BY <1>4, <4>1 DEF D!InactiveIsKnown
    <3>3. active' \subseteq D!Subscription /\ lapsed' \in D!Way \cup {D!None} /\ x("revoked").pc \notin D!Enabling
      BY <1>2, <1>3, <1>4, <3>1
    <3>4. x("revoked") \in WorkRecord /\ x("revoked").handled = work["settings"].handled
      BY <1>4
    <3> HIDE DEF x
    <3> QED BY <1>2, <2>1, <3>1, <3>2, <3>3, <3>4, SettingsPageMoves
  <2>3. CASE D!Goto("settings", "idle") /\ UNCHANGED <<active, taken, lapsed>>
    <3>1. work' = [work EXCEPT !["settings"] = x("idle")] /\ work["settings"].pc = "unsubscribe"
      BY <1>5, <2>3 DEF D!Goto, D!Revoke
    <3>2. x("idle") \in WorkRecord /\ x("idle").pc = "idle" /\ x("idle").handled = work["settings"].handled
      BY <1>4
    <3> HIDE DEF x
    <3> QED BY <1>2, <1>3, <2>1, <2>3, <3>1, <3>2, WorkMoves
  <2> QED BY <1>5, <2>2, <2>3 DEF D!Revoke
<1>6. CASE D!RevokedUnanswered
  <2>1. /\ UNCHANGED <<permission, local, issued, shown, active, taken>> /\ failures' \in 0..MaxFailures
        /\ work' = [work EXCEPT !["settings"] = x("idle")]
        /\ lapsed' = IF local \in {0} \cup active THEN D!None ELSE "unanswered"
    BY <1>6, FailuresAreBounded DEF D!RevokedUnanswered, D!Lapse, D!Goto
  <2>2. x("idle") \in WorkRecord /\ x("idle").pc \notin D!Enabling /\ x("idle").handled = work["settings"].handled
    BY <1>3, <1>4
  <2>3. D!InactiveIsKnown' /\ lapsed' \in D!Way \cup {D!None}
    BY <1>2, <2>1 DEF D!InactiveIsKnown
  <2> HIDE DEF x
  <2> QED BY <1>2, <2>1, <2>2, <2>3, SettingsPageMoves
<1>7. CASE D!UnsubscribeBrowser
  <2>1. /\ UNCHANGED <<permission, issued, shown, active, taken>> /\ failures' \in 0..MaxFailures
        /\ work' = [work EXCEPT !["settings"] = x("recheck")]
        /\ \/ local' = 0 /\ lapsed' = D!None
           \/ local' = local /\ lapsed' = IF local \in {0} \cup active THEN D!None ELSE "kept"
    BY <1>7, FailuresAreBounded DEF D!UnsubscribeBrowser, D!Lapse, D!Drop, D!Goto
  <2>2. x("recheck") \in WorkRecord /\ x("recheck").pc \notin D!Enabling
        /\ x("recheck").handled = work["settings"].handled
    BY <1>3, <1>4
  <2>3. D!InactiveIsKnown' /\ lapsed' \in D!Way \cup {D!None} /\ local' \in {0} \cup D!Subscription
    BY <1>2, <2>1 DEF D!InactiveIsKnown
  <2> HIDE DEF x
  <2> QED BY <1>2, <2>1, <2>2, <2>3, SettingsPageMoves
<1>8. CASE D!Recheck
  <2>1. /\ UNCHANGED <<permission, local, issued, active, failures, taken, lapsed>>
        /\ work["settings"].pc = "recheck" /\ work' = [work EXCEPT !["settings"] = D!Nothing]
    BY <1>8 DEF D!Recheck
  <2>2. PICK look \in Look : shown' = [shown EXCEPT !["settings"] = look]
    BY <1>8 DEF D!Recheck, D!Show, Look, D!Classified, D!Availability
  <2> QED BY <1>2, <1>3, <2>1, <2>2, NothingIsDone, PageMoves
<1> QED BY <1>5, <1>6, <1>7, <1>8

LEMMA LeaveKeeps ==
    ASSUME D!DeviceInv, NEW p \in D!Page, NEW a \in D!Activity, D!Leave(p, a)
    PROVE  D!DeviceInv'
<1> USE DEF D!At, D!browser, D!history
<1>1. D!TypeOK /\ D!HandedIsStored
  BY DEF D!DeviceInv
<1>2. /\ work[a] \in WorkRecord /\ p \in D!Activity /\ "settings" \in D!Page /\ "follow" \notin D!Page
      /\ UNCHANGED <<permission, local, issued>> /\ failures' \in 0..MaxFailures
      /\ permission \in {"default", "granted", "denied"} /\ local \in {0} \cup D!Subscription
      /\ issued \in {0} \cup D!Subscription /\ active \subseteq D!Subscription
      /\ taken \subseteq D!Subscription /\ lapsed \in D!Way \cup {D!None}
      /\ D!None \notin D!Way /\ "abandoned" \in D!Way /\ shown \in [D!Page -> Look]
      /\ D!Activity = {"settings", "panel", "follow"}
  BY <1>1, DeviceTables, FailuresAreBounded DEF D!Leave, D!Page, D!None, D!Way
<1>3. /\ work' = [work EXCEPT ![a] = D!Nothing]
      /\ shown' = [shown EXCEPT ![p] = "closed"] /\ "closed" \in Look
      /\ a = p \/ (p = "panel" /\ a = "follow")
  BY DEF D!Leave, D!Show, Look
<1>4. /\ active' \subseteq D!Subscription /\ taken' \subseteq D!Subscription /\ taken \subseteq taken'
      /\ lapsed' \in D!Way \cup {D!None}
      /\ \/ local \in {0} \cup active \/ lapsed # D!None
         \/ work[a].pc = "store" /\ work[a].handled = local
         \/ a = "settings" /\ work[a].pc = "revoked"
         => local \in {0} \cup active' \/ lapsed' # D!None
  <2>1. CASE work[a].pc = "store"
    <3>1. work[a].handled \in D!Subscription
      BY <1>1, <1>2, <2>1 DEF D!HandedIsStored, WorkRecord
    <3>2. D!Activate(work[a].handled) \/ D!Inactive(work[a].handled, "abandoned")
      BY <2>1 DEF D!Leave
    <3> QED BY <1>2, <2>1, <3>1, <3>2 DEF D!Activate, D!Inactive, D!Lapse
  <2>2. CASE work[a].pc = "unsubscribe"
    <3>1. D!RevokeAll("abandoned") \/ UNCHANGED <<active, taken, lapsed>>
      BY <2>2 DEF D!Leave
    <3> QED BY <1>2, <2>2, <3>1 DEF D!RevokeAll
  <2>3. CASE work[a].pc = "revoked"
    <3>1. D!Lapse("abandoned")
      BY <2>3 DEF D!Leave
    <3> QED BY <1>2, <2>3, <3>1 DEF D!Lapse
  <2>4. CASE work[a].pc \notin {"store", "unsubscribe", "revoked"}
    <3>1. UNCHANGED <<active, taken, lapsed>>
      BY <2>4 DEF D!Leave
    <3> QED BY <1>2, <2>4, <3>1
  <2> QED BY <2>1, <2>2, <2>3, <2>4
<1>5. D!InactiveIsKnown'
  BY <1>2, <1>3, <1>4, NothingIsDone, KnownMoves
<1>6. /\ shown' \in [D!Page -> Look]
      /\ \A q \in D!Page : shown'[q] = IF q = p THEN "closed" ELSE shown[q]
  BY <1>2, <1>3
<1>7. \A q \in D!Page : shown'[q] = "subscribed" =>
         \/ q # a /\ shown[q] = "subscribed"
         \/ q = a /\ D!Nothing.pc \notin D!Enabling /\ (D!Nothing.handled # 0 => D!Nothing.handled \in taken')
  BY <1>2, <1>3, <1>6
<1>8. shown'["settings"] \in {"closed", "checking"} =>
         \/ a # "settings" /\ shown["settings"] \in {"closed", "checking"}
         \/ a = "settings" /\ D!Nothing.pc \notin D!Enabling /\ D!Nothing.handled = 0
  BY <1>2, <1>3, <1>6, NothingIsDone DEF D!Enabling
<1> QED BY <1>2, <1>3, <1>4, <1>5, <1>6, <1>7, <1>8, NothingIsDone, ActivityKeeps

LEMMA OutsideSteps ==
    ASSUME D!DeviceInv,
           D!SetPermission \/ D!UnsubscribeElsewhere \/ \E s \in D!Subscription : D!CleanUp(s)
    PROVE  D!DeviceInv'
<1> USE DEF D!At, D!browser, D!history
<1>1. D!TypeOK /\ D!InactiveIsKnown
  BY DEF D!DeviceInv
<1>2. /\ permission \in {"default", "granted", "denied"} /\ local \in {0} \cup D!Subscription
      /\ active \subseteq D!Subscription /\ lapsed \in D!Way \cup {D!None} /\ failures \in 0..MaxFailures
      /\ "elsewhere" \in D!Way /\ D!None \notin D!Way
  BY <1>1, DeviceTables DEF D!Way, D!None
<1>3. CASE D!SetPermission
  <2>1. /\ UNCHANGED <<issued, active, shown, work, taken>> /\ failures' \in 0..MaxFailures
        /\ permission' \in {"default", "granted", "denied"}
        /\ (local' = 0 /\ lapsed' = D!None) \/ UNCHANGED <<local, lapsed>>
    BY <1>3, FailuresAreBounded DEF D!SetPermission, D!Drop
  <2>2. D!InactiveIsKnown'
    BY <1>1, <2>1 DEF D!InactiveIsKnown
  <2> QED BY <1>2, <2>1, <2>2, OutsideKeeps
<1>4. CASE D!UnsubscribeElsewhere
  <2>1. /\ UNCHANGED <<permission, local, issued, shown, work, failures, taken>> /\ active' = {}
        /\ lapsed' = IF local \in active THEN "elsewhere" ELSE lapsed
    BY <1>4 DEF D!UnsubscribeElsewhere, D!RevokeAll
  <2>2. D!InactiveIsKnown'
    BY <1>1, <1>2, <2>1 DEF D!InactiveIsKnown
  <2> QED BY <1>2, <2>1, <2>2, OutsideKeeps
<1>5. ASSUME NEW s \in D!Subscription, D!CleanUp(s) PROVE D!DeviceInv'
  <2>1. /\ UNCHANGED <<permission, local, issued, shown, work, failures, taken, lapsed>>
        /\ active' = active \ {s} /\ s # local
    BY <1>5 DEF D!CleanUp
  <2>2. D!InactiveIsKnown'
    BY <1>1, <1>2, <2>1 DEF D!InactiveIsKnown
  <2> QED BY <1>2, <2>1, <2>2, OutsideKeeps
<1> QED BY <1>3, <1>4, <1>5

LEMMA DeviceInit == D!Init => D!DeviceInv
<1> SUFFICES ASSUME D!Init PROVE D!DeviceInv
  OBVIOUS
<1>1. 0 \in 0..MaxFailures
  BY PartsAssumption DEF D!DeviceAssumption
<1>2. D!TypeOK
  BY <1>1 DEF D!Init, D!TypeOK, D!Nothing, D!Step, D!Subscription, D!None
<1>3. "idle" \notin D!Enabling /\ "settings" \in D!Page /\ D!Page \subseteq D!Activity
  BY DEF D!Enabling, D!Page, D!Activity
<1> QED BY <1>2, <1>3 DEF D!Init, D!DeviceInv, D!EnabledIsStored, D!InactiveIsKnown, D!HandedIsStored,
   D!EnablingIsShown, D!At, D!Nothing

LEMMA DeviceStep == D!DeviceInv /\ [D!Next]_(D!vars) => D!DeviceInv'
<1> SUFFICES ASSUME D!DeviceInv, [D!Next]_(D!vars) PROVE D!DeviceInv'
  OBVIOUS
<1>1. CASE UNCHANGED D!vars
  BY <1>1 DEF D!vars, D!browser, D!history, D!DeviceInv, D!TypeOK, D!EnabledIsStored, D!InactiveIsKnown,
     D!HandedIsStored, D!EnablingIsShown, D!At
<1> QED
  BY <1>1, ActivationKeeps, SubscribeKeeps, StoreKeeps, StoredKeeps, PanelFollowKeeps, SettingsOpen, SettingsEnds,
     LeaveKeeps, OutsideSteps DEF D!Next, D!Activation, D!Settings

\* Whatever is refused, lost, revoked or left in between, by either page and from
\* elsewhere: a page that turned its device on says so of a subscription the server has
\* stored, and a browser whose subscription has no active row lost it in a known way.
THEOREM DeviceSafety == PartSpec => []DeviceInv
<1>1. PartInit => DeviceInv
  BY DeviceInit DEF PartInit, DeviceInv
<1>2. DeviceInv /\ [PartNext]_all => DeviceInv'
  <2> SUFFICES ASSUME DeviceInv, [PartNext]_all PROVE DeviceInv'
    OBVIOUS
  <2>1. stage' = stage
    BY DEF PartNext, all, Pushing, OnDevice, InSettings, OfWorker
  <2>2. ASSUME stage = "device" PROVE [D!Next]_(D!vars)
    <3>1. Pushing \/ InSettings \/ OfWorker => UNCHANGED device
      BY DEF Pushing, InSettings, OfWorker
    <3> QED BY <3>1 DEF PartNext, all, device, D!vars, D!browser, D!history, D!Next, D!Activation, D!Settings
  <2> QED BY <2>1, <2>2, DeviceStep DEF DeviceInv
<1> QED BY <1>1, <1>2, PTL DEF PartSpec

-----------------------------------------------------------------------------
(* ServiceWorker.                                                           *)

Versions == {W!NoWorker} \cup W!Version
TabRecord ==
    [version : {0} \cup W!Version, registered : BOOLEAN, controlled : BOOLEAN,
     prompt : Versions, asked : BOOLEAN]

LEMMA Tables ==
    ASSUME W!TypeOK
    PROVE  /\ W!Version = 1..MaxVersions /\ MaxVersions \in Nat \ {0} /\ W!NoWorker = 0
           /\ deployed \in W!Version /\ installing \in Versions /\ waiting \in Versions
           /\ current \in Versions /\ W!NoWorker \notin W!Version
           /\ activating \in BOOLEAN /\ doomed \in BOOLEAN /\ skip \in BOOLEAN
           /\ latest \subseteq W!Version /\ missed \subseteq Tab
           /\ shell \in [W!Version -> {"absent", "empty", "complete"}]
           /\ tab \in [Tab -> TabRecord]
BY PartsAssumption DEF W!TypeOK, W!WorkerAssumption, W!Version, W!NoWorker, Versions, TabRecord

LEMMA NewTab ==
    ASSUME W!TypeOK, NEW b \in BOOLEAN
    PROVE  /\ W!Closed \in TabRecord
           /\ LET t == [W!Closed EXCEPT !.version = deployed, !.controlled = b]
              IN  t \in TabRecord /\ ~t.registered
           /\ ~W!Closed.registered
<1>1. deployed \in W!Version /\ W!NoWorker \in Versions
  BY Tables DEF Versions
<1>2. W!Closed \in TabRecord /\ W!Closed.registered = FALSE
  BY <1>1, Tables DEF W!Closed, TabRecord
<1> QED BY <1>1, <1>2 DEF TabRecord, W!Closed

\* One tab changes; of the worker, at most what installs.
LEMMA TabsKeep ==
    ASSUME W!WorkerInv, UNCHANGED <<deployed, waiting, current, activating, failed, swept>>,
           tab' \in [Tab -> TabRecord], installing' \in Versions,
           doomed' \in BOOLEAN, skip' \in BOOLEAN, latest' \subseteq W!Version,
           missed' \subseteq Tab, unheard' \subseteq Tab,
           shell' \in [W!Version -> {"absent", "empty", "complete"}],
           \A v \in W!Version : shell[v] = "complete" => shell'[v] = "complete",
           \A t \in Tab : waiting # W!NoWorker /\ tab'[t].registered =>
              tab'[t].prompt = waiting \/ t \in unheard'
    PROVE  W!WorkerInv'
<1>1. W!TypeOK /\ W!ActiveIsUsable /\ W!WaitingIsUsable
  BY DEF W!WorkerInv
<1>2. W!TypeOK'
  BY <1>1 DEF W!TypeOK, Versions, TabRecord
<1>3. W!ActiveIsUsable' /\ W!WaitingIsUsable'
  BY <1>1, Tables DEF W!ActiveIsUsable, W!WaitingIsUsable, W!IsUsable, Versions
<1>4. W!WaitingIsOffered'
  BY DEF W!WaitingIsOffered
<1> QED BY <1>2, <1>3, <1>4 DEF W!WorkerInv

LEMMA DeployKeeps ==
    ASSUME W!WorkerInv, W!Deploy
    PROVE  W!WorkerInv'
<1>1. W!TypeOK /\ W!ActiveIsUsable /\ W!WaitingIsUsable /\ W!WaitingIsOffered
  BY DEF W!WorkerInv
<1>2. deployed' \in W!Version
  BY <1>1, Tables DEF W!Deploy
<1> QED BY <1>1, <1>2 DEF W!Deploy, W!history, W!WorkerInv, W!TypeOK, W!ActiveIsUsable,
     W!WaitingIsUsable, W!IsUsable, W!WaitingIsOffered

\* A worker that starts to install leaves what is stored.
LEMMA InstallsKeeps ==
    ASSUME W!TypeOK, NEW v \in W!Version, W!Installs(v)
    PROVE  /\ installing' \in Versions /\ doomed' \in BOOLEAN /\ latest' \subseteq W!Version
           /\ shell' \in [W!Version -> {"absent", "empty", "complete"}]
           /\ \A u \in W!Version : shell[u] = "complete" => shell'[u] = "complete"
BY Tables DEF W!Installs, Versions

LEMMA TabStep ==
    ASSUME W!WorkerInv, NEW t \in Tab,
           \/ W!Load(t) \/ W!Close(t) \/ W!Register(t) \/ W!Update(t)
           \/ W!ApplyUpdate(t) \/ W!Navigate(t)
    PROVE  W!WorkerInv'
<1> USE DEF W!registration, W!history
<1>1. W!TypeOK /\ W!WaitingIsOffered
  BY DEF W!WorkerInv
<1>2. /\ tab \in [Tab -> TabRecord] /\ tab[t] \in TabRecord
      /\ installing \in Versions /\ waiting \in Versions /\ current \in Versions
      /\ activating \in BOOLEAN /\ doomed \in BOOLEAN /\ skip \in BOOLEAN
      /\ shell \in [W!Version -> {"absent", "empty", "complete"}]
      /\ unheard \subseteq Tab /\ missed \subseteq Tab /\ latest \subseteq W!Version
      /\ UNCHANGED <<deployed, waiting, current, activating, failed, swept>>
  BY <1>1, Tables DEF W!TypeOK, W!Load, W!Close, W!Register, W!Update, W!ApplyUpdate, W!Navigate
<1>3. \A s \in Tab : waiting # W!NoWorker /\ tab[s].registered => tab[s].prompt = waiting \/ s \in unheard
  BY <1>1 DEF W!WaitingIsOffered
<1>4. ASSUME NEW a \in TabRecord, tab' = [tab EXCEPT ![t] = a]
      PROVE  tab' \in [Tab -> TabRecord] /\ \A s \in Tab : tab'[s] = IF s = t THEN a ELSE tab[s]
  BY <1>2, <1>4
<1>5. W!Loaded \in TabRecord /\ ~W!Loaded.registered
  <2>1. PICK b \in BOOLEAN : b = (current # W!NoWorker)
    OBVIOUS
  <2>2. W!Loaded = [W!Closed EXCEPT !.version = deployed, !.controlled = b]
    BY <2>1 DEF W!Loaded
  <2> QED BY <1>1, <2>2, NewTab
<1>6. CASE W!Load(t)
  <2>1. tab' = [tab EXCEPT ![t] = W!Loaded] /\ UNCHANGED <<installing, doomed, skip, latest, shell, missed, unheard>>
    BY <1>6 DEF W!Load
  <2>2. tab' \in [Tab -> TabRecord] /\ \A s \in Tab : tab'[s] = IF s = t THEN W!Loaded ELSE tab[s]
    BY <1>4, <1>5, <2>1
  <2> QED BY <1>2, <1>3, <1>5, <2>1, <2>2, TabsKeep
<1>7. CASE W!Close(t)
  <2>1. /\ tab' = [tab EXCEPT ![t] = W!Closed]
        /\ missed' = missed \ {t} /\ unheard' = unheard \ {t}
        /\ UNCHANGED <<installing, doomed, skip, latest, shell>>
    BY <1>7 DEF W!Close
  <2>2. W!Closed \in TabRecord /\ ~W!Closed.registered
    BY <1>1, NewTab
  <2>3. tab' \in [Tab -> TabRecord] /\ \A s \in Tab : tab'[s] = IF s = t THEN W!Closed ELSE tab[s]
    BY <1>4, <2>1, <2>2
  <2> QED BY <1>2, <1>3, <2>1, <2>2, <2>3, TabsKeep
<1>8. CASE W!Register(t)
  <2> DEFINE a == [tab[t] EXCEPT !.registered = TRUE, !.prompt = waiting]
  <2>1. a \in TabRecord /\ a.prompt = waiting
    BY <1>2 DEF TabRecord
  <2>2. tab' = [tab EXCEPT ![t] = a]
    BY <1>2, <1>8 DEF W!Register, TabRecord
  <2> HIDE DEF a
  <2>3. tab' \in [Tab -> TabRecord] /\ \A s \in Tab : tab'[s] = IF s = t THEN a ELSE tab[s]
    BY <1>4, <2>1, <2>2
  <2>4. /\ UNCHANGED skip /\ unheard' = unheard \ {t}
        /\ missed' = {u \in missed \cup {t} : installing # W!NoWorker}
    BY <1>8 DEF W!Register
  <2>5. missed' \subseteq Tab /\ unheard' \subseteq Tab
    BY <1>2, <2>4
  <2>6. /\ installing' \in Versions /\ doomed' \in BOOLEAN /\ latest' \subseteq W!Version
        /\ shell' \in [W!Version -> {"absent", "empty", "complete"}]
        /\ \A v \in W!Version : shell[v] = "complete" => shell'[v] = "complete"
    <3>1. CASE tab[t].version = W!Newest
      BY <1>2, <1>8, <3>1 DEF W!Register
    <3>2. CASE tab[t].version # W!Newest
      <4>1. W!Installs(tab[t].version) /\ tab[t].version \in W!Version
        BY <1>1, <1>2, <1>8, <3>2, Tables DEF W!Register, W!IsOpen, TabRecord
      <4> QED BY <1>1, <4>1, InstallsKeeps
    <3> QED BY <3>1, <3>2
  <2>7. \A s \in Tab : waiting # W!NoWorker /\ tab'[s].registered => tab'[s].prompt = waiting \/ s \in unheard'
    BY <1>3, <2>1, <2>3, <2>4
  <2> QED BY <1>2, <2>3, <2>4, <2>5, <2>6, <2>7, TabsKeep
<1>9. CASE W!ApplyUpdate(t)
  <2> DEFINE a == [tab[t] EXCEPT !.asked = TRUE]
  <2>1. a \in TabRecord /\ a.prompt = tab[t].prompt /\ a.registered = tab[t].registered
    BY <1>2 DEF TabRecord
  <2>2. tab' = [tab EXCEPT ![t] = a]
    BY <1>9 DEF W!ApplyUpdate
  <2> HIDE DEF a
  <2>3. tab' \in [Tab -> TabRecord] /\ \A s \in Tab : tab'[s] = IF s = t THEN a ELSE tab[s]
    BY <1>4, <2>1, <2>2
  <2>4. skip' \in BOOLEAN
    <3>1. (skip \/ tab[t].prompt = waiting) \in BOOLEAN
      OBVIOUS
    <3> QED BY <1>9, <3>1, Zenon DEF W!ApplyUpdate
  <2>5. UNCHANGED <<installing, doomed, latest, shell, missed, unheard>>
    BY <1>9 DEF W!ApplyUpdate
  <2> QED BY <1>2, <1>3, <2>1, <2>3, <2>4, <2>5, TabsKeep
<1>10. CASE W!Navigate(t)
  <2>1. /\ tab' = [tab EXCEPT ![t] = W!Loaded]
        /\ missed' = missed \ {t} /\ unheard' = unheard \ {t}
        /\ UNCHANGED <<installing, doomed, skip, latest>>
    BY <1>10 DEF W!Navigate
  <2>2. tab' \in [Tab -> TabRecord] /\ \A s \in Tab : tab'[s] = IF s = t THEN W!Loaded ELSE tab[s]
    BY <1>4, <1>5, <2>1
  <2>3. /\ shell' \in [W!Version -> {"absent", "empty", "complete"}]
        /\ \A v \in W!Version : shell[v] = "complete" => shell'[v] = "complete"
    BY <1>2, <1>10 DEF W!Navigate
  <2> QED BY <1>2, <1>3, <1>5, <2>1, <2>2, <2>3, TabsKeep
<1>11. CASE W!Update(t)
  <2>1. W!Installs(W!Newest) /\ W!Newest \in W!Version
    BY <1>2, <1>11 DEF W!Update, W!Newest, Versions
  <2>2. UNCHANGED <<skip, tab, missed, unheard>>
    BY <1>11 DEF W!Update, W!history
  <2>3. /\ installing' \in Versions /\ doomed' \in BOOLEAN /\ latest' \subseteq W!Version
        /\ shell' \in [W!Version -> {"absent", "empty", "complete"}]
        /\ \A u \in W!Version : shell[u] = "complete" => shell'[u] = "complete"
    BY <1>1, <2>1, InstallsKeeps
  <2> QED BY <1>2, <1>3, <2>2, <2>3, TabsKeep
<1> QED BY <1>6, <1>7, <1>8, <1>9, <1>10, <1>11

\* A tab that is taken over: its page is a new one, or it goes on.
LEMMA Taken ==
    ASSUME W!TypeOK, NEW t \in Tab
    PROVE  /\ W!Controlled(t) \in TabRecord
           /\ W!Controlled(t).registered => tab[t].registered /\ W!Controlled(t).prompt = tab[t].prompt
<1>1. tab[t] \in TabRecord /\ deployed \in W!Version
  BY Tables
<1>2. CASE tab[t].asked
  BY <1>2, NewTab DEF W!Controlled
<1>3. CASE ~tab[t].asked
  <2>1. W!Controlled(t) = [tab[t] EXCEPT !.controlled = TRUE]
    BY <1>3 DEF W!Controlled
  <2> QED BY <1>1, <2>1 DEF TabRecord
<1> QED BY <1>2, <1>3

LEMMA InstallKeeps ==
    ASSUME W!WorkerInv, W!Install \/ W!InstallFails
    PROVE  W!WorkerInv'
<1>1. W!TypeOK /\ W!ActiveIsUsable /\ W!WaitingIsUsable /\ W!WaitingIsOffered
  BY DEF W!WorkerInv
<1>2. /\ tab \in [Tab -> TabRecord]
      /\ installing \in W!Version /\ waiting \in Versions /\ current \in Versions
      /\ W!NoWorker \in Versions /\ W!NoWorker \notin W!Version
      /\ doomed \in BOOLEAN
      /\ shell \in [W!Version -> {"absent", "empty", "complete"}]
      /\ unheard \subseteq Tab /\ swept \subseteq W!Version /\ failed \in 0..MaxFailures
      /\ latest' \subseteq W!Version /\ missed' \subseteq Tab
      /\ UNCHANGED <<deployed, doomed, current, activating>>
  <2>1. installing \in W!Version
    BY <1>1, Tables DEF W!Install, W!InstallFails, Versions
  <2> QED BY <1>1, <2>1, Tables DEF W!TypeOK, W!Install, W!InstallFails, Versions
<1>3. CASE W!Install
  <2> DEFINE heard == {t \in Tab \ missed : tab[t].registered /\ tab[t].controlled}
  <2>1. /\ waiting' = installing /\ installing' = W!NoWorker /\ skip' = FALSE
        /\ shell' = [shell EXCEPT ![installing] = IF doomed THEN @ ELSE "complete"]
        /\ swept' = (IF doomed THEN swept \cup {installing} ELSE swept \ {installing})
        /\ UNCHANGED failed
        /\ tab' = [t \in Tab |-> IF t \in heard THEN [tab[t] EXCEPT !.prompt = installing] ELSE tab[t]]
        /\ unheard' = {t \in Tab : tab[t].registered} \ heard
    BY <1>3 DEF W!Install
  <2>2. /\ tab' \in [Tab -> TabRecord]
        /\ \A t \in Tab : tab'[t].registered =>
              tab'[t].prompt = installing \/ t \in unheard'
    <3> HIDE DEF heard
    <3>1. ASSUME NEW t \in Tab, t \in heard
          PROVE  tab'[t] \in TabRecord /\ tab'[t].prompt = installing
      BY <1>2, <2>1, <3>1 DEF TabRecord, Versions
    <3>2. ASSUME NEW t \in Tab, t \notin heard
          PROVE  tab'[t] = tab[t] /\ tab'[t] \in TabRecord /\ (tab[t].registered => t \in unheard')
      BY <1>2, <2>1, <3>2
    <3>3. tab' \in [Tab -> TabRecord]
      BY <2>1, <3>1, <3>2
    <3> QED BY <3>1, <3>2, <3>3
  <2>3. /\ shell' \in [W!Version -> {"absent", "empty", "complete"}]
        /\ swept' \subseteq W!Version /\ unheard' \subseteq Tab
    <3>1. unheard' \subseteq Tab
      BY <2>1
    <3> QED BY <1>2, <2>1, <3>1
  <2>4. \A v \in W!Version : v = installing \/ W!IsUsable(v) => W!IsUsable(v)'
    BY <1>2, <2>1 DEF W!IsUsable
  <2>5. W!ActiveIsUsable' /\ W!WaitingIsUsable'
    BY <1>1, <1>2, <2>1, <2>4 DEF W!ActiveIsUsable, W!WaitingIsUsable, W!IsUsable, Versions
  <2>6. W!WaitingIsOffered'
    BY <2>1, <2>2 DEF W!WaitingIsOffered
  <2> HIDE DEF heard
  <2>7. W!TypeOK'
    BY <1>1, <1>2, <2>1, <2>2, <2>3 DEF W!TypeOK, Versions, TabRecord
  <2> QED BY <2>5, <2>6, <2>7 DEF W!WorkerInv
<1>4. CASE W!InstallFails
  <2>1. /\ installing' = W!NoWorker /\ UNCHANGED <<waiting, skip, shell, tab, swept, unheard>>
        /\ failed' = failed + 1 /\ failed < MaxFailures
    BY <1>4 DEF W!InstallFails, W!history
  <2>2. failed' \in 0..MaxFailures
    BY <1>2, <2>1, PartsAssumption DEF W!WorkerAssumption
  <2>3. W!TypeOK'
    BY <1>1, <1>2, <2>1, <2>2 DEF W!TypeOK, Versions, TabRecord
  <2> QED BY <1>1, <1>2, <2>1, <2>3 DEF W!WorkerInv, W!ActiveIsUsable, W!WaitingIsUsable, W!IsUsable,
     W!WaitingIsOffered
<1> QED BY <1>3, <1>4

LEMMA ActivateKeeps ==
    ASSUME W!WorkerInv, W!Activate \/ W!OnActivate
    PROVE  W!WorkerInv'
<1>1. W!TypeOK /\ W!ActiveIsUsable /\ W!WaitingIsUsable /\ W!WaitingIsOffered
  BY DEF W!WorkerInv
<1>2. /\ tab \in [Tab -> TabRecord]
      /\ installing \in Versions /\ waiting \in Versions /\ current \in Versions
      /\ W!NoWorker \in Versions
      /\ doomed \in BOOLEAN
      /\ shell \in [W!Version -> {"absent", "empty", "complete"}]
      /\ unheard \subseteq Tab /\ swept \subseteq W!Version
  BY <1>1, Tables DEF W!TypeOK, Versions
<1>3. CASE W!Activate
  <2>1. /\ current' = waiting /\ waiting' = W!NoWorker /\ activating' = TRUE /\ skip' = FALSE
        /\ unheard' = {}
        /\ UNCHANGED <<deployed, installing, doomed, latest, shell, missed, failed, swept>>
        /\ tab' = [t \in Tab |-> IF tab[t].controlled THEN W!Controlled(t) ELSE tab[t]]
    BY <1>3 DEF W!Activate
  <2>2. tab' \in [Tab -> TabRecord]
    BY <1>1, <1>2, <2>1, Taken
  <2>3. W!TypeOK'
    BY <1>1, <1>2, <2>1, <2>2 DEF W!TypeOK, Versions, TabRecord
  <2> QED BY <1>1, <2>1, <2>3 DEF W!WorkerInv, W!ActiveIsUsable, W!WaitingIsUsable, W!IsUsable,
     W!WaitingIsOffered
<1>4. CASE W!OnActivate
  <2>1. /\ activating' = FALSE /\ UNCHANGED <<deployed, installing, waiting, current, skip>>
        /\ UNCHANGED <<latest, missed, failed, unheard>>
        /\ shell' = [v \in W!Version |-> IF v = current THEN shell[v] ELSE "absent"]
        /\ doomed' = (doomed \/ installing # current)
        /\ swept' = swept \cup ({waiting} \ {W!NoWorker, current})
        /\ tab' = [t \in Tab |-> IF W!IsOpen(t) /\ ~tab[t].controlled THEN W!Controlled(t) ELSE tab[t]]
    BY <1>4 DEF W!OnActivate
  <2>2. \A t \in Tab : /\ tab'[t] \in TabRecord
                       /\ tab'[t].registered => tab[t].registered /\ tab'[t].prompt = tab[t].prompt
    BY <1>1, <1>2, <2>1, Taken
  <2>3. tab' \in [Tab -> TabRecord]
    <3>1. tab' = [t \in Tab |-> tab'[t]]
      BY <2>1
    <3> QED BY <2>2, <3>1, Zenon
  <2>4. doomed' \in BOOLEAN
    <3>1. (doomed \/ installing # current) \in BOOLEAN
      OBVIOUS
    <3> QED BY <2>1, <3>1, Zenon
  <2>5. shell' \in [W!Version -> {"absent", "empty", "complete"}] /\ swept' \subseteq W!Version
    BY <1>2, <2>1 DEF Versions
  <2>6. W!TypeOK'
    BY <1>1, <1>2, <2>1, <2>3, <2>4, <2>5 DEF W!TypeOK, Versions, TabRecord
  <2>7. W!ActiveIsUsable'
    BY <1>1, <1>2, <2>1 DEF W!ActiveIsUsable, W!IsUsable, Versions
  <2>8. W!WaitingIsUsable'
    BY <1>1, <1>2, <2>1 DEF W!ActiveIsUsable, W!WaitingIsUsable, W!IsUsable, Versions
  <2>9. W!WaitingIsOffered'
    <3> SUFFICES ASSUME NEW t \in Tab, waiting' # W!NoWorker, tab'[t].registered
                 PROVE  tab'[t].prompt = waiting' \/ t \in unheard'
      BY DEF W!WaitingIsOffered
    <3>1. waiting' = waiting /\ unheard' = unheard
      BY <2>1
    <3>2. tab[t].registered /\ tab'[t].prompt = tab[t].prompt
      BY <2>2
    <3> QED BY <1>1, <3>1, <3>2 DEF W!WaitingIsOffered
  <2> QED BY <2>6, <2>7, <2>8, <2>9 DEF W!WorkerInv
<1> QED BY <1>3, <1>4

LEMMA WorkerInit == W!Init => W!WorkerInv
<1> SUFFICES ASSUME W!Init PROVE W!WorkerInv
  OBVIOUS
<1>1. /\ 1 \in W!Version /\ W!NoWorker \in Versions /\ 0 \in 0..MaxFailures
      /\ W!Closed \in TabRecord /\ ~W!Closed.registered
  <2>1. 1 \in W!Version /\ 0 \in 0..MaxFailures
    BY PartsAssumption DEF W!WorkerAssumption, W!Version
  <2> QED BY <2>1 DEF Versions, TabRecord, W!Closed
<1>2. W!TypeOK
  BY <1>1 DEF W!Init, W!TypeOK, Versions, TabRecord
<1> QED BY <1>1, <1>2 DEF W!Init, W!WorkerInv, W!ActiveIsUsable, W!WaitingIsUsable, W!IsUsable, W!WaitingIsOffered

LEMMA WorkerStep == W!WorkerInv /\ [W!Next]_(W!vars) => W!WorkerInv'
<1> SUFFICES ASSUME W!WorkerInv, [W!Next]_(W!vars) PROVE W!WorkerInv'
  OBVIOUS
<1>1. CASE UNCHANGED W!vars
  BY <1>1 DEF W!vars, W!registration, W!history, W!WorkerInv, W!TypeOK, W!ActiveIsUsable, W!WaitingIsUsable,
     W!IsUsable, W!WaitingIsOffered
<1> QED BY <1>1, DeployKeeps, TabStep, InstallKeeps, ActivateKeeps DEF W!Next

\* Through every order of deployments, installs, activations and reloads, the active
\* worker has its offline page unless its caches were deleted before it was active, and
\* an update that waits is offered by every tab that could hear of it.
THEOREM WorkerSafety == PartSpec => []WorkerInv
<1>1. PartInit => WorkerInv
  BY WorkerInit DEF PartInit, WorkerInv
<1>2. WorkerInv /\ [PartNext]_all => WorkerInv'
  <2> SUFFICES ASSUME WorkerInv, [PartNext]_all PROVE WorkerInv'
    OBVIOUS
  <2>1. stage' = stage
    BY DEF PartNext, all, Pushing, OnDevice, InSettings, OfWorker
  <2>2. ASSUME stage = "worker" PROVE [W!Next]_(W!vars)
    <3>1. Pushing \/ OnDevice \/ InSettings => UNCHANGED worker
      BY DEF Pushing, OnDevice, InSettings
    <3> QED BY <3>1 DEF PartNext, all, worker, W!vars, W!registration, W!history, W!Next
  <2> QED BY <2>1, <2>2, WorkerStep DEF WorkerInv
<1> QED BY <1>1, <1>2, PTL DEF PartSpec
=============================================================================
