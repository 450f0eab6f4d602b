------------------------------ MODULE HtmlText ------------------------------
(***************************************************************************)
(* How the visible text of an HTML page is read                             *)
(* (apps/worker/src/parsing/html.ts): one pass over the source with a stack *)
(* of the open elements and a count of the hidden ones among them.  A page  *)
(* is a sequence of pieces: opening and closing tags, comments, texts, and  *)
(* "less" signs that are no tags.  A tag has "slash" if it ends in "/>" and  *)
(* "long" if it is longer than the reader looks for an end; a "less" sign is *)
(* "long" if the next ">" is further off, and "hidden" if the words after it *)
(* read as a hidden attribute.                                              *)
(***************************************************************************)
EXTENDS TextCollector, FiniteSets, FiniteSetsExt

CONSTANTS
    HtmlPage,          \* the pages
    BLOCK_TAGS, HIDDEN_CONTENT_TAGS, VOID_TAGS, CELL_TAGS,
    MaximumTags, MaximumNestingDepth, MaximumOutput

HtmlAssumption ==
    /\ {MaximumTags, MaximumNestingDepth, MaximumOutput} \subseteq Nat
    /\ \A h \in HtmlPage :
        /\ IsSequence(h)
        /\ \A i \in DOMAIN h :
            /\ h[i].is \in {"open", "less"} => h[i].hidden \in BOOLEAN
            /\ h[i].is \in {"open", "close"} => h[i].slash \in BOOLEAN
            /\ h[i].is \in {"open", "close", "less"} => h[i].long \in BOOLEAN

VARIABLES
    html,         \* the page, which does not change
    cursor,       \* the next piece
    stack,        \* open elements, [name, hidden]
    hiddenDepth,  \* how many of them are hidden
    tagsVisited,
    collector,
    outcome,      \* "reading", "done" or "failed"
    swallowed     \* history: tags that a "less" sign took for its own, and long closing ones

vars == <<html, cursor, stack, hiddenDepth, tagsVisited, collector, outcome, swallowed>>

TypeOK ==
    /\ cursor \in 1..Len(html) + 1
    /\ Len(stack) <= MaximumNestingDepth
    /\ hiddenDepth \in 0..Len(stack)
    /\ tagsVisited \in 0..MaximumTags + 1
    /\ outcome \in {"reading", "done", "failed"}
    /\ outcome # "failed" => ~Overflows(collector, MaximumOutput)

Init ==
    /\ html \in HtmlPage
    /\ cursor = 1
    /\ stack = <<>>
    /\ hiddenDepth = 0
    /\ tagsVisited = 0
    /\ collector = Nothing
    /\ outcome = "reading"
    /\ swallowed = {}

Reading(kind) == outcome = "reading" /\ cursor \in DOMAIN html /\ html[cursor].is = kind
Piece == html[cursor]
Visible == hiddenDepth = 0

\* The output limit ends the extraction.
Collect(c) ==
    /\ collector' = c
    /\ outcome' = IF Overflows(c, MaximumOutput) THEN "failed" ELSE outcome

-----------------------------------------------------------------------------
(* A definition that directly precedes another of the same parameters, and  *)
(* that nothing uses, is a broken variant of it: substituting it shows that *)
(* the properties notice.                                                   *)

ReadText ==
    /\ Reading("text")
    /\ Collect(IF Visible THEN Text(collector, Piece, cursor) ELSE collector)
    /\ cursor' = cursor + 1
    /\ UNCHANGED <<html, stack, hiddenDepth, tagsVisited, swallowed>>

ReadComment ==
    /\ Reading("comment")
    /\ cursor' = cursor + 1
    /\ UNCHANGED <<html, stack, hiddenDepth, tagsVisited, collector, outcome, swallowed>>

\* An opening tag that ends at the piece "end".  A list item has a mark.
Mark == [lead |-> FALSE, trail |-> TRUE, blank |-> FALSE]
Introduced(name, id) ==
    LET lined == IF name = "br" \/ name \in BLOCK_TAGS THEN Line(collector) ELSE collector
    IN  IF name = "li" THEN Text(lined, Mark, id)
        ELSE IF name \in CELL_TAGS THEN Space(lined)
        ELSE lined
Opens(name, hiddenAttribute, selfClosing, end) ==
    LET hidden == hiddenAttribute \/ name \in HIDDEN_CONTENT_TAGS
        collected == IF Visible /\ ~hidden THEN Introduced(name, end) ELSE collector
    IN  /\ tagsVisited' = tagsVisited + 1
        /\ cursor' = end + 1
        /\ collector' = collected
        /\ IF \/ tagsVisited = MaximumTags
              \/ Overflows(collected, MaximumOutput)
              \/ ~selfClosing /\ Len(stack) = MaximumNestingDepth
           THEN outcome' = "failed" /\ UNCHANGED <<stack, hiddenDepth>>
           ELSE /\ UNCHANGED outcome
                /\ IF selfClosing THEN UNCHANGED <<stack, hiddenDepth>>
                   ELSE /\ stack' = Append(stack, [name |-> name, hidden |-> hidden])
                        /\ hiddenDepth' = IF hidden THEN hiddenDepth + 1 ELSE hiddenDepth

\* Beyond the void elements, a tag that ends in "/>" opens none.
ReadOpen ==
    /\ Reading("open") /\ ~Piece.long
    /\ Opens(Piece.name, Piece.hidden, Piece.name \in VOID_TAGS \/ Piece.slash, cursor)
    /\ UNCHANGED <<html, swallowed>>

\* A "less" sign without an end near enough is text, and so is what follows it.
Sign == [lead |-> FALSE, trail |-> FALSE, blank |-> FALSE]
ReadAsText ==
    /\ Collect(IF Visible THEN Text(collector, Sign, cursor) ELSE collector)
    /\ cursor' = cursor + 1
    /\ UNCHANGED <<html, stack, hiddenDepth, tagsVisited>>

ReadLong ==
    /\ Reading("open") \/ Reading("close")
    /\ Piece.long
    /\ ReadAsText
    /\ swallowed' = swallowed \cup (IF Piece.is = "close" THEN {"close"} ELSE {})

HiddenFrames(frames) == Cardinality({i \in DOMAIN frames : frames[i].hidden})

\* closeFrame: the innermost element of the name and all within it; a closing tag
\* without an opening one closes nothing.
Matching(name) == {i \in DOMAIN stack : stack[i].name = name}
CloseFrameInnermost(name) ==
    IF Matching(name) = {} THEN UNCHANGED <<stack, hiddenDepth>>
    ELSE /\ stack' = SubSeq(stack, 1, Max(Matching(name)) - 1)
         /\ hiddenDepth' = IF stack[Max(Matching(name))].hidden THEN hiddenDepth - 1 ELSE hiddenDepth
CloseFrame(name) ==
    IF Matching(name) = {} THEN UNCHANGED <<stack, hiddenDepth>>
    ELSE LET open == Max(Matching(name)) - 1
         IN  /\ stack' = SubSeq(stack, 1, open)
             /\ hiddenDepth' = hiddenDepth - HiddenFrames(SubSeq(stack, open + 1, Len(stack)))

CloseLinesIfVisible(name) == Visible /\ name \in BLOCK_TAGS
CloseLines(name) == (Visible \/ hiddenDepth' = 0) /\ name \in BLOCK_TAGS
ReadClose ==
    /\ Reading("close") /\ ~Piece.long
    /\ tagsVisited' = tagsVisited + 1
    /\ cursor' = cursor + 1
    /\ IF tagsVisited = MaximumTags
       THEN outcome' = "failed" /\ UNCHANGED <<stack, hiddenDepth, collector>>
       ELSE /\ CloseFrame(Piece.name)
            /\ collector' = IF CloseLines(Piece.name) THEN Line(collector) ELSE collector
            /\ UNCHANGED outcome
    /\ UNCHANGED <<html, swallowed>>

\* A "less" sign reaches to the end of the next tag or comment, which it swallows:
\* before a letter it reads as an opening tag, before anything else as none.  If no
\* end follows near enough it is text.
NextTags == {i \in cursor + 1..Len(html) : html[i].is \in {"open", "close", "comment"}}
Far(end) == Piece.long \/ (html[end].is \in {"open", "close"} /\ html[end].long)
ReadLess ==
    /\ Reading("less")
    /\ IF NextTags = {} \/ Far(Min(NextTags))
       THEN ReadAsText /\ UNCHANGED swallowed
       ELSE LET end == Min(NextTags)
                tag == html[end]
            IN  /\ swallowed' = swallowed \cup {tag.is}
                /\ IF Piece.name = ""
                   THEN /\ cursor' = end + 1
                        /\ UNCHANGED <<stack, hiddenDepth, tagsVisited, collector, outcome>>
                   ELSE Opens(Piece.name, Piece.hidden \/ (tag.is = "open" /\ tag.hidden),
                              tag.is \in {"open", "close"} /\ tag.slash, end)
                /\ UNCHANGED html

Finish ==
    /\ outcome = "reading"
    /\ cursor = Len(html) + 1
    /\ outcome' = "done"
    /\ UNCHANGED <<html, cursor, stack, hiddenDepth, tagsVisited, collector, swallowed>>

Next == ReadText \/ ReadComment \/ ReadOpen \/ ReadLong \/ ReadClose \/ ReadLess \/ Finish

Spec == Init /\ [][Next]_vars

-----------------------------------------------------------------------------
(* Properties.  What a page shows is told from its source, by which opening *)
(* and closing tags belong together.                                        *)

Elements == {i \in DOMAIN html : html[i].is = "open" /\ html[i].name \notin VOID_TAGS}
Count(kind, name, i, j) == Cardinality({k \in i..j : html[k].is = kind /\ html[k].name = name})
Ends(i) ==
    {k \in i + 1..Len(html) :
        /\ html[k].is = "close" /\ html[k].name = html[i].name
        /\ Count("open", html[i].name, i + 1, k - 1) = Count("close", html[i].name, i + 1, k - 1)}
\* Each element has an end, those within it before it, and each closing tag an element.
WellNested ==
    /\ \A i \in Elements : Ends(i) # {}
    /\ \A i, j \in Elements : i < j /\ j < Min(Ends(i)) => Min(Ends(j)) < Min(Ends(i))
    /\ \A k \in DOMAIN html : html[k].is = "close" => \E i \in Elements : k = Min(Ends(i))
Within(k, i) == i < k /\ k < Min(Ends(i))
Hides(i) == html[i].hidden \/ html[i].name \in HIDDEN_CONTENT_TAGS
Shown(k) == \A i \in Elements : Hides(i) => ~Within(k, i)
Texts == {k \in DOMAIN html : html[k].is = "text" /\ ~html[k].blank}

\* The reader's count of hidden elements is that of its stack, however badly the
\* page is nested: only so does a hidden part end where its element ends.
DepthIsTrue == hiddenDepth = HiddenFrames(stack)

\* What opens no element although the page does, by its slash or its length.  Its
\* closing tag closes another element of its name, and so those within that one.
Unopened == {i \in Elements : html[i].slash \/ html[i].long}
Forgotten(i, k) ==
    \/ i \in Unopened
    \/ \E s \in Unopened :
          /\ Within(s, i) /\ Min(Ends(s)) < k
          /\ \/ swallowed # {}
             \/ \E j \in Elements \ Unopened : html[j].name = html[s].name /\ Within(s, j)

\* Of a well nested page the reader reads what it shows, and hidden text only where it
\* has lost the hidden element: that ended in "/>" or was too long, or has in it one
\* that did, whose closing tag closed more than the reader had opened.  A "less" sign
\* that swallows an opening tag lets hidden text be read, one that swallows any tag
\* leaves shown text out: after a closing one, as within a script, the rest of the page.
ShownIsRead ==
    WellNested =>
        /\ swallowed \cap {"open"} = {} =>
              \A k \in Texts, i \in Elements :
                  k \in Ids(collector) /\ Hides(i) /\ Within(k, i) => Forgotten(i, k)
        /\ swallowed = {} =>
              \A k \in Texts : outcome = "done" /\ Shown(k) => k \in Ids(collector)

\* Texts with a shown boundary of a block, a line break or a cell between them are
\* never run together: "5" and "January" of two cells make no date.  A hidden element
\* divides where it ends, if it is a block.
Boundary(k) ==
    /\ \/ html[k].is = "open" /\ html[k].name \in BLOCK_TAGS \cup CELL_TAGS \cup {"br"} /\ ~Hides(k)
       \/ html[k].is = "close" /\ html[k].name \in BLOCK_TAGS
    /\ Shown(k)
BlocksKeptApart ==
    WellNested /\ swallowed = {} =>
        \A a, b \in Texts : a < b /\ Adjoined(collector, a, b) =>
            \A k \in a..b : ~Boundary(k)

HtmlInv == TypeOK /\ DepthIsTrue /\ ShownIsRead /\ BlocksKeptApart
=============================================================================
