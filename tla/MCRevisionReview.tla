--------------------------- MODULE MCRevisionReview ---------------------------
(***************************************************************************)
(* An instance of the way from a stored page to a published date, one part *)
(* in each behaviour: what is read of the page (HtmlText, PdfText), what a  *)
(* parse job proposes from it (ParseJob), and how jobs that overlap propose *)
(* and reviewers decide (RevisionReview).  Dates, sources and processes are *)
(* interchangeable.                                                         *)
(***************************************************************************)
EXTENDS RevisionReview, Sequences, SequencesExt

CONSTANTS
    BLOCK_TAGS, HIDDEN_CONTENT_TAGS, VOID_TAGS, CELL_TAGS,
    MaximumTags, MaximumNestingDepth, MaximumOutput,
    MaximumStreams, MaximumStreamBytes, MaximumDecodedBytes, MaximumCMaps,
    MaximumOperations, MaximumPdfOutput,
    HtmlPage, Document, Page, Catalogue, Day, Hint, RoundName, Attempts, MaxFailures

-----------------------------------------------------------------------------
(* HTML pages: every sequence of up to three pieces between two texts, and   *)
(* longer ones of hidden elements with elements in them that end in "/>".    *)

Plain == [is |-> "text", lead |-> FALSE, trail |-> FALSE, blank |-> FALSE]
Opening(n, hidden) == [is |-> "open", name |-> n, hidden |-> hidden, slash |-> FALSE, long |-> FALSE]
Closing(n) == [is |-> "close", name |-> n, slash |-> FALSE, long |-> FALSE]
Less(n) == [is |-> "less", name |-> n, hidden |-> FALSE, long |-> FALSE]
Slashed(tag) == [tag EXCEPT !.slash = TRUE]
Long(tag) == [tag EXCEPT !.long = TRUE]
Pieces ==
    {Plain, [is |-> "comment"], Opening("div", FALSE), Opening("div", TRUE), Closing("div"),
     Opening("span", TRUE), Closing("span"), Opening("script", FALSE), Closing("script"),
     Opening("li", FALSE), Opening("br", FALSE), Opening("br", TRUE), Opening("td", FALSE), Closing("td"),
     Less("b"), Less(""), [Less("b") EXCEPT !.hidden = TRUE], Long(Less("b")),
     Slashed(Opening("div", TRUE)), Slashed(Closing("div")), Long(Opening("div", TRUE)), Long(Closing("div"))}
Nested == {Plain, Opening("div", TRUE), Slashed(Opening("div", FALSE)), Closing("div")}
HtmlPages == {<<Plain>> \o s \o <<Plain>> : s \in (UNION {[1..n -> Pieces] : n \in 1..3}) \cup [1..5 -> Nested]}

-----------------------------------------------------------------------------
(* PDF documents: text objects that move over the page, fonts whose names   *)
(* are reused, and streams about the limits.                                *)

Glyphs == [lead |-> FALSE, trail |-> FALSE, blank |-> FALSE]
Op(name) == [op |-> name]
Move(name, y) == [op |-> name, y |-> y]
Show(name) == [op |-> name, codes |-> {}, texts |-> <<Glyphs>>]
ShowCodes(codes) == [op |-> "Tj", codes |-> codes, texts |-> <<Glyphs>>]
Font(name) == [op |-> "Tf", name |-> name]
Drawn(operations_) == [kind |-> "content", bytes |-> 1, operations |-> operations_]
Other(kind, bytes, codes) == [kind |-> kind, bytes |-> bytes, codes |-> codes, operations |-> <<>>]
TextObject(s) == <<Op("BT")>> \o s \o <<Op("ET")>>

Moves == {<<Move("Tm", 1)>>, <<Move("Tm", 2)>>, <<Move("Td", 0)>>, <<Move("Td", 1)>>, <<Op("T*")>>,
          <<Show("Tj")>>, <<Show("'")>>, <<Op("ET"), Op("BT")>>}
Bodies == {TextObject(FlattenSeq(s) \o <<Show("Tj")>>) : s \in UNION {[1..n -> Moves] : n \in 0..4}}
Lined == {[streams |-> <<Drawn(TextObject(<<Move("Tm", 1), Show("Tj")>>)), Drawn(b)>>, fonts |-> <<>>] :
            b \in Bodies}

InFont(name, codes) == Drawn(TextObject(<<Font(name), Move("Tm", 1), ShowCodes(codes)>>))
Codes == {{"a"}, {"b"}, {"a", "b"}}
Fonted ==
    {[streams |-> <<Other("cmap", 1, {"a"}), Other("cmap", 1, {"a", "b"}), Other("cmap", 1, {"b", "c"}),
                    InFont("F1", x), InFont("F1", y), InFont(n, z)>>,
      fonts |-> << [stream |-> 4, name |-> "F1", map |-> m1], [stream |-> 5, name |-> "F1", map |-> m2],
                   [stream |-> 6, name |-> n, map |-> m3]>>] :
        x, y, z \in Codes, n \in {"F1", "F2"}, m1, m2, m3 \in 0..3}

\* A font selected between two text objects.
Between ==
    {[streams |-> <<Other("cmap", 1, {"a"}), Other("cmap", 1, {"b"}),
                    Drawn(TextObject(<<Font("F1"), ShowCodes({"a"})>>) \o <<Font("F2")>>
                          \o TextObject(f \o <<ShowCodes({"b"})>>))>>,
      fonts |-> << [stream |-> 3, name |-> "F1", map |-> 1], [stream |-> 3, name |-> "F2", map |-> 2]>>] :
        f \in {<<>>, <<Font("F2")>>}}

Sizes == {Other(k, b, {}) : k \in {"skipped", "content"}, b \in 1..4} \cup {Drawn(TextObject(<<Show("Tj")>>))}
Sized == {[streams |-> s, fonts |-> <<>>] : s \in UNION {[1..n -> Sizes] : n \in 1..3}}

Documents == Lined \cup Fonted \cup Between \cup Sized

-----------------------------------------------------------------------------
(* Texts that are parsed, and catalogues they may belong to.                *)

Label(kind) == [is |-> "label", kind |-> kind, width |-> 8]
Word(is) == [is |-> is, width |-> 3]
Number(n) == [is |-> "number", number |-> n, width |-> IF n > 9 THEN 2 ELSE 1]
Month(m) == [is |-> "month", month |-> m, width |-> 7]
Year(y) == [is |-> "year", year |-> y, width |-> 4]
Iso(y, m, d) == [is |-> "iso", year |-> y, month |-> m, day |-> d, width |-> 10]
Numeric(a, b, y) == [is |-> "numeric", first |-> a, second |-> b, year |-> y, width |-> 10]
TimeOfDay(valid, zone) == [is |-> "time", valid |-> valid, zone |-> zone, width |-> 5]
Closes == Label("APPLICATION_DEADLINE")
Opens == Label("APPLICATION_OPEN")

Day15 == <<Number(15), Month(1), Year(2027)>>
Dates == {Day15, <<Month(1), Number(15)>>, <<Numeric(1, 3, 2027)>>}
Befores == {<<Closes>>, <<Closes, Word("and"), Opens>>}
Afters == {<<>>, <<Word("filler"), Opens, Iso(2026, 11, 1)>>}
Texts ==
    {b \o d \o a : b \in Befores, d \in Dates, a \in Afters} \cup
    {<<Closes>> \o d : d \in {Day15 \o <<TimeOfDay(TRUE, "UTC")>>, Day15 \o <<TimeOfDay(TRUE, "region")>>,
                              <<Iso(2026, 9, 1)>>, <<Month(3), Year(2027)>>, <<Word("season"), Year(2026)>>,
                              <<Number(30), Month(2), Year(2027)>>, <<Numeric(15, 1, 2027)>>}} \cup
    {Day15, Day15 \o <<TimeOfDay(TRUE, "abbreviated")>>}

NamedRound(i, n) == [id |-> i, name |-> n]
Intake(i, y, m, rounds) == [id |-> i, year |-> y, month |-> m, rounds |-> rounds]
Catalogues ==
    {{Intake("i1", 2026, 9, {NamedRound("w1", "main")}),
      Intake("i2", 2027, 9, {NamedRound("w2", "main"), NamedRound("w3", "late")})},
     {Intake("i1", 2027, 0, {NamedRound("w1", "main")}), Intake("i2", 2027, 2, {NamedRound("w2", "main")})},
     {Intake("i2", 2027, 3, {NamedRound("w2", "main")})}}
Days == {<<2026, 8, 1>>, <<2026, 12, 1>>}
Hints == {[year |-> 2027, month |-> 9]}

-----------------------------------------------------------------------------
VARIABLES
    stage,  \* the part that runs
    html, cursor, stack, hiddenDepth, tagsVisited,
    pdf, stream, held, operation, operations, inText, textY, activeMaps, shown,
    intakes, country, today, parseWindow, proposals, reviewJob, job, failures, proposed, bound,
    page, outcome, collector, swallowed

H == INSTANCE HtmlText
P == INSTANCE PdfText
J == INSTANCE ParseJob WITH window <- parseWindow, revision <- proposals

ASSUME ParsingAssumption == J!ParseAssumption
ASSUME PdfDocuments == P!PdfAssumption
ASSUME PagesOfHtml == H!HtmlAssumption

Symmetry ==
    Permutations(Date) \cup Permutations(Source)
    \cup Permutations(Parser) \cup Permutations(Reviewer)

\* Variables of one part only, and those that parts have alike.
htmlOnly == <<html, cursor, stack, hiddenDepth, tagsVisited>>
pdfOnly == <<pdf, stream, held, operation, operations, inText, textY, activeMaps, shown>>
parseOnly == <<intakes, country, today, parseWindow, proposals, reviewJob, job, failures, proposed, bound>>
alike == <<page, outcome, collector, swallowed>>
all == <<stage, vars, htmlOnly, pdfOnly, parseOnly, alike>>

NoHtml ==
    /\ html = "parked" /\ cursor = "parked" /\ stack = "parked" /\ hiddenDepth = "parked"
    /\ tagsVisited = "parked"
NoPdf ==
    /\ pdf = "parked" /\ stream = "parked" /\ held = "parked" /\ operation = "parked"
    /\ operations = "parked" /\ inText = "parked" /\ textY = "parked" /\ activeMaps = "parked"
    /\ shown = "parked"
NoParse ==
    /\ intakes = "parked" /\ country = "parked" /\ today = "parked" /\ parseWindow = "parked"
    /\ proposals = "parked" /\ reviewJob = "parked" /\ job = "parked" /\ failures = "parked"
    /\ proposed = "parked" /\ bound = "parked"

\* The review stays as it begins, what else does not run has no value; the country
\* only matters to numeric dates.
PartInit ==
    /\ Init
    /\ \/ /\ stage = "review" /\ NoHtml /\ NoPdf /\ NoParse
          /\ page = "parked" /\ outcome = "parked" /\ collector = "parked" /\ swallowed = "parked"
       \/ /\ stage = "html" /\ H!Init /\ NoPdf /\ NoParse
          /\ page = "parked"
       \/ /\ stage = "pdf" /\ P!Init /\ NoHtml /\ NoParse
          /\ swallowed = "parked"
       \/ /\ stage = "parse" /\ J!Init /\ NoHtml /\ NoPdf
          /\ outcome = "parked" /\ collector = "parked"
          /\ country = "MDY" => \E i \in DOMAIN page : page[i].is = "numeric"
    /\ stage # "review" => window.source = NoSource

Reviewing == stage = "review" /\ UNCHANGED <<stage, htmlOnly, pdfOnly, parseOnly, alike>>
ReadingHtml == stage = "html" /\ UNCHANGED <<stage, vars, pdfOnly, parseOnly, page>>
ReadingPdf == stage = "pdf" /\ UNCHANGED <<stage, vars, htmlOnly, parseOnly, swallowed>>
Parsing == stage = "parse" /\ UNCHANGED <<stage, vars, htmlOnly, pdfOnly, outcome, collector>>

\* Bound: three of the jobs and reviews overlap, not all four.
SomeIdle == Idle \in {parser'[p] : p \in Parser} \cup {review'[v] : v \in Reviewer}

PartNext ==
    \/ \E p \in Parser : Reviewing /\ ParserStep(p) /\ SomeIdle
    \/ \E v \in Reviewer : Reviewing /\ ReviewStep(v) /\ SomeIdle
    \/ \E s \in Source : Reviewing /\ RecordSourceCheck(s)
    \/ ReadingHtml /\ H!ReadText
    \/ ReadingHtml /\ H!ReadComment
    \/ ReadingHtml /\ H!ReadOpen
    \/ ReadingHtml /\ H!ReadLong
    \/ ReadingHtml /\ H!ReadClose
    \/ ReadingHtml /\ H!ReadLess
    \/ ReadingHtml /\ H!Finish
    \/ ReadingPdf /\ P!ReadStream
    \/ ReadingPdf /\ P!ReadFonts
    \/ ReadingPdf /\ P!EndStream
    \/ ReadingPdf /\ P!Finish
    \/ ReadingPdf /\ P!BT
    \/ ReadingPdf /\ P!ET
    \/ ReadingPdf /\ P!Tf
    \/ ReadingPdf /\ P!Tj
    \/ ReadingPdf /\ P!Quote
    \/ ReadingPdf /\ P!Tm
    \/ ReadingPdf /\ P!Td
    \/ ReadingPdf /\ P!NextLine
    \/ \E day \in Day : Parsing /\ J!Enqueue(day)
    \/ Parsing /\ J!Load
    \/ Parsing /\ J!Propose
    \/ Parsing /\ J!EnqueueReview
    \/ Parsing /\ J!EndPass
    \/ Parsing /\ J!Ask
    \/ Parsing /\ J!Fail
    \/ Parsing /\ \E r \in proposals : J!Decide(r)

PartSpec == PartInit /\ [][PartNext]_all

-----------------------------------------------------------------------------
(* The properties of the parts that are instances, each of its own.         *)

\* HtmlText: what is shown is read, what is hidden is not, blocks are kept apart.
HtmlInv == stage = "html" => H!HtmlInv
\* PdfText: memory is bounded, lines kept apart, strings read by their own font.
PdfInv == stage = "pdf" => P!PdfInv
\* ParseJob: no proposal waits without its review job.
ParseInv == stage = "parse" => J!ParseInv
\* ParseJob: what is proposed stands on the page and is for the window named there.
ProposalsAreGrounded == stage = "parse" => J!ProposalsAreGrounded
\* ParseJob: the day of the parse never decides an intake.
BindingIsTimeless == stage = "parse" => J!BindingIsTimeless
=============================================================================
