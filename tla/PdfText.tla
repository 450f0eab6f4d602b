------------------------------- MODULE PdfText -------------------------------
(***************************************************************************)
(* How the text of a PDF is read (apps/worker/src/parsing/pdf.ts): its       *)
(* streams are decoded within limits, the character maps among them are     *)
(* given to the font names that use them, and every stream's text objects   *)
(* are run for the strings they show.  Coordinates but the baseline, and    *)
(* the syntax of objects and filters, are left out.                         *)
(***************************************************************************)
EXTENDS TextCollector, FiniteSets, FiniteSetsExt

CONSTANTS
    Document,        \* the documents
    MaximumStreams, MaximumStreamBytes, MaximumDecodedBytes, MaximumCMaps,
    MaximumOperations, MaximumPdfOutput

\* A document has its streams, in file order, and its fonts as used, a sequence of
\* [stream, name, map]: the stream that names it, and the map it refers to or none.
PdfAssumption ==
    /\ {MaximumStreams, MaximumStreamBytes, MaximumDecodedBytes, MaximumCMaps, MaximumOperations,
        MaximumPdfOutput} \subseteq Nat
    /\ \A d \in Document :
        /\ IsSequence(d.streams) /\ IsSequence(d.fonts)
        /\ \A i \in DOMAIN d.streams :
            /\ d.streams[i].bytes \in Nat
            /\ IsSequence(d.streams[i].operations)
            /\ \A k \in DOMAIN d.streams[i].operations : LET o == d.streams[i].operations[k] IN
                /\ o.op \in {"Tm", "Td"} => o.y \in Int
                /\ o.op \in {"Tj", "'"} => IsSequence(o.texts)

VARIABLES
    pdf,          \* the document, which does not change
    outcome,      \* "streams", "showing", "done" or "failed"
    stream,       \* the stream being read
    held,         \* decoded streams kept in memory, and their bytes
    operation,    \* the next operation of the stream
    operations,   \* operations run
    inText,       \* within BT and ET
    textY,        \* the reader's baseline: none, or one
    activeMaps,   \* the maps tried
    collector,
    page,         \* history: where a viewer of the document would be, and whether the
                  \* reader saw its font selected
    shown         \* history: the strings shown, each with the map that read it

vars == <<pdf, outcome, stream, held, operation, operations, inText, textY, activeMaps, collector,
          page, shown>>
reader == <<operation, operations, inText, textY, activeMaps, collector, page, shown>>

NoMap == 0

TypeOK ==
    /\ outcome \in {"streams", "showing", "done", "failed"}
    /\ stream \in 1..Len(pdf.streams) + 1
    /\ held.streams \subseteq 1..Len(pdf.streams)
    /\ operations \in 0..MaximumOperations + 1
    /\ inText \in BOOLEAN
    /\ Cardinality(textY) <= 1
    /\ outcome # "failed" => ~Overflows(collector, MaximumPdfOutput)

-----------------------------------------------------------------------------
(* Fonts.  A character map reads the codes it has.                          *)

CMaps(streams) == {i \in DOMAIN pdf.streams : i \in streams /\ pdf.streams[i].kind = "cmap"}
Codes(map) == IF map = NoMap THEN {} ELSE pdf.streams[map].codes
FontMap(font) == IF font.map \in held.streams THEN font.map ELSE NoMap

\* fontCharacterMaps: a name that is given two maps is ambiguous and has none,
\* however often it is met again.
FontCharacterMapsReused(fonts) ==
    LET after[i \in 0..Len(fonts)] ==
            IF i = 0 THEN {}
            ELSE LET f == fonts[i]
                     m == FontMap(f)
                     existing == {p \in after[i - 1] : p.name = f.name}
                 IN  IF m = NoMap THEN after[i - 1]
                     ELSE IF existing = {} THEN after[i - 1] \cup {[name |-> f.name, map |-> m]}
                     ELSE IF \E p \in existing : p.map # m THEN after[i - 1] \ existing
                     ELSE after[i - 1]
    IN  after[Len(fonts)]
FontCharacterMaps(fonts) ==
    LET given(name) == {FontMap(fonts[i]) : i \in {j \in DOMAIN fonts : fonts[j].name = name}} \ {NoMap}
        names == {fonts[i].name : i \in DOMAIN fonts}
    IN  UNION {{[name |-> n, map |-> m] : m \in {x \in given(n) : Cardinality(given(n)) = 1}} : n \in names}

MapsByFontName(name) == {p.map : p \in {q \in FontCharacterMaps(pdf.fonts) : q.name = name}}

\* decodePdfString: the first map that has all the codes, else none.
Decode(codes, maps) ==
    LET covering == {m \in maps : codes \subseteq Codes(m)}
    IN  IF covering = {} THEN NoMap ELSE Min(covering)

-----------------------------------------------------------------------------
(* The streams.                                                             *)

Nowhere == [y |-> 0, font |-> "none", seen |-> TRUE]

Init ==
    /\ pdf \in Document
    /\ outcome = "streams"
    /\ stream = 1
    /\ held = [streams |-> {}, bytes |-> 0]
    /\ operation = 1
    /\ operations = 0
    /\ inText = FALSE
    /\ textY = {}
    /\ activeMaps = {}
    /\ collector = Nothing
    /\ page = Nowhere
    /\ shown = {}

\* decodeStream gives up above the limit of one stream; images and unknown filters
\* are skipped; what is decoded stays in memory until the end.
ReadStreamUncounted ==
    /\ outcome = "streams"
    /\ stream <= Len(pdf.streams)
    /\ LET s == pdf.streams[stream]
       IN  IF stream > MaximumStreams \/ (s.kind # "skipped" /\ s.bytes > MaximumStreamBytes)
           THEN outcome' = "failed" /\ UNCHANGED <<held, stream>>
           ELSE /\ stream' = stream + 1
                /\ held' = IF s.kind = "skipped" THEN held
                           ELSE [streams |-> held.streams \cup {stream}, bytes |-> held.bytes + s.bytes]
                /\ UNCHANGED outcome
    /\ UNCHANGED <<pdf, reader>>
ReadStream ==
    /\ outcome = "streams"
    /\ stream <= Len(pdf.streams)
    /\ LET s == pdf.streams[stream]
           decodes == s.kind # "skipped"
       IN  IF \/ stream > MaximumStreams
              \/ decodes /\ (s.bytes > MaximumStreamBytes \/ held.bytes + s.bytes > MaximumDecodedBytes)
           THEN outcome' = "failed" /\ UNCHANGED <<held, stream>>
           ELSE /\ stream' = stream + 1
                /\ held' = IF decodes THEN [streams |-> held.streams \cup {stream},
                                            bytes |-> held.bytes + s.bytes]
                           ELSE held
                /\ UNCHANGED outcome
    /\ UNCHANGED <<pdf, reader>>

BeginStream(i) ==
    /\ stream' = i
    /\ operation' = 1
    /\ inText' = FALSE
    /\ textY' = {}
    /\ activeMaps' = CMaps(held.streams)
    /\ page' = Nowhere

ReadFonts ==
    /\ outcome = "streams"
    /\ stream = Len(pdf.streams) + 1
    /\ outcome' = IF Cardinality(CMaps(held.streams)) > MaximumCMaps THEN "failed" ELSE "showing"
    /\ BeginStream(1)
    /\ UNCHANGED <<pdf, held, operations, collector, shown>>

\* The stream is skipped, or all its operations were run.
Operations(i) == IF i \in held.streams THEN pdf.streams[i].operations ELSE <<>>
EndStream ==
    /\ outcome = "showing"
    /\ stream <= Len(pdf.streams)
    /\ operation > Len(Operations(stream))
    /\ BeginStream(stream + 1)
    /\ UNCHANGED <<pdf, outcome, held, operations, collector, shown>>

\* A document without text is refused.
Finish ==
    /\ outcome = "showing"
    /\ stream = Len(pdf.streams) + 1
    /\ outcome' = IF collector.out = <<>> THEN "failed" ELSE "done"
    /\ UNCHANGED <<pdf, stream, held, reader>>

-----------------------------------------------------------------------------
(* The operations of a stream: extractContentStreamText.  Outside a text    *)
(* object the reader looks for the next one only.                           *)

Running(name) ==
    /\ outcome = "showing"
    /\ stream <= Len(pdf.streams)
    /\ operation \in DOMAIN Operations(stream)
    /\ Operations(stream)[operation].op = name
Operation == Operations(stream)[operation]

\* Every operation within a text object counts.
Run ==
    /\ operation' = operation + 1
    /\ operations' = IF inText THEN operations + 1 ELSE operations
    /\ UNCHANGED <<pdf, stream, held>>
Exhausted == inText /\ operations = MaximumOperations
Outcome(c) ==
    outcome' = IF Exhausted \/ Overflows(c, MaximumPdfOutput) THEN "failed" ELSE outcome

\* A text object begins at the origin; the reader's baseline does not.
BT ==
    /\ Running("BT")
    /\ Run
    /\ Outcome(collector)
    /\ inText' = TRUE
    /\ page' = [page EXCEPT !.y = 0]
    /\ UNCHANGED <<textY, activeMaps, collector, shown>>

ET ==
    /\ Running("ET")
    /\ Run
    /\ Outcome(collector)
    /\ inText' = FALSE
    /\ UNCHANGED <<textY, activeMaps, collector, page, shown>>

\* A font that is selected between text objects goes unseen.
Tf ==
    /\ Running("Tf")
    /\ Run
    /\ Outcome(collector)
    /\ page' = [page EXCEPT !.font = Operation.name, !.seen = inText]
    /\ activeMaps' = IF ~inText THEN activeMaps
                     ELSE IF MapsByFontName(Operation.name) # {} THEN MapsByFontName(Operation.name)
                     ELSE CMaps(held.streams)
    /\ UNCHANGED <<inText, textY, collector, shown>>

\* One string, or the strings of an array, where a gap reads as blank text.
Texts(c, texts) ==
    LET after[i \in 0..Len(texts)] ==
            IF i = 0 THEN c
            ELSE Text(after[i - 1], texts[i], <<stream, operation>>)
    IN  after[Len(texts)]
Show(c, y) ==
    /\ collector' = Texts(c, Operation.texts)
    /\ Outcome(Texts(c, Operation.texts))
    /\ shown' = shown \cup {[id |-> <<stream, operation>>, y |-> y, tracked |-> textY = {y},
                             font |-> page.font, seen |-> page.seen, codes |-> Operation.codes,
                             map |-> Decode(Operation.codes, activeMaps)]}

Tj ==
    /\ Running("Tj") /\ inText
    /\ Run
    /\ Show(collector, page.y)
    /\ UNCHANGED <<inText, textY, activeMaps, page>>

\* ' and " go to the next line.
Quote ==
    /\ Running("'") /\ inText
    /\ Run
    /\ page' = [page EXCEPT !.y = @ - 1]
    /\ Show(Line(collector), page.y - 1)
    /\ UNCHANGED <<inText, textY, activeMaps>>

Tm ==
    /\ Running("Tm") /\ inText
    /\ Run
    /\ page' = [page EXCEPT !.y = Operation.y]
    /\ collector' = IF textY \subseteq {Operation.y} THEN collector ELSE Line(collector)
    /\ textY' = {Operation.y}
    /\ Outcome(collector)
    /\ UNCHANGED <<inText, activeMaps, shown>>

OffsetUnlined(y) == collector
Offset(y) == IF y # 0 THEN Line(collector) ELSE collector
Td ==
    /\ Running("Td") /\ inText
    /\ Run
    /\ page' = [page EXCEPT !.y = @ + Operation.y]
    /\ collector' = Offset(Operation.y)
    /\ textY' = IF textY = {} THEN {Operation.y} ELSE {y + Operation.y : y \in textY}
    /\ Outcome(collector)
    /\ UNCHANGED <<inText, activeMaps, shown>>

NextLine ==
    /\ Running("T*") /\ inText
    /\ Run
    /\ page' = [page EXCEPT !.y = @ - 1]
    /\ collector' = Line(collector)
    /\ textY' = {}
    /\ Outcome(collector)
    /\ UNCHANGED <<inText, activeMaps, shown>>

Next ==
    \/ ReadStream \/ ReadFonts \/ EndStream \/ Finish
    \/ BT \/ ET \/ Tf \/ Tj \/ Quote \/ Tm \/ Td \/ NextLine

Spec == Init /\ [][Next]_vars

-----------------------------------------------------------------------------
(* Properties.                                                              *)

\* Whatever the document's streams expand to, what is held stays within the limit.
MemoryIsBounded == held.bytes <= MaximumDecodedBytes

\* Texts of different lines are never run together, unless the reader has lost the
\* line: it does not know it at the beginning of a stream and after a T*, and does
\* not return to the origin with a new text object.
Down(o) == o.op \in {"T*", "'"} \/ (o.op = "Td" /\ o.y # 0)
LinesKeptApart ==
    \A s, t \in shown : Adjoined(collector, s.id, t.id) =>
        IF s.id[1] = t.id[1] THEN s.y = t.y \/ ~s.tracked \/ ~t.tracked
        ELSE \A k \in 1..t.id[2] : ~Down(Operations(t.id[1])[k])

\* A string that its font's map can read, and no other map of the document, is read
\* with that map, however the document's pages reuse the font's name, if the reader
\* saw the font selected.
FontOf(s) == {pdf.fonts[i] : i \in {j \in DOMAIN pdf.fonts : pdf.fonts[j].stream = s.id[1]
                                                             /\ pdf.fonts[j].name = s.font}}
StringsReadByTheirFont ==
    \A s \in shown : \A f \in FontOf(s) :
        LET covering == {m \in CMaps(held.streams) : s.codes \subseteq Codes(m)}
        IN  s.seen /\ covering = {f.map} => s.map = f.map

PdfInv == TypeOK /\ MemoryIsBounded /\ LinesKeptApart /\ StringsReadByTheirFont
=============================================================================
