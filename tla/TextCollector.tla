--------------------------- MODULE TextCollector ---------------------------
(***************************************************************************)
(* The text that is put together from the pieces of a page                  *)
(* (apps/worker/src/parsing/text-collector.ts).  A piece of text is         *)
(* [lead, trail, blank]: whether whitespace precedes and follows it, and    *)
(* whether it is nothing else.                                              *)
(***************************************************************************)
EXTENDS Integers, Sequences

IsSequence(s) == s \in Seq({s[i] : i \in DOMAIN s})

\* The chunks with the separator before each, and the separator that is due.
Nothing == [out |-> <<>>, pending |-> "none"]

Line(c) == IF c.out = <<>> THEN c ELSE [c EXCEPT !.pending = "line"]
Space(c) == IF c.out = <<>> \/ c.pending = "line" THEN c ELSE [c EXCEPT !.pending = "space"]
SpaceIf(condition, c) == IF condition THEN Space(c) ELSE c

Text(c, t, id) ==
    IF t.blank THEN SpaceIf(t.lead \/ t.trail, c)
    ELSE LET due == SpaceIf(t.lead, c).pending
         IN  SpaceIf(t.trail, [out |-> Append(c.out, [id |-> id, after |-> due]), pending |-> "none"])

\* Where the limit on the output is crossed, the whole extraction fails.
Overflows(c, limit) == Len(c.out) > limit

Ids(c) == {c.out[i].id : i \in DOMAIN c.out}
\* Texts between which nothing stands.
Adjoined(c, a, b) ==
    \E i \in 2..Len(c.out) : c.out[i - 1].id = a /\ c.out[i].id = b /\ c.out[i].after = "none"
Separator(c, b) == (CHOOSE x \in {c.out[i] : i \in DOMAIN c.out} : x.id = b).after
=============================================================================
