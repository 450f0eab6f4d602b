---------------------------- MODULE MCPublication ----------------------------
(***************************************************************************)
(* An instance of what writes the catalogue, one part in each behaviour:    *)
(* contributors and administrators (Publication), or the imports of seeds   *)
(* and registries beside them (CatalogueImport).                            *)
(***************************************************************************)
EXTENDS Publication, TLC

CONSTANTS UniversityName, Alias, Historical, Canonical, MaxCommits

VARIABLES
    stage,  \* the part that runs
    rows, seed, ror, tmm, publication, commits

I == INSTANCE CatalogueImport WITH Name <- UniversityName, catalogue <- rows

ASSUME CatalogueAssumption == I!ImportAssumption

importing == <<rows, seed, ror, tmm, publication, commits>>
all == <<stage, vars, importing>>

\* The other one stays as it begins.
PartInit ==
    /\ stage \in {"contribute", "import"}
    /\ Init
    /\ I!Init

Contributing == stage = "contribute" /\ UNCHANGED <<stage, importing>>
Importing == stage = "import" /\ UNCHANGED <<stage, vars>>

PartNext ==
    \/ \E s \in Submission, c \in Content : Contributing /\ CreateSubmission(s, c)
    \/ \E v \in Reviewer, s \in Submission, f \in Field : Contributing /\ FindRevision(v, s, f)
    \/ \E v \in Reviewer : Contributing /\ (Decide(v) \/ AbortReview(v))
    \/ \E p \in Publisher, s \in Submission : Contributing /\ Request(p, s)
    \/ \E p \in Publisher : Contributing /\ (PublicationStep(p) \/ AbortPublication(p))
    \/ Importing /\ I!SeedRead
    \/ Importing /\ I!SeedReadProgram
    \/ Importing /\ I!SeedReadIntake
    \/ Importing /\ I!SeedCommit
    \/ Importing /\ I!RorRead
    \/ Importing /\ I!RorCommit
    \/ Importing /\ I!RepairRead
    \/ Importing /\ I!RepairCommit
    \/ Importing /\ I!TmmRead
    \/ Importing /\ I!TmmCommit
    \/ \E n \in UniversityName : Importing /\ I!PublishUniversity(n)
    \/ \E u \in I!University : Importing /\ I!PublishRead(u)
    \/ Importing /\ I!PublishCommit
    \/ Importing /\ I!Abort

Symmetry == Permutations(Publisher) \cup Permutations(Reviewer)
PartSpec == PartInit /\ [][PartNext]_all

-----------------------------------------------------------------------------
(* The properties of CatalogueImport, where it is what runs.                *)

\* CatalogueImport: references and keys hold whatever overlaps, a registry import
\* overwrites nothing curated, what the repair archives is empty, and a TMM import
\* fails in two known ways only.
CatalogueInv == stage = "import" => I!CatalogueInv
\* CatalogueImport: running an import again changes nothing.
ImportsAreIdempotent == stage = "import" => I!ImportsAreIdempotent
=============================================================================
