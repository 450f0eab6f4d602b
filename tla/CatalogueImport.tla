---------------------------- MODULE CatalogueImport ----------------------------
(***************************************************************************)
(* The writers of the university catalogue: the curated seed, the ROR and  *)
(* the TMM registries, the repair of universities TMM once duplicated, and *)
(* published submissions (packages/database/src/seed-import.ts,            *)
(* ror-import.ts, tmm-import.ts, publish-submissions.ts).  Each import is  *)
(* one READ COMMITTED transaction: it reads the catalogue, plans, and      *)
(* writes; imports of one kind exclude each other, imports of different    *)
(* kinds overlap.  French universities, with one programme each that bears *)
(* the same name, degree and September intake everywhere.                  *)
(***************************************************************************)
EXTENDS Integers

CONSTANTS
    Name,         \* normalized names of universities
    Alias,        \* other names an import gives a university
    Historical,   \* a name TMM uses for
    Canonical,    \* the university the variant table names
    MaxCommits    \* bound: transactions that commit

VARIABLES
    catalogue,    \* universities, aliases, programs, intakes
    seed,         \* importSeedFiles
    ror,          \* importRorRecords
    tmm,          \* the TMM script: repair, then import
    publication,  \* publishApprovedProgramSubmission
    commits       \* committed transactions

writers == <<seed, ror, tmm, publication>>
vars == <<catalogue, writers, commits>>

\* Rows are named by the identity they were created under: one university of
\* the seed, one ROR record, one TMM establishment, one submission.
University == {"seed", "ror", "tmm", "submission"}
\* stableSeedUuid of a TMM programme names its university, of a TMM intake its
\* programme.
Program == University \cup {"seedProgram", "submittedProgram"}
Intake == Program \cup {"seedIntake"}

None == "none"
NoRow == [name |-> None, active |-> FALSE, city |-> None]
Row == [name : Name, active : BOOLEAN, city : {None, "curated", "registry"}]
Catalogue ==
    [university : [University -> Row \cup {NoRow}],
     alias : SUBSET (University \X Name),
     program : [University -> Program \cup {None}],
     intake : [Program -> Intake \cup {None}]]
Idle == [pc |-> "idle"]
Record == {r \in [name : Name, alias : Alias \cup {None}] : r.alias # r.name}

\* Names are of one kind, and the variant table translates.
ImportAssumption ==
    /\ Alias \subseteq Name /\ None \notin Name
    /\ {Historical, Canonical} \subseteq Name /\ Historical # Canonical
    /\ MaxCommits \in Nat

Exists(c, u) == c.university[u].name # None
Named(c, n) == {u \in University : c.university[u].name = n}
Find(c, id, n) == IF Exists(c, id) THEN {id} ELSE Named(c, n)

-----------------------------------------------------------------------------
(* What each transaction plans from what it reads, and what its writes do  *)
(* to the catalogue as they find it: a result that is not ok rolls back.   *)
(* A definition that directly precedes another of the same parameters, and *)
(* that nothing uses, is a broken variant of it.                           *)

Failed(c) == [ok |-> FALSE, catalogue |-> c]
Done(c) == [ok |-> TRUE, catalogue |-> c]

AddAlias(c, u, n) == IF n = None THEN c ELSE [c EXCEPT !.alias = @ \cup {<<u, n>>}]

\* PrismaSeedWriter: a row is looked up by its id, then by its natural key, and
\* created under its id where there is neither; each table is read after the table
\* above it was written.
Stored(f, v) == \E x \in DOMAIN f : f[x] = v
Upserted(f, x, id) == IF Stored(f, id) \/ f[x] = None THEN id ELSE f[x]
SeedUniversity(c, r) ==
    LET found == Find(c, "seed", r.name)
    IN  [record |-> r, university |-> IF found = {} THEN "seed" ELSE CHOOSE x \in found : TRUE,
         new |-> found = {}, program |-> "seedProgram", newProgram |-> TRUE,
         intake |-> "seedIntake", newIntake |-> TRUE]
SeedProgram(c, plan) ==
    LET p == Upserted(c.program, plan.university, "seedProgram")
    IN  [plan EXCEPT !.program = p, !.newProgram = ~Stored(c.program, p)]
SeedIntake(c, plan) ==
    LET i == Upserted(c.intake, plan.program, "seedIntake")
    IN  [plan EXCEPT !.intake = i, !.newIntake = ~Stored(c.intake, i)]
SeedPlan(c, r) == SeedIntake(c, SeedProgram(c, SeedUniversity(c, r)))

\* An update goes by id and sets every field, the parent too: creations, moves and
\* new names fail on a key that is taken.
Refused(f, x, v, new) == f[x] \notin {None, v} \/ (new /\ Stored(f, v))
Moved(f, x, v) ==
    [y \in DOMAIN f |-> IF y = x THEN v ELSE IF f[y] = v THEN None ELSE f[y]]
SeedWrite(c, plan) ==
    LET u == plan.university
        p == plan.program
        row == [name |-> plan.record.name, active |-> TRUE, city |-> "curated"]
        written == [university |-> [c.university EXCEPT ![u] = row], alias |-> c.alias,
                    program |-> Moved(c.program, u, p),
                    intake |-> Moved(c.intake, p, plan.intake)]
    IN  IF \/ Named(c, plan.record.name) \ {u} # {}
           \/ plan.new /\ Exists(c, u)
           \/ Refused(c.program, u, p, plan.newProgram)
           \/ Refused(c.intake, p, plan.intake, plan.newIntake)
        THEN Failed(c)
        ELSE Done(AddAlias(written, u, plan.record.alias))

\* planRorImport: a record of that name is adopted, and only its gaps are filled.
RorPlan(c, r) ==
    LET found == Named(c, r.name)
        u == IF found = {} THEN "ror" ELSE CHOOSE x \in found : TRUE
    IN  [record |-> r, university |-> u, new |-> found = {},
         fill |-> found # {} /\ c.university[u].city = None]

RorWriteAll(c, plan) ==
    LET u == plan.university
        row == [name |-> plan.record.name, active |-> TRUE, city |-> "registry"]
    IN  IF ~plan.new \/ ~Exists(c, u) THEN Done([c EXCEPT !.university[u] = row]) ELSE Done(c)
\* Rows whose id or key is taken are skipped; the registry's source and the aliases
\* must refer to a university.
RorWrite(c, plan) ==
    LET u == plan.university
        row == [name |-> plan.record.name, active |-> TRUE, city |-> "registry"]
        written ==
            IF plan.new /\ ~Exists(c, u) /\ Named(c, plan.record.name) = {}
            THEN [c EXCEPT !.university[u] = row]
            ELSE IF plan.fill THEN [c EXCEPT !.university[u].city = "registry"] ELSE c
    IN  IF Exists(written, u) THEN Done(AddAlias(written, u, plan.record.alias)) ELSE Failed(c)

LookupAsNamed(n) == n
\* canonicalNormalizedUniversityName
Lookup(n) == IF n = Historical THEN Canonical ELSE n

\* planTmmImport: universities of any status, by name and then by alias; of those
\* that share an alias the same one is always taken.
TmmPlan(c, n) ==
    LET named == Named(c, Lookup(n))
        aliased == {u \in University : <<u, Lookup(n)>> \in c.alias}
        found == IF named # {} THEN named ELSE aliased
    IN  [name |-> n, new |-> found = {},
         university |-> IF found = {} THEN "tmm" ELSE CHOOSE u \in found : TRUE]

TmmProgramPlanned(c, u) == u
\* "Everything that references programmes must use the identities actually in the
\* table."
TmmProgram(c, u) == c.program[u]

\* importTmmRecords: rows whose id or key is taken are skipped, and what refers to
\* a row that does not exist fails.
TmmWrite(c, plan) ==
    LET u == plan.university
        create == plan.new /\ ~Exists(c, u) /\ Named(c, plan.name) = {}
        row == [name |-> plan.name, active |-> TRUE, city |-> "registry"]
        universities == IF create THEN [c EXCEPT !.university[u] = row] ELSE c
        taken == c.program[u] # None \/ Stored(c.program, u)
        programs == IF taken THEN universities ELSE [universities EXCEPT !.program[u] = u]
        p == TmmProgram(programs, u)
        intakes == IF p # None /\ programs.intake[p] = None
                   THEN [programs EXCEPT !.intake[p] = p] ELSE programs
    IN  IF \/ ~taken /\ ~Exists(universities, u)
           \/ p # None /\ ~Stored(programs.program, p)
           \/ p # None /\ intakes.intake[p] # p
        THEN Failed(c)
        ELSE Done(intakes)

\* repairTmmUniversityDuplicates: the programme moves to the canonical university,
\* which fails where that has one.
RepairPlan(c) ==
    [duplicate |-> {u \in Named(c, Historical) : c.university[u].active},
     canonical |-> {u \in Named(c, Canonical) : c.university[u].active}]

RepairWriteArchives(c, plan) ==
    IF plan.duplicate = {} \/ plan.canonical = {} THEN Done(c)
    ELSE Done([c EXCEPT !.university[CHOOSE x \in plan.duplicate : TRUE].active = FALSE])
RepairWrite(c, plan) ==
    IF plan.duplicate = {} \/ plan.canonical = {} THEN Done(c)
    ELSE LET d == CHOOSE x \in plan.duplicate : TRUE
             u == CHOOSE x \in plan.canonical : TRUE
             kept == IF c.program[d] = None THEN c.program[u] ELSE c.program[d]
         IN  IF c.program[d] # None /\ c.program[u] # None THEN Failed(c)
             ELSE Done([university |-> [c.university EXCEPT ![d].active = FALSE],
                        alias |-> c.alias \cup {<<u, Historical>>},
                        program |-> [c.program EXCEPT ![u] = kept, ![d] = None],
                        intake |-> c.intake])

-----------------------------------------------------------------------------
SeedPlans == [record : Record, university : University, new : BOOLEAN,
              program : Program, newProgram : BOOLEAN, intake : Intake, newIntake : BOOLEAN]
RorPlans == [record : Record, university : University, new : BOOLEAN, fill : BOOLEAN]
RepairPlans == [duplicate : SUBSET University, canonical : SUBSET University]
TmmPlans == [name : Name, new : BOOLEAN, university : University]

TypeOK ==
    /\ catalogue \in Catalogue
    /\ commits \in 0..MaxCommits
    /\ seed \in {Idle} \cup [pc : {"program", "intake", "write"}, plan : SeedPlans]
    /\ ror \in {Idle} \cup [pc : {"write"}, plan : RorPlans]
    /\ tmm \in {Idle, [pc |-> "read"]} \cup [pc : {"repair"}, plan : RepairPlans]
                 \cup [pc : {"write"}, plan : TmmPlans]
    /\ publication \in [pc : {"write"}, university : University] \cup {Idle}

Init ==
    /\ catalogue = [university |-> [u \in University |-> NoRow], alias |-> {},
                    program |-> [u \in University |-> None],
                    intake |-> [p \in Program |-> None]]
    /\ seed = Idle /\ ror = Idle /\ tmm = Idle /\ publication = Idle
    /\ commits = 0

Commit(result) ==
    /\ result.ok
    /\ commits < MaxCommits
    /\ catalogue' = result.catalogue
    /\ commits' = commits + 1
Unchanged == UNCHANGED <<catalogue, commits>>

\* Every script takes its advisory lock before it reads.
SeedRead ==
    /\ seed = Idle
    /\ \E r \in Record : seed' = [pc |-> "program", plan |-> SeedUniversity(catalogue, r)]
    /\ Unchanged /\ UNCHANGED <<ror, tmm, publication>>
SeedReadProgram ==
    /\ seed.pc = "program"
    /\ seed' = [pc |-> "intake", plan |-> SeedProgram(catalogue, seed.plan)]
    /\ Unchanged /\ UNCHANGED <<ror, tmm, publication>>
SeedReadIntake ==
    /\ seed.pc = "intake"
    /\ seed' = [pc |-> "write", plan |-> SeedIntake(catalogue, seed.plan)]
    /\ Unchanged /\ UNCHANGED <<ror, tmm, publication>>
SeedCommit ==
    /\ seed.pc = "write"
    /\ Commit(SeedWrite(catalogue, seed.plan))
    /\ seed' = Idle
    /\ UNCHANGED <<ror, tmm, publication>>

RorRead ==
    /\ ror = Idle
    /\ \E r \in Record : ror' = [pc |-> "write", plan |-> RorPlan(catalogue, r)]
    /\ Unchanged /\ UNCHANGED <<seed, tmm, publication>>
RorCommit ==
    /\ ror.pc = "write"
    /\ Commit(RorWrite(catalogue, ror.plan))
    /\ ror' = Idle
    /\ UNCHANGED <<seed, tmm, publication>>

RepairRead ==
    /\ tmm = Idle
    /\ tmm' = [pc |-> "repair", plan |-> RepairPlan(catalogue)]
    /\ Unchanged /\ UNCHANGED <<seed, ror, publication>>
RepairCommit ==
    /\ tmm.pc = "repair"
    /\ Commit(RepairWrite(catalogue, tmm.plan))
    /\ tmm' = [pc |-> "read"]
    /\ UNCHANGED <<seed, ror, publication>>
TmmRead ==
    /\ tmm.pc = "read"
    /\ \E n \in Name : tmm' = [pc |-> "write", plan |-> TmmPlan(catalogue, n)]
    /\ Unchanged /\ UNCHANGED <<seed, ror, publication>>
TmmCommit ==
    /\ tmm.pc = "write"
    /\ Commit(TmmWrite(catalogue, tmm.plan))
    /\ tmm' = Idle
    /\ UNCHANGED <<seed, ror, publication>>

\* publishApprovedUniversitySubmission, as far as the catalogue is concerned.
PublishUniversity(n) ==
    /\ ~Exists(catalogue, "submission")
    /\ Named(catalogue, n) = {}
    /\ Commit(Done([catalogue EXCEPT !.university["submission"] =
                       [name |-> n, active |-> TRUE, city |-> None]]))
    /\ UNCHANGED writers

\* A programme is published for a university that was active when it was read.
PublishRead(u) ==
    /\ publication = Idle
    /\ catalogue.university[u].active
    /\ catalogue.program[u] = None
    /\ ~Stored(catalogue.program, "submittedProgram")
    /\ publication' = [pc |-> "write", university |-> u]
    /\ Unchanged /\ UNCHANGED <<seed, ror, tmm>>
PublishCommit ==
    /\ publication # Idle
    /\ catalogue.program[publication.university] = None
    /\ Commit(Done([catalogue EXCEPT !.program[publication.university] = "submittedProgram"]))
    /\ publication' = Idle
    /\ UNCHANGED <<seed, ror, tmm>>

\* A refused write, a timeout or a lost connection rolls a transaction back.
Abort ==
    /\ \/ seed # Idle /\ seed' = Idle /\ UNCHANGED <<ror, tmm, publication>>
       \/ ror # Idle /\ ror' = Idle /\ UNCHANGED <<seed, tmm, publication>>
       \/ tmm # Idle /\ tmm' = Idle /\ UNCHANGED <<seed, ror, publication>>
       \/ publication # Idle /\ publication' = Idle /\ UNCHANGED <<seed, ror, tmm>>
    /\ Unchanged

Next ==
    \/ SeedRead \/ SeedReadProgram \/ SeedReadIntake \/ SeedCommit
    \/ RorRead \/ RorCommit \/ RepairRead \/ RepairCommit \/ TmmRead \/ TmmCommit
    \/ \E n \in Name : PublishUniversity(n)
    \/ \E u \in University : PublishRead(u)
    \/ PublishCommit \/ Abort

Spec == Init /\ [][Next]_vars

-----------------------------------------------------------------------------
(* Properties.                                                              *)

\* What refers to a row refers to one that is there, and a key names one row,
\* whatever the imports that overlap believed the catalogue to be.
Injective(f) == \A x, y \in DOMAIN f : f[x] = f[y] /\ f[x] # None => x = y
Whole(c) ==
    /\ Injective([u \in University |-> c.university[u].name])
    /\ Injective(c.program) /\ Injective(c.intake)
    /\ \A u \in University : c.program[u] # None => Exists(c, u)
    /\ \A alias \in c.alias : Exists(c, alias[1])
    /\ \A p \in Program : c.intake[p] # None => Stored(c.program, p)
CatalogueIsWhole == Whole(catalogue)

\* An import that is under way has written nothing and may be given up, so every
\* catalogue is also reached while none is.
NothingUnderWay == {seed, ror, tmm, publication} = {Idle}

Again(first, second) == first.ok => second.ok /\ second.catalogue = first.catalogue
SeedOnce(c, r) == SeedWrite(c, SeedPlan(c, r))
RorOnce(c, r) == RorWrite(c, RorPlan(c, r))
RepairOnce(c) == RepairWrite(c, RepairPlan(c))
TmmOnce(c, n) ==
    LET repaired == RepairOnce(c)
    IN  IF repaired.ok THEN TmmWrite(repaired.catalogue, TmmPlan(repaired.catalogue, n))
        ELSE repaired

\* "Re-runs are idempotent": whatever the catalogue has become, running an import
\* again right after it succeeded succeeds and changes nothing.  The TMM script,
\* which repairs and then imports, leaves its next run something to repair only
\* where it creates the canonical university beside one of the historical name.
ImportsAreIdempotent == NothingUnderWay =>
    /\ \A r \in Record :
          LET s == SeedOnce(catalogue, r)
              o == RorOnce(catalogue, r)
          IN  /\ Again(s, SeedOnce(s.catalogue, r))
              /\ Again(o, RorOnce(o.catalogue, r))
    /\ \A n \in Name :
          LET t == TmmOnce(catalogue, n)
          IN  \/ Again(t, TmmOnce(t.catalogue, n))
              \/ /\ n = Canonical /\ Named(catalogue, Canonical) = {}
                 /\ Named(catalogue, Historical) # {}

\* "Curated data always wins": a registry import that nothing overlaps renames,
\* archives and overwrites nothing, and always succeeds.
CuratedDataWins == NothingUnderWay =>
    \A r \in Record :
        LET o == RorOnce(catalogue, r)
            old == catalogue.university
            new == o.catalogue.university
        IN  /\ o.ok
            /\ \A u \in University : Exists(catalogue, u) =>
                  /\ new[u].name = old[u].name /\ new[u].active = old[u].active
                  /\ old[u].city # None => new[u].city = old[u].city

\* "Never half-merged": an archived duplicate keeps no programme, but for a
\* submission that was being published while it was archived, and for the one that a
\* TMM import that knows no university of its own name gave it, which it found through
\* an alias.  A university that the seed renamed between the reads and the writes of
\* the repair is no such duplicate.
ActiveIn(c, u) == c.university[u].active
ArchivedIn(c, u) ==
    Exists(c, u) /\ ~ActiveIn(c, u) /\ c.university[u].name = Historical
Aliased(c, u) == \E n \in Name : <<u, Lookup(n)>> \in c.alias
Emptied(c) ==
    \A u \in University : ArchivedIn(c, u) =>
        c.program[u] \in {None, "submittedProgram"} \/ (Aliased(c, u) /\ c.program[u] = u)
ArchivedIsEmpty == Emptied(catalogue)

\* A TMM import that nothing overlaps fails only where the September intake was
\* created by another import, or where another import or a submission uses the
\* historical name and the canonical university is missing.
TmmFailuresAreKnown == NothingUnderWay =>
    \A n \in Name :
        LET plan == TmmPlan(catalogue, n)
            u == plan.university
            p == catalogue.program[u]
        IN  ~TmmWrite(catalogue, plan).ok =>
                \/ p # None /\ catalogue.intake[p] \notin {None, p}
                \/ n = Historical /\ plan.new /\ Named(catalogue, Historical) \ {"tmm"} # {}

\* An intake is the seed's or bears the id of its programme, and the establishment
\* that TMM created brought a programme.
RowsAreOwn(c) ==
    /\ \A p \in Program : c.intake[p] \in {None, p, "seedIntake"}
    /\ Exists(c, "tmm") => Stored(c.program, "tmm")

\* What an import planned still holds when it writes, whatever the others wrote.
SeedPlanHolds(c, plan) ==
    /\ plan.university = "seed" \/ Exists(c, plan.university)
    /\ plan.program = "seedProgram" \/ Stored(c.program, plan.program)
    /\ plan.intake \in {"seedIntake", c.intake[plan.program]}
RorPlanHolds(c, plan) ==
    /\ plan.new => plan.university = "ror"
    /\ plan.fill => Exists(c, plan.university)
RepairPlanHolds(c, plan) ==
    /\ plan.duplicate \cap plan.canonical = {}
    /\ \A u \in plan.duplicate \cup plan.canonical : ActiveIn(c, u)
TmmPlanHolds(c, plan) ==
    IF plan.new THEN plan.university = "tmm"
    ELSE /\ Exists(c, plan.university)
         /\ ArchivedIn(c, plan.university) => Aliased(c, plan.university)
PublicationHolds(c, u) == Exists(c, u) /\ ~Stored(c.program, "submittedProgram")
PlansStillHold ==
    /\ seed # Idle => SeedPlanHolds(catalogue, seed.plan)
    /\ seed.pc = "program" => seed.plan.intake = "seedIntake"
    /\ ror # Idle => RorPlanHolds(catalogue, ror.plan)
    /\ tmm.pc = "repair" => RepairPlanHolds(catalogue, tmm.plan)
    /\ tmm.pc = "write" => TmmPlanHolds(catalogue, tmm.plan)
    /\ publication # Idle => PublicationHolds(catalogue, publication.university)

\* What every state of the catalogue satisfies, and what an import does from it.
CatalogueInv ==
    /\ TypeOK /\ CatalogueIsWhole
    /\ CuratedDataWins /\ ArchivedIsEmpty /\ TmmFailuresAreKnown
    /\ RowsAreOwn(catalogue) /\ PlansStillHold
=============================================================================
