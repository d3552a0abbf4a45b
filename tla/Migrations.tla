------------------------------ MODULE Migrations ------------------------------
(***************************************************************************)
(* The SQL migrations of @moribashi/pg (packages/pg/src/migrator.ts): the  *)
(* versioned files of a directory, in the order they run.                  *)
(*                                                                         *)
(* A file is [name, versioned, version]: versioned if its name is V....sql, *)
(* its version the sequence of the parts of its prefix, a part being a     *)
(* number, or NaN where the text is none.                                  *)
(***************************************************************************)
EXTENDS Integers, Sequences, FiniteSets

NaN == -1

Longer(a, b) == IF Len(a) > Len(b) THEN Len(a) ELSE Len(b)

\* Mutant: a part that is missing is not 0 but undefined.
PartUndefined(v, i) == IF i > Len(v) THEN NaN ELSE v[i]

Part(v, i) == IF i > Len(v) THEN 0 ELSE v[i]

\* compareVersions(): the first difference that is not 0.  NaN is none, and a
\* comparison that yields it counts as equal.
CompareVersions(a, b) ==
    LET Differs(i) == Part(a, i) = NaN \/ Part(b, i) = NaN \/ Part(a, i) # Part(b, i)
        at == {i \in 1 .. Longer(a, b) : Differs(i)}
        i == CHOOSE i \in at : \A j \in at : i <= j
    IN  IF at = {} THEN 0
        ELSE IF NaN \in {Part(a, i), Part(b, i)} THEN 0
        ELSE Part(a, i) - Part(b, i)

\* getMigrations(): the files that start with V and end with .sql, in a stable sort.
\* A comparison that is no order leaves the sort's result to the engine.
Versioned(dir) == {i \in DOMAIN dir : dir[i].versioned}

Before(dir, i, j) ==
    LET c == CompareVersions(dir[i].version, dir[j].version)
    IN  c < 0 \/ (c = 0 /\ i < j)

Rank(dir, i) == 1 + Cardinality({j \in Versioned(dir) : Before(dir, j, i)})

GetMigrations(dir) ==
    LET ranks == 1 .. Cardinality(Versioned(dir))
        AtRank(r) == CHOOSE i \in Versioned(dir) : Rank(dir, i) = r
    IN  IF {Rank(dir, i) : i \in Versioned(dir)} = ranks
        THEN [r \in ranks |-> dir[AtRank(r)].name]
        ELSE <<"unspecified">>

\* migrate.latest(): knex runs what its table does not list, in that order.
Leave(left, file, done) == IF file \in done THEN left ELSE Append(left, file)

Pending(order, done) ==
    LET Run[n \in 0 .. Len(order)] ==
            IF n = 0 THEN <<>> ELSE Leave(Run[n - 1], order[n], done)
    IN  Run[Len(order)]

\* A file that ran and is gone: knex refuses the directory, and runs nothing.
Latest(dir, done) ==
    LET order == GetMigrations(dir)
    IN  IF \E name \in done : \A i \in Versioned(dir) : dir[i].name # name
        THEN [error |-> "missing"]
        ELSE [order |-> order, run |-> Pending(order, done)]
=============================================================================
