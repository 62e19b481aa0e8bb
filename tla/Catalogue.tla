------------------------------ MODULE Catalogue ------------------------------
(***************************************************************************)
(* PostgreSQL's catalogue as far as the schema tools read and change it:   *)
(* what exists, what depends on what, and what one DDL statement may do.   *)
(* The server is external; what is here is what the statements that the    *)
(* tools send rely on.                                                     *)
(*                                                                         *)
(* A catalogue is a record c:                                              *)
(*   c.schemas  the names of the schemas                                   *)
(*   c.rel      the relations, by oid                                      *)
(*   c.fks      the foreign keys; via is the unique index that is          *)
(*              referenced                                                 *)
(*   c.roles    the roles, by name                                         *)
(*   c.grants   which role may use which relation                          *)
(* Left out: rows, defaults, nullability, sub-partitions, views of views,  *)
(* and tables that have partitions and indexes or foreign keys as well,    *)
(* which the server would repeat on every partition.                       *)
(***************************************************************************)
EXTENDS Naturals, FiniteSets, Functions, Sequences

CONSTANTS
    Oids,           \* numbers for relations: the bound on how many there are
    NoOid,          \* no relation
    Names,          \* the names that a call may give
    SchemaNames,    \* the schemas that a call may create, or rename to
    Columns,        \* the columns that a call may give
    Fold(_),        \* what an unquoted name becomes: its lower case
    AutoNames(_, _, _)  \* names the server may give to an index: of this
                        \* table, for this role, with this key

ASSUME OidsAssumption == IsFiniteSet(Oids) /\ NoOid \notin Oids
ASSUME ColumnsAssumption == IsFiniteSet(Columns)

VARIABLE cat        \* the catalogue

Types == {"int", "text"}
Plain == {"table"}
Tables == {"table", "partitioned"}
Listed == Tables \cup {"view"}             \* in information_schema.tables
Views == {"view", "matview"}
Kinds == Tables \cup Views \cup {"index", "sequence"}

\* What an index is for: speed, uniqueness, or one of the two key constraints.
Roles == {"plain", "unique", "constraint", "primary"}

Relation(kind, schema, name, of, cols, key, role) ==
    [kind |-> kind, schema |-> schema, name |-> name, of |-> of,
     cols |-> cols, key |-> key, role |-> role]

NoCols == [x \in {} |-> "int"]

Live(c) == DOMAIN c.rel

OfKind(c, kinds) == {o \in Live(c) : c.rel[o].kind \in kinds}

\* The relations that bear a name, in one schema and in all of them.
At(c, s, n) == {o \in Live(c) : c.rel[o].schema = s /\ c.rel[o].name = n}
Called(c, n) == {o \in Live(c) : c.rel[o].name = n}

Find(c, s, n, kinds) == At(c, s, n) \cap OfKind(c, kinds)

\* An unquoted, unqualified name: lower-cased, and looked up in public, the
\* one schema of the search path.
FindHere(c, n, kinds) == Find(c, "public", Fold(n), kinds)

\* A new relation needs its schema, and a name no relation has there.
Free(c, s, n) == s \in c.schemas /\ At(c, s, n) = {}

IndexesOf(c, o) == {i \in OfKind(c, {"index"}) : c.rel[i].of = o}

\* A table with its partitions, which have its columns.
Family(c, o) == {o} \cup {p \in OfKind(c, Plain) : c.rel[p].of = o}

\* The tables whose columns a statement may change: not a partition's own.
Alone(c) == {o \in OfKind(c, Tables) : c.rel[o].of = NoOid}

\* What may get an index of its own or a foreign key.
Unsplit(c) == {o \in OfKind(c, Tables \cup {"matview"}) : Family(c, o) = {o}}

\* A unique index of a partitioned table has the columns it is partitioned by,
\* which are the key of that table.
Indexable(c, o, key, role) ==
    /\ o \in Unsplit(c)
    /\ Range(key) \subseteq DOMAIN c.rel[o].cols
    /\ role # "plain" => Range(c.rel[o].key) \subseteq Range(key)

HasRoom(c, n) == Cardinality(Oids \ Live(c)) >= n

Add(c, r) ==
    LET o == CHOOSE o \in Oids \ Live(c) : TRUE
    IN  [c EXCEPT !.rel = [x \in Live(c) \cup {o} |->
                              IF x = o THEN r ELSE c.rel[x]]]

\* Everything that goes with the relations S without being asked: the
\* partitions of a table, and the indexes of both.
WithParts(c, S) ==
    LET parts(T) == T \cup {x \in OfKind(c, {"table", "index"}) : c.rel[x].of \in T}
    IN  parts(parts(S))

ViewsOn(c, S) == {v \in OfKind(c, Views) : c.rel[v].of \in WithParts(c, S)}

\* Foreign keys of other tables that reference a relation of S.
KeysInto(c, S) ==
    {f \in c.fks : f.via \in WithParts(c, S) /\ f.on \notin WithParts(c, S)}

\* DROP without CASCADE is refused while something else needs S.
Needed(c, S) == ViewsOn(c, S) \ S # {} \/ KeysInto(c, S) # {}

\* DROP of the relations S; with CASCADE, of the views on them too.
Dropped(c, S) ==
    LET gone == WithParts(c, S \cup ViewsOn(c, S))
    IN  [c EXCEPT
            !.rel = Restrict(@, Live(c) \ gone),
            !.fks = {f \in @ : f.on \notin gone /\ f.via \notin gone},
            !.grants = {g \in @ : g.on \notin gone}]

Drops(c, S, cascade, d) ==
    /\ S # {}
    /\ cascade \/ ~Needed(c, S)
    /\ d = Dropped(c, S)

\* The catalogue once each relation r in DOMAIN new has the columns new[r].
WithColumns(c, new) ==
    [c EXCEPT !.rel = [r \in Live(c) |->
        IF r \in DOMAIN new THEN [c.rel[r] EXCEPT !.cols = new[r]] ELSE c.rel[r]]]

\* The name of a column within an index, once the column is renamed.
Renamed(key, from, to) == [k \in DOMAIN key |-> IF key[k] = from THEN to ELSE key[k]]

\* The columns of a table, once one of them is renamed, of this type.
ColsRenamed(cols, from, to, type) ==
    [x \in (DOMAIN cols \ {from}) \cup {to} |-> IF x = to THEN type ELSE cols[x]]

\* The catalogue once a column of the tables F is renamed: their keys, indexes
\* and foreign keys follow.
WithRenamed(c, F, from, to, type) ==
    [c EXCEPT
        !.rel = [r \in Live(c) |->
            IF r \in F
            THEN [c.rel[r] EXCEPT !.cols = ColsRenamed(@, from, to, type),
                                  !.key = Renamed(@, from, to)]
            ELSE IF c.rel[r].of \in F /\ c.rel[r].kind = "index"
            THEN [c.rel[r] EXCEPT !.key = Renamed(@, from, to)] ELSE c.rel[r]],
        !.fks = {IF f.on \in F /\ f.col = from THEN [f EXCEPT !.col = to] ELSE f :
                    f \in c.fks}]

-----------------------------------------------------------------------------
(***************************************************************************)
(* What the server keeps true of its catalogue, whatever the statements    *)
(***************************************************************************)
IsRelation(r) ==
    /\ r = Relation(r.kind, r.schema, r.name, r.of, r.cols, r.key, r.role)
    /\ r.kind \in Kinds
    /\ r.role \in IF r.kind = "index" THEN Roles ELSE {"plain"}
    /\ DOMAIN r.cols \subseteq Columns
    /\ r.cols \in [DOMAIN r.cols -> Types]
    /\ r.key \in Seq(Columns)

WellFormed(c) ==
    /\ c = [schemas |-> c.schemas, rel |-> c.rel, fks |-> c.fks,
            roles |-> c.roles, grants |-> c.grants]
    /\ Live(c) \subseteq Oids
    /\ c.rel = [o \in Live(c) |-> c.rel[o]]
    /\ c.roles = [u \in DOMAIN c.roles |-> c.roles[u]]
    /\ \A o \in Live(c) : IsRelation(c.rel[o]) /\ c.rel[o].schema \in c.schemas

NamesUnique(c) ==
    \A o, p \in Live(c) :
        c.rel[o].schema = c.rel[p].schema /\ c.rel[o].name = c.rel[p].name => o = p

\* What a relation r may belong to: an index, a partition and a materialized
\* view live in the schema of what they are of, a view may have moved away.
Owners(c, r) ==
    {p \in OfKind(c, CASE r.kind = "index" -> Tables \cup {"matview"}
                       [] r.kind \in Views -> Tables
                       [] r.kind = "table" -> {"partitioned"}
                       [] OTHER -> {}) :
        r.kind = "view" \/ c.rel[p].schema = r.schema}

HasOwner(c, r) ==
    \/ r.of \in Owners(c, r)
    \/ r.of = NoOid /\ r.kind \in Tables \cup {"sequence"}

\* An index has columns of its table, and a constraint is on a table.
IndexFits(c, r) ==
    r.kind = "index" =>
        /\ r.key # <<>> /\ Range(r.key) \subseteq DOMAIN c.rel[r.of].cols
        /\ r.role \in {"constraint", "primary"} => c.rel[r.of].kind \in Tables

KeysFit(c) ==
    \A f \in c.fks :
        /\ f = [name |-> f.name, on |-> f.on, col |-> f.col, via |-> f.via]
        /\ f.on \in OfKind(c, Tables) /\ f.col \in DOMAIN c.rel[f.on].cols
        /\ f.via \in OfKind(c, {"index"}) /\ c.rel[f.via].role # "plain"

\* No foreign key bears the name of a key of its own table.
ConstraintsApart(c) ==
    \A f \in c.fks : \A i \in IndexesOf(c, f.on) :
        c.rel[i].role \in {"constraint", "primary"} => c.rel[i].name # f.name

GrantsFit(c) ==
    \A g \in c.grants :
        /\ g = [role |-> g.role, on |-> g.on]
        /\ g.role \in DOMAIN c.roles /\ g.on \in Live(c)

Consistent(c) ==
    /\ WellFormed(c) /\ NamesUnique(c)
    /\ \A o \in Live(c) : HasOwner(c, c.rel[o]) /\ IndexFits(c, c.rel[o])
    /\ KeysFit(c) /\ ConstraintsApart(c) /\ GrantsFit(c)
=============================================================================
