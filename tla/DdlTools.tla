------------------------------- MODULE DdlTools -------------------------------
(***************************************************************************)
(* The DDL tools that send one statement (actions/schema.rs,               *)
(* actions/schema_alter.rs, clone_table_schema of schema_health.rs).  They *)
(* differ in how they name what they change:                               *)
(*   - those of schema.rs paste the bare name, so the server folds it and  *)
(*     looks in public;                                                    *)
(*   - those of schema_alter.rs quote both the schema and the name.        *)
(* A refused statement changes nothing, so only the accepted ones are      *)
(* steps.  IF EXISTS, CONCURRENTLY and the text of column definitions only *)
(* decide whether a statement is refused, or what is left out here.        *)
(***************************************************************************)
EXTENDS Catalogue

\* create_table(): columns, and a primary key if their definitions say so.
CreateTable ==
    \E t \in Names, cs \in (SUBSET Columns) \ {{}}, pk \in Columns \cup {"none"} :
        LET n == Fold(t)
            table == Relation("table", "public", n, NoOid,
                              [x \in cs |-> "int"], <<>>, "plain")
            made == Add(cat, table)
            o == CHOOSE o \in At(made, "public", n) : TRUE
        IN  /\ HasRoom(cat, 2)
            /\ Free(cat, "public", n)
            /\ IF pk = "none" THEN cat' = made
               ELSE \E key \in AutoNames(n, "primary", <<pk>>) :
                    /\ pk \in cs
                    /\ Free(made, "public", key)
                    /\ cat' = Add(made, Relation("index", "public", key, o, NoCols,
                                                 <<pk>>, "primary"))

\* drop_table(): "DROP TABLE t [CASCADE]".
DropTable ==
    \E t \in Names, cascade \in BOOLEAN :
        Drops(cat, FindHere(cat, t, Tables), cascade, cat')

\* create_index(): of a table or a materialized view.
CreateIndex ==
    \E i \in Names, t \in Names, x \in Columns, unique \in BOOLEAN :
        \E o \in FindHere(cat, t, Tables \cup {"matview"}) :
            LET role == IF unique THEN "unique" ELSE "plain"
            IN  /\ HasRoom(cat, 1)
                /\ Indexable(cat, o, <<x>>, role)
                /\ Free(cat, "public", Fold(i))
                /\ cat' = Add(cat, Relation("index", "public", Fold(i), o, NoCols,
                                            <<x>>, role))

\* drop_index(): an index that no constraint stands on.
DropIndex ==
    \E i \in Names :
        \E o \in FindHere(cat, i, {"index"}) :
            /\ cat.rel[o].role \in {"plain", "unique"}
            /\ Drops(cat, {o}, FALSE, cat')

\* create_partition(): of a table that was declared as partitioned; one with
\* indexes or foreign keys is left out.
CreatePartition ==
    \E p \in Names, t \in Names :
        \E o \in FindHere(cat, t, {"partitioned"}) :
            /\ IndexesOf(cat, o) = {} /\ \A f \in cat.fks : f.on # o
            /\ HasRoom(cat, 1)
            /\ Free(cat, "public", Fold(p))
            /\ cat' = Add(cat, Relation("table", "public", Fold(p), o,
                                        cat.rel[o].cols, <<>>, "plain"))

\* drop_partition(): "DROP TABLE p": its 'table' parameter is only echoed.
DropPartition ==
    \E p \in Names : Drops(cat, FindHere(cat, p, Tables), FALSE, cat')

\* create_view(): OR REPLACE is tried with plain views only, over a query that
\* lists the same columns.
CreateView ==
    \E v \in Names, t \in Names, kind \in Views, replace \in BOOLEAN :
        \E o \in FindHere(cat, t, Tables) :
            LET new == Relation(kind, "public", Fold(v), o,
                                cat.rel[o].cols, <<>>, "plain")
                old == FindHere(cat, v, {"view"})
            IN  \/ /\ ~(replace /\ kind = "matview")
                   /\ HasRoom(cat, 1)
                   /\ Free(cat, "public", Fold(v))
                   /\ cat' = Add(cat, new)
                \/ /\ replace /\ kind = "view" /\ old # {}
                   /\ \A x \in old : cat.rel[x].cols = cat.rel[o].cols
                   /\ cat' = [cat EXCEPT !.rel = [x \in Live(cat) |->
                                 IF x \in old THEN new ELSE cat.rel[x]]]

\* drop_view(): a materialized view is not a view to the server.
DropView ==
    \E v \in Names, cascade \in BOOLEAN :
        Drops(cat, FindHere(cat, v, {"view"}), cascade, cat')

CreateSchema ==
    \E s \in SchemaNames :
        /\ Fold(s) \notin cat.schemas
        /\ cat' = [cat EXCEPT !.schemas = @ \cup {Fold(s)}]

\* drop_schema(): a bare name; without CASCADE only an empty one.
DropSchema ==
    \E n \in SchemaNames \cup cat.schemas, cascade \in BOOLEAN :
        LET s == Fold(n)
            inside == {o \in Live(cat) : cat.rel[o].schema = s}
        IN  /\ s \in cat.schemas
            /\ cascade \/ inside = {}
            /\ cat' = [Dropped(cat, inside) EXCEPT !.schemas = @ \ {s}]

CreateSequence ==
    \E q \in Names :
        /\ HasRoom(cat, 1)
        /\ Free(cat, "public", Fold(q))
        /\ cat' = Add(cat, Relation("sequence", "public", Fold(q), NoOid, NoCols,
                                    <<>>, "plain"))

DropSequence ==
    \E q \in Names : Drops(cat, FindHere(cat, q, {"sequence"}), FALSE, cat')

-----------------------------------------------------------------------------
(***************************************************************************)
(* The tools of schema_alter.rs: "schema"."table".                         *)
(***************************************************************************)

\* The relation that a qualified, quoted name stands for.
FaultyTarget(s, n, kinds) == FindHere(cat, n, kinds)
Target(s, n, kinds) == Find(cat, s, n, kinds)

\* ALTER TABLE changes the columns of a table and of its partitions together,
\* and refuses to change those of a partition alone.
AlterableTable(s, t) == Target(s, t, Tables) \cap Alone(cat)

\* add_column()
AddColumn(s) ==
    \E t \in Names, x \in Columns, type \in Types :
        \E o \in AlterableTable(s, t) :
            /\ x \notin DOMAIN cat.rel[o].cols
            /\ cat' = WithColumns(cat, [r \in Family(cat, o) |->
                          [y \in DOMAIN cat.rel[r].cols \cup {x} |->
                              IF y = x THEN type ELSE cat.rel[r].cols[y]]])

\* drop_column(): its indexes and foreign keys go with it; what else needs it
\* is refused or cascaded.
DropColumn(s) ==
    \E t \in Names, x \in Columns, cascade \in BOOLEAN :
        \E o \in AlterableTable(s, t) :
            LET indexes == {i \in UNION {IndexesOf(cat, r) : r \in Family(cat, o)} :
                               x \in Range(cat.rel[i].key)}
                lost == indexes \cup ViewsOn(cat, {o})
                own(f) == f.on \in Family(cat, o) /\ f.col = x
                left == [Dropped(cat, lost) EXCEPT !.fks = {f \in @ : ~own(f)}]
            IN  /\ x \in DOMAIN cat.rel[o].cols \ Range(cat.rel[o].key)
                /\ \/ cascade
                   \/ ViewsOn(cat, {o}) = {} /\ \A f \in KeysInto(cat, indexes) : own(f)
                /\ cat' = WithColumns(left, [r \in Family(left, o) |->
                              Restrict(left.rel[r].cols, DOMAIN left.rel[r].cols \ {x})])

\* rename_column(): partitions, indexes and foreign keys follow.
RenameColumn(s) ==
    \E t \in Names, x \in Columns, y \in Columns :
        \E o \in AlterableTable(s, t) :
            /\ x \in DOMAIN cat.rel[o].cols /\ y \notin DOMAIN cat.rel[o].cols
            /\ cat' = WithRenamed(cat, Family(cat, o), x, y, cat.rel[o].cols[x])

\* alter_column_type(): refused for a column that a view, a foreign key or the
\* partitioning uses.
AlterColumnType(s) ==
    \E t \in Names, x \in Columns, type \in Types :
        \E o \in AlterableTable(s, t) :
            LET family == Family(cat, o)
            IN  /\ x \in DOMAIN cat.rel[o].cols \ Range(cat.rel[o].key)
                /\ cat.rel[o].cols[x] # type
                /\ ViewsOn(cat, {o}) = {}
                /\ \A f \in cat.fks :
                      /\ ~(f.on \in family /\ f.col = x)
                      /\ ~(cat.rel[f.via].of \in family /\ x \in Range(cat.rel[f.via].key))
                /\ cat' = WithColumns(cat, [r \in family |->
                              [cat.rel[r].cols EXCEPT ![x] = type]])

ConstraintNames(o) ==
    {f.name : f \in {g \in cat.fks : g.on = o}}
        \cup {cat.rel[i].name : i \in {j \in IndexesOf(cat, o) :
                  cat.rel[j].role \in {"constraint", "primary"}}}

\* To rename a key's index is to rename its constraint.
Renamable(o, n) ==
    /\ Free(cat, cat.rel[o].schema, n)
    /\ cat.rel[o].role \in {"constraint", "primary"} =>
          n \notin ConstraintNames(cat.rel[o].of)

Rename(o, n) == Renamable(o, n) /\ cat' = [cat EXCEPT !.rel[o].name = n]

\* rename_table(): "ALTER TABLE .. RENAME" takes any kind of relation.
RenameTable(s) ==
    \E t \in Names, n \in Names : \E o \in Target(s, t, Kinds) : Rename(o, n)

\* rename_index(): so does "ALTER INDEX .. RENAME".
RenameIndex(s) ==
    \E i \in Names, n \in Names : \E o \in Target(s, i, Kinds) : Rename(o, n)

\* rename_schema()
RenameSchema(s) ==
    \E n \in SchemaNames :
        /\ s \in cat.schemas /\ n \notin cat.schemas
        /\ cat' = [cat EXCEPT
              !.schemas = (@ \ {s}) \cup {n},
              !.rel = [o \in Live(cat) |-> IF @[o].schema = s
                                           THEN [@[o] EXCEPT !.schema = n] ELSE @[o]]]

\* add_foreign_key(): ref_table is looked up in the same schema; the server
\* wants a unique index on the referenced column.
AddForeignKey(s) ==
    \E t, ref \in Names :
        \E o \in Target(s, t, Tables) \cap Unsplit(cat), p \in Target(s, ref, Tables) :
            \E via \in IndexesOf(cat, p), name \in Names,
               x \in DOMAIN cat.rel[o].cols, y \in DOMAIN cat.rel[p].cols :
                /\ cat.rel[via].role # "plain" /\ cat.rel[via].key = <<y>>
                /\ cat.rel[o].cols[x] = cat.rel[p].cols[y]
                /\ name \notin ConstraintNames(o)
                /\ cat' = [cat EXCEPT !.fks = @ \cup
                              {[name |-> name, on |-> o, col |-> x, via |-> via]}]

\* drop_foreign_key() and drop_constraint(): one statement, any constraint.
DropConstraint(s) ==
    \E t, name \in Names, cascade \in BOOLEAN :
        \E o \in Target(s, t, Tables) :
            \/ \E f \in cat.fks :
                   /\ f.on = o /\ f.name = name
                   /\ cat' = [cat EXCEPT !.fks = @ \ {f}]
            \/ \E i \in IndexesOf(cat, o) :
                   /\ cat.rel[i].name = name
                   /\ cat.rel[i].role \in {"constraint", "primary"}
                   /\ cascade \/ \A f \in cat.fks : f.via # i
                   /\ cat' = Dropped(cat, {i})

\* add_unique_constraint()
AddUnique(s) ==
    \E t, name \in Names, x \in Columns :
        \E o \in Target(s, t, Tables) :
            /\ HasRoom(cat, 1)
            /\ Indexable(cat, o, <<x>>, "constraint")
            /\ Free(cat, s, name) /\ name \notin ConstraintNames(o)
            /\ cat' = Add(cat, Relation("index", s, name, o, NoCols, <<x>>,
                                        "constraint"))

\* clone_table_schema(): LIKE copies the columns, with INCLUDING INDEXES the
\* indexes under names of the server's choosing, and never the foreign keys.
CloneTable(s) ==
    \E t, n \in Names, from \in cat.schemas, indexes \in BOOLEAN :
        \E o \in Target(from, t, Listed \cup {"matview"}) :
            LET made == Add(cat, Relation("table", s, n, NoOid, cat.rel[o].cols,
                                          <<>>, "plain"))
                copy == CHOOSE x \in At(made, s, n) : TRUE
                old == IF indexes THEN IndexesOf(cat, o) ELSE {}
                auto(i) == AutoNames(n, cat.rel[i].role, cat.rel[i].key)
                places == Injection(old, Oids \ Live(made))
                place == CHOOSE p \in places : TRUE
                placed(x) == CHOOSE i \in old : place[i] = x
            IN  /\ HasRoom(cat, 1) /\ places # {}
                /\ Free(cat, s, n)
                /\ \E names \in Injection(old, UNION {auto(i) : i \in old}) :
                      /\ \A i \in old : names[i] \in auto(i) /\ Free(made, s, names[i])
                      /\ cat' = [made EXCEPT !.rel = [x \in Live(made) \cup Range(place) |->
                                    IF x \in Live(made) THEN made.rel[x]
                                    ELSE [cat.rel[placed(x)] EXCEPT
                                             !.schema = s, !.name = names[placed(x)],
                                             !.of = copy]]]

\* A call of a tool that names the schema s.
QualifiedTool(s) ==
    \/ AddColumn(s) \/ DropColumn(s) \/ RenameColumn(s) \/ AlterColumnType(s)
    \/ RenameTable(s) \/ RenameIndex(s) \/ RenameSchema(s)
    \/ AddForeignKey(s) \/ DropConstraint(s) \/ AddUnique(s) \/ CloneTable(s)

\* A call of a tool that takes bare names.
BareTool ==
    \/ CreateTable \/ DropTable \/ CreateIndex \/ DropIndex
    \/ CreatePartition \/ DropPartition \/ CreateView \/ DropView
    \/ CreateSchema \/ DropSchema \/ CreateSequence \/ DropSequence
=============================================================================
