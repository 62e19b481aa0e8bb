---------------------------- MODULE SchemaReports ----------------------------
(***************************************************************************)
(* The reports on the catalogue: each is one query, so its answer is a     *)
(* function of the catalogue c at that moment.  Most identify a relation   *)
(* by its names, some by its oid, some by a bare name in any schema; the   *)
(* properties compare them with each other and with the catalogue.         *)
(***************************************************************************)
EXTENDS Catalogue

Pair(c, o) == <<c.rel[o].schema, c.rel[o].name>>

\* list_tables(): what information_schema.tables shows.
ListTables(c) == {Pair(c, o) : o \in OfKind(c, Listed)}

\* list_schemas()
ListSchemas(c) == c.schemas

\* list_indexes(): schema, table and name of every index.
ListIndexes(c) ==
    {<<c.rel[i].schema, c.rel[c.rel[i].of].name, c.rel[i].name>> :
        i \in OfKind(c, {"index"})}

KeyIndexes(c) == {i \in OfKind(c, {"index"}) : c.rel[i].role \in {"constraint", "primary"}}

\* show_constraints()
ShowConstraints(c) ==
    {[table |-> Pair(c, c.rel[i].of), name |-> c.rel[i].name,
      type |-> IF c.rel[i].role = "primary" THEN "PRIMARY KEY" ELSE "UNIQUE"] :
        i \in KeyIndexes(c)}
    \cup {[table |-> Pair(c, f.on), name |-> f.name, type |-> "FOREIGN KEY"] : f \in c.fks}

\* describe_table(): every column of whatever bears the name, in any schema.
DescribeTable(c, t) ==
    UNION {{<<o, x>> : x \in DOMAIN c.rel[o].cols} :
              o \in Called(c, t) \cap OfKind(c, Listed)}

\* find_tables_without_pk(): no primary key under the same two names.
TablesWithoutPk(c) ==
    {Pair(c, o) : o \in OfKind(c, Tables)}
        \ {k.table : k \in {x \in ShowConstraints(c) : x.type = "PRIMARY KEY"}}

FaultyIndexed(c, f) == \E i \in IndexesOf(c, c.rel[f.via].of) : f.col \in Range(c.rel[i].key)

\* The column is somewhere in some index of its own table.
Indexed(c, f) == \E i \in IndexesOf(c, f.on) : f.col \in Range(c.rel[i].key)

\* find_missing_fk_indexes()
MissingFkIndexes(c) == {f \in c.fks : ~Indexed(c, f)}

\* list_duplicate_indexes(): two indexes of tables of the same two names, alike
\* in being unique and in being primary; their columns are not compared.  The
\* statistics that it reads know no index of a partitioned table.
DuplicateIndexes(c) ==
    LET indexes == {i \in OfKind(c, {"index"}) : c.rel[c.rel[i].of].kind # "partitioned"}
        alike(i, j) ==
            /\ i # j
            /\ Pair(c, c.rel[i].of) = Pair(c, c.rel[j].of)
            /\ (c.rel[i].role = "primary") = (c.rel[j].role = "primary")
            /\ (c.rel[i].role = "plain") = (c.rel[j].role = "plain")
    IN  {p \in indexes \X indexes : alike(p[1], p[2])}

\* list_partitions(): the partitions of every table of that name.
ListPartitions(c, t) ==
    {c.rel[p].name : p \in {o \in OfKind(c, Plain) :
                               c.rel[o].of \in Called(c, t)}}

\* generate_create_index_ddl(): all the indexes of "schema"."table".
CreateIndexDdl(c, s, t) ==
    {c.rel[i].name : i \in UNION {IndexesOf(c, o) : o \in At(c, s, t)}}

\* table_dependencies(), "referenced_by": the dependents that are relations
\* themselves.  A view depends through its rule, a foreign key and a key's
\* index through their constraint, and neither is one.
TableDependencies(c, s, t) ==
    {o \in Live(c) :
        /\ c.rel[o].of \in At(c, s, t)
        /\ \/ c.rel[o].kind = "table"
           \/ c.rel[o].kind = "index" /\ c.rel[o].role \in {"plain", "unique"}}

\* The columns that generate_create_table_ddl() reads in its first query.
DdlColumns(c, s, t) ==
    UNION {{<<x, c.rel[o].cols[x]>> : x \in DOMAIN c.rel[o].cols} :
              o \in Find(c, s, t, Listed)}

FaultyDdlKey(c, s, t) ==
    UNION {{<<Pair(c, c.rel[i].of), x>> : x \in Range(c.rel[i].key)} :
              i \in {j \in KeyIndexes(c) : c.rel[j].role = "primary"
                                            /\ c.rel[j].schema = s}}

\* Its second query joins on the constraint's name alone: it finds the columns
\* of every key and foreign key that bears the name of this table's primary key.
DdlKey(c, s, t) ==
    LET keys == {c.rel[i].name : i \in {j \in KeyIndexes(c) :
                    c.rel[j].role = "primary" /\ c.rel[j].of \in At(c, s, t)}}
    IN  UNION {{<<Pair(c, c.rel[i].of), x>> : x \in Range(c.rel[i].key)} :
                  i \in {j \in KeyIndexes(c) : c.rel[j].name \in keys}}
        \cup {<<Pair(c, f.on), f.col>> : f \in {g \in c.fks : g.name \in keys}}
=============================================================================
