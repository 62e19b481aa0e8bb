----------------------------- MODULE SchemaTools -----------------------------
(***************************************************************************)
(* The schema tools at work on one database.  Those that send a single     *)
(* statement are the steps of DdlTools and UserTools.  Those that send     *)
(* several, outside a transaction, are the requests of this module:        *)
(* backup_table, alter_view and alter_index, generate_create_table_ddl.    *)
(* Between two of their statements anything may happen: a tool called by   *)
(* another session, a statement that fails, or the end of the process,     *)
(* which get_object_details brings about.                                  *)
(***************************************************************************)
EXTENDS DdlTools, UserTools, SchemaReports

CONSTANTS
    Requests,           \* the multi-statement requests
    BackupName(_),      \* "backup_" and a name
    CopyName(_, _),     \* an index's name, "_on_" and a backup's name
    Beginning(_),       \* the names that begin with the letters of this one
    OccursIn(_, _),     \* whether one text is part of another
    Starts,             \* the catalogues that a run begins with
    MaxCalls            \* bound: tools called in one behaviour

ASSUME StartsAssumption == \A c \in Starts : Consistent(c)
ASSUME CallsAssumption == MaxCalls \in Nat
ASSUME NamingAssumption ==
    /\ Fold("public") = "public"
    /\ \A t \in Names :
        /\ Fold(t) = t => Fold(BackupName(t)) = BackupName(t)
        /\ t \in Beginning(t)
        /\ \A n \in Beginning(t) : BackupName(n) # t

VARIABLES
    job,                \* what each request is doing
    calls,              \* tools called so far
    asked               \* the schema that the last call was about, if it named one

vars == <<cat, job, calls, asked>>

None == "none"
Pcs == {"idle", "exists", "free", "create", "columns", "list", "define", "build",
        "count", "rename", "move", "read", "key", "answered"}

\* One record serves all three tools.  alone is not in the code: it holds while
\* nobody else has changed the catalogue since the request began.  A request
\* that is refused is over, and so is an answer once the catalogue moves on.
Job(tool, pc, name) ==
    [tool |-> tool, pc |-> pc, alone |-> TRUE, name |-> name, schema |-> None,
     to |-> None, cols |-> {}, key |-> {}, todo |-> {}, def |-> {},
     copied |-> 0, lost |-> 0]

IdleJob == Job(None, "idle", None)

Ended == {"idle", "answered"}

Init ==
    /\ cat \in Starts
    /\ job = [r \in Requests |-> IdleJob]
    /\ calls = 0
    /\ asked = None

Call == calls < MaxCalls /\ calls' = calls + 1

\* A change of the catalogue by another than r ends the solitude of a request.
Disturbed(j) == IF j.pc \in Ended THEN IdleJob ELSE [j EXCEPT !.alone = FALSE]

Noticed(r, j) ==
    /\ job' = [q \in Requests |-> IF q = r THEN j
                                  ELSE IF cat' = cat THEN job[q] ELSE Disturbed(job[q])]
    /\ asked' = None

Go(r, pc) == Noticed(r, [job[r] EXCEPT !.pc = pc])

\* Statements that only read, and those that are refused.
Reads(r, j) == cat' = cat /\ calls' = calls /\ Noticed(r, j)
Refuse(r) == Reads(r, IdleJob)

Begin(r, j) ==
    /\ Call
    /\ cat' = cat
    /\ Noticed(r, j)

-----------------------------------------------------------------------------
(***************************************************************************)
(* backup_table()                                                          *)
(***************************************************************************)

StartBackup(r) ==
    /\ job[r].pc \in Ended
    /\ \E t \in Names : Begin(r, Job("backup", "exists", t))

\* The source: exactly one listed relation of that name, in any schema.
VerifyExists(r) ==
    /\ job[r].pc = "exists"
    /\ IF Cardinality(Called(cat, job[r].name) \cap OfKind(cat, Listed)) = 1
       THEN Reads(r, [job[r] EXCEPT !.pc = "free"]) ELSE Refuse(r)

\* No listed relation bears the name of the backup, in any schema.
VerifyFree(r) ==
    /\ job[r].pc = "free"
    /\ IF Called(cat, BackupName(job[r].name)) \cap OfKind(cat, Listed) = {}
       THEN Reads(r, [job[r] EXCEPT !.pc = "create"]) ELSE Refuse(r)

\* "CREATE TABLE backup_t AS SELECT * FROM t", both names bare.
CreateBackup(r) ==
    /\ job[r].pc = "create"
    /\ LET name == Fold(BackupName(job[r].name))
           source == FindHere(cat, job[r].name, Listed \cup {"matview", "sequence"})
       IN  IF source # {} /\ Free(cat, "public", name)
           THEN \E o \in source :
                   /\ HasRoom(cat, 1)
                   /\ cat' = Add(cat, Relation("table", "public", name, NoOid,
                                               cat.rel[o].cols, <<>>, "plain"))
                   /\ calls' = calls
                   /\ Go(r, "columns")
           ELSE Refuse(r)

\* The columns that will be reported: those of the exact name, in any schema.
ReadColumns(r) ==
    /\ job[r].pc = "columns"
    /\ Reads(r, [job[r] EXCEPT !.cols = DescribeTable(cat, job[r].name), !.pc = "list"])

\* The indexes to copy, by their names: those of any table so called.
FaultyNamesToCopy(t) == {cat.rel[i].name : i \in OfKind(cat, {"index"})}
NamesToCopy(t) ==
    {cat.rel[i].name : i \in UNION {IndexesOf(cat, o) : o \in Called(cat, t)}}

ListToCopy(r) ==
    /\ job[r].pc = "list"
    /\ Reads(r, [job[r] EXCEPT !.todo = NamesToCopy(job[r].name), !.pc = "define"])

\* CREATE INDEX as pg_indexes spells it: of a partitioned table it is "ON ONLY".
Definition(i) ==
    LET table == cat.rel[cat.rel[i].of]
    IN  [index |-> cat.rel[i], on |-> table.name, only |-> table.kind = "partitioned"]

\* An index whose name is not the only one of its kind ends the request.
ReadDefinition(r) ==
    /\ job[r].pc = "define"
    /\ \/ /\ job[r].todo = {}
          /\ Reads(r, [job[r] EXCEPT !.pc = "count"])
       \/ \E n \in job[r].todo :
            LET found == Called(cat, n) \cap OfKind(cat, {"index"})
            IN  IF Cardinality(found) = 1
                THEN \E i \in found :
                        Reads(r, [job[r] EXCEPT
                            !.pc = "build", !.todo = @ \ {n},
                            !.def = {Definition(i)}])
                ELSE Refuse(r)

\* The names "s.t" in a definition once replace() has been at it.  A name that
\* needs quotes is not what it looks for, nor is the one after "ON ONLY"; and
\* "ON t" is also found where the schema begins with t.
FaultyReplaced(name, t) == name
Replaced(name, t) ==
    IF Fold(name) = name /\ name \in Beginning(t) THEN BackupName(name) ELSE name

NewTable(d, t) ==
    IF d.only \/ Fold(d.index.schema) # d.index.schema THEN d.on ELSE Replaced(d.on, t)
NewSchema(d, t) ==
    IF d.only THEN d.index.schema ELSE Replaced(d.index.schema, t)

\* Every occurrence of the index's own name is replaced as well, which leaves
\* no statement, or one about things that do not exist, if there are others.
Garbled(d, t) ==
    \E text \in {NewSchema(d, t), NewTable(d, t)} \cup Range(d.index.key)
                 \cup {"CREATE", "INDEX", "ON", "USING", "btree"}
                 \cup (IF d.index.role = "plain" THEN {} ELSE {"UNIQUE"})
                 \cup (IF d.only THEN {"ONLY"} ELSE {}) :
        OccursIn(d.index.name, text)

\* The new index, or why there is none.  What was a key is a unique index now.
BuildIndex(r) ==
    /\ job[r].pc = "build"
    /\ calls' = calls
    /\ \E d \in job[r].def :
        LET i == d.index
            schema == NewSchema(d, job[r].name)
            role == IF i.role = "plain" THEN "plain" ELSE "unique"
            name == LET n == CopyName(i.name, BackupName(job[r].name))
                    IN  IF Fold(i.name) = i.name THEN Fold(n) ELSE n
            onto == {o \in Find(cat, schema, NewTable(d, job[r].name), Tables \cup {"matview"}) :
                        Indexable(cat, o, i.key, role)}
        IN  IF onto # {} /\ Free(cat, schema, name) /\ ~Garbled(d, job[r].name)
            THEN \E o \in onto :
                    /\ HasRoom(cat, 1)
                    /\ cat' = Add(cat, [i EXCEPT !.schema = schema, !.name = name,
                                                 !.of = o, !.role = role])
                    /\ Noticed(r, [job[r] EXCEPT !.pc = "define", !.def = {},
                                                 !.copied = @ + 1])
            ELSE /\ cat' = cat
                 /\ Noticed(r, [job[r] EXCEPT !.pc = "define", !.def = {},
                                              !.lost = @ + 1])

\* "SELECT COUNT(*)" finds the backup, and the request is answered.
CountRows(r) ==
    /\ job[r].pc = "count"
    /\ IF FindHere(cat, BackupName(job[r].name), Kinds \ {"index"}) # {}
       THEN Reads(r, [job[r] EXCEPT !.pc = "answered"]) ELSE Refuse(r)

-----------------------------------------------------------------------------
(***************************************************************************)
(* alter_view() and alter_index()                                          *)
(***************************************************************************)

\* At least one of rename_to and set_schema is given.
StartAlter(r) ==
    /\ job[r].pc \in Ended
    /\ \E tool \in {"alter_view", "alter_index"}, v \in Names,
          to \in Names \cup {None}, s \in cat.schemas \cup {None} :
        /\ to # None \/ s # None
        /\ Begin(r, [Job(tool, IF to # None THEN "rename" ELSE "move", v)
                        EXCEPT !.to = to, !.schema = s])

\* "ALTER VIEW v RENAME TO w" takes a view, "ALTER INDEX" any relation.
RenameFirst(r) ==
    /\ job[r].pc = "rename"
    /\ LET found == FindHere(cat, job[r].name,
                             IF job[r].tool = "alter_view" THEN {"view"} ELSE Kinds)
       IN  \/ \E o \in found :
                    /\ Rename(o, Fold(job[r].to))
                    /\ calls' = calls
                    /\ Go(r, IF job[r].schema = None THEN "answered" ELSE "move")
           \/ /\ \A o \in found : ~Renamable(o, Fold(job[r].to))
              /\ Refuse(r)

\* "ALTER VIEW v SET SCHEMA s", both bare, v still the name that the call gave;
\* "ALTER INDEX .. SET SCHEMA" is no statement of the server's.
MovedView(r) == FindHere(cat, job[r].name, {"view"})

MoveSecond(r) ==
    /\ job[r].pc = "move"
    /\ LET s == Fold(job[r].schema)
       IN  IF /\ job[r].tool = "alter_view"
              /\ \E o \in MovedView(r) : s = "public" \/ Free(cat, s, cat.rel[o].name)
           THEN \E o \in MovedView(r) :
                    /\ cat' = [cat EXCEPT !.rel[o].schema = s]
                    /\ calls' = calls
                    /\ Go(r, "answered")
           ELSE Refuse(r)

-----------------------------------------------------------------------------
(***************************************************************************)
(* generate_create_table_ddl(): two queries, one answer                    *)
(***************************************************************************)
StartDdl(r) ==
    /\ job[r].pc \in Ended
    /\ \E s \in cat.schemas, t \in Names :
        Begin(r, [Job("ddl", "read", t) EXCEPT !.schema = s])

ReadTable(r) ==
    /\ job[r].pc = "read"
    /\ LET cols == DdlColumns(cat, job[r].schema, job[r].name)
       IN  IF cols # {} THEN Reads(r, [job[r] EXCEPT !.cols = cols, !.pc = "key"])
           ELSE Refuse(r)

ReadKey(r) ==
    /\ job[r].pc = "key"
    /\ Reads(r, [job[r] EXCEPT !.key = DdlKey(cat, job[r].schema, job[r].name),
                               !.pc = "answered"])

-----------------------------------------------------------------------------
\* A statement fails for a reason of its own: the session is gone, a lock was
\* not granted, a row is in the way.  Only CREATE INDEX is forgiven.
StatementFails(r) ==
    /\ job[r].pc \notin Ended
    /\ IF job[r].pc = "build"
       THEN Reads(r, [job[r] EXCEPT !.pc = "define", !.def = {}, !.lost = @ + 1])
       ELSE Refuse(r)

\* get_object_details() of a relation that has statistics decodes a bigint as
\* an f64: the panic ends the process, and with it every other request.
GetObjectDetails ==
    /\ Call
    /\ OfKind(cat, Tables \cup {"matview"}) # {}
    /\ cat' = cat
    /\ job' = [r \in Requests |-> IdleJob]
    /\ asked' = None

\* Any other tool, called by another session.
SingleStatement ==
    /\ Call
    /\ \/ (BareTool \/ UserTool) /\ asked' = None
       \/ \E s \in cat.schemas : QualifiedTool(s) /\ asked' = s
       \/ \E s \in Names \cup cat.schemas : PrivilegeTool(s) /\ asked' = s
    /\ job' = [q \in Requests |-> Disturbed(job[q])]

Backup(r) ==
    \/ StartBackup(r) \/ VerifyExists(r) \/ VerifyFree(r) \/ CreateBackup(r)
    \/ ReadColumns(r) \/ ListToCopy(r) \/ ReadDefinition(r) \/ BuildIndex(r)
    \/ CountRows(r)

Alter(r) == StartAlter(r) \/ RenameFirst(r) \/ MoveSecond(r)

GenerateDdl(r) == StartDdl(r) \/ ReadTable(r) \/ ReadKey(r)

Next ==
    \/ \E r \in Requests : Backup(r) \/ Alter(r) \/ GenerateDdl(r) \/ StatementFails(r)
    \/ SingleStatement
    \/ GetObjectDetails

Spec == Init /\ [][Next]_vars

-----------------------------------------------------------------------------
(***************************************************************************)
(* Properties                                                              *)
(***************************************************************************)

\* The types; and whatever the tools do, the catalogue stays one: names are
\* unique within a schema, and what an index, a view, a partition, a key or a
\* grant is on exists, with the columns that it is on.
TypeOK ==
    /\ Consistent(cat)
    /\ calls \in 0 .. MaxCalls
    /\ \A r \in Requests :
        /\ job[r].pc \in Pcs
        /\ job[r].alone \in BOOLEAN
        /\ job[r].copied \in Nat /\ job[r].lost \in Nat

\* A backup never touches what it backs up: no step of it changes a relation of
\* the name it was given, or adds an index to one, as long as neither that name
\* nor the relation's schema needs quotes, and the definition at hand is not one
\* of a partitioned table.  Not even when others rename, drop or create tables
\* meanwhile.
BackupAtWork(r) ==
    job[r].tool = "backup" /\ job[r].pc \notin Ended /\ job'[r].pc # job[r].pc
BackupSparesOriginal ==
    [][\A r \in Requests :
          /\ BackupAtWork(r) /\ Fold(job[r].name) = job[r].name
          /\ \A d \in job[r].def : ~d.only
          => \A o \in Called(cat, job[r].name) :
                  Fold(cat.rel[o].schema) = cat.rel[o].schema =>
                      /\ o \in Live(cat')
                      /\ cat'.rel[o] = cat.rel[o]
                      /\ IndexesOf(cat', o) = IndexesOf(cat, o)]_vars

\* What the answer of a backup says is true: when the table had its name for
\* itself and nobody interfered, the backup has the columns of the table, the
\* answer counts the columns and the indexes of the backup, each of these is on
\* the columns of one of the table's, and what is missing is what was given up.
\* How many that is, the answer does not say: see BackupIsComplete.
BackupAnswered(r) ==
    /\ job[r].tool = "backup" /\ job[r].pc = "answered" /\ job[r].alone
    /\ Fold(job[r].name) = job[r].name /\ Cardinality(Called(cat, job[r].name)) = 1
BackupAnswerIsTrue ==
    \A r \in Requests : BackupAnswered(r) /\ "public" \notin Beginning(job[r].name) =>
        \A o \in Called(cat, job[r].name) : cat.rel[o].kind # "partitioned" =>
            \E b \in At(cat, "public", BackupName(job[r].name)) :
                /\ cat.rel[b].cols = cat.rel[o].cols
                /\ Cardinality(job[r].cols) = Cardinality(DOMAIN cat.rel[b].cols)
                /\ job[r].copied = Cardinality(IndexesOf(cat, b))
                /\ job[r].copied + job[r].lost = Cardinality(IndexesOf(cat, o))
                /\ \A i \in IndexesOf(cat, b) : \E j \in IndexesOf(cat, o) :
                      cat.rel[i].key = cat.rel[j].key

\* The keys that bear the name of the primary key of a table.
Namesakes(o) ==
    LET names == {cat.rel[i].name : i \in {j \in IndexesOf(cat, o) :
                                             cat.rel[j].role = "primary"}}
    IN  {k \in ShowConstraints(cat) : k.name \in names /\ k.table # Pair(cat, o)}

\* The two queries of generate_create_table_ddl() describe one table: left alone,
\* and with a key whose name no other table uses, the answer has the columns of
\* the table and the primary key that it has.
DdlIsTheTable ==
    \A r \in Requests :
        job[r].tool = "ddl" /\ job[r].pc = "answered" /\ job[r].alone =>
            \A o \in Find(cat, job[r].schema, job[r].name, Listed) :
                Namesakes(o) = {} =>
                    /\ job[r].cols = {<<x, cat.rel[o].cols[x]>> : x \in DOMAIN cat.rel[o].cols}
                    /\ job[r].key = {<<Pair(cat, o), x>> : x \in
                          UNION {Range(cat.rel[i].key) : i \in {j \in IndexesOf(cat, o) :
                                    cat.rel[j].role = "primary"}}}

\* A tool that was told a schema leaves the relations of every other schema as
\* they are, except the views that a cascade drops.
OnlyTheSchemaAsked ==
    [][asked' # None => \A o \in Live(cat) :
          cat.rel[o].schema # asked' /\ cat.rel[o].kind \notin Views =>
              o \in Live(cat') /\ cat'.rel[o] = cat.rel[o]]_vars

\* The reports that go by names and those that go by oid tell the same story:
\* tables without a primary key, indexes of a table, partitions, constraints;
\* two indexes of one table with the same purpose are duplicates, and what is
\* called a duplicate is on the same table, and as unique and as primary; and
\* a foreign key is said to miss an index exactly when the indexes that are
\* shown for its table do not have its column.
ReportsAgree ==
    /\ \A o \in OfKind(cat, Tables) :
        LET s == cat.rel[o].schema
            t == cat.rel[o].name
        IN  /\ <<s, t>> \in TablesWithoutPk(cat) <=>
                  \A i \in IndexesOf(cat, o) : cat.rel[i].role # "primary"
            /\ CreateIndexDdl(cat, s, t) =
                  {x[3] : x \in {y \in ListIndexes(cat) : <<y[1], y[2]>> = <<s, t>>}}
            /\ Called(cat, t) = {o} =>
                  ListPartitions(cat, t) =
                      {cat.rel[p].name : p \in TableDependencies(cat, s, t)
                                                    \cap OfKind(cat, Plain)}
            /\ \A f \in cat.fks : f.on = o =>
                  (f \in MissingFkIndexes(cat) <=>
                      \A i \in OfKind(cat, {"index"}) :
                          /\ cat.rel[i].schema = s
                          /\ cat.rel[i].name \in CreateIndexDdl(cat, s, t)
                          => f.col \notin Range(cat.rel[i].key))
    /\ \A i, j \in OfKind(cat, {"index"}) :
        LET p == cat.rel[i]
            q == cat.rel[j]
        IN  /\ <<i, j>> \in DuplicateIndexes(cat) =>
                  /\ p.of = q.of /\ i # j
                  /\ (p.role = "plain" <=> q.role = "plain")
                  /\ (p.role = "primary" <=> q.role = "primary")
            /\ /\ i # j /\ p.of = q.of /\ p.role = q.role
               /\ cat.rel[p.of].kind # "partitioned"
               => <<i, j>> \in DuplicateIndexes(cat)
    /\ \A k \in ShowConstraints(cat) :
        k.table \in ListTables(cat) /\ k.table[1] \in ListSchemas(cat)

-----------------------------------------------------------------------------
(***************************************************************************)
(* What src/tools.json says of six tools, and the code does not do         *)
(***************************************************************************)

\* grant_privileges: 'schema' is the schema of the object, and object_name that
\* of all_tables_in_schema; what is granted is in that schema.
GrantHeedsSchema ==
    asked' \in cat.schemas =>
        \A g \in cat'.grants \ cat.grants : cat.rel[g.on].schema = asked'

\* backup_table: "All indexes recreated with same structure.  Partition
\* structure preserved."
BackupIsComplete ==
    \A r \in Requests : BackupAnswered(r) =>
        \A o \in Called(cat, job[r].name) \cap OfKind(cat, Tables) :
            \E b \in At(cat, "public", BackupName(job[r].name)) :
                /\ cat.rel[b].kind = cat.rel[o].kind
                /\ \A i \in IndexesOf(cat, o) : \E j \in IndexesOf(cat, b) :
                      cat.rel[j].key = cat.rel[i].key /\ cat.rel[j].role = cat.rel[i].role

\* alter_view: rename_to and set_schema may both be given, so after the first
\* statement the second finds the view.
AlterDoesBoth ==
    \A r \in Requests :
        job[r].tool = "alter_view" /\ job[r].pc = "move" /\ job[r].to # None =>
            MovedView(r) # {}

\* table_dependencies: "Shows views, foreign keys, materialized views
\* referencing the table."
DependenciesAreShown ==
    \A o \in OfKind(cat, Tables) :
        {v \in OfKind(cat, Views) : cat.rel[v].of = o}
            \cup {f.on : f \in {g \in cat.fks : cat.rel[g.via].of = o}}
        \subseteq TableDependencies(cat, cat.rel[o].schema, cat.rel[o].name)

\* list_duplicate_indexes: "indexes with overlapping functionality".
DuplicatesOverlap ==
    \A p \in DuplicateIndexes(cat) :
        Range(cat.rel[p[1]].key) \cap Range(cat.rel[p[2]].key) # {}

\* generate_create_table_ddl: the statement for "an existing table" includes
\* its "primary key".
DdlKeyIsTheTables ==
    \A o \in OfKind(cat, Tables) :
        \A k \in DdlKey(cat, cat.rel[o].schema, cat.rel[o].name) : k[1] = Pair(cat, o)

\* At no moment do all six tools depart from what is said of them: a behaviour
\* that breaks this breaks each of the six, and shows how.
SomeDescriptionHolds ==
    [][\/ GrantHeedsSchema \/ BackupIsComplete \/ AlterDoesBoth
       \/ DependenciesAreShown \/ DuplicatesOverlap \/ DdlKeyIsTheTables]_vars
=============================================================================
