-------------------------- MODULE SchemaTools_proofs --------------------------
(***************************************************************************)
(* Theorems about the schema tools, for all names, schemas, columns, roles *)
(* and requests, and for any number of calls.                              *)
(***************************************************************************)
EXTENDS SchemaTools, FiniteSetTheorems, SequenceTheorems, TLAPS

(***************************************************************************)
(* The invariant                                                           *)
(***************************************************************************)

\* Where each tool's request may stand.
PcsOf(tool) ==
    CASE tool = "backup" -> {"exists", "free", "create", "columns", "list", "define",
                             "build", "count", "answered"}
      [] tool \in {"alter_view", "alter_index"} -> {"rename", "move", "answered"}
      [] tool = "ddl" -> {"read", "key", "answered"}
      [] OTHER -> {"idle"}

JobShape(j) ==
    /\ j = [tool |-> j.tool, pc |-> j.pc, alone |-> j.alone, name |-> j.name,
            schema |-> j.schema, to |-> j.to, cols |-> j.cols, key |-> j.key,
            todo |-> j.todo, def |-> j.def, copied |-> j.copied, lost |-> j.lost]
    /\ j.tool \in {None, "backup", "alter_view", "alter_index", "ddl"}
    /\ j.pc \in PcsOf(j.tool)
    /\ j.alone \in BOOLEAN
    /\ j.copied \in Nat /\ j.lost \in Nat
    /\ j.tool = "backup" => j.name \in Names

\* The definition of an index that a backup has read but not used yet.
DefOK(d) ==
    /\ d = [index |-> d.index, on |-> d.on, only |-> d.only]
    /\ IsRelation(d.index) /\ d.index.kind = "index" /\ d.index.key # <<>>

JobOK(j) == JobShape(j) /\ \A d \in j.def : DefOK(d)

Typed ==
    /\ Consistent(cat)
    /\ calls \in 0 .. MaxCalls
    /\ job = [r \in Requests |-> job[r]]
    /\ \A r \in Requests : JobOK(job[r])

\* A DDL report left alone has read what is still there.
Current(c, j) ==
    j.tool = "ddl" /\ j.alone =>
        /\ j.pc \in {"key", "answered"} => j.cols = DdlColumns(c, j.schema, j.name)
        /\ j.pc = "answered" => j.key = DdlKey(c, j.schema, j.name)

-----------------------------------------------------------------------------
(***************************************************************************)
(* A backup left alone                                                     *)
(***************************************************************************)

\* It has found one source, and counts from zero.
Started(c, j) ==
    /\ j.pc # "exists" =>
          \E p \in Live(c) : Called(c, j.name) \cap OfKind(c, Listed) = {p}
    /\ j.pc \in {"exists", "free", "create", "columns", "list"} =>
          j.copied = 0 /\ j.lost = 0

\* How far b has become a backup of o: what is still to do, what is copied and
\* what is lost make up the indexes of o, one by one.
Copying(c, j, o, b) ==
    LET of == IndexesOf(c, o)
        copies == IndexesOf(c, b)
    IN  /\ c.rel[o].schema = "public" /\ c.rel[o].kind # "partitioned"
        /\ b \in At(c, "public", BackupName(j.name))
        /\ c.rel[b].cols = c.rel[o].cols
        /\ j.pc # "columns" => j.cols = DescribeTable(c, j.name)
        /\ j.copied = Cardinality(copies)
        /\ \A i \in copies : \E k \in of : c.rel[i].key = c.rel[k].key
        /\ j.pc \in {"define", "build"} =>
              j.todo \subseteq {c.rel[i].name : i \in of}
        /\ j.pc = "define" =>
              j.copied + j.lost + Cardinality(j.todo) = Cardinality(of)
        /\ j.pc = "build" =>
              /\ j.copied + j.lost + Cardinality(j.todo) + 1 = Cardinality(of)
              /\ \E i \in of : j.def = {[index |-> c.rel[i], on |-> j.name, only |-> FALSE]}
        /\ j.pc \in {"count", "answered"} => j.copied + j.lost = Cardinality(of)

Copied(c, j) ==
    \A o \in Live(c) : Called(c, j.name) = {o} /\ c.rel[o].kind # "partitioned" =>
        \E b \in Live(c) : Copying(c, j, o, b)

\* A name that needs no quotes, nor stands at the beginning of "public".
Simple(n) == Fold(n) = n /\ "public" \notin Beginning(n)

Faithful(c, j) ==
    j.tool = "backup" /\ j.alone /\ Simple(j.name) =>
        /\ Started(c, j)
        /\ j.pc \notin {"exists", "free", "create"} => Copied(c, j)

-----------------------------------------------------------------------------
(***************************************************************************)
(* The operators on a catalogue                                            *)
(***************************************************************************)

\* A new relation gets a number of its own, and nothing else changes.
Added(c, d, r, o) ==
    /\ o \in Oids \ Live(c)
    /\ d = [schemas |-> c.schemas, rel |-> d.rel, fks |-> c.fks,
            roles |-> c.roles, grants |-> c.grants]
    /\ d.rel = [x \in Live(c) \cup {o} |-> IF x = o THEN r ELSE c.rel[x]]

LEMMA RoomIsThere ==
    ASSUME NEW c, HasRoom(c, 1)
    PROVE  Oids \ Live(c) # {}
BY FS_EmptySet DEF HasRoom

LEMMA AddIsAdded ==
    ASSUME NEW c, WellFormed(c), HasRoom(c, 1), NEW r
    PROVE  \E o \in Oids \ Live(c) : Added(c, Add(c, r), r, o)
<1> DEFINE o == CHOOSE o \in Oids \ Live(c) : TRUE
<1>1. o \in Oids \ Live(c)
  BY RoomIsThere
<1> HIDE DEF o
<1>2. Add(c, r) = [c EXCEPT !.rel = [x \in Live(c) \cup {o} |-> IF x = o THEN r ELSE c.rel[x]]]
  BY DEF Add, o
<1> QED
  BY <1>1, <1>2 DEF Added, WellFormed

LEMMA AddSound ==
    ASSUME NEW c, Consistent(c), NEW d, NEW r, NEW o, Added(c, d, r, o),
           IsRelation(r), Free(c, r.schema, r.name), HasOwner(c, r), IndexFits(c, r),
           r.role \in {"constraint", "primary"} =>
               \A f \in c.fks : f.on = r.of => f.name # r.name
    PROVE  Consistent(d)
<1>1. Live(d) = Live(c) \cup {o}
  BY DEF Added, Live
<1>2. WellFormed(d)
  BY <1>1 DEF Consistent, WellFormed, Added, Live, Free
<1>3. NamesUnique(d)
  BY <1>1 DEF Consistent, NamesUnique, Added, Live, Free, At
<1>4. ASSUME NEW x \in Live(d)
      PROVE  HasOwner(d, d.rel[x]) /\ IndexFits(d, d.rel[x])
  <2>1. HasOwner(c, d.rel[x]) /\ IndexFits(c, d.rel[x])
    BY <1>1 DEF Consistent, Added, Live
  <2>2. o # NoOid /\ d.rel[x].of # o
    BY <2>1, OidsAssumption DEF HasOwner, Owners, OfKind, Added, Live
  <2>3. \A p \in Live(c) : d.rel[p] = c.rel[p]
    BY DEF Added, Live
  <2>4. HasOwner(d, d.rel[x])
    BY <2>1, <2>3, <1>1 DEF HasOwner, Owners, OfKind
  <2>5. d.rel[x].kind = "index" => d.rel[x].of \in Live(c)
    BY <2>1 DEF HasOwner, Owners, OfKind, Tables
  <2> QED
    BY <2>1, <2>3, <2>4, <2>5 DEF IndexFits
<1>5. KeysFit(d)
  BY <1>1 DEF Consistent, KeysFit, Added, Live, OfKind
<1>6. ConstraintsApart(d)
  BY <1>1 DEF Consistent, ConstraintsApart, KeysFit, Added, Live, OfKind, IndexesOf
<1>7. GrantsFit(d)
  BY <1>1 DEF Consistent, GrantsFit, Added, Live
<1> QED
  BY <1>2, <1>3, <1>4, <1>5, <1>6, <1>7 DEF Consistent

-----------------------------------------------------------------------------
\* What the owner of a relation is.
LEMMA IndexOwners ==
    ASSUME NEW c, NEW r, r.kind = "index", NEW p \in Live(c),
           c.rel[p].kind \in Tables \cup {"matview"}, c.rel[p].schema = r.schema
    PROVE  p \in Owners(c, r)
BY DEF Owners, OfKind, Views, Tables

LEMMA IndexOwner ==
    ASSUME NEW c, NEW r, HasOwner(c, r), r.kind = "index"
    PROVE  /\ r.of \in OfKind(c, Tables \cup {"matview"})
           /\ c.rel[r.of].schema = r.schema
BY DEF HasOwner, Owners, OfKind, Tables

LEMMA ViewOwner ==
    ASSUME NEW c, NEW r, HasOwner(c, r), r.kind \in Views
    PROVE  r.of \in OfKind(c, Tables)
BY DEF HasOwner, Owners, OfKind, Tables, Views

LEMMA TableOwner ==
    ASSUME NEW c, NEW r, HasOwner(c, r), r.kind = "table", r.of # NoOid
    PROVE  /\ r.of \in OfKind(c, {"partitioned"})
           /\ c.rel[r.of].schema = r.schema
BY DEF HasOwner, Owners, OfKind, Views

-----------------------------------------------------------------------------
\* What goes with the relations S: their parts and the parts of those.
PartsOf(c, T) == T \cup {x \in OfKind(c, {"table", "index"}) : c.rel[x].of \in T}

LEMMA PartsTwice ==
    ASSUME NEW c, NEW S
    PROVE  WithParts(c, S) = PartsOf(c, PartsOf(c, S))
BY DEF WithParts, PartsOf

LEMMA PartsOfLive ==
    ASSUME NEW c, NEW S, S \subseteq Live(c)
    PROVE  S \subseteq WithParts(c, S) /\ WithParts(c, S) \subseteq Live(c)
BY PartsTwice DEF PartsOf, OfKind

\* The parts of a part of S go with S too.
LEMMA PartsClosed ==
    ASSUME NEW c, Consistent(c), NEW S, S \subseteq Live(c),
           NEW x \in OfKind(c, {"table", "index"}), c.rel[x].of \in WithParts(c, S)
    PROVE  x \in WithParts(c, S)
<1> DEFINE y == c.rel[x].of
           z == c.rel[y].of
<1> SUFFICES ASSUME y \notin PartsOf(c, S) PROVE FALSE
  BY PartsTwice DEF PartsOf
<1>1. y \in OfKind(c, {"table", "index"}) /\ z \in PartsOf(c, S)
  BY PartsTwice DEF PartsOf
<1>2. HasOwner(c, c.rel[x]) /\ HasOwner(c, c.rel[y])
  BY <1>1 DEF Consistent, OfKind
<1>3. y # NoOid /\ z # NoOid
  BY <1>1, OidsAssumption DEF PartsOf, OfKind, Consistent, WellFormed
<1>4. c.rel[y].kind = "table"
  BY <1>1, <1>2, <1>3 DEF HasOwner, Owners, OfKind, Tables
<1>5. z \in OfKind(c, {"partitioned"})
  BY <1>2, <1>3, <1>4 DEF HasOwner, Owners, Views
<1>6. z \in S
  BY <1>1, <1>5 DEF PartsOf, OfKind
<1> QED
  BY <1>1, <1>4, <1>6 DEF PartsOf, OfKind

Gone(c, S) == WithParts(c, S \cup ViewsOn(c, S))

\* Whatever is left after a DROP has its owner left.
LEMMA GoneClosed ==
    ASSUME NEW c, Consistent(c), NEW S, S \subseteq Live(c), NEW x \in Live(c),
           c.rel[x].of \in Gone(c, S)
    PROVE  x \in Gone(c, S)
<1> DEFINE y == c.rel[x].of
           V == ViewsOn(c, S)
           T == S \cup V
<1>1. T \subseteq Live(c) /\ V \subseteq OfKind(c, Views)
  BY DEF ViewsOn, OfKind
<1>2. y \in Live(c) /\ y # NoOid
  BY <1>1, PartsOfLive, OidsAssumption DEF Gone, Consistent, WellFormed
<1>3. HasOwner(c, c.rel[x]) /\ c.rel[x].kind \in Kinds
  BY DEF Consistent, WellFormed, IsRelation
<1>4. CASE c.rel[x].kind \in {"table", "index"}
  <2>1. x \in OfKind(c, {"table", "index"})
    BY <1>4 DEF OfKind
  <2> QED
    BY <1>1, <2>1, PartsClosed DEF Gone
<1>5. CASE c.rel[x].kind \in Views
  <2>1. y \in OfKind(c, Tables)
    BY <1>2, <1>3, <1>5 DEF HasOwner, Owners, Views, Tables
  <2>2. y \in WithParts(c, S)
    <3>1. SUFFICES ASSUME y \notin WithParts(c, S) PROVE FALSE
      OBVIOUS
    <3>2. y \notin V
      BY <1>1, <2>1 DEF OfKind, Views, Tables
    <3>3. \A p \in Live(c) : p \in OfKind(c, {"table", "index"}) /\ c.rel[p].of \in V
                              => c.rel[p].kind = "index"
      BY <1>1, OidsAssumption DEF Consistent, HasOwner, Owners, OfKind, Views, WellFormed
    <3>4. \A p \in PartsOf(c, T) : p \in PartsOf(c, S) \cup V \cup OfKind(c, {"index"})
      BY <3>3 DEF PartsOf, OfKind
    <3>5. y \in PartsOf(c, PartsOf(c, T))
      BY PartsTwice DEF Gone
    <3>6. \/ y \in PartsOf(c, T)
          \/ y \in OfKind(c, {"table"}) /\ c.rel[y].of \in PartsOf(c, T)
      <4>1. PICK Q : Q = PartsOf(c, T)
        OBVIOUS
      <4>2. y \in PartsOf(c, Q)
        BY <3>5, <4>1
      <4>3. y \in Q \/ (y \in OfKind(c, {"table", "index"}) /\ c.rel[y].of \in Q)
        BY <4>2 DEF PartsOf
      <4> QED
        BY <4>1, <4>3, <2>1 DEF OfKind, Tables
    <3>7. y \notin PartsOf(c, T)
      <4>1. PartsOf(c, S) \subseteq WithParts(c, S)
        BY PartsTwice DEF PartsOf
      <4>2. y \notin OfKind(c, {"index"})
        BY <2>1 DEF OfKind, Tables
      <4> QED
        BY <3>1, <3>2, <3>4, <4>1, <4>2
    <3>8. c.rel[y].of \in OfKind(c, {"partitioned"})
      <4>1. c.rel[y].of \in Live(c)
        BY <3>6, <3>7, <3>4, <1>1 DEF PartsOf, OfKind
      <4>2. HasOwner(c, c.rel[y])
        BY <1>2 DEF Consistent
      <4> QED
        BY <4>1, <4>2, <3>6, <3>7, OidsAssumption
           DEF HasOwner, Owners, OfKind, Views, Consistent, WellFormed
    <3>9. c.rel[y].of \in PartsOf(c, S)
      BY <3>4, <3>6, <3>7, <3>8, <1>1 DEF OfKind, Views
    <3> QED
      BY <3>1, <3>6, <3>7, <3>9, PartsTwice DEF PartsOf, OfKind
  <2>3. x \in V
    BY <1>5, <2>2 DEF ViewsOn, OfKind
  <2> QED
    BY <2>3, <1>1, PartsOfLive DEF Gone
<1>6. c.rel[x].kind \notin {"partitioned", "sequence"}
  BY <1>2, <1>3 DEF HasOwner, Owners, Views, OfKind
<1> QED
  BY <1>3, <1>4, <1>5, <1>6 DEF Kinds, Tables, Views

\* Removed(c, d, G): d is c without the relations G and what is on them.
Removed(c, d, G) ==
    /\ d = [schemas |-> c.schemas, rel |-> d.rel, fks |-> d.fks,
            roles |-> c.roles, grants |-> d.grants]
    /\ d.rel = [o \in Live(c) \ G |-> c.rel[o]]
    /\ d.fks = {f \in c.fks : f.on \notin G /\ f.via \notin G}
    /\ d.grants = {g \in c.grants : g.on \notin G}

LEMMA DroppedIsRemoved ==
    ASSUME NEW c, WellFormed(c), NEW S
    PROVE  Removed(c, Dropped(c, S), Gone(c, S))
<1> DEFINE G == Gone(c, S)
<1>1. Dropped(c, S) = [c EXCEPT
            !.rel = [o \in Live(c) \ G |-> c.rel[o]],
            !.fks = {f \in c.fks : f.on \notin G /\ f.via \notin G},
            !.grants = {g \in c.grants : g.on \notin G}]
  BY DEF Dropped, Gone, Restrict, WellFormed
<1> HIDE DEF G
<1> QED
  BY <1>1 DEF Removed, WellFormed, G

LEMMA RemovedSound ==
    ASSUME NEW c, Consistent(c), NEW d, NEW G, Removed(c, d, G),
           \A x \in Live(c) : c.rel[x].of \in G => x \in G
    PROVE  Consistent(d)
<1>1. Live(d) = Live(c) \ G /\ \A x \in Live(d) : d.rel[x] = c.rel[x]
  BY DEF Removed, Live
<1>2. WellFormed(d)
  BY <1>1 DEF Consistent, WellFormed, Removed, Live
<1>3. NamesUnique(d)
  BY <1>1 DEF Consistent, NamesUnique
<1>4. ASSUME NEW x \in Live(d)
      PROVE  HasOwner(d, d.rel[x]) /\ IndexFits(d, d.rel[x])
  <2>1. HasOwner(c, d.rel[x]) /\ IndexFits(c, d.rel[x]) /\ d.rel[x].of \notin G
    BY <1>1 DEF Consistent
  <2>2. HasOwner(d, d.rel[x])
    BY <2>1, <1>1 DEF HasOwner, Owners, OfKind
  <2>3. d.rel[x].kind = "index" => d.rel[x].of \in Live(d)
    BY <2>1, <1>1 DEF HasOwner, Owners, OfKind, Tables
  <2> QED
    BY <2>1, <2>2, <2>3, <1>1 DEF IndexFits
<1>5. KeysFit(d)
  BY <1>1 DEF Consistent, KeysFit, Removed, OfKind
<1>6. ConstraintsApart(d)
  BY <1>1 DEF Consistent, ConstraintsApart, Removed, OfKind, IndexesOf
<1>7. GrantsFit(d)
  BY <1>1 DEF Consistent, GrantsFit, Removed
<1> QED
  BY <1>2, <1>3, <1>4, <1>5, <1>6, <1>7 DEF Consistent

LEMMA DroppedSound ==
    ASSUME NEW c, Consistent(c), NEW S, S \subseteq Live(c)
    PROVE  Consistent(Dropped(c, S)) /\ Removed(c, Dropped(c, S), Gone(c, S))
<1>1. Removed(c, Dropped(c, S), Gone(c, S))
  BY DroppedIsRemoved DEF Consistent
<1>2. \A x \in Live(c) : c.rel[x].of \in Gone(c, S) => x \in Gone(c, S)
  BY GoneClosed
<1> QED
  BY <1>1, <1>2, RemovedSound

\* Put(c, d, o, q): d is c with the relation o changed into q, and maybe fewer
\* foreign keys.
Put(c, d, o, q) ==
    /\ d = [schemas |-> c.schemas, rel |-> d.rel, fks |-> d.fks,
            roles |-> c.roles, grants |-> c.grants]
    /\ d.rel = [x \in Live(c) |-> IF x = o THEN q ELSE c.rel[x]]
    /\ d.fks \subseteq c.fks

LEMMA PutSound ==
    ASSUME NEW c, Consistent(c), NEW d, NEW o \in Live(c), NEW q, Put(c, d, o, q),
           IsRelation(q), q.schema \in c.schemas,
           q.kind = c.rel[o].kind, q.role = c.rel[o].role,
           q.schema = c.rel[o].schema \/ q.kind = "view",
           HasOwner(c, q), IndexFits(c, q),
           \/ q.schema = c.rel[o].schema /\ q.name = c.rel[o].name
           \/ Free(c, q.schema, q.name),
           \A i \in IndexesOf(c, o) : Range(c.rel[i].key) \subseteq DOMAIN q.cols,
           \A f \in d.fks : f.on = o => f.col \in DOMAIN q.cols,
           q.role \in {"constraint", "primary"} =>
               \A f \in d.fks : f.on = q.of => f.name # q.name
    PROVE  Consistent(d)
<1>1. /\ Live(d) = Live(c) /\ d.rel[o] = q
      /\ \A x \in Live(c) : x # o => d.rel[x] = c.rel[x]
  BY DEF Put, Live
<1>2. WellFormed(d)
  BY <1>1 DEF Consistent, WellFormed, Put, Live
<1>3. NamesUnique(d)
  BY <1>1 DEF Consistent, NamesUnique, Free, At
<1>4. ASSUME NEW x \in Live(d)
      PROVE  HasOwner(d, d.rel[x]) /\ IndexFits(d, d.rel[x])
  <2>1. HasOwner(c, d.rel[x]) /\ IndexFits(c, d.rel[x])
    BY <1>1 DEF Consistent
  <2>2. /\ \A p \in Live(c) : d.rel[p].kind = c.rel[p].kind
        /\ \A p \in Live(c) : d.rel[p].schema = c.rel[p].schema \/ c.rel[p].kind = "view"
    BY <1>1
  <2>3. HasOwner(d, d.rel[x])
    BY <2>1, <2>2, <1>1 DEF HasOwner, Owners, OfKind, Tables
  <2>4. CASE d.rel[x].kind # "index"
    BY <2>3, <2>4 DEF IndexFits
  <2>5. CASE d.rel[x].kind = "index"
    <3>1. d.rel[x].of \in OfKind(c, Tables \cup {"matview"})
      BY <2>1, <2>5, IndexOwner
    <3>2. CASE d.rel[x].of # o
      BY <3>1, <3>2, <2>1, <2>3, <1>1 DEF IndexFits, OfKind
    <3>3. CASE d.rel[x].of = o
      <4>1. x # o
        BY <3>1, <3>3, <2>5, <1>1 DEF OfKind, Tables
      <4>2. x \in IndexesOf(c, o)
        BY <4>1, <3>3, <2>5, <1>1 DEF IndexesOf, OfKind
      <4>3. Range(d.rel[x].key) \subseteq DOMAIN d.rel[o].cols
        BY <4>1, <4>2, <1>1
      <4>4. d.rel[o].kind = c.rel[o].kind
        BY <2>2
      <4> QED
        BY <4>3, <4>4, <3>3, <2>1, <2>3 DEF IndexFits
    <3> QED
      BY <3>2, <3>3
  <2> QED
    BY <2>3, <2>4, <2>5
<1>5. KeysFit(d)
  BY <1>1 DEF Consistent, KeysFit, Put, OfKind
<1>6. ConstraintsApart(d)
  <2> SUFFICES ASSUME NEW f \in d.fks, NEW i \in IndexesOf(d, f.on),
                      d.rel[i].role \in {"constraint", "primary"}
               PROVE  d.rel[i].name # f.name
    BY DEF ConstraintsApart
  <2>1. f \in c.fks /\ i \in Live(c) /\ d.rel[i].of = f.on /\ d.rel[i].kind = "index"
    BY <1>1 DEF Put, IndexesOf, OfKind
  <2>2. CASE i = o
    BY <2>1, <2>2, <1>1
  <2>3. CASE i # o
    BY <2>1, <2>3, <1>1 DEF Consistent, ConstraintsApart, IndexesOf, OfKind
  <2> QED
    BY <2>2, <2>3
<1>7. GrantsFit(d)
  BY <1>1 DEF Consistent, GrantsFit, Put
<1> QED
  BY <1>2, <1>3, <1>4, <1>5, <1>6, <1>7 DEF Consistent

\* The relations stay as they are; keys, roles, privileges and schemas may change.
LEMMA SameRelationsSound ==
    ASSUME NEW c, Consistent(c), NEW d,
           d = [schemas |-> d.schemas, rel |-> c.rel, fks |-> d.fks,
                roles |-> d.roles, grants |-> d.grants],
           d.roles = [u \in DOMAIN d.roles |-> d.roles[u]],
           \A o \in Live(c) : c.rel[o].schema \in d.schemas,
           KeysFit(d), ConstraintsApart(d), GrantsFit(d)
    PROVE  Consistent(d)
<1>1. d.rel = c.rel /\ Live(d) = Live(c)
  BY DEF Live
<1>2. WellFormed(d)
  BY <1>1 DEF Consistent, WellFormed
<1>3. NamesUnique(d)
  BY <1>1 DEF Consistent, NamesUnique
<1>4. \A x \in Live(d) : HasOwner(d, d.rel[x]) /\ IndexFits(d, d.rel[x])
  BY <1>1 DEF Consistent, HasOwner, IndexFits, Owners, OfKind
<1> QED
  BY <1>2, <1>3, <1>4 DEF Consistent

LEMMA RoomAfter ==
    ASSUME NEW c, Consistent(c), NEW n \in Nat, HasRoom(c, n + 1), NEW d, NEW r, NEW o,
           Added(c, d, r, o)
    PROVE  HasRoom(d, n)
<1> DEFINE F == Oids \ Live(c)
<1>1. IsFiniteSet(F)
  BY FS_Subset, OidsAssumption
<1>2. Oids \ Live(d) = F \ {o} /\ o \in F
  BY DEF Added, Live
<1>3. Cardinality(F) >= n + 1
  BY DEF HasRoom
<1> HIDE DEF F
<1>4. Cardinality(F) \in Nat
  BY <1>1, FS_CardinalityType
<1>5. Cardinality(F \ {o}) = Cardinality(F) - 1
  BY <1>1, <1>2, FS_RemoveElement
<1> QED
  BY <1>2, <1>3, <1>4, <1>5 DEF HasRoom

LEMMA RoomForTwo ==
    ASSUME NEW c, HasRoom(c, 2)
    PROVE  HasRoom(c, 1)
<1>1. IsFiniteSet(Oids \ Live(c))
  BY FS_Subset, OidsAssumption
<1>2. Cardinality(Oids \ Live(c)) \in Nat
  BY <1>1, FS_CardinalityType
<1> QED
  BY <1>2 DEF HasRoom

\* A schema gets another name, and every relation in it goes with it.
SchemaRenamed(c, d, s, n) ==
    /\ d = [schemas |-> (c.schemas \ {s}) \cup {n}, rel |-> d.rel, fks |-> c.fks,
            roles |-> c.roles, grants |-> c.grants]
    /\ d.rel = [x \in Live(c) |-> IF c.rel[x].schema = s
                                  THEN [c.rel[x] EXCEPT !.schema = n] ELSE c.rel[x]]

LEMMA SchemaRenamedSound ==
    ASSUME NEW c, Consistent(c), NEW s \in c.schemas, NEW n, n \notin c.schemas, NEW d,
           SchemaRenamed(c, d, s, n)
    PROVE  Consistent(d)
<1> USE DEF SchemaRenamed
<1>1. Live(d) = Live(c)
  BY DEF Live
<1>2. ASSUME NEW x \in Live(c)
      PROVE  /\ d.rel[x] = Relation(c.rel[x].kind, d.rel[x].schema, c.rel[x].name,
                              c.rel[x].of, c.rel[x].cols, c.rel[x].key, c.rel[x].role)
             /\ d.rel[x].schema = IF c.rel[x].schema = s THEN n ELSE c.rel[x].schema
             /\ d.rel[x].schema \in d.schemas
  <2>1. IsRelation(c.rel[x]) /\ c.rel[x].schema \in c.schemas
    BY DEF Consistent, WellFormed
  <2>2. PICK q : q = c.rel[x]
    OBVIOUS
  <2>3. q = [kind |-> q.kind, schema |-> q.schema, name |-> q.name, of |-> q.of,
             cols |-> q.cols, key |-> q.key, role |-> q.role]
    BY <2>1, <2>2 DEF IsRelation, Relation
  <2>4. d.rel[x] = IF q.schema = s THEN [q EXCEPT !.schema = n] ELSE q
    BY <2>2
  <2>5. d.rel[x] = [kind |-> q.kind, schema |-> IF q.schema = s THEN n ELSE q.schema,
                    name |-> q.name, of |-> q.of, cols |-> q.cols, key |-> q.key,
                    role |-> q.role]
    BY <2>3, <2>4
  <2>6. d.rel[x].schema = IF q.schema = s THEN n ELSE q.schema
    BY <2>5
  <2> QED
    BY <2>1, <2>2, <2>5, <2>6 DEF Relation
<1>3. \A x \in Live(c) :
          /\ d.rel[x].kind = c.rel[x].kind /\ d.rel[x].name = c.rel[x].name
          /\ d.rel[x].of = c.rel[x].of /\ d.rel[x].cols = c.rel[x].cols
          /\ d.rel[x].key = c.rel[x].key /\ d.rel[x].role = c.rel[x].role
  BY <1>2 DEF Relation
<1>4. \A x, y \in Live(c) :
          d.rel[x].schema = d.rel[y].schema <=> c.rel[x].schema = c.rel[y].schema
  BY <1>2 DEF Consistent, WellFormed
<1>5. WellFormed(d)
  <2>1. \A x \in Live(d) : IsRelation(d.rel[x])
    BY <1>1, <1>2, <1>3 DEF Consistent, WellFormed, IsRelation
  <2> QED
    BY <2>1, <1>1, <1>2 DEF Consistent, WellFormed, Live
<1>6. NamesUnique(d)
  BY <1>1, <1>3, <1>4 DEF Consistent, NamesUnique
<1>7. ASSUME NEW x \in Live(d)
      PROVE  HasOwner(d, d.rel[x]) /\ IndexFits(d, d.rel[x])
  <2>1. HasOwner(c, c.rel[x]) /\ IndexFits(c, c.rel[x])
    BY <1>1 DEF Consistent
  <2>2. HasOwner(d, d.rel[x])
    BY <2>1, <1>1, <1>3, <1>4 DEF HasOwner, Owners, OfKind
  <2>3. d.rel[x].kind = "index" => c.rel[x].of \in Live(c)
    BY <2>1, <1>1, <1>3, IndexOwner DEF OfKind
  <2> QED
    BY <2>1, <2>2, <2>3, <1>1, <1>3 DEF IndexFits
<1>8. KeysFit(d)
  BY <1>1, <1>3 DEF Consistent, KeysFit, OfKind
<1>9. ConstraintsApart(d)
  BY <1>1, <1>3 DEF Consistent, ConstraintsApart, IndexesOf, OfKind
<1>10. GrantsFit(d)
  BY <1>1 DEF Consistent, GrantsFit
<1> QED
  BY <1>5, <1>6, <1>7, <1>8, <1>9, <1>10 DEF Consistent

LEMMA RenamedKey ==
    ASSUME NEW key \in Seq(Columns), NEW x, NEW y \in Columns
    PROVE  /\ Renamed(key, x, y) \in Seq(Columns)
           /\ key # <<>> => Renamed(key, x, y) # <<>>
           /\ Range(Renamed(key, x, y)) \subseteq (Range(key) \ {x}) \cup {y}
<1>1. PICK n \in Nat : DOMAIN key = 1 .. n /\ Len(key) = n
  OBVIOUS
<1>2. DOMAIN Renamed(key, x, y) = 1 .. n
  BY <1>1 DEF Renamed
<1>3. \A k \in 1 .. n : Renamed(key, x, y)[k] = IF key[k] = x THEN y ELSE key[k]
  BY <1>1 DEF Renamed
<1>4. Renamed(key, x, y) \in [1 .. n -> Columns]
  BY <1>1, <1>3 DEF Renamed
<1>5. Renamed(key, x, y) \in Seq(Columns)
  BY <1>4
<1>6. key # <<>> => Renamed(key, x, y) # <<>>
  BY <1>1, <1>2, <1>5
<1>7. Range(Renamed(key, x, y)) \subseteq (Range(key) \ {x}) \cup {y}
  BY <1>1, <1>2, <1>3 DEF Range
<1> QED
  BY <1>5, <1>6, <1>7

LEMMA RelFields ==
    ASSUME NEW q, IsRelation(q)
    PROVE  q = [kind |-> q.kind, schema |-> q.schema, name |-> q.name, of |-> q.of,
                cols |-> q.cols, key |-> q.key, role |-> q.role]
BY DEF IsRelation, Relation

\* The relations keep what they are, whose they are and what they are called.
SameShape(c, d) ==
    /\ d = [schemas |-> c.schemas, rel |-> d.rel, fks |-> d.fks,
            roles |-> c.roles, grants |-> c.grants]
    /\ d.rel = [r \in Live(c) |-> d.rel[r]]
    /\ \A r \in Live(c) :
          /\ d.rel[r].kind = c.rel[r].kind /\ d.rel[r].name = c.rel[r].name
          /\ d.rel[r].of = c.rel[r].of /\ d.rel[r].schema = c.rel[r].schema
          /\ d.rel[r].role = c.rel[r].role

LEMMA SameShapeSound ==
    ASSUME NEW c, Consistent(c), NEW d, SameShape(c, d),
           \A r \in Live(c) : IsRelation(d.rel[r]) /\ IndexFits(d, d.rel[r]),
           KeysFit(d), ConstraintsApart(d)
    PROVE  Consistent(d)
<1>1. Live(d) = Live(c)
  BY DEF Live, SameShape
<1>2. WellFormed(d)
  BY <1>1 DEF Consistent, WellFormed, SameShape, Live
<1>3. NamesUnique(d)
  BY <1>1 DEF Consistent, NamesUnique, SameShape
<1>4. \A r \in Live(d) : HasOwner(d, d.rel[r])
  <2> TAKE r \in Live(d)
  <2>1. HasOwner(c, c.rel[r])
    BY <1>1 DEF Consistent
  <2>2. \A kinds : OfKind(d, kinds) = OfKind(c, kinds)
    BY <1>1 DEF OfKind, SameShape
  <2>3. \A p \in Live(c) : d.rel[p].schema = c.rel[p].schema
    BY DEF SameShape
  <2>4. Owners(d, d.rel[r]) = Owners(c, c.rel[r])
    BY <2>2, <2>3, <1>1 DEF Owners, SameShape, OfKind
  <2> QED
    BY <2>1, <2>4, <1>1 DEF HasOwner, SameShape
<1>5. GrantsFit(d)
  BY <1>1 DEF Consistent, GrantsFit, SameShape
<1> QED
  BY <1>1, <1>2, <1>3, <1>4, <1>5 DEF Consistent

\* Such a change is sound when every index still has columns of its table, and
\* every foreign key comes from one on the same table with the same name.
LEMMA ReshapedSound ==
    ASSUME NEW c, Consistent(c), NEW d, SameShape(c, d),
           \A r \in Live(c) : IsRelation(d.rel[r]),
           \A i \in Live(c) : c.rel[i].kind = "index" =>
               /\ d.rel[i].key # <<>>
               /\ Range(d.rel[i].key) \subseteq DOMAIN d.rel[c.rel[i].of].cols,
           KeysFit(d),
           \A f \in d.fks : \E g \in c.fks : f.on = g.on /\ f.name = g.name
    PROVE  Consistent(d)
<1>1. Live(d) = Live(c)
  BY DEF Live, SameShape
<1>2. ASSUME NEW r \in Live(c) PROVE IndexFits(d, d.rel[r])
  <2>1. HasOwner(c, c.rel[r]) /\ IndexFits(c, c.rel[r])
    BY DEF Consistent
  <2>2. CASE c.rel[r].kind # "index"
    BY <2>2 DEF IndexFits, SameShape
  <2>3. CASE c.rel[r].kind = "index"
    <3>1. c.rel[r].of \in Live(c)
      BY <2>1, <2>3, IndexOwner DEF OfKind
    <3>2. c.rel[r].role \in {"constraint", "primary"} => c.rel[c.rel[r].of].kind \in Tables
      BY <2>1, <2>3 DEF IndexFits
    <3> QED
      BY <2>3, <3>1, <3>2 DEF IndexFits, SameShape
  <2> QED
    BY <2>2, <2>3
<1>3. ConstraintsApart(d)
  <2> SUFFICES ASSUME NEW f \in d.fks, NEW i \in IndexesOf(d, f.on),
                      d.rel[i].role \in {"constraint", "primary"}
               PROVE  d.rel[i].name # f.name
    BY DEF ConstraintsApart
  <2>1. PICK g \in c.fks : f.on = g.on /\ f.name = g.name
    OBVIOUS
  <2>2. i \in IndexesOf(c, g.on) /\ i \in Live(c)
    BY <2>1, <1>1 DEF IndexesOf, OfKind, SameShape
  <2> QED
    BY <2>1, <2>2 DEF Consistent, ConstraintsApart, SameShape
<1> QED
  BY <1>2, <1>3, SameShapeSound

\* A column x of the relations F gets the name y, in their keys, indexes and
\* foreign keys as well.
ColumnRenamed(c, d, F, x, y, type) ==
    /\ d = [schemas |-> c.schemas, rel |-> d.rel, fks |-> d.fks,
            roles |-> c.roles, grants |-> c.grants]
    /\ d.rel = [r \in Live(c) |->
                   IF r \in F
                   THEN [c.rel[r] EXCEPT !.cols = ColsRenamed(@, x, y, type),
                                         !.key = Renamed(@, x, y)]
                   ELSE IF c.rel[r].of \in F /\ c.rel[r].kind = "index"
                   THEN [c.rel[r] EXCEPT !.key = Renamed(@, x, y)] ELSE c.rel[r]]
    /\ d.fks = {IF f.on \in F /\ f.col = x THEN [f EXCEPT !.col = y] ELSE f : f \in c.fks}

\* One relation after the change.
LEMMA ColumnRenamedFields ==
    ASSUME NEW c, Consistent(c), NEW F, NEW x, NEW y, NEW type, NEW d,
           ColumnRenamed(c, d, F, x, y, type), NEW r \in Live(c)
    PROVE  /\ d.rel[r] = Relation(c.rel[r].kind, c.rel[r].schema, c.rel[r].name,
                              c.rel[r].of, d.rel[r].cols, d.rel[r].key, c.rel[r].role)
           /\ d.rel[r].cols = IF r \in F THEN ColsRenamed(c.rel[r].cols, x, y, type)
                              ELSE c.rel[r].cols
           /\ d.rel[r].key = IF r \in F \/ (c.rel[r].of \in F /\ c.rel[r].kind = "index")
                             THEN Renamed(c.rel[r].key, x, y) ELSE c.rel[r].key
           /\ d.rel[r].kind = c.rel[r].kind /\ d.rel[r].name = c.rel[r].name
           /\ d.rel[r].of = c.rel[r].of /\ d.rel[r].schema = c.rel[r].schema
           /\ d.rel[r].role = c.rel[r].role
<1>1. PICK q : q = c.rel[r]
  OBVIOUS
<1>2. PICK new, key : new = ColsRenamed(q.cols, x, y, type) /\ key = Renamed(q.key, x, y)
  OBVIOUS
<1>3. q = [kind |-> q.kind, schema |-> q.schema, name |-> q.name, of |-> q.of,
           cols |-> q.cols, key |-> q.key, role |-> q.role]
  BY <1>1, RelFields DEF Consistent, WellFormed
<1>4. d.rel[r] = IF r \in F THEN [q EXCEPT !.cols = new, !.key = key]
                 ELSE IF q.of \in F /\ q.kind = "index"
                 THEN [q EXCEPT !.key = key] ELSE q
  <2>1. d.rel[r] = IF r \in F
                   THEN [q EXCEPT !.cols = ColsRenamed(q.cols, x, y, type),
                                  !.key = Renamed(q.key, x, y)]
                   ELSE IF q.of \in F /\ q.kind = "index"
                   THEN [q EXCEPT !.key = Renamed(q.key, x, y)] ELSE q
    BY <1>1 DEF ColumnRenamed
  <2> QED
    BY <2>1, <1>2
<1>5. d.rel[r] = [kind |-> q.kind, schema |-> q.schema, name |-> q.name, of |-> q.of,
                  cols |-> IF r \in F THEN new ELSE q.cols,
                  key |-> IF r \in F \/ (q.of \in F /\ q.kind = "index")
                          THEN key ELSE q.key,
                  role |-> q.role]
  BY <1>3, <1>4
<1>6. /\ d.rel[r].cols = IF r \in F THEN new ELSE q.cols
      /\ d.rel[r].key = IF r \in F \/ (q.of \in F /\ q.kind = "index")
                        THEN key ELSE q.key
      /\ d.rel[r].kind = q.kind /\ d.rel[r].name = q.name
      /\ d.rel[r].of = q.of /\ d.rel[r].schema = q.schema
      /\ d.rel[r].role = q.role
  BY <1>5
<1> QED
  BY <1>1, <1>2, <1>5, <1>6 DEF Relation

LEMMA ColumnRenamedSound ==
    ASSUME NEW c, Consistent(c), NEW F, F \subseteq OfKind(c, Tables), NEW x,
           NEW y \in Columns, NEW type \in Types, NEW d, ColumnRenamed(c, d, F, x, y, type)
    PROVE  Consistent(d)
<1> DEFINE new(r) == ColsRenamed(c.rel[r].cols, x, y, type)
           moved(r) == r \in F \/ (c.rel[r].of \in F /\ c.rel[r].kind = "index")
<1>1. Live(d) = Live(c)
  BY DEF Live, ColumnRenamed
<1>2. \A r \in Live(c) : IsRelation(c.rel[r])
  BY DEF Consistent, WellFormed
<1>3. \A r \in Live(c) :
          /\ d.rel[r] = Relation(c.rel[r].kind, c.rel[r].schema, c.rel[r].name,
                           c.rel[r].of, d.rel[r].cols, d.rel[r].key, c.rel[r].role)
          /\ d.rel[r].cols = IF r \in F THEN new(r) ELSE c.rel[r].cols
          /\ d.rel[r].key = IF moved(r) THEN Renamed(c.rel[r].key, x, y) ELSE c.rel[r].key
  BY ColumnRenamedFields
<1>4. \A r \in Live(c) :
          /\ d.rel[r].kind = c.rel[r].kind /\ d.rel[r].name = c.rel[r].name
          /\ d.rel[r].of = c.rel[r].of /\ d.rel[r].schema = c.rel[r].schema
          /\ d.rel[r].role = c.rel[r].role
  BY ColumnRenamedFields
<1>5. /\ d = [schemas |-> c.schemas, rel |-> d.rel, fks |-> d.fks,
              roles |-> c.roles, grants |-> c.grants]
      /\ d.rel = [r \in Live(c) |-> d.rel[r]]
      /\ d.fks = {IF f.on \in F /\ f.col = x THEN [f EXCEPT !.col = y] ELSE f : f \in c.fks}
  BY DEF ColumnRenamed
<1>6. SameShape(c, d)
  BY <1>4, <1>5 DEF SameShape
<1>7. ASSUME NEW r \in Live(c)
      PROVE  /\ DOMAIN new(r) = (DOMAIN c.rel[r].cols \ {x}) \cup {y}
             /\ DOMAIN new(r) \subseteq Columns
             /\ new(r) \in [DOMAIN new(r) -> Types]
  <2>1. PICK cols : cols = c.rel[r].cols
    OBVIOUS
  <2>2. DOMAIN cols \subseteq Columns /\ cols \in [DOMAIN cols -> Types]
    BY <2>1, <1>2 DEF IsRelation
  <2>3. /\ DOMAIN ColsRenamed(cols, x, y, type) = (DOMAIN cols \ {x}) \cup {y}
        /\ DOMAIN ColsRenamed(cols, x, y, type) \subseteq Columns
        /\ ColsRenamed(cols, x, y, type) \in [DOMAIN ColsRenamed(cols, x, y, type) -> Types]
    BY <2>2 DEF ColsRenamed
  <2> QED
    BY <2>1, <2>3
<1> HIDE DEF new
<1>8. ASSUME NEW r \in Live(c)
      PROVE  /\ d.rel[r].key \in Seq(Columns)
             /\ c.rel[r].key # <<>> => d.rel[r].key # <<>>
             /\ IF moved(r)
                THEN Range(d.rel[r].key) \subseteq (Range(c.rel[r].key) \ {x}) \cup {y}
                ELSE d.rel[r].key = c.rel[r].key
  <2>1. c.rel[r].key \in Seq(Columns)
    BY <1>2 DEF IsRelation
  <2>2. PICK k : k = c.rel[r].key
    OBVIOUS
  <2>3. /\ Renamed(k, x, y) \in Seq(Columns)
        /\ k # <<>> => Renamed(k, x, y) # <<>>
        /\ Range(Renamed(k, x, y)) \subseteq (Range(k) \ {x}) \cup {y}
    BY <2>1, <2>2, RenamedKey
  <2>4. d.rel[r].key = IF moved(r) THEN Renamed(k, x, y) ELSE k
    BY <1>3, <2>2
  <2> QED
    BY <2>1, <2>2, <2>3, <2>4
<1>9. ASSUME NEW r \in Live(c) PROVE IsRelation(d.rel[r])
  <2>1. /\ DOMAIN d.rel[r].cols \subseteq Columns
        /\ d.rel[r].cols \in [DOMAIN d.rel[r].cols -> Types]
    <3>1. CASE r \in F
      BY <3>1, <1>3, <1>7
    <3>2. CASE r \notin F
      BY <3>2, <1>2, <1>3 DEF IsRelation
    <3> QED
      BY <3>1, <3>2
  <2>2. d.rel[r] = Relation(d.rel[r].kind, d.rel[r].schema, d.rel[r].name,
                            d.rel[r].of, d.rel[r].cols, d.rel[r].key, d.rel[r].role)
    BY <1>3, <1>4
  <2>3. /\ c.rel[r].kind \in Kinds
        /\ c.rel[r].role \in IF c.rel[r].kind = "index" THEN Roles ELSE {"plain"}
    BY <1>2 DEF IsRelation
  <2> QED
    BY <2>1, <2>2, <2>3, <1>4, <1>8 DEF IsRelation
<1>10. ASSUME NEW r \in Live(c), c.rel[r].kind = "index"
       PROVE  /\ d.rel[r].key # <<>>
              /\ Range(d.rel[r].key) \subseteq DOMAIN d.rel[c.rel[r].of].cols
  <2>1. HasOwner(c, c.rel[r]) /\ IndexFits(c, c.rel[r])
    BY DEF Consistent
  <2>2. c.rel[r].of \in Live(c) /\ r \notin F
    BY <2>1, <1>10, IndexOwner DEF OfKind, Tables
  <2>3. c.rel[r].key # <<>> /\ Range(c.rel[r].key) \subseteq DOMAIN c.rel[c.rel[r].of].cols
    BY <2>1, <1>10 DEF IndexFits
  <2>4. CASE c.rel[r].of \in F
    <3>1. Range(d.rel[r].key) \subseteq (Range(c.rel[r].key) \ {x}) \cup {y}
      BY <1>8, <1>10, <2>4
    <3>2. DOMAIN d.rel[c.rel[r].of].cols = (DOMAIN c.rel[c.rel[r].of].cols \ {x}) \cup {y}
      BY <1>3, <1>7, <2>2, <2>4
    <3> QED
      BY <3>1, <3>2, <2>3, <1>8
  <2>5. CASE c.rel[r].of \notin F
    <3>1. d.rel[c.rel[r].of].cols = c.rel[c.rel[r].of].cols
      BY <1>3, <2>2, <2>5
    <3> QED
      BY <3>1, <1>8, <2>2, <2>3, <2>5
  <2> QED
    BY <2>4, <2>5
<1>11. ASSUME NEW f \in d.fks
       PROVE  \E g \in c.fks :
                 f = [name |-> g.name, on |-> g.on, via |-> g.via,
                      col |-> IF g.on \in F /\ g.col = x THEN y ELSE g.col]
  <2>1. PICK g \in c.fks : f = IF g.on \in F /\ g.col = x THEN [g EXCEPT !.col = y] ELSE g
    BY <1>5
  <2>2. g = [name |-> g.name, on |-> g.on, col |-> g.col, via |-> g.via]
    BY DEF Consistent, KeysFit
  <2>3. f = [name |-> g.name, on |-> g.on, via |-> g.via,
             col |-> IF g.on \in F /\ g.col = x THEN y ELSE g.col]
    BY <2>1, <2>2
  <2> QED
    BY <2>3
<1>12. KeysFit(d)
  <2> SUFFICES ASSUME NEW f \in d.fks
               PROVE  /\ f = [name |-> f.name, on |-> f.on, col |-> f.col, via |-> f.via]
                      /\ f.on \in OfKind(d, Tables) /\ f.col \in DOMAIN d.rel[f.on].cols
                      /\ f.via \in OfKind(d, {"index"}) /\ d.rel[f.via].role # "plain"
    BY DEF KeysFit
  <2>1. PICK g \in c.fks :
          f = [name |-> g.name, on |-> g.on, via |-> g.via,
               col |-> IF g.on \in F /\ g.col = x THEN y ELSE g.col]
    BY <1>11
  <2>2. /\ g.on \in OfKind(c, Tables) /\ g.col \in DOMAIN c.rel[g.on].cols
        /\ g.via \in OfKind(c, {"index"}) /\ c.rel[g.via].role # "plain"
    BY DEF Consistent, KeysFit
  <2>3. g.on \in Live(c) /\ g.via \in Live(c)
    BY <2>2 DEF OfKind
  <2>4. f.on \in OfKind(d, Tables) /\ f.via \in OfKind(d, {"index"})
    BY <2>1, <2>2, <1>1, <1>4 DEF OfKind
  <2>5. f.col \in DOMAIN d.rel[f.on].cols
    <3>1. f.on = g.on /\ f.col = IF g.on \in F /\ g.col = x THEN y ELSE g.col
      BY <2>1
    <3>2. CASE g.on \in F
      <4>1. d.rel[g.on].cols = new(g.on)
        BY <3>2, <2>3, <1>3
      <4>2. DOMAIN new(g.on) = (DOMAIN c.rel[g.on].cols \ {x}) \cup {y}
        BY <2>3, <1>7
      <4> QED
        BY <3>1, <3>2, <4>1, <4>2, <2>2
    <3>3. CASE g.on \notin F
      BY <3>1, <3>3, <2>2, <2>3, <1>3
    <3> QED
      BY <3>2, <3>3
  <2>6. d.rel[f.via].role # "plain"
    BY <2>1, <2>2, <2>3, <1>4
  <2> QED
    BY <2>1, <2>4, <2>5, <2>6
<1>13. \A f \in d.fks : \E g \in c.fks : f.on = g.on /\ f.name = g.name
  BY <1>11
<1> QED
  BY <1>6, <1>9, <1>10, <1>12, <1>13, ReshapedSound

\* Other columns for some tables.
Recolumned(c, d, new) ==
    /\ d = [schemas |-> c.schemas, rel |-> d.rel, fks |-> c.fks,
            roles |-> c.roles, grants |-> c.grants]
    /\ d.rel = [r \in Live(c) |-> d.rel[r]] /\ Live(d) = Live(c)
    /\ d.fks = c.fks /\ d.roles = c.roles /\ d.grants = c.grants
    /\ \A r \in Live(c) \ DOMAIN new : d.rel[r] = c.rel[r]
    /\ \A r \in Live(c) :
          /\ d.rel[r] = Relation(c.rel[r].kind, c.rel[r].schema, c.rel[r].name,
                           c.rel[r].of, d.rel[r].cols, c.rel[r].key, c.rel[r].role)
          /\ d.rel[r].cols = IF r \in DOMAIN new THEN new[r] ELSE c.rel[r].cols
          /\ d.rel[r].kind = c.rel[r].kind /\ d.rel[r].name = c.rel[r].name
          /\ d.rel[r].of = c.rel[r].of /\ d.rel[r].schema = c.rel[r].schema
          /\ d.rel[r].role = c.rel[r].role /\ d.rel[r].key = c.rel[r].key

LEMMA WithColumnsFields ==
    ASSUME NEW c, Consistent(c), NEW new, NEW d, d = WithColumns(c, new)
    PROVE  Recolumned(c, d, new)
<1>1. PICK rel : rel = [r \in Live(c) |->
          IF r \in DOMAIN new THEN [c.rel[r] EXCEPT !.cols = new[r]] ELSE c.rel[r]]
  OBVIOUS
<1>2. d = [c EXCEPT !.rel = rel]
  BY <1>1 DEF WithColumns
<1>3. d = [schemas |-> c.schemas, rel |-> rel, fks |-> c.fks,
           roles |-> c.roles, grants |-> c.grants]
  BY <1>2 DEF Consistent, WellFormed
<1>4. /\ d.rel = rel /\ d.fks = c.fks /\ d.roles = c.roles /\ d.grants = c.grants
      /\ Live(d) = Live(c)
  BY <1>1, <1>3 DEF Live
<1>5. ASSUME NEW r \in Live(c)
      PROVE  /\ d.rel[r] = Relation(c.rel[r].kind, c.rel[r].schema, c.rel[r].name,
                               c.rel[r].of, d.rel[r].cols, c.rel[r].key, c.rel[r].role)
             /\ d.rel[r].cols = IF r \in DOMAIN new THEN new[r] ELSE c.rel[r].cols
             /\ d.rel[r].kind = c.rel[r].kind /\ d.rel[r].name = c.rel[r].name
             /\ d.rel[r].of = c.rel[r].of /\ d.rel[r].schema = c.rel[r].schema
             /\ d.rel[r].role = c.rel[r].role /\ d.rel[r].key = c.rel[r].key
  <2>1. PICK q : q = c.rel[r]
    OBVIOUS
  <2>2. PICK cols : cols = IF r \in DOMAIN new THEN new[r] ELSE q.cols
    OBVIOUS
  <2>3. q = [kind |-> q.kind, schema |-> q.schema, name |-> q.name, of |-> q.of,
             cols |-> q.cols, key |-> q.key, role |-> q.role]
    BY <2>1, RelFields DEF Consistent, WellFormed
  <2>4. d.rel[r] = IF r \in DOMAIN new THEN [q EXCEPT !.cols = cols] ELSE q
    BY <2>1, <2>2, <1>1, <1>4
  <2>5. d.rel[r] = [kind |-> q.kind, schema |-> q.schema, name |-> q.name, of |-> q.of,
                    cols |-> cols, key |-> q.key, role |-> q.role]
    BY <2>2, <2>3, <2>4
  <2>6. /\ d.rel[r].cols = cols /\ d.rel[r].kind = q.kind /\ d.rel[r].name = q.name
        /\ d.rel[r].of = q.of /\ d.rel[r].schema = q.schema
        /\ d.rel[r].role = q.role /\ d.rel[r].key = q.key
    BY <2>5
  <2> QED
    BY <2>1, <2>2, <2>5, <2>6 DEF Relation
<1>6. \A r \in Live(c) \ DOMAIN new : d.rel[r] = c.rel[r]
  BY <1>1, <1>4
<1>7. d.rel = [r \in Live(c) |-> d.rel[r]]
  BY <1>1, <1>4
<1> QED
  BY <1>3, <1>4, <1>5, <1>6, <1>7 DEF Recolumned

LEMMA WithColumnsSound ==
    ASSUME NEW c, Consistent(c), NEW d, NEW new, Recolumned(c, d, new),
           DOMAIN new \subseteq OfKind(c, Tables),
           \A r \in DOMAIN new :
               /\ DOMAIN new[r] \subseteq Columns /\ new[r] \in [DOMAIN new[r] -> Types]
               /\ \A i \in IndexesOf(c, r) : Range(c.rel[i].key) \subseteq DOMAIN new[r],
           \A f \in c.fks : f.on \in DOMAIN new => f.col \in DOMAIN new[f.on]
    PROVE  Consistent(d)
<1>2. /\ d = [schemas |-> c.schemas, rel |-> d.rel, fks |-> c.fks,
              roles |-> c.roles, grants |-> c.grants]
      /\ d.rel = [r \in Live(c) |-> d.rel[r]] /\ Live(d) = Live(c) /\ d.fks = c.fks
  BY DEF Recolumned
<1>3. \A r \in Live(c) :
          /\ d.rel[r] = Relation(c.rel[r].kind, c.rel[r].schema, c.rel[r].name,
                           c.rel[r].of, d.rel[r].cols, c.rel[r].key, c.rel[r].role)
          /\ d.rel[r].cols = IF r \in DOMAIN new THEN new[r] ELSE c.rel[r].cols
          /\ d.rel[r].kind = c.rel[r].kind /\ d.rel[r].name = c.rel[r].name
          /\ d.rel[r].of = c.rel[r].of /\ d.rel[r].schema = c.rel[r].schema
          /\ d.rel[r].role = c.rel[r].role /\ d.rel[r].key = c.rel[r].key
  BY DEF Recolumned
<1>4. SameShape(c, d)
  BY <1>2, <1>3 DEF SameShape
<1>5. ASSUME NEW r \in Live(c) PROVE IsRelation(d.rel[r])
  <2>1. IsRelation(c.rel[r])
    BY DEF Consistent, WellFormed
  <2>2. /\ DOMAIN d.rel[r].cols \subseteq Columns
        /\ d.rel[r].cols \in [DOMAIN d.rel[r].cols -> Types]
    <3>1. CASE r \in DOMAIN new
      BY <3>1, <1>3
    <3>2. CASE r \notin DOMAIN new
      BY <3>2, <1>3, <2>1 DEF IsRelation
    <3> QED
      BY <3>1, <3>2
  <2> QED
    BY <2>1, <2>2, <1>3 DEF IsRelation
<1>6. ASSUME NEW i \in Live(c), c.rel[i].kind = "index"
      PROVE  /\ d.rel[i].key # <<>>
             /\ Range(d.rel[i].key) \subseteq DOMAIN d.rel[c.rel[i].of].cols
  <2>1. HasOwner(c, c.rel[i]) /\ IndexFits(c, c.rel[i])
    BY DEF Consistent
  <2>2. c.rel[i].of \in Live(c)
    BY <2>1, <1>6, IndexOwner DEF OfKind
  <2>3. c.rel[i].key # <<>> /\ Range(c.rel[i].key) \subseteq DOMAIN c.rel[c.rel[i].of].cols
    BY <2>1, <1>6 DEF IndexFits
  <2>4. c.rel[i].of \in DOMAIN new =>
            Range(c.rel[i].key) \subseteq DOMAIN new[c.rel[i].of]
    BY <1>6 DEF IndexesOf, OfKind
  <2> QED
    BY <2>2, <2>3, <2>4, <1>3
<1>7. KeysFit(d)
  <2> SUFFICES ASSUME NEW f \in c.fks
               PROVE  /\ f = [name |-> f.name, on |-> f.on, col |-> f.col, via |-> f.via]
                      /\ f.on \in OfKind(d, Tables) /\ f.col \in DOMAIN d.rel[f.on].cols
                      /\ f.via \in OfKind(d, {"index"}) /\ d.rel[f.via].role # "plain"
    BY <1>2 DEF KeysFit
  <2>1. /\ f = [name |-> f.name, on |-> f.on, col |-> f.col, via |-> f.via]
        /\ f.on \in OfKind(c, Tables) /\ f.col \in DOMAIN c.rel[f.on].cols
        /\ f.via \in OfKind(c, {"index"}) /\ c.rel[f.via].role # "plain"
    BY DEF Consistent, KeysFit
  <2> QED
    BY <2>1, <1>2, <1>3 DEF OfKind
<1>8. \A f \in d.fks : \E g \in c.fks : f.on = g.on /\ f.name = g.name
  BY <1>2
<1> QED
  BY <1>4, <1>5, <1>6, <1>7, <1>8, ReshapedSound

-----------------------------------------------------------------------------
(***************************************************************************)
(* The tools that send one statement                                       *)
(***************************************************************************)
LEMMA FoundHere ==
    ASSUME NEW c, NEW n, NEW kinds, NEW o \in FindHere(c, n, kinds)
    PROVE  /\ o \in Live(c) /\ c.rel[o].kind \in kinds
           /\ c.rel[o].schema = "public" /\ c.rel[o].name = Fold(n)
BY DEF FindHere, Find, At, OfKind

LEMMA NewPlain ==
    ASSUME NEW kind \in Kinds \ {"index"}, NEW s, NEW n, NEW of, NEW cols,
           DOMAIN cols \subseteq Columns, cols \in [DOMAIN cols -> Types]
    PROVE  LET r == Relation(kind, s, n, of, cols, <<>>, "plain")
           IN  /\ IsRelation(r)
               /\ r.kind = kind /\ r.schema = s /\ r.name = n /\ r.of = of
               /\ r.cols = cols /\ r.role = "plain" /\ r.key = <<>>
<1> <<>> \in Seq(Columns)
  OBVIOUS
<1> QED
  BY DEF IsRelation, Relation, Roles

LEMMA NewIndex ==
    ASSUME NEW s, NEW n, NEW of, NEW role \in Roles, NEW key \in Seq(Columns)
    PROVE  LET r == Relation("index", s, n, of, NoCols, key, role)
           IN  /\ IsRelation(r)
               /\ r.kind = "index" /\ r.schema = s /\ r.name = n /\ r.of = of
               /\ r.key = key /\ r.role = role
<1>1. DOMAIN NoCols = {} /\ NoCols \in [DOMAIN NoCols -> Types]
  BY DEF NoCols
<1> QED
  BY <1>1 DEF IsRelation, Relation, Kinds

LEMMA OneKey ==
    ASSUME NEW x \in Columns
    PROVE  \E key \in Seq(Columns) : key = <<x>> /\ key # <<>> /\ Range(key) = {x}
<1>1. <<x>> \in Seq(Columns) /\ <<x>> # <<>> /\ Range(<<x>>) = {x}
  BY DEF Range
<1> QED
  BY <1>1

LEMMA NoColsOK == DOMAIN NoCols \subseteq Columns /\ NoCols \in [DOMAIN NoCols -> Types]
BY DEF NoCols

LEMMA KindsAre == {"table", "view", "matview", "sequence"} \subseteq Kinds \ {"index"}
BY DEF Kinds, Tables, Views

LEMMA ColsOK ==
    ASSUME NEW c, Consistent(c), NEW o \in Live(c)
    PROVE  /\ DOMAIN c.rel[o].cols \subseteq Columns
           /\ c.rel[o].cols \in [DOMAIN c.rel[o].cols -> Types]
BY DEF Consistent, WellFormed, IsRelation

\* A relation that stands alone, or belongs to one that is there.
LEMMA AddPlain ==
    ASSUME NEW c, Consistent(c), HasRoom(c, 1), NEW r, IsRelation(r), r.kind # "index",
           r.role = "plain", Free(c, r.schema, r.name), HasOwner(c, r)
    PROVE  /\ Consistent(Add(c, r))
           /\ \E o \in Oids \ Live(c) : Added(c, Add(c, r), r, o)
<1>1. PICK o \in Oids \ Live(c) : Added(c, Add(c, r), r, o)
  BY AddIsAdded DEF Consistent
<1>2. IndexFits(c, r)
  BY DEF IndexFits
<1> QED
  BY <1>1, <1>2, AddSound

\* An index on columns of its table.
LEMMA AddIndex ==
    ASSUME NEW c, Consistent(c), HasRoom(c, 1), NEW r, IsRelation(r), r.kind = "index",
           Free(c, r.schema, r.name), NEW o \in OfKind(c, Tables \cup {"matview"}),
           r.of = o, r.schema = c.rel[o].schema, r.key # <<>>,
           Range(r.key) \subseteq DOMAIN c.rel[o].cols,
           r.role \in {"constraint", "primary"} =>
               /\ c.rel[o].kind \in Tables
               /\ \A f \in c.fks : f.on = o => f.name # r.name
    PROVE  /\ Consistent(Add(c, r))
           /\ \E p \in Oids \ Live(c) : Added(c, Add(c, r), r, p)
<1>1. PICK p \in Oids \ Live(c) : Added(c, Add(c, r), r, p)
  BY AddIsAdded DEF Consistent
<1>2. IndexFits(c, r)
  BY DEF IndexFits
<1>3. o \in Live(c) /\ c.rel[o].kind \in Tables \cup {"matview"}
  BY DEF OfKind
<1>4. HasOwner(c, r)
  BY <1>3, IndexOwners DEF HasOwner
<1> QED
  BY <1>1, <1>2, <1>4, AddSound

LEMMA DropsSound ==
    ASSUME Consistent(cat), NEW S, S \subseteq Live(cat), NEW cascade,
           Drops(cat, S, cascade, cat')
    PROVE  Consistent(cat') /\ Removed(cat, cat', Gone(cat, S))
BY DroppedSound DEF Drops

LEMMA FoundHereLive ==
    ASSUME NEW c, NEW n, NEW kinds
    PROVE  FindHere(c, n, kinds) \subseteq Live(c)
BY FoundHere

LEMMA DropToolsSound ==
    ASSUME Consistent(cat),
           DropTable \/ DropIndex \/ DropPartition \/ DropView \/ DropSequence
    PROVE  Consistent(cat')
<1>1. CASE DropTable
  BY <1>1, DropsSound, FoundHereLive DEF DropTable
<1>2. CASE DropIndex
  <2>1. PICK i \in Names : \E o \in FindHere(cat, i, {"index"}) : Drops(cat, {o}, FALSE, cat')
    BY <1>2 DEF DropIndex
  <2>2. PICK o \in FindHere(cat, i, {"index"}) : Drops(cat, {o}, FALSE, cat')
    BY <2>1
  <2>3. {o} \subseteq Live(cat)
    BY FoundHereLive
  <2> QED
    BY <2>2, <2>3, DropsSound
<1>3. CASE DropPartition
  BY <1>3, DropsSound, FoundHereLive DEF DropPartition
<1>4. CASE DropView
  BY <1>4, DropsSound, FoundHereLive DEF DropView
<1>5. CASE DropSequence
  BY <1>5, DropsSound, FoundHereLive DEF DropSequence
<1> QED
  BY <1>1, <1>2, <1>3, <1>4, <1>5

LEMMA CreateTableSound ==
    ASSUME Consistent(cat), CreateTable
    PROVE  Consistent(cat')
<1> DEFINE table(t, cs) == Relation("table", "public", Fold(t), NoOid,
                                    [x \in cs |-> "int"], <<>>, "plain")
           made(t, cs) == Add(cat, table(t, cs))
           new(t, cs) == CHOOSE o \in At(made(t, cs), "public", Fold(t)) : TRUE
           index(t, cs, pk, n) == Relation("index", "public", n, new(t, cs), NoCols,
                                           <<pk>>, "primary")
<1>1. PICK t \in Names, cs \in (SUBSET Columns) \ {{}}, pk \in Columns \cup {"none"} :
        /\ HasRoom(cat, 2) /\ Free(cat, "public", Fold(t))
        /\ IF pk = "none" THEN cat' = made(t, cs)
           ELSE \E n \in AutoNames(Fold(t), "primary", <<pk>>) :
                    /\ pk \in cs
                    /\ Free(made(t, cs), "public", n)
                    /\ cat' = Add(made(t, cs), index(t, cs, pk, n))
  BY DEF CreateTable
<1>2. PICK d : d = made(t, cs)
  OBVIOUS
<1>3. PICK r : r = table(t, cs)
  OBVIOUS
<1>4. /\ IsRelation(r) /\ r.kind = "table" /\ r.schema = "public" /\ r.name = Fold(t)
      /\ r.of = NoOid /\ r.cols = [x \in cs |-> "int"] /\ r.role = "plain"
  <2>1. PICK cols : cols = [x \in cs |-> "int"]
    OBVIOUS
  <2>2. DOMAIN cols \subseteq Columns /\ cols \in [DOMAIN cols -> Types]
    BY <2>1 DEF Types
  <2>3. r = Relation("table", "public", Fold(t), NoOid, cols, <<>>, "plain")
    BY <1>3, <2>1
  <2> QED
    BY <2>1, <2>2, <2>3, NewPlain, KindsAre
<1>5. d = Add(cat, r)
  BY <1>2, <1>3
<1>6. HasRoom(cat, 1)
  BY <1>1, RoomForTwo
<1>7. HasOwner(cat, r)
  BY <1>4 DEF HasOwner, Tables
<1>8. Consistent(d) /\ \E o \in Oids \ Live(cat) : Added(cat, d, r, o)
  BY <1>1, <1>4, <1>5, <1>6, <1>7, AddPlain
<1>9. PICK o \in Oids \ Live(cat) : Added(cat, d, r, o)
  BY <1>8
<1>10. CASE pk = "none"
  <2>1. cat' = d
    BY <1>1, <1>2, <1>10
  <2> QED
    BY <1>8, <1>9, <2>1
<1>11. CASE pk # "none"
  <2>1. At(d, "public", Fold(t)) = {o}
    BY <1>1, <1>4, <1>9 DEF At, Added, Live, Free
  <2>2. new(t, cs) = o
    BY <2>1, <1>2
  <2>3. PICK n : pk \in cs /\ Free(d, "public", n) /\ cat' = Add(d, index(t, cs, pk, n))
    BY <1>1, <1>2, <1>11
  <2>4. pk \in cs /\ pk \in Columns /\ Free(d, "public", n)
    BY <2>3
  <2>5. PICK i : i = Relation("index", "public", n, o, NoCols, <<pk>>, "primary")
    OBVIOUS
  <2>6. cat' = Add(d, i)
    BY <2>2, <2>3, <2>5
  <2>7. HasRoom(d, 1)
    <3>1. HasRoom(cat, 1 + 1)
      BY <1>1
    <3> QED
      BY <3>1, <1>9, RoomAfter
  <2>8. /\ IsRelation(i) /\ i.kind = "index" /\ i.schema = "public" /\ i.name = n
        /\ i.of = o /\ i.key # <<>> /\ Range(i.key) = {pk} /\ i.role = "primary"
    <3>1. PICK k \in Seq(Columns) : k = <<pk>> /\ k # <<>> /\ Range(k) = {pk}
      BY <2>4, OneKey
    <3>2. i = Relation("index", "public", n, o, NoCols, k, "primary")
      BY <2>5, <3>1
    <3>3. "primary" \in Roles /\ pk \in Columns
      BY <2>4 DEF Roles
    <3>4. /\ IsRelation(i) /\ i.kind = "index" /\ i.schema = "public" /\ i.name = n
          /\ i.of = o /\ i.key = k /\ i.role = "primary"
      BY <3>2, <3>3, NewIndex
    <3> QED
      BY <3>1, <3>4
  <2>9. d.rel[o] = r /\ o \in Live(d) /\ d.fks = cat.fks
    BY <1>9 DEF Added, Live
  <2>10. o \in OfKind(d, Tables \cup {"matview"}) /\ d.rel[o].kind \in Tables
    BY <2>9, <1>4 DEF OfKind, Tables
  <2>11. \A f \in d.fks : f.on # o
    BY <2>9, <1>9 DEF Consistent, KeysFit, OfKind
  <2>12. i.key # <<>> /\ Range(i.key) \subseteq DOMAIN d.rel[o].cols
    BY <2>4, <2>8, <2>9, <1>4
  <2>13. Consistent(cat') /\ \E p \in Oids \ Live(d) : Added(d, cat', i, p)
    BY <2>4, <2>6, <2>7, <2>8, <2>9, <2>10, <2>11, <2>12, <1>4, <1>8, AddIndex
  <2> QED
    BY <2>13
<1> QED
  BY <1>10, <1>11

LEMMA CreateIndexSound ==
    ASSUME Consistent(cat), CreateIndex
    PROVE  Consistent(cat')
<1>1. PICK i \in Names, t \in Names, x \in Columns, unique \in BOOLEAN :
        \E o \in FindHere(cat, t, Tables \cup {"matview"}) :
            /\ HasRoom(cat, 1)
            /\ Indexable(cat, o, <<x>>, IF unique THEN "unique" ELSE "plain")
            /\ Free(cat, "public", Fold(i))
            /\ cat' = Add(cat, Relation("index", "public", Fold(i), o, NoCols, <<x>>,
                                        IF unique THEN "unique" ELSE "plain"))
  BY DEF CreateIndex
<1>2. PICK o \in FindHere(cat, t, Tables \cup {"matview"}) :
            /\ HasRoom(cat, 1)
            /\ Indexable(cat, o, <<x>>, IF unique THEN "unique" ELSE "plain")
            /\ Free(cat, "public", Fold(i))
            /\ cat' = Add(cat, Relation("index", "public", Fold(i), o, NoCols, <<x>>,
                                        IF unique THEN "unique" ELSE "plain"))
  BY <1>1
<1>3. o \in OfKind(cat, Tables \cup {"matview"}) /\ cat.rel[o].schema = "public"
  BY FoundHere DEF OfKind
<1>4. PICK role \in {"plain", "unique"} : role = IF unique THEN "unique" ELSE "plain"
  OBVIOUS
<1>5. PICK r : r = Relation("index", "public", Fold(i), o, NoCols, <<x>>, role)
  OBVIOUS
<1>6. /\ IsRelation(r) /\ r.kind = "index" /\ r.schema = "public" /\ r.name = Fold(i)
      /\ r.of = o /\ r.key # <<>> /\ r.key = <<x>> /\ r.role = role
  <2>1. PICK k \in Seq(Columns) : k = <<x>> /\ k # <<>> /\ Range(k) = {x}
    BY OneKey
  <2>2. r = Relation("index", "public", Fold(i), o, NoCols, k, role)
    BY <1>5, <2>1
  <2>3. role \in Roles
    BY <1>4 DEF Roles
  <2>4. /\ IsRelation(r) /\ r.kind = "index" /\ r.schema = "public"
        /\ r.name = Fold(i) /\ r.of = o /\ r.key = k /\ r.role = role
    BY <2>2, <2>3, NewIndex
  <2> QED
    BY <2>1, <2>4
<1>7. r.key # <<>> /\ Range(r.key) \subseteq DOMAIN cat.rel[o].cols
  BY <1>2, <1>6 DEF Indexable
<1>8. cat' = Add(cat, r)
  BY <1>2, <1>4, <1>5
<1>9. Consistent(cat') /\ \E p \in Oids \ Live(cat) : Added(cat, cat', r, p)
  BY <1>2, <1>3, <1>4, <1>6, <1>7, <1>8, AddIndex
<1> QED
  BY <1>9

LEMMA CreatePartitionSound ==
    ASSUME Consistent(cat), CreatePartition
    PROVE  Consistent(cat')
<1>1. PICK p \in Names, t \in Names : \E o \in FindHere(cat, t, {"partitioned"}) :
            /\ HasRoom(cat, 1)
            /\ Free(cat, "public", Fold(p))
            /\ cat' = Add(cat, Relation("table", "public", Fold(p), o,
                                        cat.rel[o].cols, <<>>, "plain"))
  BY DEF CreatePartition
<1>2. PICK o \in FindHere(cat, t, {"partitioned"}) :
            /\ HasRoom(cat, 1)
            /\ Free(cat, "public", Fold(p))
            /\ cat' = Add(cat, Relation("table", "public", Fold(p), o,
                                        cat.rel[o].cols, <<>>, "plain"))
  BY <1>1
<1>3. o \in OfKind(cat, {"partitioned"}) /\ o \in Live(cat) /\ cat.rel[o].schema = "public"
  BY FoundHere DEF OfKind
<1>4. PICK r : r = Relation("table", "public", Fold(p), o, cat.rel[o].cols, <<>>, "plain")
  OBVIOUS
<1>5. /\ IsRelation(r) /\ r.kind = "table" /\ r.schema = "public" /\ r.name = Fold(p)
      /\ r.of = o /\ r.role = "plain"
  <2>1. PICK cols : cols = cat.rel[o].cols
    OBVIOUS
  <2>2. DOMAIN cols \subseteq Columns /\ cols \in [DOMAIN cols -> Types]
    BY <1>3, <2>1, ColsOK
  <2> QED
    BY <2>1, <2>2, <1>4, NewPlain, KindsAre
<1>6. HasOwner(cat, r)
  BY <1>3, <1>5 DEF HasOwner, Owners, Views, OfKind
<1>7. Consistent(cat') /\ \E x \in Oids \ Live(cat) : Added(cat, cat', r, x)
  BY <1>2, <1>4, <1>5, <1>6, AddPlain
<1> QED
  BY <1>7

LEMMA ViewOwners ==
    ASSUME NEW c, NEW r, r.kind \in Views, NEW p \in OfKind(c, Tables), r.of = p,
           c.rel[p].schema = r.schema
    PROVE  HasOwner(c, r)
<1>1. p \in Live(c) /\ c.rel[p].kind \in Tables
  BY DEF OfKind
<1>2. r.kind # "index"
  BY DEF Views
<1>3. \A K : r.kind \in Views => OfKind(c, CASE r.kind = "index" -> K
                       [] r.kind \in Views -> Tables
                       [] r.kind = "table" -> {"partitioned"}
                       [] OTHER -> {}) = OfKind(c, Tables)
  BY <1>2 DEF Views
<1> QED
  BY <1>1, <1>3 DEF HasOwner, Owners

LEMMA CreateViewSound ==
    ASSUME Consistent(cat), CreateView
    PROVE  Consistent(cat')
<1> DEFINE rel(v, kind, o) == Relation(kind, "public", Fold(v), o, cat.rel[o].cols, <<>>, "plain")
           old(v) == FindHere(cat, v, {"view"})
<1>1. PICK v \in Names, t \in Names, kind \in Views, replace \in BOOLEAN :
        \E o \in FindHere(cat, t, Tables) :
           \/ /\ ~(replace /\ kind = "matview")
              /\ HasRoom(cat, 1)
              /\ Free(cat, "public", Fold(v))
              /\ cat' = Add(cat, rel(v, kind, o))
           \/ /\ replace /\ kind = "view" /\ old(v) # {}
              /\ \A x \in old(v) : cat.rel[x].cols = cat.rel[o].cols
              /\ cat' = [cat EXCEPT !.rel = [x \in Live(cat) |->
                            IF x \in old(v) THEN rel(v, kind, o) ELSE cat.rel[x]]]
  BY DEF CreateView
<1>2. PICK o \in FindHere(cat, t, Tables) :
           \/ /\ ~(replace /\ kind = "matview")
              /\ HasRoom(cat, 1)
              /\ Free(cat, "public", Fold(v))
              /\ cat' = Add(cat, rel(v, kind, o))
           \/ /\ replace /\ kind = "view" /\ old(v) # {}
              /\ \A x \in old(v) : cat.rel[x].cols = cat.rel[o].cols
              /\ cat' = [cat EXCEPT !.rel = [x \in Live(cat) |->
                            IF x \in old(v) THEN rel(v, kind, o) ELSE cat.rel[x]]]
  BY <1>1
<1>3. o \in OfKind(cat, Tables) /\ o \in Live(cat) /\ cat.rel[o].schema = "public"
  BY FoundHere DEF OfKind
<1>4. PICK r : r = rel(v, kind, o)
  OBVIOUS
<1>5. /\ IsRelation(r) /\ r.kind = kind /\ r.schema = "public" /\ r.name = Fold(v)
      /\ r.of = o /\ r.cols = cat.rel[o].cols /\ r.role = "plain"
  <2>1. PICK cols : cols = cat.rel[o].cols
    OBVIOUS
  <2>2. DOMAIN cols \subseteq Columns /\ cols \in [DOMAIN cols -> Types]
    BY <1>3, <2>1, ColsOK
  <2>3. r = Relation(kind, "public", Fold(v), o, cols, <<>>, "plain")
    BY <1>4, <2>1
  <2>4. kind \in Kinds \ {"index"}
    BY DEF Kinds, Views
  <2> QED
    BY <2>1, <2>2, <2>3, <2>4, NewPlain
<1>6. HasOwner(cat, r)
  BY <1>3, <1>5, ViewOwners
<1>7. kind # "index"
  BY DEF Views
<1>8. CASE HasRoom(cat, 1) /\ Free(cat, "public", Fold(v)) /\ cat' = Add(cat, r)
  <2>1. Consistent(cat') /\ \E x \in Oids \ Live(cat) : Added(cat, cat', r, x)
    BY <1>5, <1>6, <1>7, <1>8, AddPlain
  <2> QED
    BY <2>1
<1>9. CASE /\ kind = "view" /\ old(v) # {}
           /\ cat' = [cat EXCEPT !.rel = [x \in Live(cat) |->
                         IF x \in old(v) THEN r ELSE cat.rel[x]]]
  <2>1. PICK w : w \in old(v)
    BY <1>9
  <2>2. /\ w \in Live(cat) /\ cat.rel[w].kind = "view"
        /\ cat.rel[w].schema = "public" /\ cat.rel[w].name = Fold(v)
    BY <2>1, FoundHere
  <2>3. old(v) = {w}
    BY <2>1, <2>2, FoundHere DEF Consistent, NamesUnique
  <2>4. Put(cat, cat', w, r)
    <3>1. cat' = [cat EXCEPT !.rel = [x \in Live(cat) |-> IF x = w THEN r ELSE cat.rel[x]]]
      BY <1>9, <2>3
    <3> QED
      BY <3>1 DEF Put, Consistent, WellFormed
  <2>5. cat'.fks = cat.fks
    BY <1>9 DEF Consistent, WellFormed
  <2>6. /\ \A i \in Live(cat) : cat.rel[i].kind = "index" => cat.rel[i].of # w
        /\ \A f \in cat'.fks : f.on # w
    <3>1. \A i \in Live(cat) : cat.rel[i].kind = "index" => cat.rel[i].of # w
      BY <2>2, IndexOwner DEF Consistent, OfKind, Tables
    <3>2. \A f \in cat'.fks : f.on # w
      BY <2>2, <2>5 DEF Consistent, KeysFit, OfKind, Tables
    <3> QED
      BY <3>1, <3>2
  <2>7. cat.rel[w].role = "plain"
    BY <2>2 DEF Consistent, WellFormed, IsRelation
  <2>8. r.schema \in cat.schemas /\ IndexFits(cat, r)
    BY <2>2, <1>5, <1>9 DEF Consistent, WellFormed, IndexFits
  <2>9. \A i \in IndexesOf(cat, w) : FALSE
    BY <2>6 DEF IndexesOf, OfKind
  <2>10. Consistent(cat')
    BY <2>2, <2>4, <2>6, <2>7, <2>8, <2>9, <1>5, <1>6, <1>9, PutSound
  <2> QED
    BY <2>4, <2>10
<1> QED
  BY <1>2, <1>4, <1>8, <1>9

\* The foreign keys may get fewer, the schemas more: nothing else is touched.
LEMMA KeysLostSound ==
    ASSUME NEW c, Consistent(c), NEW d,
           d = [schemas |-> d.schemas, rel |-> c.rel, fks |-> d.fks,
                roles |-> c.roles, grants |-> c.grants],
           \A o \in Live(c) : c.rel[o].schema \in d.schemas, d.fks \subseteq c.fks
    PROVE  Consistent(d)
<1>1. d.rel = c.rel /\ d.roles = c.roles /\ d.grants = c.grants /\ Live(d) = Live(c)
  BY DEF Live
<1>2. KeysFit(d)
  BY <1>1 DEF Consistent, KeysFit, OfKind
<1>3. ConstraintsApart(d)
  BY <1>1 DEF Consistent, ConstraintsApart, IndexesOf, OfKind
<1>4. GrantsFit(d)
  BY <1>1 DEF Consistent, GrantsFit
<1>5. d.roles = [u \in DOMAIN d.roles |-> d.roles[u]]
  BY <1>1 DEF Consistent, WellFormed
<1>6. d = [schemas |-> d.schemas, rel |-> c.rel, fks |-> d.fks,
           roles |-> d.roles, grants |-> d.grants]
  BY <1>1
<1> QED
  BY <1>2, <1>3, <1>4, <1>5, <1>6, SameRelationsSound

LEMMA CreateSchemaSound ==
    ASSUME Consistent(cat), CreateSchema
    PROVE  Consistent(cat')
<1>1. PICK s \in SchemaNames : cat' = [cat EXCEPT !.schemas = @ \cup {Fold(s)}]
  BY DEF CreateSchema
<1>2. cat = [schemas |-> cat.schemas, rel |-> cat.rel, fks |-> cat.fks,
             roles |-> cat.roles, grants |-> cat.grants]
  BY DEF Consistent, WellFormed
<1>3. cat' = [schemas |-> cat.schemas \cup {Fold(s)}, rel |-> cat.rel, fks |-> cat.fks,
              roles |-> cat.roles, grants |-> cat.grants]
  BY <1>1, <1>2
<1>4. /\ cat'.schemas = cat.schemas \cup {Fold(s)} /\ cat'.fks = cat.fks
      /\ cat'.roles = cat.roles /\ cat'.grants = cat.grants
  BY <1>3
<1>5. \A o \in Live(cat) : cat.rel[o].schema \in cat'.schemas
  BY <1>4 DEF Consistent, WellFormed
<1>6. Consistent(cat')
  BY <1>3, <1>4, <1>5, KeysLostSound
<1> QED
  BY <1>4, <1>6

LEMMA DropSchemaSound ==
    ASSUME Consistent(cat), DropSchema
    PROVE  Consistent(cat')
<1>1. PICK s \in cat.schemas :
        cat' = [Dropped(cat, {o \in Live(cat) : cat.rel[o].schema = s})
                  EXCEPT !.schemas = @ \ {s}]
  BY DEF DropSchema
<1>2. PICK S : S = {o \in Live(cat) : cat.rel[o].schema = s}
  OBVIOUS
<1>3. PICK d : d = Dropped(cat, S)
  OBVIOUS
<1>4. S \subseteq Live(cat)
  BY <1>2
<1>5. Consistent(d) /\ Removed(cat, d, Gone(cat, S))
  BY <1>3, <1>4, DroppedSound
<1>6. S \subseteq Gone(cat, S)
  <2>1. S \cup ViewsOn(cat, S) \subseteq Live(cat)
    BY <1>4 DEF ViewsOn, OfKind
  <2> QED
    BY <2>1, PartsOfLive DEF Gone
<1>7. /\ d.schemas = cat.schemas /\ d.roles = cat.roles /\ d.grants \subseteq cat.grants
      /\ \A o \in Live(d) : o \in Live(cat) \ Gone(cat, S) /\ d.rel[o] = cat.rel[o]
  BY <1>5 DEF Removed, Live
<1>8. \A o \in Live(d) : d.rel[o].schema \in d.schemas \ {s}
  BY <1>2, <1>6, <1>7 DEF Consistent, WellFormed
<1>9. d = [schemas |-> d.schemas, rel |-> d.rel, fks |-> d.fks,
           roles |-> d.roles, grants |-> d.grants]
  BY <1>5 DEF Consistent, WellFormed
<1>10. cat' = [d EXCEPT !.schemas = @ \ {s}]
  BY <1>1, <1>2, <1>3
<1>11. cat' = [schemas |-> d.schemas \ {s}, rel |-> d.rel, fks |-> d.fks,
               roles |-> d.roles, grants |-> d.grants]
  BY <1>9, <1>10
<1>12. /\ cat'.schemas = d.schemas \ {s} /\ cat'.fks = d.fks
       /\ cat'.roles = d.roles /\ cat'.grants = d.grants
  BY <1>11
<1>13. Consistent(cat')
  BY <1>5, <1>8, <1>11, <1>12, KeysLostSound
<1> QED
  BY <1>7, <1>12, <1>13

LEMMA CreateSequenceSound ==
    ASSUME Consistent(cat), CreateSequence
    PROVE  Consistent(cat')
<1>1. PICK q \in Names :
        /\ HasRoom(cat, 1)
        /\ Free(cat, "public", Fold(q))
        /\ cat' = Add(cat, Relation("sequence", "public", Fold(q), NoOid, NoCols,
                                    <<>>, "plain"))
  BY DEF CreateSequence
<1>2. PICK r : r = Relation("sequence", "public", Fold(q), NoOid, NoCols, <<>>, "plain")
  OBVIOUS
<1>3. /\ IsRelation(r) /\ r.kind = "sequence" /\ r.schema = "public" /\ r.name = Fold(q)
      /\ r.of = NoOid /\ r.role = "plain"
  BY <1>2, NewPlain, KindsAre, NoColsOK
<1>4. HasOwner(cat, r)
  BY <1>3 DEF HasOwner
<1>5. Consistent(cat') /\ \E o \in Oids \ Live(cat) : Added(cat, cat', r, o)
  BY <1>1, <1>2, <1>3, <1>4, AddPlain
<1> QED
  BY <1>5

LEMMA BareToolSound ==
    ASSUME Consistent(cat), BareTool
    PROVE  Consistent(cat')
BY CreateTableSound, CreateIndexSound, CreatePartitionSound, CreateViewSound,
   CreateSchemaSound, DropSchemaSound, CreateSequenceSound, DropToolsSound DEF BareTool

-----------------------------------------------------------------------------
(***************************************************************************)
(* The tools that are told a schema                                        *)
(***************************************************************************)

\* What every tool that names the schema s leaves alone.
Spares(s) ==
    \A o \in Live(cat) :
        cat.rel[o].schema # s /\ cat.rel[o].kind \notin Views =>
            o \in Live(cat') /\ cat'.rel[o] = cat.rel[o]

LEMMA PutSpares ==
    ASSUME NEW s, NEW o, NEW q, Put(cat, cat', o, q), cat.rel[o].schema = s
    PROVE  Spares(s)
BY DEF Put, Spares, Live

LEMMA AddSpares ==
    ASSUME NEW s, NEW c, NEW o \in Oids \ Live(c), NEW r, Added(c, cat', r, o),
           \A x \in Live(cat) : x \in Live(c) /\ c.rel[x] = cat.rel[x]
    PROVE  Spares(s)
BY DEF Added, Spares, Live

LEMMA FoundTarget ==
    ASSUME NEW s, NEW n, NEW kinds, NEW o \in Target(s, n, kinds)
    PROVE  /\ o \in Live(cat) /\ cat.rel[o].kind \in kinds
           /\ cat.rel[o].schema = s /\ cat.rel[o].name = n
BY DEF Target, Find, At, OfKind

LEMMA FoundAlterable ==
    ASSUME NEW s, NEW n, NEW o \in AlterableTable(s, n)
    PROVE  /\ o \in Live(cat) /\ o \in OfKind(cat, Tables) /\ cat.rel[o].of = NoOid
           /\ cat.rel[o].schema = s
BY DEF AlterableTable, Alone, Target, Find, At, OfKind

\* A table and its partitions are tables of one schema.
LEMMA FamilyOfOne ==
    ASSUME NEW c, Consistent(c), NEW o \in OfKind(c, Tables)
    PROVE  /\ o \in Family(c, o) /\ Family(c, o) \subseteq OfKind(c, Tables)
           /\ \A r \in Family(c, o) : c.rel[r].schema = c.rel[o].schema
<1>1. o \in Live(c) /\ o # NoOid
  BY OidsAssumption DEF OfKind, Consistent, WellFormed
<1>2. ASSUME NEW r \in Family(c, o), r # o
      PROVE  r \in OfKind(c, Tables) /\ c.rel[r].schema = c.rel[o].schema
  <2>1. r \in Live(c) /\ c.rel[r].kind = "table" /\ c.rel[r].of = o
    BY <1>2 DEF Family, OfKind, Plain
  <2>2. c.rel[r].schema = c.rel[o].schema
    BY <1>1, <2>1, TableOwner DEF Consistent
  <2> QED
    BY <2>1, <2>2 DEF OfKind, Tables
<1> QED
  BY <1>2 DEF Family

LEMMA RecolumnedSpares ==
    ASSUME NEW s, NEW new, Recolumned(cat, cat', new),
           \A r \in DOMAIN new : cat.rel[r].schema = s
    PROVE  Spares(s)
BY DEF Recolumned, Spares

\* Tables that lose no column: their indexes and keys still have theirs.
LEMMA WiderSound ==
    ASSUME NEW c, Consistent(c), NEW d, NEW new, Recolumned(c, d, new),
           DOMAIN new \subseteq OfKind(c, Tables),
           \A r \in DOMAIN new :
               /\ DOMAIN new[r] \subseteq Columns /\ new[r] \in [DOMAIN new[r] -> Types]
               /\ DOMAIN c.rel[r].cols \subseteq DOMAIN new[r]
    PROVE  Consistent(d)
<1>1. ASSUME NEW r \in DOMAIN new, NEW i \in IndexesOf(c, r)
      PROVE  Range(c.rel[i].key) \subseteq DOMAIN new[r]
  <2>1. Range(c.rel[i].key) \subseteq DOMAIN c.rel[r].cols
    BY DEF Consistent, IndexesOf, OfKind, IndexFits
  <2> QED
    BY <2>1
<1>2. ASSUME NEW f \in c.fks, f.on \in DOMAIN new PROVE f.col \in DOMAIN new[f.on]
  BY <1>2 DEF Consistent, KeysFit
<1> QED
  BY <1>1, <1>2, WithColumnsSound

LEMMA AddColumnSound ==
    ASSUME Consistent(cat), NEW s, AddColumn(s)
    PROVE  Consistent(cat') /\ Spares(s)
<1> DEFINE wider(r, x, type) == [y \in DOMAIN cat.rel[r].cols \cup {x} |->
                                    IF y = x THEN type ELSE cat.rel[r].cols[y]]
<1>1. PICK t \in Names, x \in Columns, type \in Types : \E o \in AlterableTable(s, t) :
        cat' = WithColumns(cat, [r \in Family(cat, o) |-> wider(r, x, type)])
  BY DEF AddColumn
<1>2. PICK o \in AlterableTable(s, t) :
        cat' = WithColumns(cat, [r \in Family(cat, o) |-> wider(r, x, type)])
  BY <1>1
<1>3. PICK new : new = [r \in Family(cat, o) |-> wider(r, x, type)]
  OBVIOUS
<1>4. o \in OfKind(cat, Tables) /\ cat.rel[o].schema = s
  BY FoundAlterable
<1>5. /\ DOMAIN new \subseteq OfKind(cat, Tables)
      /\ \A r \in DOMAIN new : cat.rel[r].schema = s
  BY <1>3, <1>4, FamilyOfOne
<1>6. Recolumned(cat, cat', new)
  BY <1>2, <1>3, WithColumnsFields
<1>7. ASSUME NEW r \in DOMAIN new
      PROVE  /\ DOMAIN new[r] \subseteq Columns /\ new[r] \in [DOMAIN new[r] -> Types]
             /\ DOMAIN cat.rel[r].cols \subseteq DOMAIN new[r]
  <2>1. PICK cols : cols = cat.rel[r].cols
    OBVIOUS
  <2>2. DOMAIN cols \subseteq Columns /\ cols \in [DOMAIN cols -> Types]
    BY <2>1, <1>5, ColsOK DEF OfKind
  <2>3. new[r] = [y \in DOMAIN cols \cup {x} |-> IF y = x THEN type ELSE cols[y]]
    BY <2>1, <1>3
  <2> QED
    BY <2>1, <2>2, <2>3
<1>8. Consistent(cat')
  BY <1>5, <1>6, <1>7, WiderSound
<1> QED
  BY <1>5, <1>6, <1>8, RecolumnedSpares

LEMMA AlterColumnTypeSound ==
    ASSUME Consistent(cat), NEW s, AlterColumnType(s)
    PROVE  Consistent(cat') /\ Spares(s)
<1>1. PICK t \in Names, x \in Columns, type \in Types : \E o \in AlterableTable(s, t) :
        cat' = WithColumns(cat, [r \in Family(cat, o) |->
                                    [cat.rel[r].cols EXCEPT ![x] = type]])
  BY DEF AlterColumnType
<1>2. PICK o \in AlterableTable(s, t) :
        cat' = WithColumns(cat, [r \in Family(cat, o) |->
                                    [cat.rel[r].cols EXCEPT ![x] = type]])
  BY <1>1
<1>3. PICK new : new = [r \in Family(cat, o) |-> [cat.rel[r].cols EXCEPT ![x] = type]]
  OBVIOUS
<1>4. o \in OfKind(cat, Tables) /\ cat.rel[o].schema = s
  BY FoundAlterable
<1>5. /\ DOMAIN new \subseteq OfKind(cat, Tables)
      /\ \A r \in DOMAIN new : cat.rel[r].schema = s
  BY <1>3, <1>4, FamilyOfOne
<1>6. Recolumned(cat, cat', new)
  BY <1>2, <1>3, WithColumnsFields
<1>7. ASSUME NEW r \in DOMAIN new
      PROVE  /\ DOMAIN new[r] \subseteq Columns /\ new[r] \in [DOMAIN new[r] -> Types]
             /\ DOMAIN cat.rel[r].cols \subseteq DOMAIN new[r]
  <2>1. PICK cols : cols = cat.rel[r].cols
    OBVIOUS
  <2>2. DOMAIN cols \subseteq Columns /\ cols \in [DOMAIN cols -> Types]
    BY <2>1, <1>5, ColsOK DEF OfKind
  <2>3. new[r] = [cols EXCEPT ![x] = type]
    BY <2>1, <1>3
  <2> QED
    BY <2>1, <2>2, <2>3
<1>8. Consistent(cat')
  BY <1>5, <1>6, <1>7, WiderSound
<1> QED
  BY <1>5, <1>6, <1>8, RecolumnedSpares

\* What goes with relations of one schema is of that schema, plain views apart.
Within(c, s, T) == \A x \in T : c.rel[x].schema = s \/ c.rel[x].kind = "view"

LEMMA PartsWithin ==
    ASSUME NEW c, Consistent(c), NEW s, NEW T, T \subseteq Live(c), Within(c, s, T)
    PROVE  PartsOf(c, T) \subseteq Live(c) /\ Within(c, s, PartsOf(c, T))
<1>1. PartsOf(c, T) \subseteq Live(c)
  BY DEF PartsOf, OfKind
<1>2. ASSUME NEW x \in Live(c), c.rel[x].kind \in {"table", "index"}, c.rel[x].of \in T
      PROVE  c.rel[x].schema = s
  <2>1. HasOwner(c, c.rel[x])
    BY DEF Consistent
  <2>2. c.rel[x].of # NoOid
    BY <1>2, OidsAssumption DEF Consistent, WellFormed
  <2>3. /\ c.rel[c.rel[x].of].schema = c.rel[x].schema
        /\ c.rel[c.rel[x].of].kind \in Tables \cup {"matview"}
    BY <1>2, <2>1, <2>2, IndexOwner, TableOwner DEF OfKind, Tables
  <2> QED
    BY <1>2, <2>3 DEF Within, Tables
<1> QED
  BY <1>1, <1>2 DEF PartsOf, Within, OfKind

LEMMA WithPartsWithin ==
    ASSUME NEW c, Consistent(c), NEW s, NEW T, T \subseteq Live(c), Within(c, s, T)
    PROVE  WithParts(c, T) \subseteq Live(c) /\ Within(c, s, WithParts(c, T))
BY PartsWithin, PartsTwice

LEMMA ViewsWithin ==
    ASSUME NEW c, Consistent(c), NEW s, NEW T, T \subseteq Live(c), Within(c, s, T)
    PROVE  ViewsOn(c, T) \subseteq Live(c) /\ Within(c, s, ViewsOn(c, T))
<1>1. Within(c, s, WithParts(c, T)) /\ WithParts(c, T) \subseteq Live(c)
  BY WithPartsWithin
<1>2. ASSUME NEW v \in ViewsOn(c, T)
      PROVE  v \in Live(c) /\ (c.rel[v].schema = s \/ c.rel[v].kind = "view")
  <2>1. v \in Live(c) /\ c.rel[v].kind \in Views /\ c.rel[v].of \in WithParts(c, T)
    BY DEF ViewsOn, OfKind
  <2>2. HasOwner(c, c.rel[v]) /\ c.rel[v].of \in Live(c)
    BY <2>1, <1>1 DEF Consistent
  <2>3. c.rel[c.rel[v].of].kind \in Tables
    BY <2>1, <2>2, ViewOwner DEF OfKind
  <2>4. c.rel[c.rel[v].of].schema = s
    BY <1>1, <2>1, <2>3 DEF Within, Tables
  <2>5. c.rel[v].kind = "view" \/ c.rel[c.rel[v].of].schema = c.rel[v].schema
    BY <2>1, <2>2 DEF HasOwner, Owners, Views, Tables
  <2> QED
    BY <2>1, <2>4, <2>5
<1> QED
  BY <1>2 DEF Within

LEMMA GoneWithin ==
    ASSUME NEW c, Consistent(c), NEW s, NEW S, S \subseteq Live(c), Within(c, s, S)
    PROVE  Gone(c, S) \subseteq Live(c) /\ Within(c, s, Gone(c, S))
<1>1. S \cup ViewsOn(c, S) \subseteq Live(c) /\ Within(c, s, S \cup ViewsOn(c, S))
  BY ViewsWithin DEF Within
<1> QED
  BY <1>1, WithPartsWithin DEF Gone

\* A relation that belongs to no other goes only when it is itself dropped.
LEMMA GoneSpares ==
    ASSUME NEW c, Consistent(c), NEW S, S \subseteq Live(c), NEW x \in Live(c) \ S,
           c.rel[x].kind \notin Views, c.rel[x].of = NoOid
    PROVE  x \notin Gone(c, S)
<1>1. NoOid \notin Live(c)
  BY OidsAssumption DEF Consistent, WellFormed
<1>2. ASSUME NEW T, T \subseteq Live(c), x \notin T
      PROVE  x \notin PartsOf(c, T) /\ PartsOf(c, T) \subseteq Live(c)
  BY <1>1, <1>2 DEF PartsOf, OfKind
<1>3. x \notin S \cup ViewsOn(c, S) /\ S \cup ViewsOn(c, S) \subseteq Live(c)
  BY DEF ViewsOn, OfKind
<1>4. x \notin WithParts(c, S \cup ViewsOn(c, S))
  BY <1>2, <1>3, PartsTwice
<1> QED
  BY <1>4 DEF Gone

LEMMA RemovedSpares ==
    ASSUME NEW s, NEW G, NEW d, Removed(cat, d, G), Within(cat, s, G),
           cat'.rel = d.rel
    PROVE  Spares(s)
BY DEF Removed, Within, Spares, Live, Views

LEMMA DropColumnSound ==
    ASSUME Consistent(cat), NEW s, DropColumn(s)
    PROVE  Consistent(cat') /\ Spares(s)
<1> DEFINE indexes(o, x) == {i \in UNION {IndexesOf(cat, r) : r \in Family(cat, o)} :
                                x \in Range(cat.rel[i].key)}
           lost(o, x) == indexes(o, x) \cup ViewsOn(cat, {o})
           own(f, o, x) == f.on \in Family(cat, o) /\ f.col = x
           left(o, x) == [Dropped(cat, lost(o, x)) EXCEPT
                             !.fks = {f \in @ : ~own(f, o, x)}]
           narrower(l, o, x) ==
               [r \in Family(l, o) |-> Restrict(l.rel[r].cols, DOMAIN l.rel[r].cols \ {x})]
<1>1. PICK t \in Names, x \in Columns, cascade \in BOOLEAN :
        \E o \in AlterableTable(s, t) :
           cat' = WithColumns(left(o, x), narrower(left(o, x), o, x))
  BY DEF DropColumn
<1>2. PICK o \in AlterableTable(s, t) :
           cat' = WithColumns(left(o, x), narrower(left(o, x), o, x))
  BY <1>1
<1>3. /\ o \in Live(cat) /\ o \in OfKind(cat, Tables) /\ cat.rel[o].schema = s
      /\ cat.rel[o].of = NoOid /\ cat.rel[o].kind \in Tables
  BY FoundAlterable DEF OfKind
<1> HIDE DEF left, narrower
<1>25. PICK d : d = left(o, x) /\ cat' = WithColumns(d, narrower(d, o, x))
  BY <1>2
<1> USE DEF left, narrower
<1>4. PICK L : L = lost(o, x)
  OBVIOUS
<1>5. PICK c : c = Dropped(cat, L)
  OBVIOUS
<1>6. /\ Family(cat, o) \subseteq OfKind(cat, Tables)
      /\ \A r \in Family(cat, o) : cat.rel[r].schema = s
  BY <1>3, FamilyOfOne
<1>7. L \subseteq Live(cat) /\ o \notin L /\ Within(cat, s, L)
  <2>1. {o} \subseteq Live(cat) /\ Within(cat, s, {o})
    BY <1>3 DEF Within
  <2>2. ViewsOn(cat, {o}) \subseteq Live(cat) /\ Within(cat, s, ViewsOn(cat, {o}))
    BY <2>1, ViewsWithin
  <2>3. ASSUME NEW i \in indexes(o, x)
        PROVE  i \in Live(cat) /\ cat.rel[i].kind = "index" /\ cat.rel[i].schema = s
    <3>1. i \in Live(cat) /\ cat.rel[i].kind = "index" /\ cat.rel[i].of \in Family(cat, o)
      BY DEF IndexesOf, OfKind
    <3> QED
      BY <3>1, <1>6, IndexOwner DEF Consistent
  <2>4. o \notin L
    BY <2>3, <1>3, <1>4 DEF ViewsOn, OfKind, Views, Tables
  <2> QED
    BY <2>2, <2>3, <2>4, <1>4 DEF Within
<1>8. Consistent(c) /\ Removed(cat, c, Gone(cat, L))
  BY <1>5, <1>7, DroppedSound
<1>9. o \notin Gone(cat, L) /\ Within(cat, s, Gone(cat, L))
  BY <1>3, <1>7, GoneSpares, GoneWithin DEF Views, Tables
<1>10. L \subseteq Gone(cat, L)
  <2>1. L \cup ViewsOn(cat, L) \subseteq Live(cat)
    BY <1>7 DEF ViewsOn, OfKind
  <2> QED
    BY <2>1, PartsOfLive DEF Gone
<1>11. d = [c EXCEPT !.fks = {f \in c.fks : ~own(f, o, x)}]
  BY <1>25, <1>4, <1>5
<1>12. PICK new : new = narrower(d, o, x)
  OBVIOUS
<1>13. cat' = WithColumns(d, new)
  BY <1>25, <1>12
<1>14. d = [schemas |-> c.schemas, rel |-> c.rel, fks |-> {f \in c.fks : ~own(f, o, x)},
            roles |-> c.roles, grants |-> c.grants]
  BY <1>8, <1>11 DEF Consistent, WellFormed
<1>15. /\ d.schemas = c.schemas /\ d.rel = c.rel /\ d.fks = {f \in c.fks : ~own(f, o, x)}
       /\ d.roles = c.roles /\ d.grants = c.grants /\ Live(d) = Live(c)
  BY <1>14 DEF Live
<1>16. Consistent(d)
  <2>1. d = [schemas |-> d.schemas, rel |-> c.rel, fks |-> d.fks,
             roles |-> c.roles, grants |-> c.grants]
    BY <1>14, <1>15
  <2>2. \A r \in Live(c) : c.rel[r].schema \in d.schemas
    BY <1>8, <1>15 DEF Consistent, WellFormed
  <2> QED
    BY <2>1, <2>2, <1>8, <1>15, KeysLostSound
<1>17. /\ o \in OfKind(d, Tables) /\ d.rel[o] = cat.rel[o]
       /\ \A i \in Live(d) : i \in Live(cat) /\ d.rel[i] = cat.rel[i] /\ i \notin Gone(cat, L)
  BY <1>3, <1>8, <1>9, <1>15 DEF Removed, Live, OfKind
<1>18. Family(d, o) \subseteq OfKind(d, Tables) /\ Family(d, o) \subseteq Family(cat, o)
  BY <1>16, <1>17, FamilyOfOne DEF Family, OfKind
<1>19. Recolumned(d, cat', new) /\ DOMAIN new = Family(d, o)
  BY <1>12, <1>13, <1>16, WithColumnsFields
<1>20. ASSUME NEW r \in Family(d, o)
       PROVE  /\ DOMAIN new[r] = DOMAIN d.rel[r].cols \ {x}
              /\ DOMAIN new[r] \subseteq Columns /\ new[r] \in [DOMAIN new[r] -> Types]
  <2>1. PICK cols : cols = d.rel[r].cols
    OBVIOUS
  <2>2. DOMAIN cols \subseteq Columns /\ cols \in [DOMAIN cols -> Types]
    BY <2>1, <1>16, <1>18, ColsOK DEF OfKind
  <2>3. new[r] = Restrict(cols, DOMAIN cols \ {x})
    BY <2>1, <1>12
  <2> QED
    BY <2>1, <2>2, <2>3 DEF Restrict
<1>21. ASSUME NEW r \in Family(d, o), NEW i \in IndexesOf(d, r)
       PROVE  Range(d.rel[i].key) \subseteq DOMAIN new[r]
  <2>1. i \in Live(d) /\ d.rel[i].kind = "index" /\ d.rel[i].of = r
    BY DEF IndexesOf, OfKind
  <2>2. Range(d.rel[i].key) \subseteq DOMAIN d.rel[r].cols
    BY <2>1, <1>16 DEF Consistent, IndexFits
  <2>3. i \notin L /\ i \in IndexesOf(cat, r) /\ r \in Family(cat, o)
    BY <2>1, <1>10, <1>17, <1>18 DEF IndexesOf, OfKind
  <2>4. x \notin Range(cat.rel[i].key)
    BY <2>3, <1>4
  <2> QED
    BY <2>1, <2>2, <2>4, <1>17, <1>20
<1>22. ASSUME NEW f \in d.fks, f.on \in Family(d, o) PROVE f.col \in DOMAIN new[f.on]
  <2>1. f.col \in DOMAIN d.rel[f.on].cols
    BY <1>16 DEF Consistent, KeysFit
  <2>2. f.col # x
    BY <1>15, <1>18, <1>22
  <2> QED
    BY <2>1, <2>2, <1>20, <1>22
<1>23. Consistent(cat')
  BY <1>16, <1>18, <1>19, <1>20, <1>21, <1>22, WithColumnsSound
<1>24. Spares(s)
  <2> SUFFICES ASSUME NEW r \in Live(cat), cat.rel[r].schema # s,
                      cat.rel[r].kind \notin Views
               PROVE  r \in Live(cat') /\ cat'.rel[r] = cat.rel[r]
    BY DEF Spares
  <2>1. r \in Live(d) /\ d.rel[r] = cat.rel[r]
    BY <1>8, <1>9, <1>15 DEF Removed, Within, Live, Views
  <2>2. r \notin DOMAIN new
    BY <1>6, <1>18, <1>19
  <2> QED
    BY <2>1, <2>2, <1>19 DEF Recolumned
<1> QED
  BY <1>23, <1>24

LEMMA RenameColumnSound ==
    ASSUME Consistent(cat), NEW s, RenameColumn(s)
    PROVE  Consistent(cat') /\ Spares(s)
<1>1. PICK t \in Names, x \in Columns, y \in Columns : \E o \in AlterableTable(s, t) :
        /\ x \in DOMAIN cat.rel[o].cols /\ y \notin DOMAIN cat.rel[o].cols
        /\ cat' = WithRenamed(cat, Family(cat, o), x, y, cat.rel[o].cols[x])
  BY DEF RenameColumn
<1>2. PICK o \in AlterableTable(s, t) :
        /\ x \in DOMAIN cat.rel[o].cols /\ y \notin DOMAIN cat.rel[o].cols
        /\ cat' = WithRenamed(cat, Family(cat, o), x, y, cat.rel[o].cols[x])
  BY <1>1
<1>3. o \in Live(cat) /\ o \in OfKind(cat, Tables) /\ cat.rel[o].schema = s
  BY FoundAlterable
<1>4. PICK F : F = Family(cat, o)
  OBVIOUS
<1>5. F \subseteq OfKind(cat, Tables) /\ \A r \in F : cat.rel[r].schema = s
  BY <1>3, <1>4, FamilyOfOne
<1>6. PICK type : type = cat.rel[o].cols[x]
  OBVIOUS
<1>7. type \in Types
  BY <1>2, <1>3, <1>6, ColsOK
<1>8. PICK rel, fks :
        /\ rel = [r \in Live(cat) |->
               IF r \in F
               THEN [cat.rel[r] EXCEPT !.cols = ColsRenamed(@, x, y, type),
                                       !.key = Renamed(@, x, y)]
               ELSE IF cat.rel[r].of \in F /\ cat.rel[r].kind = "index"
               THEN [cat.rel[r] EXCEPT !.key = Renamed(@, x, y)] ELSE cat.rel[r]]
        /\ fks = {IF f.on \in F /\ f.col = x THEN [f EXCEPT !.col = y] ELSE f : f \in cat.fks}
  BY Zenon
<1>9. cat' = [cat EXCEPT !.rel = rel, !.fks = fks]
  BY <1>2, <1>4, <1>6, <1>8, Zenon DEF WithRenamed
<1>10. cat' = [schemas |-> cat.schemas, rel |-> rel, fks |-> fks,
               roles |-> cat.roles, grants |-> cat.grants]
  BY <1>9 DEF Consistent, WellFormed
<1>11. cat'.rel = rel /\ cat'.fks = fks
  BY <1>10
<1>12. ColumnRenamed(cat, cat', F, x, y, type)
  BY <1>8, <1>10, <1>11, Zenon DEF ColumnRenamed
<1>13. Consistent(cat')
  BY <1>5, <1>7, <1>12, ColumnRenamedSound
<1>14. Live(cat') = Live(cat)
  BY <1>12, Zenon DEF ColumnRenamed, Live
<1>15. ASSUME NEW r \in Live(cat), cat.rel[r].schema # s PROVE cat'.rel[r] = cat.rel[r]
  <2>1. r \notin F
    BY <1>5, <1>15
  <2>2. ~(cat.rel[r].of \in F /\ cat.rel[r].kind = "index")
    BY <1>5, <1>15, IndexOwner DEF Consistent
  <2> QED
    BY <2>1, <2>2, <1>12, Zenon DEF ColumnRenamed
<1> QED
  BY <1>13, <1>14, <1>15 DEF Spares

\* Another name for one relation, or another schema for a plain view.
LEMMA NameSound ==
    ASSUME NEW c, Consistent(c), NEW o \in Live(c), NEW s \in c.schemas, NEW n,
           s = c.rel[o].schema \/ c.rel[o].kind = "view",
           (s = c.rel[o].schema /\ n = c.rel[o].name) \/ Free(c, s, n),
           c.rel[o].role \in {"constraint", "primary"} =>
               \A f \in c.fks : f.on = c.rel[o].of => f.name # n,
           NEW d, NEW q, Put(c, d, o, q),
           q = [c.rel[o] EXCEPT !.schema = s, !.name = n]
    PROVE  Consistent(d)
<1>1. PICK p : p = c.rel[o]
  OBVIOUS
<1>2. IsRelation(p) /\ HasOwner(c, p) /\ IndexFits(c, p)
  BY <1>1 DEF Consistent, WellFormed
<1>3. q = [p EXCEPT !.schema = s, !.name = n]
  BY <1>1
<1>4. /\ q = Relation(p.kind, s, n, p.of, p.cols, p.key, p.role)
      /\ q.kind = p.kind /\ q.schema = s /\ q.name = n /\ q.of = p.of
      /\ q.cols = p.cols /\ q.key = p.key /\ q.role = p.role
  BY <1>2, <1>3, RelFields DEF Relation
<1>5. IsRelation(q)
  BY <1>2, <1>4 DEF IsRelation
<1>6. HasOwner(c, q)
  BY <1>1, <1>2, <1>4 DEF HasOwner, Owners
<1>7. IndexFits(c, q)
  BY <1>2, <1>4 DEF IndexFits
<1>8. \A i \in IndexesOf(c, o) : Range(c.rel[i].key) \subseteq DOMAIN q.cols
  BY <1>1, <1>4 DEF IndexesOf, OfKind, Consistent, IndexFits
<1>9. \A f \in d.fks : f.on = o => f.col \in DOMAIN q.cols
  BY <1>1, <1>4 DEF Consistent, KeysFit, Put
<1>10. q.role \in {"constraint", "primary"} => \A f \in d.fks : f.on = q.of => f.name # q.name
  BY <1>1, <1>4 DEF Put
<1>11. \/ q.schema = c.rel[o].schema /\ q.name = c.rel[o].name
       \/ Free(c, q.schema, q.name)
  BY <1>4
<1> QED
  BY <1>1, <1>4, <1>5, <1>6, <1>7, <1>8, <1>9, <1>10, <1>11, PutSound

LEMMA RenameSound ==
    ASSUME Consistent(cat), NEW o \in Live(cat), NEW n, Rename(o, n)
    PROVE  /\ Consistent(cat') /\ Spares(cat.rel[o].schema)
           /\ Put(cat, cat', o, [cat.rel[o] EXCEPT !.name = n])
<1>1. Free(cat, cat.rel[o].schema, n) /\ cat' = [cat EXCEPT !.rel[o].name = n]
  BY DEF Rename, Renamable
<1>2. PICK p : p = cat.rel[o]
  OBVIOUS
<1>3. PICK q : q = [p EXCEPT !.name = n]
  OBVIOUS
<1>4. IsRelation(p) /\ p.schema \in cat.schemas /\ HasOwner(cat, p)
  BY <1>2 DEF Consistent, WellFormed
<1>5. q = [p EXCEPT !.schema = p.schema, !.name = n]
  BY <1>3, <1>4, RelFields
<1>6. cat' = [cat EXCEPT !.rel[o] = q]
  BY <1>1, <1>2, <1>3
<1>7. Put(cat, cat', o, q) /\ cat'.fks = cat.fks
  BY <1>6 DEF Put, Live, Consistent, WellFormed
<1>8. p.role \in {"constraint", "primary"} => \A f \in cat.fks : f.on = p.of => f.name # n
  BY <1>2 DEF Rename, Renamable, ConstraintNames
<1>9. Consistent(cat')
  <2>1. q = [cat.rel[o] EXCEPT !.schema = p.schema, !.name = n]
    BY <1>2, <1>5
  <2> QED
    BY <2>1, <1>1, <1>2, <1>4, <1>7, <1>8, NameSound
<1>10. Spares(cat.rel[o].schema)
  BY <1>7, PutSpares
<1> QED
  BY <1>2, <1>3, <1>7, <1>9, <1>10

LEMMA RenameToolsSound ==
    ASSUME Consistent(cat), NEW s, RenameTable(s) \/ RenameIndex(s)
    PROVE  Consistent(cat') /\ Spares(s)
<1>1. PICK t \in Names, n \in Names : \E o \in Target(s, t, Kinds) : Rename(o, n)
  BY DEF RenameTable, RenameIndex
<1>2. PICK o \in Target(s, t, Kinds) : Rename(o, n)
  BY <1>1
<1>3. o \in Live(cat) /\ cat.rel[o].schema = s
  BY FoundTarget
<1> QED
  BY <1>2, <1>3, RenameSound

LEMMA RenameSchemaSound ==
    ASSUME Consistent(cat), NEW s, RenameSchema(s)
    PROVE  Consistent(cat') /\ Spares(s)
<1>1. PICK n \in SchemaNames :
        /\ s \in cat.schemas /\ n \notin cat.schemas
        /\ cat' = [cat EXCEPT
              !.schemas = (@ \ {s}) \cup {n},
              !.rel = [o \in Live(cat) |-> IF @[o].schema = s
                                           THEN [@[o] EXCEPT !.schema = n] ELSE @[o]]]
  BY DEF RenameSchema
<1>2. PICK rel : rel = [o \in Live(cat) |-> IF cat.rel[o].schema = s
                           THEN [cat.rel[o] EXCEPT !.schema = n] ELSE cat.rel[o]]
  OBVIOUS
<1>3. cat' = [cat EXCEPT !.schemas = (@ \ {s}) \cup {n}, !.rel = rel]
  BY <1>1, <1>2
<1>4. cat' = [schemas |-> (cat.schemas \ {s}) \cup {n}, rel |-> rel, fks |-> cat.fks,
              roles |-> cat.roles, grants |-> cat.grants]
  BY <1>3 DEF Consistent, WellFormed
<1>5. cat'.rel = rel /\ cat'.roles = cat.roles /\ cat'.grants = cat.grants
  BY <1>4
<1>6. Consistent(cat')
  <2>1. SchemaRenamed(cat, cat', s, n)
    BY <1>2, <1>4, <1>5 DEF SchemaRenamed
  <2>2. s \in cat.schemas /\ n \notin cat.schemas
    BY <1>1
  <2> QED
    BY <2>1, <2>2, SchemaRenamedSound
<1> QED
  BY <1>2, <1>5, <1>6 DEF Spares, Live

LEMMA AddForeignKeySound ==
    ASSUME Consistent(cat), NEW s, AddForeignKey(s)
    PROVE  Consistent(cat') /\ Spares(s)
<1>1. PICK t \in Names, ref \in Names :
        \E o \in Target(s, t, Tables) \cap Unsplit(cat), p \in Target(s, ref, Tables) :
            \E via \in IndexesOf(cat, p), name \in Names,
               x \in DOMAIN cat.rel[o].cols, y \in DOMAIN cat.rel[p].cols :
                /\ cat.rel[via].role # "plain" /\ cat.rel[via].key = <<y>>
                /\ cat.rel[o].cols[x] = cat.rel[p].cols[y]
                /\ name \notin ConstraintNames(o)
                /\ cat' = [cat EXCEPT !.fks = @ \cup
                              {[name |-> name, on |-> o, col |-> x, via |-> via]}]
  BY DEF AddForeignKey
<1>2. PICK o \in Target(s, t, Tables) \cap Unsplit(cat), p \in Target(s, ref, Tables) :
        \E via \in IndexesOf(cat, p), name \in Names, x \in DOMAIN cat.rel[o].cols :
            /\ cat.rel[via].role # "plain"
            /\ name \notin ConstraintNames(o)
            /\ cat' = [cat EXCEPT !.fks = @ \cup
                          {[name |-> name, on |-> o, col |-> x, via |-> via]}]
  BY <1>1
<1>3. PICK via \in IndexesOf(cat, p), name \in Names, x \in DOMAIN cat.rel[o].cols :
        /\ cat.rel[via].role # "plain"
        /\ name \notin ConstraintNames(o)
        /\ cat' = [cat EXCEPT !.fks = @ \cup
                      {[name |-> name, on |-> o, col |-> x, via |-> via]}]
  BY <1>2
<1>4. PICK f : f = [name |-> name, on |-> o, col |-> x, via |-> via]
  OBVIOUS
<1>5. PICK K : K = cat.fks \cup {f}
  OBVIOUS
<1>6. cat' = [cat EXCEPT !.fks = K]
  BY <1>3, <1>4, <1>5
<1>7. cat' = [schemas |-> cat.schemas, rel |-> cat.rel, fks |-> K,
              roles |-> cat.roles, grants |-> cat.grants]
  BY <1>6 DEF Consistent, WellFormed
<1>8. /\ cat'.schemas = cat.schemas /\ cat'.rel = cat.rel /\ cat'.fks = K
      /\ cat'.roles = cat.roles /\ cat'.grants = cat.grants /\ Live(cat') = Live(cat)
  BY <1>7 DEF Live
<1>9. /\ f = [name |-> f.name, on |-> f.on, col |-> f.col, via |-> f.via]
      /\ f.name = name /\ f.on = o /\ f.col = x /\ f.via = via
  BY <1>4
<1>10. o \in OfKind(cat, Tables) /\ via \in OfKind(cat, {"index"})
  BY FoundTarget DEF OfKind, IndexesOf
<1>11. KeysFit(cat')
  BY <1>3, <1>5, <1>8, <1>9, <1>10 DEF Consistent, KeysFit, OfKind
<1>12. \A i \in IndexesOf(cat, o) :
         cat.rel[i].role \in {"constraint", "primary"} => cat.rel[i].name # name
  BY <1>3 DEF ConstraintNames
<1>13. ConstraintsApart(cat')
  BY <1>5, <1>8, <1>9, <1>12 DEF Consistent, ConstraintsApart, IndexesOf, OfKind
<1>14. GrantsFit(cat')
  BY <1>8 DEF Consistent, GrantsFit
<1>15. Consistent(cat')
  <2>1. cat' = [schemas |-> cat'.schemas, rel |-> cat.rel, fks |-> cat'.fks,
                roles |-> cat'.roles, grants |-> cat'.grants]
    BY <1>7, <1>8
  <2>2. /\ cat'.roles = [u \in DOMAIN cat'.roles |-> cat'.roles[u]]
        /\ \A r \in Live(cat) : cat.rel[r].schema \in cat'.schemas
    BY <1>8 DEF Consistent, WellFormed
  <2> QED
    BY <2>1, <2>2, <1>11, <1>13, <1>14, SameRelationsSound
<1> QED
  BY <1>8, <1>15 DEF Spares

LEMMA DropConstraintSound ==
    ASSUME Consistent(cat), NEW s, DropConstraint(s)
    PROVE  Consistent(cat') /\ Spares(s)
<1>1. PICK t \in Names, name \in Names, cascade \in BOOLEAN :
        \E o \in Target(s, t, Tables) :
            \/ \E f \in cat.fks :
                   /\ f.on = o /\ f.name = name
                   /\ cat' = [cat EXCEPT !.fks = @ \ {f}]
            \/ \E i \in IndexesOf(cat, o) :
                   /\ cat.rel[i].name = name
                   /\ cat.rel[i].role \in {"constraint", "primary"}
                   /\ cascade \/ \A f \in cat.fks : f.via # i
                   /\ cat' = Dropped(cat, {i})
  BY DEF DropConstraint
<1>2. PICK o \in Target(s, t, Tables) :
        \/ \E f \in cat.fks : cat' = [cat EXCEPT !.fks = @ \ {f}]
        \/ \E i \in IndexesOf(cat, o) : cat' = Dropped(cat, {i})
  BY <1>1
<1>3. ASSUME NEW f \in cat.fks, cat' = [cat EXCEPT !.fks = @ \ {f}]
      PROVE  Consistent(cat') /\ Spares(s)
  <2>1. cat' = [schemas |-> cat.schemas, rel |-> cat.rel, fks |-> cat.fks \ {f},
                roles |-> cat.roles, grants |-> cat.grants]
    BY <1>3 DEF Consistent, WellFormed
  <2>2. /\ cat'.schemas = cat.schemas /\ cat'.rel = cat.rel
        /\ cat'.fks = cat.fks \ {f} /\ cat'.fks \subseteq cat.fks
        /\ cat'.roles = cat.roles /\ cat'.grants = cat.grants /\ Live(cat') = Live(cat)
    BY <2>1 DEF Live
  <2>3. \A x \in Live(cat) : cat.rel[x].schema \in cat'.schemas
    BY <2>2 DEF Consistent, WellFormed
  <2>4. Consistent(cat')
    BY <2>1, <2>2, <2>3, KeysLostSound
  <2> QED
    BY <2>2, <2>4 DEF Spares
<1>4. ASSUME NEW i \in IndexesOf(cat, o), cat' = Dropped(cat, {i})
      PROVE  Consistent(cat') /\ Spares(s)
  <2>1. i \in Live(cat) /\ cat.rel[i].kind = "index" /\ cat.rel[i].of = o
    BY DEF IndexesOf, OfKind
  <2>2. cat.rel[i].schema = s
    BY <2>1, IndexOwner, FoundTarget DEF Consistent
  <2>3. PICK S : S = {i}
    OBVIOUS
  <2>4. S \subseteq Live(cat) /\ Within(cat, s, S)
    BY <2>1, <2>2, <2>3 DEF Within
  <2>5. PICK d : d = Dropped(cat, S)
    OBVIOUS
  <2>6. Consistent(d) /\ Removed(cat, d, Gone(cat, S)) /\ cat' = d
    BY <1>4, <2>3, <2>4, <2>5, DroppedSound
  <2>7. Within(cat, s, Gone(cat, S))
    BY <2>4, GoneWithin
  <2>8. Consistent(cat') /\ Removed(cat, cat', Gone(cat, S)) /\ cat'.rel = d.rel
    BY <2>6
  <2> QED
    BY <2>6, <2>7, <2>8, RemovedSpares
<1> QED
  BY <1>2, <1>3, <1>4

LEMMA AddUniqueSound ==
    ASSUME Consistent(cat), NEW s, AddUnique(s)
    PROVE  Consistent(cat') /\ Spares(s)
<1>1. PICK t \in Names, name \in Names, x \in Columns :
        \E o \in Target(s, t, Tables) :
            /\ HasRoom(cat, 1)
            /\ Indexable(cat, o, <<x>>, "constraint")
            /\ Free(cat, s, name) /\ name \notin ConstraintNames(o)
            /\ cat' = Add(cat, Relation("index", s, name, o, NoCols, <<x>>,
                                        "constraint"))
  BY DEF AddUnique
<1>2. PICK o \in Target(s, t, Tables) :
        /\ HasRoom(cat, 1)
        /\ Indexable(cat, o, <<x>>, "constraint")
        /\ Free(cat, s, name) /\ name \notin ConstraintNames(o)
        /\ cat' = Add(cat, Relation("index", s, name, o, NoCols, <<x>>, "constraint"))
  BY <1>1
<1>3. /\ o \in OfKind(cat, Tables \cup {"matview"}) /\ cat.rel[o].schema = s
      /\ cat.rel[o].kind \in Tables
  BY FoundTarget DEF OfKind
<1>4. PICK r : r = Relation("index", s, name, o, NoCols, <<x>>, "constraint")
  OBVIOUS
<1>5. /\ IsRelation(r) /\ r.kind = "index" /\ r.schema = s /\ r.name = name
      /\ r.of = o /\ r.key # <<>> /\ r.key = <<x>> /\ r.role = "constraint"
  <2>1. PICK k \in Seq(Columns) : k = <<x>> /\ k # <<>> /\ Range(k) = {x}
    BY OneKey
  <2>2. r = Relation("index", s, name, o, NoCols, k, "constraint")
    BY <1>4, <2>1
  <2>3. "constraint" \in Roles
    BY DEF Roles
  <2>4. /\ IsRelation(r) /\ r.kind = "index" /\ r.schema = s
        /\ r.name = name /\ r.of = o /\ r.key = k /\ r.role = "constraint"
    BY <2>2, <2>3, NewIndex
  <2> QED
    BY <2>1, <2>4
<1>6. r.key # <<>> /\ Range(r.key) \subseteq DOMAIN cat.rel[o].cols
  BY <1>2, <1>5 DEF Indexable
<1>7. \A f \in cat.fks : f.on = o => f.name # r.name
  BY <1>2, <1>5 DEF ConstraintNames
<1>8. cat' = Add(cat, r)
  BY <1>2, <1>4
<1>9. Consistent(cat') /\ \E p \in Oids \ Live(cat) : Added(cat, cat', r, p)
  BY <1>2, <1>3, <1>5, <1>6, <1>7, <1>8, AddIndex
<1> QED
  BY <1>9, AddSpares

\* Any number of indexes for a table that no foreign key is on.
WithIndexes(c, d, p, new) ==
    /\ d = [schemas |-> c.schemas, rel |-> d.rel, fks |-> c.fks,
            roles |-> c.roles, grants |-> c.grants]
    /\ DOMAIN new \subseteq Oids \ Live(c)
    /\ d.rel = [x \in Live(c) \cup DOMAIN new |->
                   IF x \in Live(c) THEN c.rel[x] ELSE new[x]]
    /\ p \in OfKind(c, Tables) /\ \A f \in c.fks : f.on # p
    /\ \A x \in DOMAIN new :
          /\ IsRelation(new[x]) /\ new[x].kind = "index"
          /\ new[x].of = p /\ new[x].schema = c.rel[p].schema
          /\ new[x].key # <<>> /\ Range(new[x].key) \subseteq DOMAIN c.rel[p].cols
          /\ Free(c, new[x].schema, new[x].name)
    /\ \A x, y \in DOMAIN new : new[x].name = new[y].name => x = y

LEMMA AddIndexes ==
    ASSUME NEW c, Consistent(c), NEW d, NEW p, NEW new, WithIndexes(c, d, p, new)
    PROVE  Consistent(d)
<1>1. /\ Live(d) = Live(c) \cup DOMAIN new /\ d.fks = c.fks
      /\ d.schemas = c.schemas /\ d.roles = c.roles /\ d.grants = c.grants
      /\ \A x \in Live(c) : x \in Live(d) /\ d.rel[x] = c.rel[x]
      /\ \A x \in DOMAIN new : x \notin Live(c) /\ d.rel[x] = new[x]
  BY DEF WithIndexes, Live
<1>2. \A x \in DOMAIN new :
          /\ IsRelation(new[x]) /\ new[x].kind = "index"
          /\ new[x].of = p /\ new[x].schema = c.rel[p].schema
          /\ new[x].key # <<>> /\ Range(new[x].key) \subseteq DOMAIN c.rel[p].cols
          /\ new[x].schema \in c.schemas
          /\ \A y \in Live(c) : ~(c.rel[y].schema = new[x].schema /\ c.rel[y].name = new[x].name)
  BY DEF WithIndexes, Free, At
<1>3. p \in Live(c) /\ c.rel[p].kind \in Tables /\ \A f \in c.fks : f.on # p
  BY DEF WithIndexes, OfKind
<1>4. WellFormed(d)
  <2>1. \A x \in Live(d) : IsRelation(d.rel[x]) /\ d.rel[x].schema \in d.schemas
    BY <1>1, <1>2 DEF Consistent, WellFormed
  <2>2. d = [schemas |-> d.schemas, rel |-> d.rel, fks |-> d.fks,
             roles |-> d.roles, grants |-> d.grants]
    BY <1>1 DEF WithIndexes
  <2>3. Live(d) \subseteq Oids /\ d.rel = [x \in Live(d) |-> d.rel[x]]
    BY <1>1 DEF WithIndexes, Consistent, WellFormed
  <2>4. d.roles = [u \in DOMAIN d.roles |-> d.roles[u]]
    BY <1>1 DEF Consistent, WellFormed
  <2> QED
    BY <2>1, <2>2, <2>3, <2>4 DEF WellFormed
<1>5. NamesUnique(d)
  <2> SUFFICES ASSUME NEW x \in Live(d), NEW y \in Live(d),
                      d.rel[x].schema = d.rel[y].schema, d.rel[x].name = d.rel[y].name
               PROVE  x = y
    BY DEF NamesUnique
  <2>1. CASE x \in Live(c) /\ y \in Live(c)
    BY <2>1, <1>1 DEF Consistent, NamesUnique
  <2>2. CASE x \in DOMAIN new /\ y \in DOMAIN new
    BY <2>2, <1>1 DEF WithIndexes
  <2>3. CASE x \in DOMAIN new /\ y \in Live(c)
    BY <2>3, <1>1, <1>2
  <2>4. CASE x \in Live(c) /\ y \in DOMAIN new
    BY <2>4, <1>1, <1>2
  <2> QED
    BY <2>1, <2>2, <2>3, <2>4, <1>1
<1>6. ASSUME NEW x \in Live(d) PROVE HasOwner(d, d.rel[x]) /\ IndexFits(d, d.rel[x])
  <2>1. CASE x \in Live(c)
    <3>1. HasOwner(c, c.rel[x]) /\ IndexFits(c, c.rel[x])
      BY <2>1 DEF Consistent
    <3>2. HasOwner(d, c.rel[x])
      BY <3>1, <1>1 DEF HasOwner, Owners, OfKind
    <3>3. c.rel[x].kind = "index" => c.rel[x].of \in Live(c)
      BY <3>1, IndexOwner DEF OfKind
    <3>4. IndexFits(d, c.rel[x])
      BY <3>1, <3>3, <1>1 DEF IndexFits
    <3> QED
      BY <2>1, <3>2, <3>4, <1>1
  <2>2. CASE x \in DOMAIN new
    <3>1. p \in Live(d) /\ d.rel[p] = c.rel[p]
      BY <1>1, <1>3
    <3>2. p \in Owners(d, new[x])
      BY <2>2, <3>1, <1>2, <1>3, IndexOwners
    <3> QED
      BY <2>2, <3>1, <3>2, <1>1, <1>2, <1>3 DEF HasOwner, IndexFits
  <2> QED
    BY <2>1, <2>2, <1>1
<1>7. KeysFit(d)
  BY <1>1 DEF Consistent, KeysFit, OfKind
<1>8. ConstraintsApart(d)
  <2> SUFFICES ASSUME NEW f \in c.fks, NEW i \in IndexesOf(d, f.on),
                      d.rel[i].role \in {"constraint", "primary"}
               PROVE  d.rel[i].name # f.name
    BY <1>1 DEF ConstraintsApart
  <2>1. i \in Live(d) /\ d.rel[i].kind = "index" /\ d.rel[i].of = f.on
    BY DEF IndexesOf, OfKind
  <2>2. i \in Live(c)
    BY <2>1, <1>1, <1>2, <1>3
  <2>3. i \in IndexesOf(c, f.on)
    BY <2>1, <2>2, <1>1 DEF IndexesOf, OfKind
  <2> QED
    BY <2>2, <2>3, <1>1 DEF Consistent, ConstraintsApart
<1>9. GrantsFit(d)
  BY <1>1 DEF Consistent, GrantsFit
<1> QED
  BY <1>4, <1>5, <1>6, <1>7, <1>8, <1>9 DEF Consistent

\* The index q put down again, in another schema, as one of p.
IndexCopy(q, s, n, p) == [q EXCEPT !.schema = s, !.name = n, !.of = p]

\* The copy of an index is one of the new table.
CopyFits(x, s, n, p, cols) ==
    /\ IsRelation(x) /\ x.kind = "index" /\ x.schema = s /\ x.name = n /\ x.of = p
    /\ x.key # <<>> /\ Range(x.key) \subseteq DOMAIN cols

LEMMA CopiedIndex ==
    ASSUME NEW c, Consistent(c), NEW o, NEW i \in IndexesOf(c, o),
           NEW s, NEW n, NEW p
    PROVE  CopyFits(IndexCopy(c.rel[i], s, n, p), s, n, p, c.rel[o].cols)
<1>1. PICK q, x : q = c.rel[i] /\ x = IndexCopy(q, s, n, p)
  OBVIOUS
<1>2. /\ IsRelation(q) /\ q.kind = "index" /\ q.of = o /\ IndexFits(c, q)
  BY <1>1 DEF IndexesOf, OfKind, Consistent, WellFormed
<1>3. q = [kind |-> q.kind, schema |-> q.schema, name |-> q.name, of |-> q.of,
           cols |-> q.cols, key |-> q.key, role |-> q.role]
  BY <1>2, RelFields
<1>4. x = [kind |-> q.kind, schema |-> s, name |-> n, of |-> p,
           cols |-> q.cols, key |-> q.key, role |-> q.role]
  BY <1>1, <1>3 DEF IndexCopy
<1>5. /\ x.kind = q.kind /\ x.schema = s /\ x.name = n /\ x.of = p
      /\ x.cols = q.cols /\ x.key = q.key /\ x.role = q.role
  BY <1>4
<1>6. IsRelation(x)
  BY <1>2, <1>4, <1>5 DEF IsRelation, Relation
<1> QED
  BY <1>1, <1>2, <1>5, <1>6 DEF IndexFits, CopyFits

LEMMA CloneTableSound ==
    ASSUME Consistent(cat), NEW s, CloneTable(s)
    PROVE  Consistent(cat') /\ Spares(s)
<1> DEFINE made(o, n) == Add(cat, Relation("table", s, n, NoOid, cat.rel[o].cols,
                                           <<>>, "plain"))
           copy(o, n) == CHOOSE x \in At(made(o, n), s, n) : TRUE
           old(o, b) == IF b THEN IndexesOf(cat, o) ELSE {}
           auto(i, n) == AutoNames(n, cat.rel[i].role, cat.rel[i].key)
           places(o, n, b) == Injection(old(o, b), Oids \ Live(made(o, n)))
           place(o, n, b) == CHOOSE p \in places(o, n, b) : TRUE
           placed(o, n, b, x) == CHOOSE i \in old(o, b) : place(o, n, b)[i] = x
           final(o, n, b, names) ==
               [made(o, n) EXCEPT !.rel =
                   [x \in Live(made(o, n)) \cup Range(place(o, n, b)) |->
                       IF x \in Live(made(o, n)) THEN made(o, n).rel[x]
                       ELSE [cat.rel[placed(o, n, b, x)] EXCEPT
                                !.schema = s, !.name = names[placed(o, n, b, x)],
                                !.of = copy(o, n)]]]
<1>1. PICK t \in Names, n \in Names, from \in cat.schemas, b \in BOOLEAN :
        \E o \in Target(from, t, Listed \cup {"matview"}) :
            /\ HasRoom(cat, 1) /\ places(o, n, b) # {}
            /\ Free(cat, s, n)
            /\ \E names \in Injection(old(o, b), UNION {auto(i, n) : i \in old(o, b)}) :
                  /\ \A i \in old(o, b) :
                        names[i] \in auto(i, n) /\ Free(made(o, n), s, names[i])
                  /\ cat' = final(o, n, b, names)
  BY Zenon DEF CloneTable
<1>2. PICK o \in Target(from, t, Listed \cup {"matview"}) :
            /\ HasRoom(cat, 1) /\ places(o, n, b) # {}
            /\ Free(cat, s, n)
            /\ \E names \in Injection(old(o, b), UNION {auto(i, n) : i \in old(o, b)}) :
                  /\ \A i \in old(o, b) :
                        names[i] \in auto(i, n) /\ Free(made(o, n), s, names[i])
                  /\ cat' = final(o, n, b, names)
  BY <1>1
<1>3. PICK names \in Injection(old(o, b), UNION {auto(i, n) : i \in old(o, b)}) :
            /\ \A i \in old(o, b) : Free(made(o, n), s, names[i])
            /\ cat' = final(o, n, b, names)
  BY <1>2
<1>4. o \in Live(cat)
  BY FoundTarget
<1> DEFINE d == made(o, n)
           S == old(o, b)
           w == place(o, n, b)
           p == copy(o, n)
<1>5. cat' = [d EXCEPT !.rel =
                 [x \in Live(d) \cup Range(w) |->
                     IF x \in Live(d) THEN d.rel[x]
                     ELSE [cat.rel[CHOOSE i \in S : w[i] = x] EXCEPT
                              !.schema = s, !.name = names[CHOOSE i \in S : w[i] = x],
                              !.of = p]]]
  BY <1>3, Zenon
<1>6. d = Add(cat, Relation("table", s, n, NoOid, cat.rel[o].cols, <<>>, "plain"))
  OBVIOUS
<1>7. p = CHOOSE x \in At(d, s, n) : TRUE
  OBVIOUS
<1>8. S \subseteq IndexesOf(cat, o)
  OBVIOUS
<1> HIDE DEF made
<1>9. w \in Injection(S, Oids \ Live(d))
  BY <1>2, Zenon
<1>10. names \in Injection(S, UNION {auto(i, n) : i \in S})
  OBVIOUS
<1>11. \A i \in S : Free(d, s, names[i])
  BY <1>3, Zenon
<1> HIDE DEF d, S, w, p
<1>12. PICK r : r = Relation("table", s, n, NoOid, cat.rel[o].cols, <<>>, "plain")
  OBVIOUS
<1>13. /\ IsRelation(r) /\ r.kind = "table" /\ r.schema = s /\ r.name = n
       /\ r.of = NoOid /\ r.cols = cat.rel[o].cols /\ r.role = "plain"
  <2>1. PICK cols : cols = cat.rel[o].cols
    OBVIOUS
  <2>2. DOMAIN cols \subseteq Columns /\ cols \in [DOMAIN cols -> Types]
    BY <2>1, <1>4, ColsOK
  <2>3. r = Relation("table", s, n, NoOid, cols, <<>>, "plain")
    BY <1>12, <2>1
  <2> QED
    BY <2>1, <2>2, <2>3, NewPlain, KindsAre
<1>14. Consistent(d) /\ \E x \in Oids \ Live(cat) : Added(cat, d, r, x)
  <2>1. HasOwner(cat, r)
    BY <1>13 DEF HasOwner, Tables
  <2> QED
    BY <2>1, <1>2, <1>6, <1>12, <1>13, AddPlain
<1>15. Added(cat, d, r, p) /\ p \in Oids \ Live(cat)
  <2>1. PICK x \in Oids \ Live(cat) : Added(cat, d, r, x)
    BY <1>14
  <2>2. At(d, s, n) = {x}
    BY <2>1, <1>2, <1>13 DEF At, Added, Live, Free
  <2> QED
    BY <2>1, <2>2, <1>7
<1>16. /\ w \in [S -> Oids \ Live(d)]
       /\ \A i, j \in S : names[i] = names[j] => i = j
  BY <1>9, <1>10 DEF Injection, IsInjective
<1> DEFINE moved(x) == [cat.rel[CHOOSE i \in S : w[i] = x] EXCEPT
                           !.schema = s, !.name = names[CHOOSE i \in S : w[i] = x],
                           !.of = p]
<1>17. PICK rel : rel = [x \in Live(d) \cup Range(w) |->
                          IF x \in Live(d) THEN d.rel[x] ELSE moved(x)]
  OBVIOUS
<1>18. cat' = [d EXCEPT !.rel = rel]
  BY <1>5, <1>17
<1> HIDE DEF moved
<1>19. cat' = [schemas |-> d.schemas, rel |-> rel, fks |-> d.fks,
               roles |-> d.roles, grants |-> d.grants]
  BY <1>14, <1>18 DEF Consistent, WellFormed
<1>20. PICK new : new = [x \in Range(w) |-> rel[x]]
  OBVIOUS
<1>21. DOMAIN new = Range(w) /\ \A x \in Range(w) : \E i \in S : w[i] = x
  BY <1>16, <1>20 DEF Range
<1>22. Range(w) \subseteq Oids \ Live(d)
  BY <1>16, <1>21
<1>23. ASSUME NEW x \in Range(w)
       PROVE  \E i \in S : /\ w[i] = x
                           /\ new[x] = [cat.rel[i] EXCEPT
                                           !.schema = s, !.name = names[i], !.of = p]
  <2>1. PICK i : i = CHOOSE j \in S : w[j] = x
    OBVIOUS
  <2>2. i \in S /\ w[i] = x
    BY <2>1, <1>21
  <2>3. new[x] = [cat.rel[i] EXCEPT !.schema = s, !.name = names[i], !.of = p]
    <3>1. new[x] = moved(x)
      BY <1>17, <1>20, <1>22
    <3> QED
      BY <2>1, <3>1, Zenon DEF moved
  <2> QED
    BY <2>2, <2>3
<1>24. d.rel[p] = r /\ p \in Live(d) /\ d.fks = cat.fks
  BY <1>15 DEF Added, Live
<1>25. p \in OfKind(d, Tables) /\ \A f \in d.fks : f.on # p
  BY <1>13, <1>15, <1>24 DEF OfKind, Tables, Consistent, KeysFit
<1>26. ASSUME NEW x \in Range(w)
       PROVE  /\ IsRelation(new[x]) /\ new[x].kind = "index"
              /\ new[x].of = p /\ new[x].schema = d.rel[p].schema
              /\ new[x].key # <<>> /\ Range(new[x].key) \subseteq DOMAIN d.rel[p].cols
              /\ Free(d, new[x].schema, new[x].name)
              /\ \E i \in S : w[i] = x /\ new[x].name = names[i]
  <2>1. PICK i \in S : /\ w[i] = x
                       /\ new[x] = [cat.rel[i] EXCEPT
                                       !.schema = s, !.name = names[i], !.of = p]
    BY <1>23
  <2>2. i \in IndexesOf(cat, o)
    BY <1>8
  <2>3. PICK old1, q, m : old1 = cat.rel[i] /\ q = new[x] /\ m = names[i]
    OBVIOUS
  <2>4. q = IndexCopy(old1, s, m, p)
    BY <2>1, <2>3 DEF IndexCopy
  <2>5. /\ IsRelation(q) /\ q.kind = "index" /\ q.schema = s /\ q.name = m /\ q.of = p
        /\ q.key # <<>> /\ Range(q.key) \subseteq DOMAIN cat.rel[o].cols
    <3>1. CopyFits(IndexCopy(cat.rel[i], s, m, p), s, m, p, cat.rel[o].cols)
      BY <2>2, CopiedIndex, Zenon
    <3> QED
      BY <3>1, <2>3, <2>4 DEF CopyFits
  <2>6. Free(d, s, m)
    BY <1>11, <2>1, <2>3
  <2> QED
    BY <2>1, <2>3, <2>5, <2>6, <1>13, <1>24
<1>27. WithIndexes(d, cat', p, new)
  <2>1. cat'.rel = rel
    BY <1>19
  <2>2. rel = [x \in Live(d) \cup Range(w) |-> IF x \in Live(d) THEN d.rel[x] ELSE new[x]]
    <3>1. DOMAIN rel = Live(d) \cup Range(w) /\ \A x \in Live(d) : rel[x] = d.rel[x]
      BY <1>17
    <3>2. rel = [x \in Live(d) \cup Range(w) |-> rel[x]]
      BY <1>17
    <3>3. \A x \in Range(w) : rel[x] = new[x] /\ x \notin Live(d)
      BY <1>20, <1>22
    <3> QED
      BY <3>1, <3>2, <3>3
  <2>3. \A x, y \in Range(w) : new[x].name = new[y].name => x = y
    BY <1>16, <1>26
  <2> QED
    BY <2>1, <2>2, <2>3, <1>19, <1>21, <1>22, <1>25, <1>26 DEF WithIndexes
<1>28. Consistent(cat')
  BY <1>14, <1>27, AddIndexes
<1>29. \A x \in Live(cat) : x \in Live(d) /\ d.rel[x] = cat.rel[x]
  BY <1>15 DEF Added, Live
<1>30. \A x \in Live(d) : x \in Live(cat') /\ cat'.rel[x] = d.rel[x]
  BY <1>17, <1>19 DEF Live
<1> QED
  BY <1>28, <1>29, <1>30 DEF Spares

\* A call of a tool that names a schema.
LEMMA QualifiedToolSound ==
    ASSUME Consistent(cat), NEW s, QualifiedTool(s)
    PROVE  Consistent(cat') /\ Spares(s)
BY AddColumnSound, DropColumnSound, RenameColumnSound, AlterColumnTypeSound,
   RenameToolsSound, RenameSchemaSound, AddForeignKeySound, DropConstraintSound,
   AddUniqueSound, CloneTableSound DEF QualifiedTool

-----------------------------------------------------------------------------
(***************************************************************************)
(* The tools for users and roles                                           *)
(***************************************************************************)

\* Only the roles and what is granted to them change.
RolesChanged(d) ==
    /\ d = [schemas |-> cat.schemas, rel |-> cat.rel, fks |-> cat.fks,
            roles |-> d.roles, grants |-> d.grants]
    /\ d.roles = [u \in DOMAIN d.roles |-> d.roles[u]]

LEMMA RolesChangedSound ==
    ASSUME Consistent(cat), RolesChanged(cat'), GrantsFit(cat')
    PROVE  Consistent(cat') /\ cat'.rel = cat.rel
<1>1. /\ cat'.schemas = cat.schemas /\ cat'.rel = cat.rel /\ cat'.fks = cat.fks
      /\ Live(cat') = Live(cat)
  BY DEF RolesChanged, Live
<1>2. KeysFit(cat') /\ ConstraintsApart(cat')
  BY <1>1 DEF Consistent, KeysFit, ConstraintsApart, IndexesOf, OfKind
<1>3. /\ cat' = [schemas |-> cat'.schemas, rel |-> cat.rel, fks |-> cat'.fks,
                 roles |-> cat'.roles, grants |-> cat'.grants]
      /\ cat'.roles = [u \in DOMAIN cat'.roles |-> cat'.roles[u]]
      /\ \A o \in Live(cat) : cat.rel[o].schema \in cat'.schemas
  BY <1>1 DEF RolesChanged, Consistent, WellFormed
<1> QED
  BY <1>1, <1>2, <1>3, SameRelationsSound

LEMMA MoreRolesSound ==
    ASSUME Consistent(cat), NEW u, NEW attributes, cat' = WithRole(u, attributes)
    PROVE  Consistent(cat') /\ cat'.rel = cat.rel
<1>1. PICK roles : roles = [v \in RolesOf(cat) \cup {u} |->
                              IF v = u THEN attributes ELSE cat.roles[v]]
  OBVIOUS
<1>2. cat' = [cat EXCEPT !.roles = roles]
  BY <1>1 DEF WithRole
<1>3. cat' = [schemas |-> cat.schemas, rel |-> cat.rel, fks |-> cat.fks,
              roles |-> roles, grants |-> cat.grants]
  BY <1>2 DEF Consistent, WellFormed
<1>4. cat'.roles = roles /\ cat'.grants = cat.grants /\ cat'.rel = cat.rel
  BY <1>3
<1>5. RolesChanged(cat')
  BY <1>1, <1>3, <1>4 DEF RolesChanged
<1>6. GrantsFit(cat')
  BY <1>1, <1>4 DEF Consistent, GrantsFit, RolesOf, Live
<1> QED
  BY <1>5, <1>6, RolesChangedSound

LEMMA SetAttributeSound ==
    ASSUME Consistent(cat), NEW u, NEW attribute, SetAttribute(u, attribute)
    PROVE  Consistent(cat') /\ cat'.rel = cat.rel
<1>1. PICK on \in BOOLEAN :
        cat' = [cat EXCEPT !.roles[u] =
                   IF on THEN @ \cup {attribute} ELSE @ \ {attribute}]
  BY DEF SetAttribute
<1>2. PICK a : a = IF on THEN cat.roles[u] \cup {attribute} ELSE cat.roles[u] \ {attribute}
  OBVIOUS
<1>3. cat' = [cat EXCEPT !.roles[u] = a]
  BY <1>1, <1>2
<1>4. cat' = [schemas |-> cat.schemas, rel |-> cat.rel, fks |-> cat.fks,
              roles |-> [cat.roles EXCEPT ![u] = a], grants |-> cat.grants]
  BY <1>3 DEF Consistent, WellFormed
<1>5. /\ cat'.roles = [cat.roles EXCEPT ![u] = a]
      /\ cat'.grants = cat.grants /\ cat'.rel = cat.rel
  BY <1>4
<1>6. RolesChanged(cat')
  BY <1>4, <1>5 DEF RolesChanged
<1>7. GrantsFit(cat')
  BY <1>5 DEF Consistent, GrantsFit, Live
<1> QED
  BY <1>6, <1>7, RolesChangedSound

\* The grants of a renamed role.
RoleRenamed(G, u, v) == {IF g.role = u THEN [g EXCEPT !.role = v] ELSE g : g \in G}

LEMMA RenameRoleSound ==
    ASSUME Consistent(cat), NEW u \in RolesOf(cat), RenameRole(u)
    PROVE  Consistent(cat') /\ cat'.rel = cat.rel
<1>1. PICK v \in RoleNames \ RolesOf(cat) :
        cat' = [cat EXCEPT
            !.roles = [w \in (RolesOf(cat) \ {u}) \cup {v} |->
                          IF w = v THEN @[u] ELSE @[w]],
            !.grants = {IF g.role = u THEN [g EXCEPT !.role = v] ELSE g : g \in @}]
  BY DEF RenameRole
<1>2. PICK roles : roles = [w \in (RolesOf(cat) \ {u}) \cup {v} |->
                               IF w = v THEN cat.roles[u] ELSE cat.roles[w]]
  OBVIOUS
<1>3. PICK G : G = {IF g.role = u THEN [g EXCEPT !.role = v] ELSE g : g \in cat.grants}
  OBVIOUS
<1>4. cat' = [cat EXCEPT !.roles = roles, !.grants = G]
  BY <1>1, <1>2, <1>3
<1>5. cat' = [schemas |-> cat.schemas, rel |-> cat.rel, fks |-> cat.fks,
              roles |-> roles, grants |-> G]
  BY <1>4 DEF Consistent, WellFormed
<1>6. cat'.roles = roles /\ cat'.grants = G /\ cat'.rel = cat.rel
  BY <1>5
<1>7. RolesChanged(cat')
  BY <1>2, <1>5, <1>6 DEF RolesChanged
<1>8. \A g \in G : \E h \in cat.grants :
        /\ g = [role |-> g.role, on |-> g.on] /\ g.on = h.on
        /\ g.role = IF h.role = u THEN v ELSE h.role
  BY <1>3 DEF Consistent, GrantsFit
<1>9. GrantsFit(cat')
  BY <1>2, <1>6, <1>8 DEF Consistent, GrantsFit, RolesOf, Live
<1> QED
  BY <1>7, <1>9, RolesChangedSound

LEMMA DropRoleSound ==
    ASSUME Consistent(cat), DropRole
    PROVE  Consistent(cat') /\ cat'.rel = cat.rel
<1>1. PICK u \in RolesOf(cat) \cap RoleNames :
        /\ \A g \in cat.grants : g.role # u
        /\ cat' = [cat EXCEPT !.roles = Restrict(@, RolesOf(cat) \ {u})]
  BY DEF DropRole
<1>2. PICK roles : roles = [w \in RolesOf(cat) \ {u} |-> cat.roles[w]]
  OBVIOUS
<1>3. cat' = [cat EXCEPT !.roles = roles]
  BY <1>1, <1>2 DEF Restrict
<1>4. cat' = [schemas |-> cat.schemas, rel |-> cat.rel, fks |-> cat.fks,
              roles |-> roles, grants |-> cat.grants]
  BY <1>3 DEF Consistent, WellFormed
<1>5. cat'.roles = roles /\ cat'.grants = cat.grants /\ cat'.rel = cat.rel
  BY <1>4
<1>6. RolesChanged(cat')
  BY <1>2, <1>4, <1>5 DEF RolesChanged
<1>7. GrantsFit(cat')
  BY <1>1, <1>2, <1>5 DEF Consistent, GrantsFit, RolesOf, Live
<1> QED
  BY <1>6, <1>7, RolesChangedSound

LEMMA GrantSound ==
    ASSUME Consistent(cat), NEW type \in ObjectTypes, NEW s, NEW n,
           GrantPrivileges(type, s, n)
    PROVE  Consistent(cat') /\ cat'.rel = cat.rel
<1>1. PICK u \in RolesOf(cat) :
        cat' = [cat EXCEPT !.grants = @ \cup
                   {[role |-> u, on |-> o] : o \in ObjectsOf(type, s, n)}]
  BY DEF GrantPrivileges
<1>2. PICK S : S = ObjectsOf(type, s, n)
  OBVIOUS
<1>3. PICK G : G = cat.grants \cup {[role |-> u, on |-> o] : o \in S}
  OBVIOUS
<1>4. cat' = [cat EXCEPT !.grants = G]
  BY <1>1, <1>2, <1>3
<1>5. cat' = [schemas |-> cat.schemas, rel |-> cat.rel, fks |-> cat.fks,
              roles |-> cat.roles, grants |-> G]
  BY <1>4 DEF Consistent, WellFormed
<1>6. cat'.roles = cat.roles /\ cat'.grants = G /\ cat'.rel = cat.rel
  BY <1>5
<1>7. RolesChanged(cat')
  BY <1>5, <1>6 DEF RolesChanged, Consistent, WellFormed
<1>8. S \subseteq Live(cat)
  BY <1>2 DEF ObjectsOf, ObjectTypes, Find, At, OfKind
<1>9. GrantsFit(cat')
  BY <1>3, <1>6, <1>8 DEF Consistent, GrantsFit, RolesOf, Live
<1> QED
  BY <1>7, <1>9, RolesChangedSound

LEMMA RevokeSound ==
    ASSUME Consistent(cat), NEW type, NEW s, NEW n, RevokePrivileges(type, s, n)
    PROVE  Consistent(cat') /\ cat'.rel = cat.rel
<1>1. PICK G : G \subseteq cat.grants /\ cat' = [cat EXCEPT !.grants = G]
  BY DEF RevokePrivileges
<1>2. cat' = [schemas |-> cat.schemas, rel |-> cat.rel, fks |-> cat.fks,
              roles |-> cat.roles, grants |-> G]
  BY <1>1 DEF Consistent, WellFormed
<1>3. cat'.roles = cat.roles /\ cat'.grants = G /\ cat'.rel = cat.rel
  BY <1>2
<1>4. RolesChanged(cat')
  BY <1>2, <1>3 DEF RolesChanged, Consistent, WellFormed
<1>5. GrantsFit(cat')
  BY <1>1, <1>3 DEF Consistent, GrantsFit, Live
<1> QED
  BY <1>4, <1>5, RolesChangedSound

LEMMA UserToolSound ==
    ASSUME Consistent(cat), UserTool
    PROVE  Consistent(cat') /\ cat'.rel = cat.rel
<1>1. CASE CreateUser \/ CreateRole
  BY <1>1, MoreRolesSound DEF CreateUser, CreateRole
<1>2. CASE AlterUser \/ AlterRole
  BY <1>2, SetAttributeSound, RenameRoleSound DEF AlterUser, AlterRole
<1> QED
  BY <1>1, <1>2, DropRoleSound DEF UserTool

\* The tools for privileges change no relation.
LEMMA PrivilegeToolSound ==
    ASSUME Consistent(cat), NEW s, PrivilegeTool(s)
    PROVE  Consistent(cat') /\ cat'.rel = cat.rel
BY GrantSound, RevokeSound DEF PrivilegeTool

-----------------------------------------------------------------------------
(***************************************************************************)
(* The requests                                                            *)
(***************************************************************************)

LEMMA IdleJobOK == JobOK(IdleJob)
BY DEF JobOK, JobShape, IdleJob, Job, PcsOf, None

LEMMA DisturbedOK ==
    ASSUME NEW j, JobOK(j)
    PROVE  JobOK(Disturbed(j))
<1>1. CASE j.pc \in Ended
  BY <1>1, IdleJobOK DEF Disturbed
<1>2. CASE j.pc \notin Ended
  BY <1>2 DEF Disturbed, JobOK, JobShape
<1> QED
  BY <1>1, <1>2

\* Where a request stands says whose request it is.
LEMMA PcTells ==
    ASSUME NEW j, JobOK(j)
    PROVE  /\ j.pc \in {"exists", "free", "create", "columns", "list", "define",
                        "build", "count"} => j.tool = "backup" /\ j.name \in Names
           /\ j.pc \in {"rename", "move"} => j.tool \in {"alter_view", "alter_index"}
           /\ j.pc \in {"read", "key"} => j.tool = "ddl"
           /\ j.pc \in Pcs
BY DEF JobOK, JobShape, PcsOf, None, Pcs

\* A request goes on: its tool, its name and its solitude stay what they are.
GoesOn(j, k) ==
    /\ k = [tool |-> j.tool, pc |-> k.pc, alone |-> j.alone, name |-> j.name,
            schema |-> j.schema, to |-> j.to, cols |-> k.cols, key |-> k.key,
            todo |-> k.todo, def |-> k.def, copied |-> k.copied, lost |-> k.lost]
    /\ k.pc \in PcsOf(j.tool)
    /\ k.copied \in Nat /\ k.lost \in Nat

LEMMA GoesOnOK ==
    ASSUME NEW j, JobOK(j), NEW k, GoesOn(j, k), \A d \in k.def : DefOK(d)
    PROVE  JobOK(k) /\ k.tool = j.tool /\ k.name = j.name /\ k.alone = j.alone
           /\ k.to = j.to /\ k.schema = j.schema
BY DEF JobOK, JobShape, GoesOn

\* What a step of a request leaves behind, seen from the request: k is what it
\* is doing next.
Moves(r, k) ==
    /\ Noticed(r, k) /\ JobOK(k)
    /\ Consistent(cat')
    /\ calls' \in 0 .. MaxCalls

LEMMA ReadsMoves ==
    ASSUME Typed, NEW r \in Requests, NEW k, Reads(r, k), JobOK(k)
    PROVE  Moves(r, k) /\ cat' = cat
<1>1. cat' = cat /\ calls' = calls /\ Noticed(r, k)
  BY DEF Reads
<1>2. Consistent(cat')
  BY <1>1 DEF Typed
<1> QED
  BY <1>1, <1>2 DEF Moves, Typed

LEMMA RefuseMoves ==
    ASSUME Typed, NEW r \in Requests, Refuse(r)
    PROVE  Moves(r, IdleJob) /\ cat' = cat
BY IdleJobOK, ReadsMoves DEF Refuse

LEMMA BeginMoves ==
    ASSUME Typed, NEW r \in Requests, NEW k, Begin(r, k), JobOK(k)
    PROVE  Moves(r, k) /\ cat' = cat
<1>1. cat' = cat /\ calls' \in 0 .. MaxCalls /\ Noticed(r, k)
  BY CallsAssumption DEF Begin, Call, Typed
<1>2. Consistent(cat')
  BY <1>1 DEF Typed
<1> QED
  BY <1>1, <1>2 DEF Moves

LEMMA MovesTyped ==
    ASSUME Typed, NEW r \in Requests, NEW k, Moves(r, k)
    PROVE  Typed'
<1>1. job' = [q \in Requests |-> IF q = r THEN k
                                 ELSE IF cat' = cat THEN job[q] ELSE Disturbed(job[q])]
  BY DEF Moves, Noticed
<1>2. ASSUME NEW q \in Requests PROVE JobOK(job'[q])
  <2>1. JobOK(job[q]) /\ JobOK(Disturbed(job[q]))
    BY DisturbedOK DEF Typed
  <2>2. job'[q] = k \/ job'[q] = job[q] \/ job'[q] = Disturbed(job[q])
    BY <1>1
  <2> QED
    BY <2>1, <2>2 DEF Moves
<1>3. job' = [q \in Requests |-> job'[q]]
  BY <1>1
<1> QED
  BY <1>2, <1>3 DEF Typed, Moves

LEMMA PcOnly ==
    ASSUME NEW j, JobOK(j), NEW pc \in PcsOf(j.tool), NEW k, k = [j EXCEPT !.pc = pc]
    PROVE  GoesOn(j, k) /\ JobOK(k) /\ k.pc = pc
<1>1. GoesOn(j, k) /\ k.pc = pc /\ k.def = j.def
  BY DEF GoesOn, JobOK, JobShape
<1>2. \A d \in k.def : DefOK(d)
  BY <1>1 DEF JobOK
<1> QED
  BY <1>1, <1>2, GoesOnOK

\* No step of a backup touches what is backed up.
SparesOriginal(r) ==
    Fold(job[r].name) = job[r].name /\ (\A d \in job[r].def : ~d.only) =>
        \A o \in Called(cat, job[r].name) :
            Fold(cat.rel[o].schema) = cat.rel[o].schema =>
                /\ o \in Live(cat')
                /\ cat'.rel[o] = cat.rel[o]
                /\ IndexesOf(cat', o) = IndexesOf(cat, o)

LEMMA StillSpares ==
    ASSUME cat' = cat, NEW r
    PROVE  SparesOriginal(r)
BY DEF SparesOriginal, Called

LEMMA BackupSteps == "backup" \in {None, "backup"} /\ PcsOf("backup") =
    {"exists", "free", "create", "columns", "list", "define", "build", "count", "answered"}
BY DEF PcsOf

LEMMA StartBackupMoves ==
    ASSUME Typed, NEW r \in Requests, StartBackup(r)
    PROVE  \E k : Moves(r, k) /\ k.tool = "backup" /\ k.pc = "exists" /\ cat' = cat
<1>1. PICK t \in Names : Begin(r, Job("backup", "exists", t))
  BY DEF StartBackup
<1>2. PICK k : k = Job("backup", "exists", t)
  OBVIOUS
<1>3. JobOK(k) /\ k.tool = "backup" /\ k.pc = "exists"
  BY <1>2 DEF Job, JobOK, JobShape, PcsOf
<1> QED
  BY <1>1, <1>2, <1>3, BeginMoves

\* The statements of a backup that only read.
LEMMA BackupReadsMoves ==
    ASSUME Typed, NEW r \in Requests,
           VerifyExists(r) \/ VerifyFree(r) \/ CountRows(r)
    PROVE  \E k : Moves(r, k) /\ (k = IdleJob \/ GoesOn(job[r], k)) /\ cat' = cat
<1>1. job[r].tool = "backup" /\ JobOK(job[r])
  BY PcTells DEF VerifyExists, VerifyFree, CountRows, Typed
<1>2. \/ \E pc \in {"free", "create", "answered"} : Reads(r, [job[r] EXCEPT !.pc = pc])
      \/ Refuse(r)
  BY DEF VerifyExists, VerifyFree, CountRows
<1>3. ASSUME NEW pc \in {"free", "create", "answered"},
             Reads(r, [job[r] EXCEPT !.pc = pc])
      PROVE  \E k : Moves(r, k) /\ GoesOn(job[r], k) /\ cat' = cat
  <2>1. PICK k : k = [job[r] EXCEPT !.pc = pc]
    OBVIOUS
  <2>2. pc \in PcsOf(job[r].tool)
    BY <1>1, BackupSteps
  <2>3. GoesOn(job[r], k) /\ JobOK(k)
    BY <1>1, <2>1, <2>2, PcOnly
  <2> QED
    BY <1>3, <2>1, <2>3, ReadsMoves
<1> QED
  BY <1>2, <1>3, RefuseMoves

LEMMA ReadColumnsMoves ==
    ASSUME Typed, NEW r \in Requests, ReadColumns(r) \/ ListToCopy(r)
    PROVE  \E k : Moves(r, k) /\ GoesOn(job[r], k) /\ cat' = cat
<1>1. job[r].tool = "backup" /\ JobOK(job[r])
  BY PcTells DEF ReadColumns, ListToCopy, Typed
<1>2. PICK k : /\ Reads(r, k)
               /\ \/ \E cols : k = [job[r] EXCEPT !.cols = cols, !.pc = "list"]
                  \/ \E todo : k = [job[r] EXCEPT !.todo = todo, !.pc = "define"]
  BY DEF ReadColumns, ListToCopy
<1>3. GoesOn(job[r], k) /\ k.def = job[r].def
  BY <1>1, <1>2, BackupSteps DEF GoesOn, JobOK, JobShape
<1>4. JobOK(k)
  BY <1>1, <1>3, GoesOnOK DEF JobOK
<1> QED
  BY <1>2, <1>3, <1>4, ReadsMoves

LEMMA ReadDefinitionMoves ==
    ASSUME Typed, NEW r \in Requests, ReadDefinition(r)
    PROVE  \E k : Moves(r, k) /\ (k = IdleJob \/ GoesOn(job[r], k)) /\ cat' = cat
<1>1. job[r].tool = "backup" /\ JobOK(job[r])
  BY PcTells DEF ReadDefinition, Typed
<1>2. CASE Reads(r, [job[r] EXCEPT !.pc = "count"])
  <2>1. PICK k : k = [job[r] EXCEPT !.pc = "count"]
    OBVIOUS
  <2>2. "count" \in PcsOf(job[r].tool)
    BY <1>1, BackupSteps
  <2>3. GoesOn(job[r], k) /\ JobOK(k)
    BY <1>1, <2>1, <2>2, PcOnly
  <2> QED
    BY <1>2, <2>1, <2>3, ReadsMoves
<1>3. ASSUME NEW i \in OfKind(cat, {"index"}), NEW n,
             Reads(r, [job[r] EXCEPT
                           !.pc = "build", !.todo = @ \ {n},
                           !.def = {Definition(i)}])
      PROVE  \E k : Moves(r, k) /\ GoesOn(job[r], k) /\ cat' = cat
  <2>1. PICK d : d = Definition(i)
    OBVIOUS
  <2>2. PICK k : k = [job[r] EXCEPT !.pc = "build", !.todo = @ \ {n}, !.def = {d}]
    OBVIOUS
  <2>3. GoesOn(job[r], k) /\ k.def = {d}
    BY <1>1, <2>2, BackupSteps DEF GoesOn, JobOK, JobShape
  <2>4. IsRelation(cat.rel[i]) /\ cat.rel[i].kind = "index" /\ IndexFits(cat, cat.rel[i])
    BY DEF Typed, OfKind, Consistent, WellFormed
  <2>5. DefOK(d)
    BY <2>1, <2>4 DEF Definition, DefOK, IndexFits
  <2>6. JobOK(k)
    BY <1>1, <2>3, <2>5, GoesOnOK
  <2> QED
    BY <1>3, <2>1, <2>2, <2>3, <2>6, ReadsMoves
<1>4. \/ Reads(r, [job[r] EXCEPT !.pc = "count"])
      \/ \E n \in job[r].todo : \E i \in Called(cat, n) \cap OfKind(cat, {"index"}) :
             Reads(r, [job[r] EXCEPT
                           !.pc = "build", !.todo = @ \ {n},
                           !.def = {Definition(i)}])
      \/ Refuse(r)
  BY DEF ReadDefinition
<1> QED
  BY <1>2, <1>3, <1>4, RefuseMoves

\* The backup is a new table x, with the columns of the relation o that bears the
\* name in public.
MadeBackup(r, k, q, o, x) ==
    /\ Moves(r, k) /\ GoesOn(job[r], k) /\ k = [job[r] EXCEPT !.pc = "columns"]
    /\ o \in FindHere(cat, job[r].name, Listed \cup {"matview", "sequence"})
    /\ x \in Oids \ Live(cat) /\ Added(cat, cat', q, x)
    /\ q.kind = "table" /\ q.schema = "public"
    /\ q.name = Fold(BackupName(job[r].name)) /\ q.of = NoOid
    /\ q.cols = cat.rel[o].cols

LEMMA CreateBackupMoves ==
    ASSUME Typed, NEW r \in Requests, CreateBackup(r)
    PROVE  \/ Refuse(r)
           \/ /\ Free(cat, "public", Fold(BackupName(job[r].name)))
              /\ \E k, q, o, x : MadeBackup(r, k, q, o, x)
<1>1. job[r].tool = "backup" /\ JobOK(job[r])
  BY PcTells DEF CreateBackup, Typed
<1>2. \/ Refuse(r)
      \/ /\ Free(cat, "public", Fold(BackupName(job[r].name)))
         /\ \E o \in FindHere(cat, job[r].name, Listed \cup {"matview", "sequence"}) :
               /\ HasRoom(cat, 1)
               /\ cat' = Add(cat, Relation("table", "public", Fold(BackupName(job[r].name)),
                                           NoOid, cat.rel[o].cols, <<>>, "plain"))
               /\ calls' = calls
               /\ Noticed(r, [job[r] EXCEPT !.pc = "columns"])
  BY DEF CreateBackup, Go
<1>3. SUFFICES ASSUME
         Free(cat, "public", Fold(BackupName(job[r].name))),
         NEW o \in FindHere(cat, job[r].name, Listed \cup {"matview", "sequence"}),
         HasRoom(cat, 1),
         cat' = Add(cat, Relation("table", "public", Fold(BackupName(job[r].name)),
                                  NoOid, cat.rel[o].cols, <<>>, "plain")),
         calls' = calls,
         Noticed(r, [job[r] EXCEPT !.pc = "columns"])
      PROVE  \E k, q, x : MadeBackup(r, k, q, o, x)
  BY <1>2
<1>4. PICK k : k = [job[r] EXCEPT !.pc = "columns"]
  OBVIOUS
<1>5. GoesOn(job[r], k) /\ JobOK(k)
  <2>1. "columns" \in PcsOf(job[r].tool)
    BY <1>1, BackupSteps
  <2> QED
    BY <1>1, <1>4, <2>1, PcOnly
<1>6. PICK n, cols : n = Fold(BackupName(job[r].name)) /\ cols = cat.rel[o].cols
  OBVIOUS
<1>7. PICK q : q = Relation("table", "public", n, NoOid, cols, <<>>, "plain")
  OBVIOUS
<1>8. /\ IsRelation(q) /\ q.kind = "table" /\ q.schema = "public" /\ q.name = n
      /\ q.of = NoOid /\ q.cols = cols /\ q.role = "plain"
  <2>1. o \in Live(cat)
    BY FoundHere
  <2>2. DOMAIN cols \subseteq Columns /\ cols \in [DOMAIN cols -> Types]
    BY <1>6, <2>1, ColsOK DEF Typed
  <2> QED
    BY <1>7, <2>2, NewPlain, KindsAre
<1>9. cat' = Add(cat, q)
  BY <1>3, <1>6, <1>7
<1>10. HasOwner(cat, q)
  BY <1>8 DEF HasOwner, Tables
<1>11. Consistent(cat)
  BY DEF Typed
<1>12. Consistent(cat') /\ \E x \in Oids \ Live(cat) : Added(cat, cat', q, x)
  BY <1>3, <1>6, <1>8, <1>9, <1>10, <1>11, AddPlain
<1>14. Moves(r, k)
  BY <1>3, <1>4, <1>5, <1>12 DEF Moves, Typed
<1> QED
  BY <1>4, <1>5, <1>6, <1>8, <1>12, <1>14 DEF MadeBackup

\* The index is made where the rewritten definition says, or given up.
LostOne(j) == [j EXCEPT !.pc = "define", !.def = {}, !.lost = @ + 1]
CopiedOne(j) == [j EXCEPT !.pc = "define", !.def = {}, !.copied = @ + 1]

MadeIndex(r, d, q, x) ==
    /\ x \in Oids \ Live(cat) /\ Added(cat, cat', q, x)
    /\ q.of \in Find(cat, NewSchema(d, job[r].name), NewTable(d, job[r].name),
                     Tables \cup {"matview"})
    /\ q.kind = "index" /\ q.key = d.index.key

LEMMA OneMore ==
    ASSUME NEW j, JobOK(j), j.tool = "backup", NEW k, k = LostOne(j) \/ k = CopiedOne(j)
    PROVE  GoesOn(j, k) /\ JobOK(k)
<1>1. PICK l \in Nat, c \in Nat : l = j.lost + 1 /\ c = j.copied + 1
  BY DEF JobOK, JobShape
<1>2. \/ k = [j EXCEPT !.pc = "define", !.def = {}, !.lost = l]
      \/ k = [j EXCEPT !.pc = "define", !.def = {}, !.copied = c]
  BY <1>1 DEF LostOne, CopiedOne
<1>3. GoesOn(j, k) /\ k.def = {}
  BY <1>2, BackupSteps DEF GoesOn, JobOK, JobShape
<1> QED
  BY <1>3, GoesOnOK

LEMMA BuildIndexMoves ==
    ASSUME Typed, NEW r \in Requests, BuildIndex(r)
    PROVE  \E d \in job[r].def : \E k :
              /\ Moves(r, k) /\ GoesOn(job[r], k)
              /\ \/ k = LostOne(job[r]) /\ cat' = cat
                 \/ k = CopiedOne(job[r]) /\ \E q, x : MadeIndex(r, d, q, x)
<1>1. job[r].tool = "backup" /\ JobOK(job[r]) /\ Consistent(cat)
  BY PcTells DEF BuildIndex, Typed
<1> DEFINE schema(d) == NewSchema(d, job[r].name)
           role(i) == IF i.role = "plain" THEN "plain" ELSE "unique"
           onto(d) == {o \in Find(cat, schema(d), NewTable(d, job[r].name),
                                  Tables \cup {"matview"}) :
                          Indexable(cat, o, d.index.key, role(d.index))}
           new(d, n, o) == [d.index EXCEPT !.schema = schema(d), !.name = n, !.of = o,
                                           !.role = role(d.index)]
<1>2. PICK d \in job[r].def :
        /\ calls' = calls
        /\ \/ cat' = cat /\ Noticed(r, LostOne(job[r]))
           \/ \E n : \E o \in onto(d) :
                /\ Free(cat, schema(d), n)
                /\ HasRoom(cat, 1)
                /\ cat' = Add(cat, new(d, n, o))
                /\ Noticed(r, CopiedOne(job[r]))
  BY Zenon DEF BuildIndex, LostOne, CopiedOne
<1>3. PICK i : i = d.index
  OBVIOUS
<1>4. IsRelation(i) /\ i.kind = "index" /\ i.key # <<>>
  BY <1>1, <1>3 DEF JobOK, DefOK
<1>5. PICK kl, kc : kl = LostOne(job[r]) /\ kc = CopiedOne(job[r])
  OBVIOUS
<1>6. GoesOn(job[r], kl) /\ JobOK(kl) /\ GoesOn(job[r], kc) /\ JobOK(kc)
  BY <1>1, <1>5, OneMore
<1>7. CASE cat' = cat /\ Noticed(r, LostOne(job[r]))
  <2>1. Reads(r, kl)
    BY <1>2, <1>5, <1>7 DEF Reads
  <2>2. Moves(r, kl)
    BY <2>1, <1>6, ReadsMoves
  <2> QED
    BY <2>2, <1>5, <1>6, <1>7
<1>8. ASSUME NEW n, NEW o \in onto(d),
             Free(cat, schema(d), n), HasRoom(cat, 1),
             cat' = Add(cat, new(d, n, o)), Noticed(r, CopiedOne(job[r]))
      PROVE  Moves(r, kc) /\ \E q, x : MadeIndex(r, d, q, x)
  <2>1. PICK u, s : u = role(i) /\ s = schema(d)
    OBVIOUS
  <2>2. PICK q : q = [i EXCEPT !.schema = s, !.name = n, !.of = o, !.role = u]
    OBVIOUS
  <2>3. cat' = Add(cat, q)
    BY <1>3, <1>8, <2>1, <2>2
  <2>4. i = [kind |-> i.kind, schema |-> i.schema, name |-> i.name, of |-> i.of,
             cols |-> i.cols, key |-> i.key, role |-> i.role]
    BY <1>4, RelFields
  <2>5. q = [kind |-> i.kind, schema |-> s, name |-> n, of |-> o,
             cols |-> i.cols, key |-> i.key, role |-> u]
    BY <2>2, <2>4
  <2>6. /\ q.kind = "index" /\ q.schema = s /\ q.name = n /\ q.of = o
        /\ q.cols = i.cols /\ q.key = i.key /\ q.role = u
    BY <2>5, <1>4
  <2>7. u \in {"plain", "unique"} /\ u \in Roles
    BY <2>1 DEF Roles
  <2>8. IsRelation(q)
    BY <1>4, <2>5, <2>6, <2>7 DEF IsRelation, Relation
  <2>9. /\ o \in OfKind(cat, Tables \cup {"matview"}) /\ cat.rel[o].schema = s
        /\ Range(i.key) \subseteq DOMAIN cat.rel[o].cols
    BY <1>3, <2>1 DEF Find, At, Indexable
  <2>10. q.role \notin {"constraint", "primary"}
    BY <2>6, <2>7
  <2>11. Free(cat, q.schema, q.name)
    BY <1>8, <2>1, <2>6
  <2>12. /\ q.of = o /\ q.schema = cat.rel[o].schema /\ q.key # <<>>
         /\ Range(q.key) \subseteq DOMAIN cat.rel[o].cols
    BY <1>4, <2>6, <2>9
  <2>13. Consistent(cat') /\ \E x \in Oids \ Live(cat) : Added(cat, cat', q, x)
    <3>1. q.kind = "index" /\ o \in OfKind(cat, Tables \cup {"matview"})
      BY <2>6, <2>9
    <3>2. Consistent(cat) /\ HasRoom(cat, 1)
      BY <1>1, <1>8
    <3> QED
      BY <3>1, <3>2, <2>3, <2>8, <2>10, <2>11, <2>12, AddIndex
  <2>15. Moves(r, kc)
    BY <1>2, <1>5, <1>6, <1>8, <2>13 DEF Moves, Typed
  <2>16. q.of \in Find(cat, NewSchema(d, job[r].name), NewTable(d, job[r].name),
                      Tables \cup {"matview"})
    BY <2>6
  <2> QED
    BY <1>3, <2>6, <2>13, <2>15, <2>16 DEF MadeIndex
<1> HIDE DEF schema, role, onto, new
<1> QED
  BY <1>2, <1>5, <1>6, <1>7, <1>8

LEMMA AlterSteps ==
    /\ PcsOf("alter_view") = {"rename", "move", "answered"}
    /\ PcsOf("alter_index") = {"rename", "move", "answered"}
    /\ PcsOf("ddl") = {"read", "key", "answered"}
BY DEF PcsOf

LEMMA StartAlterMoves ==
    ASSUME Typed, NEW r \in Requests, StartAlter(r)
    PROVE  \E k : /\ Moves(r, k) /\ cat' = cat
                  /\ k.tool \in {"alter_view", "alter_index"}
                  /\ k.pc = IF k.to # None THEN "rename" ELSE "move"
<1>1. PICK tool \in {"alter_view", "alter_index"}, v \in Names,
          to \in Names \cup {None}, s \in cat.schemas \cup {None} :
        Begin(r, [Job(tool, IF to # None THEN "rename" ELSE "move", v)
                        EXCEPT !.to = to, !.schema = s])
  BY DEF StartAlter
<1>2. PICK pc \in {"rename", "move"} : pc = IF to # None THEN "rename" ELSE "move"
  OBVIOUS
<1>3. PICK k : k = [Job(tool, pc, v) EXCEPT !.to = to, !.schema = s]
  OBVIOUS
<1>4. k = [tool |-> tool, pc |-> pc, alone |-> TRUE, name |-> v, schema |-> s,
           to |-> to, cols |-> {}, key |-> {}, todo |-> {}, def |-> {},
           copied |-> 0, lost |-> 0]
  BY <1>3 DEF Job
<1>5. k.tool = tool /\ k.pc = pc /\ k.to = to
  BY <1>4
<1>6. pc \in PcsOf(tool)
  BY AlterSteps
<1>7. JobOK(k)
  BY <1>4, <1>5, <1>6 DEF JobOK, JobShape
<1>8. Begin(r, k)
  BY <1>1, <1>2, <1>3
<1>9. Moves(r, k) /\ cat' = cat
  BY <1>7, <1>8, BeginMoves
<1> QED
  BY <1>2, <1>5, <1>9

\* What the first statement of alter_view() and alter_index() goes by.
Found(r) == FindHere(cat, job[r].name,
                     IF job[r].tool = "alter_view" THEN {"view"} ELSE Kinds)

LEMMA RenameFirstMoves ==
    ASSUME Typed, NEW r \in Requests, RenameFirst(r)
    PROVE  \/ Refuse(r)
           \/ \E k, o :
                /\ Moves(r, k) /\ GoesOn(job[r], k) /\ o \in Found(r)
                /\ k.pc = IF job[r].schema = None THEN "answered" ELSE "move"
                /\ Free(cat, "public", Fold(job[r].to))
                /\ Put(cat, cat', o, [cat.rel[o] EXCEPT !.name = Fold(job[r].to)])
<1>1. job[r].tool \in {"alter_view", "alter_index"} /\ JobOK(job[r]) /\ Consistent(cat)
  BY PcTells DEF RenameFirst, Typed
<1>2. \/ Refuse(r)
      \/ \E o \in Found(r) :
            /\ Rename(o, Fold(job[r].to))
            /\ calls' = calls
            /\ Go(r, IF job[r].schema = None THEN "answered" ELSE "move")
  BY DEF RenameFirst, Found
<1>3. ASSUME NEW o \in Found(r), Rename(o, Fold(job[r].to)), calls' = calls,
             Go(r, IF job[r].schema = None THEN "answered" ELSE "move")
      PROVE  \E k :
                /\ Moves(r, k) /\ GoesOn(job[r], k)
                /\ k.pc = IF job[r].schema = None THEN "answered" ELSE "move"
                /\ Free(cat, "public", Fold(job[r].to))
                /\ Put(cat, cat', o, [cat.rel[o] EXCEPT !.name = Fold(job[r].to)])
  <2>1. PICK pc \in {"answered", "move"} :
          pc = IF job[r].schema = None THEN "answered" ELSE "move"
    OBVIOUS
  <2>2. PICK k : k = [job[r] EXCEPT !.pc = pc]
    OBVIOUS
  <2>3. GoesOn(job[r], k) /\ JobOK(k) /\ k.pc = pc
    <3>1. pc \in PcsOf(job[r].tool)
      BY <1>1, AlterSteps
    <3> QED
      BY <3>1, <1>1, <2>2, PcOnly
  <2>4. o \in Live(cat) /\ cat.rel[o].schema = "public"
    BY FoundHere DEF Found
  <2>5. /\ Consistent(cat')
        /\ Put(cat, cat', o, [cat.rel[o] EXCEPT !.name = Fold(job[r].to)])
    BY <1>1, <1>3, <2>4, RenameSound
  <2>6. Free(cat, "public", Fold(job[r].to))
    BY <1>3, <2>4 DEF Rename, Renamable
  <2>7. Noticed(r, k)
    BY <1>3, <2>1, <2>2 DEF Go
  <2>8. Moves(r, k)
    BY <1>3, <2>3, <2>5, <2>7 DEF Moves, Typed
  <2> QED
    BY <2>1, <2>3, <2>5, <2>6, <2>8
<1> QED
  BY <1>2, <1>3

LEMMA MoveSecondMoves ==
    ASSUME Typed, NEW r \in Requests, MoveSecond(r)
    PROVE  \/ Refuse(r)
           \/ \E k : /\ Moves(r, k) /\ GoesOn(job[r], k)
                     /\ job[r].tool = "alter_view" /\ MovedView(r) # {}
<1>1. job[r].tool \in {"alter_view", "alter_index"} /\ JobOK(job[r]) /\ Consistent(cat)
  BY PcTells DEF MoveSecond, Typed
<1>2. SUFFICES ASSUME ~Refuse(r)
      PROVE  \E k : /\ Moves(r, k) /\ GoesOn(job[r], k)
                    /\ job[r].tool = "alter_view" /\ MovedView(r) # {}
  OBVIOUS
<1>3. /\ job[r].tool = "alter_view"
      /\ \E o \in MovedView(r) :
            \/ Fold(job[r].schema) = "public"
            \/ Free(cat, Fold(job[r].schema), cat.rel[o].name)
      /\ \E o \in MovedView(r) :
            /\ cat' = [cat EXCEPT !.rel[o].schema = Fold(job[r].schema)]
            /\ calls' = calls
            /\ Go(r, "answered")
  BY <1>2 DEF MoveSecond
<1>4. PICK o \in MovedView(r) :
            \/ Fold(job[r].schema) = "public"
            \/ Free(cat, Fold(job[r].schema), cat.rel[o].name)
  BY <1>3
<1>5. PICK v \in MovedView(r) :
            /\ cat' = [cat EXCEPT !.rel[v].schema = Fold(job[r].schema)]
            /\ calls' = calls
            /\ Go(r, "answered")
  BY <1>3
<1>6. /\ o \in Live(cat) /\ cat.rel[o].kind = "view" /\ cat.rel[o].schema = "public"
      /\ v = o
  BY <1>1, FoundHere DEF MovedView, Consistent, NamesUnique
<1>7. PICK s, q : s = Fold(job[r].schema) /\ q = [cat.rel[o] EXCEPT !.schema = s]
  OBVIOUS
<1>8. cat' = [cat EXCEPT !.rel[o] = q]
  BY <1>5, <1>6, <1>7
<1>9. Put(cat, cat', o, q) /\ cat'.fks = cat.fks
  BY <1>1, <1>6, <1>8 DEF Put, Live, Consistent, WellFormed
<1>10. q = [cat.rel[o] EXCEPT !.schema = s, !.name = cat.rel[o].name]
  <2>1. PICK p : p = cat.rel[o]
    OBVIOUS
  <2>2. IsRelation(p)
    BY <1>1, <1>6, <2>1 DEF Consistent, WellFormed
  <2> QED
    BY <1>7, <2>1, <2>2, RelFields
<1>11. Consistent(cat')
  <2>1. s \in cat.schemas
    BY <1>1, <1>4, <1>6, <1>7 DEF Free, Consistent, WellFormed
  <2>2. PICK n : n = cat.rel[o].name
    OBVIOUS
  <2>3. (s = cat.rel[o].schema /\ n = cat.rel[o].name) \/ Free(cat, s, n)
    BY <1>4, <1>6, <1>7, <2>2
  <2>4. cat.rel[o].role \notin {"constraint", "primary"}
    BY <1>1, <1>6 DEF Consistent, WellFormed, IsRelation
  <2>5. q = [cat.rel[o] EXCEPT !.schema = s, !.name = n]
    BY <1>10, <2>2
  <2> QED
    BY <2>1, <2>3, <2>4, <2>5, <1>1, <1>6, <1>9, NameSound
<1>12. PICK k : k = [job[r] EXCEPT !.pc = "answered"]
  OBVIOUS
<1>13. GoesOn(job[r], k) /\ JobOK(k)
  <2>1. "answered" \in PcsOf(job[r].tool)
    BY <1>1, AlterSteps
  <2> QED
    BY <2>1, <1>1, <1>12, PcOnly
<1>14. Noticed(r, k)
  BY <1>5, <1>12 DEF Go
<1>16. Moves(r, k)
  BY <1>5, <1>11, <1>13, <1>14 DEF Moves, Typed
<1> QED
  BY <1>3, <1>13, <1>16

LEMMA DdlMoves ==
    ASSUME Typed, NEW r \in Requests, StartDdl(r) \/ ReadTable(r) \/ ReadKey(r)
    PROVE  \E k :
             /\ Moves(r, k) /\ cat' = cat
             /\ \/ k = IdleJob
                \/ k.tool = "ddl" /\ k.pc = "read"
                \/ /\ job[r].tool = "ddl" /\ GoesOn(job[r], k) /\ k.pc = "key"
                   /\ k.cols = DdlColumns(cat, job[r].schema, job[r].name)
                \/ /\ job[r].tool = "ddl" /\ GoesOn(job[r], k) /\ k.pc = "answered"
                   /\ job[r].pc = "key" /\ k.cols = job[r].cols
                   /\ k.key = DdlKey(cat, job[r].schema, job[r].name)
<1>1. CASE StartDdl(r)
  <2>1. PICK s \in cat.schemas, t \in Names :
          Begin(r, [Job("ddl", "read", t) EXCEPT !.schema = s])
    BY <1>1 DEF StartDdl
  <2>2. PICK k : k = [Job("ddl", "read", t) EXCEPT !.schema = s]
    OBVIOUS
  <2>3. k = [tool |-> "ddl", pc |-> "read", alone |-> TRUE, name |-> t, schema |-> s,
             to |-> None, cols |-> {}, key |-> {}, todo |-> {}, def |-> {},
             copied |-> 0, lost |-> 0]
    BY <2>2 DEF Job
  <2>4. JobOK(k) /\ k.tool = "ddl" /\ k.pc = "read"
    BY <2>3, AlterSteps DEF JobOK, JobShape
  <2> QED
    BY <2>1, <2>2, <2>4, BeginMoves
<1>2. CASE ReadTable(r)
  <2>1. job[r].tool = "ddl" /\ JobOK(job[r])
    BY <1>2, PcTells DEF ReadTable, Typed
  <2>2. PICK cols : cols = DdlColumns(cat, job[r].schema, job[r].name)
    OBVIOUS
  <2>3. Refuse(r) \/ Reads(r, [job[r] EXCEPT !.cols = cols, !.pc = "key"])
    BY <1>2, <2>2 DEF ReadTable
  <2>4. PICK k : k = [job[r] EXCEPT !.cols = cols, !.pc = "key"]
    OBVIOUS
  <2>5. GoesOn(job[r], k) /\ k.def = job[r].def /\ k.pc = "key" /\ k.cols = cols
    BY <2>1, <2>4, AlterSteps DEF GoesOn, JobOK, JobShape
  <2>6. JobOK(k)
    BY <2>1, <2>5, GoesOnOK DEF JobOK
  <2>7. CASE Refuse(r)
    BY <2>7, RefuseMoves
  <2>8. CASE Reads(r, [job[r] EXCEPT !.cols = cols, !.pc = "key"])
    <3>1. Moves(r, k) /\ cat' = cat
      BY <2>4, <2>6, <2>8, ReadsMoves
    <3> QED
      BY <3>1, <2>1, <2>2, <2>5
  <2> QED
    BY <2>3, <2>7, <2>8
<1>3. CASE ReadKey(r)
  <2>1. job[r].tool = "ddl" /\ JobOK(job[r]) /\ job[r].pc = "key"
    BY <1>3, PcTells DEF ReadKey, Typed
  <2>2. PICK key : key = DdlKey(cat, job[r].schema, job[r].name)
    OBVIOUS
  <2>3. PICK k : k = [job[r] EXCEPT !.key = key, !.pc = "answered"]
    OBVIOUS
  <2>4. Reads(r, k)
    BY <1>3, <2>2, <2>3 DEF ReadKey
  <2>5. /\ GoesOn(job[r], k) /\ k.def = job[r].def /\ k.pc = "answered"
        /\ k.key = key /\ k.cols = job[r].cols
    BY <2>1, <2>3, AlterSteps DEF GoesOn, JobOK, JobShape
  <2>6. JobOK(k)
    BY <2>1, <2>5, GoesOnOK DEF JobOK
  <2>7. Moves(r, k) /\ cat' = cat
    BY <2>4, <2>6, ReadsMoves
  <2> QED
    BY <2>1, <2>2, <2>5, <2>7
<1> QED
  BY <1>1, <1>2, <1>3

LEMMA BackupMoves ==
    ASSUME Typed, NEW r \in Requests, Backup(r)
    PROVE  \E k : Moves(r, k)
BY StartBackupMoves, BackupReadsMoves, CreateBackupMoves, RefuseMoves, ReadColumnsMoves,
   ReadDefinitionMoves, BuildIndexMoves DEF Backup, MadeBackup

LEMMA FailureMoves ==
    ASSUME Typed, NEW r \in Requests, StatementFails(r)
    PROVE  \E k : Moves(r, k) /\ (k = IdleJob \/ GoesOn(job[r], k)) /\ cat' = cat
<1>1. CASE job[r].pc = "build"
  <2>1. job[r].tool = "backup" /\ JobOK(job[r])
    BY <1>1, PcTells DEF Typed
  <2>2. PICK k : k = LostOne(job[r])
    OBVIOUS
  <2>3. Reads(r, k)
    BY <1>1, <2>2 DEF StatementFails, LostOne
  <2> QED
    BY <2>1, <2>2, <2>3, OneMore, ReadsMoves
<1>2. CASE job[r].pc # "build"
  BY <1>2, RefuseMoves DEF StatementFails
<1> QED
  BY <1>1, <1>2

LEMMA OwnMoves ==
    ASSUME Typed, NEW r \in Requests,
           Backup(r) \/ Alter(r) \/ GenerateDdl(r) \/ StatementFails(r)
    PROVE  \E k : Moves(r, k)
BY BackupMoves, StartAlterMoves, RenameFirstMoves, MoveSecondMoves, RefuseMoves, DdlMoves,
   FailureMoves DEF Alter, GenerateDdl

\* A call of another tool.
LEMMA SingleStatementSound ==
    ASSUME Typed, SingleStatement
    PROVE  /\ Consistent(cat') /\ (asked' # None => Spares(asked'))
           /\ calls' \in 0 .. MaxCalls
           /\ job' = [q \in Requests |-> Disturbed(job[q])]
<1>1. Consistent(cat) /\ calls' \in 0 .. MaxCalls
  BY CallsAssumption DEF Typed, SingleStatement, Call
<1>2. CASE (BareTool \/ UserTool) /\ asked' = None
  BY <1>1, <1>2, BareToolSound, UserToolSound DEF SingleStatement
<1>3. CASE \E s \in cat.schemas : QualifiedTool(s) /\ asked' = s
  BY <1>1, <1>3, QualifiedToolSound DEF SingleStatement
<1>4. CASE \E s \in Names \cup cat.schemas : PrivilegeTool(s) /\ asked' = s
  <2>1. Consistent(cat') /\ cat'.rel = cat.rel
    BY <1>1, <1>4, PrivilegeToolSound
  <2>2. \A s : Spares(s)
    BY <2>1 DEF Spares, Live
  <2> QED
    BY <1>1, <2>1, <2>2 DEF SingleStatement
<1> QED
  BY <1>2, <1>3, <1>4 DEF SingleStatement

LEMMA SingleStatementTyped ==
    ASSUME Typed, SingleStatement
    PROVE  Typed'
<1>1. job' = [q \in Requests |-> Disturbed(job[q])] /\ Consistent(cat')
      /\ calls' \in 0 .. MaxCalls
  BY SingleStatementSound
<1>2. \A q \in Requests : JobOK(job'[q])
  BY <1>1, DisturbedOK DEF Typed
<1> QED
  BY <1>1, <1>2 DEF Typed

LEMMA GetObjectDetailsTyped ==
    ASSUME Typed, GetObjectDetails
    PROVE  Typed'
<1>1. job' = [q \in Requests |-> IdleJob] /\ cat' = cat /\ calls' \in 0 .. MaxCalls
  BY CallsAssumption DEF GetObjectDetails, Call, Typed
<1>2. \A q \in Requests : JobOK(job'[q])
  BY <1>1, IdleJobOK
<1> QED
  BY <1>1, <1>2 DEF Typed

LEMMA InitTyped == Init => Typed
<1> SUFFICES ASSUME Init PROVE Typed
  OBVIOUS
<1>1. job = [r \in Requests |-> IdleJob] /\ cat \in Starts /\ calls = 0
  BY DEF Init
<1>2. \A r \in Requests : JobOK(job[r])
  BY <1>1, IdleJobOK
<1> QED
  BY <1>1, <1>2, StartsAssumption, CallsAssumption DEF Typed

LEMMA StepTyped == Typed /\ [Next]_vars => Typed'
<1> SUFFICES ASSUME Typed, [Next]_vars PROVE Typed'
  OBVIOUS
<1>1. ASSUME NEW r \in Requests,
             Backup(r) \/ Alter(r) \/ GenerateDdl(r) \/ StatementFails(r)
      PROVE  Typed'
  BY <1>1, OwnMoves, MovesTyped
<1>2. CASE SingleStatement
  BY <1>2, SingleStatementTyped
<1>3. CASE GetObjectDetails
  BY <1>3, GetObjectDetailsTyped
<1>4. CASE UNCHANGED vars
  BY <1>4 DEF vars, Typed
<1> QED
  BY <1>1, <1>2, <1>3, <1>4 DEF Next

\* In every reachable state the catalogue is consistent, and a request stands
\* where its tool can be.
THEOREM AlwaysTyped == Spec => []Typed
BY InitTyped, StepTyped, PTL DEF Spec

-----------------------------------------------------------------------------
(***************************************************************************)
(* Theorems                                                                *)
(***************************************************************************)

\* Whatever the tools do, in whatever order, the catalogue stays one: names are
\* unique within a schema, and everything is on something that exists.
THEOREM TypeCorrect == Spec => []TypeOK
<1>1. Typed => TypeOK
  BY PcTells DEF Typed, TypeOK, JobOK, JobShape
<1> QED
  BY <1>1, AlwaysTyped, PTL

\* A tool that was told a schema leaves the relations of the others alone.
THEOREM SchemaBoundariesHold == Spec => OnlyTheSchemaAsked
<1> DEFINE Kept == asked' # None => Spares(asked')
<1>1. Typed /\ [Next]_vars => [Kept]_vars
  <2> SUFFICES ASSUME Typed, Next PROVE Kept
    OBVIOUS
  <2>1. ASSUME NEW r \in Requests,
               Backup(r) \/ Alter(r) \/ GenerateDdl(r) \/ StatementFails(r)
        PROVE  Kept
    <3>1. asked' = None
      BY <2>1, OwnMoves DEF Moves, Noticed
    <3> QED
      BY <3>1
  <2>2. CASE SingleStatement
    BY <2>2, SingleStatementSound
  <2>3. CASE GetObjectDetails
    BY <2>3 DEF GetObjectDetails
  <2> QED
    BY <2>1, <2>2, <2>3 DEF Next
<1>2. Spec => [][Kept]_vars
  BY <1>1, AlwaysTyped, PTL DEF Spec
<1> QED
  BY <1>2 DEF OnlyTheSchemaAsked, Spares

\* A new relation, unless it is an index of o, is nothing to o.
LEMMA NewSparesOld ==
    ASSUME NEW c, NEW d, NEW q, NEW x \in Oids \ Live(c), Added(c, d, q, x),
           NEW o \in Live(c), ~(q.kind = "index" /\ q.of = o)
    PROVE  o \in Live(d) /\ d.rel[o] = c.rel[o] /\ IndexesOf(d, o) = IndexesOf(c, o)
<1>1. /\ Live(d) = Live(c) \cup {x} /\ d.rel[x] = q
      /\ \A y \in Live(c) : d.rel[y] = c.rel[y]
  BY DEF Added, Live
<1>2. x \notin IndexesOf(d, o)
  BY <1>1 DEF IndexesOf, OfKind
<1>3. \A y : y \in IndexesOf(d, o) <=> y \in IndexesOf(c, o)
  BY <1>1, <1>2 DEF IndexesOf, OfKind
<1> QED
  BY <1>1, <1>3

\* The rewritten definition of an index is not about a table of the name that
\* is backed up, unless that is in a schema whose name needs quotes.
LEMMA OtherName ==
    ASSUME NEW t \in Names, Fold(t) = t, NEW d, ~d.only,
           Fold(NewSchema(d, t)) = NewSchema(d, t)
    PROVE  NewTable(d, t) # t
<1>1. t \in Beginning(t) /\ \A n \in Beginning(t) : BackupName(n) # t
  BY NamingAssumption
<1>2. Replaced(d.on, t) # t
  BY <1>1 DEF Replaced
<1>3. Fold(d.index.schema) = d.index.schema
  BY DEF NewSchema, Replaced
<1> QED
  BY <1>2, <1>3 DEF NewTable

\* A backup never touches what it backs up.
THEOREM OriginalIsSpared == Spec => BackupSparesOriginal
<1> DEFINE Spared == \A r \in Requests : BackupAtWork(r) => SparesOriginal(r)
<1>1. Typed /\ [Next]_vars => [Spared]_vars
  <2> SUFFICES ASSUME Typed, Next, NEW r \in Requests, BackupAtWork(r),
                      cat' # cat
               PROVE  SparesOriginal(r)
    BY StillSpares
  <2>1. job[r].tool = "backup" /\ job[r].pc \notin Ended /\ job'[r].pc # job[r].pc
    BY DEF BackupAtWork
  <2>2. Disturbed(job[r]).pc = job[r].pc
    <3>1. JobOK(job[r])
      BY DEF Typed
    <3> QED
      BY <3>1, <2>1 DEF Disturbed, JobOK, JobShape
  <2>3. ~SingleStatement
    BY <2>1, <2>2, SingleStatementSound
  <2>4. ~GetObjectDetails
    BY DEF GetObjectDetails
  <2>5. PICK q \in Requests : Backup(q) \/ Alter(q) \/ GenerateDdl(q) \/ StatementFails(q)
    BY <2>3, <2>4 DEF Next
  <2>6. q = r
    <3>1. PICK k : Moves(q, k)
      BY <2>5, OwnMoves
    <3> QED
      BY <3>1, <2>1, <2>2 DEF Moves, Noticed
  <2>7. job[r].pc \notin {"rename", "move"}
    BY <2>1, PcTells DEF Typed
  <2>8. CreateBackup(r) \/ BuildIndex(r)
    BY <2>5, <2>6, <2>7, StartBackupMoves, BackupReadsMoves, ReadColumnsMoves,
       ReadDefinitionMoves, DdlMoves, FailureMoves, StartAlterMoves
       DEF Backup, Alter, GenerateDdl, RenameFirst, MoveSecond
  <2>9. ~Refuse(r)
    BY DEF Refuse, Reads
  <2>10. CASE CreateBackup(r)
    <3>1. PICK k, n, o, x : MadeBackup(r, k, n, o, x)
      BY <2>9, <2>10, CreateBackupMoves
    <3>2. /\ x \in Oids \ Live(cat) /\ Added(cat, cat', n, x) /\ n.kind # "index"
          /\ Called(cat, job[r].name) \subseteq Live(cat)
      BY <3>1 DEF MadeBackup, Called
    <3> QED
      BY <3>2, NewSparesOld DEF SparesOriginal
  <2>11. CASE BuildIndex(r)
    <3>1. PICK d \in job[r].def : \E n, x : MadeIndex(r, d, n, x)
      BY <2>11, BuildIndexMoves
    <3>2. PICK n, x : MadeIndex(r, d, n, x)
      BY <3>1
    <3>3. /\ x \in Oids \ Live(cat) /\ Added(cat, cat', n, x)
          /\ n.of \in Live(cat) /\ cat.rel[n.of].schema = NewSchema(d, job[r].name)
          /\ cat.rel[n.of].name = NewTable(d, job[r].name)
      BY <3>2 DEF MadeIndex, Find, At, OfKind
    <3>4. job[r].name \in Names
      BY <2>1 DEF Typed, JobOK, JobShape
    <3>5. ASSUME NEW o \in Called(cat, job[r].name),
                 Fold(job[r].name) = job[r].name, \A e \in job[r].def : ~e.only,
                 Fold(cat.rel[o].schema) = cat.rel[o].schema
          PROVE  n.of # o
      <4>1. cat.rel[o].name = job[r].name /\ ~d.only
        BY <3>1, <3>5 DEF Called
      <4> QED
        BY <4>1, <3>3, <3>4, <3>5, OtherName
    <3>6. \A o \in Called(cat, job[r].name) : o \in Live(cat)
      BY DEF Called
    <3> QED
      BY <3>3, <3>5, <3>6, NewSparesOld DEF SparesOriginal
  <2> QED
    BY <2>8, <2>10, <2>11
<1>2. Spec => [][Spared]_vars
  BY <1>1, AlwaysTyped, PTL DEF Spec
<1>3. Spared => \A r \in Requests :
          /\ BackupAtWork(r) /\ Fold(job[r].name) = job[r].name
          /\ \A d \in job[r].def : ~d.only
          =>  \A o \in Called(cat, job[r].name) :
                  Fold(cat.rel[o].schema) = cat.rel[o].schema =>
                      /\ o \in Live(cat')
                      /\ cat'.rel[o] = cat.rel[o]
                      /\ IndexesOf(cat', o) = IndexesOf(cat, o)
  BY DEF SparesOriginal
<1> QED
  BY <1>2, <1>3, PTL DEF BackupSparesOriginal

-----------------------------------------------------------------------------
\* What a step may do to the request r.
LEMMA MovesTo ==
    ASSUME NEW r \in Requests, NEW k, Moves(r, k)
    PROVE  job'[r] = k
BY DEF Moves, Noticed

LEMMA GoesOnFields ==
    ASSUME NEW j, NEW k, GoesOn(j, k)
    PROVE  /\ k.tool = j.tool /\ k.name = j.name /\ k.alone = j.alone
           /\ k.to = j.to /\ k.schema = j.schema /\ k.pc \in PcsOf(j.tool)
BY DEF GoesOn

LEMMA IdleFields == IdleJob.tool = None /\ IdleJob.pc = "idle"
BY DEF IdleJob, Job

LEMMA DisturbedFields ==
    ASSUME NEW j, JobOK(j)
    PROVE  Disturbed(j) = IdleJob \/ ~Disturbed(j).alone
BY DEF Disturbed, JobOK, JobShape

LEMMA StepCases ==
    ASSUME Typed, [Next]_vars, NEW r \in Requests
    PROVE  \/ cat' = cat /\ job'[r] = job[r]
           \/ job'[r] = IdleJob \/ ~job'[r].alone
           \/ Backup(r) \/ Alter(r) \/ GenerateDdl(r) \/ StatementFails(r)
<1>1. Disturbed(job[r]) = IdleJob \/ ~Disturbed(job[r]).alone
  BY DisturbedFields DEF Typed
<1>2. ASSUME NEW q \in Requests, q # r,
             Backup(q) \/ Alter(q) \/ GenerateDdl(q) \/ StatementFails(q)
      PROVE  (cat' = cat /\ job'[r] = job[r]) \/ job'[r] = Disturbed(job[r])
  <2>1. PICK k : Moves(q, k)
    BY <1>2, OwnMoves
  <2> QED
    BY <1>2, <2>1 DEF Moves, Noticed
<1>3. CASE SingleStatement
  BY <1>1, <1>3, SingleStatementSound
<1>4. CASE GetObjectDetails
  BY <1>4 DEF GetObjectDetails
<1>5. CASE UNCHANGED vars
  BY <1>5 DEF vars
<1> QED
  BY <1>1, <1>2, <1>3, <1>4, <1>5 DEF Next

\* A step of a backup leaves a backup, or nothing.
LEMMA BackupTool ==
    ASSUME Typed, NEW r \in Requests, Backup(r)
    PROVE  job'[r].tool \in {None, "backup"}
<1>1. CASE StartBackup(r)
  BY <1>1, StartBackupMoves, MovesTo
<1>2. CASE ~StartBackup(r)
  <2>1. job[r].tool = "backup"
    BY <1>2, PcTells DEF Typed, Backup, VerifyExists, VerifyFree, CreateBackup,
       ReadColumns, ListToCopy, ReadDefinition, BuildIndex, CountRows
  <2>2. \E k : Moves(r, k) /\ (k = IdleJob \/ GoesOn(job[r], k))
    BY <1>2, BackupReadsMoves, CreateBackupMoves, RefuseMoves, ReadColumnsMoves,
       ReadDefinitionMoves, BuildIndexMoves DEF Backup, MadeBackup
  <2> QED
    BY <2>1, <2>2, MovesTo, GoesOnFields, IdleFields
<1> QED
  BY <1>1, <1>2

LEMMA DdlTool ==
    ASSUME Typed, NEW r \in Requests, GenerateDdl(r)
    PROVE  job'[r].tool \in {None, "ddl"}
BY DdlMoves, MovesTo, GoesOnFields, IdleFields DEF GenerateDdl

LEMMA AlterTool ==
    ASSUME Typed, NEW r \in Requests, Alter(r)
    PROVE  job'[r].tool \in {None, "alter_view", "alter_index"}
<1>1. CASE StartAlter(r)
  BY <1>1, StartAlterMoves, MovesTo
<1>2. CASE RenameFirst(r) \/ MoveSecond(r)
  <2>1. job[r].tool \in {"alter_view", "alter_index"}
    BY <1>2, PcTells DEF Typed, RenameFirst, MoveSecond
  <2>2. \E k : Moves(r, k) /\ (k = IdleJob \/ GoesOn(job[r], k))
    BY <1>2, RenameFirstMoves, MoveSecondMoves, RefuseMoves
  <2> QED
    BY <2>1, <2>2, MovesTo, GoesOnFields, IdleFields
<1> QED
  BY <1>1, <1>2 DEF Alter

LEMMA FailureLeaves ==
    ASSUME Typed, NEW r \in Requests, StatementFails(r)
    PROVE  job'[r] = IdleJob \/ job'[r].tool = "backup"
<1>1. CASE job[r].pc = "build"
  <2>1. job[r].tool = "backup"
    BY <1>1, PcTells DEF Typed
  <2> QED
    BY <2>1, FailureMoves, MovesTo, GoesOnFields
<1>2. CASE job[r].pc # "build"
  BY <1>2, RefuseMoves, MovesTo DEF StatementFails
<1> QED
  BY <1>1, <1>2

-----------------------------------------------------------------------------
(***************************************************************************)
(* The reports                                                             *)
(***************************************************************************)

\* Two relations of the same names are one.
LEMMA PairTells ==
    ASSUME NEW c, Consistent(c), NEW o \in Live(c), NEW p \in Live(c)
    PROVE  Pair(c, o) = Pair(c, p) <=> o = p
BY DEF Pair, Consistent, NamesUnique

LEMMA AtOne ==
    ASSUME NEW c, Consistent(c), NEW o \in Live(c)
    PROVE  At(c, c.rel[o].schema, c.rel[o].name) = {o}
BY DEF At, Consistent, NamesUnique

LEMMA IndexFacts ==
    ASSUME NEW c, Consistent(c), NEW i \in OfKind(c, {"index"})
    PROVE  /\ i \in Live(c) /\ c.rel[i].of \in Live(c)
           /\ c.rel[i].kind = "index"
           /\ c.rel[c.rel[i].of].schema = c.rel[i].schema
           /\ c.rel[i].key \in Seq(Columns) /\ c.rel[i].key # <<>>
           /\ Range(c.rel[i].key) \subseteq DOMAIN c.rel[c.rel[i].of].cols
           /\ c.rel[i].role \in {"constraint", "primary"} => c.rel[c.rel[i].of].kind \in Tables
<1>1. /\ i \in Live(c) /\ c.rel[i].kind = "index" /\ HasOwner(c, c.rel[i])
      /\ IndexFits(c, c.rel[i]) /\ IsRelation(c.rel[i])
  BY DEF OfKind, Consistent, WellFormed
<1>2. c.rel[i].of \in Live(c) /\ c.rel[c.rel[i].of].schema = c.rel[i].schema
  BY <1>1, IndexOwner DEF OfKind
<1> QED
  BY <1>1, <1>2 DEF IndexFits, IsRelation

\* What show_constraints() shows, entry by entry.
KeyEntry(c, i, k) ==
    k = [table |-> Pair(c, c.rel[i].of), name |-> c.rel[i].name,
         type |-> IF c.rel[i].role = "primary" THEN "PRIMARY KEY" ELSE "UNIQUE"]
ForeignKeyEntry(c, f, k) ==
    k = [table |-> Pair(c, f.on), name |-> f.name, type |-> "FOREIGN KEY"]

LEMMA Shown ==
    ASSUME NEW c, NEW k
    PROVE  k \in ShowConstraints(c) <=>
               \/ \E i \in KeyIndexes(c) : KeyEntry(c, i, k)
               \/ \E f \in c.fks : ForeignKeyEntry(c, f, k)
BY Zenon DEF ShowConstraints, KeyEntry, ForeignKeyEntry

LEMMA KeyShown ==
    ASSUME NEW c, NEW i \in KeyIndexes(c)
    PROVE  \E k \in ShowConstraints(c) :
              /\ k.table = Pair(c, c.rel[i].of) /\ k.name = c.rel[i].name
              /\ c.rel[i].role = "primary" => k.type = "PRIMARY KEY"
<1>1. PICK t, n : t = Pair(c, c.rel[i].of) /\ n = c.rel[i].name
  OBVIOUS
<1>2. PICK type : type = IF c.rel[i].role = "primary" THEN "PRIMARY KEY" ELSE "UNIQUE"
  OBVIOUS
<1>3. PICK k : k = [table |-> t, name |-> n, type |-> type]
  OBVIOUS
<1>4. KeyEntry(c, i, k)
  BY <1>1, <1>2, <1>3 DEF KeyEntry
<1>5. k.table = t /\ k.name = n /\ k.type = type
  BY <1>3
<1> QED
  BY <1>1, <1>2, <1>4, <1>5, Shown

LEMMA ForeignKeyShown ==
    ASSUME NEW c, NEW f \in c.fks
    PROVE  \E k \in ShowConstraints(c) : k.table = Pair(c, f.on) /\ k.name = f.name
<1>1. PICK t, n : t = Pair(c, f.on) /\ n = f.name
  OBVIOUS
<1>2. PICK k : k = [table |-> t, name |-> n, type |-> "FOREIGN KEY"]
  OBVIOUS
<1>3. ForeignKeyEntry(c, f, k) /\ k.table = t /\ k.name = n
  BY <1>1, <1>2 DEF ForeignKeyEntry
<1> QED
  BY <1>1, <1>3, Shown

LEMMA ShownFields ==
    ASSUME NEW c, NEW k \in ShowConstraints(c)
    PROVE  \/ \E i \in KeyIndexes(c) :
                /\ k.table = Pair(c, c.rel[i].of) /\ k.name = c.rel[i].name
                /\ k.type = IF c.rel[i].role = "primary" THEN "PRIMARY KEY" ELSE "UNIQUE"
           \/ \E f \in c.fks : k.table = Pair(c, f.on) /\ k.type = "FOREIGN KEY"
<1>1. ASSUME NEW i \in KeyIndexes(c), KeyEntry(c, i, k)
      PROVE  /\ k.table = Pair(c, c.rel[i].of) /\ k.name = c.rel[i].name
             /\ k.type = IF c.rel[i].role = "primary" THEN "PRIMARY KEY" ELSE "UNIQUE"
  BY <1>1 DEF KeyEntry
<1>2. ASSUME NEW f \in c.fks, ForeignKeyEntry(c, f, k)
      PROVE  k.table = Pair(c, f.on) /\ k.type = "FOREIGN KEY"
  BY <1>2 DEF ForeignKeyEntry
<1> QED
  BY <1>1, <1>2, Shown

LEMMA WithoutPkAgrees ==
    ASSUME Consistent(cat), NEW o \in OfKind(cat, Tables)
    PROVE  Pair(cat, o) \in TablesWithoutPk(cat) <=>
               \A i \in IndexesOf(cat, o) : cat.rel[i].role # "primary"
<1>1. o \in Live(cat)
  BY DEF OfKind
<1> DEFINE shown == {k.table : k \in {x \in ShowConstraints(cat) : x.type = "PRIMARY KEY"}}
<1>2. ASSUME NEW i \in IndexesOf(cat, o), cat.rel[i].role = "primary"
      PROVE  Pair(cat, o) \in shown
  <2>1. i \in KeyIndexes(cat) /\ cat.rel[i].of = o
    BY <1>2 DEF KeyIndexes, IndexesOf
  <2> QED
    BY <1>2, <2>1, KeyShown
<1>3. ASSUME Pair(cat, o) \in shown
      PROVE  \E i \in IndexesOf(cat, o) : cat.rel[i].role = "primary"
  <2>1. PICK k \in ShowConstraints(cat) : k.type = "PRIMARY KEY" /\ k.table = Pair(cat, o)
    BY <1>3
  <2>2. PICK i \in KeyIndexes(cat) :
          /\ k.table = Pair(cat, cat.rel[i].of)
          /\ k.type = IF cat.rel[i].role = "primary" THEN "PRIMARY KEY" ELSE "UNIQUE"
    BY <2>1, ShownFields
  <2>3. cat.rel[i].role = "primary" /\ Pair(cat, cat.rel[i].of) = Pair(cat, o)
    BY <2>1, <2>2
  <2>4. i \in OfKind(cat, {"index"})
    BY DEF KeyIndexes
  <2>5. cat.rel[i].of = o
    BY <1>1, <2>3, <2>4, IndexFacts, PairTells
  <2> QED
    BY <2>3, <2>4, <2>5 DEF IndexesOf
<1> HIDE DEF shown
<1>4. Pair(cat, o) \in TablesWithoutPk(cat) <=> Pair(cat, o) \notin shown
  BY DEF TablesWithoutPk, shown
<1> QED
  BY <1>2, <1>3, <1>4

LEMMA IndexNames ==
    ASSUME Consistent(cat), NEW o \in OfKind(cat, Tables)
    PROVE  CreateIndexDdl(cat, cat.rel[o].schema, cat.rel[o].name)
              = {cat.rel[i].name : i \in IndexesOf(cat, o)}
<1>1. UNION {IndexesOf(cat, p) : p \in {o}} = IndexesOf(cat, o)
  OBVIOUS
<1>2. o \in Live(cat)
  BY DEF OfKind
<1> QED
  BY <1>1, <1>2, AtOne DEF CreateIndexDdl

LEMMA IndexListsAgree ==
    ASSUME Consistent(cat), NEW o \in OfKind(cat, Tables)
    PROVE  CreateIndexDdl(cat, cat.rel[o].schema, cat.rel[o].name) =
              {x[3] : x \in {y \in ListIndexes(cat) : <<y[1], y[2]>> = Pair(cat, o)}}
<1>1. o \in Live(cat)
  BY DEF OfKind
<1> DEFINE listed == {y \in ListIndexes(cat) : <<y[1], y[2]>> = Pair(cat, o)}
<1>2. CreateIndexDdl(cat, cat.rel[o].schema, cat.rel[o].name)
        = {cat.rel[i].name : i \in IndexesOf(cat, o)}
  BY IndexNames
<1>3. ASSUME NEW i \in IndexesOf(cat, o)
      PROVE  \E y \in listed : y[3] = cat.rel[i].name
  <2>1. i \in OfKind(cat, {"index"}) /\ cat.rel[i].of = o
    BY DEF IndexesOf
  <2>2. cat.rel[i].schema = cat.rel[o].schema
    BY <2>1, IndexFacts
  <2>3. PICK y : y = <<cat.rel[i].schema, cat.rel[cat.rel[i].of].name, cat.rel[i].name>>
    OBVIOUS
  <2>4. y \in ListIndexes(cat)
    BY <2>1, <2>3 DEF ListIndexes
  <2>5. <<y[1], y[2]>> = Pair(cat, o) /\ y[3] = cat.rel[i].name
    BY <2>1, <2>2, <2>3 DEF Pair
  <2> QED
    BY <2>4, <2>5
<1>4. ASSUME NEW y \in listed
      PROVE  \E i \in IndexesOf(cat, o) : y[3] = cat.rel[i].name
  <2>1. PICK i \in OfKind(cat, {"index"}) :
          y = <<cat.rel[i].schema, cat.rel[cat.rel[i].of].name, cat.rel[i].name>>
    BY DEF ListIndexes
  <2>2. cat.rel[i].of \in Live(cat) /\ cat.rel[i].schema = cat.rel[cat.rel[i].of].schema
    BY IndexFacts
  <2>3. Pair(cat, cat.rel[i].of) = Pair(cat, o)
    BY <2>1, <2>2 DEF Pair
  <2>4. cat.rel[i].of = o
    BY <1>1, <2>2, <2>3, PairTells
  <2> QED
    BY <2>1, <2>4 DEF IndexesOf
<1>5. CreateIndexDdl(cat, cat.rel[o].schema, cat.rel[o].name) = {y[3] : y \in listed}
  <2> HIDE DEF listed
  <2>1. {cat.rel[i].name : i \in IndexesOf(cat, o)} = {y[3] : y \in listed}
    BY <1>3, <1>4
  <2> QED
    BY <1>2, <2>1
<1> QED
  BY <1>5

LEMMA PartitionsAgree ==
    ASSUME Consistent(cat), NEW o \in OfKind(cat, Tables),
           Called(cat, cat.rel[o].name) = {o}
    PROVE  ListPartitions(cat, cat.rel[o].name)
              = {cat.rel[p].name :
                    p \in TableDependencies(cat, cat.rel[o].schema, cat.rel[o].name)
                              \cap OfKind(cat, Plain)}
<1>1. o \in Live(cat) /\ At(cat, cat.rel[o].schema, cat.rel[o].name) = {o}
  BY AtOne DEF OfKind
<1>2. TableDependencies(cat, cat.rel[o].schema, cat.rel[o].name) \cap OfKind(cat, Plain)
        = {p \in OfKind(cat, Plain) : cat.rel[p].of \in {o}}
  BY <1>1 DEF TableDependencies, OfKind, Plain
<1> QED
  BY <1>2 DEF ListPartitions

LEMMA MissingAgrees ==
    ASSUME Consistent(cat), NEW f \in cat.fks, NEW o, f.on = o
    PROVE  f \in MissingFkIndexes(cat) <=>
               \A i \in OfKind(cat, {"index"}) :
                  /\ cat.rel[i].schema = cat.rel[o].schema
                  /\ cat.rel[i].name \in
                        CreateIndexDdl(cat, cat.rel[o].schema, cat.rel[o].name)
                  => f.col \notin Range(cat.rel[i].key)
<1>1. o \in OfKind(cat, Tables)
  BY DEF Consistent, KeysFit
<1>2. ASSUME NEW i \in OfKind(cat, {"index"}), cat.rel[i].schema = cat.rel[o].schema,
             cat.rel[i].name \in CreateIndexDdl(cat, cat.rel[o].schema, cat.rel[o].name)
      PROVE  i \in IndexesOf(cat, o)
  <2>1. PICK j \in IndexesOf(cat, o) : cat.rel[j].name = cat.rel[i].name
    BY <1>1, <1>2, IndexNames
  <2>2. j \in OfKind(cat, {"index"}) /\ cat.rel[j].of = o
    BY DEF IndexesOf
  <2>3. cat.rel[j].schema = cat.rel[o].schema
    BY <2>2, IndexFacts
  <2>4. i = j
    BY <1>2, <2>1, <2>2, <2>3 DEF OfKind, Consistent, NamesUnique
  <2> QED
    BY <2>4
<1>3. ASSUME NEW i \in IndexesOf(cat, o)
      PROVE  /\ i \in OfKind(cat, {"index"}) /\ cat.rel[i].schema = cat.rel[o].schema
             /\ cat.rel[i].name \in
                   CreateIndexDdl(cat, cat.rel[o].schema, cat.rel[o].name)
  <2>1. i \in OfKind(cat, {"index"}) /\ cat.rel[i].of = o
    BY DEF IndexesOf
  <2> QED
    BY <1>1, <2>1, IndexFacts, IndexNames
<1> QED
  BY <1>2, <1>3 DEF MissingFkIndexes, Indexed

LEMMA DuplicatesAgree ==
    ASSUME Consistent(cat),
           NEW i \in OfKind(cat, {"index"}), NEW j \in OfKind(cat, {"index"})
    PROVE  /\ <<i, j>> \in DuplicateIndexes(cat) =>
                /\ cat.rel[i].of = cat.rel[j].of /\ i # j
                /\ (cat.rel[i].role = "plain" <=> cat.rel[j].role = "plain")
                /\ (cat.rel[i].role = "primary" <=> cat.rel[j].role = "primary")
           /\ /\ i # j /\ cat.rel[i].of = cat.rel[j].of
              /\ cat.rel[i].role = cat.rel[j].role
              /\ cat.rel[cat.rel[i].of].kind # "partitioned"
              => <<i, j>> \in DuplicateIndexes(cat)
<1>1. <<i, j>> \in DuplicateIndexes(cat) <=>
        /\ cat.rel[cat.rel[i].of].kind # "partitioned"
        /\ cat.rel[cat.rel[j].of].kind # "partitioned"
        /\ i # j
        /\ Pair(cat, cat.rel[i].of) = Pair(cat, cat.rel[j].of)
        /\ (cat.rel[i].role = "primary") = (cat.rel[j].role = "primary")
        /\ (cat.rel[i].role = "plain") = (cat.rel[j].role = "plain")
  BY DEF DuplicateIndexes
<1>2. cat.rel[i].of \in Live(cat) /\ cat.rel[j].of \in Live(cat)
  BY IndexFacts
<1>3. Pair(cat, cat.rel[i].of) = Pair(cat, cat.rel[j].of) <=>
          cat.rel[i].of = cat.rel[j].of
  BY <1>2, PairTells
<1> QED
  BY <1>1, <1>3

LEMMA ConstraintsAgree ==
    ASSUME Consistent(cat), NEW k \in ShowConstraints(cat)
    PROVE  k.table \in ListTables(cat) /\ k.table[1] \in ListSchemas(cat)
<1>1. PICK o \in OfKind(cat, Tables) : k.table = Pair(cat, o)
  <2>1. ASSUME NEW i \in KeyIndexes(cat), k.table = Pair(cat, cat.rel[i].of)
        PROVE  cat.rel[i].of \in OfKind(cat, Tables)
    BY IndexFacts DEF KeyIndexes, OfKind
  <2>2. \A f \in cat.fks : f.on \in OfKind(cat, Tables)
    BY DEF Consistent, KeysFit
  <2> QED
    BY <2>1, <2>2, ShownFields
<1>2. k.table \in ListTables(cat)
  BY <1>1 DEF ListTables, OfKind, Listed
<1>3. k.table[1] = cat.rel[o].schema
  BY <1>1 DEF Pair
<1> QED
  BY <1>2, <1>3 DEF ListSchemas, OfKind, Consistent, WellFormed

\* The reports that go by names and those that go by oid tell the same story.
THEOREM ReportsAlwaysAgree == Spec => []ReportsAgree
<1>1. Typed => ReportsAgree
  <2> SUFFICES ASSUME Typed PROVE ReportsAgree
    OBVIOUS
  <2>1. Consistent(cat)
    BY DEF Typed
  <2>2. ASSUME NEW o \in OfKind(cat, Tables)
        PROVE  LET s == cat.rel[o].schema
                   t == cat.rel[o].name
               IN  /\ <<s, t>> \in TablesWithoutPk(cat) <=>
                         \A i \in IndexesOf(cat, o) : cat.rel[i].role # "primary"
                   /\ CreateIndexDdl(cat, s, t) =
                         {x[3] : x \in {y \in ListIndexes(cat) : <<y[1], y[2]>> = <<s, t>>}}
    BY <2>1, WithoutPkAgrees, IndexListsAgree DEF Pair
  <2>3. \A o \in OfKind(cat, Tables) : \A f \in cat.fks : f.on = o =>
          (f \in MissingFkIndexes(cat) <=>
             \A i \in OfKind(cat, {"index"}) :
                /\ cat.rel[i].schema = cat.rel[o].schema
                /\ cat.rel[i].name \in
                      CreateIndexDdl(cat, cat.rel[o].schema, cat.rel[o].name)
                => f.col \notin Range(cat.rel[i].key))
    BY <2>1, MissingAgrees
  <2> QED
    BY <2>1, <2>2, <2>3, PartitionsAgree, DuplicatesAgree, ConstraintsAgree
       DEF ReportsAgree
<1> QED
  BY <1>1, AlwaysTyped, PTL

-----------------------------------------------------------------------------
(***************************************************************************)
(* generate_create_table_ddl()                                             *)
(***************************************************************************)

LEMMA DdlStep ==
    ASSUME Typed, NEW r \in Requests, GenerateDdl(r), Current(cat, job[r])
    PROVE  Current(cat', job'[r])
<1>1. PICK k :
         /\ Moves(r, k) /\ cat' = cat
         /\ \/ k = IdleJob
            \/ k.tool = "ddl" /\ k.pc = "read"
            \/ /\ job[r].tool = "ddl" /\ GoesOn(job[r], k) /\ k.pc = "key"
               /\ k.cols = DdlColumns(cat, job[r].schema, job[r].name)
            \/ /\ job[r].tool = "ddl" /\ GoesOn(job[r], k) /\ k.pc = "answered"
               /\ job[r].pc = "key" /\ k.cols = job[r].cols
               /\ k.key = DdlKey(cat, job[r].schema, job[r].name)
  BY DdlMoves DEF GenerateDdl
<1>2. Current(cat, k)
  BY <1>1, GoesOnFields, IdleFields DEF Current, None
<1> QED
  BY <1>1, <1>2, MovesTo

\* The tables and keys that the second query finds are the table's own.
LEMMA KeyIsOwn ==
    ASSUME Consistent(cat), NEW o \in Live(cat), Namesakes(o) = {}
    PROVE  /\ {i \in KeyIndexes(cat) :
                  cat.rel[i].name \in {cat.rel[j].name : j \in
                      {j \in IndexesOf(cat, o) : cat.rel[j].role = "primary"}}}
                = {j \in IndexesOf(cat, o) : cat.rel[j].role = "primary"}
           /\ {f \in cat.fks :
                  f.name \in {cat.rel[j].name : j \in
                      {j \in IndexesOf(cat, o) : cat.rel[j].role = "primary"}}} = {}
<1> DEFINE primary == {j \in IndexesOf(cat, o) : cat.rel[j].role = "primary"}
           names == {cat.rel[j].name : j \in primary}
<1>1. \A k \in ShowConstraints(cat) : k.name \in names => k.table = Pair(cat, o)
  BY DEF Namesakes
<1>2. \A j \in primary : /\ j \in KeyIndexes(cat) /\ j \in OfKind(cat, {"index"})
                         /\ cat.rel[j].of = o /\ cat.rel[j].role = "primary"
  BY DEF IndexesOf, KeyIndexes
<1> HIDE DEF primary
<1>3. ASSUME NEW i \in KeyIndexes(cat), cat.rel[i].name \in names PROVE i \in primary
  <2>1. i \in OfKind(cat, {"index"})
    BY DEF KeyIndexes
  <2>2. PICK k \in ShowConstraints(cat) :
          k.table = Pair(cat, cat.rel[i].of) /\ k.name = cat.rel[i].name
    BY KeyShown
  <2>3. Pair(cat, cat.rel[i].of) = Pair(cat, o)
    BY <1>1, <1>3, <2>2
  <2>4. cat.rel[i].of = o
    BY <2>1, <2>3, IndexFacts, PairTells
  <2>5. PICK j \in primary : cat.rel[j].name = cat.rel[i].name
    BY <1>3
  <2>6. cat.rel[j].schema = cat.rel[i].schema /\ i \in Live(cat) /\ j \in Live(cat)
    BY <2>1, <2>4, <1>2, IndexFacts
  <2>7. i = j
    BY <2>5, <2>6 DEF Consistent, NamesUnique
  <2> QED
    BY <2>7
<1>4. ASSUME NEW f \in cat.fks, f.name \in names PROVE FALSE
  <2>1. PICK k \in ShowConstraints(cat) : k.table = Pair(cat, f.on) /\ k.name = f.name
    BY ForeignKeyShown
  <2>2. Pair(cat, f.on) = Pair(cat, o)
    BY <1>1, <1>4, <2>1
  <2>3. f.on = o
    BY <2>2, PairTells DEF Consistent, KeysFit, OfKind
  <2>4. PICK j \in primary : cat.rel[j].name = f.name
    BY <1>4
  <2>5. j \in IndexesOf(cat, f.on) /\ cat.rel[j].role = "primary"
    BY <1>2, <2>3 DEF IndexesOf
  <2> QED
    BY <2>4, <2>5 DEF Consistent, ConstraintsApart
<1>5. {i \in KeyIndexes(cat) : cat.rel[i].name \in names} = primary
  BY <1>2, <1>3
<1>6. {f \in cat.fks : f.name \in names} = {}
  BY <1>4
<1> QED
  BY <1>5, <1>6 DEF primary

LEMMA DdlAgrees ==
    ASSUME Consistent(cat), NEW s, NEW t, NEW o \in Find(cat, s, t, Listed),
           Namesakes(o) = {}
    PROVE  /\ DdlColumns(cat, s, t) = {<<x, cat.rel[o].cols[x]>> : x \in DOMAIN cat.rel[o].cols}
           /\ DdlKey(cat, s, t) = {<<Pair(cat, o), x>> : x \in
                  UNION {Range(cat.rel[i].key) : i \in {j \in IndexesOf(cat, o) :
                            cat.rel[j].role = "primary"}}}
<1>1. o \in Live(cat) /\ cat.rel[o].schema = s /\ cat.rel[o].name = t
  BY DEF Find, At
<1>2. At(cat, s, t) = {o} /\ Find(cat, s, t, Listed) = {o}
  BY <1>1, AtOne DEF Find
<1> DEFINE colsOf(p) == {<<x, cat.rel[p].cols[x]>> : x \in DOMAIN cat.rel[p].cols}
           primary == {j \in IndexesOf(cat, o) : cat.rel[j].role = "primary"}
           names == {cat.rel[j].name : j \in primary}
           pairs(i) == {<<Pair(cat, cat.rel[i].of), x>> : x \in Range(cat.rel[i].key)}
<1>3. DdlColumns(cat, s, t) = colsOf(o)
  <2>1. DdlColumns(cat, s, t) = UNION {colsOf(p) : p \in {o}}
    BY <1>2 DEF DdlColumns
  <2> HIDE DEF colsOf
  <2> QED
    BY <2>1
<1>4. {j \in KeyIndexes(cat) : cat.rel[j].role = "primary" /\ cat.rel[j].of \in {o}} = primary
  BY DEF KeyIndexes, IndexesOf
<1>5. DdlKey(cat, s, t)
        = UNION {pairs(i) : i \in {j \in KeyIndexes(cat) : cat.rel[j].name \in names}}
          \cup {<<Pair(cat, f.on), f.col>> : f \in {g \in cat.fks : g.name \in names}}
  BY <1>2, <1>4 DEF DdlKey
<1>6. /\ {j \in KeyIndexes(cat) : cat.rel[j].name \in names} = primary
      /\ {g \in cat.fks : g.name \in names} = {}
  BY <1>1, KeyIsOwn
<1>7. DdlKey(cat, s, t) = UNION {pairs(i) : i \in primary}
  BY <1>5, <1>6
<1>8. UNION {pairs(i) : i \in primary}
        = {<<Pair(cat, o), x>> : x \in UNION {Range(cat.rel[i].key) : i \in primary}}
  <2>1. \A i \in primary : cat.rel[i].of = o
    BY DEF IndexesOf
  <2> HIDE DEF primary
  <2>2. PICK p : p = Pair(cat, o)
    OBVIOUS
  <2>3. \A i \in primary : pairs(i) = {<<p, x>> : x \in Range(cat.rel[i].key)}
    BY <2>1, <2>2
  <2>4. \A y : y \in UNION {pairs(i) : i \in primary} <=>
                 \E i \in primary : \E x \in Range(cat.rel[i].key) : y = <<p, x>>
    BY <2>3
  <2>5. \A y : y \in {<<p, x>> : x \in UNION {Range(cat.rel[i].key) : i \in primary}} <=>
                 \E i \in primary : \E x \in Range(cat.rel[i].key) : y = <<p, x>>
    OBVIOUS
  <2> QED
    BY <2>2, <2>4, <2>5
<1> QED
  BY <1>3, <1>7, <1>8

\* The two queries of generate_create_table_ddl(), left alone, describe one table.
THEOREM DdlDescribesTheTable == Spec => []DdlIsTheTable
<1> DEFINE Inv == \A r \in Requests : Current(cat, job[r])
<1>1. Init => Inv
  BY IdleFields DEF Init, Current, None
<1>2. Typed /\ Inv /\ [Next]_vars => Inv'
  <2> SUFFICES ASSUME Typed, Inv, [Next]_vars, NEW r \in Requests
               PROVE  Current(cat', job'[r])
    OBVIOUS
  <2>1. CASE GenerateDdl(r)
    BY <2>1, DdlStep
  <2>2. CASE job'[r].tool # "ddl" \/ ~job'[r].alone
    BY <2>2 DEF Current
  <2>3. CASE cat' = cat /\ job'[r] = job[r]
    BY <2>3
  <2>4. CASE Backup(r) \/ Alter(r) \/ StatementFails(r)
    BY <2>2, <2>4, BackupTool, AlterTool, FailureLeaves, IdleFields DEF None
  <2> QED
    BY <2>1, <2>2, <2>3, <2>4, StepCases, IdleFields DEF None
<1>3. Typed /\ Inv => DdlIsTheTable
  <2> SUFFICES ASSUME Typed, Inv, NEW r \in Requests,
                      job[r].tool = "ddl", job[r].pc = "answered", job[r].alone,
                      NEW o \in Find(cat, job[r].schema, job[r].name, Listed),
                      Namesakes(o) = {}
               PROVE  /\ job[r].cols = {<<x, cat.rel[o].cols[x]>> : x \in DOMAIN cat.rel[o].cols}
                      /\ job[r].key = {<<Pair(cat, o), x>> : x \in
                            UNION {Range(cat.rel[i].key) : i \in {j \in IndexesOf(cat, o) :
                                      cat.rel[j].role = "primary"}}}
    BY DEF DdlIsTheTable
  <2>1. /\ job[r].cols = DdlColumns(cat, job[r].schema, job[r].name)
        /\ job[r].key = DdlKey(cat, job[r].schema, job[r].name)
    BY DEF Current
  <2> QED
    BY <2>1, DdlAgrees DEF Typed
<1> QED
  BY <1>1, <1>2, <1>3, AlwaysTyped, PTL DEF Spec

-----------------------------------------------------------------------------
(***************************************************************************)
(* backup_table()                                                          *)
(***************************************************************************)

LEMMA LiveFinite ==
    ASSUME NEW c, Consistent(c), NEW S, S \subseteq Live(c)
    PROVE  IsFiniteSet(S) /\ Cardinality(S) \in Nat
<1>1. IsFiniteSet(Live(c))
  BY OidsAssumption, FS_Subset DEF Consistent, WellFormed
<1>2. IsFiniteSet(S)
  BY <1>1, FS_Subset
<1> QED
  BY <1>2, FS_CardinalityType

\* The indexes of one relation have names of their own.
LEMMA DistinctNames ==
    ASSUME NEW c, Consistent(c), NEW o, NEW S, S = IndexesOf(c, o),
           NEW T, T = {c.rel[i].name : i \in S}
    PROVE  IsFiniteSet(T) /\ Cardinality(T) = Cardinality(S)
<1>1. PICK f : f = [i \in S |-> c.rel[i].name]
  OBVIOUS
<1>2. \A i, j \in S : c.rel[i].name = c.rel[j].name => i = j
  <2> TAKE i, j \in S
  <2> HAVE c.rel[i].name = c.rel[j].name
  <2>1. /\ i \in OfKind(c, {"index"}) /\ c.rel[i].of = o
        /\ j \in OfKind(c, {"index"}) /\ c.rel[j].of = o
    BY DEF IndexesOf
  <2>2. c.rel[i].schema = c.rel[j].schema /\ i \in Live(c) /\ j \in Live(c)
    BY <2>1, IndexFacts
  <2> QED
    BY <2>2 DEF Consistent, NamesUnique
<1>3. f \in Bijection(S, T)
  BY <1>1, <1>2 DEF Bijection, Injection, Surjection, IsInjective
<1>4. ExistsBijection(S, T)
  BY <1>3 DEF ExistsBijection
<1>5. IsFiniteSet(S)
  BY LiveFinite DEF IndexesOf, OfKind
<1> QED
  BY <1>4, <1>5, FS_Bijection

\* A name that one relation bears: what describe_table() tells of it.
LEMMA DescribedOnce ==
    ASSUME NEW c, Consistent(c), NEW n, NEW o \in OfKind(c, Listed), Called(c, n) = {o}
    PROVE  /\ DescribeTable(c, n) = {<<o, x>> : x \in DOMAIN c.rel[o].cols}
           /\ Cardinality(DescribeTable(c, n)) = Cardinality(DOMAIN c.rel[o].cols)
<1> DEFINE S == DOMAIN c.rel[o].cols
           T == {<<o, x>> : x \in S}
           described(p) == {<<p, x>> : x \in DOMAIN c.rel[p].cols}
<1>1. DescribeTable(c, n) = T
  <2>1. Called(c, n) \cap OfKind(c, Listed) = {o}
    OBVIOUS
  <2>2. DescribeTable(c, n) = UNION {described(p) : p \in {o}}
    BY <2>1 DEF DescribeTable
  <2>3. described(o) = T
    OBVIOUS
  <2> HIDE DEF described, T
  <2> QED
    BY <2>2, <2>3
<1>2. IsFiniteSet(S)
  <2>1. S \subseteq Columns
    BY ColsOK DEF OfKind
  <2> QED
    BY <2>1, ColumnsAssumption, FS_Subset
<1> HIDE DEF S
<1>3. PICK f : f = [x \in S |-> <<o, x>>]
  OBVIOUS
<1>4. f \in Bijection(S, T)
  BY <1>3 DEF Bijection, Injection, Surjection, IsInjective
<1>5. ExistsBijection(S, T)
  BY <1>4 DEF ExistsBijection
<1>6. Cardinality(T) = Cardinality(S)
  BY <1>2, <1>5, FS_Bijection
<1> QED
  BY <1>1, <1>6 DEF S

LEMMA ReadsTo ==
    ASSUME NEW r \in Requests, NEW k, Reads(r, k)
    PROVE  cat' = cat /\ job'[r] = k
BY DEF Reads, Noticed

LEMMA PcFields ==
    ASSUME NEW j, JobOK(j), NEW pc, NEW k, k = [j EXCEPT !.pc = pc]
    PROVE  /\ k.pc = pc /\ k.tool = j.tool /\ k.alone = j.alone /\ k.name = j.name
           /\ k.cols = j.cols /\ k.todo = j.todo /\ k.def = j.def
           /\ k.copied = j.copied /\ k.lost = j.lost
BY DEF JobOK, JobShape

LEMMA IdleFaithful ==
    ASSUME NEW c
    PROVE  Faithful(c, IdleJob)
BY IdleFields DEF Faithful, None

LEMMA ChecksFaithful ==
    ASSUME Typed, NEW r \in Requests, VerifyExists(r) \/ VerifyFree(r) \/ CountRows(r),
           Faithful(cat, job[r])
    PROVE  Faithful(cat', job'[r])
<1> DEFINE j == job[r]
<1>1. j.tool = "backup" /\ JobOK(j)
  BY PcTells DEF VerifyExists, VerifyFree, CountRows, Typed
<1>2. CASE Refuse(r)
  BY <1>2, RefuseMoves, MovesTo, IdleFaithful
<1>3. CASE VerifyExists(r) /\ ~Refuse(r)
  <2>1. /\ j.pc = "exists" /\ Reads(r, [j EXCEPT !.pc = "free"])
        /\ Cardinality(Called(cat, j.name) \cap OfKind(cat, Listed)) = 1
    BY <1>3 DEF VerifyExists
  <2>2. PICK k : k = [j EXCEPT !.pc = "free"]
    OBVIOUS
  <2>3. PICK S : S = Called(cat, j.name) \cap OfKind(cat, Listed)
    OBVIOUS
  <2>4. S \subseteq Live(cat)
    BY <2>3 DEF Called
  <2>5. IsFiniteSet(S)
    BY <2>4, LiveFinite DEF Typed
  <2>6. \E p \in Live(cat) : S = {p}
    BY <2>1, <2>3, <2>4, <2>5, FS_Singleton
  <2>7. Faithful(cat, k)
    <3>1. k.pc = "free" /\ k.name = j.name /\ k.alone = j.alone /\ k.tool = j.tool
          /\ k.copied = j.copied /\ k.lost = j.lost
      BY <1>1, <2>2, PcFields
    <3> HIDE DEF j
    <3> QED
      BY <2>1, <2>3, <2>6, <3>1 DEF Faithful, Started, j
  <2> QED
    BY <2>1, <2>2, <2>7, ReadsTo
<1>4. CASE VerifyFree(r) /\ ~Refuse(r)
  <2>1. j.pc = "free" /\ Reads(r, [j EXCEPT !.pc = "create"])
    BY <1>4 DEF VerifyFree
  <2>2. PICK k : k = [j EXCEPT !.pc = "create"]
    OBVIOUS
  <2>3. k.pc = "create" /\ k.name = j.name /\ k.alone = j.alone /\ k.tool = j.tool
        /\ k.copied = j.copied /\ k.lost = j.lost
    BY <1>1, <2>2, PcFields
  <2>4. Faithful(cat, k)
    BY <2>1, <2>3 DEF Faithful, Started
  <2> QED
    BY <2>1, <2>2, <2>4, ReadsTo
<1>5. CASE CountRows(r) /\ ~Refuse(r)
  <2>1. j.pc = "count" /\ Reads(r, [j EXCEPT !.pc = "answered"])
    BY <1>5 DEF CountRows
  <2>2. PICK k : k = [j EXCEPT !.pc = "answered"]
    OBVIOUS
  <2>3. /\ k.pc = "answered" /\ k.name = j.name /\ k.alone = j.alone /\ k.tool = j.tool
        /\ k.copied = j.copied /\ k.lost = j.lost /\ k.cols = j.cols
    BY <1>1, <2>2, PcFields
  <2>4. SUFFICES ASSUME k.tool = "backup", k.alone, Simple(k.name)
                 PROVE  Started(cat, k) /\ Copied(cat, k)
    BY <2>1, <2>2, ReadsTo DEF Faithful
  <2>5. Started(cat, j) /\ Copied(cat, j)
    BY <2>1, <2>3, <2>4 DEF Faithful
  <2>6. Started(cat, k)
    BY <2>1, <2>3, <2>5 DEF Started
  <2>7. ASSUME NEW o, NEW b, Copying(cat, j, o, b) PROVE Copying(cat, k, o, b)
    BY <2>1, <2>3, <2>7 DEF Copying
  <2> QED
    BY <2>3, <2>5, <2>6, <2>7 DEF Copied
<1> QED
  BY <1>2, <1>3, <1>4, <1>5

\* The statements that only read: what holds of the copy goes on holding.
LEMMA CopyGoesOn ==
    ASSUME NEW c, NEW j, NEW k, Faithful(c, j),
           k.tool = j.tool, k.alone = j.alone, k.name = j.name,
           j.pc \in {"columns", "list", "define", "build", "count"},
           \/ k.pc \in {"define", "build", "count", "answered"}
           \/ k.pc = "list" /\ k.copied = j.copied /\ k.lost = j.lost /\ j.pc = "columns",
           Started(c, j) => \A o \in Live(c), b \in Live(c) :
               Called(c, j.name) = {o} /\ Copying(c, j, o, b) => Copying(c, k, o, b)
    PROVE  Faithful(c, k)
<1> SUFFICES ASSUME k.tool = "backup", k.alone, Simple(k.name)
             PROVE  Started(c, k) /\ Copied(c, k)
  BY DEF Faithful
<1>1. Started(c, j) /\ Copied(c, j)
  BY DEF Faithful
<1>2. Started(c, k)
  BY <1>1 DEF Started
<1>3. Copied(c, k)
  BY <1>1 DEF Copied
<1> QED
  BY <1>2, <1>3

LEMMA StartFaithful ==
    ASSUME Typed, NEW r \in Requests, StartBackup(r)
    PROVE  Faithful(cat', job'[r])
<1>1. PICK t \in Names : Begin(r, Job("backup", "exists", t))
  BY DEF StartBackup
<1>2. PICK k : k = Job("backup", "exists", t)
  OBVIOUS
<1>3. k.pc = "exists" /\ k.copied = 0 /\ k.lost = 0
  BY <1>2 DEF Job
<1>4. job'[r] = k
  BY <1>1, <1>2 DEF Begin, Noticed
<1>5. Started(cat', k)
  BY <1>3 DEF Started
<1> QED
  BY <1>3, <1>4, <1>5 DEF Faithful

LEMMA ColumnsFaithful ==
    ASSUME Typed, NEW r \in Requests, ReadColumns(r), Faithful(cat, job[r])
    PROVE  Faithful(cat', job'[r])
<1>1. JobOK(job[r]) /\ job[r].pc = "columns"
  BY DEF ReadColumns, Typed
<1>2. PICK cols : cols = DescribeTable(cat, job[r].name)
  OBVIOUS
<1>3. PICK j : j = job[r]
  OBVIOUS
<1>4. PICK k : k = [j EXCEPT !.cols = cols, !.pc = "list"]
  OBVIOUS
<1>5. cat' = cat /\ job'[r] = k
  BY <1>2, <1>3, <1>4, ReadsTo DEF ReadColumns
<1>6. JobOK(j) /\ j.pc = "columns" /\ Faithful(cat, j) /\ cols = DescribeTable(cat, j.name)
  BY <1>1, <1>2, <1>3
<1>7. /\ k.pc = "list" /\ k.cols = cols /\ k.tool = j.tool /\ k.alone = j.alone
      /\ k.name = j.name /\ k.copied = j.copied /\ k.lost = j.lost
  BY <1>4, <1>6 DEF JobOK, JobShape
<1>8. ASSUME NEW o, NEW b, Copying(cat, j, o, b)
      PROVE  Copying(cat, k, o, b)
  BY <1>6, <1>7, <1>8 DEF Copying
<1>9. Faithful(cat, k)
  BY <1>6, <1>7, <1>8, CopyGoesOn
<1> QED
  BY <1>5, <1>9

LEMMA NamesOfOne ==
    ASSUME NEW n, NEW o, Called(cat, n) = {o}
    PROVE  NamesToCopy(n) = {cat.rel[i].name : i \in IndexesOf(cat, o)}
<1>1. UNION {IndexesOf(cat, p) : p \in {o}} = IndexesOf(cat, o)
  OBVIOUS
<1> QED
  BY <1>1 DEF NamesToCopy

LEMMA ListFaithful ==
    ASSUME Typed, NEW r \in Requests, ListToCopy(r), Faithful(cat, job[r])
    PROVE  Faithful(cat', job'[r])
<1>1. JobOK(job[r]) /\ job[r].pc = "list"
  BY DEF ListToCopy, Typed
<1>2. PICK todo : todo = NamesToCopy(job[r].name)
  OBVIOUS
<1>3. PICK j : j = job[r]
  OBVIOUS
<1>4. PICK k : k = [j EXCEPT !.todo = todo, !.pc = "define"]
  OBVIOUS
<1>5. cat' = cat /\ job'[r] = k
  BY <1>2, <1>3, <1>4, ReadsTo DEF ListToCopy
<1>6. JobOK(j) /\ j.pc = "list" /\ Faithful(cat, j) /\ todo = NamesToCopy(j.name)
  BY <1>1, <1>2, <1>3
<1>7. /\ k.pc = "define" /\ k.todo = todo /\ k.tool = j.tool /\ k.alone = j.alone
      /\ k.name = j.name /\ k.copied = j.copied /\ k.lost = j.lost /\ k.cols = j.cols
  BY <1>4, <1>6 DEF JobOK, JobShape
<1>8. ASSUME Started(cat, j), NEW o, NEW b, Called(cat, j.name) = {o}, Copying(cat, j, o, b)
      PROVE  Copying(cat, k, o, b)
  <2>1. PICK S : S = IndexesOf(cat, o)
    OBVIOUS
  <2>2. todo = {cat.rel[i].name : i \in S}
    BY <1>6, <1>8, <2>1, NamesOfOne
  <2>3. Cardinality(todo) = Cardinality(S)
    BY <2>1, <2>2, DistinctNames DEF Typed
  <2>4. Cardinality(S) \in Nat
    BY <2>1, LiveFinite DEF Typed, IndexesOf, OfKind
  <2>5. k.copied = 0 /\ k.lost = 0
    BY <1>6, <1>7, <1>8 DEF Started
  <2>6. k.copied + k.lost + Cardinality(k.todo) = Cardinality(IndexesOf(cat, o))
    BY <1>7, <2>1, <2>3, <2>4, <2>5
  <2>7. k.todo \subseteq {cat.rel[i].name : i \in IndexesOf(cat, o)}
    BY <1>7, <2>1, <2>2
  <2> QED
    BY <1>6, <1>7, <1>8, <2>6, <2>7 DEF Copying
<1>9. Faithful(cat, k)
  BY <1>6, <1>7, <1>8, CopyGoesOn
<1> QED
  BY <1>5, <1>9

\* The one index that bears a name is the one that the list meant.
LEMMA OneOfThem ==
    ASSUME Consistent(cat), NEW o, NEW n, NEW S,
           S = Called(cat, n) \cap OfKind(cat, {"index"}), Cardinality(S) = 1,
           NEW i \in S, n \in {cat.rel[k].name : k \in IndexesOf(cat, o)}
    PROVE  i \in IndexesOf(cat, o)
<1>1. IsFiniteSet(S)
  BY LiveFinite DEF Called
<1>2. PICK x : S = {x}
  BY <1>1, FS_Singleton
<1>3. PICK k \in IndexesOf(cat, o) : cat.rel[k].name = n
  OBVIOUS
<1>4. k \in S
  BY <1>3 DEF Called, IndexesOf, OfKind
<1> QED
  BY <1>2, <1>3, <1>4

LEMMA TodoFinite ==
    ASSUME Consistent(cat), NEW o, NEW T, T \subseteq {cat.rel[i].name : i \in IndexesOf(cat, o)}
    PROVE  IsFiniteSet(T) /\ Cardinality(T) \in Nat
<1>1. PICK S : S = IndexesOf(cat, o)
  OBVIOUS
<1>2. PICK U : U = {cat.rel[i].name : i \in S}
  OBVIOUS
<1>3. IsFiniteSet(U)
  BY <1>1, <1>2, DistinctNames
<1>4. T \subseteq U
  BY <1>1, <1>2
<1>5. IsFiniteSet(T)
  BY <1>3, <1>4, FS_Subset
<1> QED
  BY <1>5, FS_CardinalityType

LEMMA DefinitionFaithful ==
    ASSUME Typed, NEW r \in Requests, ReadDefinition(r), Faithful(cat, job[r])
    PROVE  Faithful(cat', job'[r])
<1>1. PICK j : j = job[r]
  OBVIOUS
<1>2. JobOK(j) /\ j.pc = "define" /\ Faithful(cat, j) /\ Consistent(cat)
  BY <1>1 DEF ReadDefinition, Typed
<1>3. CASE Refuse(r)
  BY <1>3, RefuseMoves, MovesTo, IdleFaithful
<1>4. CASE job[r].todo = {} /\ Reads(r, [job[r] EXCEPT !.pc = "count"])
  <2>1. PICK k : k = [j EXCEPT !.pc = "count"]
    OBVIOUS
  <2>2. /\ k.pc = "count" /\ k.tool = j.tool /\ k.alone = j.alone /\ k.name = j.name
        /\ k.copied = j.copied /\ k.lost = j.lost /\ k.cols = j.cols
    BY <1>2, <2>1, PcFields
  <2>3. cat' = cat /\ job'[r] = k
    BY <1>1, <1>4, <2>1, ReadsTo
  <2>4. j.todo = {}
    BY <1>1, <1>4
  <2>5. ASSUME NEW o, NEW b, Copying(cat, j, o, b)
        PROVE  Copying(cat, k, o, b)
    <3>1. Cardinality(j.todo) = 0
      BY <2>4, FS_EmptySet
    <3>2. j.copied + j.lost + 0 = Cardinality(IndexesOf(cat, o))
      BY <1>2, <2>5, <3>1 DEF Copying
    <3>3. k.copied + k.lost = Cardinality(IndexesOf(cat, o))
      BY <1>2, <2>2, <3>2 DEF JobOK, JobShape
    <3> QED
      BY <1>2, <2>2, <2>5, <3>3 DEF Copying
  <2>6. Faithful(cat, k)
    BY <1>2, <2>2, <2>5, CopyGoesOn
  <2> QED
    BY <2>3, <2>6
<1>5. ASSUME NEW n \in job[r].todo,
             Cardinality(Called(cat, n) \cap OfKind(cat, {"index"})) = 1,
             NEW i \in Called(cat, n) \cap OfKind(cat, {"index"}),
             Reads(r, [job[r] EXCEPT
                           !.pc = "build", !.todo = @ \ {n},
                           !.def = {Definition(i)}])
      PROVE  Faithful(cat', job'[r])
  <2>1. PICK d : d = Definition(i)
    OBVIOUS
  <2>2. PICK k : k = [j EXCEPT !.pc = "build", !.todo = @ \ {n}, !.def = {d}]
    OBVIOUS
  <2>3. /\ k.pc = "build" /\ k.tool = j.tool /\ k.alone = j.alone /\ k.name = j.name
        /\ k.copied = j.copied /\ k.lost = j.lost /\ k.cols = j.cols
        /\ k.todo = j.todo \ {n} /\ k.def = {d}
    BY <1>2, <2>2 DEF JobOK, JobShape
  <2>4. cat' = cat /\ job'[r] = k
    BY <1>1, <1>5, <2>1, <2>2, ReadsTo
  <2>5. ASSUME NEW o, NEW b, Called(cat, j.name) = {o}, Copying(cat, j, o, b)
        PROVE  Copying(cat, k, o, b)
    <3>1. PICK S : S = Called(cat, n) \cap OfKind(cat, {"index"})
      OBVIOUS
    <3>2. n \in j.todo /\ j.todo \subseteq {cat.rel[x].name : x \in IndexesOf(cat, o)}
      BY <1>1, <1>2, <2>5 DEF Copying
    <3>3. Cardinality(S) = 1 /\ i \in S
      BY <1>5, <3>1
    <3>4. i \in IndexesOf(cat, o)
      BY <1>2, <3>1, <3>2, <3>3, OneOfThem
    <3>5. cat.rel[i].of = o /\ cat.rel[o].name = j.name /\ cat.rel[o].kind # "partitioned"
      BY <2>5, <3>4 DEF IndexesOf, Called, Copying
    <3>6. k.def = {[index |-> cat.rel[i], on |-> k.name, only |-> FALSE]}
      BY <2>1, <2>3, <3>5 DEF Definition
    <3>7. IsFiniteSet(j.todo) /\ Cardinality(j.todo) \in Nat
      BY <1>2, <3>2, TodoFinite
    <3>8. Cardinality(j.todo \ {n}) = Cardinality(j.todo) - 1
      BY <3>2, <3>7, FS_RemoveElement
    <3>9. k.copied + k.lost + Cardinality(k.todo) + 1 = Cardinality(IndexesOf(cat, o))
      <4>1. j.copied + j.lost + Cardinality(j.todo) = Cardinality(IndexesOf(cat, o))
        BY <1>2, <2>5 DEF Copying
      <4>2. j.copied \in Nat /\ j.lost \in Nat
        BY <1>2 DEF JobOK, JobShape
      <4> QED
        BY <2>3, <3>7, <3>8, <4>1, <4>2
    <3>10. k.todo \subseteq {cat.rel[x].name : x \in IndexesOf(cat, o)}
      BY <2>3, <3>2
    <3> QED
      BY <1>2, <2>3, <2>5, <3>4, <3>6, <3>9, <3>10 DEF Copying
  <2>6. Faithful(cat, k)
    BY <1>2, <2>3, <2>5, CopyGoesOn
  <2> QED
    BY <2>4, <2>6
<1>6. \/ job[r].todo = {} /\ Reads(r, [job[r] EXCEPT !.pc = "count"])
      \/ \E n \in job[r].todo :
            /\ Cardinality(Called(cat, n) \cap OfKind(cat, {"index"})) = 1
            /\ \E i \in Called(cat, n) \cap OfKind(cat, {"index"}) :
                  Reads(r, [job[r] EXCEPT
                           !.pc = "build", !.todo = @ \ {n},
                           !.def = {Definition(i)}])
      \/ Refuse(r)
  BY DEF ReadDefinition
<1> QED
  BY <1>3, <1>4, <1>5, <1>6

\* An index given up is counted.
LEMMA LostFaithful ==
    ASSUME Consistent(cat), NEW j, JobOK(j), j.pc = "build", Faithful(cat, j),
           NEW k, k = LostOne(j)
    PROVE  Faithful(cat, k)
<1>1. PICK l \in Nat : l = j.lost + 1
  BY DEF JobOK, JobShape
<1>2. k = [j EXCEPT !.pc = "define", !.def = {}, !.lost = l]
  BY <1>1 DEF LostOne
<1>3. /\ k.pc = "define" /\ k.tool = j.tool /\ k.alone = j.alone /\ k.name = j.name
      /\ k.copied = j.copied /\ k.lost = l /\ k.cols = j.cols /\ k.todo = j.todo
  BY <1>2 DEF JobOK, JobShape
<1>4. ASSUME NEW o, NEW b, Copying(cat, j, o, b)
      PROVE  Copying(cat, k, o, b)
  <2>1. j.todo \subseteq {cat.rel[x].name : x \in IndexesOf(cat, o)}
    BY <1>4 DEF Copying
  <2>2. Cardinality(j.todo) \in Nat
    BY <2>1, TodoFinite
  <2>3. j.copied + j.lost + Cardinality(j.todo) + 1 = Cardinality(IndexesOf(cat, o))
    BY <1>4 DEF Copying
  <2>4. j.copied \in Nat /\ j.lost \in Nat
    BY DEF JobOK, JobShape
  <2>5. k.copied + k.lost + Cardinality(k.todo) = Cardinality(IndexesOf(cat, o))
    BY <1>1, <1>3, <2>2, <2>3, <2>4
  <2> QED
    BY <1>3, <1>4, <2>1, <2>5 DEF Copying
<1> QED
  BY <1>3, <1>4, CopyGoesOn

-----------------------------------------------------------------------------
\* The two steps of a backup that make something.
LEMMA AddedFields ==
    ASSUME NEW c, NEW d, NEW q, NEW x \in Oids \ Live(c), Added(c, d, q, x)
    PROVE  /\ Live(d) = Live(c) \cup {x} /\ d.rel[x] = q
           /\ \A y \in Live(c) : d.rel[y] = c.rel[y]
BY DEF Added, Live

LEMMA StillCalled ==
    ASSUME NEW c, NEW d, NEW q, NEW x \in Oids \ Live(c), Added(c, d, q, x),
           NEW n, q.name # n
    PROVE  Called(d, n) = Called(c, n)
BY AddedFields DEF Called

LEMMA NewHasNone ==
    ASSUME NEW c, Consistent(c), NEW d, NEW q, NEW x \in Oids \ Live(c), Added(c, d, q, x),
           q.kind # "index"
    PROVE  IndexesOf(d, x) = {}
<1>1. ASSUME NEW i \in IndexesOf(d, x) PROVE FALSE
  <2>1. i \in Live(d) /\ d.rel[i].kind = "index" /\ d.rel[i].of = x
    BY <1>1 DEF IndexesOf, OfKind
  <2>2. i \in Live(c) /\ d.rel[i] = c.rel[i]
    BY <2>1, AddedFields
  <2>3. i \in OfKind(c, {"index"})
    BY <2>1, <2>2 DEF OfKind
  <2> QED
    BY <2>1, <2>2, <2>3, IndexFacts
<1> QED
  BY <1>1

LEMMA OneIndexMore ==
    ASSUME NEW c, Consistent(c), NEW d, NEW q, NEW x \in Oids \ Live(c), Added(c, d, q, x),
           q.kind = "index", NEW b \in Live(c), q.of = b
    PROVE  /\ IndexesOf(d, b) = IndexesOf(c, b) \cup {x}
           /\ Cardinality(IndexesOf(d, b)) = Cardinality(IndexesOf(c, b)) + 1
<1>1. x \in IndexesOf(d, b)
  BY AddedFields DEF IndexesOf, OfKind
<1>2. \A y \in Live(c) : y \in IndexesOf(d, b) <=> y \in IndexesOf(c, b)
  BY AddedFields DEF IndexesOf, OfKind
<1>3. IndexesOf(d, b) \subseteq Live(c) \cup {x} /\ IndexesOf(c, b) \subseteq Live(c)
  BY AddedFields DEF IndexesOf, OfKind
<1>4. IndexesOf(d, b) = IndexesOf(c, b) \cup {x}
  BY <1>1, <1>2, <1>3
<1>5. PICK S : S = IndexesOf(c, b)
  OBVIOUS
<1>6. IsFiniteSet(S)
  BY <1>3, <1>5, LiveFinite
<1>7. x \notin S
  BY <1>3, <1>5
<1>8. Cardinality(S \cup {x}) = Cardinality(S) + 1
  BY <1>6, <1>7, FS_AddElement
<1> QED
  BY <1>4, <1>5, <1>8

\* "CREATE TABLE .. AS" makes a copy that has no index yet.
LEMMA CreateFaithful ==
    ASSUME Typed, NEW r \in Requests, CreateBackup(r), Faithful(cat, job[r])
    PROVE  Faithful(cat', job'[r])
<1>1. CASE Refuse(r)
  BY <1>1, RefuseMoves, MovesTo, IdleFaithful
<1>2. ASSUME NEW k, NEW q, NEW o, NEW x, MadeBackup(r, k, q, o, x)
      PROVE  Faithful(cat', job'[r])
  <2>1. PICK j : j = job[r]
    OBVIOUS
  <2>2. JobOK(j) /\ j.pc = "create" /\ Faithful(cat, j) /\ Consistent(cat)
    BY <2>1 DEF CreateBackup, Typed
  <2>3. /\ k = [j EXCEPT !.pc = "columns"] /\ x \in Oids \ Live(cat)
        /\ Added(cat, cat', q, x) /\ q.kind = "table" /\ q.schema = "public"
        /\ q.name = Fold(BackupName(j.name)) /\ q.cols = cat.rel[o].cols
        /\ o \in FindHere(cat, j.name, Listed \cup {"matview", "sequence"})
        /\ job'[r] = k
    BY <1>2, <2>1, MovesTo DEF MadeBackup
  <2>4. /\ k.pc = "columns" /\ k.tool = j.tool /\ k.alone = j.alone /\ k.name = j.name
        /\ k.copied = j.copied /\ k.lost = j.lost
    BY <2>2, <2>3, PcFields
  <2>5. SUFFICES ASSUME j.tool = "backup", j.alone, Simple(j.name)
                 PROVE  Started(cat', k) /\ Copied(cat', k)
    BY <2>3, <2>4 DEF Faithful
  <2>6. j.name \in Names
    BY <2>2, <2>5 DEF JobOK, JobShape
  <2>7. q.name = BackupName(j.name) /\ q.name # j.name
    BY <2>3, <2>5, <2>6, NamingAssumption DEF Simple
  <2>8. Started(cat, j)
    BY <2>2, <2>5 DEF Faithful
  <2>9. Called(cat', j.name) = Called(cat, j.name)
    BY <2>3, <2>7, StillCalled
  <2>10. /\ Live(cat') = Live(cat) \cup {x} /\ cat'.rel[x] = q
         /\ \A y \in Live(cat) : cat'.rel[y] = cat.rel[y]
    BY <2>3, AddedFields
  <2>11. Called(cat', j.name) \cap OfKind(cat', Listed)
            = Called(cat, j.name) \cap OfKind(cat, Listed)
    BY <2>9, <2>10 DEF Called, OfKind
  <2>12. Started(cat', k)
    BY <2>2, <2>4, <2>8, <2>10, <2>11 DEF Started
  <2>13. ASSUME NEW p \in Live(cat'), Called(cat', k.name) = {p},
                cat'.rel[p].kind # "partitioned"
         PROVE  Copying(cat', k, p, x)
    <3>1. o \in Called(cat, j.name) /\ cat.rel[o].schema = "public"
      BY <2>3, <2>5 DEF Simple, FindHere, Find, At, Called
    <3>2. o = p /\ o \in Live(cat)
      BY <2>4, <2>9, <2>13, <3>1 DEF Called
    <3>3. cat'.rel[p].schema = "public" /\ cat'.rel[x].cols = cat'.rel[p].cols
      BY <2>3, <2>10, <3>1, <3>2
    <3>4. x \in At(cat', "public", BackupName(k.name))
      BY <2>3, <2>4, <2>7, <2>10 DEF At
    <3>5. IndexesOf(cat', x) = {}
      BY <2>2, <2>3, NewHasNone
    <3>6. k.copied = 0
      BY <2>2, <2>4, <2>8 DEF Started
    <3>7. k.copied = Cardinality(IndexesOf(cat', x))
      BY <3>5, <3>6, FS_EmptySet
    <3> QED
      BY <2>4, <2>13, <3>3, <3>4, <3>5, <3>7 DEF Copying
  <2>14. x \in Live(cat')
    BY <2>10
  <2>15. Copied(cat', k)
    BY <2>13, <2>14 DEF Copied
  <2> QED
    BY <2>12, <2>15
<1> QED
  BY <1>1, <1>2, CreateBackupMoves

\* What is described and what is not added to stays as it was.
LEMMA StillDescribed ==
    ASSUME Consistent(cat), Consistent(cat'), NEW q, NEW x \in Oids \ Live(cat),
           Added(cat, cat', q, x), NEW n, NEW p \in OfKind(cat, Listed),
           Called(cat, n) = {p}, Called(cat', n) = {p}
    PROVE  DescribeTable(cat', n) = DescribeTable(cat, n)
<1>1. p \in Live(cat) /\ p \in Live(cat') /\ cat'.rel[p] = cat.rel[p]
  BY AddedFields DEF OfKind
<1>2. p \in OfKind(cat', Listed)
  BY <1>1 DEF OfKind
<1>3. DescribeTable(cat', n) = {<<p, y>> : y \in DOMAIN cat'.rel[p].cols}
  BY <1>2, DescribedOnce
<1>4. DescribeTable(cat, n) = {<<p, y>> : y \in DOMAIN cat.rel[p].cols}
  BY DescribedOnce
<1> QED
  BY <1>1, <1>3, <1>4

\* Where the definition of an index in public leads: to the backup.
LEMMA LeadsToBackup ==
    ASSUME Consistent(cat), NEW n \in Names, Simple(n), NEW p \in Live(cat),
           cat.rel[p].schema = "public", NEW i \in IndexesOf(cat, p),
           NEW d, d = [index |-> cat.rel[i], on |-> n, only |-> FALSE],
           NEW b \in At(cat, "public", BackupName(n)), NEW kinds,
           NEW o \in Find(cat, NewSchema(d, n), NewTable(d, n), kinds)
    PROVE  o = b /\ b \in Live(cat)
<1>1. i \in OfKind(cat, {"index"}) /\ cat.rel[i].of = p
  BY DEF IndexesOf
<1>2. cat.rel[i].schema = "public"
  BY <1>1, IndexFacts
<1>3. d.index = cat.rel[i] /\ d.on = n /\ ~d.only
  OBVIOUS
<1>4. NewSchema(d, n) = "public"
  BY <1>2, <1>3 DEF NewSchema, Replaced, Simple
<1>5. NewTable(d, n) = BackupName(n)
  BY <1>2, <1>3, NamingAssumption DEF NewTable, Replaced, Simple
<1>6. o \in At(cat, "public", BackupName(n))
  BY <1>4, <1>5 DEF Find
<1> QED
  BY <1>6 DEF At, Consistent, NamesUnique

LEMMA CopiedFaithful ==
    ASSUME Typed, Consistent(cat'), NEW r \in Requests, NEW j, j = job[r],
           j.pc = "build", Faithful(cat, j), NEW d \in j.def,
           NEW q, NEW x, MadeIndex(r, d, q, x), NEW k, k = CopiedOne(j)
    PROVE  Faithful(cat', k)
<1>1. JobOK(j) /\ Consistent(cat)
  BY DEF Typed
<1>2. PICK m \in Nat : m = j.copied + 1
  BY <1>1 DEF JobOK, JobShape
<1>3. k = [j EXCEPT !.pc = "define", !.def = {}, !.copied = m]
  BY <1>2 DEF CopiedOne
<1>4. /\ k.pc = "define" /\ k.tool = j.tool /\ k.alone = j.alone /\ k.name = j.name
      /\ k.copied = m /\ k.lost = j.lost /\ k.cols = j.cols /\ k.todo = j.todo
  BY <1>1, <1>3 DEF JobOK, JobShape
<1>5. SUFFICES ASSUME j.tool = "backup", j.alone, Simple(j.name)
               PROVE  Started(cat', k) /\ Copied(cat', k)
  BY <1>4 DEF Faithful
<1>6. j.name \in Names
  BY <1>1, <1>5 DEF JobOK, JobShape
<1>7. Started(cat, j) /\ Copied(cat, j)
  BY <1>5 DEF Faithful
<1>8. /\ x \in Oids \ Live(cat) /\ Added(cat, cat', q, x)
      /\ q.of \in Find(cat, NewSchema(d, j.name), NewTable(d, j.name), Tables \cup {"matview"})
      /\ q.kind = "index" /\ q.key = d.index.key
  BY DEF MadeIndex
<1>9. /\ Live(cat') = Live(cat) \cup {x} /\ cat'.rel[x] = q
      /\ \A y \in Live(cat) : cat'.rel[y] = cat.rel[y]
  BY <1>8, AddedFields
<1>10. PICK p \in Live(cat) : Called(cat, j.name) \cap OfKind(cat, Listed) = {p}
  BY <1>7 DEF Started
<1>11. Called(cat', j.name) \cap OfKind(cat', Listed)
         = Called(cat, j.name) \cap OfKind(cat, Listed)
  <2>1. x \notin OfKind(cat', Listed)
    BY <1>8, <1>9 DEF OfKind, Listed, Tables
  <2> QED
    BY <1>9, <2>1 DEF Called, OfKind
<1>12. Started(cat', k)
  BY <1>4, <1>9, <1>10, <1>11 DEF Started
<1>13. ASSUME NEW o \in Live(cat'), Called(cat', k.name) = {o},
              cat'.rel[o].kind # "partitioned"
       PROVE  \E b \in Live(cat') : Copying(cat', k, o, b)
  <2>1. p \in Called(cat, j.name) /\ p \in OfKind(cat, Listed)
    BY <1>10
  <2>2. Called(cat, j.name) \subseteq Called(cat', j.name)
    BY <1>9 DEF Called
  <2>3. o = p /\ Called(cat, j.name) = {p} /\ Called(cat', j.name) = {p}
    BY <1>4, <1>13, <2>1, <2>2
  <2>4. PICK b \in Live(cat) : Copying(cat, j, p, b)
    BY <1>7, <1>9, <1>13, <2>3 DEF Copied
  <2>5. /\ cat.rel[p].schema = "public" /\ cat.rel[p].kind # "partitioned"
        /\ b \in At(cat, "public", BackupName(j.name))
        /\ cat.rel[b].cols = cat.rel[p].cols
        /\ j.cols = DescribeTable(cat, j.name)
        /\ j.copied = Cardinality(IndexesOf(cat, b))
        /\ \A i \in IndexesOf(cat, b) : \E l \in IndexesOf(cat, p) :
              cat.rel[i].key = cat.rel[l].key
        /\ j.todo \subseteq {cat.rel[i].name : i \in IndexesOf(cat, p)}
        /\ j.copied + j.lost + Cardinality(j.todo) + 1 = Cardinality(IndexesOf(cat, p))
    BY <2>4 DEF Copying
  <2>6. PICK i \in IndexesOf(cat, p) :
          j.def = {[index |-> cat.rel[i], on |-> j.name, only |-> FALSE]}
    BY <2>4 DEF Copying
  <2>7. d = [index |-> cat.rel[i], on |-> j.name, only |-> FALSE]
    BY <2>6
  <2>8. q.of = b
    BY <1>1, <1>5, <1>6, <1>8, <2>5, <2>7, LeadsToBackup
  <2>9. b # p
    <3>1. cat.rel[b].name = BackupName(j.name) /\ cat.rel[p].name = j.name
      BY <2>1, <2>5 DEF At, Called
    <3> QED
      BY <1>6, <3>1, NamingAssumption
  <2>10. /\ IndexesOf(cat', b) = IndexesOf(cat, b) \cup {x}
         /\ Cardinality(IndexesOf(cat', b)) = Cardinality(IndexesOf(cat, b)) + 1
    BY <1>1, <1>8, <2>8, OneIndexMore
  <2>11. IndexesOf(cat', p) = IndexesOf(cat, p)
    BY <1>8, <2>8, <2>9, NewSparesOld
  <2>12. \A l \in IndexesOf(cat, p) \cup IndexesOf(cat, b) :
            l \in Live(cat) /\ cat'.rel[l] = cat.rel[l]
    BY <1>9 DEF IndexesOf, OfKind
  <2>13. cat'.rel[p] = cat.rel[p] /\ cat'.rel[b] = cat.rel[b] /\ b \in Live(cat')
    BY <1>9
  <2>14. b \in At(cat', "public", BackupName(k.name))
    BY <1>4, <2>5, <2>13 DEF At
  <2>15. k.cols = DescribeTable(cat', k.name)
    BY <1>1, <1>4, <1>8, <2>1, <2>3, <2>5, StillDescribed
  <2>16. k.copied = Cardinality(IndexesOf(cat', b))
    BY <1>2, <1>4, <2>5, <2>10
  <2>17. ASSUME NEW l \in IndexesOf(cat', b)
         PROVE  \E y \in IndexesOf(cat', p) : cat'.rel[l].key = cat'.rel[y].key
    <3>1. CASE l = x
      <4>1. cat'.rel[x].key = cat.rel[i].key
        BY <1>8, <1>9, <2>7
      <4> QED
        BY <3>1, <4>1, <2>11, <2>12
    <3>2. CASE l \in IndexesOf(cat, b)
      BY <3>2, <2>5, <2>11, <2>12
    <3> QED
      BY <3>1, <3>2, <2>10
  <2>18. k.todo \subseteq {cat'.rel[l].name : l \in IndexesOf(cat', p)}
    BY <1>4, <2>5, <2>11, <2>12
  <2>19. k.copied + k.lost + Cardinality(k.todo) = Cardinality(IndexesOf(cat', p))
    <3>1. Cardinality(j.todo) \in Nat
      BY <1>1, <2>5, TodoFinite
    <3>2. j.copied \in Nat /\ j.lost \in Nat
      BY <1>1 DEF JobOK, JobShape
    <3> QED
      BY <1>2, <1>4, <2>5, <2>11, <3>1, <3>2
  <2>20. cat'.rel[p].schema = "public" /\ cat'.rel[p].kind # "partitioned"
         /\ cat'.rel[b].cols = cat'.rel[p].cols
    BY <2>5, <2>13
  <2>21. Copying(cat', k, p, b)
    BY <1>4, <2>14, <2>15, <2>16, <2>17, <2>18, <2>19, <2>20 DEF Copying
  <2> QED
    BY <2>3, <2>13, <2>21
<1>14. Copied(cat', k)
  BY <1>13 DEF Copied
<1> QED
  BY <1>12, <1>14

LEMMA BuildFaithful ==
    ASSUME Typed, NEW r \in Requests, BuildIndex(r), Faithful(cat, job[r])
    PROVE  Faithful(cat', job'[r])
<1>1. job[r].pc = "build" /\ JobOK(job[r]) /\ Consistent(cat)
  BY DEF BuildIndex, Typed
<1>2. PICK d \in job[r].def : \E k :
         /\ Moves(r, k)
         /\ \/ k = LostOne(job[r]) /\ cat' = cat
            \/ k = CopiedOne(job[r]) /\ \E q, x : MadeIndex(r, d, q, x)
  BY BuildIndexMoves
<1>3. PICK k :
         /\ Moves(r, k)
         /\ \/ k = LostOne(job[r]) /\ cat' = cat
            \/ k = CopiedOne(job[r]) /\ \E q, x : MadeIndex(r, d, q, x)
  BY <1>2
<1>4. job'[r] = k /\ Consistent(cat')
  BY <1>3, MovesTo DEF Moves
<1>5. Faithful(cat', k)
  BY <1>1, <1>3, <1>4, LostFaithful, CopiedFaithful
<1> QED
  BY <1>4, <1>5

-----------------------------------------------------------------------------
LEMMA BackupFaithful ==
    ASSUME Typed, NEW r \in Requests, Backup(r), Faithful(cat, job[r])
    PROVE  Faithful(cat', job'[r])
BY StartFaithful, ChecksFaithful, CreateFaithful, ColumnsFaithful, ListFaithful,
   DefinitionFaithful, BuildFaithful DEF Backup

LEMMA FailureFaithful ==
    ASSUME Typed, NEW r \in Requests, StatementFails(r), Faithful(cat, job[r])
    PROVE  Faithful(cat', job'[r])
<1>1. CASE job[r].pc = "build"
  <2>1. PICK k : k = LostOne(job[r])
    OBVIOUS
  <2>2. cat' = cat /\ job'[r] = k
    BY <1>1, <2>1, ReadsTo DEF StatementFails, LostOne
  <2>3. Faithful(cat, k)
    BY <1>1, <2>1, LostFaithful DEF Typed
  <2> QED
    BY <2>2, <2>3
<1>2. CASE job[r].pc # "build"
  BY <1>2, RefuseMoves, MovesTo, IdleFaithful DEF StatementFails
<1> QED
  BY <1>1, <1>2

\* What the answer of a backup says is true: left alone, and of a table that has
\* its name for itself, the backup has the columns that are reported and as many
\* indexes as are counted, each on the columns of one of the original's.
THEOREM BackupAnswersAreTrue == Spec => []BackupAnswerIsTrue
<1> DEFINE Inv == \A r \in Requests : Faithful(cat, job[r])
<1>1. Init => Inv
  BY IdleFaithful DEF Init
<1>2. Typed /\ Inv /\ [Next]_vars => Inv'
  <2> SUFFICES ASSUME Typed, Inv, [Next]_vars, NEW r \in Requests
               PROVE  Faithful(cat', job'[r])
    OBVIOUS
  <2>1. CASE Backup(r)
    BY <2>1, BackupFaithful
  <2>2. CASE StatementFails(r)
    BY <2>2, FailureFaithful
  <2>3. CASE job'[r].tool # "backup" \/ ~job'[r].alone
    BY <2>3 DEF Faithful
  <2>4. CASE cat' = cat /\ job'[r] = job[r]
    BY <2>4
  <2> QED
    BY <2>1, <2>2, <2>3, <2>4, StepCases, AlterTool, DdlTool, IdleFields DEF None
<1>3. Typed /\ Inv => BackupAnswerIsTrue
  <2> SUFFICES ASSUME Typed, Inv, NEW r \in Requests,
                      job[r].tool = "backup", job[r].pc = "answered", job[r].alone,
                      Simple(job[r].name),
                      Cardinality(Called(cat, job[r].name)) = 1,
                      NEW o \in Called(cat, job[r].name),
                      cat.rel[o].kind # "partitioned"
               PROVE  \E b \in At(cat, "public", BackupName(job[r].name)) :
                  /\ cat.rel[b].cols = cat.rel[o].cols
                  /\ Cardinality(job[r].cols) = Cardinality(DOMAIN cat.rel[b].cols)
                  /\ job[r].copied = Cardinality(IndexesOf(cat, b))
                  /\ job[r].copied + job[r].lost = Cardinality(IndexesOf(cat, o))
                  /\ \A i \in IndexesOf(cat, b) : \E j \in IndexesOf(cat, o) :
                        cat.rel[i].key = cat.rel[j].key
    BY DEF BackupAnswerIsTrue, BackupAnswered, Simple
  <2>1. Started(cat, job[r]) /\ Copied(cat, job[r])
    BY DEF Faithful
  <2>2. PICK S : S = Called(cat, job[r].name)
    OBVIOUS
  <2>3. IsFiniteSet(S)
    BY <2>2, LiveFinite DEF Called, Typed
  <2>4. Called(cat, job[r].name) = {o}
    BY <2>2, <2>3, FS_Singleton
  <2>5. o \in OfKind(cat, Listed)
    BY <2>1, <2>4 DEF Started
  <2>6. PICK b \in Live(cat) : Copying(cat, job[r], o, b)
    BY <2>1, <2>4, <2>5 DEF Copied, OfKind
  <2>7. Cardinality(job[r].cols) = Cardinality(DOMAIN cat.rel[o].cols)
    BY <2>4, <2>5, <2>6, DescribedOnce DEF Copying, Typed
  <2> QED
    BY <2>6, <2>7 DEF Copying
<1> QED
  BY <1>1, <1>2, <1>3, AlwaysTyped, PTL DEF Spec
=============================================================================
