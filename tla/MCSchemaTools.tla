---------------------------- MODULE MCSchemaTools ----------------------------
\* Small catalogues for TLC.  "A" is "a" with a capital letter; the index called
\* "x" has the name of its column; "public" begins with "p".
EXTENDS SchemaTools, TLC

MCBackupName(n) == "backup_" \o n
MCCopyName(i, b) == i \o "_on_" \o b

\* The first two names that the server tries.
MCAutoNames(t, role, key) ==
    LET name == IF role = "primary" THEN t \o "_pkey" ELSE t \o "_" \o key[1] \o "_idx"
    IN  {name, name \o "1"}

MCOccursIn(n, text) ==
    \E k \in 1 .. 1 + Len(text) - Len(n) : SubSeq(text, k, k + Len(n) - 1) = n

MCBeginning(t) ==
    {n \in Names \cup {BackupName(m) : m \in Names} \cup SchemaNames \cup {"public"} :
        Len(n) >= Len(t) /\ SubSeq(n, 1, Len(t)) = t}

\* A capital letter is in "A", in "S", and where the name of a backup of "A" ends.
MCFold(n) ==
    CASE n = "A" -> "a"
      [] n = "S" -> "s"
      [] Len(n) > 8 /\ SubSeq(n, Len(n) - 7, Len(n)) = "backup_A" ->
            SubSeq(n, 1, Len(n) - 1) \o "a"
      [] n = "backup_A" -> "backup_a"
      [] OTHER -> n

Ints(cs) == [x \in cs |-> "int"]
Table(s, n, cs) == Relation("table", s, n, NoOid, Ints(cs), <<>>, "plain")
Partitioned(s, n, cs, key) == Relation("partitioned", s, n, NoOid, Ints(cs), key, "plain")
Index(s, n, of, key, role) == Relation("index", s, n, of, NoCols, key, role)

Start(rel, fks) ==
    [schemas |-> {"public", "s"}, rel |-> rel, fks |-> fks,
     roles |-> ("u" :> {"login"}), grants |-> {}]

\* A table and its key in each of two schemas; a second index.
TwoSchemas ==
    Start(1 :> Table("public", "a", {"x", "y"})
          @@ 2 :> Index("public", "a_pkey", 1, <<"x">>, "primary")
          @@ 3 :> Table("s", "a", {"x"})
          @@ 4 :> Index("s", "a_pkey", 3, <<"x">>, "primary"), {})

\* Names in both cases, indexes with awkward names, a foreign key.
TwoCases ==
    Start(1 :> Table("public", "a", {"x", "y"})
          @@ 2 :> Index("public", "x", 1, <<"x">>, "unique")
          @@ 3 :> Index("public", "idx", 1, <<"y", "x">>, "plain")
          @@ 4 :> Table("public", "A", {"x"})
          @@ 5 :> Index("public", "k", 4, <<"x">>, "plain"),
          {[name |-> "f", on |-> 4, col |-> "x", via |-> 2]})

\* A partitioned table, a partition with an index of its own, and a view.
PartsAndView ==
    Start(1 :> Partitioned("public", "a", {"x", "y"}, <<"x">>)
          @@ 2 :> Relation("table", "public", "p", 1, Ints({"x", "y"}), <<>>, "plain")
          @@ 3 :> Relation("view", "public", "v", 1, Ints({"x", "y"}), <<>>, "plain")
          @@ 4 :> Index("public", "idx", 2, <<"y">>, "plain"), {})

MCStarts == {TwoSchemas, TwoCases, PartsAndView}

\* What the descriptions of six tools stumble over, all in one catalogue: a
\* partitioned table with a key and a view, a table with two indexes, and a
\* foreign key that has the name of the key it references.
Described ==
    Start(1 :> Partitioned("public", "a", {"x", "y"}, <<"x">>)
          @@ 2 :> Index("public", "k", 1, <<"x">>, "primary")
          @@ 3 :> Relation("view", "public", "v", 1, Ints({"x", "y"}), <<>>, "plain")
          @@ 4 :> Table("public", "b", {"x", "y"})
          @@ 5 :> Index("public", "b_x", 4, <<"x">>, "plain")
          @@ 6 :> Index("public", "b_y", 4, <<"y">>, "plain"),
          {[name |-> "k", on |-> 4, col |-> "x", via |-> 2]})

MCDescribed == {Described}

\* Which request does what makes no difference.
MCAnyOrder == Permutations(Requests)
=============================================================================
