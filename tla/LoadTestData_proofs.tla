------------------------- MODULE LoadTestData_proofs -------------------------
(***************************************************************************)
(* Proofs about LoadTestData: for every number of runs of the generator,   *)
(* interrupted or not, on a new schema or an old one, the properties that  *)
(* load_data checks for two of them.                                       *)
(*                                                                         *)
(* A run on a new schema keeps the tables in step with its counters.  Any  *)
(* other run fails, and the table of customers is what tells why: it has   *)
(* the customer of counter 0 already, which the first INSERT runs into, or *)
(* its sequence has skipped the id 1, which the first account refers to.   *)
(***************************************************************************)
EXTENDS LoadTestData, SequenceTheorems, TLAPS

\* The first n rows of a table that has been filled without a gap.
Filled(n) == [m \in 1 .. n |-> <<m - 1, m>>]

\* How many rows table j has when the generator has come to row i of table k.
Rows(j, k, i) == IF j < k THEN Count(j) ELSE IF j = k THEN i ELSE 0

TypeOK ==
    /\ rows \in [Tables -> Seq(Nat \X Nat)]
    /\ serial \in [Tables -> Nat \ {0}]
    /\ at \in (1 .. 13) \X Nat
    /\ run \in {"none", "loading", "summary", "done", "failed"}
    /\ fresh \in BOOLEAN

\* The generator is within one of its loops.
WithinLoop == run = "loading" => at[1] \in 1 .. 12 /\ at[2] < Count(at[1])

\* The tables and their sequences are what the counters say.
InStep(k, i) ==
    \A j \in 1 .. 12 : /\ rows[Table(j)] = Filled(Rows(j, k, i))
                       /\ serial[Table(j)] = Rows(j, k, i) + 1

\* There is no customer 1 and there will be none.
Skipped == serial["customers"] > 1 /\ ~HasId("customers", 1)
Begun == HasCounter("customers", 0)

FreshInStep ==
    fresh /\ run = "loading" => InStep(at[1], at[2])

StaleFails ==
    ~fresh /\ run = "loading" =>
        \/ Begun /\ at = <<1, 0>>
        \/ Skipped /\ (at[1] < 4 \/ at = <<4, 0>>)

AtRest ==
    run \in {"none", "failed"} => InStep(1, 0) \/ Skipped \/ Begun

Completed ==
    run \in {"summary", "done"} => InStep(13, 0)

IInv == TypeOK /\ WithinLoop /\ FreshInStep /\ StaleFails /\ AtRest /\ Completed
-----------------------------------------------------------------------------
(***************************************************************************)
(* What is generated                                                       *)
(***************************************************************************)

LEMMA Contents ==
    /\ DOMAIN Generated = 1 .. 12
    /\ Len(Generated) = 12
    /\ Table(1) = "customers" /\ Count(1) = 500
    /\ Table(2) = "categories" /\ Count(2) = 15
    /\ Table(3) = "products" /\ Count(3) = 200
    /\ Table(4) = "accounts" /\ Count(4) = 400
    /\ Table(5) = "inventory" /\ Count(5) = 200
    /\ Table(6) = "orders" /\ Count(6) = 1000
    /\ Table(7) = "order_items" /\ Count(7) = 3000
    /\ Table(8) = "invoices" /\ Count(8) = 1000
    /\ Table(9) = "payments" /\ Count(9) = 800
    /\ Table(10) = "subscriptions" /\ Count(10) = 300
    /\ Table(11) = "transactions" /\ Count(11) = 2000
    /\ Table(12) = "audit_logs" /\ Count(12) = 500
BY DEF Generated, Table, Count

LEMMA Indices ==
    ASSUME NEW k \in 1 .. 12
    PROVE  \/ k = 1 \/ k = 2 \/ k = 3 \/ k = 4 \/ k = 5 \/ k = 6
           \/ k = 7 \/ k = 8 \/ k = 9 \/ k = 10 \/ k = 11 \/ k = 12
OBVIOUS

LEMMA TablesAre == Tables = {Table(k) : k \in 1 .. 12}
BY Contents DEF Tables, Table

LEMMA CountIsPositive ==
    ASSUME NEW k \in 1 .. 12
    PROVE  Count(k) \in Nat \ {0}
BY Indices, Contents

\* No table is generated twice.
LEMMA TablesDiffer ==
    ASSUME NEW j \in 1 .. 12, NEW k \in 1 .. 12, Table(j) = Table(k)
    PROVE  j = k
<1>1. Table(j) = Generated[j][1] /\ Table(k) = Generated[k][1]
  BY DEF Table
<1>2. QED
  BY Indices, Contents

LEMMA TableIsIn ==
    ASSUME NEW k \in 1 .. 12
    PROVE  Table(k) \in Tables
BY TablesAre

-----------------------------------------------------------------------------
(***************************************************************************)
(* Rows filled in without a gap                                            *)
(***************************************************************************)

LEMMA FilledType ==
    ASSUME NEW n \in Nat
    PROVE  /\ Filled(n) \in Seq(Nat \X Nat)
           /\ Len(Filled(n)) = n
           /\ DOMAIN Filled(n) = 1 .. n
           /\ \A m \in 1 .. n : Filled(n)[m] = <<m - 1, m>>
BY DEF Filled

LEMMA NothingFilled == Filled(0) = <<>>
BY DEF Filled

\* The row that a loop stores continues what it has filled.
LEMMA FilledNext ==
    ASSUME NEW n \in Nat
    PROVE  Append(Filled(n), <<n, n + 1>>) = Filled(n + 1)
<1> DEFINE longer == Append(Filled(n), <<n, n + 1>>)
<1>1. /\ longer \in Seq(Nat \X Nat)
      /\ Len(longer) = n + 1
      /\ \A m \in 1 .. n : longer[m] = Filled(n)[m]
      /\ longer[n + 1] = <<n, n + 1>>
  <2> DEFINE S == Nat \X Nat
             e == <<n, n + 1>>
  <2>1. e \in S
    OBVIOUS
  <2>2. Filled(n) \in Seq(S) /\ Len(Filled(n)) = n
    BY FilledType
  <2> HIDE DEF S, e
  <2>3. /\ Append(Filled(n), e) \in Seq(S)
        /\ Len(Append(Filled(n), e)) = n + 1
        /\ \A m \in 1 .. n : Append(Filled(n), e)[m] = Filled(n)[m]
        /\ Append(Filled(n), e)[n + 1] = e
    BY <2>1, <2>2, AppendProperties
  <2>4. QED
    BY <2>3 DEF S, e
<1> HIDE DEF longer
<1>2. ASSUME NEW m \in 1 .. n + 1
      PROVE  longer[m] = <<m - 1, m>>
  <2>1. CASE m \in 1 .. n
    BY <1>1, <2>1, FilledType
  <2>2. CASE m = n + 1
    BY <1>1, <2>2
  <2>3. m \in 1 .. n \/ m = n + 1
    OBVIOUS
  <2>4. QED
    BY <2>1, <2>2, <2>3
<1>3. /\ Filled(n + 1) \in Seq(Nat \X Nat)
      /\ Len(Filled(n + 1)) = n + 1
      /\ \A m \in 1 .. n + 1 : Filled(n + 1)[m] = <<m - 1, m>>
  BY FilledType, n + 1 \in Nat
<1>4. longer = Filled(n + 1)
  BY <1>1, <1>2, <1>3, SeqEqual
<1>5. QED
  BY <1>4 DEF longer

LEMMA RowsType ==
    ASSUME NEW j \in 1 .. 12, NEW k \in 1 .. 13, NEW i \in Nat
    PROVE  Rows(j, k, i) \in Nat
BY CountIsPositive DEF Rows

\* A new schema is in step with a generator that begins.
LEMMA NewIsInStep == TypeOK => (New(rows, serial) <=> InStep(1, 0))
<1> SUFFICES ASSUME TypeOK PROVE New(rows, serial) <=> InStep(1, 0)
  OBVIOUS
<1>1. \A j \in 1 .. 12 : Rows(j, 1, 0) = 0
  BY CountIsPositive DEF Rows
<1>2. InStep(1, 0) <=> \A j \in 1 .. 12 : rows[Table(j)] = <<>> /\ serial[Table(j)] = 1
  BY <1>1, NothingFilled DEF InStep
<1>3. @ <=> \A t \in Tables : rows[t] = <<>> /\ serial[t] = 1
  BY TablesAre
<1>4. @ <=> New(rows, serial)
  BY DEF New, TypeOK
<1>5. QED
  BY <1>2, <1>3, <1>4

\* In a table in step, which ids and counters there are.
LEMMA InStepIds ==
    ASSUME TypeOK, NEW k \in 1 .. 13, NEW i \in Nat, InStep(k, i),
           NEW j \in 1 .. 12, NEW n \in Nat
    PROVE  /\ HasId(Table(j), n) <=> n \in 1 .. Rows(j, k, i)
           /\ HasCounter(Table(j), n) <=> n < Rows(j, k, i)
<1> DEFINE r == Rows(j, k, i)
<1>1. r \in Nat /\ rows[Table(j)] = Filled(r)
  BY RowsType DEF InStep
<1>2. DOMAIN Filled(r) = 1 .. r /\ \A m \in 1 .. r : Filled(r)[m] = <<m - 1, m>>
  BY <1>1, FilledType
<1>3. HasId(Table(j), n) <=> \E m \in 1 .. r : m = n
  BY <1>1, <1>2 DEF HasId
<1>4. HasCounter(Table(j), n) <=> \E m \in 1 .. r : m - 1 = n
  BY <1>1, <1>2 DEF HasCounter
<1>5. (\E m \in 1 .. r : m - 1 = n) <=> n < r
  <2>1. ASSUME n < r PROVE n + 1 \in 1 .. r /\ (n + 1) - 1 = n
    BY <1>1, <2>1
  <2>2. QED
    BY <1>1, <2>1
<1>6. QED
  BY <1>1, <1>3, <1>4, <1>5

\* Every reference of the generator leads to a table filled before, and into
\* it.
LEMMA ReferencesLeadBack ==
    ASSUME NEW k \in 1 .. 12, NEW i \in Nat, i < Count(k),
           NEW ref \in References(Table(k), i)
    PROVE  \E j \in 1 .. 12 : j < k /\ ref[1] = Table(j) /\ ref[2] \in 1 .. Count(j)
<1>1. CASE k = 1
  BY <1>1, Contents DEF References, Customers
<1>2. CASE k = 2
  BY <1>2, Contents DEF References, Categories
<1>3. CASE k = 3
  <2>1. ref = <<Table(2), (i % 15) + 1>>
    BY <1>3, Contents DEF References, Products
  <2>2. QED
    BY <2>1, <1>3, Contents
<1>4. CASE k = 4
  <2>1. ref = <<Table(1), (i % 500) + 1>>
    BY <1>4, Contents DEF References, Accounts
  <2>2. QED
    BY <2>1, <1>4, Contents
<1>5. CASE k = 5
  <2>1. ref = <<Table(3), (i % 200) + 1>>
    BY <1>5, Contents DEF References, Inventory
  <2>2. QED
    BY <2>1, <1>5, Contents
<1>6. CASE k = 6
  <2>1. ref = <<Table(1), (i % 500) + 1>>
    BY <1>6, Contents DEF References, Orders
  <2>2. QED
    BY <2>1, <1>6, Contents
<1>7. CASE k = 7
  <2>1. ref = <<Table(6), i \div 3 + 1>> \/ ref = <<Table(3), (i % 200) + 1>>
    BY <1>7, Contents DEF References, OrderItems
  <2>2. i \div 3 + 1 \in 1 .. 1000
    BY <1>7, Contents
  <2>3. QED
    BY <2>1, <2>2, <1>7, Contents
<1>8. CASE k = 8
  <2>1. ref = <<Table(6), i + 1>>
    BY <1>8, Contents DEF References, Invoices
  <2>2. QED
    BY <2>1, <1>8, Contents
<1>9. CASE k = 9
  <2>1. ref = <<Table(8), ((i * 7) % 1000) + 1>>
    BY <1>9, Contents DEF References, Payments
  <2>2. QED
    BY <2>1, <1>9, Contents
<1>10. CASE k = 10
  <2>1. ref = <<Table(1), (i % 500) + 1>>
    BY <1>10, Contents DEF References, Subscriptions
  <2>2. QED
    BY <2>1, <1>10, Contents
<1>11. CASE k = 11
  <2>1. ref = <<Table(4), ((i * 3) % 400) + 1>>
    BY <1>11, Contents DEF References, Transactions
  <2>2. QED
    BY <2>1, <1>11, Contents
<1>12. CASE k = 12
  BY <1>12, Contents DEF References, AuditLogs
<1>13. QED
  BY Indices, <1>1, <1>2, <1>3, <1>4, <1>5, <1>6, <1>7, <1>8, <1>9, <1>10, <1>11, <1>12

\* A generator in step is never refused a row.
LEMMA InStepAccepts ==
    ASSUME TypeOK, NEW k \in 1 .. 12, NEW i \in Nat, i < Count(k), InStep(k, i)
    PROVE  Accepts(Table(k), i)
<1>1. ~HasCounter(Table(k), i)
  <2>1. Rows(k, k, i) = i
    BY DEF Rows
  <2>2. QED
    BY <2>1, InStepIds
<1>2. ASSUME NEW ref \in References(Table(k), i)
      PROVE  HasId(ref[1], ref[2])
  <2>1. PICK j \in 1 .. 12 : j < k /\ ref[1] = Table(j) /\ ref[2] \in 1 .. Count(j)
    BY ReferencesLeadBack
  <2>2. Rows(j, k, i) = Count(j)
    BY <2>1 DEF Rows
  <2>3. ref[2] \in Nat
    BY <2>1, CountIsPositive
  <2>4. QED
    BY <2>1, <2>2, <2>3, InStepIds
<1>3. QED
  BY <1>1, <1>2 DEF Accepts

-----------------------------------------------------------------------------
(***************************************************************************)
(* What a statement does to the tables                                     *)
(***************************************************************************)

LEMMA StoredRow ==
    ASSUME TypeOK, NEW t \in Tables, NEW i \in Nat, Stored(t, i), NEW u \in Tables
    PROVE  /\ rows' \in [Tables -> Seq(Nat \X Nat)]
           /\ serial' \in [Tables -> Nat \ {0}]
           /\ u # t => rows'[u] = rows[u] /\ serial'[u] = serial[u]
           /\ u = t => rows'[u] = Append(rows[u], <<i, serial[u]>>) /\ serial'[u] = serial[u] + 1
BY DEF Stored, TypeOK

LEMMA SpentId ==
    ASSUME TypeOK, NEW t \in Tables, Spent(t), NEW u \in Tables
    PROVE  /\ rows' \in [Tables -> Seq(Nat \X Nat)]
           /\ serial' \in [Tables -> Nat \ {0}]
           /\ rows'[u] = rows[u]
           /\ serial'[u] = IF u = t THEN serial[u] + 1 ELSE serial[u]
BY DEF Spent, TypeOK

\* A statement takes no row away, and adds none but its own.
LEMMA StoredIds ==
    ASSUME TypeOK, NEW t \in Tables, NEW i \in Nat, Stored(t, i),
           NEW u \in Tables, NEW n \in Nat
    PROVE  /\ HasCounter(u, n)' <=> HasCounter(u, n) \/ (u = t /\ n = i)
           /\ HasId(u, n)' <=> HasId(u, n) \/ (u = t /\ n = serial[u])
<1>1. CASE u # t
  BY <1>1, StoredRow DEF HasCounter, HasId
<1>2. CASE u = t
  <2> DEFINE s == rows[u]
             e == <<i, serial[u]>>
             S == Nat \X Nat
  <2>1. s \in Seq(S) /\ e \in S
    BY DEF TypeOK
  <2>2. rows'[u] = Append(s, e)
    BY <1>2, StoredRow
  <2>3. e[1] = i /\ e[2] = serial[u]
    OBVIOUS
  <2> HIDE DEF e, S
  <2>4. /\ DOMAIN s = 1 .. Len(s)
        /\ Len(s) \in Nat
        /\ DOMAIN Append(s, e) = 1 .. Len(s) + 1
        /\ \A k \in 1 .. Len(s) : Append(s, e)[k] = s[k]
        /\ Append(s, e)[Len(s) + 1] = e
    BY <2>1, AppendProperties, LenProperties
  <2> HIDE DEF s
  <2>5. HasCounter(u, n)' <=> \E k \in 1 .. Len(s) + 1 : Append(s, e)[k][1] = n
    BY <2>2, <2>4 DEF HasCounter
  <2>6. HasCounter(u, n) <=> \E k \in 1 .. Len(s) : s[k][1] = n
    BY <2>4 DEF HasCounter, s
  <2>7. HasId(u, n)' <=> \E k \in 1 .. Len(s) + 1 : Append(s, e)[k][2] = n
    BY <2>2, <2>4 DEF HasId
  <2>8. HasId(u, n) <=> \E k \in 1 .. Len(s) : s[k][2] = n
    BY <2>4 DEF HasId, s
  <2>9. \A k \in 1 .. Len(s) + 1 : k \in 1 .. Len(s) \/ k = Len(s) + 1
    BY <2>4
  <2>10. Len(s) + 1 \in 1 .. Len(s) + 1 /\ \A k \in 1 .. Len(s) : k \in 1 .. Len(s) + 1
    BY <2>4
  <2>11. HasCounter(u, n)' <=> HasCounter(u, n) \/ n = i
    BY <2>3, <2>4, <2>5, <2>6, <2>9, <2>10
  <2>12. HasId(u, n)' <=> HasId(u, n) \/ n = serial[u]
    BY <2>3, <2>4, <2>7, <2>8, <2>9, <2>10
  <2>13. QED
    BY <1>2, <2>11, <2>12
<1>3. QED
  BY <1>1, <1>2

LEMMA SpentIds ==
    ASSUME TypeOK, NEW t \in Tables, Spent(t), NEW u \in Tables, NEW n \in Nat
    PROVE  /\ HasCounter(u, n)' <=> HasCounter(u, n)
           /\ HasId(u, n)' <=> HasId(u, n)
BY SpentId DEF HasCounter, HasId

LEMMA Customers1 == "customers" \in Tables
BY TableIsIn, Contents, 1 \in 1 .. 12

\* What makes the other runs fail is never mended by one.
LEMMA StoredKeeps ==
    ASSUME TypeOK, NEW t \in Tables, NEW i \in Nat, Stored(t, i)
    PROVE  (Skipped => Skipped') /\ (Begun => Begun')
<1>1. Begun => Begun'
  BY StoredIds, Customers1 DEF Begun
<1>2. ASSUME Skipped PROVE Skipped'
  <2>1. ~HasId("customers", 1)'
    BY <1>2, StoredIds, Customers1 DEF Skipped
  <2>2. serial["customers"] \in Nat /\ serial["customers"] > 1
    BY <1>2, Customers1 DEF Skipped, TypeOK
  <2>3. serial'["customers"] \in {serial["customers"], serial["customers"] + 1}
    BY StoredRow, Customers1
  <2>4. serial'["customers"] \in Nat
    BY StoredRow, Customers1
  <2>5. QED
    BY <2>1, <2>2, <2>3, <2>4 DEF Skipped
<1>3. QED
  BY <1>1, <1>2

LEMMA SpentKeeps ==
    ASSUME TypeOK, NEW t \in Tables, Spent(t)
    PROVE  (Skipped => Skipped') /\ (Begun => Begun')
<1>1. Begun => Begun'
  BY SpentIds, Customers1 DEF Begun
<1>2. ASSUME Skipped PROVE Skipped'
  <2>1. ~HasId("customers", 1)'
    BY <1>2, SpentIds, Customers1 DEF Skipped
  <2>2. serial["customers"] \in Nat /\ serial["customers"] > 1
    BY <1>2, Customers1 DEF Skipped, TypeOK
  <2>3. serial'["customers"] \in {serial["customers"], serial["customers"] + 1}
    BY SpentId, Customers1
  <2>4. serial'["customers"] \in Nat
    BY SpentId, Customers1
  <2>5. QED
    BY <2>1, <2>2, <2>3, <2>4 DEF Skipped
<1>3. QED
  BY <1>1, <1>2

\* Once a generator in step is past its first row, there is the customer 0.
LEMMA InStepBegun ==
    ASSUME TypeOK, NEW k \in 1 .. 13, NEW i \in Nat, InStep(k, i), k > 1 \/ i > 0
    PROVE  Begun
<1>1. Rows(1, k, i) > 0
  BY CountIsPositive DEF Rows
<1>2. QED
  BY <1>1, InStepIds, Contents, 1 \in 1 .. 12 DEF Begun

\* The row accepted, the tables are in step with the next counter.
LEMMA InStepNext ==
    ASSUME TypeOK, NEW k \in 1 .. 12, NEW i \in Nat, i < Count(k), InStep(k, i),
           Stored(Table(k), i)
    PROVE  InStep(k, i + 1)'
<1> SUFFICES ASSUME NEW j \in 1 .. 12
             PROVE  /\ rows'[Table(j)] = Filled(Rows(j, k, i + 1))
                    /\ serial'[Table(j)] = Rows(j, k, i + 1) + 1
  BY DEF InStep
<1>1. rows[Table(j)] = Filled(Rows(j, k, i)) /\ serial[Table(j)] = Rows(j, k, i) + 1
  BY DEF InStep
<1>2. Table(j) \in Tables /\ Table(k) \in Tables
  BY TableIsIn
<1>3. CASE j = k
  <2>1. Rows(j, k, i) = i /\ Rows(j, k, i + 1) = i + 1
    BY <1>3 DEF Rows
  <2>2. /\ rows'[Table(j)] = Append(rows[Table(j)], <<i, serial[Table(j)]>>)
        /\ serial'[Table(j)] = serial[Table(j)] + 1
    BY <1>2, <1>3, StoredRow
  <2>3. QED
    BY <1>1, <2>1, <2>2, FilledNext
<1>4. CASE j # k
  <2>1. Rows(j, k, i + 1) = Rows(j, k, i)
    BY <1>4 DEF Rows
  <2>2. Table(j) # Table(k)
    BY <1>4, TablesDiffer
  <2>3. QED
    BY <1>1, <1>2, <2>1, <2>2, StoredRow
<1>5. QED
  BY <1>3, <1>4

-----------------------------------------------------------------------------
(***************************************************************************)
(* The inductive invariant                                                 *)
(***************************************************************************)

LEMMA InitIsInStep == Init => IInv
<1> SUFFICES ASSUME Init PROVE IInv
  OBVIOUS
<1>1. TypeOK
  BY DEF Init, New, TypeOK
<1>2. InStep(1, 0)
  BY <1>1, NewIsInStep DEF Init
<1>3. QED
  BY <1>1, <1>2 DEF Init, IInv, WithinLoop, FreshInStep, StaleFails, AtRest, Completed

LEMMA RecreateStep == IInv /\ Recreate => IInv'
<1> SUFFICES ASSUME IInv, Recreate PROVE IInv'
  OBVIOUS
<1>1. TypeOK'
  BY DEF IInv, TypeOK, Recreate, New
<1>2. (TypeOK => (New(rows, serial) <=> InStep(1, 0)))'
  BY NewIsInStep, PTL
<1>3. InStep(1, 0)'
  BY <1>1, <1>2 DEF Recreate
<1>4. run' = "none"
  BY DEF Recreate
<1>5. QED
  BY <1>1, <1>3, <1>4 DEF IInv, WithinLoop, FreshInStep, StaleFails, AtRest, Completed

LEMMA StartStep == IInv /\ Start => IInv'
<1> SUFFICES ASSUME IInv, Start PROVE IInv'
  OBVIOUS
<1>1. /\ TypeOK
      /\ at' = <<1, 0>> /\ run' = "loading" /\ fresh' = New(rows, serial)
      /\ rows' = rows /\ serial' = serial
  BY DEF IInv, Start
<1>2. TypeOK'
  <2>1. at' \in (1 .. 13) \X Nat /\ fresh' \in BOOLEAN
    BY <1>1 DEF New
  <2>2. QED
    BY <1>1, <2>1 DEF TypeOK
<1>3. WithinLoop'
  BY <1>1, Contents DEF WithinLoop
<1>4. FreshInStep'
  BY <1>1, NewIsInStep DEF FreshInStep, InStep
<1>5. InStep(1, 0) \/ Skipped \/ Begun
  <2>1. CASE run \in {"none", "failed"}
    BY <2>1 DEF IInv, AtRest
  <2>2. CASE run = "done"
    BY <2>2, <1>1, InStepBegun DEF IInv, Completed
  <2>3. QED
    BY <2>1, <2>2 DEF Start
<1>6. ~fresh' => Skipped' \/ Begun'
  BY <1>1, <1>5, NewIsInStep DEF Skipped, Begun, HasId, HasCounter
<1>7. StaleFails'
  BY <1>1, <1>6 DEF StaleFails
<1>8. AtRest' /\ Completed'
  BY <1>1 DEF AtRest, Completed
<1>9. QED
  BY <1>2, <1>3, <1>4, <1>7, <1>8 DEF IInv

\* Where a generator that is at work has come to.
LEMMA Position ==
    ASSUME IInv, run = "loading"
    PROVE  /\ at[1] \in 1 .. 12 /\ at[2] \in Nat /\ at[2] < Count(at[1])
           /\ at = <<at[1], at[2]>>
           /\ Table(at[1]) \in Tables
<1>1. at[1] \in 1 .. 12 /\ at[2] \in Nat /\ at[2] < Count(at[1]) /\ at = <<at[1], at[2]>>
  BY DEF IInv, TypeOK, WithinLoop
<1>2. QED
  BY <1>1, TableIsIn

\* A run on an old schema goes wrong where StaleFails says.
LEMMA StaleIsRefused ==
    ASSUME IInv, run = "loading", ~fresh, Accepts(Table(at[1]), at[2])
    PROVE  Skipped /\ at[1] < 4
<1>1. (Begun /\ at = <<1, 0>>) \/ (Skipped /\ (at[1] < 4 \/ at = <<4, 0>>))
  BY DEF IInv, StaleFails
<1>2. ~(Begun /\ at = <<1, 0>>)
  BY Contents DEF Accepts, Unique, Begun
<1>3. ~(Skipped /\ at = <<4, 0>>)
  <2> SUFFICES ASSUME Skipped, at = <<4, 0>> PROVE FALSE
    OBVIOUS
  <2>1. \A ref \in References("accounts", 0) : HasId(ref[1], ref[2])
    BY Contents DEF Accepts
  <2>2. References("accounts", 0) = Accounts(0)
    BY DEF References
  <2>3. Accounts(0) = {<<"customers", 1>>}
    BY DEF Accounts
  <2>4. <<"customers", 1>> \in References("accounts", 0)
    BY <2>2, <2>3
  <2>5. HasId("customers", 1)
    BY <2>1, <2>4
  <2>6. QED
    BY <2>5 DEF Skipped
<1>4. QED
  BY <1>1, <1>2, <1>3

\* The two ways a statement ends.
LEMMA StoredStep ==
    ASSUME IInv, Loading, Accepts(Table(at[1]), at[2]), Stored(Table(at[1]), at[2]), Proceed
    PROVE  IInv'
<1>1. run = "loading" /\ fresh' = fresh /\ TypeOK
  BY DEF Loading, IInv
<1>2. PICK k \in 1 .. 12, i \in Nat : at = <<k, i>> /\ i < Count(k) /\ Table(k) \in Tables
  BY <1>1, Position
<1>3. Count(k) \in Nat \ {0} /\ at[1] = k /\ at[2] = i
  BY <1>2, CountIsPositive
<1>4. \/ i + 1 < Count(k) /\ at' = <<k, i + 1>> /\ run' = "loading"
      \/ i + 1 = Count(k) /\ at' = <<k + 1, 0>> /\ k < 12 /\ run' = "loading"
      \/ i + 1 = Count(k) /\ at' = <<13, 0>> /\ k = 12 /\ run' = "summary"
  <2>1. at' = IF i + 1 < Count(k) THEN <<k, i + 1>> ELSE <<k + 1, 0>>
    BY <1>3 DEF Proceed
  <2>2. run' = IF at'[1] <= 12 THEN "loading" ELSE "summary"
    BY Contents DEF Proceed
  <2>3. i + 1 < Count(k) \/ i + 1 = Count(k)
    BY <1>2, <1>3
  <2>4. QED
    BY <2>1, <2>2, <2>3
<1>5. TypeOK'
  <2>1. at' \in (1 .. 13) \X Nat /\ run' \in {"loading", "summary"}
    BY <1>4
  <2>2. rows' \in [Tables -> Seq(Nat \X Nat)] /\ serial' \in [Tables -> Nat \ {0}]
    BY <1>1, <1>2, <1>3, StoredRow
  <2>3. fresh' \in BOOLEAN
    BY <1>1 DEF TypeOK
  <2>4. QED
    BY <2>1, <2>2, <2>3 DEF TypeOK
<1>6. WithinLoop'
  <2>1. CASE i + 1 < Count(k)
    BY <1>4, <2>1 DEF WithinLoop
  <2>2. CASE i + 1 = Count(k)
    <3>1. k < 12 => 0 < Count(k + 1)
      BY CountIsPositive
    <3>2. QED
      BY <1>4, <2>2, <3>1 DEF WithinLoop
  <2>3. QED
    BY <1>4, <2>1, <2>2
<1>7. ASSUME fresh
      PROVE  /\ i + 1 < Count(k) => InStep(k, i + 1)'
             /\ i + 1 = Count(k) => InStep(k + 1, 0)'
  <2>1. InStep(k, i)
    BY <1>1, <1>3, <1>7 DEF IInv, FreshInStep
  <2>2. InStep(k, i + 1)'
    BY <1>1, <1>2, <1>3, <2>1, InStepNext
  <2>3. ASSUME i + 1 = Count(k)
        PROVE  InStep(k + 1, 0)'
    <3>1. \A j \in 1 .. 12 : Rows(j, k, i + 1) = Rows(j, k + 1, 0)
      BY <2>3, CountIsPositive DEF Rows
    <3>2. QED
      BY <2>2, <3>1 DEF InStep
  <2>4. QED
    BY <2>2, <2>3
<1>8. FreshInStep'
  BY <1>1, <1>4, <1>7 DEF FreshInStep, InStep
<1>9. ~fresh => Skipped' /\ k < 4
  BY <1>1, <1>2, <1>3, StaleIsRefused, StoredKeeps
<1>10. StaleFails'
  BY <1>1, <1>4, <1>9 DEF StaleFails
<1>11. AtRest'
  BY <1>4 DEF AtRest
<1>12. Completed'
  <2>1. CASE run' = "loading"
    BY <2>1 DEF Completed
  <2>2. CASE run' = "summary"
    <3>1. k = 12 /\ i + 1 = Count(k)
      BY <1>4, <2>2
    <3>2. fresh
      BY <1>9, <3>1
    <3>3. InStep(13, 0)'
      BY <1>7, <3>1, <3>2 DEF InStep
    <3>4. QED
      BY <3>3 DEF Completed
  <2>3. QED
    BY <1>4, <2>1, <2>2
<1>13. QED
  BY <1>5, <1>6, <1>8, <1>10, <1>11, <1>12 DEF IInv

LEMMA FailedStep ==
    ASSUME IInv, Loading, Fail,
           \/ UNCHANGED <<rows, serial>>
           \/ Spent(Table(at[1]))
           \/ Stored(Table(at[1]), at[2])
    PROVE  IInv'
<1> DEFINE k == at[1]
           i == at[2]
<1>1. run = "loading" /\ run' = "failed" /\ at' = at /\ fresh' = fresh /\ TypeOK
  BY DEF Loading, IInv, Fail
<1>2. k \in 1 .. 12 /\ i \in Nat /\ i < Count(k) /\ at = <<k, i>> /\ Table(k) \in Tables
  BY <1>1, Position
<1>3. rows' \in [Tables -> Seq(Nat \X Nat)] /\ serial' \in [Tables -> Nat \ {0}]
  <2>1. CASE UNCHANGED <<rows, serial>>
    BY <1>1, <2>1 DEF TypeOK
  <2>2. CASE Spent(Table(k))
    BY <1>1, <1>2, <2>2, SpentId
  <2>3. CASE Stored(Table(k), i)
    BY <1>1, <1>2, <2>3, StoredRow
  <2>4. QED
    BY <2>1, <2>2, <2>3
<1>4. TypeOK'
  BY <1>1, <1>3 DEF TypeOK
<1>5. (Skipped => Skipped') /\ (Begun => Begun')
  <2>1. CASE UNCHANGED <<rows, serial>>
    BY <2>1 DEF Skipped, Begun, HasId, HasCounter
  <2>2. CASE Spent(Table(k))
    BY <1>1, <1>2, <2>2, SpentKeeps
  <2>3. CASE Stored(Table(k), i)
    BY <1>1, <1>2, <2>3, StoredKeeps
  <2>4. QED
    BY <2>1, <2>2, <2>3
<1>6. ASSUME fresh, at = <<1, 0>>
      PROVE  InStep(1, 0)' \/ Skipped' \/ Begun'
  <2>1. InStep(1, 0)
    BY <1>1, <1>6 DEF IInv, FreshInStep
  <2>2. Table(k) = "customers" /\ i = 0
    BY <1>6, Contents
  <2>3. CASE UNCHANGED <<rows, serial>>
    BY <2>1, <2>3 DEF InStep
  <2>4. CASE Spent(Table(k))
    <3>1. Rows(1, 1, 0) = 0 /\ Table(1) = "customers"
      BY Contents DEF Rows
    <3>2. serial["customers"] = 1
      BY <2>1, <3>1, 1 \in 1 .. 12 DEF InStep
    <3>3. serial'["customers"] = 2
      BY <1>1, <2>2, <2>4, <3>2, SpentId, Customers1
    <3>4. ~HasId("customers", 1)
      BY <1>1, <2>1, <3>1, InStepIds, 1 \in 1 .. 12
    <3>5. ~HasId("customers", 1)'
      BY <1>1, <2>2, <2>4, <3>4, SpentIds, Customers1
    <3>6. QED
      BY <3>3, <3>5 DEF Skipped
  <2>5. CASE Stored(Table(k), i)
    <3>1. HasCounter("customers", 0)'
      BY <1>1, <2>2, <2>5, StoredIds, Customers1
    <3>2. QED
      BY <3>1 DEF Begun
  <2>6. QED
    BY <2>3, <2>4, <2>5
<1>7. ASSUME fresh, at # <<1, 0>>
      PROVE  Begun'
  <2>1. InStep(k, i)
    BY <1>1, <1>7 DEF IInv, FreshInStep
  <2>2. k > 1 \/ i > 0
    BY <1>2, <1>7
  <2>3. Begun
    BY <1>1, <1>2, <2>1, <2>2, InStepBegun
  <2>4. QED
    BY <1>5, <2>3
<1>8. ASSUME ~fresh
      PROVE  Skipped' \/ Begun'
  BY <1>1, <1>5, <1>8 DEF IInv, StaleFails
<1>9. AtRest'
  BY <1>6, <1>7, <1>8 DEF AtRest
<1>10. WithinLoop' /\ FreshInStep' /\ StaleFails' /\ Completed'
  BY <1>1 DEF WithinLoop, FreshInStep, StaleFails, Completed
<1>11. QED
  BY <1>4, <1>9, <1>10 DEF IInv

LEMMA PrintSummaryStep == IInv /\ PrintSummary => IInv'
<1> SUFFICES ASSUME IInv, PrintSummary PROVE IInv'
  OBVIOUS
<1>1. /\ TypeOK /\ run = "summary" /\ run' \in {"done", "failed"}
      /\ rows' = rows /\ serial' = serial /\ at' = at /\ fresh' = fresh
  BY DEF IInv, PrintSummary
<1>2. TypeOK'
  BY <1>1 DEF TypeOK
<1>3. InStep(13, 0)
  BY <1>1 DEF IInv, Completed
<1>4. Begun
  BY <1>1, <1>3, InStepBegun
<1>5. Begun' /\ InStep(13, 0)'
  BY <1>1, <1>3, <1>4 DEF Begun, HasCounter, InStep
<1>6. QED
  BY <1>1, <1>2, <1>5 DEF IInv, WithinLoop, FreshInStep, StaleFails, AtRest, Completed

LEMMA NextKeepsInStep == IInv /\ [Next]_vars => IInv'
<1> SUFFICES ASSUME IInv, [Next]_vars PROVE IInv'
  OBVIOUS
<1>1. CASE Recreate
  BY <1>1, RecreateStep
<1>2. CASE Start
  BY <1>2, StartStep
<1>3. CASE Insert
  <2>1. CASE Accepts(Table(at[1]), at[2]) /\ Stored(Table(at[1]), at[2]) /\ Proceed
    BY <1>3, <2>1, StoredStep DEF Insert
  <2>2. CASE Spent(Table(at[1])) /\ Fail
    BY <1>3, <2>2, FailedStep DEF Insert
  <2>3. QED
    BY <1>3, <2>1, <2>2 DEF Insert
<1>4. CASE Interrupted
  BY <1>4, FailedStep DEF Interrupted
<1>5. CASE PrintSummary
  BY <1>5, PrintSummaryStep
<1>6. CASE UNCHANGED vars
  BY <1>6 DEF IInv, vars, TypeOK, WithinLoop, FreshInStep, StaleFails, AtRest, Completed,
              InStep, Skipped, Begun, HasId, HasCounter
<1>7. QED
  BY <1>1, <1>2, <1>3, <1>4, <1>5, <1>6 DEF Next

LEMMA StaysInStep == Spec => []IInv
BY InitIsInStep, NextKeepsInStep, PTL DEF Spec

\* Whatever went before, no statement of a run that began on a new schema is
\* refused: the generator's arithmetic leads every reference to a row that is
\* there, in all twelve loops.
THEOREM FreshRuns == Spec => []FreshRunsAreAccepted
<1>1. IInv => FreshRunsAreAccepted
  <2> SUFFICES ASSUME IInv, run = "loading", fresh
               PROVE  Accepts(Table(at[1]), at[2])
    BY DEF FreshRunsAreAccepted
  <2>1. InStep(at[1], at[2]) /\ TypeOK
    BY DEF IInv, FreshInStep
  <2>2. QED
    BY <2>1, Position, InStepAccepts
<1>2. QED
  BY <1>1, StaysInStep, PTL

\* However often the generator has been interrupted and started again, a run
\* that comes to its end leaves every table complete, without a row twice.
THEOREM Completeness == Spec => []CompleteMeansComplete
<1>1. IInv => CompleteMeansComplete
  <2> SUFFICES ASSUME IInv, run \in {"summary", "done"}, NEW k \in DOMAIN Generated
               PROVE  rows[Table(k)] = [n \in 1 .. Count(k) |-> <<n - 1, n>>]
    BY DEF CompleteMeansComplete
  <2>1. k \in 1 .. 12
    BY Contents
  <2>2. rows[Table(k)] = Filled(Rows(k, 13, 0))
    BY <2>1 DEF IInv, Completed, InStep
  <2>3. Rows(k, 13, 0) = Count(k)
    BY <2>1 DEF Rows
  <2>4. QED
    BY <2>2, <2>3 DEF Filled
<1>2. QED
  BY <1>1, StaysInStep, PTL
==============================================================================
