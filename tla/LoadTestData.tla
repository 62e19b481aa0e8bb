----------------------------- MODULE LoadTestData -----------------------------
(***************************************************************************)
(* The data generator (bin/load_test_data.rs): twelve loops that insert    *)
(* one row per statement, each statement committed by itself, into the     *)
(* tables of tests/test_schema.sql.  The references between the tables are *)
(* computed from the loops' counters, in the belief that a serial column   *)
(* hands out 1, 2, 3 ...; a statement that fails ends the program, and     *)
(* nothing is undone.  The schema may be created anew between two runs, as *)
(* tests/setup_and_test.sh does, or not.                                   *)
(*                                                                         *)
(* A row is its loop counter and its id.  The columns that no other table  *)
(* and no UNIQUE refers to are left out.                                   *)
(***************************************************************************)
EXTENDS Naturals, Sequences, FiniteSets, SequencesExt

CONSTANT MaxRuns        \* bound: runs of the generator

ASSUME MaxRunsAssumption == MaxRuns \in Nat

VARIABLES
    rows,       \* the rows of each table
    serial,     \* the id that each table's sequence hands out next
    at,         \* the table and the counter that the generator has come to
    run,        \* "none", "loading", "summary", "done", "failed"
    runs,       \* runs so far
    fresh       \* history: the schema was new when this run began

vars == <<rows, serial, at, run, runs, fresh>>

-----------------------------------------------------------------------------
(***************************************************************************)
(* What main() generates, in its order.                                    *)
(***************************************************************************)
Generated ==
    <<<<"customers", 500>>, <<"categories", 15>>, <<"products", 200>>,
      <<"accounts", 400>>, <<"inventory", 200>>, <<"orders", 1000>>,
      <<"order_items", 3000>>, <<"invoices", 1000>>, <<"payments", 800>>,
      <<"subscriptions", 300>>, <<"transactions", 2000>>, <<"audit_logs", 500>>>>

Tables == {Generated[k][1] : k \in DOMAIN Generated}
Table(k) == Generated[k][1]
Count(k) == Generated[k][2]

\* The rows that row i of a table refers to.
Customers(i) == {}
Categories(i) == {}
Products(i) == {<<"categories", (i % 15) + 1>>}
Accounts(i) == {<<"customers", (i % 500) + 1>>}
Inventory(i) == {<<"products", (i % 200) + 1>>}
Orders(i) == {<<"customers", (i % 500) + 1>>}
FaultyOrderItems(i) == {<<"orders", i \div 3 + 2>>, <<"products", (i % 200) + 1>>}
OrderItems(i) == {<<"orders", i \div 3 + 1>>, <<"products", (i % 200) + 1>>}
Invoices(i) == {<<"orders", i + 1>>}
Payments(i) == {<<"invoices", ((i * 7) % 1000) + 1>>}
Subscriptions(i) == {<<"customers", (i % 500) + 1>>}
Transactions(i) == {<<"accounts", ((i * 3) % 400) + 1>>}
AuditLogs(i) == {}      \* its user_id is a number and no reference

References(t, i) ==
    CASE t = "customers" -> Customers(i)
      [] t = "categories" -> Categories(i)
      [] t = "products" -> Products(i)
      [] t = "accounts" -> Accounts(i)
      [] t = "inventory" -> Inventory(i)
      [] t = "orders" -> Orders(i)
      [] t = "order_items" -> OrderItems(i)
      [] t = "invoices" -> Invoices(i)
      [] t = "payments" -> Payments(i)
      [] t = "subscriptions" -> Subscriptions(i)
      [] t = "transactions" -> Transactions(i)
      [] t = "audit_logs" -> AuditLogs(i)

\* email, name and invoice_number are UNIQUE and made of the counter.
Unique == {"customers", "categories", "invoices"}

-----------------------------------------------------------------------------
New(r, s) == /\ r = [t \in Tables |-> <<>>]
             /\ s = [t \in Tables |-> 1]

Init ==
    /\ New(rows, serial)
    /\ at = <<1, 0>>
    /\ run = "none"
    /\ runs = 0
    /\ fresh = TRUE

\* psql < tests/test_schema.sql: every table is dropped and created.
Recreate ==
    /\ run \in {"none", "done", "failed"}
    /\ New(rows', serial')
    /\ run' = "none"
    /\ UNCHANGED <<at, runs, fresh>>

Start ==
    /\ run \in {"none", "done", "failed"}
    /\ runs < MaxRuns
    /\ runs' = runs + 1
    /\ run' = "loading"
    /\ at' = <<1, 0>>
    /\ fresh' = New(rows, serial)
    /\ UNCHANGED <<rows, serial>>

\* Does a table have a row whose counter or whose id is n?
HasCounter(t, n) == \E k \in DOMAIN rows[t] : rows[t][k][1] = n
HasId(t, n) == \E k \in DOMAIN rows[t] : rows[t][k][2] = n

Accepts(t, i) ==
    /\ t \in Unique => ~HasCounter(t, i)
    /\ \A ref \in References(t, i) : HasId(ref[1], ref[2])

Stored(t, i) ==
    /\ rows' = [rows EXCEPT ![t] = Append(@, <<i, serial[t]>>)]
    /\ serial' = [serial EXCEPT ![t] = @ + 1]

\* The sequence has moved on, whether the row is stored or not.
Spent(t) == rows' = rows /\ serial' = [serial EXCEPT ![t] = @ + 1]

FaultyProceed ==
    /\ at' = IF at[2] < Count(at[1]) THEN <<at[1], at[2] + 1>> ELSE <<at[1] + 1, 0>>
    /\ run' = IF at'[1] <= Len(Generated) THEN "loading" ELSE "summary"

\* The loop goes on, and after it the next one.
Proceed ==
    /\ at' = IF at[2] + 1 < Count(at[1]) THEN <<at[1], at[2] + 1>>
             ELSE <<at[1] + 1, 0>>
    /\ run' = IF at'[1] <= Len(Generated) THEN "loading" ELSE "summary"

Fail == at' = at /\ run' = "failed"

Loading == run = "loading" /\ UNCHANGED <<runs, fresh>>

\* client.execute(INSERT).await?
Insert ==
    /\ Loading
    /\ LET t == Table(at[1]) IN
        \/ Accepts(t, at[2]) /\ Stored(t, at[2]) /\ Proceed
        \/ ~Accepts(t, at[2]) /\ Spent(t) /\ Fail

\* The connection or the process ends with a statement on its way: it may not
\* have begun, it may be undone, and it may have been committed.
Interrupted ==
    /\ Loading
    /\ LET t == Table(at[1]) IN
        \/ UNCHANGED <<rows, serial>>
        \/ Spent(t)
        \/ Accepts(t, at[2]) /\ Stored(t, at[2])
    /\ Fail

\* print_summary(): what it counts is what there is.
PrintSummary ==
    /\ run = "summary"
    /\ run' \in {"done", "failed"}
    /\ UNCHANGED <<rows, serial, at, runs, fresh>>

Next == Recreate \/ Start \/ Insert \/ Interrupted \/ PrintSummary

Spec == Init /\ [][Next]_vars

-----------------------------------------------------------------------------
(***************************************************************************)
(* Properties                                                              *)
(***************************************************************************)

\* On a schema just created no statement of the generator is ever refused: each
\* reference computed from a counter is the id of a row inserted before.
FreshRunsAreAccepted ==
    run = "loading" /\ fresh => Accepts(Table(at[1]), at[2])

\* "Data generation complete!": however often the generator was interrupted and
\* started again, with or without a new schema, a run that comes to its end
\* leaves every table with each of its rows once, under the ids 1, 2, 3 ...
CompleteMeansComplete ==
    run \in {"summary", "done"} =>
        \A k \in DOMAIN Generated :
            rows[Table(k)] = [n \in 1 .. Count(k) |-> <<n - 1, n>>]
=============================================================================
