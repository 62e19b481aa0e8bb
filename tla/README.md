# Verification of mcp-pg-rust

TLA+ modules, TLC configurations and TLAPS proofs about the MCP server for
PostgreSQL in this repository. Paths below are relative to the repository's
root (`src/lockfree_pool.rs` is the file of that name in the crate).

Every definition is translated from the Rust source. What is not in the
repository (tokio's `Notify`, the PostgreSQL server) is modelled from how the
source uses it and is marked `external` in `PROJECT.json`. Beside the server the
repository has a generator of test data (`src/bin/load_test_data.rs`), which is
modelled too.

## 1. The system

The program is one process: it reads JSON-RPC requests over stdio, TCP or HTTP,
turns a `tools/call` into SQL, sends it over a connection borrowed from a pool
of PostgreSQL connections, and answers with the rows as JSON.

```
 stdio / TCP / HTTP          server.rs, http.rs, protocol.rs, auth.rs
        |  one request at a time per connection (stdio, TCP), any number (HTTP)
        v
 dispatch and gates          server.rs, tools.rs, config.rs
        |  acquire()                            ^  drop of PooledConnection
        v                                       |
 lock-free pool  <-- creation closure, validator (pool.rs)
        |  &Client
        v
 tools                       actions/*.rs  -- statements -->  PostgreSQL
                                              (sessions, catalogue, tables)
```

### Inventory

| Component | State it keeps | Operations | What is hard | What makes it correct |
|---|---|---|---|---|
| **Lock-free pool** `lockfree_pool.rs` | atomic `size`, atomic `closed`, bounded queue of idle connections, a `Notify` | `acquire`, `create_one`, `return_conn`, `take`, `close`, `status` | every access is a separate atomic step of a multi-threaded runtime; lost wake-ups; deadlines racing wake-ups; futures dropped at an `await`; `close` at any time | never more than `max_size` connections; the counter is exact; a return finds room; nobody sleeps on a free pool; `acquire` ends; a closed pool only shrinks |
| **Pool of PostgreSQL clients** `pool.rs` | the pool above | creation closure (TLS or not, session settings), validator (`is_closed`) | the validator sees the socket, not the session | a lent connection is usable |
| **Write tools** `actions/query.rs`, `actions/batch.rs` | none of their own: the session of the borrowed connection | `execute_*`, `async_execute_*`, `async_sync_commit_*`, `async_batch_*` | several statements with an `await` and a failure point each; a handler dropped between two; a connection that breaks after COMMIT took effect; the session outlives the request | an answer means committed, an error means undone, all or nothing, and the connection is given back outside any transaction |
| **Dispatch and gates** `server.rs`, `tools.rs`, `config.rs` | configuration | `handle_tools_call`: lookup, category, access mode, import gate, loan of a connection | the gates must be passed before the loan | a read-only server runs no write tool |
| **Transports** `server.rs`, `http.rs`, `protocol.rs`, `auth.rs` | per connection: line buffer, handshake done or not | read a line, handshake, dispatch, write the answer | handshake timeout against a late token; a line at its limit; UTF-8 split over two chunks; notifications | no request before the token, one answer per request, in order |
| **Metrics** `metrics.rs` | sharded counters, published totals | record, drain, snapshot | drain concurrent with recording | nothing is lost or counted twice |
| **Import and export** `actions/data_io.rs`, `ssrf.rs` | the session | optional TRUNCATE, COPY, download | the TRUNCATE is committed before the download begins | a failed import stores no row of its own |
| **Multi-statement schema tools** `actions/schema.rs` | the database's catalogue | `backup_table`, `alter_view`, `alter_index`, `generate_create_table_ddl` | several statements outside a transaction; bare and quoted names | the original is spared, what a backup answers is true, an answer speaks of one table |
| **Single-statement DDL, users and roles** `actions/schema.rs`, `schema_alter.rs`, `schema_health.rs`, `user_mgmt.rs` | the catalogue | 32 tools, one statement each | half of them quote schema and name, the others paste a bare name that the server folds | only what was asked for is changed |
| **Reports on the schema** `actions/schema.rs`, `schema_health.rs`, `migration_helpers.rs`, `health.rs` | none | one catalogue query each | some join by names, some by oid | two reports on one thing agree |
| **Reports on the server's activity** (9 files of `actions/`) | none | one query of a statistics view each | - | - |
| **Maintenance, session, database and extension tools** (8 files of `actions/`) | none | one statement each | wording of SQL | - |
| **Test-data generator** `src/bin/load_test_data.rs` | the twelve tables it fills | twelve loops of single INSERTs | references computed from loop counters; an interrupted run leaves a prefix | a run that completes leaves every table complete |
| **Load and latency programs** (4 files of `src/bin/`) | counters and timings | sequential requests | - | - |
| **Start-up, configuration, TLS** `main.rs`, `lib.rs`, `config.rs`, `tls.rs` | configuration | runs once | - | - |
| **Errors and identifier checks** `errors.rs`, `validation.rs` | none | pure functions | - | an accepted identifier cannot end its quotes |

The hazards, each at its line, are in `PROJECT.json`; the few that no property
covers say why there.

## 2. Modules

| Module | Models | Kind |
|---|---|---|
| `TokioNotify` | `tokio::sync::Notify` as the pool uses it (external) | operators |
| `LockFreePool` | `lockfree_pool.rs` with the hooks of `pool.rs` | state machine |
| `ConnectionBudget` | what the pool promises about the number of connections | abstract specification |
| `ToolTransactions` | `actions/query.rs`, `batch.rs`, `data_io.rs`, the loan in `server.rs`, the sessions of `pool.rs` | state machine |
| `LineReader` | `read_line_capped()` of `server.rs`, and tokio's `read_line` for stdin | state machine |
| `RpcServer` | `server.rs` (links, gates, loan), `http.rs`, `metrics.rs` | state machine |
| `Catalogue` | PostgreSQL's catalogue and the rules of DDL (external) | operators |
| `DdlTools`, `UserTools` | the single-statement tools, as steps on the catalogue | actions |
| `SchemaReports` | the reports, as functions of the catalogue | operators |
| `SchemaTools` | the multi-statement tools; composes the three above | state machine |
| `LoadTestData` | `src/bin/load_test_data.rs` | state machine |
| `MCLockFreePool`, `MCToolTransactions`, `MCRpcServer`, `MCSchemaTools`, `MCLineReader` | small instances and their symmetry | for TLC |
| `TokioNotify_proofs`, `LockFreePool_proofs`, `PoolWakeups_proofs`, `ToolTransactions_proofs`, `RpcServer_proofs`, `LineReader_proofs`, `SchemaTools_proofs`, `LoadTestData_proofs` | theorems | proofs |

The modules meet where the parts do. `LineReader` hands lines to `RpcServer`, whose
gates and loan stand before a tool; `ToolTransactions` is what a tool does with the
connection it was lent; `LockFreePool` is how it was found, and `ConnectionBudget` the
promise the others rely on; `SchemaTools` is what the statements of a tool do to the
database.

### TokioNotify

A record: the one stored `permit`, the `queue` of registered waiters in order,
and for every task the state of its `Notified` future (`none`, `created`,
`stale`, `waiting`, `one`, `all`). `NotifyOne` takes the head of the queue or
stores the permit (which does not accumulate), `NotifyWaiters` wakes everyone
registered and marks the futures that exist but were not polled, `Consume` is a
successful poll, and `DropNotified` is the destructor: a future that was chosen
by `notify_one` and is dropped before it was polled passes the wake-up on. That
last rule is what the race of a deadline with a wake-up depends on.

### LockFreePool

One action is one access to shared state. The control points (`pc`) follow the
program text:

| `pc` | Next access | Code |
|---|---|---|
| `rest` -> `pop` | read `closed` | start of `acquire()` |
| `pop` | fast path: pop, validate | `acquire()` |
| `check` | read `closed` at the head of the loop | `acquire()` |
| `load` | read `size`: reserve, refuse, or park | `acquire()` |
| `cas` | `compare_exchange_weak` | `acquire()` |
| `create`, `opening` | read `closed`; the connection attempt | `create_one()` |
| `park`, `wait` | `notified()`; `select!` of it and the deadline | `acquire()` |
| `woken`, `last` | pop after a wake-up; the last pop after the deadline | `acquire()` |
| `held` | the caller owns a `PooledConnection` | - |
| `return` | push | `return_conn()` |
| `discard`, `free` | `size.fetch_sub(1)` | six places, one shape |
| `discardNote`, `freeNote` | `notify.notify_one()` | the statement after it |

`discard` continues in the loop of `acquire()`, `free` ends the operation.
Popping and validating are one action, because the popped connection is private
to the task. `Pop` may fail to validate any connection; `LoseRace` may happen
without a competitor, since the exchange is the weak one. `cur` is the stale copy
of the counter between the load and the exchange; `deadline` is anchored on the
first saturated pass only. `CancelWait` and `CancelCreate` drop the future at its
two awaits. `close()` is four actions, so every task may run between storing the
flag, waking the waiters, popping each idle connection and decrementing.
`status()` only reads and has no action.

A connection is represented by the place that accounts for it and not by an
identity: `idle` counts the queue, and a control point in `LivePcs` means that
the task owns one. Identities would only matter for the sessions, which
`ToolTransactions` models.

### ConnectionBudget

Three counts (`idle`, `opening`, `lent`) and the `closed` flag: a connection is
opened while fewer than `MaxSize` exist and the pool is not closed, arrives or
fails, is lent, returned or dropped. It knows nothing of counters, reservations or
waiters. `LockFreePool` implements it under `opening <- |opening tasks|` and
`lent <- |held or returning tasks|`; `ImplementsBudget` is checked by TLC and
proved.

### ToolTransactions

The connections are the pool's slots. Each has the server's side of its session:
alive or not, in no transaction, in an open one or in a failed one, and the writes
held by it. A request borrows a free connection, chooses a family of tools and
then takes one action per awaited statement:

| Family (`kind`) | Statements | Code |
|---|---|---|
| `read`, `call`, `write` | one statement on its own; a `call` is a query that calls a function that writes | `execute_*`, every single-statement tool |
| `async` | BEGIN, SET LOCAL, statement, COMMIT | `async_sync_commit_execute` |
| `batch` | BEGIN, SET LOCAL, one INSERT, COMMIT | `async_batch_insert` and its kind |
| `copy` | BEGIN, SET LOCAL, an INSERT per chunk, COMMIT | `async_batch_insert_copy` |
| `import` | COPY with a download | `import_from_url` |
| `refill` | TRUNCATE, COPY with a download | `import_from_url` with `truncate` |

A handler that finds a parameter missing, no identifier or too large, or no rows to
insert, sends nothing (`Refuse`). Every statement may fail. BEGIN and SET LOCAL
return by their own `?`, without ROLLBACK (`OpeningFails`); COMMIT
either rolls back, as a deferred constraint makes it do, or is
cancelled and fails the transaction (`CommitFails`); the answer of ROLLBACK is
not looked at, so the handler goes on alike whether it worked or not (`Rollback`).
The connection may break before (`Break`) or after (`BreakAfter`) a statement took effect, and a
handler may be dropped in any await (`Cancel`), the statement in flight having
happened or not. The server's rules are small and external: BEGIN inside a
transaction is a warning, a failed transaction refuses everything but its end, and
COMMIT of a failed transaction rolls back without an error. `LateError` is the
`?` of a check made after BEGIN. An import opens its COPY before the download starts,
and the download may break off (`DownloadFails`), which drops the sink and fails the
COPY; the TRUNCATE of a `refill` is committed by then, and it is the one write that
an import may leave behind an error.

In a restricted server the gates pass only reads, but a query may call a function. What
stops that function is the session's read-only default, which the creation closure
sets on every connection (`NewSession`), also on one that replaces a broken
one. The model assumes that no query changes its session's settings
(`set_config`): the text of a query is not modelled.

`committed` is visibility to other sessions. The tools turn
`synchronous_commit` off on purpose, so whether a committed write survives a crash
of the database server is outside the model.

Properties of this module are promises to requests that are not `Spoiled`.
A request is spoiled when its own handler was dropped, when it failed one of the
late checks itself, or when it borrowed a connection already in a transaction, an open
or a failed one. The promises therefore say nothing about the requests that the
findings 4 and 5 of section 5 harm directly; the run `tool_transactions` keeps both
defects in the model and shows that the damage is confined to those requests, and
`tool_transactions_leak` shows the damage. An error of BEGIN, SET LOCAL, COMMIT or
ROLLBACK does not spoil a request: `GivesBackClean` says of such a request that the
transaction which it leaves is at worst a failed one.

### LineReader

A byte is a newline, the first or second half of a character, or a character of its
own. `Fill` is `fill_buf()`: any piece that the socket may deliver, up to
`BUFFER_CAPACITY`. On TCP (`capped`) the piece up to the newline is measured against
`MAX_REQUEST_BYTES` before it is taken (`TooLong`), then checked as UTF-8 by itself
(`Malformed`), then appended (`TakePiece`). On stdin tokio's `read_line` takes
everything and checks the whole line. `EndOfStream` hands on what is left of a last
line. The client's stream is chosen at the start and never changes, so that the
properties can compare the lines with it.

### RpcServer

A link is a TCP connection, or standard input when no token is asked for. Its task
authenticates, then reads a line, handles it, answers it, and only then reads the
next. An HTTP request is a task of its own. The steps between two awaits or two
accesses to shared state are one action: `ReadLine` counts the request, parses it and
takes it where `Route` and `Gate` send it, so `failed`, `reply` and `acquire` are the
three things that can happen next.

| Action | Code |
|---|---|
| `Trickle`, `Authenticate`, `Reject`, `EndHandshake` | the handshake of `handle_client`: a piece of the first line, the token, another line, none |
| `TimeOut`, `ExpireHandshake` | `AUTH_HANDSHAKE_TIMEOUT` passes; the task is polled and finds it so |
| `ReadLine`, `EndOfInput` | the loop of `handle_client` (and `run_stdio`), `parse_request`, `process_request` up to its first await |
| `Post`, `RefusePost`, `Abandon`, `Respond` | `handle_rpc`; a handler whose client goes away is dropped in an await |
| `Borrow`, `BorrowFails`, `Finish` | `pool.acquire().await?` and `drop(client)` in `handle_tools_call` |
| `Fail` | `inc_errors()` and the error answer |
| `Reply`, `ReplyFails` | the end of `process_one_line` |
| `Swap`, `Publish` | `drain_counters()` and the task that publishes |

The 133 tools fall into the classes that the gates tell apart (not named,
hidden by its category, reading, writing, the import). What a tool does with its
connection is `ToolTransactions`, how the pool finds it is `LockFreePool`; here a loan
is granted while fewer than `PoolSize` are out, or refused, as `ConnectionBudget` and
`AcquireFinishes` allow.

A shard is chosen anew at every increment, because a task may be polled by another
thread after each await: an error can be counted on another shard than its request,
and the published errors can be ahead of the published requests for a second.
`NothingLost` and `AllPublished` are what does hold.

The first line is read under one timeout, however many pieces it comes in. Between the
moment at which the time is up and the next poll of the task its end may still arrive, and
is then found first.

Over HTTP a request without `id` is answered (with `id` null), on a link it is not;
`AnswersInOrder` speaks of links.

### Catalogue, DdlTools, UserTools, SchemaReports

A catalogue is a record: schemas, relations by oid (kind, schema, name, what it belongs
to, columns, key), foreign keys, roles and grants. `Catalogue` has the server's rules
that the tools rely on: a name is unique in its schema, an unquoted name is folded to
lower case and looked up in `public`, a drop takes along what belongs to the relation
and is refused, or cascades, when something else depends on it. `Consistent` is what the
server keeps true of a catalogue whatever it is told to do: unique names, and nothing that
is of, on or through a relation, a column or a role that is not there. Rows, defaults,
nullability, sub-partitions and views of views are left out, and so are tables that have
partitions and indexes or foreign keys as well: the server repeats each of those on every
partition. A partitioned table may have either, and a partition its own indexes, so that
`Unsplit` and `CreatePartition` are the only places that know of the restriction.

`DdlTools` has an action per tool. `BareTool` are those of `schema.rs`, which paste a
bare name; `QualifiedTool(s)` are those that quote both the schema `s` and the name. A
refused statement changes nothing, so only accepted ones are steps. To rename the index
of a key is to rename its constraint, which must be free on its table (`Renamable`).
The server chooses the
names of the indexes that `create_table` and `clone_table_schema` make (`AutoNames`: any
that is free). `UserTools` has the
tools of `user_mgmt.rs`; `ObjectsOf` is what a grant is about: the `schema` parameter
counts only for `all_tables_in_schema`. `Meant` is what the description of the tool says it
is about, which `PrivilegeTool(s)` records in `asked`. `SchemaReports` translates fourteen queries,
each a function of the catalogue at its moment, with the joins as they are written.

### SchemaTools

A request is a `job`: its tool, its control point and what its earlier statements
read. Between two statements of one request any other tool may run, another request
may proceed, a statement may fail, or the process may end.

| Tool | Control points | Code |
|---|---|---|
| `backup_table` | `exists`, `free`, `create`, `columns`, `list`, (`define`, `build`)*, `count` | `schema.rs` |
| `alter_view`, `alter_index` | `rename`, `move` | `schema.rs` |
| `generate_create_table_ddl` | `read`, `key` | `migration_helpers.rs` |

`BuildIndex` is the textual `replace()` of the backup, applied to the `Definition` that
`pg_indexes` shows. `Replaced` is what becomes of the two names after `ON`: a name that needs
quotes is not found, nor is the one after the `ON ONLY` of a partitioned table, and
`ON t` is found as well where the schema's name begins with that of the table
(`Beginning`; a table `p` in `public`). `Garbled` is the second `replace()`, which puts the
new name of the index wherever its old one occurs in the text (`OccursIn`: in a column, a
table, a keyword), and so leaves no statement that could succeed. A failed CREATE
INDEX is forgiven and counted in `lost`. `MoveSecond`
looks for the view under the name that the call gave. `GetObjectDetails` decodes a bigint as an f64;
the panic ends the process (`panic = "abort"`) and every request with it.
`alone` and `asked` are history: the first says that nobody else has changed the
catalogue since a request began, and the promises are made under it; the second is the schema
that the last call named.

### LoadTestData

The program's twelve loops with their real counts. A row is its loop counter and its
id; `References` are the foreign keys computed from counters, `Unique` the tables with
a unique value. `Insert` is one statement, committed by itself; a refused one spends
an id and ends the program. `Interrupted` is the end of connection or process with a
statement on its way. Between two runs the schema may be created anew (`Recreate`), as
`tests/setup_and_test.sh` does, or not.

## 3. Runs

| Run | Instance | Distinct states | Properties |
|---|---|---|---|
| `pool_close` | 4 tasks, 2 connections, `close()` at any time, one cancelled creation | 1,808,266 | `TypeOK`, `LiveBound`, `SizeAccounting`, `PushFindsRoom`, `NeverWedged`, `ClosedOnlyShrinks`, `ImplementsBudget` |
| `pool_handoff` | 3 tasks, 1 connection, callers return | 65,431 | `NoIdleWhileAsleep`; `SleeperWoken` without deadlines |
| `pool_wait_close` | 2 tasks, 1 connection, `close()`, with and without a wait budget, callers may keep connections | 9,852 | `AcquireFinishes` |
| `tool_transactions` | 3 requests, 2 connections, 2 chunks, one dropped handler, late errors, open and restricted server | 2,228,212 | `TypeOK`, `AnsweredIsCommitted`, `RefusedIsUndone`, `AllOrNothing`, `RestrictedOnlyReads`, `GivesBackClean`, `NothingAfterAnswer` |
| `rpc_server` | one link of two lines, one HTTP request, 2 shards, 1 loan, with a token in a read-only server and without | 434,198 | `TypeOK`, `AnswersInOrder`, `NothingLost`, `AllPublished`, `LoanEnds`, `HandshakeEnds` |
| `schema_tools` | 2 requests, 2 calls, 8 oids, 3 starting catalogues | 290,040 | `TypeOK`, `BackupAnswerIsTrue`, `DdlIsTheTable`, `ReportsAgree`, `BackupSparesOriginal`, `OnlyTheSchemaAsked` |
| `line_reader` | every stream of up to 6 bytes, buffer of 3, limit of 4, TCP and stdin | 516,943 | `LinesAreTheStream`, `RefusedForCause` |
| `load_data` | the real row counts, 2 runs | 161,726 | `FreshRunsAreAccepted`, `CompleteMeansComplete` |
| `pool_size` | 2 tasks, 2 connections, `close()`, one cancelled creation | violated | `QuietSize`: findings 1 and 2 |
| `pool_idle_while_asleep` | 4 tasks, 2 connections | violated | `NoIdleWhileAsleep`: finding 3 |
| `tool_transactions_leak` | 2 requests, 2 connections, late errors, no dropped handler | violated | `IdleIsClean`: findings 4 and 5 |
| `schema_descriptions` | 2 requests, 3 calls, one starting catalogue | violated, 14 states deep | `SomeDescriptionHolds`: findings 6 to 11 |

What the less obvious properties say:

- `NeverWedged`: in an open pool that has lost no slot, while a task sleeps another is
  awake in the pool or holds a connection. A sleeper depends on others, never on its
  own deadline alone.
- `RefusedIsUndone`, `AllOrNothing`: an error means that nothing was written, and at no
  moment is part of a request visible (but for the TRUNCATE of an import).
- `NothingAfterAnswer`: nothing of a request is committed once it is answered,
  whoever borrows its connection next.
- `LinesAreTheStream`, `RefusedForCause`: however the bytes are cut into reads, the
  lines are the stream; a reader fails only for a line that is too long or no UTF-8, or,
  on TCP alone, because a read ended within a character.
- `GivesBackClean`: a request that nothing spoils never gives its connection back in an
  open transaction, on any path of its handler; in a failed one only after an error of
  SET LOCAL, COMMIT or ROLLBACK, which the code does not look at, or returns by a `?`.
- `HandshakeEnds`: a client that sends one piece of a line after the other, and never
  the end, does not hold its task for ever: the timeout is around the whole line and not
  around each of its pieces.
- `BackupAnswerIsTrue`, `BackupSparesOriginal`: left alone, a backup has every column,
  its answer counts the columns and indexes that it really has, each of these is on the
  columns of one of the original's, and what is missing is what was given up; and
  whatever others do meanwhile, no step of it changes the table it backs up. That a backup has
  all the indexes is not among them: see finding 6. Both speak of
  names that need no quotes: the definition of an index on `"A"`, or on a table in a
  schema `"S"`, is not what `replace()` looks for (`schema.rs:1131-1137`), and the index
  then goes where the definition says, to the original. So does one on a partitioned
  table, which `pg_indexes` shows with `ON ONLY`.
- `DdlIsTheTable`: the two queries of `generate_create_table_ddl` describe one table,
  unless a constraint of the same name exists elsewhere.
- `OnlyTheSchemaAsked`: a tool that was told a schema changes no relation of another,
  except the views that a cascade drops.
- `ReportsAgree`: the reports that join by names and those that join by
  oid tell the same story in every catalogue that the tools can produce; two indexes
  alike in kind are reported as duplicates, and a foreign key is reported as missing an index
  exactly when the indexes shown for its table do not have its column.
- `CompleteMeansComplete`: however often the generator was interrupted and started
  over, a run that reaches its end leaves every table with each row once.

**Bounds.** Tasks must outnumber connections by two for the interesting cases: one
sleeper that is woken, and a competitor that takes what the sleeper was woken for;
`pool_close` has two connections and two more tasks, and contains every behaviour of a
pool that is never closed. `MaxSize = 2` tells a reserved
slot from a full pool, and lets two returns happen while one waiter sleeps.
`SizeModulus = 8` stands for 2^32: it exceeds every legal value of the counter, and
a decrement below zero is visible as 7. The runs with fairness are smaller, because
liveness forbids symmetry; one connection and one competitor for it are what a
sleeper can starve of. `MaxLeaks = 1` is one cancelled creation;
each further one only takes another slot away. For `ToolTransactions` three
requests let one leave a transaction behind, a second write into it and a third
commit it; two connections let an unspoiled request run beside them; two chunks let
a request fail between its own writes; one dropped handler is enough to leave a
transaction open. For `RpcServer` a second line is what an
answer can be confused with, the HTTP request competes for the only loan and for the
counters, and with two shards the drain is inside one while the other is written.
For `RpcServer` a piece of a first line only has to differ from the
one before it, so `heard` is their parity. For `SchemaTools` two requests interleave with each other (two backups of one table, a
backup of what the other renames), and of the two calls one may be any other tool. The
starting catalogues supply what two calls alone would not reach: a table and its key
under the same names in two schemas; names in both cases, an index with the name of its
column (which garbles its definition), a foreign key; a partitioned table with a view
and a partition `p`, with which `public` begins, that has an index of its own. Of the schemas
`S` needs quotes, which a renamed schema may. `Oids` leaves
room for three new relations over the largest. For `LineReader` four bytes are a line at the limit, a fifth
exceeds it, six bytes hold a second line, and a buffer of three is smaller than a line,
so that every line can be cut anywhere. `LoadTestData` needs no bound but two runs: one
that is interrupted and one over its remains.
`schema_descriptions` begins with one catalogue in which every one of the six tools has
something to stumble over, and looks for one behaviour in which all do: three calls
are what that takes (a backup, an `alter_view` and a grant; the others are reports and
only need to be looked at).
Symmetry is used only in runs without liveness properties, over
tasks, requests and connections, none of which the modules tell apart.

**Deadlock.** Where the pool stays open TLC checks that some task can always move, and
so it does in `rpc_server`. `CHECK_DEADLOCK FALSE` is given where the system may really
stop: after `close()` every task ends at rest, every request of `ToolTransactions` ends
answered, the calls of `SchemaTools` are used up, a stream has been read, the generator
has ended.

**Fairness.** `FairSpec` is weakly fair for each task's own steps (the runtime
polls every ready task, and `create_timeout` bounds the attempt to connect) and for
the clock. It is strongly fair for `TimedOut`, because `select!` polls its branches
in random order, so a task that is late and woken over and over does not take the
wake-up every time; and for `Reserve`, because the weak exchange does not fail for
ever. No caller is obliged to return a connection. `HandoffSpec` answers the other
question: callers do return, but the clock need not move, so that a sleeper that
gets up was woken by a task and not rescued by its deadline.

In `RpcServer` the tool and the error path are weakly fair (`acquire()` ends,
`statement_timeout` ends a statement), as are the drain, the handshake's timer (`TimeOut`) and the
poll of the task when it has run out (`ExpireHandshake`). Neither is enough by itself: the
property rests on the timer not being started again by what arrives.
Reading a line and writing an answer are not: a client may do neither, for ever.
`AllPublished` says "from some point on", which is meaningful because `MaxLines`
makes the server fall quiet.

**Mutants.** An operator named `Faulty...` is the definition below it with a
plausible bug (a plain store for the exchange, a missing decrement, a return that
wakes nobody, a deadline that restarts, an error arm without ROLLBACK). Each
property of a passing run is violated when one of them replaces the original.

## 4. Proofs

**The pool.** For every finite set of tasks, every `MaxSize > 0` (the queue's constructor panics
on zero), every counter width with `MaxSize < SizeModulus`, with or without `close()`,
and any bound on cancellations, `LockFreePool_proofs` proves:

| Theorem | Statement |
|---|---|
| `TypeCorrect` | `Spec => []TypeOK` |
| `LiveBounded` | `Spec => []LiveBound` |
| `SizeAccounted` | `Spec => []SizeAccounting` |
| `PushAlwaysFindsRoom` | `Spec => []PushFindsRoom` |
| `ClosedShrinks` | `Spec => ClosedOnlyShrinks` |
| `Refinement` | `Spec => ImplementsBudget` |

`LiveBound` is not inductive: a state within the bound whose counter reads too low
can leave it. While the pool is open the counter is exact (`SizeAccounting`), and a
reservation succeeds only below `MaxSize`; once it is closed the counter may be
anything, since a slot can be given back twice, but then `create_one()` opens nothing.
The inductive invariant joins the two halves:

    IInv == TypeOK /\ CloserKnowsClosed /\ SizeAccounting /\ LiveBound

where `CloserKnowsClosed` says that the flag is set as soon as `close()` has
begun. The proof needs how the cardinalities of the sets of tasks at given control
points change when one task moves; those are lemmas of their own, cited by every
step, and the only place where finiteness of `Tasks` is used.
`PushFindsRoom` follows from `LiveBound`: the task that returns is itself one of the
`MaxSize`. Refinement goes by action: reservations, waits and wake-ups stutter,
and `IInv` supplies the guard of the abstract open.

`PoolWakeups_proofs` proves `NeverWedgedEver == Spec => []NeverWedged`. Its invariant
adds to `IInv` that the list of waiters is sound (`Futures`) and

    Attended == ~closed /\ leaked = 0 /\ ~nfy.permit /\ Hungry => Busy

Somebody is `Hungry` who is parked, or has found no connection so far. He is provided
for (`Busy`) by a task that owns a connection, is about to look into the queue or is about
to wake somebody, by a wake-up on its way, or, while nothing is idle, by a task in
the loop, which will create one. The permit is excused because the task to park consumes it. The crucial step is a task that parks because the counter is
saturated: if nothing is idle then, by `SizeAccounting`, somebody owns a connection; and if
something is, the invariant had already named another.

`TokioNotify_proofs` proves that the operations of the `Notify` preserve its type and that
its list of waiters is sound: without repetition, equal to the futures whose state is
`waiting`, and empty while a permit is stored. It also states who is woken: the
oldest waiter, and after the drop of a chosen future the next.

**The tools.** For any number of requests, connections, chunks and dropped handlers,
`ToolTransactions_proofs` proves:

| Theorem | Statement |
|---|---|
| `TypeCorrect` | `Spec => []TypeOK` |
| `AnswersAreCommitted` | `Spec => []AnsweredIsCommitted` |
| `ErrorsChangeNothing` | `Spec => []RefusedIsUndone` |
| `WholeOrNothing` | `Spec => []AllOrNothing` |
| `RestrictedIsReadOnly` | `Spec => []RestrictedOnlyReads` |
| `GivenBackClean` | `Spec => GivesBackClean` |
| `NothingLater` | `Spec => NothingAfterAnswer` |

All but the restricted server's come from one inductive invariant, of four parts besides the
types: a request holds a connection exactly between its loan and its answer, and no two hold
the same (`Lending`); a dead connection has no session, and only a transaction holds writes
(`Held0`); the writes that a session holds belong to the request that has borrowed it or to
a spoiled one (`Owners`); and, for each request that nothing spoils, what its control point
says about its session and about what of it is committed (`Local`, made of `Phase`,
`NotBegun`, `Active` and `Over`). `RefusedIsUndone` alone is not inductive: that
a ROLLBACK undoes everything is known only from what the session held while the request ran.
`GivesBackClean` and `NothingAfterAnswer` are action properties and follow from the
invariant before the step: where the handler stands tells the state of its transaction,
and each of the ways to answer ends that transaction, fails it, or spoils the request. The restricted server is an invariant of its own, `ReadOnly`:
every live session has the read-only default, and none holds a write.

**The server.** For any number of links, calls, lines and shards, `RpcServer_proofs`
proves:

| Theorem | Statement |
|---|---|
| `TypeCorrect` | `Spec => []TypeOK` |
| `AnswersKeepOrder` | `Spec => []AnswersInOrder` |
| `NothingIsLost` | `Spec => []NothingLost` |

The invariant `LinkOK` says for each link what its control point means
for the answers it owes: while it reads, it has given all of them; while it handles a
request, it has given all but what that request calls for. `NothingLost` adds up the
shards. The sum is a fold, so the proof first shows what a fold of `+` over a finite
function is: the values of a function on the subsets of its domain (`IsSum`), unique and
existing by an induction over the subsets of a finite set (`SubsetInduction`, from the
library's theorem that they are well-founded), and changed by exactly what one of its summands changes by (`SumChange`).
An increment and the swap of a shard each change one summand.

**The line reader.** For every set of streams, every capacity of the buffer and every
limit on a line, `LineReader_proofs` proves:

| Theorem | Statement |
|---|---|
| `LinesAreWhatWasSent` | `Spec => []LinesAreTheStream` |
| `RefusalHasACause` | `Spec => []RefusedForCause` |

The invariant keeps count of where the reader is. The lines handed on, the line being
read and the buffer are consecutive pieces of the stream (`InOrder`), no newline is inside
an unfinished line, every finished one begins where the one before it ended and goes to
the next newline (`AllWhole`), and a line under way is within the limit, made of pieces that
were UTF-8 by themselves, and has met no cut within a character (`LineIsSound`). A
refused line breaks one of these (`Refused`). That the concatenation of all
lines grows by the line that is added is an induction over numbers, made once for
`FlattenSeq` with a set in place of a predicate (`NumberInduction`).

**The schema tools.** For all finite sets of relations' numbers and of columns, all names,
schemas, roles and requests, all consistent catalogues to begin with, and any number of
calls, `SchemaTools_proofs` proves:

| Theorem | Statement |
|---|---|
| `TypeCorrect` | `Spec => []TypeOK` |
| `BackupAnswersAreTrue` | `Spec => []BackupAnswerIsTrue` |
| `OriginalIsSpared` | `Spec => BackupSparesOriginal` |
| `DdlDescribesTheTable` | `Spec => []DdlIsTheTable` |
| `ReportsAlwaysAgree` | `Spec => []ReportsAgree` |
| `SchemaBoundariesHold` | `Spec => OnlyTheSchemaAsked` |

The invariant has layers. The first, `Typed`, is inductive by itself: the catalogue is
`Consistent`, and each request has a record whose control point belongs to its tool. Most
of the proof is that: one lemma for each of the tools, on top of a few about what
adding (`AddSound`), replacing (`PutSound`) and dropping with all that depends on it
(`GoneClosed`, `RemovedSound`) do to a consistent catalogue. `DdlIsTheTable` and
`BackupAnswerIsTrue` need to know what an unfinished request has read
so far, as long as nobody interferes. `Current`: what a DDL report has read is still so.
`Faithful`: a backup found one source and counts from nought, and once the copy exists,
what is left to do, what is being copied, what is copied and what is lost make up the
indexes of the source, one by one (`Copying`). Each of these is inductive over `Typed`. The reports
agree in every consistent catalogue, so that needs no history at all.

The assumptions are `OidsAssumption` and `ColumnsAssumption` (both sets are finite, and no
relation has the number that stands for none), `StartsAssumption` (a run begins with
a consistent catalogue), `CallsAssumption`, and `NamingAssumption`: `public` needs no
quotes, `backup_t` needs none when `t` does not, a name begins with itself, and
`backup_` before a name that begins with `t` is not `t` itself.

**The generator.** For any number of runs, interrupted or not, `LoadTestData_proofs` proves:

| Theorem | Statement |
|---|---|
| `FreshRuns` | `Spec => []FreshRunsAreAccepted` |
| `Completeness` | `Spec => []CompleteMeansComplete` |

On a new schema the tables are in step with the loop counters (`InStep`), and then every
reference that a row computes leads to a row that is there. Any other run fails, and
the table of customers tells why: it has the customer of counter 0 already, which the first
INSERT runs into (`Begun`), or its sequence has skipped the id 1, which the first
account refers to (`Skipped`).

**A pool of one connection.** `PoolWakeups_proofs` proves besides

    OneConnectionIsNeverMissed == ASSUME MaxSize = 1 PROVE Spec => []NoIdleWhileAsleep

Whoever searches or is parked found the queue empty, so that the idle connection
came later, and the wake-up that came with it is stored, on its way or received
(`Heard`). Whoever takes the wake-up looks into the queue and takes the connection along.
The hypothesis is needed: with two connections one wake-up may stand for both (finding 3).

**Only model-checked.** Liveness: `AcquireFinishes`, `SleeperWoken`, `AllPublished`,
`LoanEnds`, `HandshakeEnds`. Their fairness conditions speak of ENABLED, which is out of
the prover's reach. Every invariant and every action property that a passing run checks
has its theorem.

## 5. Findings

1. **A slot is given back twice** (`pool_size`). `create_one()`
   decrements `size` when it meets a closed pool, and the error arm of `acquire()`
   decrements it again; the u32 wraps. `LiveBound` and `ClosedOnlyShrinks` show
   that no connection is opened because of it.
2. **A cancelled creation keeps its slot** (`pool_size`). Nothing
   releases the reservation when the future of `acquire()` is dropped while it
   connects. It also swallows the wake-up that led to it, which is why `NeverWedged`
   assumes that no creation was cancelled.
3. **A task sleeps beside an idle connection** (`pool_idle_while_asleep`). Two
   returns may share the one permit of `Notify`, and the loop parks again without
   a look at the queue, although its comment says it will. With one connection it
   cannot happen (`pool_handoff`, `OneConnectionIsNeverMissed`), and the pool is never wedged by it
   (`NeverWedged`): the sleeper is late, until a later return or its deadline.
4. **A late check leaves its transaction open** (`tool_transactions_leak`). The
   check of `returning` and that of each row run after BEGIN, and return without
   ROLLBACK. The connection goes back inside the transaction.
5. **A failed SET LOCAL leaves its transaction failed** (`tool_transactions_leak`). The
   `?` after SET LOCAL and after COMMIT returns without ROLLBACK too, and the answer
   of ROLLBACK is ignored. The next borrowers are refused every statement, their BEGIN
   included, for as long as the connection lives.
6. **A backup is not complete** (`schema_descriptions`, `BackupIsComplete`). It is always a
   plain table, without partitions or constraints, and an index whose rewritten definition
   fails is given up in silence, against "All indexes recreated with same structure.
   Partition structure preserved".
7. **`alter_view` cannot do both** (`AlterDoesBoth`). It moves the view under the name that
   the rename before it took away, and the rename stays; `alter_index` is written alike.
8. **`table_dependencies` does not show what its description names**
   (`DependenciesAreShown`): views, foreign keys and materialized views. It shows only
   the dependents that are relations themselves.
9. **`grant_privileges` does not heed its `schema`** (`GrantHeedsSchema`) for a table or a
   sequence, nor its `object_name` for all tables of a schema.
10. **"Duplicate" indexes need not overlap** (`DuplicatesOverlap`): their columns are not
    compared.
11. **`generate_create_table_ddl` mixes two tables** (`DdlKeyIsTheTables`) when another
    constraint bears the name of the primary key.

Three properties here are disjunctions, so that one run shows several findings: what
violates a disjunction violates each part of it. `QuietSize` says that the counter is right
in quiet moments, before `close()` or else after it; `IdleIsClean`, that no idle connection is
in an open transaction, or else none in a failed one; `SomeDescriptionHolds`, that one
of six descriptions in `src/tools.json` is never departed from. TLC's behaviour departs from
every one, and shows where. Two further things the model does that contradict no
sentence of the repository: a character that straddles two reads ends a TCP connection
(`Straddles`), and `get_object_details` of a table with statistics ends the process
(`GetObjectDetails`).

## 6. Not modelled, and the plan

- Wording and conversion: SQL text, rows to JSON, the scan of `validate_sql`, the
  identifier checks of `validation.rs`, error codes.
- Tables that have partitions and indexes or foreign keys as well, which the server
  repeats on every partition.
- The sizes of chunks in `batch.rs` (the model has at least one chunk) and the rows
  of tables, except in `LoadTestData`.
- Session settings that a query changes (`set_config`, `search_path`), which outlive the
  request on a pooled connection; the read-only default and the transaction are the
  two that are modelled.
- The check of a URL against private addresses (`ssrf.rs`), a function of an answer of DNS.
- The accept loop, `/health` and `/subscribe`, the scraper's listener, TLS and start-up:
  constant answers or code that runs once.
- The maintenance, session, database and extension tools, which send one statement that
  changes no schema or only an extension's objects, and the reports on the server's
  activity: for the connection they are the kinds `write` and `read` of
  `ToolTransactions`.
- The measurement programs: `batch_load.rs` and `generate_load.rs` call a tool
  `batch_insert` that the server does not have, so nothing after their first call is ever
  reached; `benchmark.rs` and `measure_latency.rs` only time requests.
- The crash of the database server: the tools turn `synchronous_commit` off on
  purpose, and what is committed is what other sessions see.
- `close()` is not called by the program itself, only by users of the library and by its
  tests; it is modelled because it is public. `min_size` of the configuration is read
  by nothing.

What would come next, in this order: an abstract specification of a link (every line
that calls for an answer gets exactly one, in order) that `RpcServer` implements, and its
loan as a client of `ConnectionBudget`; the scan of `validate_sql` and the chunking of
`batch.rs` as functions against reference definitions.
