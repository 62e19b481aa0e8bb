-------------------------- MODULE ToolTransactions --------------------------
(***************************************************************************)
(* The tools that write to the database, on connections they borrow from   *)
(* the pool: src/actions/query.rs, batch.rs and data_io.rs; the gates and  *)
(* the loan are those of handle_tools_call in src/server.rs, the sessions  *)
(* those that src/pool.rs sets up.  A request borrows a connection, sends  *)
(* its statements one await at a time and, whatever comes of them, gives   *)
(* the connection back as it is: the pool's only test of an idle           *)
(* connection is that its socket is open.                                  *)
(*                                                                         *)
(* A session is what PostgreSQL keeps per connection: whether a            *)
(* transaction is open or has failed, the writes it holds, and whether it  *)
(* only reads.  A write is a pair of a request and the number of its       *)
(* statement.                                                              *)
(*                                                                         *)
(* Operators named Faulty... are variants with a plausible bug, used by no *)
(* specification.                                                          *)
(***************************************************************************)
EXTENDS Naturals, FiniteSets

CONSTANTS
    Requests,     \* tools/call requests
    Conns,        \* the pool's slots; one holds at most one connection
    NoConn,
    Chunks,       \* statements of an async_batch_insert_copy
    LateErrors,   \* whether requests with errors found only after BEGIN occur
    MaxCancels    \* bound: handlers dropped in mid-await considered

ASSUME SlotsAssumption == NoConn \notin Conns
ASSUME BoundsAssumption ==
    /\ Chunks \in Nat \ {0}
    /\ LateErrors \in BOOLEAN
    /\ MaxCancels \in Nat

VARIABLES
    session,    \* the server's side of each connection
    restricted, \* Config.server.access_mode is Restricted
    committed,  \* the writes that are committed, for every other session to see
    conn,       \* the connection each request has borrowed
    kind,       \* the family of tools the request belongs to
    bad,        \* the statement before which the request fails by itself, or 0
    step,       \* the statement that is next
    pc,
    reply,
    cancels,
    inherits    \* history: whether the connection was borrowed in a transaction

vars == <<session, restricted, committed, conn, kind, bad, step, pc, reply,
          cancels, inherits>>

(***************************************************************************)
(* The families of tools:                                                  *)
(*   read, call, write   one statement on its own; a "call" is a query     *)
(*                       that calls a function that writes; no query       *)
(*                       changes the settings of its session               *)
(*   async               async_sync_commit_execute: one in a transaction   *)
(*   batch, copy         async_batch_insert, async_batch_insert_copy: one  *)
(*                       or more in a transaction                          *)
(*   import, refill      import_from_url: a COPY; a TRUNCATE and a COPY    *)
(***************************************************************************)
ReadTools == {"read", "call"}
InTransaction == {"async", "batch", "copy"}
Imports == {"import", "refill"}
Kinds == ReadTools \cup {"write"} \cup InTransaction \cup Imports

Statements(k) == CASE k = "copy" -> Chunks
                   [] k = "refill" -> 2
                   [] OTHER -> 1
MostStatements == IF Chunks < 2 THEN 2 ELSE Chunks

WritesOf(r) == {r} \X (1 .. Statements(kind[r]))
Writes == Requests \X (1 .. MostStatements)

\* What the gates of handle_tools_call let through.
Allowed(k) == ~restricted \/ k \in ReadTools

\* A "returning" that is no identifier, and a row that is no array, are only
\* looked at after BEGIN.
BadAt(k) ==
    CASE ~LateErrors -> {0}
      [] k = "batch" -> {0, 1}
      [] k = "copy" -> 0 .. Chunks
      [] OTHER -> {0}

NoSession ==
    [alive |-> FALSE, tx |-> "none", pending |-> {}, readOnly |-> FALSE]

\* A creation closure that leaves the session's default as it is.
FaultyNewSession ==
    [alive |-> TRUE, tx |-> "none", pending |-> {}, readOnly |-> FALSE]

\* The creation closure of with_session_setup.
NewSession ==
    [alive |-> TRUE, tx |-> "none", pending |-> {}, readOnly |-> restricted]

\* "late" is the error of a check inside the transaction, "empty" the row count
\* 0 of an insert without rows; "lost" is the error of a closed socket, and
\* "gone" stands for a handler that never answers.
Answers == {"ok", "empty", "err", "late", "lost", "gone"}
Replies == Answers \cup {"none"}

Storing == {"exec", "finish"}
Awaiting == Storing \cup {"begin", "set", "copy", "stream", "commit", "rollback"}
Sending == Awaiting \cup {"refuse"}

Init ==
    /\ session = [c \in Conns |-> NoSession]
    /\ restricted \in BOOLEAN
    /\ committed = {}
    /\ conn = [r \in Requests |-> NoConn]
    /\ kind = [r \in Requests |-> "read"]
    /\ bad = [r \in Requests |-> 0]
    /\ step = [r \in Requests |-> 1]
    /\ pc = [r \in Requests |-> "new"]
    /\ reply = [r \in Requests |-> "none"]
    /\ cancels = 0
    /\ inherits = [r \in Requests |-> FALSE]

-----------------------------------------------------------------------------
(***************************************************************************)
(* PostgreSQL: what a statement does to the session it runs in.            *)
(***************************************************************************)

\* BEGIN inside a transaction is only a warning; a failed transaction refuses
\* every statement but the one that ends it.
Begun(s) == IF s.tx = "failed" THEN s ELSE [s EXCEPT !.tx = "open"]

Stored(s, ws) == IF s.tx = "open" THEN [s EXCEPT !.pending = @ \cup ws] ELSE s

Failed(s) == IF s.tx = "open" THEN [s EXCEPT !.tx = "failed"] ELSE s

Ended(s) == [s EXCEPT !.tx = "none", !.pending = {}]

\* What is committed when ws is stored, and when the transaction commits. A
\* COMMIT of a failed transaction rolls back, and is no error.
CommittedByStore(s, ws) == IF s.tx = "none" THEN ws ELSE {}
CommittedByCommit(s) == IF s.tx = "open" THEN s.pending ELSE {}

-----------------------------------------------------------------------------
Held == {conn[r] : r \in Requests}
Session(r) == session[conn[r]]
CurrentWrite(r) == IF kind[r] = "read" THEN {} ELSE {<<r, step[r]>>}

SetSession(r, s) == session' = [session EXCEPT ![conn[r]] = s]

\* The handler's result is known: the connection goes back to the pool.
Answer(r, what) ==
    /\ reply' = [reply EXCEPT ![r] = what]
    /\ pc' = [pc EXCEPT ![r] = "done"]
    /\ conn' = [conn EXCEPT ![r] = NoConn]

Continue(r, label) ==
    /\ pc' = [pc EXCEPT ![r] = label]
    /\ UNCHANGED <<reply, conn>>

\* Every statement of its own.
FaultyFirst(k) == IF k = "import" THEN "copy" ELSE "exec"

First(k) == CASE k \in InTransaction -> "begin"
              [] k = "import" -> "copy"
              [] OTHER -> "exec"

\* pool.acquire(): an idle connection whose socket is open, or a new one.  What
\* the handler thinks of its parameters is settled.
Borrow(r) ==
    /\ pc[r] = "new"
    /\ \E c \in Conns \ Held, k \in {j \in Kinds : Allowed(j)} :
        /\ conn' = [conn EXCEPT ![r] = c]
        /\ session' = [session EXCEPT ![c] = IF @.alive THEN @ ELSE NewSession]
        /\ inherits' = [inherits EXCEPT ![r] = session[c].tx # "none"]
        /\ kind' = [kind EXCEPT ![r] = k]
        /\ \E b \in BadAt(k) : bad' = [bad EXCEPT ![r] = b]
        /\ \E label \in {First(k), "refuse"} : pc' = [pc EXCEPT ![r] = label]
    /\ UNCHANGED <<restricted, committed, step, reply, cancels>>

\* Nothing is sent: a parameter is missing, no identifier or too large, or there
\* are no rows to insert.
Refuse(r) ==
    /\ pc[r] = "refuse"
    /\ \E what \in {"err"} \cup IF kind[r] \in {"batch", "copy"} THEN {"empty"} ELSE {} :
          Answer(r, what)
    /\ UNCHANGED <<session, restricted, committed, kind, bad, step, cancels, inherits>>

\* client.execute("BEGIN").await?
Begin(r) ==
    /\ pc[r] = "begin"
    /\ Session(r).alive
    /\ Session(r).tx # "failed"
    /\ SetSession(r, Begun(Session(r)))
    /\ Continue(r, "set")
    /\ UNCHANGED <<restricted, committed, kind, bad, step, cancels, inherits>>

\* client.execute("SET LOCAL synchronous_commit = OFF").await?
SetLocal(r) ==
    /\ pc[r] = "set"
    /\ Session(r).alive
    /\ Continue(r, "exec")
    /\ UNCHANGED <<session, restricted, committed, kind, bad, step, cancels, inherits>>

\* BEGIN or SET LOCAL fails (statement_timeout, a cancelled backend, a failed
\* transaction): the `?` returns, and sends no ROLLBACK.
OpeningFails(r) ==
    /\ pc[r] \in {"begin", "set"}
    /\ Session(r).alive
    /\ SetSession(r, Failed(Session(r)))
    /\ Answer(r, "err")
    /\ UNCHANGED <<restricted, committed, kind, bad, step, cancels, inherits>>

\* The `?` of a check that is made inside the transaction.
LateError(r) ==
    /\ pc[r] = "exec"
    /\ bad[r] = step[r]
    /\ Answer(r, "late")
    /\ UNCHANGED <<session, restricted, committed, kind, bad, step, cancels, inherits>>

Following(r) == IF kind[r] = "refill" THEN "copy" ELSE "exec"

\* The tool that sends chunks forgets its COMMIT.
FaultyNext(r) ==
    IF step[r] < Statements(kind[r]) THEN Continue(r, Following(r))
    ELSE IF kind[r] \in InTransaction \ {"copy"} THEN Continue(r, "commit")
    ELSE Answer(r, "ok")

\* After a statement: the next one, COMMIT, or the answer.
NextStatement(r) ==
    IF step[r] < Statements(kind[r]) THEN Continue(r, Following(r))
    ELSE IF kind[r] \in InTransaction THEN Continue(r, "commit")
    ELSE Answer(r, "ok")

\* The statement number runs past the last statement.
FaultyAdvance(r) == step' = [step EXCEPT ![r] = @ + 1]

Advance(r) ==
    step' = [step EXCEPT ![r] =
               IF @ < Statements(kind[r]) THEN @ + 1 ELSE @]

\* The checks made inside the transaction, before each of its statements.
Passed(r) == pc[r] = "exec" => bad[r] # step[r]

\* A session in a failed transaction refuses statements, one that only reads
\* refuses those that write.
Accepts(r) ==
    /\ Session(r).tx # "failed"
    /\ CurrentWrite(r) # {} => ~Session(r).readOnly

\* A statement of its own, of a transaction, or the end of a COPY.
Execute(r) ==
    /\ pc[r] \in Storing
    /\ Passed(r)
    /\ Session(r).alive
    /\ Accepts(r)
    /\ SetSession(r, Stored(Session(r), CurrentWrite(r)))
    /\ committed' = committed \cup CommittedByStore(Session(r), CurrentWrite(r))
    /\ Advance(r)
    /\ NextStatement(r)
    /\ UNCHANGED <<restricted, kind, bad, cancels, inherits>>

\* The Err arm returns at once.
FaultyExecuteFails(r) ==
    /\ pc[r] \in Storing \cup {"copy"}
    /\ Passed(r)
    /\ Session(r).alive
    /\ SetSession(r, Failed(Session(r)))
    /\ Answer(r, "err")
    /\ UNCHANGED <<restricted, committed, kind, bad, step, cancels, inherits>>

\* The statement fails (a constraint, statement_timeout, a failed transaction).
ExecuteFails(r) ==
    /\ pc[r] \in Storing \cup {"copy"}
    /\ Passed(r)
    /\ Session(r).alive
    /\ SetSession(r, Failed(Session(r)))
    /\ IF kind[r] \in InTransaction
       THEN Continue(r, "rollback")
       ELSE Answer(r, "err")
    /\ UNCHANGED <<restricted, committed, kind, bad, step, cancels, inherits>>

\* client.copy_in(&copy_sql).await?: the sink is open before the download starts.
OpenCopy(r) ==
    /\ pc[r] = "copy"
    /\ Session(r).alive
    /\ Accepts(r)
    /\ Continue(r, "stream")
    /\ UNCHANGED <<session, restricted, committed, kind, bad, step, cancels,
                   inherits>>

\* The chunks of the download have gone into the sink; they are nowhere yet.
Download(r) ==
    /\ pc[r] = "stream"
    /\ Continue(r, "finish")
    /\ UNCHANGED <<session, restricted, committed, kind, bad, step, cancels,
                   inherits>>

\* A body that breaks off is taken for one that has ended.
FaultyDownloadFails(r) ==
    /\ pc[r] = "stream"
    /\ Session(r).alive
    /\ SetSession(r, Stored(Session(r), CurrentWrite(r)))
    /\ committed' = committed \cup CommittedByStore(Session(r), CurrentWrite(r))
    /\ Answer(r, "err")
    /\ UNCHANGED <<restricted, kind, bad, step, cancels, inherits>>

\* No answer, a status that is no success, a body that breaks off or is too
\* large: the sink is dropped, which fails the COPY.
DownloadFails(r) ==
    /\ pc[r] = "stream"
    /\ SetSession(r, Failed(Session(r)))
    /\ Answer(r, "err")
    /\ UNCHANGED <<restricted, committed, kind, bad, step, cancels, inherits>>

\* client.execute("COMMIT").await?
Commit(r) ==
    /\ pc[r] = "commit"
    /\ Session(r).alive
    /\ SetSession(r, Ended(Session(r)))
    /\ committed' = committed \cup CommittedByCommit(Session(r))
    /\ Answer(r, "ok")
    /\ UNCHANGED <<restricted, kind, bad, step, cancels, inherits>>

\* A deferred constraint is only checked by COMMIT, which then rolls back; a
\* COMMIT that is cancelled before it does anything fails the transaction.
CommitFails(r) ==
    /\ pc[r] = "commit"
    /\ Session(r).alive
    /\ \E s \in {Ended(Session(r)), Failed(Session(r))} : SetSession(r, s)
    /\ Answer(r, "err")
    /\ UNCHANGED <<restricted, committed, kind, bad, step, cancels, inherits>>

\* client.execute("ROLLBACK").await.ok(): whether it succeeds is not looked at.
Rollback(r) ==
    /\ pc[r] = "rollback"
    /\ \E s \in {Ended(Session(r)), Failed(Session(r))} : SetSession(r, s)
    /\ Answer(r, "err")
    /\ UNCHANGED <<restricted, committed, kind, bad, step, cancels, inherits>>

\* The socket is closed: the statement in progress fails with a closed error.
Lost(r) ==
    /\ pc[r] \in Awaiting \ {"rollback"}
    /\ ~Session(r).alive
    /\ Passed(r)
    /\ Answer(r, "lost")
    /\ UNCHANGED <<session, restricted, committed, kind, bad, step, cancels, inherits>>

-----------------------------------------------------------------------------
(***************************************************************************)
(* The surroundings                                                        *)
(***************************************************************************)

\* The connection breaks; the server rolls back what it held.
Break(c) ==
    /\ session[c].alive
    /\ session' = [session EXCEPT ![c] = NoSession]
    /\ UNCHANGED <<restricted, committed, conn, kind, bad, step, pc, reply,
                   cancels, inherits>>

\* The statement takes effect, and the connection breaks before the answer is
\* read.
BreakAfter(r) ==
    /\ pc[r] \in Storing \cup {"commit"}
    /\ Session(r).alive
    /\ Passed(r)
    /\ pc[r] \in Storing => Accepts(r)
    /\ committed' = committed \cup
         (IF pc[r] = "commit"
          THEN CommittedByCommit(Session(r))
          ELSE CommittedByStore(Session(r), CurrentWrite(r)))
    /\ SetSession(r, NoSession)
    /\ UNCHANGED <<restricted, conn, kind, bad, step, pc, reply, cancels, inherits>>

\* What the server may have made of the statement that was being awaited; the
\* drop of an open sink fails its COPY.
Outcomes(r) ==
    LET s == Session(r)
        untouched == [s |-> s, stored |-> {}]
        failed == [s |-> Failed(s), stored |-> {}]
        stored == [s |-> Stored(s, CurrentWrite(r)),
                   stored |-> CommittedByStore(s, CurrentWrite(r))]
    IN
    CASE pc[r] = "begin" -> {untouched, failed, [untouched EXCEPT !.s = Begun(s)]}
      [] pc[r] = "set" -> {untouched, failed}
      [] pc[r] = "exec" -> {untouched, failed} \cup IF Accepts(r) THEN {stored} ELSE {}
      [] pc[r] \in {"copy", "stream"} -> {untouched, failed}
      [] pc[r] = "finish" -> {failed} \cup IF Accepts(r) THEN {stored} ELSE {}
      [] pc[r] = "commit" ->
           {untouched, failed, [untouched EXCEPT !.s = Ended(s)],
            [s |-> Ended(s), stored |-> CommittedByCommit(s)]}
      [] pc[r] = "rollback" -> {untouched, [untouched EXCEPT !.s = Ended(s)]}

\* The handler is dropped while it awaits a statement (over HTTP, the client
\* has gone): the statement was sent or not, nobody reads its answer, and the
\* connection goes back to the pool.
Cancel(r) ==
    /\ pc[r] \in Awaiting
    /\ Session(r).alive
    /\ Passed(r)
    /\ cancels < MaxCancels
    /\ cancels' = cancels + 1
    /\ \E o \in Outcomes(r) :
        /\ SetSession(r, o.s)
        /\ committed' = committed \cup o.stored
    /\ Answer(r, "gone")
    /\ UNCHANGED <<restricted, kind, bad, step, inherits>>

-----------------------------------------------------------------------------
Handler(r) ==
    \/ Borrow(r) \/ Refuse(r) \/ Begin(r) \/ SetLocal(r) \/ OpeningFails(r)
    \/ LateError(r)
    \/ Execute(r) \/ ExecuteFails(r)
    \/ OpenCopy(r) \/ Download(r) \/ DownloadFails(r)
    \/ Commit(r) \/ CommitFails(r) \/ Rollback(r) \/ Lost(r)

Next ==
    \/ \E r \in Requests : Handler(r) \/ BreakAfter(r) \/ Cancel(r)
    \/ \E c \in Conns : Break(c)

Spec == Init /\ [][Next]_vars

-----------------------------------------------------------------------------
(***************************************************************************)
(* Properties                                                              *)
(***************************************************************************)

\* Every variable has its type.
TypeOK ==
    /\ session \in [Conns -> [alive : BOOLEAN, tx : {"none", "open", "failed"},
                              pending : SUBSET Writes, readOnly : BOOLEAN]]
    /\ restricted \in BOOLEAN
    /\ committed \subseteq Writes
    /\ conn \in [Requests -> Conns \cup {NoConn}]
    /\ kind \in [Requests -> Kinds]
    /\ bad \in [Requests -> 0 .. Chunks]
    /\ step \in [Requests -> 1 .. MostStatements]
    /\ pc \in [Requests -> Sending \cup {"new", "done"}]
    /\ reply \in [Requests -> Replies]
    /\ cancels \in 0 .. MaxCancels
    /\ inherits \in [Requests -> BOOLEAN]

(***************************************************************************)
(* Three things spoil a request: its handler was dropped, it failed a      *)
(* check of its own inside its transaction, or an earlier spoiled request  *)
(* left a transaction on the connection that it borrows.  What follows is  *)
(* promised to every other request, whatever happens to the spoiled ones.  *)
(***************************************************************************)
Spoiled(r) ==
    \/ inherits[r]
    \/ reply[r] \in {"gone", "late"}

\* A request that nothing spoils never gives its connection back in an open
\* transaction, which the next borrower would go on writing into, on any path
\* of its handler.  A failed transaction, which refuses everything and commits
\* nothing, is only left behind by the tools that begin one, and only when a
\* statement of their own failed that is not followed by a ROLLBACK that works.
GivesBackClean ==
    [][\A r \in Requests :
          conn[r] # NoConn /\ conn'[r] = NoConn /\ ~Spoiled(r)' =>
              \/ session'[conn[r]].tx = "none"
              \/ /\ session'[conn[r]].tx = "failed"
                 /\ kind[r] \in InTransaction
                 /\ reply'[r] = "err"
                 /\ pc[r] \in {"set", "commit", "rollback"}]_vars

\* The row count is only answered for rows that are committed.
AnsweredIsCommitted ==
    \A r \in Requests :
        reply[r] = "ok" /\ kind[r] # "read" /\ ~Spoiled(r) =>
            WritesOf(r) \subseteq committed

\* The TRUNCATE of an import is committed before its rows are asked for.
Emptied(r) == IF kind[r] = "refill" THEN {<<r, 1>>} ELSE {}

\* A request that was answered with an error has changed nothing, an import
\* nothing but that the table is empty when it was to be: no row of a download
\* that failed is in it.
RefusedIsUndone ==
    \A r \in Requests :
        reply[r] \in {"err", "empty"} /\ ~Spoiled(r) =>
            WritesOf(r) \cap committed \subseteq Emptied(r)

\* The writes of a request are committed together or not at all, also when its
\* connection breaks in the middle; an import may end after its TRUNCATE.
AllOrNothing ==
    \A r \in Requests :
        ~Spoiled(r) =>
            WritesOf(r) \cap committed \in {{}, Emptied(r), WritesOf(r)}

\* Once a request is answered nothing of it is committed any more: no later
\* borrower of its connection commits what it left behind.
NothingAfterAnswer ==
    [][\A r \in Requests :
          pc[r] = "done" /\ ~Spoiled(r) =>
              WritesOf(r) \cap committed' = WritesOf(r) \cap committed]_vars

\* In a restricted server nothing is committed, not by the functions that a
\* query calls either, on no connection and whatever became of the requests
\* that used it before; what a query does to the settings of its own session
\* (set_config) is not part of this.
RestrictedOnlyReads == restricted => committed = {}

\* "preventing session-state leakage when the connection returns to the pool"
\* (query.rs:421) says that a connection nobody has borrowed is in no
\* transaction, neither an open one nor a failed one.  This is less than it
\* says, that at least one of the two never happens: what violates it leaves a
\* connection behind in each way.
IdleIsClean ==
    \/ \A c \in Conns \ Held : session[c].tx # "open"
    \/ \A c \in Conns \ Held : session[c].tx # "failed"
=============================================================================
