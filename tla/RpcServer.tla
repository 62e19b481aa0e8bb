----------------------------- MODULE RpcServer -----------------------------
(***************************************************************************)
(* The JSON-RPC server: the request loop of a TCP connection (and of stdin,*)
(* which is one such connection without a token), the HTTP endpoint, the   *)
(* gates of tools/call, the loan of a database connection, and the request *)
(* counters (src/server.rs, src/http.rs, src/metrics.rs).                  *)
(*                                                                         *)
(* A TCP client may send a line at any time, so it is chosen when the      *)
(* server reads it; the first line, which is read under a timeout, may     *)
(* come in pieces.  A request is what its handling depends on: its method  *)
(* or the tool it names, and whether it has an id.  Steps between two      *)
(* awaits or two accesses to shared state are one action.                  *)
(*                                                                         *)
(* Operators named Faulty... are variants with a plausible bug, used by no *)
(* specification.                                                          *)
(***************************************************************************)
EXTENDS Naturals, Sequences, FiniteSets, Functions, SequencesExt

CONSTANTS
    Links,      \* TCP connections
    Calls,      \* HTTP requests
    Configs,    \* configurations considered
    MaxLines,   \* bound: lines read from one link
    NumShards,  \* NUM_SHARDS
    PoolSize    \* connections the pool lends at the same time

Workers == Links \cup Calls
Settings == [token : BOOLEAN, restricted : BOOLEAN, urlImport : BOOLEAN]
Counters == {"requests", "errors"}
Shards == 1 .. NumShards

ASSUME WorkersAssumption == Links \cap Calls = {}
ASSUME ConfigsAssumption == Configs \subseteq Settings
ASSUME LimitsAssumption ==
    MaxLines \in Nat \ {0} /\ NumShards \in Nat \ {0} /\ PoolSize \in Nat \ {0}

VARIABLES
    config,     \* the configuration, fixed at start-up
    pc,         \* what the task of each link or HTTP request does
    request,    \* what the answer to a link's request depends on
    lines,      \* number of lines read from each link
    out,        \* the ids of the answers written to each link
    owed,       \* history: the ids of the answers the lines read call for
    timer,      \* the timeout of each link's handshake
    heard,      \* whether the pieces of its first line so far are odd in number
    loans,      \* tasks that have borrowed a connection
    shard,      \* SHARDS: the counters, by thread
    next,       \* the shard the drain comes to next, or the publication
    got,        \* total_reqs and total_errs of the drain
    published,  \* the Prometheus counters
    counted     \* history: how often each counter was incremented

handshake == <<timer, heard>>
service == <<config, pc, request, lines, out, owed, handshake, loans>>
books == <<shard, next, got, published>>
vars == <<service, books, counted>>

-----------------------------------------------------------------------------
(***************************************************************************)
(* Requests.  A line that is no request is "junk" (the token is one, after *)
(* the handshake); a line too long or not UTF-8 is an error of the reader. *)
(* A tools/call is known by its tool: none at all, one that does not exist *)
(* or whose category is disabled, one that reads, one that writes, or      *)
(* import_from_url.                                                        *)
(***************************************************************************)
Methods == {"tools/list", "local", "unknown"}
Tools == {"unnamed", "hidden", "read", "write", "import"}
Texts == {"junk", "token"} \cup Methods \cup Tools

\* parse_request: a JsonRpcRequest, whose id is an Option, or an error.
Parsed(text) ==
    IF text \in {"junk", "token"}
    THEN {[valid |-> FALSE, id |-> FALSE]}
    ELSE [valid : {TRUE}, id : BOOLEAN]

Nothing == [valid |-> FALSE, id |-> FALSE]

\* ToolMeta.write, of tools.rs.
IsWriteTool(tool) == tool \in {"write", "import"}

\* The gates of handle_tools_call, in their order.
Gate(tool) ==
    CASE tool = "unnamed" -> "failed"
      [] tool = "hidden" -> "failed"
      [] config.restricted /\ IsWriteTool(tool) -> "reply"
      [] tool = "import" /\ ~config.urlImport -> "reply"
      [] OTHER -> "acquire"

\* Where parse_request and process_request take a request: the methods that
\* are answered at once, the errors, and the tools.
Route(text) ==
    CASE text \in {"junk", "token", "unknown"} -> "failed"
      [] text \in {"tools/list", "local"} -> "reply"
      [] OTHER -> Gate(text)

\* JSON-RPC: a request with an id is answered under it, a line that is no
\* request under the id null (0 here), a notification not at all.
Owed(req, n) ==
    IF ~req.valid THEN <<0>>
    ELSE IF req.id THEN <<n>>
    ELSE <<>>

Init ==
    /\ config \in Configs
    /\ pc = [w \in Workers |->
               IF w \in Calls THEN "new"
               ELSE IF config.token THEN "auth" ELSE "read"]
    /\ request = [l \in Links |-> Nothing]
    /\ lines = [l \in Links |-> 0]
    /\ out = [l \in Links |-> <<>>]
    /\ owed = [l \in Links |-> <<>>]
    /\ timer = [l \in Links |-> IF config.token THEN "running" ELSE "off"]
    /\ heard = [l \in Links |-> FALSE]
    /\ loans = {}
    /\ shard = [k \in Counters |-> [s \in Shards |-> 0]]
    /\ next = <<1, "requests">>
    /\ got = [k \in Counters |-> 0]
    /\ published = [k \in Counters |-> 0]
    /\ counted = [k \in Counters |-> 0]

Goto(w, label) == pc' = [pc EXCEPT ![w] = label]

\* inc_requests() and inc_errors(): the shard is that of the thread the task
\* happens to run on.
Count(counter) ==
    /\ \E s \in Shards : shard' = [shard EXCEPT ![counter][s] = @ + 1]
    /\ counted' = [counted EXCEPT ![counter] = @ + 1]
    /\ UNCHANGED <<next, got, published>>

-----------------------------------------------------------------------------
(***************************************************************************)
(* The handshake and the request loop of a TCP connection: handle_client.  *)
(***************************************************************************)
\* The future of the timeout is gone, and the line with it.
LeaveHandshake(l, label) ==
    /\ pc[l] = "auth"
    /\ timer' = [timer EXCEPT ![l] = "off"]
    /\ heard' = [heard EXCEPT ![l] = FALSE]
    /\ Goto(l, label)

Authenticate(l) ==
    /\ lines' = [lines EXCEPT ![l] = @ + 1]
    /\ LeaveHandshake(l, "read")
    /\ UNCHANGED <<config, request, out, owed, loans, books, counted>>

\* The first line is not the token: one last answer, which the peer gets unless
\* it is gone.
Reject(l) ==
    /\ lines' = [lines EXCEPT ![l] = @ + 1]
    /\ owed' = [owed EXCEPT ![l] = Append(@, 0)]
    /\ out' \in {out, [out EXCEPT ![l] = Append(@, 0)]}
    /\ LeaveHandshake(l, "closed")
    /\ UNCHANGED <<config, request, loans, books, counted>>

\* Every piece of the line gets a timeout of its own.
FaultyTrickle(l) ==
    /\ pc[l] = "auth"
    /\ heard' = [heard EXCEPT ![l] = ~@]
    /\ timer' = [timer EXCEPT ![l] = "running"]
    /\ UNCHANGED <<config, pc, request, lines, out, owed, loans, books, counted>>

\* A piece of the first line arrives, and not its end: read_line_capped waits
\* for more, under the same timeout.
Trickle(l) ==
    /\ pc[l] = "auth"
    /\ heard' = [heard EXCEPT ![l] = ~@]
    /\ UNCHANGED <<config, pc, request, lines, out, owed, timer, loans, books, counted>>

\* AUTH_HANDSHAKE_TIMEOUT has passed; the task has yet to be polled, and finds
\* what has arrived in the meantime first.
TimeOut(l) ==
    /\ timer[l] = "running"
    /\ timer' = [timer EXCEPT ![l] = "out"]
    /\ UNCHANGED <<config, pc, request, lines, out, owed, heard, loans, books, counted>>

ExpireHandshake(l) ==
    /\ timer[l] = "out"
    /\ LeaveHandshake(l, "closed")
    /\ UNCHANGED <<config, request, lines, out, owed, loans, books, counted>>

\* End of file before anything was sent, or a line the reader refuses.
EndHandshake(l) ==
    /\ LeaveHandshake(l, "closed")
    /\ UNCHANGED <<config, request, lines, out, owed, loans, books, counted>>

ReadLine(l) ==
    /\ pc[l] = "read"
    /\ lines[l] < MaxLines
    /\ \E text \in Texts : \E req \in Parsed(text) :
        /\ request' = [request EXCEPT ![l] = req]
        /\ owed' = [owed EXCEPT ![l] = @ \o Owed(req, lines[l] + 1)]
        /\ Goto(l, Route(text))
    /\ lines' = [lines EXCEPT ![l] = @ + 1]
    /\ Count("requests")
    /\ UNCHANGED <<config, out, handshake, loans>>

\* End of file, or a line the reader refuses.
EndOfInput(l) ==
    /\ pc[l] = "read"
    /\ Goto(l, "closed")
    /\ UNCHANGED <<config, request, lines, out, owed, handshake, loans, books, counted>>

-----------------------------------------------------------------------------
(***************************************************************************)
(* The HTTP endpoint: handle_rpc.  Every request is answered, also one     *)
(* without an id, so nothing of it but its text matters.                   *)
(***************************************************************************)
Post(h) ==
    /\ pc[h] = "new"
    /\ \E text \in Methods \cup Tools : Goto(h, Route(text))
    /\ Count("requests")
    /\ UNCHANGED <<config, request, lines, out, owed, handshake, loans>>

\* A body that is no request and a missing token are answered before anything
\* is counted.
RefusePost(h) ==
    /\ pc[h] = "new"
    /\ Goto(h, "closed")
    /\ UNCHANGED <<config, request, lines, out, owed, handshake, loans, books, counted>>

\* The client goes away while the handler awaits: its future is dropped, and
\* with it the connection.
Abandon(h) ==
    /\ pc[h] \in {"acquire", "running"}
    /\ loans' = loans \ {h}
    /\ Goto(h, "closed")
    /\ UNCHANGED <<config, request, lines, out, owed, handshake, books, counted>>

-----------------------------------------------------------------------------
(***************************************************************************)
(* A tool: the loan of a connection around its statements.                 *)
(***************************************************************************)
Borrow(w) ==
    /\ pc[w] = "acquire"
    /\ Cardinality(loans) < PoolSize
    /\ loans' = loans \cup {w}
    /\ Goto(w, "running")
    /\ UNCHANGED <<config, request, lines, out, owed, handshake, books, counted>>

BorrowFails(w) ==
    /\ pc[w] = "acquire"
    /\ Goto(w, "failed")
    /\ UNCHANGED <<config, request, lines, out, owed, handshake, loans, books, counted>>

\* The answer is written while the connection is still borrowed.
FaultyFinish(w) ==
    /\ pc[w] = "running"
    /\ Goto(w, "reply")
    /\ UNCHANGED <<config, request, lines, out, owed, handshake, loans, books, counted>>

\* The tool is done: drop(client).  Its failure is a result too (isError).
Finish(w) ==
    /\ pc[w] = "running"
    /\ loans' = loans \ {w}
    /\ Goto(w, "reply")
    /\ UNCHANGED <<config, request, lines, out, owed, handshake, books, counted>>

\* A protocol error is counted, and answered like a result.
Fail(w) ==
    /\ pc[w] = "failed"
    /\ Goto(w, "reply")
    /\ Count("errors")
    /\ UNCHANGED <<config, request, lines, out, owed, handshake, loans>>

-----------------------------------------------------------------------------
(***************************************************************************)
(* Answers.                                                                *)
(***************************************************************************)

\* Whatever has no id is taken for a notification.
FaultyIsNotification(req) == ~req.id

\* `is_notification`: a parse error is none.
IsNotification(req) == req.valid /\ ~req.id

Reply(l) ==
    /\ pc[l] = "reply"
    /\ out' = IF IsNotification(request[l])
              THEN out
              ELSE [out EXCEPT ![l] =
                      Append(@, IF request[l].id THEN lines[l] ELSE 0)]
    /\ request' = [request EXCEPT ![l] = Nothing]
    /\ Goto(l, "read")
    /\ UNCHANGED <<config, lines, owed, handshake, loans, books, counted>>

\* The peer has gone: the `?` of the write ends the loop.
ReplyFails(l) ==
    /\ pc[l] = "reply"
    /\ ~IsNotification(request[l])
    /\ request' = [request EXCEPT ![l] = Nothing]
    /\ Goto(l, "closed")
    /\ UNCHANGED <<config, lines, out, owed, handshake, loans, books, counted>>

Respond(h) ==
    /\ pc[h] = "reply"
    /\ Goto(h, "closed")
    /\ UNCHANGED <<config, request, lines, out, owed, handshake, loans, books, counted>>

-----------------------------------------------------------------------------
(***************************************************************************)
(* The background task of the metrics: drain_counters(), and the addition  *)
(* of what it returns to the published counters.                           *)
(***************************************************************************)
\* One shard too many.
FaultyAfterLast(s, k) ==
    IF k = "requests" THEN <<s, "errors">>
    ELSE IF s <= NumShards THEN <<s + 1, "requests">>
    ELSE <<0, "requests">>

\* The last shard is left out.
FaultyAfter(s, k) ==
    IF k = "requests" THEN <<s, "errors">>
    ELSE IF s < NumShards - 1 THEN <<s + 1, "requests">>
    ELSE <<0, "requests">>

After(s, k) ==
    IF k = "requests" THEN <<s, "errors">>
    ELSE IF s < NumShards THEN <<s + 1, "requests">>
    ELSE <<0, "requests">>

\* An assignment where a sum was meant.
FaultySwap(s, k) ==
    /\ next = <<s, k>>
    /\ got' = [got EXCEPT ![k] = shard[k][s]]
    /\ shard' = [shard EXCEPT ![k][s] = 0]
    /\ next' = After(s, k)
    /\ UNCHANGED <<service, published, counted>>

Swap(s, k) ==
    /\ next = <<s, k>>
    /\ got' = [got EXCEPT ![k] = @ + shard[k][s]]
    /\ shard' = [shard EXCEPT ![k][s] = 0]
    /\ next' = After(s, k)
    /\ UNCHANGED <<service, published, counted>>

Publish(k) ==
    /\ next = <<0, k>>
    /\ published' = [published EXCEPT ![k] = @ + got[k]]
    /\ got' = [got EXCEPT ![k] = 0]
    /\ next' = IF k = "requests" THEN <<0, "errors">> ELSE <<1, "requests">>
    /\ UNCHANGED <<service, shard, counted>>

Drain == \E k \in Counters : Publish(k) \/ \E s \in Shards : Swap(s, k)

-----------------------------------------------------------------------------
Serve(w) == Borrow(w) \/ BorrowFails(w) \/ Finish(w) \/ Fail(w)

Link(l) ==
    \/ Authenticate(l) \/ Reject(l) \/ Trickle(l) \/ TimeOut(l)
    \/ ExpireHandshake(l) \/ EndHandshake(l)
    \/ ReadLine(l) \/ EndOfInput(l) \/ Reply(l) \/ ReplyFails(l)

Call(h) == Post(h) \/ RefusePost(h) \/ Abandon(h) \/ Respond(h)

Next ==
    \/ \E w \in Workers : Serve(w)
    \/ \E l \in Links : Link(l)
    \/ \E h \in Calls : Call(h)
    \/ Drain

Spec == Init /\ [][Next]_vars

(***************************************************************************)
(* Fairness.  acquire() always ends (LockFreePool!AcquireFinishes), a      *)
(* statement ends by statement_timeout, the timer of the handshake runs    *)
(* out and its task is then polled, and the drain wakes every second.      *)
(* Nothing obliges a client to send a line or to read its answers, so no   *)
(* write is ever certain to end.                                           *)
(***************************************************************************)
FairSpec ==
    /\ Spec
    /\ WF_vars(Drain)
    /\ \A w \in Workers : WF_vars(Serve(w))
    /\ \A l \in Links : WF_vars(TimeOut(l)) /\ WF_vars(ExpireHandshake(l))

-----------------------------------------------------------------------------
(***************************************************************************)
(* Properties                                                              *)
(***************************************************************************)

\* Every variable has its type.
TypeOK ==
    /\ config \in Configs
    /\ pc \in [Workers -> {"new", "auth", "read", "acquire", "running",
                          "failed", "reply", "closed"}]
    /\ request \in [Links -> [valid : BOOLEAN, id : BOOLEAN]]
    /\ lines \in [Links -> 0 .. MaxLines]
    /\ out \in [Links -> Seq(0 .. MaxLines + 1)]
    /\ owed \in [Links -> Seq(0 .. MaxLines + 1)]
    /\ timer \in [Links -> {"off", "running", "out"}]
    /\ heard \in [Links -> BOOLEAN]
    /\ loans \subseteq Workers
    /\ shard \in [Counters -> [Shards -> Nat]]
    /\ next \in (0 .. NumShards) \X Counters
    /\ got \in [Counters -> Nat]
    /\ published \in [Counters -> Nat]
    /\ counted \in [Counters -> Nat]

\* "For notifications (JSON-RPC messages without `id`), no response is sent":
\* the answers on a link are those its lines call for, each under its own id
\* and in their order, and none is missing when the next line is read.
AnswersInOrder ==
    \A l \in Links :
        /\ IsPrefix(out[l], owed[l])
        /\ pc[l] = "read" => out[l] = owed[l]

\* "Read-and-reset all shard counters": an increment that races the drain is
\* published exactly once, sooner or later.
NothingLost ==
    \A k \in Counters :
        counted[k] = published[k] + got[k] + FoldFunction(+, 0, shard[k])

\* Whatever was counted, on any thread, is published: the counters of a server
\* that has fallen quiet agree with what happened.
AllPublished == <>[](published = counted)

\* A borrowed connection always comes back, also when the client neither reads
\* its answer nor goes away.
LoanEnds == \A w \in Workers : w \in loans ~> w \notin loans

\* "Mitigates slowloris-style connections that open but never authenticate":
\* the handshake ends, also for a client that keeps sending pieces of a line
\* that never ends.
HandshakeEnds == \A l \in Links : pc[l] = "auth" ~> pc[l] # "auth"
=============================================================================
