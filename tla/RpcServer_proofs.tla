--------------------------- MODULE RpcServer_proofs ---------------------------
(***************************************************************************)
(* What the server promises about its answers, for any number of links,    *)
(* HTTP requests, lines, shards and connections.  While a request is being *)
(* handled, the answers that its link owes are those it has given, and the *)
(* one that this request calls for.                                        *)
(***************************************************************************)
EXTENDS RpcServer, FiniteSetTheorems, WellFoundedInduction, TLAPS

Ids == 0 .. MaxLines + 1
Handling == {"acquire", "running", "failed", "reply"}
Pcs == Handling \cup {"new", "auth", "read", "closed"}
Timers == {"off", "running", "out"}

LinkOK(l) ==
    /\ pc[l] # "new"
    /\ pc[l] = "auth" => lines[l] = 0
    /\ request[l].id => request[l].valid
    /\ pc[l] \in {"auth", "read"} => out[l] = owed[l]
    /\ pc[l] \in Handling => owed[l] = out[l] \o Owed(request[l], lines[l])
    /\ IsPrefix(out[l], owed[l])

IInv == TypeOK /\ \A l \in Links : LinkOK(l)

-----------------------------------------------------------------------------
\* A sequence begins with itself, and with whatever it continues.
LEMMA PrefixFacts ==
    ASSUME NEW S, NEW s \in Seq(S), NEW t \in Seq(S)
    PROVE  IsPrefix(s, s) /\ IsPrefix(s, s \o t)
<1>1. /\ SubSeq(s, 1, Len(s)) = s
      /\ SubSeq(s \o t, 1, Len(s)) = s
      /\ Len(s) <= Len(s \o t)
    OBVIOUS
<1> QED BY <1>1 DEF IsPrefix

\* What a line calls for is at most one answer, under an id that it can have.
LEMMA OwedType ==
    ASSUME NEW req \in [valid : BOOLEAN, id : BOOLEAN], NEW n \in Ids
    PROVE  Owed(req, n) \in Seq(Ids)
<1>1. 0 \in Ids
    BY LimitsAssumption DEF Ids
<1> QED BY <1>1 DEF Owed

\* Requests are what parse_request makes of a line.
LEMMA ParsedType ==
    ASSUME NEW text, NEW req \in Parsed(text)
    PROVE  req \in [valid : BOOLEAN, id : BOOLEAN] /\ (req.id => req.valid)
<1>1. CASE req = [valid |-> FALSE, id |-> FALSE]
    BY <1>1
<1>2. CASE req \in [valid : {TRUE}, id : BOOLEAN]
    BY <1>2
<1> QED BY <1>1, <1>2 DEF Parsed

\* A request is taken to an error, an answer or a tool.
LEMMA RouteType == \A text : Route(text) \in {"failed", "reply", "acquire"}
BY DEF Route, Gate

\* Counting keeps the types of the counters.
LEMMA CountTypes ==
    ASSUME TypeOK, NEW k \in Counters, Count(k)
    PROVE  /\ shard' \in [Counters -> [Shards -> Nat]]
           /\ counted' \in [Counters -> Nat]
           /\ UNCHANGED <<next, got, published>>
<1>1. PICK s \in Shards : shard' = [shard EXCEPT ![k][s] = @ + 1]
    BY DEF Count
<1> QED BY <1>1 DEF Count, TypeOK

\* A step that handles a request moves a task, and nothing on its link.
LEMMA HandlingStep ==
    ASSUME IInv, NEW w \in Workers, NEW label \in Pcs, Goto(w, label),
           w \in Links => \/ pc[w] \in Handling /\ label \in Handling
                          \/ label = "closed",
           loans' \subseteq Workers,
           timer' \in [Links -> Timers], heard' \in [Links -> BOOLEAN],
           \/ UNCHANGED <<books, counted>>
           \/ Count("requests") \/ Count("errors"),
           UNCHANGED <<config, request, lines, out, owed>>
    PROVE  IInv'
<1>1. /\ shard' \in [Counters -> [Shards -> Nat]]
      /\ counted' \in [Counters -> Nat]
      /\ UNCHANGED <<next, got, published>>
    BY CountTypes DEF IInv, TypeOK, books, Counters
<1>2. /\ pc' \in [Workers -> Pcs]
      /\ \A v \in Workers : pc'[v] = IF v = w THEN label ELSE pc[v]
    BY DEF IInv, TypeOK, Goto, Pcs, Handling
<1>3. TypeOK'
    BY <1>1, <1>2 DEF IInv, TypeOK, Pcs, Handling, Timers
<1>4. ASSUME NEW l \in Links
      PROVE  LinkOK(l)'
    <2>1. LinkOK(l) /\ l \in Workers
        BY DEF IInv, Workers
    <2>2. Owed(request[l], lines[l])' = Owed(request[l], lines[l])
        OBVIOUS
    <2>3. CASE l # w
        BY <1>2, <2>1, <2>2, <2>3 DEF LinkOK
    <2>4. CASE l = w /\ label = "closed"
        BY <1>2, <2>1, <2>2, <2>4 DEF LinkOK, Handling
    <2>5. CASE l = w /\ pc[w] \in Handling /\ label \in Handling
        BY <1>2, <2>1, <2>2, <2>5 DEF LinkOK, Handling
    <2> QED BY <2>3, <2>4, <2>5
<1> QED BY <1>3, <1>4 DEF IInv

\* The steps of the drain touch the counters alone.
LEMMA DrainStep ==
    ASSUME IInv, Drain
    PROVE  IInv'
<1>1. UNCHANGED service
    BY DEF Drain, Swap, Publish
<1>2. \A l \in Links : LinkOK(l)'
    BY <1>1 DEF IInv, LinkOK, service, Owed
<1>3. ASSUME NEW k \in Counters, NEW s \in Shards, Swap(s, k)
      PROVE  TypeOK'
    <2>1. After(s, k) \in (0 .. NumShards) \X Counters
        BY LimitsAssumption DEF After, Shards, Counters
    <2>2. got' \in [Counters -> Nat] /\ shard' \in [Counters -> [Shards -> Nat]]
        BY <1>3 DEF Swap, IInv, TypeOK
    <2> QED BY <1>1, <1>3, <2>1, <2>2 DEF Swap, IInv, TypeOK, service, handshake
<1>4. ASSUME NEW k \in Counters, Publish(k)
      PROVE  TypeOK'
    <2>1. /\ <<0, "errors">> \in (0 .. NumShards) \X Counters
          /\ <<1, "requests">> \in (0 .. NumShards) \X Counters
        BY LimitsAssumption DEF Counters
    <2>2. got' \in [Counters -> Nat] /\ published' \in [Counters -> Nat]
        BY <1>4 DEF Publish, IInv, TypeOK
    <2> QED BY <1>1, <1>4, <2>1, <2>2 DEF Publish, IInv, TypeOK, service, handshake
<1> QED BY <1>2, <1>3, <1>4 DEF Drain, IInv

\* A step of a link that changes what it was asked or what it has answered:
\* it remains to be shown what holds of that link.
LEMMA LinkStep ==
    ASSUME IInv, NEW l \in Links, NEW label \in Pcs, Goto(l, label),
           NEW req \in [valid : BOOLEAN, id : BOOLEAN],
           request' = [request EXCEPT ![l] = req],
           NEW n \in 0 .. MaxLines, lines' = [lines EXCEPT ![l] = n],
           NEW o \in Seq(Ids), out' = [out EXCEPT ![l] = o],
           NEW d \in Seq(Ids), owed' = [owed EXCEPT ![l] = d],
           timer' \in [Links -> Timers], heard' \in [Links -> BOOLEAN],
           UNCHANGED <<config, loans>>,
           UNCHANGED <<books, counted>> \/ Count("requests"),
           LinkOK(l)'
    PROVE  IInv'
<1>1. /\ shard' \in [Counters -> [Shards -> Nat]]
      /\ counted' \in [Counters -> Nat]
      /\ UNCHANGED <<next, got, published>>
    BY CountTypes DEF IInv, TypeOK, books, Counters
<1>2. l \in Workers
    BY DEF Workers
<1>3. TypeOK'
    BY <1>1, <1>2 DEF IInv, TypeOK, Goto, Pcs, Handling, Ids, Timers
<1>4. ASSUME NEW m \in Links, m # l
      PROVE  LinkOK(m)'
    <2>1. LinkOK(m) /\ m \in Workers
        BY DEF IInv, Workers
    <2>2. /\ pc'[m] = pc[m] /\ request'[m] = request[m] /\ lines'[m] = lines[m]
          /\ out'[m] = out[m] /\ owed'[m] = owed[m]
        BY <1>4, <2>1 DEF IInv, TypeOK, Goto
    <2> QED BY <2>1, <2>2 DEF LinkOK
<1> QED BY <1>3, <1>4 DEF IInv

\* What the invariant says of one link.
LEMMA LinkTypes ==
    ASSUME IInv, NEW l \in Links
    PROVE  /\ LinkOK(l) /\ l \in Workers
           /\ request[l] \in [valid : BOOLEAN, id : BOOLEAN]
           /\ lines[l] \in 0 .. MaxLines
           /\ out[l] \in Seq(Ids) /\ owed[l] \in Seq(Ids)
           /\ request = [request EXCEPT ![l] = request[l]]
           /\ lines = [lines EXCEPT ![l] = lines[l]]
           /\ out = [out EXCEPT ![l] = out[l]]
           /\ owed = [owed EXCEPT ![l] = owed[l]]
           /\ timer \in [Links -> Timers] /\ heard \in [Links -> BOOLEAN]
BY DEF IInv, TypeOK, Ids, Workers, Timers

\* Leaving the handshake keeps the types of its variables.
LEMMA LeaveTypes ==
    ASSUME IInv, NEW l \in Links, NEW label, LeaveHandshake(l, label)
    PROVE  /\ pc[l] = "auth" /\ Goto(l, label)
           /\ timer' \in [Links -> Timers] /\ heard' \in [Links -> BOOLEAN]
BY DEF LeaveHandshake, IInv, TypeOK, Timers

\* The handshake: a line that is the token, or one last answer.
LEMMA HandshakeStep ==
    ASSUME IInv, NEW l \in Links, Authenticate(l) \/ Reject(l)
    PROVE  IInv'
<1>1. PICK label \in {"read", "closed"} : LeaveHandshake(l, label)
    BY DEF Authenticate, Reject
<1>2. /\ pc[l] = "auth" /\ Goto(l, label)
      /\ timer' \in [Links -> Timers] /\ heard' \in [Links -> BOOLEAN]
    BY <1>1, LeaveTypes
<1>3. 1 \in 0 .. MaxLines /\ 0 \in Ids
    BY LimitsAssumption DEF Ids
<1>4. /\ lines[l] = 0 /\ out[l] = owed[l] /\ (request[l].id => request[l].valid)
      /\ pc'[l] = label
    BY <1>2, LinkTypes DEF LinkOK, IInv, TypeOK, Goto
<1>5. CASE Authenticate(l)
    <2>1. /\ lines' = [lines EXCEPT ![l] = 1]
          /\ UNCHANGED <<config, request, out, owed, loans, books, counted>>
        BY <1>4, <1>5 DEF Authenticate
    <2>2. label # "auth" /\ label \in Pcs /\ label \notin Handling /\ label # "new"
        BY DEF Handling, Pcs
    <2>3. LinkOK(l)'
        BY <1>4, <2>1, <2>2, LinkTypes DEF LinkOK
    <2> QED BY <1>2, <1>3, <2>1, <2>2, <2>3, LinkTypes, LinkStep DEF books
<1>6. CASE Reject(l)
    <2>1. PICK o \in {out[l], Append(out[l], 0)} : out' = [out EXCEPT ![l] = o]
        BY <1>6, LinkTypes DEF Reject
    <2>2. /\ lines' = [lines EXCEPT ![l] = 1]
          /\ owed' = [owed EXCEPT ![l] = Append(out[l], 0)]
          /\ UNCHANGED <<config, request, loans, books, counted>>
          /\ pc'[l] = "closed"
        BY <1>4, <1>6, LinkTypes
           DEF Reject, LeaveHandshake, Goto, IInv, TypeOK
    <2>a. out[l] \in Seq(Ids)
        BY LinkTypes
    <2>b. Append(out[l], 0) \in Seq(Ids) /\ <<0>> \in Seq(Ids)
        BY <1>3, <2>a
    <2>c. Append(out[l], 0) = out[l] \o <<0>>
        BY <2>a
    <2>3. /\ Append(out[l], 0) \in Seq(Ids) /\ o \in Seq(Ids)
          /\ Append(out[l], 0) = out[l] \o <<0>> /\ <<0>> \in Seq(Ids)
        BY <2>1, <2>a, <2>b, <2>c
    <2>d. IsPrefix(out[l], Append(out[l], 0))
        BY <2>3, <2>a, PrefixFacts
    <2>e. IsPrefix(Append(out[l], 0), Append(out[l], 0))
        BY <2>3, PrefixFacts
    <2>4. IsPrefix(o, Append(out[l], 0))
        BY <2>1, <2>d, <2>e
    <2>5. LinkOK(l)'
        BY <1>4, <2>1, <2>2, <2>4, LinkTypes DEF LinkOK, Handling, IInv, TypeOK
    <2>6. label \in Pcs
        BY DEF Pcs
    <2> QED BY <1>2, <1>3, <2>1, <2>2, <2>3, <2>5, <2>6, LinkTypes, LinkStep
            DEF books
<1> QED BY <1>5, <1>6

\* Pieces that arrive and a timer that runs out change nothing but themselves.
LEMMA WaitStep ==
    ASSUME IInv, NEW l \in Links, Trickle(l) \/ TimeOut(l)
    PROVE  IInv'
<1>1. /\ timer' \in [Links -> Timers] /\ heard' \in [Links -> BOOLEAN]
      /\ UNCHANGED <<config, pc, request, lines, out, owed, loans, books, counted>>
    BY DEF Trickle, TimeOut, IInv, TypeOK, Timers
<1>2. TypeOK'
    BY <1>1 DEF IInv, TypeOK, Timers, books
<1>3. \A m \in Links : LinkOK(m)'
    BY <1>1 DEF IInv, LinkOK, Owed
<1> QED BY <1>2, <1>3 DEF IInv

\* A line is read: what it calls for is owed from now on.
LEMMA ReadLineStep ==
    ASSUME IInv, NEW l \in Links, ReadLine(l)
    PROVE  IInv'
<1>a. PICK text \in Texts :
        \E req \in Parsed(text) :
            /\ request' = [request EXCEPT ![l] = req]
            /\ owed' = [owed EXCEPT ![l] = @ \o Owed(req, lines[l] + 1)]
            /\ Goto(l, Route(text))
    BY DEF ReadLine
<1>b. PICK req \in Parsed(text) :
        /\ request' = [request EXCEPT ![l] = req]
        /\ owed' = [owed EXCEPT ![l] = @ \o Owed(req, lines[l] + 1)]
        /\ Goto(l, Route(text))
    BY <1>a
<1>1. /\ pc[l] = "read" /\ lines[l] < MaxLines
      /\ request' = [request EXCEPT ![l] = req]
      /\ owed' = [owed EXCEPT ![l] = @ \o Owed(req, lines[l] + 1)]
      /\ Goto(l, Route(text))
      /\ lines' = [lines EXCEPT ![l] = @ + 1]
      /\ Count("requests")
      /\ UNCHANGED <<config, out, timer, heard, loans>>
    BY <1>b DEF ReadLine, handshake
<1> DEFINE n == lines[l] + 1
           d == owed[l] \o Owed(req, n)
<1>c. LinkOK(l) /\ lines[l] \in 0 .. MaxLines /\ owed[l] \in Seq(Ids)
    BY LinkTypes
<1>2. /\ n \in 0 .. MaxLines /\ n \in Ids /\ out[l] = owed[l]
      /\ owed[l] \in Seq(Ids)
    BY <1>1, <1>c, LimitsAssumption DEF LinkOK, Ids
<1>3. req \in [valid : BOOLEAN, id : BOOLEAN] /\ (req.id => req.valid)
    BY ParsedType
<1>4. Owed(req, n) \in Seq(Ids) /\ d \in Seq(Ids) /\ IsPrefix(owed[l], d)
    BY <1>2, <1>3, OwedType, PrefixFacts
<1>5. Route(text) \in Handling \ {"new", "auth", "read"}
    BY RouteType DEF Handling
<1>6. /\ pc'[l] = Route(text) /\ request'[l] = req /\ lines'[l] = n
      /\ out'[l] = owed[l] /\ owed'[l] = d
    BY <1>1, <1>2, LinkTypes DEF IInv, TypeOK, Goto
<1>7. LinkOK(l)'
    BY <1>3, <1>4, <1>5, <1>6 DEF LinkOK
<1>8. Route(text) \in Pcs
    BY <1>5 DEF Pcs
<1> HIDE DEF n, d
<1>9. lines' = [lines EXCEPT ![l] = n] /\ owed' = [owed EXCEPT ![l] = d]
    BY <1>1, LinkTypes DEF n, d
<1> QED BY <1>1, <1>2, <1>3, <1>4, <1>7, <1>8, <1>9, LinkTypes, LinkStep

\* A request is answered, unless it is a notification: then nothing is owed any
\* more.
LEMMA ReplyStep ==
    ASSUME IInv, NEW l \in Links, Reply(l)
    PROVE  IInv'
<1> DEFINE req == request[l]
           id == IF req.id THEN lines[l] ELSE 0
           o == IF IsNotification(req) THEN out[l] ELSE Append(out[l], id)
<1>a. /\ LinkOK(l) /\ lines[l] \in 0 .. MaxLines /\ pc[l] = "reply"
      /\ req \in [valid : BOOLEAN, id : BOOLEAN]
      /\ out[l] \in Seq(Ids) /\ owed[l] \in Seq(Ids)
    BY LinkTypes DEF Reply
<1>b. id \in Ids
    BY <1>a, LimitsAssumption DEF Ids
<1>1. /\ owed[l] = out[l] \o Owed(req, lines[l])
      /\ req.id => req.valid
      /\ out[l] \in Seq(Ids) /\ owed[l] \in Seq(Ids) /\ id \in Ids
      /\ req.id \in BOOLEAN /\ req.valid \in BOOLEAN
    BY <1>a, <1>b DEF LinkOK, Handling
<1>2. o = owed[l]
    <2>1. CASE IsNotification(req)
        BY <1>1, <2>1 DEF IsNotification, Owed
    <2>2. CASE ~IsNotification(req)
        <3>1. Owed(req, lines[l]) = <<id>>
            BY <1>1, <2>2 DEF IsNotification, Owed
        <3>2. Append(out[l], id) = out[l] \o <<id>>
            BY <1>1
        <3> QED BY <1>1, <2>2, <3>1, <3>2
    <2> QED BY <2>1, <2>2
<1>3. out' = [out EXCEPT ![l] = o]
    BY LinkTypes DEF Reply
<1> HIDE DEF o
<1>4. /\ request' = [request EXCEPT ![l] = Nothing] /\ Goto(l, "read")
      /\ UNCHANGED <<config, lines, owed, timer, heard, loans, books, counted>>
    BY DEF Reply, handshake
<1>5. /\ pc'[l] = "read" /\ request'[l] = Nothing /\ out'[l] = owed[l]
      /\ owed'[l] = owed[l]
    BY <1>2, <1>3, <1>4, LinkTypes DEF IInv, TypeOK, Goto
<1>6. IsPrefix(owed[l], owed[l])
    BY <1>1, PrefixFacts
<1>7. LinkOK(l)'
    BY <1>5, <1>6 DEF LinkOK, Handling, Nothing
<1>8. Nothing \in [valid : BOOLEAN, id : BOOLEAN] /\ "read" \in Pcs
    BY DEF Nothing, Pcs
<1> QED BY <1>1, <1>2, <1>3, <1>4, <1>7, <1>8, LinkTypes, LinkStep

\* The peer does not take its answer: the link is closed with what it has.
LEMMA ReplyFailsStep ==
    ASSUME IInv, NEW l \in Links, ReplyFails(l)
    PROVE  IInv'
<1>1. /\ request' = [request EXCEPT ![l] = Nothing] /\ Goto(l, "closed")
      /\ UNCHANGED <<config, lines, out, owed, timer, heard, loans, books, counted>>
    BY DEF ReplyFails, handshake
<1>2. /\ pc'[l] = "closed" /\ request'[l] = Nothing
    BY <1>1, LinkTypes DEF IInv, TypeOK, Goto
<1>a. LinkOK(l)
    BY LinkTypes
<1>3. LinkOK(l)'
    BY <1>1, <1>2, <1>a DEF LinkOK, Handling, Nothing
<1>4. Nothing \in [valid : BOOLEAN, id : BOOLEAN] /\ "closed" \in Pcs
    BY DEF Nothing, Pcs
<1> QED BY <1>1, <1>3, <1>4, LinkTypes, LinkStep

-----------------------------------------------------------------------------
\* The invariant holds at the beginning.
LEMMA InitInv == Init => IInv
<1> SUFFICES ASSUME Init
             PROVE  IInv
    OBVIOUS
<1>a. /\ config \in Configs
      /\ pc \in [Workers -> {"new", "auth", "read"}]
      /\ loans \subseteq Workers
    BY DEF Init
<1>b. /\ request \in [Links -> [valid : BOOLEAN, id : BOOLEAN]]
      /\ lines \in [Links -> 0 .. MaxLines]
    BY LimitsAssumption DEF Init, Nothing
<1>c. /\ out \in [Links -> Seq(0 .. MaxLines + 1)]
      /\ owed \in [Links -> Seq(0 .. MaxLines + 1)]
      /\ timer \in [Links -> {"off", "running", "out"}]
      /\ heard \in [Links -> BOOLEAN]
    BY DEF Init
<1>d. /\ shard \in [Counters -> [Shards -> Nat]]
      /\ got \in [Counters -> Nat]
      /\ published \in [Counters -> Nat]
      /\ counted \in [Counters -> Nat]
    BY DEF Init
<1>e. next \in (0 .. NumShards) \X Counters
    BY LimitsAssumption DEF Init, Counters
<1>1. TypeOK
    BY <1>a, <1>b, <1>c, <1>d, <1>e DEF TypeOK
<1>2. ASSUME NEW l \in Links
      PROVE  LinkOK(l)
    <2>1. l \in Workers /\ l \notin Calls
        BY WorkersAssumption DEF Workers
    <2>2. pc[l] \in {"auth", "read"} /\ request[l] = Nothing
          /\ lines[l] = 0 /\ out[l] = <<>> /\ owed[l] = <<>>
        BY <2>1 DEF Init
    <2>3. IsPrefix(<<>>, <<>>)
        BY PrefixFacts, <<>> \in Seq(Ids)
    <2> QED BY <2>2, <2>3 DEF LinkOK, Nothing, Handling
<1> QED BY <1>1, <1>2 DEF IInv

\* Every step preserves it.
LEMMA NextInv == IInv /\ [Next]_vars => IInv'
<1> SUFFICES ASSUME IInv, [Next]_vars
             PROVE  IInv'
    OBVIOUS
<1>1. /\ loans \subseteq Workers
      /\ timer \in [Links -> Timers] /\ heard \in [Links -> BOOLEAN]
    BY DEF IInv, TypeOK, Timers
<1>2. ASSUME NEW w \in Workers, Serve(w)
      PROVE  IInv'
    <2>1. \E label \in Handling :
             /\ pc[w] \in Handling /\ Goto(w, label)
             /\ loans' \subseteq Workers
             /\ UNCHANGED <<books, counted>> \/ Count("errors")
             /\ UNCHANGED <<config, request, lines, out, owed, timer, heard>>
        BY <1>1, <1>2 DEF handshake, Serve, Borrow, BorrowFails, Finish, Fail, Handling
    <2> QED BY <1>1, <2>1, HandlingStep DEF Pcs
<1>3. ASSUME NEW l \in Links, ExpireHandshake(l) \/ EndHandshake(l) \/ EndOfInput(l)
      PROVE  IInv'
    <2>1. l \in Workers /\ "closed" \in Pcs
        BY DEF Workers, Pcs
    <2>2. /\ Goto(l, "closed")
          /\ timer' \in [Links -> Timers] /\ heard' \in [Links -> BOOLEAN]
        BY <1>1, <1>3, LeaveTypes
           DEF ExpireHandshake, EndHandshake, EndOfInput, handshake
    <2>3. UNCHANGED <<config, request, lines, out, owed, loans, books, counted>>
        BY <1>3 DEF ExpireHandshake, EndHandshake, EndOfInput
    <2> QED BY <1>1, <2>1, <2>2, <2>3, HandlingStep
<1>4. ASSUME NEW h \in Calls, Call(h)
      PROVE  IInv'
    <2>1. h \in Workers /\ h \notin Links
        BY WorkersAssumption DEF Workers
    <2>2. \E label \in Pcs :
             /\ Goto(h, label)
             /\ loans' \subseteq Workers
             /\ UNCHANGED <<books, counted>> \/ Count("requests")
             /\ UNCHANGED <<config, request, lines, out, owed, timer, heard>>
        BY <1>1, <1>4, RouteType
           DEF handshake, Call, Post, RefusePost, Abandon, Respond, Pcs, Handling
    <2> QED BY <1>1, <2>1, <2>2, HandlingStep
<1>5. CASE UNCHANGED vars
    BY <1>5 DEF IInv, TypeOK, LinkOK, Owed, vars, service, handshake, books
<1> QED BY <1>2, <1>3, <1>4, <1>5, HandshakeStep, WaitStep, ReadLineStep, ReplyStep,
           ReplyFailsStep, DrainStep DEF Next, Link

\* So it always holds.
THEOREM Invariance == Spec => []IInv
BY InitInv, NextInv, PTL DEF Spec

\* Every variable has its type, for any number of links and requests.
THEOREM TypeCorrect == Spec => []TypeOK
<1>1. IInv => TypeOK
    BY DEF IInv
<1> QED BY <1>1, Invariance, PTL

\* Whatever a link sends and wherever its requests end, its answers are those
\* that its lines call for, in their order and each under its own id.
THEOREM AnswersKeepOrder == Spec => []AnswersInOrder
<1>1. IInv => AnswersInOrder
    BY DEF IInv, LinkOK, AnswersInOrder
<1> QED BY <1>1, Invariance, PTL

-----------------------------------------------------------------------------
(***************************************************************************)
(* Sums over the shards.  FoldFunction computes a sum by a function on the *)
(* subsets of the domain; that this function exists, and what it computes, *)
(* is shown by induction on subsets: the theorem of the library that takes *)
(* a set, and no operator, is that a well-founded relation has minima.     *)
(***************************************************************************)

\* Induction over the subsets of a finite set: a set of subsets that has each of
\* them whose proper subsets it has, has them all.
LEMMA SubsetInduction ==
    ASSUME NEW S, IsFiniteSet(S), NEW X,
           \A T \in SUBSET S : (\A U \in SUBSET T : U # T => U \in X) => T \in X
    PROVE  \A T \in SUBSET S : T \in X
<1> DEFINE Bad == (SUBSET S) \ X
<1> SUFFICES ASSUME Bad # {} PROVE FALSE
    OBVIOUS
<1>a. IsWellFoundedOn(StrictSubsetOrdering(S), FiniteSubsetsOf(S))
    BY FS_StrictSubsetOrderingWellFounded
<1>b. FiniteSubsetsOf(S) = SUBSET S
    BY FS_FiniteSubsetsOfFinite
<1>1. IsWellFoundedOn(StrictSubsetOrdering(S), SUBSET S)
    BY <1>a, <1>b, Zenon
<1>c. Bad \subseteq SUBSET S
    OBVIOUS
<1>2. PICK T \in Bad : \A U \in Bad : ~ (<<U, T>> \in StrictSubsetOrdering(S))
    <2> HIDE DEF Bad
    <2> QED BY <1>1, <1>c, WFMin
<1>3. \A U \in SUBSET T : U # T => U \in X
    BY <1>2 DEF StrictSubsetOrdering
<1> QED BY <1>2, <1>3

\* The sum of the values of a function.
Total(f) == FoldFunction(+, 0, f)

\* What it computes on the subsets of S.
First(s) == CHOOSE x \in s : TRUE
SumFrom(g, f, s) == IF s = {} THEN 0 ELSE f[First(s)] + g[s \ {First(s)}]
IsSum(g, f, S) == g = [s \in SUBSET S |-> SumFrom(g, f, s)]
Sums(f, S) == CHOOSE g : IsSum(g, f, S)

LEMMA FirstIsIn == \A s : s # {} => First(s) \in s
BY DEF First

LEMMA TotalIsSum == \A f : Total(f) = Sums(f, DOMAIN f)[DOMAIN f]
BY DEF Total, FoldFunction, FoldFunctionOnSet, MapThenFoldSet, Sums, IsSum, SumFrom, First

\* There is only one such function, also on the subsets of a part of S.
LEMMA SumUnique ==
    ASSUME NEW S, IsFiniteSet(S), NEW f, NEW g, IsSum(g, f, S),
           NEW P \in SUBSET S, NEW h, IsSum(h, f, P)
    PROVE  \A s \in SUBSET P : g[s] = h[s]
<1> DEFINE X == {s \in SUBSET P : g[s] = h[s]}
<1>1. IsFiniteSet(P)
    BY FS_Subset
<1>2. ASSUME NEW T \in SUBSET P, \A U \in SUBSET T : U # T => U \in X
      PROVE  T \in X
    <2>1. g[T] = SumFrom(g, f, T) /\ h[T] = SumFrom(h, f, T)
        BY DEF IsSum
    <2>2. CASE T = {}
        BY <2>1, <2>2 DEF SumFrom
    <2>3. CASE T # {}
        <3>1. First(T) \in T
            BY <2>3, FirstIsIn
        <3>2. T \ {First(T)} \in X
            BY <1>2, <3>1
        <3> QED BY <2>1, <2>3, <3>2 DEF SumFrom
    <2> QED BY <2>2, <2>3
<1>3. \A T \in SUBSET P : T \in X
    <2> HIDE DEF X
    <2> QED BY <1>1, <1>2, SubsetInduction
<1> QED BY <1>3

\* And there is one.
LEMMA SumExists ==
    ASSUME NEW S, IsFiniteSet(S), NEW f
    PROVE  IsSum(Sums(f, S), f, S)
<1> DEFINE X == {T \in SUBSET S : \E g : IsSum(g, f, T)}
<1>1. ASSUME NEW T \in SUBSET S, \A U \in SUBSET T : U # T => U \in X
      PROVE  T \in X
    <2> DEFINE G(U) == Sums(f, U)
               v(U) == G(U)[U]
               w(s) == IF s = {} THEN 0 ELSE f[First(s)] + v(s \ {First(s)})
               g == [s \in SUBSET T |-> w(s)]
    <2>1. ASSUME NEW U \in SUBSET T, U # T
          PROVE  IsSum(G(U), f, U)
        BY <1>1, <2>1 DEF Sums
    <2>2. ASSUME NEW U \in SUBSET T, U # T
          PROVE  v(U) = w(U)
        <3>1. v(U) = SumFrom(G(U), f, U)
            BY <2>1, <2>2 DEF IsSum
        <3>2. CASE U = {}
            BY <3>1, <3>2 DEF SumFrom
        <3>3. CASE U # {}
            <4> DEFINE R == U \ {First(U)}
            <4>1. First(U) \in U
                BY <3>3, FirstIsIn
            <4>2. R \in SUBSET U /\ R \in SUBSET T /\ R # T
                BY <4>1
            <4>3. IsSum(G(U), f, U) /\ IsSum(G(R), f, R) /\ IsFiniteSet(U)
                BY <2>1, <2>2, <4>2, FS_Subset
            <4>4. \A s \in SUBSET R : G(U)[s] = G(R)[s]
                BY <4>2, <4>3, SumUnique
            <4>5. G(U)[R] = v(R)
                BY <4>4
            <4> QED BY <3>1, <3>3, <4>5 DEF SumFrom
        <3> QED BY <3>2, <3>3
    <2>3. ASSUME NEW s \in SUBSET T
          PROVE  w(s) = SumFrom(g, f, s)
        <3>1. CASE s = {}
            BY <3>1 DEF SumFrom
        <3>2. CASE s # {}
            <4> DEFINE R == s \ {First(s)}
            <4>1. R \in SUBSET T /\ R # T
                BY <3>2, FirstIsIn
            <4>2. g[R] = v(R)
                BY <2>2, <4>1
            <4> QED BY <3>2, <4>2 DEF SumFrom
        <3> QED BY <3>1, <3>2
    <2>4. IsSum(g, f, T)
        BY <2>3 DEF IsSum
    <2> QED BY <2>4
<1>2. \A T \in SUBSET S : T \in X
    <2> HIDE DEF X
    <2> QED BY <1>1, SubsetInduction
<1> QED BY <1>2 DEF Sums

\* A sum of natural numbers is one, and that of noughts is nought.
LEMMA SumType ==
    ASSUME NEW S, IsFiniteSet(S), NEW f \in [S -> Nat]
    PROVE  /\ Total(f) \in Nat
           /\ (\A x \in S : f[x] = 0) => Total(f) = 0
<1> DEFINE g == Sums(f, S)
           X == {s \in SUBSET S : g[s] \in Nat /\ ((\A x \in S : f[x] = 0) => g[s] = 0)}
<1>0. IsSum(g, f, S)
    BY SumExists
<1> HIDE DEF g
<1>1. ASSUME NEW T \in SUBSET S, \A U \in SUBSET T : U # T => U \in X
      PROVE  T \in X
    <2>1. g[T] = SumFrom(g, f, T)
        BY <1>0 DEF IsSum
    <2>2. CASE T = {}
        BY <2>1, <2>2 DEF SumFrom
    <2>3. CASE T # {}
        <3>1. First(T) \in T /\ f[First(T)] \in Nat
            BY <2>3, FirstIsIn
        <3>2. T \ {First(T)} \in X
            BY <1>1, <3>1
        <3> QED BY <2>1, <2>3, <3>1, <3>2 DEF SumFrom
    <2> QED BY <2>2, <2>3
<1>2. \A T \in SUBSET S : T \in X
    <2> HIDE DEF X
    <2> QED BY <1>1, SubsetInduction
<1>3. S \in X
    BY <1>2
<1> QED BY <1>3, TotalIsSum DEF g

\* When one term changes, the sum changes by as much.
LEMMA SumChange ==
    ASSUME NEW S, IsFiniteSet(S), NEW f \in [S -> Nat], NEW a \in S, NEW v \in Nat
    PROVE  Total([f EXCEPT ![a] = v]) + f[a] = Total(f) + v
<1> DEFINE h == [f EXCEPT ![a] = v]
           g == Sums(f, S)
           k == Sums(h, S)
           X == {s \in SUBSET S :
                    /\ g[s] \in Nat /\ k[s] \in Nat
                    /\ IF a \in s THEN k[s] + f[a] = g[s] + v ELSE k[s] = g[s]}
<1>0. IsSum(g, f, S) /\ IsSum(k, h, S)
    BY SumExists
<1> HIDE DEF g, k
<1>1. ASSUME NEW T \in SUBSET S, \A U \in SUBSET T : U # T => U \in X
      PROVE  T \in X
    <2>1. g[T] = SumFrom(g, f, T) /\ k[T] = SumFrom(k, h, T)
        BY <1>0 DEF IsSum
    <2>2. CASE T = {}
        BY <2>1, <2>2 DEF SumFrom
    <2>3. CASE T # {}
        <3> DEFINE x == First(T)
                   R == T \ {x}
        <3>1. x \in T
            BY <2>3, FirstIsIn
        <3>2. R \in X /\ (a \in R <=> a \in T /\ x # a)
            BY <1>1, <3>1
        <3>3. g[T] = f[x] + g[R] /\ k[T] = h[x] + k[R]
            BY <2>1, <2>3 DEF SumFrom
        <3>4. f[x] \in Nat /\ f[a] \in Nat /\ h[x] = IF x = a THEN v ELSE f[x]
            BY <3>1
        <3> HIDE DEF x, R, h
        <3> QED BY <3>1, <3>2, <3>3, <3>4
    <2> QED BY <2>2, <2>3
<1>2. \A T \in SUBSET S : T \in X
    <2> HIDE DEF X
    <2> QED BY <1>1, SubsetInduction
<1>3. S \in X
    BY <1>2
<1>4. DOMAIN h = S /\ DOMAIN f = S
    OBVIOUS
<1> QED BY <1>3, <1>4, TotalIsSum DEF g, k

-----------------------------------------------------------------------------
(***************************************************************************)
(* The books of the metrics                                                *)
(***************************************************************************)

Balance(k) == counted[k] = published[k] + got[k] + Total(shard[k])

LEMMA LostIsBalance ==
    /\ NothingLost <=> \A k \in Counters : Balance(k)
    /\ NothingLost' <=> \A k \in Counters : Balance(k)'
BY Zenon DEF NothingLost, Balance, Total

LEMMA ShardTypes ==
    ASSUME TypeOK, NEW k \in Counters
    PROVE  /\ IsFiniteSet(Shards)
           /\ shard[k] \in [Shards -> Nat] /\ Total(shard[k]) \in Nat
           /\ counted[k] \in Nat /\ published[k] \in Nat /\ got[k] \in Nat
<1>1. IsFiniteSet(Shards)
    BY FS_Interval, LimitsAssumption DEF Shards
<1>2. shard[k] \in [Shards -> Nat]
    BY DEF TypeOK
<1>3. Total(shard[k]) \in Nat
    BY <1>1, <1>2, SumType
<1> QED BY <1>1, <1>2, <1>3 DEF TypeOK

\* Counting is booked where it is counted.
LEMMA CountBalance ==
    ASSUME TypeOK, NothingLost, NEW counter \in Counters, Count(counter)
    PROVE  NothingLost'
<1>1. PICK s \in Shards : shard' = [shard EXCEPT ![counter][s] = @ + 1]
    BY DEF Count
<1> SUFFICES ASSUME NEW k \in Counters
             PROVE  Balance(k)'
    BY LostIsBalance
<1>2. Balance(k)
    BY LostIsBalance
<1>3. CASE k # counter
    <2>1. shard'[k] = shard[k] /\ counted'[k] = counted[k]
        BY <1>1, <1>3 DEF Count, TypeOK
    <2> QED BY <1>2, <2>1 DEF Balance, Count
<1>4. CASE k = counter
    <2> DEFINE n == shard[k][s]
    <2>1. /\ shard'[k] = [shard[k] EXCEPT ![s] = n + 1]
          /\ counted'[k] = counted[k] + 1
          /\ UNCHANGED <<got, published>>
        BY <1>1, <1>4 DEF Count, TypeOK
    <2>2. n \in Nat /\ n + 1 \in Nat
        BY ShardTypes
    <2>3. Total([shard[k] EXCEPT ![s] = n + 1]) + n
              = Total(shard[k]) + (n + 1)
        BY <2>2, ShardTypes, SumChange
    <2>4. [shard[k] EXCEPT ![s] = n + 1] \in [Shards -> Nat]
        BY <2>2, ShardTypes
    <2>5. Total([shard[k] EXCEPT ![s] = n + 1]) \in Nat
        BY <2>4, ShardTypes, SumType
    <2>6. Total(shard'[k]) = Total(shard[k]) + 1
        BY <2>1, <2>2, <2>3, <2>5, ShardTypes
    <2> QED BY <1>2, <2>1, <2>6, ShardTypes DEF Balance
<1> QED BY <1>3, <1>4

\* What the drain takes from a shard it has in hand, until it is published.
LEMMA DrainBalance ==
    ASSUME TypeOK, NothingLost, Drain
    PROVE  NothingLost'
<1> SUFFICES ASSUME NEW k \in Counters
             PROVE  Balance(k)'
    BY LostIsBalance
<1>1. Balance(k)
    BY LostIsBalance
<1>2. ASSUME NEW j \in Counters, Publish(j)
      PROVE  Balance(k)'
    <2>1. /\ counted' = counted /\ shard' = shard
          /\ IF k = j THEN published'[k] = published[k] + got[k] /\ got'[k] = 0
             ELSE published'[k] = published[k] /\ got'[k] = got[k]
        BY <1>2 DEF Publish, TypeOK
    <2>2. Total(shard'[k]) = Total(shard[k])
        BY <2>1
    <2> QED BY <1>1, <2>1, <2>2, ShardTypes DEF Balance
<1>3. ASSUME NEW j \in Counters, NEW s \in Shards, Swap(s, j), j # k
      PROVE  Balance(k)'
    <2>1. /\ counted' = counted /\ published' = published
          /\ got'[k] = got[k] /\ shard'[k] = shard[k]
        BY <1>3 DEF Swap, TypeOK
    <2> QED BY <1>1, <2>1 DEF Balance
<1>4. ASSUME NEW s \in Shards, Swap(s, k)
      PROVE  Balance(k)'
    <2> DEFINE n == shard[k][s]
    <2>1. /\ counted' = counted /\ published' = published
          /\ got'[k] = got[k] + n /\ shard'[k] = [shard[k] EXCEPT ![s] = 0]
        BY <1>4 DEF Swap, TypeOK
    <2>2. n \in Nat
        BY ShardTypes
    <2>3. Total([shard[k] EXCEPT ![s] = 0]) + n
              = Total(shard[k]) + 0
        BY ShardTypes, SumChange
    <2>4. [shard[k] EXCEPT ![s] = 0] \in [Shards -> Nat]
        BY ShardTypes
    <2>5. Total([shard[k] EXCEPT ![s] = 0]) \in Nat
        BY <2>4, ShardTypes, SumType
    <2>6. Total(shard'[k]) + n = Total(shard[k]) /\ Total(shard'[k]) \in Nat
        BY <2>1, <2>2, <2>3, <2>5, ShardTypes
    <2> QED BY <1>1, <2>1, <2>2, <2>6, ShardTypes DEF Balance
<1> QED BY <1>2, <1>3, <1>4 DEF Drain

\* Every other step counts one request or one error, or leaves the books alone.
LEMMA BooksStep ==
    ASSUME Next, ~Drain
    PROVE  UNCHANGED <<books, counted>> \/ Count("requests") \/ Count("errors")
BY DEF Next, Link, Call, Serve, Authenticate, Reject, Trickle, TimeOut,
       ExpireHandshake, EndHandshake, ReadLine, EndOfInput, Reply, ReplyFails, Post, RefusePost, Abandon, Respond, Borrow,
       BorrowFails, Finish, Fail, books

\* An increment that races the drain is published exactly once: at any moment
\* what was counted is published, in the drain's hands, or in a shard, for any
\* number of shards and of tasks.
THEOREM NothingIsLost == Spec => []NothingLost
<1>1. Init => NothingLost
    <2> SUFFICES ASSUME Init, NEW k \in Counters
                 PROVE  Balance(k)
        BY LostIsBalance
    <2>1. TypeOK
        BY InitInv DEF IInv
    <2>2. \A s \in Shards : shard[k][s] = 0
        BY DEF Init
    <2>3. Total(shard[k]) = 0
        BY <2>1, <2>2, ShardTypes, SumType
    <2> QED BY <2>3 DEF Init, Balance
<1>2. IInv /\ NothingLost /\ [Next]_vars => NothingLost'
    <2> SUFFICES ASSUME IInv, NothingLost, [Next]_vars
                 PROVE  NothingLost'
        OBVIOUS
    <2>1. TypeOK
        BY DEF IInv
    <2>2. CASE UNCHANGED <<books, counted>>
        <3>1. UNCHANGED <<shard, got, published, counted>>
            BY <2>2 DEF books
        <3> QED BY <3>1, LostIsBalance DEF Balance
    <2>3. CASE Count("requests") \/ Count("errors")
        BY <2>1, <2>3, CountBalance DEF Counters
    <2>4. CASE Drain
        BY <2>1, <2>4, DrainBalance
    <2> QED BY <2>2, <2>3, <2>4, BooksStep DEF vars, books
<1> QED BY <1>1, <1>2, Invariance, PTL DEF Spec
=============================================================================
