----------------------- MODULE ToolTransactions_proofs -----------------------
(***************************************************************************)
(* What the requests that write promise, for any number of requests,       *)
(* connections and statements.  The inductive invariant follows the writes *)
(* of a request that nothing spoils: before COMMIT they are all held by    *)
(* the session of its connection and none is committed, and no session     *)
(* holds a write of a request that has been answered unspoiled, unless its  *)
(* transaction has failed and can only be rolled back.                     *)
(***************************************************************************)
EXTENDS ToolTransactions, TLAPS

\* A connection is lent to one request at a time, and exactly while it sends.
Lending ==
    /\ \A r \in Requests : pc[r] \in Sending <=> conn[r] # NoConn
    /\ \A r, q \in Requests : conn[r] # NoConn /\ conn[r] = conn[q] => r = q

\* A dead connection has no session, and only a transaction holds writes.
Held0 ==
    \A c \in Conns :
        /\ session[c].tx = "none" => session[c].pending = {}
        /\ ~session[c].alive => session[c] = NoSession

\* In a restricted server every session only reads, and every tool.
ReadOnly ==
    restricted =>
        /\ \A r \in Requests : kind[r] \in ReadTools
        /\ \A c \in Conns : /\ session[c].alive => session[c].readOnly
                            /\ session[c].pending = {}
        /\ committed = {}

\* Whose writes a session may hold.
Owners ==
    \A c \in Conns, w \in Writes :
        w \in session[c].pending =>
            \/ session[c].tx = "failed"
            \/ conn[w[1]] = c
            \/ pc[w[1]] = "done" /\ Spoiled(w[1])

\* Where in its handler a request of each kind may be.
Phase(r) ==
    /\ step[r] <= Statements(kind[r])
    /\ pc[r] = "done" <=> reply[r] # "none"
    /\ pc[r] \in {"new", "begin", "set", "refuse"} => step[r] = 1
    /\ pc[r] \in Sending =>
          IF kind[r] \in InTransaction
          THEN pc[r] \in {"refuse", "begin", "set", "exec", "commit", "rollback"}
          ELSE pc[r] \in {"refuse", "exec", "copy", "stream", "finish"}

None(r) == \A n \in 1 .. MostStatements : <<r, n>> \notin committed
All(r) == \A n \in 1 .. Statements(kind[r]) : <<r, n>> \in committed

\* A request that nothing spoils, in a transaction ...
InTx(r) ==
    /\ \/ None(r)
       \/ pc[r] = "commit" /\ ~Session(r).alive /\ All(r)
    /\ Session(r).alive =>
          /\ pc[r] \in {"refuse", "begin"} => Session(r).tx = "none"
          /\ pc[r] \in {"set", "exec", "commit"} => Session(r).tx = "open"
          /\ pc[r] = "rollback" => Session(r).tx = "failed"
          /\ pc[r] = "exec" =>
                \A n \in 1 .. MostStatements :
                    n < step[r] => <<r, n>> \in Session(r).pending
          /\ pc[r] = "commit" =>
                \A n \in 1 .. Statements(kind[r]) : <<r, n>> \in Session(r).pending

\* ... and outside one.
Alone(r) ==
    /\ \/ \A n \in 1 .. MostStatements :
              <<r, n>> \in committed <=> n < step[r] /\ kind[r] # "read"
       \/ /\ pc[r] \in Storing /\ ~Session(r).alive
          /\ \A n \in 1 .. MostStatements :
                <<r, n>> \in committed <=> n <= step[r] /\ kind[r] # "read"
    /\ Session(r).tx = "none"

Active(r) ==
    pc[r] \in Sending /\ ~inherits[r] =>
        IF kind[r] \in InTransaction THEN InTx(r) ELSE Alone(r)

\* A request that has not begun, and one that is over.
NotBegun(r) == pc[r] = "new" => None(r) /\ ~inherits[r]

Over(r) ==
    pc[r] = "done" /\ ~Spoiled(r) =>
        /\ reply[r] = "ok" /\ kind[r] # "read" => All(r)
        /\ reply[r] \in {"err", "empty"} =>
              \A n \in 1 .. Statements(kind[r]) :
                  <<r, n>> \in committed => kind[r] = "refill" /\ n = 1
        /\ \/ \A n \in 1 .. Statements(kind[r]) : <<r, n>> \notin committed
           \/ \A n \in 1 .. Statements(kind[r]) :
                 <<r, n>> \in committed <=> kind[r] = "refill" /\ n = 1
           \/ All(r)

Local(r) == Phase(r) /\ NotBegun(r) /\ Active(r) /\ Over(r)

IInv ==
    /\ TypeOK
    /\ Lending
    /\ Held0
    /\ Owners
    /\ \A r \in Requests : Local(r)

Sessions == [alive : BOOLEAN, tx : {"none", "open", "failed"},
             pending : SUBSET Writes, readOnly : BOOLEAN]

-----------------------------------------------------------------------------
(***************************************************************************)
(* The operators of the model                                              *)
(***************************************************************************)

\* What a statement makes of a session is a session.
LEMMA SessionTypes ==
    ASSUME NEW s \in Sessions, NEW ws \in SUBSET Writes
    PROVE  /\ Begun(s) \in Sessions
           /\ Stored(s, ws) \in Sessions
           /\ Failed(s) \in Sessions
           /\ Ended(s) \in Sessions
           /\ NoSession \in Sessions
BY DEF Sessions, Begun, Stored, Failed, Ended, NoSession

\* No tool sends more statements than MostStatements, and each sends one.
LEMMA StatementCount ==
    ASSUME NEW k
    PROVE  /\ MostStatements \in Nat
           /\ Statements(k) \in 1 .. MostStatements
           /\ 1 .. Statements(k) \subseteq 1 .. MostStatements
BY BoundsAssumption DEF Statements, MostStatements

\* What TypeOK says of one request.
LEMMA RequestTypes ==
    ASSUME TypeOK, NEW r \in Requests
    PROVE  /\ conn[r] \in Conns \cup {NoConn}
           /\ kind[r] \in Kinds
           /\ bad[r] \in 0 .. Chunks
           /\ step[r] \in 1 .. MostStatements
           /\ pc[r] \in Sending \cup {"new", "done"}
           /\ reply[r] \in Replies
           /\ inherits[r] \in BOOLEAN
           /\ CurrentWrite(r) \in SUBSET Writes
BY DEF TypeOK, CurrentWrite, Writes

-----------------------------------------------------------------------------
(***************************************************************************)
(* A step of one request leaves what holds of the others as it is          *)
(***************************************************************************)

\* What a step of r may do: its statement makes a session s of the one it has
\* and commits X, each of r's own writes or those the session held, and the
\* handler goes on or answers.
Serves(r, s, X) ==
    /\ SetSession(r, s)
    /\ committed' = committed \cup X
    /\ \A w \in s.pending : w[1] = r \/ w \in Session(r).pending
    /\ \A w \in X : w[1] = r \/ (w \in Session(r).pending /\ Session(r).tx # "failed")
    /\ s.tx = "none" => s.pending = {}
    /\ Session(r).tx = "failed" => s.tx = "failed" \/ s.pending = {}
    /\ ~s.alive => s = NoSession
    /\ step'[r] \in 1 .. MostStatements /\ step' = [step EXCEPT ![r] = step'[r]]
    /\ \/ \E label \in Sending : Continue(r, label)
       \/ /\ \E what \in Answers : Answer(r, what)
          /\ Spoiled(r)' \/ s.tx = "failed" \/ \A w \in s.pending : w[1] # r
    /\ cancels' \in 0 .. MaxCancels
    /\ UNCHANGED <<restricted, kind, bad, inherits>>

\* The other requests: what they are doing, what their sessions hold and what
\* is committed of them does not change.
LEMMA OthersKeep ==
    ASSUME IInv, NEW r \in Requests, pc[r] \in Sending,
           NEW s \in Sessions, NEW X \in SUBSET Writes, Serves(r, s, X),
           NEW q \in Requests, q # r
    PROVE  Local(q)'
<1>1. /\ conn[r] \in Conns
      /\ conn[q] # conn[r]
      /\ conn' \in [Requests -> Conns \cup {NoConn}]
      /\ conn'[q] = conn[q]
    BY SlotsAssumption DEF IInv, TypeOK, Lending, Serves, Continue, Answer
<1>2. /\ pc'[q] = pc[q] /\ reply'[q] = reply[q] /\ step'[q] = step[q]
      /\ kind'[q] = kind[q] /\ bad'[q] = bad[q] /\ inherits'[q] = inherits[q]
    BY DEF IInv, TypeOK, Serves, Continue, Answer
<1>3. Spoiled(q)' = Spoiled(q)
    BY <1>2 DEF Spoiled
<1>4. conn[q] \in Conns => Session(q)' = Session(q)
    BY <1>1 DEF IInv, TypeOK, Serves, SetSession, Session
<1>5. ASSUME NEW n \in 1 .. MostStatements, ~(pc[q] = "done" /\ Spoiled(q))
      PROVE  <<q, n>> \in committed' <=> <<q, n>> \in committed
    <2>1. <<q, n>> \in Writes /\ <<q, n>>[1] = q
        BY DEF Writes
    <2>2. <<q, n>> \notin Session(r).pending \/ Session(r).tx = "failed"
        BY <1>1, <1>5, <2>1 DEF IInv, Owners, Session
    <2> QED BY <2>1, <2>2 DEF Serves
<1>6. 1 .. Statements(kind[q]) \subseteq 1 .. MostStatements
    BY StatementCount
<1>7. Local(q)
    BY DEF IInv
<1>8. Phase(q)'
    BY <1>2, <1>7 DEF Local, Phase
<1>9. NotBegun(q)'
    BY <1>2, <1>5, <1>7 DEF Local, NotBegun, None
<1>10. Active(q)'
    <2>1. SUFFICES ASSUME pc[q] \in Sending, ~inherits[q]
                   PROVE  Active(q)'
        BY <1>2 DEF Active
    <2>2. conn[q] \in Conns /\ Session(q)' = Session(q)
        BY <1>4, <2>1 DEF IInv, Lending, TypeOK
    <2>3. pc[q] # "done"
        BY <2>1 DEF Sending, Awaiting, Storing
    <2>4. CASE kind[q] \in InTransaction
        <3>1. InTx(q)
            BY <1>7, <2>1, <2>4 DEF Local, Active
        <3>2. InTx(q)'
            BY <1>2, <1>5, <1>6, <2>2, <2>3, <3>1 DEF InTx, None, All
        <3> QED BY <1>2, <2>4, <3>2 DEF Active
    <2>5. CASE kind[q] \notin InTransaction
        <3>1. Alone(q)
            BY <1>7, <2>1, <2>5 DEF Local, Active
        <3>2. Alone(q)'
            BY <1>2, <1>5, <2>2, <2>3, <3>1 DEF Alone
        <3> QED BY <1>2, <2>5, <3>2 DEF Active
    <2> QED BY <2>4, <2>5
<1>11. Over(q)'
    BY <1>2, <1>3, <1>5, <1>6, <1>7 DEF Local, Over, All
<1> QED BY <1>8, <1>9, <1>10, <1>11 DEF Local

\* With the step's own effect on r, that is all there is to the invariant.
LEMMA ServeKeeps ==
    ASSUME IInv, NEW r \in Requests, pc[r] \in Sending,
           NEW s \in Sessions, NEW X \in SUBSET Writes, Serves(r, s, X),
           Local(r)'
    PROVE  IInv'
<1>1. conn[r] \in Conns
    BY DEF IInv, TypeOK, Lending
<1>2. TypeOK'
    <2>1. session' \in [Conns -> Sessions]
        BY <1>1 DEF IInv, TypeOK, Sessions, Serves, SetSession
    <2>2. /\ pc' \in [Requests -> Sending \cup {"new", "done"}]
          /\ reply' \in [Requests -> Replies]
          /\ conn' \in [Requests -> Conns \cup {NoConn}]
        BY DEF IInv, TypeOK, Serves, Continue, Answer, Replies
    <2>3. step' \in [Requests -> 1 .. MostStatements]
        BY DEF IInv, TypeOK, Serves
    <2>4. /\ committed' \subseteq Writes
          /\ cancels' \in 0 .. MaxCancels
          /\ UNCHANGED <<restricted, kind, bad, inherits>>
        BY DEF IInv, TypeOK, Serves
    <2> QED BY <2>1, <2>2, <2>3, <2>4 DEF IInv, TypeOK, Sessions, Writes
<1>3. Lending'
    <2>1. \/ pc'[r] \in Sending /\ conn' = conn
          \/ pc'[r] = "done" /\ conn' = [conn EXCEPT ![r] = NoConn]
        BY DEF IInv, TypeOK, Serves, Continue, Answer
    <2>2. \A q \in Requests : q # r => pc'[q] = pc[q]
        BY DEF IInv, TypeOK, Serves, Continue, Answer
    <2> QED BY <2>1, <2>2, <1>1, SlotsAssumption
          DEF IInv, TypeOK, Lending, Sending, Awaiting, Storing
<1>4. Held0'
    BY <1>1 DEF IInv, TypeOK, Held0, Serves, SetSession
<1>5. Owners'
    <2> SUFFICES ASSUME NEW c \in Conns, NEW w \in Writes,
                        w \in session'[c].pending, session'[c].tx # "failed"
                 PROVE  conn'[w[1]] = c \/ (pc'[w[1]] = "done" /\ Spoiled(w[1])')
        BY DEF Owners, Writes
    <2> DEFINE q == w[1]
    <2>1. q \in Requests
        BY DEF Writes
    <2>2. CASE q = r
        <3>1. CASE c = conn[r]
            <4>1. w \in s.pending /\ s.tx # "failed"
                BY <3>1, <1>1 DEF IInv, TypeOK, Serves, SetSession
            <4> QED BY <4>1, <3>1, <2>2, <2>1
                  DEF IInv, TypeOK, Serves, Continue, Answer
        <3>2. CASE c # conn[r]
            <4>1. w \in session[c].pending /\ session[c].tx # "failed"
                BY <3>2, <1>1 DEF IInv, TypeOK, Serves, SetSession
            <4>2. pc[r] # "done"
                BY DEF Sending, Awaiting, Storing
            <4> QED BY <4>1, <4>2, <3>2, <2>2 DEF IInv, Owners
        <3> QED BY <3>1, <3>2
    <2>3. CASE q # r
        <3>1. /\ pc'[q] = pc[q] /\ conn'[q] = conn[q]
              /\ Spoiled(q)' = Spoiled(q)
            BY <2>1, <2>3 DEF IInv, TypeOK, Serves, Continue, Answer, Spoiled
        <3>2. w \in session[c].pending /\ session[c].tx # "failed"
            BY <2>3, <1>1 DEF IInv, TypeOK, Serves, SetSession, Session
        <3> QED BY <3>1, <3>2 DEF IInv, Owners
    <2> QED BY <2>2, <2>3
<1>6. \A q \in Requests : Local(q)'
    BY OthersKeep
<1> QED BY <1>2, <1>3, <1>4, <1>5, <1>6 DEF IInv

-----------------------------------------------------------------------------
(***************************************************************************)
(* The steps of a request that has a connection                            *)
(***************************************************************************)

\* What the invariant says of the request that takes a step.
LEMMA Holder ==
    ASSUME IInv, NEW r \in Requests, pc[r] \in Sending
    PROVE  /\ conn[r] \in Conns
           /\ Session(r) \in Sessions
           /\ Session(r).tx = "none" => Session(r).pending = {}
           /\ ~Session(r).alive => Session(r) = NoSession
           /\ UNCHANGED session => SetSession(r, Session(r))
           /\ Local(r)
           /\ pc[r] \notin {"new", "done"} /\ reply[r] = "none"
BY RequestTypes DEF IInv, TypeOK, Lending, Held0, Session, Sessions, SetSession,
   Local, Phase, Sending, Awaiting, Storing

\* The tools outside a transaction send one statement, or TRUNCATE and COPY.
LEMMA StatementsAlone ==
    ASSUME NEW k \in Kinds, k \notin InTransaction
    PROVE  \/ Statements(k) = 1
           \/ Statements(k) = 2 /\ k = "refill"
BY DEF Kinds, Statements, InTransaction

\* What a statement stores, fails or ends.
LEMMA SessionFields ==
    ASSUME NEW s \in Sessions, NEW ws \in SUBSET Writes
    PROVE  /\ Stored(s, ws).tx = s.tx /\ Stored(s, ws).alive = s.alive
           /\ Stored(s, ws).pending = (IF s.tx = "open" THEN s.pending \cup ws
                                       ELSE s.pending)
           /\ Failed(s).tx = (IF s.tx = "open" THEN "failed" ELSE s.tx)
           /\ Failed(s).alive = s.alive /\ Failed(s).pending = s.pending
           /\ s.tx # "open" => Failed(s) = s
           /\ Ended(s).tx = "none" /\ Ended(s).pending = {}
           /\ Ended(s).alive = s.alive
           /\ s = NoSession => Ended(s) = s
           /\ NoSession.tx = "none" /\ NoSession.pending = {}
           /\ NoSession.alive = FALSE
           /\ s.tx \in {"none", "open", "failed"} /\ s.alive \in BOOLEAN
<1>1. /\ Stored(s, ws).tx = s.tx /\ Stored(s, ws).alive = s.alive
      /\ Stored(s, ws).pending = (IF s.tx = "open" THEN s.pending \cup ws
                                  ELSE s.pending)
    BY DEF Sessions, Stored
<1>2. /\ Failed(s).tx = (IF s.tx = "open" THEN "failed" ELSE s.tx)
      /\ Failed(s).alive = s.alive /\ Failed(s).pending = s.pending
      /\ s.tx # "open" => Failed(s) = s
    BY DEF Sessions, Failed
<1>3. /\ Ended(s).tx = "none" /\ Ended(s).pending = {}
      /\ Ended(s).alive = s.alive
    BY DEF Sessions, Ended
<1>4. s = NoSession => Ended(s) = s
    <2>1. s.tx = "none" /\ s.pending = {} => Ended(s) = s
        BY DEF Sessions, Ended
    <2> QED BY <2>1 DEF NoSession
<1>5. /\ NoSession.tx = "none" /\ NoSession.pending = {}
      /\ NoSession.alive = FALSE
    BY DEF NoSession
<1>6. s.tx \in {"none", "open", "failed"} /\ s.alive \in BOOLEAN
    BY DEF Sessions
<1> QED BY <1>1, <1>2, <1>3, <1>4, <1>5, <1>6

\* A step that goes on: what remains to be shown of the request that takes it.
LEMMA ContinueLocal ==
    ASSUME IInv, NEW r \in Requests, pc[r] \in Sending,
           NEW label \in Sending, Continue(r, label),
           UNCHANGED <<kind, inherits>>, Phase(r)',
           ~inherits[r] => IF kind[r] \in InTransaction THEN InTx(r)' ELSE Alone(r)'
    PROVE  Local(r)'
<1>1. /\ pc'[r] = label /\ label \notin {"new", "done"}
      /\ inherits'[r] = inherits[r] /\ kind'[r] = kind[r]
    BY DEF IInv, TypeOK, Continue, Sending, Awaiting, Storing
<1> QED BY <1>1 DEF Local, NotBegun, Active, Over

\* A step that answers: likewise.
LEMMA AnswerLocal ==
    ASSUME IInv, NEW r \in Requests, pc[r] \in Sending,
           NEW what \in Answers, Answer(r, what),
           UNCHANGED <<kind, inherits>>, step'[r] <= Statements(kind[r]),
           Spoiled(r)' \/ Over(r)'
    PROVE  Local(r)'
<1>1. /\ pc'[r] = "done" /\ reply'[r] = what /\ what # "none"
      /\ inherits'[r] = inherits[r] /\ kind'[r] = kind[r]
    BY DEF IInv, TypeOK, Answer, Answers
<1>2. Phase(r)'
    BY <1>1 DEF Phase, Sending, Awaiting, Storing
<1>3. NotBegun(r)' /\ Active(r)'
    BY <1>1 DEF NotBegun, Active, Sending, Awaiting, Storing
<1>4. Over(r)'
    BY DEF Over
<1> QED BY <1>2, <1>3, <1>4 DEF Local

\* A request that inherited a transaction is spoiled for good, and so is one
\* whose handler is gone.
LEMMA SpoiledAnswer ==
    ASSUME IInv, NEW r \in Requests, NEW what, Answer(r, what),
           UNCHANGED inherits, inherits[r] \/ what = "gone"
    PROVE  Spoiled(r)'
BY DEF Spoiled, Answer, IInv, TypeOK

\* BEGIN, the first statement of the transaction.
LEMMA BeginStep ==
    ASSUME IInv, NEW r \in Requests, Begin(r)
    PROVE  IInv'
<1> DEFINE s == Begun(Session(r))
<1>1. pc[r] = "begin" /\ pc[r] \in Sending /\ Session(r).alive
      /\ Session(r).tx # "failed" /\ Continue(r, "set") /\ "set" \in Sending
    BY DEF Begin, Sending, Awaiting
<1>2. s \in Sessions /\ s.alive = TRUE /\ s.pending = Session(r).pending
      /\ s.tx = "open"
    BY <1>1, Holder, SessionTypes DEF Begun, Sessions
<1> HIDE DEF s
<1>3. kind[r] \in InTransaction
    BY <1>1, Holder DEF Local, Phase
<1>4. /\ pc'[r] = "set" /\ reply'[r] = "none" /\ inherits'[r] = inherits[r]
      /\ step' = step /\ kind' = kind /\ committed' = committed
      /\ Session(r)' = s
    BY <1>1, Holder DEF Continue, Begin, IInv, TypeOK, SetSession, Session, s
<1>5. Serves(r, s, {})
    BY <1>1, <1>2, Holder DEF Serves, Begin, IInv, TypeOK, s
<1>6. Phase(r)'
    BY <1>1, <1>3, <1>4, Holder DEF Local, Phase
<1>7. ~inherits[r] => InTx(r)'
    BY <1>1, <1>2, <1>3, <1>4, Holder DEF Local, Active, InTx, None
<1>8. Local(r)'
    BY <1>1, <1>3, <1>6, <1>7, ContinueLocal DEF Begin
<1> QED BY <1>1, <1>2, <1>5, <1>8, ServeKeeps

\* BEGIN or SET LOCAL fails: nothing of the request is committed, and what it
\* leaves behind, if anything, is a failed transaction.
LEMMA OpeningFailsStep ==
    ASSUME IInv, NEW r \in Requests, OpeningFails(r)
    PROVE  IInv'
<1> DEFINE s == Failed(Session(r))
<1>1. /\ pc[r] \in {"begin", "set"} /\ pc[r] \in Sending /\ Session(r).alive
      /\ SetSession(r, s) /\ Answer(r, "err") /\ "err" \in Answers
      /\ UNCHANGED <<restricted, committed, kind, bad, step, cancels, inherits>>
    BY DEF OpeningFails, Sending, Awaiting, Answers
<1>2. /\ s \in Sessions /\ s.alive /\ s.pending = Session(r).pending
      /\ s.tx = "none" => Session(r).tx = "none"
      /\ s.tx \in {"none", "failed"}
      /\ Session(r).tx = "failed" => s.tx = "failed"
    BY <1>1, Holder DEF Sessions, Failed
<1> HIDE DEF s
<1>3. kind[r] \in InTransaction /\ step'[r] <= Statements(kind[r])
    BY <1>1, Holder DEF Local, Phase
<1>4. Serves(r, s, {})
    BY <1>1, <1>2, Holder, RequestTypes DEF Serves, IInv, TypeOK
<1>5. ASSUME ~inherits[r]
      PROVE  Over(r)'
    <2>1. pc'[r] = "done" /\ reply'[r] = "err" /\ kind'[r] = kind[r]
        BY <1>1 DEF Answer, IInv, TypeOK
    <2>2. None(r)
        BY <1>1, <1>3, <1>5, Holder DEF Local, Active, InTx
    <2> QED BY <1>1, <2>1, <2>2, StatementCount DEF Over, None
<1>6. inherits[r] => Spoiled(r)'
    BY <1>1, SpoiledAnswer
<1>7. Local(r)'
    BY <1>1, <1>3, <1>5, <1>6, RequestTypes, AnswerLocal DEF IInv
<1> QED BY <1>1, <1>2, <1>4, <1>7, ServeKeeps

\* A request that is refused before it sends anything has written nothing.
LEMMA RefuseStep ==
    ASSUME IInv, NEW r \in Requests, Refuse(r)
    PROVE  IInv'
<1>1. /\ pc[r] = "refuse" /\ pc[r] \in Sending
      /\ UNCHANGED <<session, restricted, committed, kind, bad, step, cancels,
                     inherits>>
    BY DEF Refuse, Sending, Awaiting
<1>2. PICK what \in {"err", "empty"} : Answer(r, what)
    BY DEF Refuse
<1>3. what \in Answers
    BY DEF Answers
<1>4. step[r] = 1 /\ step[r] <= Statements(kind[r])
    BY <1>1, Holder DEF Local, Phase
<1>5. inherits[r] => Spoiled(r)'
    BY <1>1, <1>2, SpoiledAnswer
<1>6. ASSUME ~inherits[r]
      PROVE  None(r) /\ (Session(r).alive => Session(r).tx = "none")
    <2>1. CASE kind[r] \in InTransaction
        BY <1>1, <1>6, <2>1, Holder DEF Local, Active, InTx
    <2>2. CASE kind[r] \notin InTransaction
        BY <1>1, <1>4, <1>6, <2>2, Holder, StatementCount
           DEF Local, Active, Alone, None, Storing
    <2> QED BY <2>1, <2>2
<1>7. ~inherits[r] => Session(r).pending = {}
    BY <1>1, <1>6, Holder DEF NoSession
<1>8. Serves(r, Session(r), {})
    BY <1>1, <1>2, <1>3, <1>5, <1>7, Holder, RequestTypes
       DEF Serves, IInv, TypeOK
<1>9. ASSUME ~inherits[r]
      PROVE  Over(r)'
    <2>1. pc'[r] = "done" /\ reply'[r] = what /\ kind'[r] = kind[r]
        BY <1>1, <1>2 DEF Answer, IInv, TypeOK
    <2> QED BY <1>1, <1>6, <1>9, <2>1, StatementCount DEF Over, None
<1>10. Local(r)'
    BY <1>1, <1>2, <1>3, <1>4, <1>5, <1>9, RequestTypes, AnswerLocal DEF IInv
<1> QED BY <1>1, <1>8, <1>10, Holder, ServeKeeps

\* SET LOCAL, the second statement of the transaction.
LEMMA SetLocalStep ==
    ASSUME IInv, NEW r \in Requests, SetLocal(r)
    PROVE  IInv'
<1>1. pc[r] = "set" /\ pc[r] \in Sending /\ Continue(r, "exec")
      /\ "exec" \in Sending
    BY DEF SetLocal, Sending, Awaiting, Storing
<1>2. /\ pc'[r] = "exec" /\ reply'[r] = "none" /\ Session(r)' = Session(r)
      /\ step' = step /\ kind' = kind /\ committed' = committed
    BY <1>1, Holder DEF SetLocal, Continue, IInv, TypeOK, Session
<1>3. kind[r] \in InTransaction /\ step[r] = 1 /\ step[r] <= Statements(kind[r])
    BY <1>1, Holder DEF Local, Phase
<1>4. Serves(r, Session(r), {})
    BY <1>1, Holder, RequestTypes DEF Serves, SetLocal, IInv, TypeOK
<1>5. Phase(r)'
    BY <1>1, <1>2, <1>3 DEF Phase
<1>6. ~inherits[r] => InTx(r)'
    BY <1>1, <1>2, <1>3, Holder, StatementCount
       DEF Local, Active, InTx, None, IInv, TypeOK
<1>7. Local(r)'
    BY <1>1, <1>3, <1>5, <1>6, ContinueLocal DEF SetLocal
<1> QED BY <1>1, <1>4, <1>7, Holder, ServeKeeps

\* A check that fails inside the transaction spoils the request.
LEMMA LateErrorStep ==
    ASSUME IInv, NEW r \in Requests, LateError(r)
    PROVE  IInv'
<1>1. pc[r] \in Sending /\ Answer(r, "late") /\ "late" \in Answers
    BY DEF LateError, Sending, Awaiting, Storing, Answers
<1>2. Spoiled(r)'
    BY <1>1 DEF Spoiled, LateError, Answer, IInv, TypeOK
<1>3. Serves(r, Session(r), {})
    BY <1>1, <1>2, Holder, RequestTypes DEF Serves, LateError, IInv, TypeOK
<1>4. step'[r] <= Statements(kind[r])
    BY <1>1, Holder DEF LateError, Local, Phase
<1>5. Local(r)'
    BY <1>1, <1>2, <1>4, AnswerLocal DEF LateError
<1> QED BY <1>1, <1>3, <1>5, Holder, ServeKeeps

\* A statement is stored: held in a transaction, committed outside one.
LEMMA ExecuteStep ==
    ASSUME IInv, NEW r \in Requests, Execute(r)
    PROVE  IInv'
<1> DEFINE W == CurrentWrite(r)
           s == Stored(Session(r), W)
           X == CommittedByStore(Session(r), W)
<1>1. /\ pc[r] \in Storing /\ pc[r] \in Sending /\ Session(r).alive
      /\ Session(r).tx # "failed" /\ SetSession(r, s)
      /\ committed' = committed \cup X /\ Advance(r) /\ NextStatement(r)
      /\ UNCHANGED <<restricted, kind, bad, cancels, inherits>>
    BY DEF Execute, Accepts, Sending, Awaiting
<1>2. /\ W \in SUBSET Writes /\ s \in Sessions /\ X \in SUBSET Writes
      /\ s.tx = Session(r).tx /\ s.alive
      /\ s.pending = IF s.tx = "open" THEN Session(r).pending \cup W
                     ELSE Session(r).pending
      /\ X = IF s.tx = "none" THEN W ELSE {}
      /\ s.tx \in {"none", "open"}
    <2>1. W \in SUBSET Writes
        BY RequestTypes DEF IInv
    <2>2. Session(r) \in Sessions
        BY <1>1, Holder
    <2>3. s \in Sessions
        BY <2>1, <2>2, SessionTypes
    <2>4. s.tx = Session(r).tx /\ s.alive = Session(r).alive
        BY <2>1, <2>2 DEF Sessions, Stored
    <2>5. s.pending = IF Session(r).tx = "open" THEN Session(r).pending \cup W
                     ELSE Session(r).pending
        BY <2>1, <2>2 DEF Sessions, Stored
    <2>6. Session(r).tx \in {"none", "open", "failed"}
        BY <2>2 DEF Sessions
    <2> QED BY <1>1, <2>1, <2>3, <2>4, <2>5, <2>6 DEF CommittedByStore
<1>3. /\ step[r] \in Nat /\ step[r] >= 1 /\ Statements(kind[r]) \in Nat
      /\ MostStatements \in Nat /\ Statements(kind[r]) <= MostStatements
      /\ step[r] <= Statements(kind[r])
      /\ step'[r] = IF step[r] < Statements(kind[r]) THEN step[r] + 1 ELSE step[r]
      /\ step'[r] \in 1 .. MostStatements /\ step'[r] <= Statements(kind[r])
      /\ step' = [step EXCEPT ![r] = step'[r]]
    BY <1>1, Holder, RequestTypes, StatementCount
       DEF Advance, Local, Phase, IInv, TypeOK
<1>4. W = IF kind[r] = "read" THEN {} ELSE {<<r, step[r]>>}
    BY DEF CurrentWrite
<1> HIDE DEF W, s, X
<1>5. Session(r)' = s \/ conn'[r] # conn[r]
    BY <1>1, Holder DEF SetSession, Session, IInv, TypeOK
<1>6. kind'[r] = kind[r] /\ inherits'[r] = inherits[r]
    BY <1>1
<1>7. ASSUME ~inherits[r], kind[r] \in InTransaction
      PROVE  /\ pc[r] = "exec" /\ s.tx = "open" /\ X = {} /\ None(r)
             /\ \A n \in 1 .. MostStatements :
                   n <= step[r] => <<r, n>> \in s.pending
    <2>1. InTx(r) /\ pc[r] = "exec" /\ kind[r] # "read"
        BY <1>1, <1>7, Holder
           DEF Local, Phase, Active, Storing, InTransaction
    <2> QED BY <1>1, <1>2, <1>3, <1>4, <2>1 DEF InTx
<1>8. ASSUME ~inherits[r], kind[r] \notin InTransaction
      PROVE  /\ s.tx = "none" /\ X = W /\ s.pending = {}
             /\ \A n \in 1 .. MostStatements :
                   <<r, n>> \in committed' <=> n <= step[r] /\ kind[r] # "read"
    <2>1. Alone(r)
        BY <1>1, <1>8, Holder DEF Local, Active
    <2> QED BY <1>1, <1>2, <1>3, <1>4, <2>1, Holder DEF Alone
<1>9. CASE step[r] < Statements(kind[r])
    <2> DEFINE label == Following(r)
    <2>1. label \in Sending /\ Continue(r, label) /\ step'[r] = step[r] + 1
        BY <1>1, <1>3, <1>9 DEF NextStatement, Following, Sending, Awaiting, Storing
    <2>2. pc'[r] = label /\ reply'[r] = "none" /\ Session(r)' = s
        BY <1>1, <1>5, <2>1, Holder DEF Continue, IInv, TypeOK
    <2>3. Serves(r, s, X)
        BY <1>1, <1>2, <1>3, <1>4, <2>1, Holder DEF Serves, IInv, TypeOK
    <2>4. Phase(r)'
        BY <1>3, <1>6, <2>2, Holder
           DEF Phase, Following, InTransaction, Sending, Awaiting, Storing
    <2>5. ASSUME ~inherits[r]
          PROVE  IF kind[r] \in InTransaction THEN InTx(r)' ELSE Alone(r)'
        <3>1. CASE kind[r] \in InTransaction
            <4>1. label = "exec"
                BY <3>1 DEF Following, InTransaction
            <4> QED BY <1>1, <1>2, <1>3, <1>7, <2>1, <2>2, <2>5, <3>1, <4>1
                  DEF InTx, None
        <3>2. CASE kind[r] \notin InTransaction
            BY <1>2, <1>3, <1>6, <1>8, <2>1, <2>2, <2>5, <3>2 DEF Alone
        <3> QED BY <3>1, <3>2
    <2>6. Local(r)'
        BY <1>1, <2>1, <2>4, <2>5, ContinueLocal
    <2> QED BY <1>1, <1>2, <2>3, <2>6, ServeKeeps
<1>10. CASE step[r] = Statements(kind[r]) /\ kind[r] \in InTransaction
    <2>1. Continue(r, "commit") /\ "commit" \in Sending
        BY <1>1, <1>3, <1>10 DEF NextStatement, Sending, Awaiting
    <2>2. pc'[r] = "commit" /\ reply'[r] = "none" /\ Session(r)' = s
        BY <1>1, <1>5, <2>1, Holder DEF Continue, IInv, TypeOK
    <2>3. Serves(r, s, X)
        BY <1>1, <1>2, <1>3, <1>4, <2>1, Holder DEF Serves, IInv, TypeOK
    <2>4. Phase(r)'
        BY <1>3, <1>6, <1>10, <2>2 DEF Phase
    <2>5. ~inherits[r] => InTx(r)'
        BY <1>1, <1>2, <1>3, <1>6, <1>7, <1>10, <2>2 DEF InTx, None
    <2>6. Local(r)'
        BY <1>1, <1>10, <2>1, <2>4, <2>5, ContinueLocal
    <2> QED BY <1>1, <1>2, <2>3, <2>6, ServeKeeps
<1>11. CASE step[r] = Statements(kind[r]) /\ kind[r] \notin InTransaction
    <2>1. Answer(r, "ok")
        BY <1>1, <1>3, <1>11 DEF NextStatement
    <2>2. pc'[r] = "done" /\ reply'[r] = "ok"
        BY <2>1 DEF Answer, IInv, TypeOK
    <2>3. inherits[r] => Spoiled(r)'
        BY <1>1, <2>1, SpoiledAnswer
    <2>4. Serves(r, s, X)
        BY <1>1, <1>2, <1>3, <1>4, <1>8, <1>11, <2>1, <2>3, Holder
           DEF Serves, IInv, TypeOK, Answers
    <2>5. ~inherits[r] => Over(r)'
        BY <1>3, <1>6, <1>8, <1>11, <2>2 DEF Over, All
    <2>6. Local(r)'
        BY <1>1, <1>3, <2>1, <2>3, <2>5, RequestTypes, AnswerLocal DEF IInv, Answers
    <2> QED BY <1>1, <1>2, <2>4, <2>6, ServeKeeps
<1> QED BY <1>3, <1>9, <1>10, <1>11

\* An error outside a transaction leaves what the statements before it stored.
LEMMA ErrorAlone ==
    ASSUME IInv, NEW r \in Requests, pc[r] \in Sending, Answer(r, "err"),
           Alone(r), pc[r] \in Storing => Session(r).alive,
           kind[r] \notin InTransaction, UNCHANGED <<kind, committed>>
    PROVE  Over(r)'
<1>1. /\ pc'[r] = "done" /\ reply'[r] = "err" /\ kind'[r] = kind[r]
      /\ committed' = committed
    BY DEF Answer, IInv, TypeOK
<1>2. \A n \in 1 .. MostStatements :
          <<r, n>> \in committed <=> n < step[r] /\ kind[r] # "read"
    BY DEF Alone
<1>3. step[r] \in Nat /\ step[r] >= 1 /\ step[r] <= Statements(kind[r])
    BY Holder, RequestTypes, StatementCount DEF Local, Phase, IInv
<1>4. CASE Statements(kind[r]) = 1
    BY <1>1, <1>2, <1>3, <1>4, StatementCount DEF Over
<1>5. CASE Statements(kind[r]) = 2 /\ kind[r] = "refill"
    BY <1>1, <1>2, <1>3, <1>5, StatementCount DEF Over, All
<1> QED BY <1>4, <1>5, StatementsAlone, RequestTypes DEF IInv

\* A statement is refused: the tools in a transaction go on to ROLLBACK.
LEMMA ExecuteFailsStep ==
    ASSUME IInv, NEW r \in Requests, ExecuteFails(r)
    PROVE  IInv'
<1> DEFINE s == Failed(Session(r))
<1>1. /\ pc[r] \in Storing \cup {"copy"} /\ pc[r] \in Sending
      /\ Session(r).alive /\ SetSession(r, s)
      /\ UNCHANGED <<restricted, committed, kind, bad, step, cancels, inherits>>
    BY DEF ExecuteFails, Sending, Awaiting
<1>2. /\ s \in Sessions /\ s.alive /\ s.pending = Session(r).pending
      /\ s.tx = "none" => Session(r).tx = "none"
      /\ Session(r).tx = "none" => s.tx = "none"
      /\ Session(r).tx \in {"open", "failed"} => s.tx = "failed"
    BY <1>1, Holder DEF Sessions, Failed
<1> HIDE DEF s
<1>3. step'[r] <= Statements(kind[r]) /\ step[r] \in 1 .. MostStatements
    BY <1>1, Holder, RequestTypes DEF Local, Phase, IInv
<1>4. CASE kind[r] \in InTransaction
    <2>1. Continue(r, "rollback") /\ "rollback" \in Sending /\ pc[r] = "exec"
        BY <1>1, <1>4, Holder
           DEF ExecuteFails, Sending, Awaiting, Storing, Local, Phase
    <2>2. pc'[r] = "rollback" /\ reply'[r] = "none" /\ Session(r)' = s
        BY <1>1, <2>1, Holder DEF Continue, IInv, TypeOK, SetSession, Session
    <2>3. Serves(r, s, {})
        BY <1>1, <1>2, <1>3, <2>1, Holder DEF Serves, IInv, TypeOK
    <2>4. Phase(r)'
        BY <1>1, <1>3, <1>4, <2>2 DEF Phase
    <2>5. ~inherits[r] => InTx(r)'
        BY <1>1, <1>2, <1>4, <2>1, <2>2, Holder DEF Local, Active, InTx, None
    <2>6. Local(r)'
        BY <1>1, <1>4, <2>1, <2>4, <2>5, ContinueLocal
    <2> QED BY <1>1, <1>2, <2>3, <2>6, ServeKeeps
<1>5. CASE kind[r] \notin InTransaction
    <2>1. Answer(r, "err")
        BY <1>5 DEF ExecuteFails
    <2>2. inherits[r] => Spoiled(r)'
        BY <1>1, <2>1, SpoiledAnswer
    <2>3. ~inherits[r] => Alone(r)
        BY <1>1, <1>5, Holder DEF Local, Active
    <2>4. ~inherits[r] => Over(r)'
        BY <1>1, <1>5, <2>1, <2>3, ErrorAlone
    <2>5. Serves(r, s, {})
        BY <1>1, <1>2, <1>3, <2>1, <2>2, <2>3, Holder
           DEF Serves, IInv, TypeOK, Alone, Answers
    <2>6. Local(r)'
        BY <1>1, <1>3, <2>1, <2>2, <2>4, RequestTypes, AnswerLocal DEF IInv, Answers
    <2> QED BY <1>1, <1>2, <2>5, <2>6, ServeKeeps
<1> QED BY <1>4, <1>5

\* An import opens its COPY.
LEMMA OpenCopyStep ==
    ASSUME IInv, NEW r \in Requests, OpenCopy(r)
    PROVE  IInv'
<1>1. pc[r] = "copy" /\ pc[r] \in Sending /\ Continue(r, "stream")
      /\ "stream" \in Sending /\ UNCHANGED <<session, committed, kind, step, inherits>>
    BY DEF OpenCopy, Sending, Awaiting
<1>2. pc'[r] = "stream" /\ reply'[r] = "none" /\ Session(r)' = Session(r)
    BY <1>1, Holder DEF Continue, IInv, TypeOK, Session
<1>3. kind[r] \notin InTransaction /\ step[r] <= Statements(kind[r])
    BY <1>1, Holder DEF Local, Phase
<1>4. Serves(r, Session(r), {})
    BY <1>1, Holder, RequestTypes DEF Serves, OpenCopy, IInv, TypeOK
<1>5. Phase(r)'
    BY <1>1, <1>2, <1>3 DEF Phase
<1>6. ~inherits[r] => Alone(r)'
    BY <1>1, <1>2, <1>3, Holder DEF Local, Active, Alone, Storing
<1>7. Local(r)'
    BY <1>1, <1>3, <1>5, <1>6, ContinueLocal
<1> QED BY <1>1, <1>4, <1>7, Holder, ServeKeeps

\* An import has sent its rows, and they are nowhere yet.
LEMMA DownloadStep ==
    ASSUME IInv, NEW r \in Requests, Download(r)
    PROVE  IInv'
<1>1. pc[r] = "stream" /\ pc[r] \in Sending /\ Continue(r, "finish")
      /\ "finish" \in Sending /\ UNCHANGED <<session, committed, kind, step, inherits>>
    BY DEF Download, Sending, Awaiting, Storing
<1>2. pc'[r] = "finish" /\ reply'[r] = "none" /\ Session(r)' = Session(r)
    BY <1>1, Holder DEF Continue, IInv, TypeOK, Session
<1>3. kind[r] \notin InTransaction /\ step[r] <= Statements(kind[r])
    BY <1>1, Holder DEF Local, Phase
<1>4. Serves(r, Session(r), {})
    BY <1>1, Holder, RequestTypes DEF Serves, Download, IInv, TypeOK
<1>5. Phase(r)'
    BY <1>1, <1>2, <1>3 DEF Phase
<1>6. ~inherits[r] => Alone(r)'
    BY <1>1, <1>2, <1>3, Holder DEF Local, Active, Alone, Storing
<1>7. Local(r)'
    BY <1>1, <1>3, <1>5, <1>6, ContinueLocal
<1> QED BY <1>1, <1>4, <1>7, Holder, ServeKeeps

\* An import's download fails: only its TRUNCATE is committed.
LEMMA DownloadFailsStep ==
    ASSUME IInv, NEW r \in Requests, DownloadFails(r)
    PROVE  IInv'
<1> DEFINE s == Failed(Session(r))
<1>1. /\ pc[r] = "stream" /\ pc[r] \in Sending /\ pc[r] \notin Storing
      /\ SetSession(r, s) /\ Answer(r, "err")
      /\ UNCHANGED <<restricted, committed, kind, bad, step, cancels, inherits>>
    BY DEF DownloadFails, Sending, Awaiting, Storing
<1>2. /\ s \in Sessions /\ s.alive = Session(r).alive
      /\ s.pending = Session(r).pending
      /\ s.tx = "none" => Session(r).tx = "none"
      /\ Session(r).tx \in {"open", "failed"} => s.tx = "failed"
    BY <1>1, Holder DEF Sessions, Failed
<1>3. ~Session(r).alive => s = Session(r)
    BY <1>1, Holder DEF Sessions, Failed, NoSession
<1> HIDE DEF s
<1>4. kind[r] \notin InTransaction /\ step'[r] <= Statements(kind[r])
    BY <1>1, Holder DEF Local, Phase
<1>5. inherits[r] => Spoiled(r)'
    BY <1>1, SpoiledAnswer
<1>6. ~inherits[r] => Alone(r)
    BY <1>1, <1>4, Holder DEF Local, Active
<1>7. ~inherits[r] => Over(r)'
    BY <1>1, <1>4, <1>6, ErrorAlone
<1>8. Serves(r, s, {})
    BY <1>1, <1>2, <1>3, <1>5, <1>6, Holder, RequestTypes
       DEF Serves, IInv, TypeOK, Alone, Answers
<1>9. Local(r)'
    BY <1>1, <1>4, <1>5, <1>7, RequestTypes, AnswerLocal DEF IInv, Answers
<1> QED BY <1>1, <1>2, <1>8, <1>9, ServeKeeps

\* What ROLLBACK and COMMIT leave of a session.
LEMMA EndedSession ==
    ASSUME IInv, NEW r \in Requests, pc[r] \in Sending
    PROVE  /\ Ended(Session(r)) \in Sessions
           /\ Ended(Session(r)).tx = "none" /\ Ended(Session(r)).pending = {}
           /\ Ended(Session(r)).alive = Session(r).alive
           /\ ~Session(r).alive => Ended(Session(r)) = NoSession
<1>1. Session(r) \in Sessions /\ (~Session(r).alive => Session(r) = NoSession)
    BY Holder
<1>2. /\ Ended(Session(r)) \in Sessions
      /\ Ended(Session(r)).tx = "none" /\ Ended(Session(r)).pending = {}
      /\ Ended(Session(r)).alive = Session(r).alive
    BY <1>1 DEF Sessions, Ended
<1>3. Session(r).tx = "none" /\ Session(r).pending = {}
         => Ended(Session(r)) = Session(r)
    BY <1>1 DEF Sessions, Ended
<1>4. ~Session(r).alive => Ended(Session(r)) = NoSession
    BY <1>1, <1>3 DEF NoSession
<1> QED BY <1>2, <1>4

\* A session whose COMMIT or ROLLBACK fails holds nothing, or holds it in a
\* failed transaction.
LEMMA EndedOrFailed ==
    ASSUME IInv, NEW r \in Requests, pc[r] \in Sending,
           NEW s \in {Ended(Session(r)), Failed(Session(r))}
    PROVE  /\ s \in Sessions /\ (~s.alive => s = NoSession)
           /\ s.pending \subseteq Session(r).pending
           /\ s.tx = "none" => s.pending = {}
           /\ s.tx = "failed" \/ s.pending = {}
<1>1. CASE s = Ended(Session(r))
    BY <1>1, EndedSession
<1>2. CASE s = Failed(Session(r))
    <2>1. /\ Session(r) \in Sessions
          /\ Session(r).tx = "none" => Session(r).pending = {}
          /\ ~Session(r).alive => Session(r) = NoSession
        BY Holder
    <2>2. ~Session(r).alive => Failed(Session(r)) = Session(r)
        BY <2>1 DEF Failed, NoSession
    <2> QED BY <1>2, <2>1, <2>2 DEF Sessions, Failed
<1> QED BY <1>1, <1>2

\* COMMIT, which commits all that the session holds.
LEMMA CommitStep ==
    ASSUME IInv, NEW r \in Requests, Commit(r)
    PROVE  IInv'
<1> DEFINE s == Ended(Session(r))
           X == CommittedByCommit(Session(r))
<1>1. /\ pc[r] = "commit" /\ pc[r] \in Sending /\ Session(r).alive
      /\ SetSession(r, s) /\ committed' = committed \cup X /\ Answer(r, "ok")
      /\ UNCHANGED <<restricted, kind, bad, step, cancels, inherits>>
    BY DEF Commit, Sending, Awaiting
<1>2. /\ X = IF Session(r).tx = "open" THEN Session(r).pending ELSE {}
      /\ X \in SUBSET Writes
    BY <1>1, Holder DEF CommittedByCommit, Sessions
<1>3. s \in Sessions /\ s.pending = {} /\ s.alive
    BY <1>1, EndedSession
<1> HIDE DEF s, X
<1>4. kind[r] \in InTransaction /\ step'[r] <= Statements(kind[r])
    BY <1>1, Holder DEF Local, Phase
<1>5. Serves(r, s, X)
    BY <1>1, <1>2, <1>3, RequestTypes DEF Serves, IInv, TypeOK, Answers
<1>6. ASSUME ~inherits[r]
      PROVE  Over(r)'
    <2>1. pc'[r] = "done" /\ reply'[r] = "ok" /\ kind'[r] = kind[r]
        BY <1>1 DEF Answer, IInv, TypeOK
    <2>2. InTx(r)
        BY <1>1, <1>4, <1>6, Holder DEF Local, Active
    <2>3. All(r)'
        BY <1>1, <1>2, <2>1, <2>2 DEF InTx, All
    <2> QED BY <2>1, <2>3 DEF Over
<1>7. inherits[r] => Spoiled(r)'
    BY <1>1, SpoiledAnswer
<1>8. Local(r)'
    BY <1>1, <1>4, <1>6, <1>7, RequestTypes, AnswerLocal DEF IInv, Answers
<1> QED BY <1>1, <1>2, <1>3, <1>5, <1>8, ServeKeeps

\* COMMIT, which commits nothing.
LEMMA CommitFailsStep ==
    ASSUME IInv, NEW r \in Requests, CommitFails(r)
    PROVE  IInv'
<1>1. /\ pc[r] = "commit" /\ pc[r] \in Sending /\ Session(r).alive
      /\ Answer(r, "err") /\ "err" \in Answers
      /\ UNCHANGED <<restricted, committed, kind, bad, step, cancels, inherits>>
    BY DEF CommitFails, Sending, Awaiting, Answers
<1>2. PICK s \in {Ended(Session(r)), Failed(Session(r))} : SetSession(r, s)
    BY DEF CommitFails
<1>3. /\ s \in Sessions /\ (~s.alive => s = NoSession)
      /\ s.pending \subseteq Session(r).pending
      /\ s.tx = "none" => s.pending = {}
      /\ s.tx = "failed" \/ s.pending = {}
    BY <1>1, <1>2, EndedOrFailed
<1>4. kind[r] \in InTransaction /\ step'[r] <= Statements(kind[r])
    BY <1>1, Holder DEF Local, Phase
<1>5. Serves(r, s, {})
    BY <1>1, <1>2, <1>3, RequestTypes DEF Serves, IInv, TypeOK, Answers
<1>6. ASSUME ~inherits[r]
      PROVE  Over(r)'
    <2>1. pc'[r] = "done" /\ reply'[r] = "err" /\ kind'[r] = kind[r]
        BY <1>1 DEF Answer, IInv, TypeOK
    <2>2. None(r)
        BY <1>1, <1>4, <1>6, Holder DEF Local, Active, InTx
    <2> QED BY <1>1, <2>1, <2>2, StatementCount DEF Over, None
<1>7. inherits[r] => Spoiled(r)'
    BY <1>1, SpoiledAnswer
<1>8. Local(r)'
    BY <1>1, <1>4, <1>6, <1>7, RequestTypes, AnswerLocal DEF IInv
<1> QED BY <1>1, <1>3, <1>5, <1>8, ServeKeeps

\* ROLLBACK, after a statement that failed.
LEMMA RollbackStep ==
    ASSUME IInv, NEW r \in Requests, Rollback(r)
    PROVE  IInv'
<1>1. /\ pc[r] = "rollback" /\ pc[r] \in Sending
      /\ Answer(r, "err") /\ "err" \in Answers
      /\ UNCHANGED <<restricted, committed, kind, bad, step, cancels, inherits>>
    BY DEF Rollback, Sending, Awaiting, Answers
<1>2. PICK s \in {Ended(Session(r)), Failed(Session(r))} : SetSession(r, s)
    BY DEF Rollback
<1>3. /\ s \in Sessions /\ (~s.alive => s = NoSession)
      /\ s.pending \subseteq Session(r).pending
      /\ s.tx = "none" => s.pending = {}
      /\ s.tx = "failed" \/ s.pending = {}
    BY <1>1, <1>2, EndedOrFailed
<1>4. kind[r] \in InTransaction /\ step'[r] <= Statements(kind[r])
    BY <1>1, Holder DEF Local, Phase
<1>5. Serves(r, s, {})
    BY <1>1, <1>2, <1>3, RequestTypes DEF Serves, IInv, TypeOK, Answers
<1>6. ASSUME ~inherits[r]
      PROVE  Over(r)'
    <2>1. pc'[r] = "done" /\ reply'[r] = "err" /\ kind'[r] = kind[r]
        BY <1>1 DEF Answer, IInv, TypeOK
    <2>2. None(r)
        BY <1>1, <1>4, <1>6, Holder DEF Local, Active, InTx
    <2> QED BY <1>1, <2>1, <2>2, StatementCount DEF Over, None
<1>7. inherits[r] => Spoiled(r)'
    BY <1>1, SpoiledAnswer
<1>8. Local(r)'
    BY <1>1, <1>4, <1>6, <1>7, RequestTypes, AnswerLocal DEF IInv
<1> QED BY <1>1, <1>3, <1>5, <1>8, ServeKeeps

\* A request finds its connection closed.
LEMMA LostStep ==
    ASSUME IInv, NEW r \in Requests, Lost(r)
    PROVE  IInv'
<1>1. /\ pc[r] \in Sending /\ ~Session(r).alive /\ Answer(r, "lost")
      /\ UNCHANGED <<session, restricted, committed, kind, bad, step, cancels,
                     inherits>>
    BY DEF Lost, Sending
<1>2. Session(r).pending = {}
    BY <1>1, Holder DEF NoSession
<1>3. /\ step'[r] <= Statements(kind[r]) /\ step[r] \in Nat /\ step[r] >= 1
      /\ step[r] <= Statements(kind[r])
    BY <1>1, Holder, RequestTypes, StatementCount DEF Local, Phase, IInv
<1>4. Serves(r, Session(r), {})
    BY <1>1, <1>2, Holder, RequestTypes DEF Serves, IInv, TypeOK, Answers
<1>5. ASSUME ~inherits[r]
      PROVE  Over(r)'
    <2>1. /\ pc'[r] = "done" /\ reply'[r] = "lost" /\ kind'[r] = kind[r]
          /\ committed' = committed
        BY <1>1 DEF Answer, IInv, TypeOK
    <2>2. CASE kind[r] \in InTransaction
        <3>1. None(r) \/ All(r)
            BY <1>1, <1>5, <2>2, Holder DEF Local, Active, InTx
        <3> QED BY <2>1, <3>1, StatementCount DEF Over, None, All
    <2>3. CASE kind[r] \notin InTransaction
        <3>1. Alone(r)
            BY <1>1, <1>5, <2>3, Holder DEF Local, Active
        <3>2. CASE Statements(kind[r]) = 1
            BY <1>3, <2>1, <3>1, <3>2, StatementCount DEF Over, Alone, All
        <3>3. CASE Statements(kind[r]) = 2 /\ kind[r] = "refill"
            BY <1>3, <2>1, <3>1, <3>3, StatementCount DEF Over, Alone, All
        <3> QED BY <2>3, <3>2, <3>3, StatementsAlone, RequestTypes DEF IInv
    <2> QED BY <2>2, <2>3
<1>6. inherits[r] => Spoiled(r)'
    BY <1>1, SpoiledAnswer
<1>7. Local(r)'
    BY <1>1, <1>3, <1>5, <1>6, RequestTypes, AnswerLocal DEF IInv, Answers
<1> QED BY <1>1, <1>4, <1>7, Holder, ServeKeeps

\* A statement takes effect and its connection breaks.
LEMMA BreakAfterStep ==
    ASSUME IInv, NEW r \in Requests, BreakAfter(r)
    PROVE  IInv'
<1> DEFINE W == CurrentWrite(r)
           X == IF pc[r] = "commit" THEN CommittedByCommit(Session(r))
                ELSE CommittedByStore(Session(r), W)
<1>1. /\ pc[r] \in Storing \cup {"commit"} /\ pc[r] \in Sending
      /\ Session(r).alive /\ SetSession(r, NoSession)
      /\ committed' = committed \cup X
      /\ UNCHANGED <<restricted, conn, kind, bad, step, pc, reply, cancels,
                     inherits>>
    BY DEF BreakAfter, Sending, Awaiting
<1>2. /\ W \in SUBSET Writes /\ X \in SUBSET Writes
      /\ pc[r] = "commit" /\ Session(r).tx = "open" => X = Session(r).pending
      /\ pc[r] # "commit" /\ Session(r).tx = "none" => X = W
      /\ pc[r] # "commit" /\ Session(r).tx = "open" => X = {}
      /\ \A w \in X :
            w \in W \/ (w \in Session(r).pending /\ Session(r).tx # "failed")
    BY <1>1, Holder, RequestTypes
       DEF CommittedByCommit, CommittedByStore, Sessions, IInv
<1>3. W = IF kind[r] = "read" THEN {} ELSE {<<r, step[r]>>}
    BY DEF CurrentWrite
<1> HIDE DEF W, X
<1>4. Continue(r, pc[r])
    BY <1>1 DEF Continue, IInv, TypeOK
<1>5. NoSession \in Sessions /\ NoSession.pending = {} /\ ~NoSession.alive
      /\ NoSession.tx = "none"
    BY DEF NoSession, Sessions
<1>6. Serves(r, NoSession, X)
    BY <1>1, <1>2, <1>3, <1>4, <1>5, RequestTypes DEF Serves, IInv, TypeOK
<1>7. Phase(r)'
    BY <1>1, Holder DEF Local, Phase
<1>8. Session(r)' = NoSession
    BY <1>1, Holder DEF SetSession, Session, IInv, TypeOK
<1>9. ASSUME ~inherits[r]
      PROVE  IF kind[r] \in InTransaction THEN InTx(r)' ELSE Alone(r)'
    <2>1. CASE kind[r] \in InTransaction
        <3>1. InTx(r) /\ None(r) /\ pc[r] \in {"exec", "commit"}
            BY <1>1, <1>9, <2>1, Holder
               DEF Local, Phase, Active, InTx, Storing
        <3>2. CASE pc[r] = "commit"
            <4>1. All(r)'
                BY <1>1, <1>2, <3>1, <3>2 DEF InTx, All
            <4> QED BY <1>1, <1>5, <1>8, <2>1, <3>2, <4>1 DEF InTx
        <3>3. CASE pc[r] = "exec"
            <4>1. None(r)'
                BY <1>1, <1>2, <3>1, <3>3 DEF InTx, None
            <4> QED BY <1>1, <1>5, <1>8, <2>1, <3>3, <4>1 DEF InTx
        <3> QED BY <3>1, <3>2, <3>3
    <2>2. CASE kind[r] \notin InTransaction
        <3>1. Alone(r) /\ pc[r] \in Storing /\ pc[r] # "commit"
            BY <1>1, <1>9, <2>2, Holder DEF Local, Phase, Active, Storing
        <3>2. step[r] \in 1 .. MostStatements /\ MostStatements \in Nat
            BY RequestTypes, StatementCount DEF IInv
        <3>3. \A n \in 1 .. MostStatements :
                  <<r, n>> \in committed' <=> n <= step[r] /\ kind[r] # "read"
            BY <1>1, <1>2, <1>3, <3>1, <3>2 DEF Alone
        <3> QED BY <1>1, <1>5, <1>8, <2>2, <3>1, <3>3 DEF Alone
    <2> QED BY <2>1, <2>2
<1>10. Local(r)'
    BY <1>1, <1>4, <1>7, <1>9, ContinueLocal
<1> QED BY <1>1, <1>2, <1>5, <1>6, <1>10, ServeKeeps

\* What may have become of a statement that nobody waits for any more.
LEMMA OutcomeTypes ==
    ASSUME IInv, NEW r \in Requests, pc[r] \in Awaiting, Session(r).alive,
           NEW o \in Outcomes(r)
    PROVE  /\ o.s \in Sessions /\ o.s.alive
           /\ o.stored \in SUBSET Writes
           /\ \A w \in o.s.pending : w[1] = r \/ w \in Session(r).pending
           /\ \A w \in o.stored :
                 w[1] = r \/ (w \in Session(r).pending /\ Session(r).tx # "failed")
           /\ o.s.tx = "none" => o.s.pending = {}
           /\ Session(r).tx = "failed" => o.s.tx = "failed" \/ o.s.pending = {}
<1> DEFINE S == Session(r)
           W == CurrentWrite(r)
           Good(s, X) == /\ s \in Sessions /\ s.alive /\ X \in SUBSET Writes
                         /\ \A w \in s.pending : w[1] = r \/ w \in S.pending
                         /\ \A w \in X :
                               w[1] = r \/ (w \in S.pending /\ S.tx # "failed")
                         /\ s.tx = "none" => s.pending = {}
                         /\ S.tx = "failed" => s.tx = "failed" \/ s.pending = {}
<1>1. /\ S \in Sessions /\ S.alive /\ (S.tx = "none" => S.pending = {})
      /\ W \in SUBSET Writes /\ \A w \in W : w[1] = r
    BY Holder, RequestTypes DEF CurrentWrite, IInv, Sending
<1> HIDE DEF S, W
<1>2. Good(S, {}) /\ Good(Begun(S), {}) /\ Good(Failed(S), {}) /\ Good(Ended(S), {})
    BY <1>1 DEF Sessions, Begun, Failed, Ended
<1>3. Good(Stored(S, W), CommittedByStore(S, W))
    BY <1>1 DEF Sessions, Stored, CommittedByStore
<1>4. Good(Ended(S), CommittedByCommit(S))
    BY <1>1 DEF Sessions, Ended, CommittedByCommit
<1>5. \E s, X : o = [s |-> s, stored |-> X] /\ Good(s, X)
    <2> HIDE DEF Good
    <2>1. \/ o = [s |-> S, stored |-> {}]
          \/ o = [s |-> Begun(S), stored |-> {}]
          \/ o = [s |-> Failed(S), stored |-> {}]
          \/ o = [s |-> Ended(S), stored |-> {}]
          \/ o = [s |-> Stored(S, W), stored |-> CommittedByStore(S, W)]
          \/ o = [s |-> Ended(S), stored |-> CommittedByCommit(S)]
        BY DEF Outcomes, Awaiting, Storing, S, W
    <2> QED BY <1>2, <1>3, <1>4, <2>1
<1> QED BY <1>5 DEF S

\* A handler is dropped, which spoils its request.
LEMMA CancelStep ==
    ASSUME IInv, NEW r \in Requests, Cancel(r)
    PROVE  IInv'
<1>1. /\ pc[r] \in Awaiting /\ pc[r] \in Sending /\ Session(r).alive
      /\ Answer(r, "gone") /\ "gone" \in Answers
      /\ UNCHANGED <<restricted, kind, bad, step, inherits>>
    BY DEF Cancel, Sending, Answers
<1>2. PICK o \in Outcomes(r) : /\ SetSession(r, o.s)
                               /\ committed' = committed \cup o.stored
    BY DEF Cancel
<1>3. cancels' \in 0 .. MaxCancels
    BY BoundsAssumption DEF Cancel, IInv, TypeOK
<1>4. /\ o.s \in Sessions /\ o.s.alive /\ o.stored \in SUBSET Writes
      /\ \A w \in o.s.pending : w[1] = r \/ w \in Session(r).pending
      /\ \A w \in o.stored :
            w[1] = r \/ (w \in Session(r).pending /\ Session(r).tx # "failed")
      /\ o.s.tx = "none" => o.s.pending = {}
      /\ Session(r).tx = "failed" => o.s.tx = "failed" \/ o.s.pending = {}
    BY <1>1, <1>2, OutcomeTypes
<1>5. Spoiled(r)'
    BY <1>1, SpoiledAnswer
<1>6. Serves(r, o.s, o.stored)
    BY <1>1, <1>2, <1>3, <1>4, <1>5, RequestTypes DEF Serves, IInv, TypeOK
<1>7. step'[r] <= Statements(kind[r])
    BY <1>1, Holder DEF Local, Phase
<1>8. Local(r)'
    BY <1>1, <1>5, <1>7, AnswerLocal DEF Answers
<1> QED BY <1>1, <1>4, <1>6, <1>8, ServeKeeps

-----------------------------------------------------------------------------
(***************************************************************************)
(* The other steps                                                         *)
(***************************************************************************)

\* A connection that breaks takes with it what was held, never what was
\* committed.
LEMMA BreakStep ==
    ASSUME IInv, NEW c \in Conns, Break(c)
    PROVE  IInv'
<1>1. /\ session[c].alive /\ session' = [session EXCEPT ![c] = NoSession]
      /\ UNCHANGED <<restricted, committed, conn, kind, bad, step, pc, reply,
                     cancels, inherits>>
    BY DEF Break
<1>2. /\ NoSession \in Sessions /\ NoSession.pending = {} /\ ~NoSession.alive
      /\ NoSession.tx = "none"
    BY DEF NoSession, Sessions
<1>3. /\ session \in [Conns -> Sessions] /\ session' \in [Conns -> Sessions]
      /\ session'[c] = NoSession
      /\ \A d \in Conns : d # c => session'[d] = session[d]
    BY <1>1, <1>2 DEF IInv, TypeOK, Sessions
<1>4. TypeOK' /\ Lending'
    BY <1>1, <1>3 DEF IInv, TypeOK, Lending, Sessions, Writes
<1>5. Held0'
    BY <1>2, <1>3 DEF IInv, Held0
<1>6. Owners'
    BY <1>1, <1>2, <1>3 DEF IInv, Owners, Spoiled
<1>7. ASSUME NEW r \in Requests
      PROVE  Local(r)'
    <2>1. Local(r)
        BY DEF IInv
    <2>2. Phase(r)' /\ NotBegun(r)' /\ Over(r)'
        BY <1>1, <2>1 DEF Local, Phase, NotBegun, None, Over, All, Spoiled
    <2>3. Active(r)'
        <3>1. SUFFICES ASSUME pc[r] \in Sending, ~inherits[r]
                       PROVE  Active(r)'
            BY <1>1 DEF Active
        <3>2. CASE conn[r] = c
            <4>1. Session(r).alive /\ Session(r)' = NoSession
                BY <1>1, <1>3, <3>2 DEF Session
            <4>2. CASE kind[r] \in InTransaction
                <5>1. None(r)
                    BY <2>1, <3>1, <4>1, <4>2 DEF Local, Active, InTx
                <5>2. InTx(r)'
                    BY <1>1, <1>2, <4>1, <5>1 DEF InTx, None
                <5> QED BY <1>1, <4>2, <5>2 DEF Active
            <4>3. CASE kind[r] \notin InTransaction
                <5>1. Alone(r)'
                    BY <1>1, <1>2, <2>1, <3>1, <4>1, <4>3
                       DEF Local, Active, Alone
                <5> QED BY <1>1, <4>3, <5>1 DEF Active
            <4> QED BY <4>2, <4>3
        <3>3. CASE conn[r] # c
            <4>1. Session(r)' = Session(r)
                BY <1>1, <1>3, <3>1, <3>3, Holder DEF Session
            <4>2. CASE kind[r] \in InTransaction
                <5>1. InTx(r)
                    BY <2>1, <3>1, <4>2 DEF Local, Active
                <5>2. InTx(r)'
                    BY <1>1, <4>1, <5>1 DEF InTx, None, All
                <5> QED BY <1>1, <4>2, <5>2 DEF Active
            <4>3. CASE kind[r] \notin InTransaction
                <5>1. Alone(r)
                    BY <2>1, <3>1, <4>3 DEF Local, Active
                <5>2. Alone(r)'
                    BY <1>1, <4>1, <5>1 DEF Alone
                <5> QED BY <1>1, <4>3, <5>2 DEF Active
            <4> QED BY <4>2, <4>3
        <3> QED BY <3>2, <3>3
    <2> QED BY <2>2, <2>3 DEF Local
<1> QED BY <1>4, <1>5, <1>6, <1>7 DEF IInv

\* A request borrows a connection that nobody has.
LEMMA BorrowStep ==
    ASSUME IInv, NEW r \in Requests, Borrow(r)
    PROVE  IInv'
<1>1. PICK c \in Conns \ Held, k \in Kinds, label \in Sending :
        /\ pc[r] = "new"
        /\ label \in {First(k), "refuse"}
        /\ conn' = [conn EXCEPT ![r] = c]
        /\ session' = [session EXCEPT ![c] = IF @.alive THEN @ ELSE NewSession]
        /\ inherits' = [inherits EXCEPT ![r] = session[c].tx # "none"]
        /\ kind' = [kind EXCEPT ![r] = k]
        /\ \E b \in BadAt(k) : bad' = [bad EXCEPT ![r] = b]
        /\ pc' = [pc EXCEPT ![r] = label]
        /\ UNCHANGED <<restricted, committed, step, reply, cancels>>
    <2>1. \A k : {First(k), "refuse"} \subseteq Sending
        <3>1. \A k : First(k) \in Sending
            BY DEF First, Sending, Awaiting, Storing
        <3> QED BY <3>1 DEF Sending
    <2>2. PICK c \in Conns \ Held, k \in {j \in Kinds : Allowed(j)} :
            /\ pc[r] = "new"
            /\ conn' = [conn EXCEPT ![r] = c]
            /\ session' = [session EXCEPT ![c] = IF @.alive THEN @ ELSE NewSession]
            /\ inherits' = [inherits EXCEPT ![r] = session[c].tx # "none"]
            /\ kind' = [kind EXCEPT ![r] = k]
            /\ \E b \in BadAt(k) : bad' = [bad EXCEPT ![r] = b]
            /\ \E label \in {First(k), "refuse"} : pc' = [pc EXCEPT ![r] = label]
            /\ UNCHANGED <<restricted, committed, step, reply, cancels>>
        BY DEF Borrow
    <2>3. PICK label \in {First(k), "refuse"} : pc' = [pc EXCEPT ![r] = label]
        BY <2>2
    <2> QED BY <2>1, <2>2, <2>3
<1>2. /\ label \in Sending \ {"new", "done"}
      /\ k \in InTransaction => label \in {"begin", "refuse"}
      /\ k \notin InTransaction => label \in {"exec", "copy", "refuse"}
    <2>1. CASE k \in InTransaction
        <3>1. First(k) = "begin"
            BY <2>1, Zenon DEF First, InTransaction
        <3> QED BY <1>1, <2>1, <3>1 DEF Sending, Awaiting, Storing
    <2>2. CASE k \notin InTransaction
        <3>1. First(k) \in {"exec", "copy"}
            BY <2>2 DEF First, InTransaction
        <3> QED BY <1>1, <2>2, <3>1 DEF Sending, Awaiting, Storing
    <2> QED BY <2>1, <2>2
<1>3. \A b \in BadAt(k) : b \in 0 .. Chunks
    BY BoundsAssumption DEF BadAt
<1>4. /\ NewSession \in Sessions /\ NewSession.pending = {} /\ NewSession.alive
      /\ NewSession.tx = "none"
    BY DEF NewSession, Sessions, IInv, TypeOK
<1> DEFINE s == IF session[c].alive THEN session[c] ELSE NewSession
<1>5. /\ session \in [Conns -> Sessions] /\ session' \in [Conns -> Sessions]
      /\ session'[c] = s
      /\ \A d \in Conns : d # c => session'[d] = session[d]
    BY <1>1, <1>4 DEF IInv, TypeOK, Sessions
<1>6. /\ s.pending \subseteq session[c].pending
      /\ s.tx = "none" => s.pending = {}
      /\ s.alive
      /\ session[c].tx = "none" => s.tx = "none"
      /\ s.pending # {} => s = session[c]
    BY <1>1, <1>4 DEF IInv, Held0
<1> HIDE DEF s
<1>7. /\ pc'[r] = label /\ conn'[r] = c /\ kind'[r] = k /\ step'[r] = step[r]
      /\ reply'[r] = reply[r] /\ inherits'[r] = (session[c].tx # "none")
      /\ committed' = committed
    BY <1>1 DEF IInv, TypeOK
<1>8. ASSUME NEW q \in Requests, q # r
      PROVE  /\ pc'[q] = pc[q] /\ conn'[q] = conn[q] /\ kind'[q] = kind[q]
             /\ step'[q] = step[q] /\ reply'[q] = reply[q]
             /\ inherits'[q] = inherits[q] /\ bad'[q] = bad[q]
             /\ conn[q] # c
    BY <1>1, <1>8 DEF IInv, TypeOK, Held
<1>9. TypeOK'
    BY <1>1, <1>2, <1>3, <1>5 DEF IInv, TypeOK, Sessions, Writes
<1>10. Lending'
    BY <1>1, <1>2, <1>7, <1>8, SlotsAssumption DEF IInv, Lending
<1>11. Held0'
    BY <1>5, <1>6 DEF IInv, Held0
<1>12. Owners'
    <2> SUFFICES ASSUME NEW d \in Conns, NEW w \in Writes,
                        w \in session'[d].pending, session'[d].tx # "failed"
                 PROVE  conn'[w[1]] = d \/ (pc'[w[1]] = "done" /\ Spoiled(w[1])')
        BY DEF Owners, Writes
    <2>1. w \in session[d].pending /\ w[1] \in Requests /\ session[d].tx # "failed"
        BY <1>5, <1>6 DEF Writes
    <2>2. conn[w[1]] = d \/ (pc[w[1]] = "done" /\ Spoiled(w[1]))
        BY <2>1 DEF IInv, Owners
    <2>3. w[1] # r
        BY <1>1, <2>1, <2>2, SlotsAssumption, RequestTypes
           DEF IInv, Lending, Sending, Awaiting, Storing
    <2> QED BY <1>8, <2>1, <2>2, <2>3 DEF Spoiled
<1>13. Local(r)'
    <2>1. Local(r) /\ None(r) /\ step[r] = 1 /\ reply[r] = "none"
        BY <1>1 DEF IInv, Local, NotBegun, Phase
    <2>2. Phase(r)'
        BY <1>2, <1>7, <2>1, StatementCount DEF Phase
    <2>3. NotBegun(r)' /\ Over(r)'
        BY <1>2, <1>7 DEF NotBegun, Over
    <2>4. Session(r)' = s
        BY <1>5, <1>7 DEF Session
    <2>5. Active(r)'
        <3>1. SUFFICES ASSUME session[c].tx = "none"
                       PROVE  Active(r)'
            BY <1>7 DEF Active
        <3>2. CASE k \in InTransaction
            <4>1. InTx(r)'
                BY <1>2, <1>6, <1>7, <2>1, <2>4, <3>1, <3>2 DEF InTx, None
            <4> QED BY <1>7, <3>2, <4>1 DEF Active
        <3>3. CASE k \notin InTransaction
            <4>1. Alone(r)'
                BY <1>2, <1>6, <1>7, <2>1, <2>4, <3>1, <3>3 DEF Alone, None
            <4> QED BY <1>7, <3>3, <4>1 DEF Active
        <3> QED BY <3>2, <3>3
    <2> QED BY <2>2, <2>3, <2>5 DEF Local
<1>14. ASSUME NEW q \in Requests, q # r
       PROVE  Local(q)'
    <2>1. Local(q)
        BY DEF IInv
    <2>2. Phase(q)' /\ NotBegun(q)' /\ Over(q)'
        BY <1>7, <1>8, <1>14, <2>1
           DEF Local, Phase, NotBegun, None, Over, All, Spoiled
    <2>3. Active(q)'
        <3>1. SUFFICES ASSUME pc[q] \in Sending, ~inherits[q]
                       PROVE  Active(q)'
            BY <1>8, <1>14 DEF Active
        <3>2. Session(q)' = Session(q)
            BY <1>5, <1>8, <1>14, <3>1, Holder DEF Session
        <3>3. CASE kind[q] \in InTransaction
            <4>1. InTx(q)
                BY <2>1, <3>1, <3>3 DEF Local, Active
            <4>2. InTx(q)'
                BY <1>7, <1>8, <1>14, <3>2, <4>1 DEF InTx, None, All
            <4> QED BY <1>8, <1>14, <3>3, <4>2 DEF Active
        <3>4. CASE kind[q] \notin InTransaction
            <4>1. Alone(q)
                BY <2>1, <3>1, <3>4 DEF Local, Active
            <4>2. Alone(q)'
                BY <1>7, <1>8, <1>14, <3>2, <4>1 DEF Alone
            <4> QED BY <1>8, <1>14, <3>4, <4>2 DEF Active
        <3> QED BY <3>3, <3>4
    <2> QED BY <2>2, <2>3 DEF Local
<1> QED BY <1>9, <1>10, <1>11, <1>12, <1>13, <1>14 DEF IInv

-----------------------------------------------------------------------------
(***************************************************************************)
(* The theorems                                                            *)
(***************************************************************************)

\* The invariant holds at the beginning.
LEMMA InitInv == Init => IInv
<1> SUFFICES ASSUME Init
             PROVE  IInv
    OBVIOUS
<1>1. NoSession \in Sessions /\ NoSession.pending = {}
    BY DEF NoSession, Sessions
<1>2. 1 \in 1 .. MostStatements /\ \A k : 1 <= Statements(k)
    BY StatementCount
<1>3. TypeOK
    BY <1>1, <1>2, BoundsAssumption
       DEF Init, TypeOK, Sessions, Kinds, ReadTools, Writes, Replies
<1>4. Lending /\ Held0 /\ Owners
    BY <1>1, SlotsAssumption DEF Init, Lending, Held0, Owners, Sending, Awaiting, Storing
<1>5. \A r \in Requests : Local(r)
    BY <1>2 DEF Init, Local, Phase, NotBegun, Active, Over, None, Sending, Awaiting, Storing
<1> QED BY <1>3, <1>4, <1>5 DEF IInv

\* Every step preserves it.
LEMMA NextInv == IInv /\ [Next]_vars => IInv'
<1> SUFFICES ASSUME IInv, [Next]_vars
             PROVE  IInv'
    OBVIOUS
<1>1. ASSUME NEW r \in Requests, Handler(r)
      PROVE  IInv'
    BY <1>1, BorrowStep, RefuseStep, BeginStep, SetLocalStep,
       OpeningFailsStep, LateErrorStep, ExecuteStep,
       ExecuteFailsStep, OpenCopyStep, DownloadStep, DownloadFailsStep,
       CommitStep, CommitFailsStep, RollbackStep, LostStep DEF Handler
<1>2. ASSUME NEW r \in Requests, BreakAfter(r)
      PROVE  IInv'
    BY <1>2, BreakAfterStep
<1>3. ASSUME NEW r \in Requests, Cancel(r)
      PROVE  IInv'
    BY <1>3, CancelStep
<1>4. ASSUME NEW c \in Conns, Break(c)
      PROVE  IInv'
    BY <1>4, BreakStep
<1>5. CASE UNCHANGED vars
    BY <1>5 DEF vars, IInv, TypeOK, Lending, Held0, Owners, Local, Phase,
       NotBegun, Active, Over, InTx, Alone, None, All, Spoiled, Session, Writes,
       WritesOf
<1> QED BY <1>1, <1>2, <1>3, <1>4, <1>5 DEF Next

\* So it always holds.
THEOREM Invariance == Spec => []IInv
BY InitInv, NextInv, PTL DEF Spec

\* Every variable has its type, for any number of requests and connections and
\* any number of statements in a chunked load.
THEOREM TypeCorrect == Spec => []TypeOK
<1>1. IInv => TypeOK
    BY DEF IInv
<1> QED BY <1>1, Invariance, PTL

\* A row count is only answered for committed rows: no request that nothing
\* spoils is told "ok" before everything it wrote is committed, on whatever
\* connection, and whatever breaks.
THEOREM AnswersAreCommitted == Spec => []AnsweredIsCommitted
<1>1. IInv => AnsweredIsCommitted
    <2> SUFFICES ASSUME IInv, NEW r \in Requests, reply[r] = "ok",
                        kind[r] # "read", ~Spoiled(r)
                 PROVE  WritesOf(r) \subseteq committed
        BY DEF AnsweredIsCommitted
    <2>1. pc[r] = "done"
        BY DEF IInv, Local, Phase
    <2>2. All(r)
        BY <2>1 DEF IInv, Local, Over
    <2> QED BY <2>2 DEF WritesOf, All
<1> QED BY <1>1, Invariance, PTL

\* An error means that nothing was changed, but for the TRUNCATE of an import.
THEOREM ErrorsChangeNothing == Spec => []RefusedIsUndone
<1>1. IInv => RefusedIsUndone
    <2> SUFFICES ASSUME IInv, NEW r \in Requests, reply[r] \in {"err", "empty"},
                        ~Spoiled(r)
                 PROVE  WritesOf(r) \cap committed \subseteq Emptied(r)
        BY DEF RefusedIsUndone
    <2>1. pc[r] = "done"
        BY DEF IInv, Local, Phase
    <2>2. \A n \in 1 .. Statements(kind[r]) :
              <<r, n>> \in committed => kind[r] = "refill" /\ n = 1
        BY <2>1 DEF IInv, Local, Over
    <2> QED BY <2>2 DEF WritesOf, Emptied
<1> QED BY <1>1, Invariance, PTL

\* The writes of a request are committed together or not at all, but for the
\* TRUNCATE of an import, at every moment and whatever breaks.
THEOREM WholeOrNothing == Spec => []AllOrNothing
<1>1. IInv => AllOrNothing
    <2> SUFFICES ASSUME IInv, NEW r \in Requests, ~Spoiled(r)
                 PROVE  WritesOf(r) \cap committed \in {{}, Emptied(r), WritesOf(r)}
        BY DEF AllOrNothing
    <2> DEFINE N == 1 .. Statements(kind[r])
    <2>1. N \subseteq 1 .. MostStatements /\ Statements(kind[r]) \in Nat
        BY StatementCount
    <2>2. CASE \A n \in N : <<r, n>> \notin committed
        <3>1. WritesOf(r) \cap committed = {}
            BY <2>2 DEF WritesOf
        <3> QED BY <3>1
    <2>3. CASE \A n \in N : <<r, n>> \in committed
        <3>1. WritesOf(r) \cap committed = WritesOf(r)
            BY <2>3 DEF WritesOf
        <3> QED BY <3>1
    <2>4. CASE \A n \in N : <<r, n>> \in committed <=> kind[r] = "refill" /\ n = 1
        <3>1. kind[r] = "refill" => 1 \in N
            BY <2>1, StatementCount DEF Statements
        <3>2. WritesOf(r) \cap committed = Emptied(r)
            BY <2>4, <3>1 DEF WritesOf, Emptied
        <3> QED BY <3>2
    <2>5. Local(r) /\ ~inherits[r] /\ pc[r] \in Sending \cup {"new", "done"}
        BY RequestTypes DEF IInv, Spoiled
    <2>6. CASE pc[r] = "new"
        BY <2>1, <2>2, <2>5, <2>6 DEF Local, NotBegun, None
    <2>7. CASE pc[r] = "done"
        BY <2>2, <2>3, <2>4, <2>5, <2>7 DEF Local, Over, All
    <2>8. CASE pc[r] \in Sending /\ kind[r] \in InTransaction
        <3>1. InTx(r)
            BY <2>5, <2>8 DEF Local, Active
        <3> QED BY <2>1, <2>2, <2>3, <3>1 DEF InTx, None, All
    <2>9. CASE pc[r] \in Sending /\ kind[r] \notin InTransaction
        <3>1. Alone(r)
            BY <2>5, <2>9 DEF Local, Active
        <3>2. Statements(kind[r]) = IF kind[r] = "refill" THEN 2 ELSE 1
            BY <2>9 DEF Statements, InTransaction
        <3>3. step[r] \in 1 .. Statements(kind[r])
            BY <2>1, <2>5, RequestTypes DEF Local, Phase, IInv, TypeOK
        <3>4. \A n \in N : n = 1 \/ (n = 2 /\ kind[r] = "refill")
            BY <3>2
        <3> DEFINE C(m) == \A n \in N : <<r, n>> \in committed <=> n < m
        <3>5. CASE kind[r] = "read"
            BY <2>1, <2>2, <3>1, <3>5 DEF Alone
        <3>6. CASE kind[r] # "read"
            <4>1. C(step[r]) \/ C(step[r] + 1)
                BY <2>1, <3>1, <3>3, <3>6 DEF Alone
            <4>2. CASE C(1)
                BY <2>2, <4>2
            <4>3. CASE kind[r] # "refill" /\ C(2)
                BY <2>3, <3>4, <4>3
            <4>4. CASE kind[r] = "refill" /\ C(2)
                BY <2>4, <3>4, <4>4
            <4>5. CASE kind[r] = "refill" /\ C(3)
                BY <2>3, <3>4, <4>5
            <4> QED BY <3>2, <3>3, <4>1, <4>2, <4>3, <4>4, <4>5
        <3> QED BY <3>5, <3>6
    <2> QED BY <2>5, <2>6, <2>7, <2>8, <2>9
<1> QED BY <1>1, Invariance, PTL

\* A session that only reads stores nothing: what it accepts is no write.
LEMMA NothingToWrite ==
    ASSUME NEW r \in Requests, Accepts(r), Session(r).readOnly
    PROVE  CurrentWrite(r) = {}
BY DEF Accepts

\* In a restricted server a step of a request stores and commits nothing.
LEMMA OnlyReads ==
    ASSUME IInv, ReadOnly, restricted, NEW r \in Requests, conn[r] \in Conns,
           NEW s, SetSession(r, s),
           s.pending = {}, s.alive => s.readOnly,
           committed' = committed,
           UNCHANGED <<restricted, kind>>
    PROVE  ReadOnly'
<1>1. \A c \in Conns : session'[c] = IF c = conn[r] THEN s ELSE session[c]
    BY DEF IInv, TypeOK, SetSession
<1> QED BY <1>1 DEF ReadOnly

\* A restricted server only reads, whatever step is taken.
LEMMA ReadOnlyStep == IInv /\ ReadOnly /\ [Next]_vars => ReadOnly'
<1> SUFFICES ASSUME IInv, ReadOnly, restricted, [Next]_vars
             PROVE  ReadOnly'
    <2>1. [Next]_vars => restricted' = restricted
        BY DEF Next, Handler, vars, Borrow, Refuse, Begin, SetLocal,
           OpeningFails, LateError, Execute,
           ExecuteFails, OpenCopy, Download, DownloadFails, Commit, CommitFails,
           Rollback, Lost, BreakAfter, Cancel, Break
    <2> QED BY <2>1 DEF ReadOnly
<1>1. ASSUME NEW r \in Requests, pc[r] \in Sending
      PROVE  /\ conn[r] \in Conns
             /\ Session(r).pending = {}
             /\ Session(r).alive => Session(r).readOnly
             /\ Session(r) \in Sessions
    BY <1>1 DEF IInv, TypeOK, Lending, ReadOnly, Session, Sessions
<1>2. ASSUME NEW r \in Requests, pc[r] \in Sending
      PROVE  \A s \in {Begun(Session(r)), Failed(Session(r)), Ended(Session(r)),
                       Stored(Session(r), {}), NoSession, Session(r)} :
                 s.pending = {} /\ (s.alive => s.readOnly)
    <2> DEFINE S == Session(r)
    <2>1. S \in Sessions /\ S.pending = {} /\ (S.alive => S.readOnly)
        BY <1>1, <1>2
    <2> HIDE DEF S
    <2>2. \A s \in {Begun(S), Failed(S), Ended(S), Stored(S, {}), NoSession, S} :
              s.pending = {} /\ (s.alive => s.readOnly)
        <3> DEFINE Reads(s) == s.pending = {} /\ (s.alive => s.readOnly)
        <3>1. Reads(Begun(S)) /\ Reads(Failed(S))
            BY <2>1 DEF Begun, Failed, Sessions
        <3>2. Reads(Ended(S)) /\ Reads(Stored(S, {}))
            BY <2>1 DEF Ended, Stored, Sessions
        <3>3. Reads(NoSession) /\ Reads(S)
            BY <2>1 DEF NoSession
        <3> HIDE DEF Reads
        <3>4. \A s \in {Begun(S), Failed(S), Ended(S), Stored(S, {}), NoSession, S} :
                  Reads(s)
            BY <3>1, <3>2, <3>3
        <3> QED BY <3>4 DEF Reads
    <2> QED BY <2>2 DEF S
<1>3. ASSUME NEW r \in Requests, pc[r] \in Sending, Session(r).alive
      PROVE  /\ Accepts(r) => CurrentWrite(r) = {}
             /\ CommittedByCommit(Session(r)) = {}
    BY <1>1, <1>3, NothingToWrite DEF CommittedByCommit
<1>4. ASSUME NEW r \in Requests,
             UNCHANGED <<session, committed, kind, restricted>>
      PROVE  ReadOnly'
    BY <1>4 DEF ReadOnly
<1>5. \A s : CommittedByStore(s, {}) = {}
    BY DEF CommittedByStore
<1>6. CASE UNCHANGED vars
    BY <1>6 DEF ReadOnly, vars
<1>7. ASSUME NEW r \in Requests, Borrow(r)
      PROVE  ReadOnly'
    <2>1. PICK c \in Conns, k \in ReadTools :
              /\ session' = [session EXCEPT ![c] = IF @.alive THEN @ ELSE NewSession]
              /\ kind' = [kind EXCEPT ![r] = k]
        BY <1>7 DEF Borrow, Allowed
    <2>2. \A d \in Conns : session'[d] \in {session[d], NewSession}
        BY <2>1 DEF IInv, TypeOK
    <2>3. \A q \in Requests : kind'[q] \in {kind[q], k}
        BY <2>1 DEF IInv, TypeOK
    <2>4. NewSession.readOnly /\ NewSession.pending = {}
        BY DEF NewSession, ReadOnly
    <2>5. committed' = committed /\ restricted' = restricted
        BY <1>7 DEF Borrow
    <2> QED BY <2>1, <2>2, <2>3, <2>4, <2>5 DEF ReadOnly
<1>8. ASSUME NEW r \in Requests, Begin(r) \/ OpeningFails(r) \/ CommitFails(r)
                                 \/ Rollback(r) \/ ExecuteFails(r)
                                 \/ DownloadFails(r)
      PROVE  ReadOnly'
    <2>1. pc[r] \in Sending
        BY <1>8 DEF Begin, OpeningFails, CommitFails, Rollback, ExecuteFails,
           DownloadFails,
           Sending, Awaiting, Storing
    <2>2. /\ \E s \in {Begun(Session(r)), Failed(Session(r)), Ended(Session(r))} :
                 SetSession(r, s)
          /\ committed' = committed
          /\ UNCHANGED <<restricted, kind>>
        BY <1>8 DEF Begin, OpeningFails, CommitFails, Rollback, ExecuteFails,
           DownloadFails
    <2> QED BY <1>1, <1>2, <2>1, <2>2, OnlyReads
<1>9. ASSUME NEW r \in Requests, Refuse(r) \/ SetLocal(r) \/ LateError(r)
                                 \/ OpenCopy(r) \/ Download(r) \/ Lost(r)
      PROVE  ReadOnly'
    BY <1>4, <1>9 DEF Refuse, SetLocal, LateError, OpenCopy, Download, Lost
<1>10. ASSUME NEW r \in Requests, Execute(r)
       PROVE  ReadOnly'
    <2>1. pc[r] \in Sending /\ CurrentWrite(r) = {}
        BY <1>3, <1>10 DEF Execute, Sending, Awaiting
    <2>2. /\ SetSession(r, Stored(Session(r), {}))
          /\ committed' = committed
          /\ UNCHANGED <<restricted, kind>>
        BY <1>5, <1>10, <2>1 DEF Execute
    <2> QED BY <1>1, <1>2, <2>1, <2>2, OnlyReads
<1>11. ASSUME NEW r \in Requests, Commit(r)
       PROVE  ReadOnly'
    <2>1. pc[r] \in Sending
        BY <1>11 DEF Commit, Sending, Awaiting
    <2>2. /\ SetSession(r, Ended(Session(r)))
          /\ committed' = committed
          /\ UNCHANGED <<restricted, kind>>
        BY <1>3, <1>11, <2>1 DEF Commit
    <2> QED BY <1>1, <1>2, <2>1, <2>2, OnlyReads
<1>12. ASSUME NEW r \in Requests, BreakAfter(r)
       PROVE  ReadOnly'
    <2>1. pc[r] \in Sending
        BY <1>12 DEF BreakAfter, Sending, Awaiting
    <2>2. /\ SetSession(r, NoSession)
          /\ committed' = committed
          /\ UNCHANGED <<restricted, kind>>
        BY <1>3, <1>5, <1>12, <2>1 DEF BreakAfter
    <2> QED BY <1>1, <1>2, <2>1, <2>2, OnlyReads
<1>13. ASSUME NEW r \in Requests, Cancel(r)
       PROVE  ReadOnly'
    <2>1. PICK o \in Outcomes(r) :
              SetSession(r, o.s) /\ committed' = committed \cup o.stored
        BY <1>13 DEF Cancel
    <2>2. pc[r] \in Awaiting /\ pc[r] \in Sending /\ Session(r).alive
        BY <1>13 DEF Cancel, Sending
    <2>3. o.stored = {} /\ o.s.pending = {} /\ (o.s.alive => o.s.readOnly)
        <3> DEFINE S == Session(r)
                   W == CurrentWrite(r)
        <3>1. Accepts(r) => W = {}
            BY <1>3, <2>2
        <3>2. CommittedByCommit(S) = {}
            BY <1>3, <2>2
        <3> HIDE DEF S, W
        <3>3. \/ o \in {[s |-> S, stored |-> {}], [s |-> Begun(S), stored |-> {}],
                        [s |-> Failed(S), stored |-> {}],
                        [s |-> Ended(S), stored |-> {}]}
              \/ /\ Accepts(r)
                 /\ o = [s |-> Stored(S, W), stored |-> CommittedByStore(S, W)]
              \/ o = [s |-> Ended(S), stored |-> CommittedByCommit(S)]
            BY <2>2 DEF Outcomes, Awaiting, Storing, S, W
        <3>4. o.stored = {} /\ o.s \in {Begun(S), Failed(S), Ended(S), Stored(S, {}), S}
            BY <1>5, <3>1, <3>2, <3>3
        <3> QED BY <1>2, <2>2, <3>4 DEF S
    <2>4. UNCHANGED <<restricted, kind>>
        BY <1>13 DEF Cancel
    <2> QED BY <1>1, <2>1, <2>2, <2>3, <2>4, OnlyReads
<1>14. ASSUME NEW c \in Conns, Break(c)
       PROVE  ReadOnly'
    <2>1. \A d \in Conns : session'[d] \in {session[d], NoSession}
        BY <1>14 DEF Break, IInv, TypeOK
    <2>2. ~NoSession.alive /\ NoSession.pending = {}
        BY DEF NoSession
    <2> QED BY <1>14, <2>1, <2>2 DEF Break, ReadOnly
<1> QED BY <1>6, <1>7, <1>8, <1>9, <1>10, <1>11, <1>12, <1>13, <1>14
        DEF Next, Handler

\* Nothing is ever committed through a restricted server, on no connection:
\* what stands in the way of a function that writes is the session's default.
THEOREM RestrictedIsReadOnly == Spec => []RestrictedOnlyReads
<1>1. Init => ReadOnly
    BY DEF Init, ReadOnly, ReadTools, NoSession
<1>2. ReadOnly => RestrictedOnlyReads
    BY DEF ReadOnly, RestrictedOnlyReads
<1> QED BY <1>1, <1>2, Invariance, ReadOnlyStep, PTL DEF Spec
-----------------------------------------------------------------------------
(***************************************************************************)
(* The steps                                                               *)
(***************************************************************************)

\* What a request commits is its own, or was held by the session of its
\* connection: no write of another request that is over and not spoiled.
LEMMA CommitsOwn ==
    ASSUME IInv, NEW q \in Requests, pc[q] \in Sending, NEW X,
           committed' = committed \cup X,
           X \subseteq CurrentWrite(q) \cup
               IF Session(q).tx = "open" THEN Session(q).pending ELSE {},
           NEW r \in Requests, pc[r] = "done", ~Spoiled(r)
    PROVE  WritesOf(r) \cap committed' = WritesOf(r) \cap committed
<1>1. conn[q] \in Conns /\ conn[r] # conn[q] /\ q # r
    BY SlotsAssumption DEF IInv, TypeOK, Lending, Sending, Awaiting, Storing
<1>2. ASSUME NEW n \in 1 .. MostStatements
      PROVE  <<r, n>> \notin X
    <2>1. <<r, n>> \in Writes /\ <<r, n>>[1] = r
        BY DEF Writes
    <2>2. Session(q).tx = "open" => <<r, n>> \notin Session(q).pending
        BY <1>1, <2>1 DEF IInv, Owners, Session
    <2>3. <<r, n>> \notin CurrentWrite(q)
        BY <1>1 DEF CurrentWrite
    <2> QED BY <2>2, <2>3
<1>3. 1 .. Statements(kind[r]) \subseteq 1 .. MostStatements
    BY StatementCount
<1> QED BY <1>2, <1>3 DEF WritesOf

\* Once a request is answered nothing of it is committed any more, whoever
\* borrows its connection next: that would need a write of it left in a session.
THEOREM NothingLater == Spec => NothingAfterAnswer
<1>1. ASSUME IInv, [Next]_vars, NEW r \in Requests, pc[r] = "done", ~Spoiled(r)
      PROVE  WritesOf(r) \cap committed' = WritesOf(r) \cap committed
    <2>1. ASSUME committed' = committed
          PROVE  WritesOf(r) \cap committed' = WritesOf(r) \cap committed
        BY <2>1
    <2>2. ASSUME NEW s, NEW ws
          PROVE  /\ CommittedByStore(s, ws) \subseteq ws
                 /\ CommittedByCommit(s) \subseteq
                       IF s.tx = "open" THEN s.pending ELSE {}
        BY DEF CommittedByStore, CommittedByCommit
    <2>3. ASSUME NEW q \in Requests, Execute(q)
          PROVE  WritesOf(r) \cap committed' = WritesOf(r) \cap committed
        <3>1. /\ pc[q] \in Sending
              /\ committed' = committed \cup CommittedByStore(Session(q), CurrentWrite(q))
            BY <2>3 DEF Execute, Sending, Awaiting
        <3> QED BY <1>1, <2>2, <3>1, CommitsOwn
    <2>4. ASSUME NEW q \in Requests, Commit(q)
          PROVE  WritesOf(r) \cap committed' = WritesOf(r) \cap committed
        <3>1. /\ pc[q] \in Sending
              /\ committed' = committed \cup CommittedByCommit(Session(q))
            BY <2>4 DEF Commit, Sending, Awaiting
        <3> QED BY <1>1, <2>2, <3>1, CommitsOwn
    <2>5. ASSUME NEW q \in Requests, BreakAfter(q)
          PROVE  WritesOf(r) \cap committed' = WritesOf(r) \cap committed
        <3>1. PICK X \in {CommittedByCommit(Session(q)),
                          CommittedByStore(Session(q), CurrentWrite(q))} :
                  committed' = committed \cup X
            BY <2>5 DEF BreakAfter
        <3>2. /\ pc[q] \in Sending
              /\ X \subseteq CurrentWrite(q) \cup
                    IF Session(q).tx = "open" THEN Session(q).pending ELSE {}
            BY <2>2, <2>5, <3>1 DEF BreakAfter, Sending, Awaiting
        <3> QED BY <1>1, <3>1, <3>2, CommitsOwn
    <2>6. ASSUME NEW q \in Requests, Cancel(q)
          PROVE  WritesOf(r) \cap committed' = WritesOf(r) \cap committed
        <3>1. PICK o \in Outcomes(q) : committed' = committed \cup o.stored
            BY <2>6 DEF Cancel
        <3>2. pc[q] \in Awaiting /\ pc[q] \in Sending /\ Session(q).alive
            BY <2>6 DEF Cancel, Sending
        <3>3. o.stored \in {{}, CommittedByCommit(Session(q)),
                            CommittedByStore(Session(q), CurrentWrite(q))}
            <4> DEFINE S == Session(q)
                       W == CurrentWrite(q)
            <4> HIDE DEF S, W
            <4>1. \/ o \in {[s |-> S, stored |-> {}], [s |-> Begun(S), stored |-> {}],
                            [s |-> Failed(S), stored |-> {}],
                            [s |-> Ended(S), stored |-> {}]}
                  \/ o = [s |-> Stored(S, W), stored |-> CommittedByStore(S, W)]
                  \/ o = [s |-> Ended(S), stored |-> CommittedByCommit(S)]
                BY <3>2 DEF Outcomes, Awaiting, Storing, S, W
            <4> QED BY <4>1 DEF S, W
        <3> QED BY <1>1, <2>2, <3>1, <3>2, <3>3, CommitsOwn
    <2>7. ASSUME NEW q \in Requests, Borrow(q) \/ Refuse(q) \/ Begin(q)
                   \/ SetLocal(q) \/ OpeningFails(q) \/ LateError(q) \/ ExecuteFails(q) \/ OpenCopy(q) \/ Download(q)
                   \/ DownloadFails(q) \/ CommitFails(q) \/ Rollback(q) \/ Lost(q)
          PROVE  committed' = committed
        BY <2>7 DEF Borrow, Refuse, Begin, SetLocal, OpeningFails, LateError, ExecuteFails, OpenCopy,
           Download, DownloadFails, CommitFails, Rollback, Lost
    <2>8. (\E c \in Conns : Break(c)) \/ UNCHANGED vars => committed' = committed
        BY DEF Break, vars
    <2> QED BY <1>1, <2>1, <2>3, <2>4, <2>5, <2>6, <2>7, <2>8 DEF Next, Handler
<1>2. IInv /\ [Next]_vars =>
          [\A r \in Requests : pc[r] = "done" /\ ~Spoiled(r) =>
              WritesOf(r) \cap committed' = WritesOf(r) \cap committed]_vars
    BY <1>1
<1> QED BY <1>2, Invariance, PTL DEF Spec, NothingAfterAnswer

\* How a request that nothing spoils may leave the connection it gives back.
GivenBack(r) ==
    \/ session'[conn[r]].tx = "none"
    \/ /\ session'[conn[r]].tx = "failed"
       /\ kind[r] \in InTransaction
       /\ reply'[r] = "err"
       /\ pc[r] \in {"set", "commit", "rollback"}

\* A request that nothing spoils returns its connection in no transaction, or
\* in one that its own failed statement has made a failed one.
LEMMA CleanReturn ==
    ASSUME IInv, NEW r \in Requests, conn[r] # NoConn,
           Handler(r) \/ BreakAfter(r) \/ Cancel(r),
           conn'[r] = NoConn, ~Spoiled(r)'
    PROVE  GivenBack(r)
<1>1. /\ pc[r] \in Sending /\ conn[r] \in Conns
      /\ Session(r) = session[conn[r]] /\ Session(r) \in Sessions
      /\ Local(r)
    BY DEF IInv, TypeOK, Lending, Session, Sessions
<1>2. \A s : SetSession(r, s) => session'[conn[r]] = s
    BY <1>1 DEF SetSession, IInv, TypeOK
<1>3. ~Borrow(r)
    BY <1>1 DEF Borrow, Sending, Awaiting, Storing
<1>4. ~inherits[r]
    BY <1>3 DEF Spoiled, Handler, Refuse, Begin, SetLocal, OpeningFails, LateError, Execute,
       ExecuteFails, OpenCopy, Download, DownloadFails, Commit, CommitFails,
       Rollback, Lost, BreakAfter, Cancel
<1>5. kind[r] \notin InTransaction => Session(r).tx = "none"
    BY <1>1, <1>4 DEF Local, Active, Alone
<1>6. kind[r] \in InTransaction => InTx(r)
    BY <1>1, <1>4 DEF Local, Active
<1>7. \A label : ~Continue(r, label)
    BY DEF Continue
<1>8. CASE Refuse(r)
    <2>1. pc[r] = "refuse" /\ session' = session
        BY <1>8 DEF Refuse
    <2>2. Session(r).alive => Session(r).tx = "none"
        BY <1>5, <1>6, <2>1 DEF InTx
    <2>3. ~Session(r).alive => Session(r) = NoSession
        BY <1>1 DEF IInv, Held0
    <2> QED BY <1>1, <2>1, <2>2, <2>3 DEF NoSession, GivenBack
<1>9. CASE LateError(r)
    <2>1. reply'[r] = "late"
        BY <1>9 DEF LateError, Answer, IInv, TypeOK
    <2> QED BY <2>1 DEF Spoiled
<1>16. CASE OpeningFails(r)
    <2>1. /\ pc[r] \in {"begin", "set"} /\ Session(r).alive
          /\ session'[conn[r]] = Failed(Session(r)) /\ reply'[r] = "err"
        BY <1>2, <1>16 DEF OpeningFails, Answer, IInv, TypeOK
    <2>2. kind[r] \in InTransaction
        BY <1>1, <2>1 DEF Local, Phase
    <2>3. /\ pc[r] = "begin" => Session(r).tx = "none"
          /\ pc[r] = "set" => Session(r).tx = "open"
        BY <1>6, <2>1, <2>2 DEF InTx
    <2> QED BY <1>1, <2>1, <2>2, <2>3 DEF Failed, Sessions, GivenBack
<1>10. CASE Execute(r)
    <2>1. kind[r] \notin InTransaction
        BY <1>7, <1>10 DEF Execute, NextStatement
    <2>2. session'[conn[r]] = Stored(Session(r), CurrentWrite(r))
        BY <1>2, <1>10 DEF Execute
    <2> QED BY <1>5, <2>1, <2>2 DEF Stored, GivenBack
<1>11. CASE ExecuteFails(r) \/ DownloadFails(r)
    <2>1. kind[r] \notin InTransaction
        BY <1>1, <1>7, <1>11 DEF ExecuteFails, DownloadFails, Local, Phase
    <2>2. session'[conn[r]] = Failed(Session(r))
        BY <1>2, <1>11 DEF ExecuteFails, DownloadFails
    <2> QED BY <1>5, <2>1, <2>2 DEF Failed, GivenBack
<1>12. CASE Commit(r)
    <2>1. session'[conn[r]] = Ended(Session(r))
        BY <1>2, <1>12 DEF Commit
    <2> QED BY <1>1, <2>1 DEF Ended, Sessions, GivenBack
<1>17. CASE CommitFails(r) \/ Rollback(r)
    <2>1. /\ pc[r] \in {"commit", "rollback"} /\ reply'[r] = "err"
          /\ session'[conn[r]] \in {Ended(Session(r)), Failed(Session(r))}
        BY <1>2, <1>17 DEF CommitFails, Rollback, Answer, IInv, TypeOK
    <2>2. kind[r] \in InTransaction
        BY <1>1, <2>1 DEF Local, Phase
    <2>3. Ended(Session(r)).tx = "none" /\ Failed(Session(r)).tx \in {"none", "failed"}
        BY <1>1 DEF Ended, Failed, Sessions
    <2> QED BY <2>1, <2>2, <2>3 DEF GivenBack
<1>13. CASE Lost(r)
    <2>1. session' = session /\ ~Session(r).alive
        BY <1>13 DEF Lost
    <2>2. Session(r) = NoSession
        BY <1>1, <2>1 DEF IInv, Held0
    <2> QED BY <1>1, <2>1, <2>2 DEF NoSession, GivenBack
<1>14. CASE Cancel(r)
    <2>1. reply'[r] = "gone"
        BY <1>14 DEF Cancel, Answer, IInv, TypeOK
    <2> QED BY <2>1 DEF Spoiled
<1>15. CASE Begin(r) \/ SetLocal(r) \/ OpenCopy(r) \/ Download(r) \/ BreakAfter(r)
    <2>1. conn' = conn
        BY <1>15 DEF Begin, SetLocal, OpenCopy, Download, BreakAfter, Continue
    <2> QED BY <2>1
<1> QED BY <1>3, <1>8, <1>9, <1>10, <1>11, <1>12, <1>13, <1>14, <1>15, <1>16,
        <1>17 DEF Handler

\* The connection of a request that nothing spoils never goes back to the pool
\* in an open transaction, whatever fails on the way; and in a failed one only
\* from the tools that begin one, after a SET LOCAL, a COMMIT or a ROLLBACK
\* that failed.
THEOREM GivenBackClean == Spec => GivesBackClean
<1>1. ASSUME IInv, Next, NEW r \in Requests,
             conn[r] # NoConn, conn'[r] = NoConn, ~Spoiled(r)'
      PROVE  GivenBack(r)
    <2>1. ASSUME NEW q \in Requests, q # r, Handler(q) \/ BreakAfter(q) \/ Cancel(q)
          PROVE  conn'[r] = conn[r]
        <3>1. conn' = conn \/ \E c : conn' = [conn EXCEPT ![q] = c]
            <4>1. CASE Borrow(q) \/ Cancel(q)
                BY <4>1 DEF Borrow, Cancel, Answer
            <4>2. CASE Refuse(q) \/ Begin(q) \/ SetLocal(q) \/ OpeningFails(q)
                       \/ LateError(q) \/ OpenCopy(q)
                BY <4>2 DEF Refuse, Begin, SetLocal, OpeningFails, LateError,
                   OpenCopy, Answer, Continue
            <4>3. CASE Execute(q) \/ ExecuteFails(q)
                BY <4>3 DEF Execute, ExecuteFails, NextStatement, Answer, Continue
            <4>4. CASE Download(q) \/ DownloadFails(q) \/ BreakAfter(q)
                BY <4>4 DEF Download, DownloadFails, BreakAfter, Answer, Continue
            <4>5. CASE Commit(q) \/ CommitFails(q) \/ Rollback(q) \/ Lost(q)
                BY <4>5 DEF Commit, CommitFails, Rollback, Lost, Answer
            <4> QED BY <2>1, <4>1, <4>2, <4>3, <4>4, <4>5 DEF Handler
        <3>2. conn \in [Requests -> Conns \cup {NoConn}]
            BY <1>1 DEF IInv, TypeOK
        <3> QED BY <2>1, <3>1, <3>2
    <2>2. ASSUME NEW c \in Conns, Break(c)
          PROVE  conn' = conn
        BY <2>2 DEF Break
    <2> QED BY <1>1, <2>1, <2>2, CleanReturn DEF Next
<1>2. IInv /\ [Next]_vars =>
          [\A r \in Requests :
              conn[r] # NoConn /\ conn'[r] = NoConn /\ ~Spoiled(r)' =>
                  \/ session'[conn[r]].tx = "none"
                  \/ /\ session'[conn[r]].tx = "failed"
                     /\ kind[r] \in InTransaction
                     /\ reply'[r] = "err"
                     /\ pc[r] \in {"set", "commit", "rollback"}]_vars
    BY <1>1 DEF GivenBack
<1> QED BY <1>2, Invariance, PTL DEF Spec, GivesBackClean
=============================================================================
