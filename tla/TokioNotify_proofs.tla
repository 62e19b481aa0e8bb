------------------------- MODULE TokioNotify_proofs -------------------------
(***************************************************************************)
(* The operations of a Notify return a Notify: lemmas for the proofs of    *)
(* the modules that own one.                                               *)
(***************************************************************************)
EXTENDS TokioNotify, SequenceTheorems, TLAPS

\* A new Notify has no waiter and no stored permit.
LEMMA NewNotifyType ==
    ASSUME NEW S
    PROVE  NewNotify(S) \in NotifyType(S)
<1>1. <<>> \in Seq(S)
    BY EmptySeq
<1> QED BY <1>1 DEF NewNotify, NotifyType, NotifiedStates

\* notify_one() keeps the waiters of a Notify among its tasks.
LEMMA NotifyOneType ==
    ASSUME NEW S, NEW n \in NotifyType(S)
    PROVE  NotifyOne(n) \in NotifyType(S)
<1>1. CASE n.queue = <<>>
    BY <1>1 DEF NotifyType, NotifyOne
<1>2. CASE n.queue # <<>>
    <2>1. /\ n.queue \in Seq(S)
          /\ n.st \in [S -> NotifiedStates]
          /\ n.permit \in BOOLEAN
        BY DEF NotifyType
    <2>2. Head(n.queue) \in S /\ Tail(n.queue) \in Seq(S)
        BY <1>2, <2>1, HeadTailProperties
    <2>3. [n.st EXCEPT ![Head(n.queue)] = "one"] \in [S -> NotifiedStates]
        BY <2>1, <2>2 DEF NotifiedStates
    <2>4. NotifyOne(n) =
            [n EXCEPT !.queue = Tail(n.queue),
                      !.st = [n.st EXCEPT ![Head(n.queue)] = "one"]]
        BY <1>2 DEF NotifyOne
    <2> QED BY <2>1, <2>2, <2>3, <2>4 DEF NotifyType
<1> QED BY <1>1, <1>2

\* notify_waiters() keeps the type.
LEMMA NotifyWaitersType ==
    ASSUME NEW S, NEW n \in NotifyType(S)
    PROVE  NotifyWaiters(n) \in NotifyType(S)
<1> DEFINE woken == [t \in DOMAIN n.st |->
                        IF n.st[t] = "waiting" THEN "all"
                        ELSE IF n.st[t] = "created" THEN "stale"
                        ELSE n.st[t]]
<1>1. n.st \in [S -> NotifiedStates]
    BY DEF NotifyType
<1>2. woken \in [S -> NotifiedStates]
    BY <1>1 DEF NotifiedStates
<1>3. <<>> \in Seq(S)
    BY EmptySeq
<1> QED BY <1>2, <1>3 DEF NotifyWaiters, NotifyType

\* notified() keeps the type.
LEMMA CreateType ==
    ASSUME NEW S, NEW n \in NotifyType(S), NEW t \in S
    PROVE  Create(n, t) \in NotifyType(S)
BY DEF NotifyType, Create, NotifiedStates

\* The completing poll keeps the type.
LEMMA ConsumeType ==
    ASSUME NEW S, NEW n \in NotifyType(S), NEW t \in S
    PROVE  Consume(n, t) \in NotifyType(S)
BY DEF NotifyType, Consume, NotifiedStates

\* The registering poll keeps the type.
LEMMA RegisterType ==
    ASSUME NEW S, NEW n \in NotifyType(S), NEW t \in S
    PROVE  Register(n, t) \in NotifyType(S)
<1>1. Append(n.queue, t) \in Seq(S)
    BY AppendProperties DEF NotifyType
<1> QED BY <1>1 DEF NotifyType, Register, NotifiedStates

\* A list of waiters that one of them leaves is a list of waiters.
LEMMA UnlinkType ==
    ASSUME NEW S, NEW q \in Seq(S), NEW t
    PROVE  Unlink(q, t) \in Seq(S)
<1>1. CASE t \notin ToSet(q)
    BY <1>1 DEF Unlink
<1>2. CASE t \in ToSet(q)
    <2> DEFINE k == CHOOSE i \in 1 .. Len(q) : q[i] = t
    <2>1. PICK pos \in 1 .. Len(q) : q[pos] = t
        BY <1>2, LenProperties DEF ToSet
    <2>2. k \in 1 .. Len(q)
        BY <2>1
    <2>3. Len(q) \in Nat /\ \A i \in 1 .. Len(q) : q[i] \in S
        BY LenProperties, ElementOfSeq
    <2>4. Unlink(q, t) = SubSeq(q, 1, k - 1) \o SubSeq(q, k + 1, Len(q))
        BY <1>2 DEF Unlink, RemoveAt
    <2> HIDE DEF k
    <2>5. SubSeq(q, 1, k - 1) \in Seq(S)
        <3>1. \A i \in 1 .. k - 1 : q[i] \in S
            BY <2>2, <2>3
        <3> QED BY <2>2, <2>3, <3>1, SubSeqProperties
    <2>6. SubSeq(q, k + 1, Len(q)) \in Seq(S)
        <3>1. \A i \in k + 1 .. Len(q) : q[i] \in S
            BY <2>2, <2>3
        <3> QED BY <2>2, <2>3, <3>1, SubSeqProperties
    <2> QED BY <2>4, <2>5, <2>6, ConcatProperties
<1> QED BY <1>1, <1>2

\* Dropping a Notified future keeps the type, also when it hands its
\* notification on.
LEMMA DropNotifiedType ==
    ASSUME NEW S, NEW n \in NotifyType(S), NEW t \in S
    PROVE  DropNotified(n, t) \in NotifyType(S)
<1> DEFINE gone == [n EXCEPT !.queue = Unlink(@, t), !.st[t] = "none"]
<1>1. /\ n.queue \in Seq(S)
      /\ n.st \in [S -> NotifiedStates]
      /\ n.permit \in BOOLEAN
    BY DEF NotifyType
<1>2. Unlink(n.queue, t) \in Seq(S)
    BY <1>1, UnlinkType
<1>3. gone \in NotifyType(S)
    BY <1>1, <1>2 DEF NotifyType, NotifiedStates
<1>4. NotifyOne(gone) \in NotifyType(S)
    BY <1>3, NotifyOneType
<1> QED BY <1>3, <1>4 DEF DropNotified

-----------------------------------------------------------------------------
(***************************************************************************)
(* The list of waiters agrees with the states of the futures: each waiting *)
(* future is in it once, and nobody waits while a permit is stored.        *)
(***************************************************************************)
Sound(n) ==
    /\ \A i, j \in 1 .. Len(n.queue) : n.queue[i] = n.queue[j] => i = j
    /\ \A t \in DOMAIN n.st :
        n.st[t] = "waiting" <=> \E i \in 1 .. Len(n.queue) : n.queue[i] = t
    /\ n.queue # <<>> => ~n.permit

\* A new Notify has an empty list.
LEMMA NewNotifySound ==
    ASSUME NEW S
    PROVE  Sound(NewNotify(S))
<1>1. Len(<<>>) = 0
    OBVIOUS
<1> QED BY <1>1 DEF Sound, NewNotify

\* notify_one() takes the first waiter from the list, and only that one.
LEMMA NotifyOneSound ==
    ASSUME NEW S, NEW n \in NotifyType(S), Sound(n)
    PROVE  Sound(NotifyOne(n))
<1>1. CASE n.queue = <<>>
    BY <1>1 DEF NotifyType, NotifyOne, Sound
<1>2. CASE n.queue # <<>>
    <2> DEFINE q == n.queue
               h == q[1]
               st1 == [n.st EXCEPT ![h] = "one"]
    <2>1. q \in Seq(S) /\ n.st \in [S -> NotifiedStates] /\ Len(q) \in Nat \ {0}
        BY <1>2 DEF NotifyType
    <2>2. /\ Len(Tail(q)) = Len(q) - 1
          /\ \A i \in 1 .. Len(q) - 1 : Tail(q)[i] = q[i + 1]
        BY <1>2, <2>1
    <2>3. h \in S /\ Head(q) = h
        BY <2>1
    <2>4. /\ NotifyOne(n).queue = Tail(q)
          /\ NotifyOne(n).st = st1
          /\ NotifyOne(n).permit = n.permit
        BY <1>2, <2>3 DEF NotifyType, NotifyOne
    <2>5. /\ \A i, j \in 1 .. Len(q) : q[i] = q[j] => i = j
          /\ \A t \in S : n.st[t] = "waiting" <=> \E i \in 1 .. Len(q) : q[i] = t
          /\ ~n.permit
        BY <1>2, <2>1 DEF Sound
    <2> HIDE DEF q, h
    <2>6. \A i, j \in 1 .. Len(Tail(q)) : Tail(q)[i] = Tail(q)[j] => i = j
        BY <2>1, <2>2, <2>5
    <2>7. ASSUME NEW t \in S
          PROVE  st1[t] = "waiting" <=> \E i \in 1 .. Len(Tail(q)) : Tail(q)[i] = t
        <3>1. CASE t = h
            <4>1. \A i \in 1 .. Len(Tail(q)) : Tail(q)[i] # h
                BY <2>1, <2>2, <2>5 DEF h
            <4> QED BY <2>1, <3>1, <4>1
        <3>2. CASE t # h
            <4>1. ASSUME NEW i \in 1 .. Len(q), q[i] = t
                  PROVE  i - 1 \in 1 .. Len(Tail(q)) /\ Tail(q)[i - 1] = t
                BY <2>1, <2>2, <3>2, <4>1 DEF h
            <4>2. ASSUME NEW i \in 1 .. Len(Tail(q)), Tail(q)[i] = t
                  PROVE  i + 1 \in 1 .. Len(q) /\ q[i + 1] = t
                BY <2>1, <2>2, <4>2
            <4> QED BY <2>1, <2>5, <3>2, <4>1, <4>2
        <3> QED BY <3>1, <3>2
    <2>8. DOMAIN st1 = S
        BY <2>1
    <2> QED BY <2>4, <2>5, <2>6, <2>7, <2>8 DEF Sound
<1> QED BY <1>1, <1>2

\* notify_waiters() empties the list.
LEMMA NotifyWaitersSound ==
    ASSUME NEW S, NEW n \in NotifyType(S), Sound(n)
    PROVE  Sound(NotifyWaiters(n))
<1> DEFINE woken == [t \in DOMAIN n.st |->
                        IF n.st[t] = "waiting" THEN "all"
                        ELSE IF n.st[t] = "created" THEN "stale"
                        ELSE n.st[t]]
<1>1. /\ NotifyWaiters(n).queue = <<>>
      /\ NotifyWaiters(n).st = woken
    BY DEF NotifyWaiters, NotifyType
<1>2. \A t \in DOMAIN woken : woken[t] # "waiting"
    OBVIOUS
<1>3. Len(<<>>) = 0
    OBVIOUS
<1> QED BY <1>1, <1>2, <1>3 DEF Sound

\* A future that no poll has registered comes and goes without the list.
LEMMA UnregisteredSound ==
    ASSUME NEW S, NEW n \in NotifyType(S), Sound(n), NEW t \in S,
           n.st[t] # "waiting"
    PROVE  Sound(Create(n, t)) /\ Sound(Consume(n, t))
<1>1. n.st \in [S -> NotifiedStates] /\ n.permit \in BOOLEAN
    BY DEF NotifyType
<1>2. /\ Create(n, t).queue = n.queue /\ Create(n, t).permit = n.permit
      /\ Create(n, t).st = [n.st EXCEPT ![t] = "created"]
    BY DEF NotifyType, Create
<1>3. /\ Consume(n, t).queue = n.queue
      /\ Consume(n, t).permit => n.permit
      /\ Consume(n, t).st = [n.st EXCEPT ![t] = "none"]
    BY <1>1 DEF NotifyType, Consume
<1> QED BY <1>1, <1>2, <1>3 DEF Sound

\* The first poll puts its future at the end of the list.
LEMMA RegisterSound ==
    ASSUME NEW S, NEW n \in NotifyType(S), Sound(n), NEW t \in S,
           n.st[t] # "waiting", ~n.permit
    PROVE  Sound(Register(n, t))
<1> DEFINE q == n.queue
           q1 == Append(q, t)
           st1 == [n.st EXCEPT ![t] = "waiting"]
<1>1. q \in Seq(S) /\ n.st \in [S -> NotifiedStates] /\ Len(q) \in Nat
    BY DEF NotifyType
<1>2. /\ Len(q1) = Len(q) + 1
      /\ \A i \in 1 .. Len(q) : q1[i] = q[i]
      /\ q1[Len(q) + 1] = t
    BY <1>1
<1>3. /\ Register(n, t).queue = q1
      /\ Register(n, t).st = st1
      /\ Register(n, t).permit = n.permit
    BY DEF NotifyType, Register
<1>4. /\ \A i, j \in 1 .. Len(q) : q[i] = q[j] => i = j
      /\ \A u \in S : n.st[u] = "waiting" <=> \E i \in 1 .. Len(q) : q[i] = u
    BY <1>1 DEF Sound
<1> HIDE DEF q, q1
<1>5. \A i \in 1 .. Len(q) : q[i] # t
    BY <1>4
<1>6. \A i, j \in 1 .. Len(q1) : q1[i] = q1[j] => i = j
    BY <1>1, <1>2, <1>4, <1>5
<1>7. ASSUME NEW u \in S
      PROVE  st1[u] = "waiting" <=> \E i \in 1 .. Len(q1) : q1[i] = u
    <2>1. CASE u = t
        <3>1. Len(q) + 1 \in 1 .. Len(q1)
            BY <1>1, <1>2
        <3> QED BY <1>1, <1>2, <2>1, <3>1
    <2>2. CASE u # t
        <3>1. ASSUME NEW i \in 1 .. Len(q1), q1[i] = u
              PROVE  i \in 1 .. Len(q) /\ q[i] = u
            BY <1>1, <1>2, <2>2, <3>1
        <3>2. ASSUME NEW i \in 1 .. Len(q), q[i] = u
              PROVE  i \in 1 .. Len(q1) /\ q1[i] = u
            BY <1>1, <1>2, <3>2
        <3> QED BY <1>1, <1>4, <2>2, <3>1, <3>2
    <2> QED BY <2>1, <2>2
<1>8. DOMAIN st1 = S
    BY <1>1
<1> QED BY <1>3, <1>6, <1>7, <1>8 DEF Sound

\* What remains of a list that one of its members leaves.
LEMMA UnlinkElements ==
    ASSUME NEW S, NEW q \in Seq(S), NEW t, t \in ToSet(q)
    PROVE  \E k \in 1 .. Len(q) :
              /\ q[k] = t
              /\ Len(Unlink(q, t)) = Len(q) - 1
              /\ \A i \in 1 .. Len(q) - 1 :
                    Unlink(q, t)[i] = IF i < k THEN q[i] ELSE q[i + 1]
<1> DEFINE k == CHOOSE i \in 1 .. Len(q) : q[i] = t
<1>1. PICK pos \in 1 .. Len(q) : q[pos] = t
    BY LenProperties DEF ToSet
<1>2. k \in 1 .. Len(q) /\ q[k] = t
    BY <1>1
<1>3. Len(q) \in Nat /\ \A i \in 1 .. Len(q) : q[i] \in S
    BY LenProperties, ElementOfSeq
<1>4. Unlink(q, t) = SubSeq(q, 1, k - 1) \o SubSeq(q, k + 1, Len(q))
    BY DEF Unlink, RemoveAt
<1> HIDE DEF k
<1> DEFINE a == SubSeq(q, 1, k - 1)
           b == SubSeq(q, k + 1, Len(q))
<1>5. /\ a \in Seq(S) /\ Len(a) = k - 1
      /\ \A i \in 1 .. k - 1 : a[i] = q[i]
    <2>1. \A i \in 1 .. k - 1 : q[i] \in S
        BY <1>2, <1>3
    <2> QED BY <1>2, <1>3, <2>1, SubSeqProperties
<1>6. /\ b \in Seq(S) /\ Len(b) = Len(q) - k
      /\ \A i \in 1 .. Len(q) - k : b[i] = q[k + i]
    <2>1. \A i \in k + 1 .. Len(q) : q[i] \in S
        BY <1>2, <1>3
    <2> QED BY <1>2, <1>3, <2>1, SubSeqProperties
<1> HIDE DEF a, b
<1>7. /\ Len(a \o b) = Len(a) + Len(b)
      /\ \A i \in 1 .. Len(a) + Len(b) :
            (a \o b)[i] = IF i <= Len(a) THEN a[i] ELSE b[i - Len(a)]
    BY <1>5, <1>6, ConcatProperties
<1>8. Unlink(q, t) = a \o b
    BY <1>4 DEF a, b
<1>9. Len(a \o b) = Len(q) - 1
    BY <1>2, <1>3, <1>5, <1>6, <1>7
<1>10. ASSUME NEW i \in 1 .. Len(q) - 1
       PROVE  (a \o b)[i] = IF i < k THEN q[i] ELSE q[i + 1]
    <2>1. CASE i < k
        BY <1>2, <1>3, <1>5, <1>6, <1>7, <2>1
    <2>2. CASE ~(i < k)
        <3>1. i - (k - 1) \in 1 .. Len(q) - k /\ k + (i - (k - 1)) = i + 1
            BY <1>2, <1>3, <2>2
        <3>2. (a \o b)[i] = b[i - (k - 1)]
            BY <1>2, <1>3, <1>5, <1>6, <1>7, <2>2
        <3> QED BY <1>2, <1>3, <1>6, <2>2, <3>1, <3>2
    <2> QED BY <2>1, <2>2
<1> QED BY <1>2, <1>8, <1>9, <1>10

\* A dropped future leaves the list, and its notification finds the next waiter.
LEMMA DropNotifiedSound ==
    ASSUME NEW S, NEW n \in NotifyType(S), Sound(n), NEW t \in S
    PROVE  Sound(DropNotified(n, t))
<1> DEFINE q == n.queue
           q1 == Unlink(q, t)
           st1 == [n.st EXCEPT ![t] = "none"]
           gone == [n EXCEPT !.queue = Unlink(@, t), !.st[t] = "none"]
<1>1. q \in Seq(S) /\ n.st \in [S -> NotifiedStates] /\ Len(q) \in Nat
    BY DEF NotifyType
<1>2. gone \in NotifyType(S)
    BY <1>1, UnlinkType DEF NotifyType, NotifiedStates
<1>3. gone.queue = q1 /\ gone.st = st1 /\ gone.permit = n.permit
    BY <1>1 DEF NotifyType
<1>4. /\ \A i, j \in 1 .. Len(q) : q[i] = q[j] => i = j
      /\ \A u \in S : n.st[u] = "waiting" <=> \E i \in 1 .. Len(q) : q[i] = u
      /\ q # <<>> => ~n.permit
    BY <1>1 DEF Sound
<1>5. ToSet(q) = {q[i] : i \in 1 .. Len(q)}
    BY <1>1 DEF ToSet
<1> HIDE DEF q, q1, gone
<1>6. CASE t \notin ToSet(q)
    <2>1. q1 = q
        BY <1>6 DEF q1, Unlink
    <2>2. n.st[t] # "waiting"
        BY <1>4, <1>5, <1>6
    <2>3. \A u \in S : st1[u] = "waiting" <=> n.st[u] = "waiting"
        BY <1>1, <2>2
    <2>4. DOMAIN st1 = S
        BY <1>1
    <2>5. gone.queue = q
        BY <1>3, <2>1
    <2> HIDE DEF st1
    <2>6. Sound(gone)
        BY <1>3, <1>4, <2>3, <2>4, <2>5 DEF Sound
    <2> QED BY <1>2, <2>6, NotifyOneSound DEF DropNotified, gone
<1>7. CASE t \in ToSet(q)
    <2>1. PICK k \in 1 .. Len(q) :
              /\ q[k] = t
              /\ Len(q1) = Len(q) - 1
              /\ \A i \in 1 .. Len(q) - 1 :
                    q1[i] = IF i < k THEN q[i] ELSE q[i + 1]
        BY <1>1, <1>7, UnlinkElements DEF q1
    <2>2. q # <<>> /\ ~n.permit
        BY <1>1, <1>4, <2>1
    <2>3. \A i, j \in 1 .. Len(q1) : q1[i] = q1[j] => i = j
        BY <1>1, <1>4, <2>1
    <2>4. ASSUME NEW u \in S
          PROVE  st1[u] = "waiting" <=> \E i \in 1 .. Len(q1) : q1[i] = u
        <3>1. CASE u = t
            <4>1. \A i \in 1 .. Len(q1) : q1[i] # t
                BY <1>1, <1>4, <2>1
            <4> QED BY <1>1, <3>1, <4>1
        <3>2. CASE u # t
            <4>1. ASSUME NEW i \in 1 .. Len(q1), q1[i] = u
                  PROVE  \E j \in 1 .. Len(q) : q[j] = u
                BY <1>1, <2>1, <4>1
            <4>2. ASSUME NEW i \in 1 .. Len(q), q[i] = u
                  PROVE  \E j \in 1 .. Len(q1) : q1[j] = u
                <5>1. CASE i < k
                    BY <1>1, <2>1, <4>2, <5>1
                <5>2. CASE i > k
                    <6>1. i - 1 \in 1 .. Len(q1) /\ q1[i - 1] = u
                        BY <1>1, <2>1, <4>2, <5>2
                    <6> QED BY <6>1
                <5>3. i # k
                    BY <2>1, <3>2, <4>2
                <5> QED BY <1>1, <5>1, <5>2, <5>3
            <4> QED BY <1>1, <1>4, <3>2, <4>1, <4>2
        <3> QED BY <3>1, <3>2
    <2>5. DOMAIN st1 = S
        BY <1>1
    <2> HIDE DEF st1
    <2>6. Sound(gone)
        BY <1>3, <2>2, <2>3, <2>4, <2>5 DEF Sound
    <2> QED BY <1>2, <2>6, NotifyOneSound DEF DropNotified, gone
<1> QED BY <1>6, <1>7

-----------------------------------------------------------------------------
(***************************************************************************)
(* Where a notification goes.                                              *)
(***************************************************************************)

\* The only future whose state notify_one() changes was waiting.
LEMMA NotifyOneStates ==
    ASSUME NEW S, NEW n \in NotifyType(S), Sound(n), NEW t \in S,
           n.st[t] # "waiting"
    PROVE  NotifyOne(n).st[t] = n.st[t]
<1>1. CASE n.queue = <<>>
    BY <1>1 DEF NotifyType, NotifyOne
<1>2. CASE n.queue # <<>>
    <2>1. /\ n.queue \in Seq(S) /\ n.st \in [S -> NotifiedStates]
          /\ NotifyOne(n).st = [n.st EXCEPT ![Head(n.queue)] = "one"]
        BY <1>2 DEF NotifyType, NotifyOne
    <2>2. 1 \in 1 .. Len(n.queue) /\ Head(n.queue) = n.queue[1]
        BY <1>2, <2>1
    <2>3. Head(n.queue) # t
        BY <2>1, <2>2 DEF Sound
    <2> QED BY <2>1, <2>3
<1> QED BY <1>1, <1>2

\* A notification is never lost: a waiter gets it, or the permit is stored.
LEMMA NotifyOneWakes ==
    ASSUME NEW S, NEW n \in NotifyType(S)
    PROVE  NotifyOne(n).permit \/ \E t \in S : NotifyOne(n).st[t] = "one"
<1>1. CASE n.queue = <<>>
    BY <1>1 DEF NotifyType, NotifyOne
<1>2. CASE n.queue # <<>>
    <2>1. /\ n.queue \in Seq(S) /\ n.st \in [S -> NotifiedStates]
          /\ NotifyOne(n).st = [n.st EXCEPT ![Head(n.queue)] = "one"]
        BY <1>2 DEF NotifyType, NotifyOne
    <2>2. Head(n.queue) \in S
        BY <1>2, <2>1, HeadTailProperties
    <2> QED BY <2>1, <2>2
<1> QED BY <1>1, <1>2

\* Nor is the one that a dropped future had been given.
LEMMA DropNotifiedWakes ==
    ASSUME NEW S, NEW n \in NotifyType(S), NEW t \in S, n.st[t] = "one"
    PROVE  \/ DropNotified(n, t).permit
           \/ \E u \in S : DropNotified(n, t).st[u] = "one"
<1> DEFINE gone == [n EXCEPT !.queue = Unlink(@, t), !.st[t] = "none"]
<1>1. gone \in NotifyType(S)
    BY UnlinkType DEF NotifyType, NotifiedStates
<1>2. DropNotified(n, t) = NotifyOne(gone)
    BY DEF DropNotified
<1> QED BY <1>1, <1>2, NotifyOneWakes

\* A future dropped without a notification only goes.
LEMMA DropNotifiedGoes ==
    ASSUME NEW S, NEW n \in NotifyType(S), NEW t \in S, n.st[t] # "one"
    PROVE  /\ DropNotified(n, t).permit = n.permit
           /\ DropNotified(n, t).queue # <<>> => n.queue # <<>>
           /\ DropNotified(n, t).st = [n.st EXCEPT ![t] = "none"]
<1> DEFINE gone == [n EXCEPT !.queue = Unlink(@, t), !.st[t] = "none"]
<1>1. DropNotified(n, t) = gone
    BY DEF DropNotified
<1>2. ToSet(<<>>) = {}
    BY DEF ToSet
<1>3. Unlink(<<>>, t) = <<>>
    BY <1>2 DEF Unlink
<1>4. /\ gone.permit = n.permit
      /\ gone.queue = Unlink(n.queue, t)
      /\ gone.st = [n.st EXCEPT ![t] = "none"]
    BY DEF NotifyType
<1> HIDE DEF gone
<1> QED BY <1>1, <1>3, <1>4

\* The future that is dropped is gone, and no other begins.
LEMMA DropNotifiedStates ==
    ASSUME NEW S, NEW n \in NotifyType(S), Sound(n), NEW t \in S
    PROVE  /\ DropNotified(n, t).st[t] = "none"
           /\ \A u \in S : n.st[u] = "none" => DropNotified(n, t).st[u] = "none"
<1> DEFINE gone == [n EXCEPT !.queue = Unlink(@, t), !.st[t] = "none"]
<1>a. n.st \in [S -> NotifiedStates]
    BY DEF NotifyType
<1>1. CASE n.st[t] # "one"
    <2>1. DropNotified(n, t).st = [n.st EXCEPT ![t] = "none"]
        BY <1>1, DropNotifiedGoes
    <2> QED BY <1>a, <2>1
<1>2. CASE n.st[t] = "one"
    <2>1. DropNotified(n, t) = NotifyOne(gone)
        BY <1>2 DEF DropNotified
    <2>2. gone \in NotifyType(S) /\ gone.st = [n.st EXCEPT ![t] = "none"]
        BY UnlinkType DEF NotifyType, NotifiedStates
    <2>3. n.queue \in Seq(S) /\ t \notin ToSet(n.queue)
        BY <1>2 DEF NotifyType, Sound, ToSet
    <2>4. gone.queue = n.queue /\ gone.permit = n.permit
        BY <2>3 DEF Unlink, NotifyType
    <2>5. Sound(gone)
        <3>1. n.st \in [S -> NotifiedStates] /\ gone.st = [n.st EXCEPT ![t] = "none"]
            BY <2>2 DEF NotifyType
        <3> HIDE DEF gone
        <3>2. \A u \in S : gone.st[u] = "waiting" <=> n.st[u] = "waiting"
            BY <1>2, <3>1
        <3>3. DOMAIN gone.st = S /\ DOMAIN n.st = S
            BY <3>1
        <3> QED BY <2>4, <3>2, <3>3 DEF Sound
    <2> HIDE DEF gone
    <2>6. ASSUME NEW u \in S, gone.st[u] = "none"
          PROVE  NotifyOne(gone).st[u] = "none"
        <3>1. gone.st[u] # "waiting"
            BY <2>6
        <3>a. gone \in NotifyType(S)
            BY <2>2
        <3>b. Sound(gone)
            BY <2>5
        <3>2. NotifyOne(gone).st[u] = gone.st[u]
            BY <3>a, <3>b, <3>1, NotifyOneStates
        <3> QED BY <2>6, <3>2
    <2> QED BY <1>a, <2>1, <2>2, <2>6
<1> QED BY <1>1, <1>2
=============================================================================
