-------------------------- MODULE PoolWakeups_proofs --------------------------
(***************************************************************************)
(* An open connection pool is never wedged, for any set of tasks and any   *)
(* size: a parked task never depends on its own deadline alone.            *)
(***************************************************************************)
EXTENDS LockFreePool_proofs

\* The list of parked tasks is sound, and only tasks at their await have a
\* Notified future.
Futures ==
    /\ Sound(nfy)
    /\ \A t \in Tasks : nfy.st[t] # "none" => pc[t] = "wait"

\* In acquire()'s loop, between its last look at the queue and its parking.
Seeking == {"check", "load", "cas"}

\* Owning a connection, about to look into the queue, or about to wake a task.
Engaged == OwnerPcs \cup {"pop", "discardNote", "freeNote", "woken"}

\* Somebody wants a connection and has found none so far.
Hungry ==
    \/ nfy.queue # <<>>
    \/ \E t \in Tasks : pc[t] \in Seeking \cup {"park"}
    \/ \E t \in Tasks : nfy.st[t] = "created"

\* Somebody will provide for it: by returning what it owns, by taking an idle
\* connection (and returning it), by passing a wake-up on, or, while there is
\* no idle connection that it might have missed, by creating one.
Busy ==
    \/ \E t \in Tasks : pc[t] \in Engaged
    \/ \E t \in Tasks : nfy.st[t] = "one"
    \/ idle = 0 /\ \E t \in Tasks : pc[t] \in Seeking

\* Unless a permit awaits the next task that parks, or a slot has leaked,
\* whoever is hungry is provided for.
Attended == ~closed /\ leaked = 0 /\ ~nfy.permit /\ Hungry => Busy

-----------------------------------------------------------------------------
\* What a jump does to the control points.
LEMMA JumpPcs ==
    ASSUME TypeOK, NEW t \in Tasks, NEW label, Jump(t, label)
    PROVE  \A u \in Tasks : pc'[u] = IF u = t THEN label ELSE pc[u]
BY DEF TypeOK, Jump

\* A jump of a task that is not at its await changes no future.
LEMMA JumpFutures ==
    ASSUME TypeOK, Futures, NEW t \in Tasks, pc[t] # "wait", NEW label,
           Jump(t, label), nfy' = nfy
    PROVE  Futures'
<1>1. \A u \in Tasks : pc'[u] = IF u = t THEN label ELSE pc[u]
    BY JumpPcs
<1>2. Sound(nfy)'
    BY DEF Futures
<1>3. \A u \in Tasks : nfy'.st[u] # "none" => pc'[u] = "wait"
    BY <1>1 DEF Futures
<1> QED BY <1>2, <1>3 DEF Futures

\* A task that leaves its await leaves no future behind.
LEMMA DropFutures ==
    ASSUME TypeOK, Futures, NEW t \in Tasks, NEW label, Jump(t, label),
           nfy' = DropNotified(nfy, t)
    PROVE  Futures'
<1>1. \A u \in Tasks : pc'[u] = IF u = t THEN label ELSE pc[u]
    BY JumpPcs
<1>2. nfy \in NotifyType(Tasks) /\ Sound(nfy)
    BY DEF TypeOK, Futures
<1>3. Sound(nfy')
    BY <1>2, DropNotifiedSound
<1>4. /\ nfy'.st[t] = "none"
      /\ \A u \in Tasks : nfy.st[u] = "none" => nfy'.st[u] = "none"
    BY <1>2, DropNotifiedStates
<1>5. \A u \in Tasks : nfy'.st[u] # "none" => pc'[u] = "wait"
    BY <1>1, <1>4 DEF Futures
<1> QED BY <1>3, <1>5 DEF Futures

\* Every step keeps the futures in order.
LEMMA FuturesStep ==
    ASSUME TypeOK, Futures, [Next]_vars
    PROVE  Futures'
<1>a. nfy \in NotifyType(Tasks) /\ Sound(nfy)
    BY DEF TypeOK, Futures
<1>b. nfy.st \in [Tasks -> NotifiedStates] /\ DOMAIN nfy.st = Tasks
    BY <1>a DEF NotifyType
<1>1. ASSUME NEW t \in Tasks,
             \/ Acquire(t) \/ FastPop(t) \/ CheckClosed(t) \/ LoseRace(t)
             \/ Reserve(t) \/ CreateOne(t) \/ Connected(t) \/ ConnectFailed(t)
      PROVE  Futures'
    <2>1. /\ pc[t] # "wait" /\ nfy' = nfy
          /\ \E label : Jump(t, label)
        BY <1>1 DEF Acquire, FastPop, Pop, CheckClosed, LoseRace, Reserve,
           CreateOne, Connected, ConnectFailed, Goto
    <2> QED BY <2>1, JumpFutures
<1>2. ASSUME NEW t \in Tasks, LoadSize(t)
      PROVE  Futures'
    <2>1. /\ pc[t] # "wait" /\ nfy' = nfy
          /\ \E label : Jump(t, label)
        BY <1>2 DEF LoadSize, ArmDeadline, Goto
    <2> QED BY <2>1, JumpFutures
<1>3. ASSUME NEW t \in Tasks,
             \/ WokenPop(t) \/ LastPop(t) \/ Push(t) \/ FreeSlot(t)
             \/ Release(t) \/ Take(t) \/ CancelCreate(t)
      PROVE  Futures'
    <2>1. /\ pc[t] # "wait" /\ nfy' = nfy
          /\ \E label : Jump(t, label)
        BY <1>3 DEF WokenPop, LastPop, Pop, Push, FreeSlot, Release, Take,
           CancelCreate, Goto
    <2> QED BY <2>1, JumpFutures
<1>4. ASSUME NEW t \in Tasks, Park(t)
      PROVE  Futures'
    <2>1. pc[t] = "park" /\ nfy' = Create(nfy, t) /\ Jump(t, "wait")
        BY <1>4 DEF Park, Goto
    <2>2. nfy.st[t] # "waiting"
        BY <2>1 DEF Futures
    <2>3. Sound(nfy')
        BY <1>a, <2>1, <2>2, UnregisteredSound
    <2>4. nfy'.st = [nfy.st EXCEPT ![t] = "created"]
        BY <1>a, <2>1 DEF Create, NotifyType
    <2>5. \A u \in Tasks : nfy'.st[u] # "none" => pc'[u] = "wait"
        BY <1>b, <2>1, <2>4, JumpPcs DEF Futures
    <2> QED BY <2>3, <2>5 DEF Futures
<1>5. ASSUME NEW t \in Tasks, Suspend(t)
      PROVE  Futures'
    <2>1. /\ pc[t] = "wait" /\ nfy.st[t] = "created" /\ ~nfy.permit
          /\ nfy' = Register(nfy, t) /\ pc' = pc
        BY <1>5 DEF Suspend, Ready
    <2>2. nfy.st[t] # "waiting"
        BY <2>1
    <2>3. Sound(nfy')
        BY <1>a, <2>1, <2>2, RegisterSound
    <2>4. nfy'.st = [nfy.st EXCEPT ![t] = "waiting"]
        BY <1>a, <2>1 DEF Register, NotifyType
    <2>5. \A u \in Tasks : nfy'.st[u] # "none" => pc'[u] = "wait"
        BY <1>b, <2>1, <2>4 DEF Futures
    <2> QED BY <2>3, <2>5 DEF Futures
<1>6. ASSUME NEW t \in Tasks, Woken(t)
      PROVE  Futures'
    <2>1. Ready(nfy, t) /\ nfy' = Consume(nfy, t) /\ Jump(t, "woken")
        BY <1>6 DEF Woken, Goto
    <2>2. nfy.st[t] # "waiting"
        BY <2>1 DEF Ready
    <2>3. Sound(nfy')
        BY <1>a, <2>1, <2>2, UnregisteredSound
    <2>4. nfy'.st = [nfy.st EXCEPT ![t] = "none"]
        BY <1>a, <2>1 DEF Consume, NotifyType
    <2>5. \A u \in Tasks : nfy'.st[u] # "none" => pc'[u] = "wait"
        BY <1>b, <2>1, <2>4, JumpPcs DEF Futures
    <2> QED BY <2>3, <2>5 DEF Futures
<1>7. ASSUME NEW t \in Tasks, TimedOut(t) \/ CancelWait(t)
      PROVE  Futures'
    <2>1. nfy' = DropNotified(nfy, t) /\ \E label : Jump(t, label)
        BY <1>7 DEF TimedOut, CancelWait, Goto
    <2> QED BY <2>1, DropFutures
<1>8. ASSUME NEW t \in Tasks, WakeOne(t)
      PROVE  Futures'
    <2>1. pc[t] # "wait" /\ nfy' = NotifyOne(nfy) /\ \E label : Jump(t, label)
        BY <1>8 DEF WakeOne, Goto
    <2>2. Sound(nfy')
        BY <1>a, <2>1, NotifyOneSound
    <2>3. ASSUME NEW u \in Tasks, nfy'.st[u] # "none"
          PROVE  pc'[u] = "wait"
        <3>1. nfy.st[u] # "none"
            <4>1. nfy.st[u] = "none" => nfy.st[u] # "waiting"
                OBVIOUS
            <4> QED BY <1>a, <2>1, <2>3, <4>1, NotifyOneStates
        <3> QED BY <2>1, <3>1, JumpPcs DEF Futures
    <2> QED BY <2>2, <2>3 DEF Futures
<1>9. ASSUME CloseNotify
      PROVE  Futures'
    <2>1. nfy' = NotifyWaiters(nfy) /\ pc' = pc
        BY <1>9 DEF CloseNotify
    <2>2. Sound(nfy')
        BY <1>a, <2>1, NotifyWaitersSound
    <2>3. \A u \in Tasks : nfy'.st[u] # "none" => nfy.st[u] # "none"
        BY <1>a, <1>b, <2>1 DEF NotifyWaiters, NotifyType
    <2> QED BY <2>1, <2>2, <2>3 DEF Futures
<1>10. ASSUME \/ \E t \in Tasks : Expire(t)
              \/ CloseStore \/ CloseDrain \/ CloseDec \/ UNCHANGED vars
       PROVE  Futures'
    <2>1. nfy' = nfy /\ pc' = pc
        BY <1>10 DEF Expire, CloseStore, CloseDrain, CloseDec, vars
    <2> QED BY <2>1 DEF Futures
<1> QED BY <1>1, <1>2, <1>3, <1>4, <1>5, <1>6, <1>7, <1>8, <1>9, <1>10
        DEF Next, Step, Outside, Close

-----------------------------------------------------------------------------
\* A task that comes to an engaged control point provides for the hungry.
LEMMA EngagedIsBusy ==
    ASSUME TypeOK, NEW t \in Tasks, NEW label \in Engaged, Jump(t, label)
    PROVE  Attended'
<1>1. pc'[t] \in Engaged
    BY JumpPcs
<1> QED BY <1>1 DEF Attended, Busy

\* So does one that has just found the queue empty.
LEMMA FoundEmptyIsBusy ==
    ASSUME TypeOK, NEW t \in Tasks, Jump(t, "check"), idle' = 0
    PROVE  Attended'
<1>1. pc'[t] \in Seeking
    BY JumpPcs DEF Seeking
<1> QED BY <1>1 DEF Attended, Busy

\* A saturated pool without an owner of a connection has idle ones.
LEMMA SaturatedHasIdle ==
    ASSUME IInv, ~closed, leaked = 0, ~HasRoom(size),
           \A t \in Tasks : pc[t] \notin OwnerPcs
    PROVE  idle # 0
<1>1. At(OwnerPcs) = {}
    BY DEF At
<1>2. Cardinality(At(OwnerPcs)) = 0
    BY <1>1, FS_EmptySet
<1> QED BY <1>2, SizeAssumption
        DEF IInv, TypeOK, SizeAccounting, Slots, HasRoom

\* A task on its way round the loop leaves the others as they are.
LEMMA SeekingStep ==
    ASSUME IInv, Attended, NEW t \in Tasks,
           CheckClosed(t) \/ LoseRace(t) \/ LoadSize(t)
    PROVE  Attended'
<1> SUFFICES ASSUME ~closed', leaked' = 0, ~nfy'.permit
             PROVE  Busy'
    BY DEF Attended
<1>1. /\ UNCHANGED <<closed, leaked, nfy, idle, size>>
      /\ pc[t] \in Seeking
    BY DEF CheckClosed, LoseRace, LoadSize, Seeking
<1>2. TypeOK /\ Busy
    BY <1>1 DEF IInv, Attended, Hungry
<1>3. \/ Jump(t, "load") \/ Jump(t, "check") \/ Jump(t, "cas")
      \/ ~HasRoom(size) /\ (Jump(t, "rest") \/ Jump(t, "park"))
    BY <1>1 DEF CheckClosed, LoseRace, LoadSize, ArmDeadline, Goto
<1>4. pc[t] \notin Engaged
    BY <1>1 DEF Seeking, Engaged, OwnerPcs, LivePcs
<1>5. CASE \E u \in Tasks : pc[u] \in Engaged
    <2>1. PICK u \in Tasks : pc[u] \in Engaged /\ u # t
        BY <1>4, <1>5
    <2>2. pc'[u] = pc[u]
        BY <1>2, <1>3, <2>1, JumpPcs
    <2> QED BY <2>1, <2>2 DEF Busy
<1>6. CASE \E u \in Tasks : nfy.st[u] = "one"
    BY <1>1, <1>6 DEF Busy
<1>7. CASE idle = 0 /\ \A u \in Tasks : pc[u] \notin Engaged
    <2>1. HasRoom(size)
        BY <1>1, <1>7, SaturatedHasIdle DEF Engaged
    <2>2. pc'[t] \in Seeking
        BY <1>2, <1>3, <2>1, JumpPcs DEF Seeking
    <2> QED BY <1>1, <1>7, <2>2 DEF Busy
<1> QED BY <1>2, <1>5, <1>6, <1>7 DEF Busy

\* A task that leaves the wait path, or gives up, was not the one to provide.
LEMMA LeavingStep ==
    ASSUME TypeOK, Attended, NEW t \in Tasks, NEW label, Jump(t, label),
           label \notin Seeking \cup {"park"}, pc[t] \notin Engaged \cup Seeking,
           nfy'.queue # <<>> => nfy.queue # <<>>, nfy'.permit = nfy.permit,
           \A u \in Tasks :
              /\ nfy'.st[u] = "created" => nfy.st[u] = "created"
              /\ nfy.st[u] = "one" => nfy'.st[u] = "one",
           UNCHANGED <<closed, leaked, idle>>
    PROVE  Attended'
<1> SUFFICES ASSUME ~closed', leaked' = 0, ~nfy'.permit, Hungry'
             PROVE  Busy'
    BY DEF Attended
<1>1. \A u \in Tasks : pc'[u] = IF u = t THEN label ELSE pc[u]
    BY JumpPcs
<1>2. Hungry
    BY <1>1 DEF Hungry
<1>3. Busy
    BY <1>2 DEF Attended
<1>4. \A u \in Tasks : pc[u] \in Engaged \cup Seeking => pc'[u] = pc[u]
    BY <1>1
<1> QED BY <1>3, <1>4 DEF Busy

\* Every step leaves the hungry attended.
LEMMA AttendedStep ==
    ASSUME IInv, Futures, Attended, [Next]_vars
    PROVE  Attended'
<1>a. TypeOK /\ nfy \in NotifyType(Tasks)
    BY DEF IInv, TypeOK
<1>b. nfy.st \in [Tasks -> NotifiedStates]
    BY <1>a DEF NotifyType
<1>1. ASSUME NEW t \in Tasks,
             \/ Acquire(t) \/ Reserve(t) \/ CreateOne(t) \/ Connected(t)
             \/ ConnectFailed(t) \/ Woken(t) \/ Push(t) \/ FreeSlot(t)
             \/ Release(t) \/ Take(t)
      PROVE  Attended'
    <2>1. \E label \in Engaged : Jump(t, label)
        BY <1>1 DEF Acquire, Reserve, CreateOne, Connected, ConnectFailed,
           Woken, Push, FreeSlot, Release, Take, Goto, Engaged, OwnerPcs, LivePcs
    <2> QED BY <1>a, <2>1, EngagedIsBusy
<1>2. ASSUME NEW t \in Tasks, FastPop(t) \/ WokenPop(t)
      PROVE  Attended'
    <2>1. \/ \E label \in Engaged : Jump(t, label)
          \/ Jump(t, "check") /\ idle' = 0
        BY <1>2 DEF FastPop, WokenPop, Pop, Goto, Engaged, OwnerPcs, LivePcs
    <2> QED BY <1>a, <2>1, EngagedIsBusy, FoundEmptyIsBusy
<1>3. ASSUME NEW t \in Tasks, CheckClosed(t) \/ LoseRace(t) \/ LoadSize(t)
      PROVE  Attended'
    BY <1>3, SeekingStep
<1>4. ASSUME NEW t \in Tasks, LastPop(t)
      PROVE  Attended'
    <2>1. \/ \E label \in Engaged : Jump(t, label)
          \/ Jump(t, "rest") /\ idle' = idle
        BY <1>4 DEF LastPop, Pop, Goto, Engaged, OwnerPcs, LivePcs
    <2>2. /\ pc[t] \notin Engaged \cup Seeking
          /\ "rest" \notin Seeking \cup {"park"}
          /\ UNCHANGED <<closed, leaked, nfy>>
        BY <1>4 DEF LastPop, Pop, Engaged, OwnerPcs, LivePcs, Seeking
    <2>3. CASE Jump(t, "rest") /\ idle' = idle
        BY <1>a, <2>2, <2>3, LeavingStep
    <2> QED BY <1>a, <2>1, <2>3, EngagedIsBusy
<1>5. ASSUME NEW t \in Tasks, Park(t)
      PROVE  Attended'
    <2> SUFFICES ASSUME ~closed', leaked' = 0, ~nfy'.permit
                 PROVE  Busy'
        BY DEF Attended
    <2>1. /\ pc[t] = "park" /\ Jump(t, "wait") /\ nfy' = Create(nfy, t)
          /\ UNCHANGED <<closed, leaked, idle>>
        BY <1>5 DEF Park, Goto
    <2>2. nfy'.st = [nfy.st EXCEPT ![t] = "created"] /\ nfy'.permit = nfy.permit
        BY <1>a, <2>1 DEF Create, NotifyType
    <2>3. Busy
        BY <2>1, <2>2 DEF Attended, Hungry
    <2>4. nfy.st[t] # "one"
        BY <2>1 DEF Futures
    <2>5. pc[t] \notin Engaged \cup Seeking
        BY <2>1 DEF Engaged, OwnerPcs, LivePcs, Seeking
    <2>6. \A u \in Tasks :
              /\ pc[u] \in Engaged \cup Seeking => pc'[u] = pc[u]
              /\ nfy.st[u] = "one" => nfy'.st[u] = "one"
        BY <1>a, <1>b, <2>1, <2>2, <2>4, <2>5, JumpPcs
    <2> QED BY <2>1, <2>3, <2>6 DEF Busy
<1>6. ASSUME NEW t \in Tasks, Suspend(t)
      PROVE  Attended'
    <2> SUFFICES ASSUME ~closed', leaked' = 0, ~nfy'.permit
                 PROVE  Busy'
        BY DEF Attended
    <2>1. /\ nfy.st[t] = "created" /\ nfy' = Register(nfy, t)
          /\ UNCHANGED <<pc, closed, leaked, idle>>
        BY <1>6 DEF Suspend
    <2>2. nfy'.st = [nfy.st EXCEPT ![t] = "waiting"] /\ nfy'.permit = nfy.permit
        BY <1>a, <2>1 DEF Register, NotifyType
    <2>3. Busy
        BY <2>1, <2>2 DEF Attended, Hungry
    <2>4. \A u \in Tasks : nfy.st[u] = "one" => nfy'.st[u] = "one"
        BY <1>b, <2>1, <2>2
    <2> QED BY <2>1, <2>3, <2>4 DEF Busy
<1>7. ASSUME NEW t \in Tasks, TimedOut(t) \/ CancelWait(t)
      PROVE  Attended'
    <2>1. /\ pc[t] = "wait" /\ nfy' = DropNotified(nfy, t)
          /\ Jump(t, "last") \/ Jump(t, "rest")
          /\ UNCHANGED <<closed, leaked, idle>>
        BY <1>7 DEF TimedOut, CancelWait, Goto
    <2>2. CASE nfy.st[t] = "one"
        BY <1>a, <2>1, <2>2, DropNotifiedWakes DEF Attended, Busy
    <2>3. CASE nfy.st[t] # "one"
        <3>1. /\ nfy'.permit = nfy.permit
              /\ nfy'.queue # <<>> => nfy.queue # <<>>
              /\ nfy'.st = [nfy.st EXCEPT ![t] = "none"]
            BY <1>a, <2>1, <2>3, DropNotifiedGoes
        <3>2. \A u \in Tasks :
                  /\ nfy'.st[u] = "created" => nfy.st[u] = "created"
                  /\ nfy.st[u] = "one" => nfy'.st[u] = "one"
            BY <1>b, <2>3, <3>1
        <3>3. /\ pc[t] \notin Engaged \cup Seeking
              /\ "rest" \notin Seeking \cup {"park"}
              /\ "last" \notin Seeking \cup {"park"}
            BY <2>1 DEF Engaged, OwnerPcs, LivePcs, Seeking
        <3> QED BY <1>a, <2>1, <3>1, <3>2, <3>3, LeavingStep
    <2> QED BY <2>2, <2>3
<1>8. ASSUME NEW t \in Tasks, WakeOne(t)
      PROVE  Attended'
    <2>1. nfy'.permit \/ \E u \in Tasks : nfy'.st[u] = "one"
        BY <1>a, <1>8, NotifyOneWakes DEF WakeOne
    <2> QED BY <2>1 DEF Attended, Busy
<1>9. ASSUME NEW t \in Tasks, CancelCreate(t)
      PROVE  Attended'
    <2>1. leaked' # 0
        BY <1>a, <1>9 DEF TypeOK, CancelCreate
    <2> QED BY <2>1 DEF Attended
<1>10. ASSUME Close
       PROVE  Attended'
    <2>1. closed'
        BY <1>10 DEF Close, CloseStore, CloseNotify, CloseDrain, CloseDec, IInv,
           CloserKnowsClosed
    <2> QED BY <2>1 DEF Attended
<1>11. ASSUME (\E t \in Tasks : Expire(t)) \/ UNCHANGED vars
       PROVE  Attended'
    <2>1. UNCHANGED <<closed, leaked, nfy, idle, pc>>
        BY <1>11 DEF Expire, vars
    <2> QED BY <2>1 DEF Attended, Hungry, Busy
<1> QED BY <1>1, <1>2, <1>3, <1>4, <1>5, <1>6, <1>7, <1>8, <1>9, <1>10, <1>11
        DEF Next, Step, Outside

-----------------------------------------------------------------------------
(***************************************************************************)
(* The invariant of the wait path, on top of that of the counter: without  *)
(* the counter a task that finds the pool saturated could not conclude     *)
(* that somebody has a connection, or that one is idle.                    *)
(***************************************************************************)
WInv == IInv /\ Futures /\ Attended

\* A new pool satisfies it.
LEMMA WakeInit == Init => WInv
<1> SUFFICES ASSUME Init
             PROVE  WInv
    OBVIOUS
<1>1. nfy.queue = <<>> /\ \A t \in Tasks : nfy.st[t] = "none" /\ pc[t] = "rest"
    BY DEF Init, NewNotify
<1>2. Futures
    BY <1>1, NewNotifySound DEF Init, Futures
<1>3. ~Hungry
    BY <1>1 DEF Hungry, Seeking
<1> QED BY <1>2, <1>3, InvInit DEF WInv, Attended

\* The invariant holds throughout.
LEMMA WakeInvariance == Spec => []WInv
<1>1. WInv /\ [Next]_vars => WInv'
    BY InvStep, FuturesStep, AttendedStep DEF WInv, IInv
<1> QED BY <1>1, WakeInit, PTL DEF Spec

\* An open pool is never wedged: while a task sleeps and no creation was
\* cancelled, some other task is awake in the pool or holds a connection.
THEOREM NeverWedgedEver == Spec => []NeverWedged
<1>1. WInv => NeverWedged
    <2> SUFFICES ASSUME WInv, ~closed, leaked = 0, nfy.queue # <<>>
                 PROVE  \E t \in Tasks : pc[t] # "rest" /\ nfy.st[t] # "waiting"
        BY DEF NeverWedged
    <2>1. ~nfy.permit
        BY DEF WInv, Futures, Sound
    <2>2. Busy
        BY <2>1 DEF WInv, Attended, Hungry
    <2>3. CASE \E t \in Tasks : nfy.st[t] = "one"
        <3>1. PICK t \in Tasks : nfy.st[t] = "one"
            BY <2>3
        <3>2. pc[t] = "wait"
            BY <3>1 DEF WInv, Futures
        <3> QED BY <3>1, <3>2
    <2>4. CASE \E t \in Tasks : pc[t] \in Engaged \cup Seeking
        <3>1. PICK t \in Tasks : pc[t] \in Engaged \cup Seeking
            BY <2>4
        <3>2. pc[t] # "rest" /\ pc[t] # "wait"
            BY <3>1 DEF Engaged, OwnerPcs, LivePcs, Seeking
        <3>3. nfy.st[t] = "none"
            BY <3>2 DEF WInv, Futures
        <3> QED BY <3>2, <3>3
    <2> QED BY <2>2, <2>3, <2>4 DEF Busy
<1> QED BY <1>1, WakeInvariance, PTL

-----------------------------------------------------------------------------
(***************************************************************************)
(* A pool of one connection: it never lies idle while a task sleeps.  Two  *)
(* connections are one too many: the permit stands for a single return.    *)
(***************************************************************************)
NotePcs == {"discardNote", "freeNote", "woken"}
HungryPcs == Seeking \cup {"park"}

\* A wake-up is on its way to somebody, or has just been received.
Alerted ==
    \/ \E t \in Tasks : pc[t] \in NotePcs
    \/ \E t \in Tasks : nfy.st[t] = "one"

\* Whoever found the queue empty has the wake-up for what has come since.
Heard == ~closed /\ idle # 0 /\ ~nfy.permit /\ Hungry => Alerted

\* A jump that starts no search and takes no wake-up away.
LEMMA QuietJump ==
    ASSUME TypeOK, Heard, NEW t \in Tasks, NEW label, Jump(t, label),
           pc[t] \notin NotePcs, label \in HungryPcs => pc[t] \in HungryPcs,
           nfy'.queue # <<>> => nfy.queue # <<>>, nfy'.permit = nfy.permit,
           \A u \in Tasks :
              /\ nfy'.st[u] = "created" =>
                    nfy.st[u] = "created" \/ pc[u] \in HungryPcs
              /\ nfy.st[u] = "one" => nfy'.st[u] = "one",
           closed' = closed, idle' = idle
    PROVE  Heard'
<1> SUFFICES ASSUME ~closed', idle' # 0, ~nfy'.permit, Hungry'
             PROVE  Alerted'
    BY DEF Heard
<1>1. \A u \in Tasks : pc'[u] = IF u = t THEN label ELSE pc[u]
    BY JumpPcs
<1>2. Hungry
    BY <1>1 DEF Hungry, HungryPcs
<1>3. Alerted
    BY <1>2 DEF Heard
<1>4. \A u \in Tasks : pc[u] \in NotePcs => pc'[u] = pc[u]
    BY <1>1
<1> QED BY <1>3, <1>4 DEF Alerted

\* A task that comes to a wake-up's control point has it.
LEMMA NoteIsHeard ==
    ASSUME TypeOK, NEW t \in Tasks, NEW label \in NotePcs, Jump(t, label)
    PROVE  Heard'
<1>1. pc'[t] \in NotePcs
    BY JumpPcs
<1> QED BY <1>1 DEF Heard, Alerted

\* Every step of a pool of one connection keeps the wake-up on its way.
LEMMA HeardStep ==
    ASSUME MaxSize = 1, IInv, Futures, Heard, [Next]_vars
    PROVE  Heard'
<1>a. TypeOK /\ nfy \in NotifyType(Tasks)
    BY DEF IInv, TypeOK
<1>b. nfy.st \in [Tasks -> NotifiedStates]
    BY <1>a DEF NotifyType
<1>c. idle \in {0, 1}
    BY <1>a DEF TypeOK
<1>1. ASSUME NEW t \in Tasks, FastPop(t) \/ WokenPop(t) \/ LastPop(t)
      PROVE  Heard'
    <2>1. idle' = 0
        BY <1>c, <1>1 DEF FastPop, WokenPop, LastPop, Pop
    <2> QED BY <2>1 DEF Heard
<1>2. ASSUME NEW t \in Tasks,
             \/ Acquire(t) \/ CheckClosed(t) \/ LoadSize(t) \/ Reserve(t)
             \/ LoseRace(t) \/ CreateOne(t) \/ Connected(t) \/ ConnectFailed(t)
             \/ Release(t) \/ Take(t) \/ CancelCreate(t)
      PROVE  Heard'
    <2>1. /\ pc[t] \notin NotePcs
          /\ UNCHANGED <<closed, idle, nfy>>
          /\ \E label : Jump(t, label) /\ (label \in HungryPcs => pc[t] \in HungryPcs)
        BY <1>2 DEF Acquire, CheckClosed, LoadSize, ArmDeadline, Reserve, LoseRace,
           CreateOne, Connected, ConnectFailed, Release, Take, CancelCreate, Goto,
           NotePcs, HungryPcs, Seeking
    <2> QED BY <1>a, <2>1, QuietJump
<1>3. ASSUME NEW t \in Tasks, Push(t)
      PROVE  Heard'
    <2>1. CASE Jump(t, "freeNote")
        BY <1>a, <2>1, NoteIsHeard DEF NotePcs
    <2>2. CASE idle' = idle /\ Jump(t, "free")
        <3>1. /\ pc[t] \notin NotePcs /\ "free" \notin HungryPcs
              /\ UNCHANGED <<closed, nfy>>
            BY <1>3 DEF Push, NotePcs, HungryPcs, Seeking
        <3> QED BY <1>a, <2>2, <3>1, QuietJump
    <2> QED BY <1>3, <2>1, <2>2 DEF Push, Goto
<1>4. ASSUME NEW t \in Tasks, FreeSlot(t) \/ Woken(t)
      PROVE  Heard'
    <2>1. \E label \in NotePcs : Jump(t, label)
        BY <1>4 DEF FreeSlot, Woken, Goto, NotePcs
    <2> QED BY <1>a, <2>1, NoteIsHeard
<1>5. ASSUME NEW t \in Tasks, WakeOne(t)
      PROVE  Heard'
    <2>1. nfy'.permit \/ \E u \in Tasks : nfy'.st[u] = "one"
        BY <1>a, <1>5, NotifyOneWakes DEF WakeOne
    <2> QED BY <2>1 DEF Heard, Alerted
<1>6. ASSUME NEW t \in Tasks, Park(t)
      PROVE  Heard'
    <2>1. /\ pc[t] = "park" /\ Jump(t, "wait") /\ nfy' = Create(nfy, t)
          /\ UNCHANGED <<closed, idle>>
        BY <1>6 DEF Park, Goto
    <2>2. /\ nfy'.st = [nfy.st EXCEPT ![t] = "created"]
          /\ nfy'.permit = nfy.permit /\ nfy'.queue = nfy.queue
        BY <1>a, <2>1 DEF Create, NotifyType
    <2>3. nfy.st[t] # "one"
        BY <2>1 DEF Futures
    <2>4. \A u \in Tasks :
              /\ nfy'.st[u] = "created" => nfy.st[u] = "created" \/ pc[u] \in HungryPcs
              /\ nfy.st[u] = "one" => nfy'.st[u] = "one"
        BY <1>b, <2>1, <2>2, <2>3 DEF HungryPcs
    <2>5. pc[t] \notin NotePcs /\ "wait" \notin HungryPcs
        BY <2>1 DEF NotePcs, HungryPcs, Seeking
    <2> QED BY <1>a, <2>1, <2>2, <2>4, <2>5, QuietJump
<1>7. ASSUME NEW t \in Tasks, Suspend(t)
      PROVE  Heard'
    <2> SUFFICES ASSUME ~closed', idle' # 0, ~nfy'.permit
                 PROVE  Alerted'
        BY DEF Heard
    <2>1. /\ nfy.st[t] = "created" /\ nfy' = Register(nfy, t)
          /\ UNCHANGED <<pc, closed, idle>>
        BY <1>7 DEF Suspend
    <2>2. nfy'.st = [nfy.st EXCEPT ![t] = "waiting"] /\ nfy'.permit = nfy.permit
        BY <1>a, <2>1 DEF Register, NotifyType
    <2>3. Alerted
        BY <2>1, <2>2 DEF Heard, Hungry
    <2>4. \A u \in Tasks : nfy.st[u] = "one" => nfy'.st[u] = "one"
        BY <1>b, <2>1, <2>2
    <2> QED BY <2>1, <2>3, <2>4 DEF Alerted
<1>8. ASSUME NEW t \in Tasks, TimedOut(t) \/ CancelWait(t)
      PROVE  Heard'
    <2>1. /\ pc[t] = "wait" /\ nfy' = DropNotified(nfy, t)
          /\ Jump(t, "last") \/ Jump(t, "rest")
          /\ UNCHANGED <<closed, idle>>
        BY <1>8 DEF TimedOut, CancelWait, Goto
    <2>2. CASE nfy.st[t] = "one"
        BY <1>a, <2>1, <2>2, DropNotifiedWakes DEF Heard, Alerted
    <2>3. CASE nfy.st[t] # "one"
        <3>1. /\ nfy'.permit = nfy.permit
              /\ nfy'.queue # <<>> => nfy.queue # <<>>
              /\ nfy'.st = [nfy.st EXCEPT ![t] = "none"]
            BY <1>a, <2>1, <2>3, DropNotifiedGoes
        <3>2. \A u \in Tasks :
                  /\ nfy'.st[u] = "created" => nfy.st[u] = "created"
                  /\ nfy.st[u] = "one" => nfy'.st[u] = "one"
            BY <1>b, <2>3, <3>1
        <3>3. /\ pc[t] \notin NotePcs
              /\ "rest" \notin HungryPcs /\ "last" \notin HungryPcs
            BY <2>1 DEF NotePcs, HungryPcs, Seeking
        <3> QED BY <1>a, <2>1, <3>1, <3>2, <3>3, QuietJump
    <2> QED BY <2>2, <2>3
<1>9. ASSUME Close
      PROVE  Heard'
    <2>1. closed'
        BY <1>9 DEF Close, CloseStore, CloseNotify, CloseDrain, CloseDec, IInv,
           CloserKnowsClosed
    <2> QED BY <2>1 DEF Heard
<1>10. ASSUME (\E t \in Tasks : Expire(t)) \/ UNCHANGED vars
       PROVE  Heard'
    <2>1. UNCHANGED <<closed, nfy, idle, pc>>
        BY <1>10 DEF Expire, vars
    <2> QED BY <2>1 DEF Heard, Hungry, Alerted
<1> QED BY <1>1, <1>2, <1>3, <1>4, <1>5, <1>6, <1>7, <1>8, <1>9, <1>10
        DEF Next, Step, Outside

\* A pool of one connection parks nobody beside it: while a task sleeps and the
\* connection is idle, the wake-up for it is on its way.
THEOREM OneConnectionIsNeverMissed ==
    ASSUME MaxSize = 1
    PROVE  Spec => []NoIdleWhileAsleep
<1>1. Init => Heard
    BY DEF Init, Heard
<1>2. WInv /\ Heard /\ [Next]_vars => Heard'
    BY HeardStep DEF WInv
<1>3. WInv /\ Heard => NoIdleWhileAsleep
    <2> SUFFICES ASSUME WInv, Heard, ~closed, nfy.queue # <<>>
                 PROVE  Cardinality(WakesInFlight) >= idle
        BY DEF NoIdleWhileAsleep
    <2>1. idle \in {0, 1} /\ IsFiniteSet(Tasks)
        BY TasksAssumption DEF WInv, IInv, TypeOK
    <2>2. PICK W : W = WakesInFlight
        OBVIOUS
    <2>3. IsFiniteSet(W) /\ Cardinality(W) \in Nat
        BY <2>1, <2>2, FS_Subset, FS_CardinalityType DEF WakesInFlight
    <2>4. idle = 1 => W # {}
        <3>1. idle # 0 => Alerted
            BY DEF WInv, Futures, Sound, Heard, Hungry
        <3>2. \A t \in Tasks : nfy.st[t] = "one" => pc[t] = "wait"
            BY DEF WInv, Futures
        <3> QED BY <2>2, <3>1, <3>2 DEF Alerted, NotePcs, WakesInFlight
    <2>5. idle = 1 => Cardinality(W) # 0
        BY <2>3, <2>4, FS_EmptySet
    <2> QED BY <2>1, <2>2, <2>3, <2>5
<1> QED BY <1>1, <1>2, <1>3, WakeInvariance, PTL DEF Spec
=============================================================================
