---------------------------- MODULE LockFreePool ----------------------------
(***************************************************************************)
(* The connection pool of src/lockfree_pool.rs: an atomic connection count,*)
(* a bounded lock-free queue of idle connections, a closed flag and a      *)
(* tokio Notify on which saturated acquirers park.                         *)
(*                                                                         *)
(* Each action is one atomic access to the shared state, in the program    *)
(* order of acquire(), create_one(), return_conn() (the drop of a          *)
(* PooledConnection), take() and close(), so the interleavings are those   *)
(* of the tasks of a multi-threaded tokio runtime.  A connection is        *)
(* represented only by the place that accounts for it: the idle queue, or  *)
(* the task whose control point says that it owns one.  Whether a popped   *)
(* connection still validates is the environment's choice.                 *)
(*                                                                         *)
(* An operator named Faulty... is the definition after it with a plausible *)
(* bug in it.  No specification uses one: they show what the properties    *)
(* would catch.                                                            *)
(***************************************************************************)
EXTENDS Integers, FiniteSets, TokioNotify

CONSTANTS
    Tasks,        \* request handlers that use the pool
    MaxSize,      \* PoolConfig::max_size
    SizeModulus,  \* the counter is a u32: 2^32 in the program
    MayClose,     \* whether close() is called during the behaviour
    MaxLeaks      \* bound: cancelled creations considered

ASSUME TasksAssumption == IsFiniteSet(Tasks)
ASSUME SizeAssumption ==
    /\ MaxSize \in Nat \ {0}
    /\ SizeModulus \in Nat
    /\ MaxSize < SizeModulus
ASSUME OptionsAssumption ==
    /\ MayClose \in BOOLEAN
    /\ MaxLeaks \in Nat

VARIABLES
    waitZero,  \* configuration: wait_timeout == Duration::ZERO
    size,      \* AlignedSize: connections that exist or are being created
    closed,    \* AlignedClosed.closed
    idle,      \* number of connections in the ArrayQueue
    pc,        \* control point of each task
    cur,       \* the local `current` of acquire()'s loop
    deadline,  \* the local `deadline` of acquire(): None, ahead or behind
    nfy,       \* PoolInner.notify
    leaked,    \* slots whose owner was cancelled during the creation
    closer     \* control point of the task that calls close()

pool == <<size, closed, idle, pc, cur, deadline, nfy, leaked, closer>>
vars ==
    <<waitZero, size, closed, idle, pc, cur, deadline, nfy, leaked, closer>>

-----------------------------------------------------------------------------
(***************************************************************************)
(* Control points.  "rest" is outside the pool, "held" is owning a         *)
(* PooledConnection; the others name the access that comes next.  The      *)
(* fetch_sub/notify_one pair that gives a slot back occurs twice:          *)
(* "discard" continues in acquire()'s loop, "free" ends the operation.     *)
(***************************************************************************)
LoopPcs == {"check", "load", "cas", "park", "wait", "woken",
            "discard", "discardNote"}
Pcs == LoopPcs \cup {"rest", "pop", "create", "opening", "last", "held",
                     "return", "free", "freeNote"}

\* Tasks with a connection, or with one on its way.
LivePcs == {"opening", "held", "return"}
\* Tasks that a slot of `size` stands for.
OwnerPcs == LivePcs \cup {"create", "discard", "free"}

At(labels) == {t \in Tasks : pc[t] \in labels}
Live == idle + Cardinality(At(LivePcs))
Slots == idle + Cardinality(At(OwnerPcs)) + leaked

Jump(t, label) == pc' = [pc EXCEPT ![t] = label]

\* `deadline` is a local of acquire(): it goes when the loop is left.
Goto(t, label) ==
    /\ Jump(t, label)
    /\ deadline' = IF label \in LoopPcs
                   THEN deadline
                   ELSE [deadline EXCEPT ![t] = "none"]

\* fetch_sub(1) on the u32.
Decremented == IF size = 0 THEN SizeModulus - 1 ELSE size - 1

Init ==
    /\ waitZero \in BOOLEAN
    /\ size = 0
    /\ closed = FALSE
    /\ idle = 0
    /\ pc = [t \in Tasks |-> "rest"]
    /\ cur = [t \in Tasks |-> 0]
    /\ deadline = [t \in Tasks |-> "none"]
    /\ nfy = NewNotify(Tasks)
    /\ leaked = 0
    /\ closer = "open"

-----------------------------------------------------------------------------
(***************************************************************************)
(* acquire()                                                               *)
(***************************************************************************)

\* A closed pool answers Err(Closed) at once.
Acquire(t) ==
    /\ pc[t] = "rest"
    /\ ~closed
    /\ Goto(t, "pop")
    /\ UNCHANGED <<size, closed, idle, cur, nfy, leaked, closer>>

\* Pop and validate: keep the connection, discard it, or find the queue empty.
\* The popped connection is private, so the two are one step.
Pop(t, empty, invalid) ==
    /\ \/ /\ idle > 0
          /\ idle' = idle - 1
          /\ \/ Goto(t, "held")
             \/ Goto(t, invalid)
       \/ /\ idle = 0
          /\ idle' = idle
          /\ Goto(t, empty)
    /\ UNCHANGED <<size, closed, cur, nfy, leaked, closer>>

FastPop(t) == pc[t] = "pop" /\ Pop(t, "check", "discard")

CheckClosed(t) ==
    /\ pc[t] = "check"
    /\ Goto(t, IF closed THEN "rest" ELSE "load")
    /\ UNCHANGED <<size, closed, idle, cur, nfy, leaked, closer>>

\* The clock restarts on every pass that finds the pool saturated.
FaultyArmDeadline(t) ==
    /\ Jump(t, "park")
    /\ deadline' = [deadline EXCEPT ![t] = "armed"]

\* Option::get_or_insert_with: the first pass that finds the pool saturated
\* anchors the deadline, the later ones keep it.
ArmDeadline(t) ==
    /\ Jump(t, "park")
    /\ deadline' = IF deadline[t] = "none"
                   THEN [deadline EXCEPT ![t] = "armed"]
                   ELSE deadline

\* A pool that counts one connection too many.
FaultyHasRoom(n) == n <= MaxSize

HasRoom(n) == n < MaxSize

\* wait_timeout == Duration::ZERO: a saturated pool answers Err(Timeout) now.
AtOnce == waitZero

LoadSize(t) ==
    /\ pc[t] = "load"
    /\ \/ /\ HasRoom(size)
          /\ cur' = [cur EXCEPT ![t] = size]
          /\ Goto(t, "cas")
       \/ /\ ~HasRoom(size)
          /\ AtOnce
          /\ Goto(t, "rest")
          /\ UNCHANGED cur
       \/ /\ ~HasRoom(size)
          /\ ~AtOnce
          /\ ArmDeadline(t)
          /\ UNCHANGED cur
    /\ UNCHANGED <<size, closed, idle, nfy, leaked, closer>>

\* A plain store in place of the compare-and-exchange.
FaultyReserve(t) ==
    /\ pc[t] = "cas"
    /\ size' = cur[t] + 1
    /\ cur' = [cur EXCEPT ![t] = 0]
    /\ Goto(t, "create")
    /\ UNCHANGED <<closed, idle, nfy, leaked, closer>>

\* compare_exchange_weak(current, current + 1): success.
Reserve(t) ==
    /\ pc[t] = "cas"
    /\ size = cur[t]
    /\ size' = cur[t] + 1
    /\ cur' = [cur EXCEPT ![t] = 0]
    /\ Goto(t, "create")
    /\ UNCHANGED <<closed, idle, nfy, leaked, closer>>

\* compare_exchange_weak: another value was found, or it failed spuriously.
LoseRace(t) ==
    /\ pc[t] = "cas"
    /\ cur' = [cur EXCEPT ![t] = 0]
    /\ Goto(t, "check")
    /\ UNCHANGED <<size, closed, idle, nfy, leaked, closer>>

\* create_one() without its look at the closed flag.
FaultyCreateOne(t) ==
    /\ pc[t] = "create"
    /\ Goto(t, "opening")
    /\ UNCHANGED <<size, closed, idle, cur, nfy, leaked, closer>>

\* create_one(): on a closed pool it gives the slot back itself; its caller's
\* Err arm then gives it back a second time.
CreateOne(t) ==
    /\ pc[t] = "create"
    /\ IF closed
       THEN size' = Decremented /\ Goto(t, "free")
       ELSE size' = size /\ Goto(t, "opening")
    /\ UNCHANGED <<closed, idle, cur, nfy, leaked, closer>>

Connected(t) ==
    /\ pc[t] = "opening"
    /\ Goto(t, "held")
    /\ UNCHANGED <<size, closed, idle, cur, nfy, leaked, closer>>

\* The Err arm returns without releasing the slot.
FaultyConnectFailed(t) ==
    /\ pc[t] = "opening"
    /\ Goto(t, "freeNote")
    /\ UNCHANGED <<size, closed, idle, cur, nfy, leaked, closer>>

\* The connection attempt failed, or ran into create_timeout.
ConnectFailed(t) ==
    /\ pc[t] = "opening"
    /\ Goto(t, "free")
    /\ UNCHANGED <<size, closed, idle, cur, nfy, leaked, closer>>

-----------------------------------------------------------------------------
(***************************************************************************)
(* acquire(): the wait path.  select! polls its two branches in a random   *)
(* order, so a task that is both woken and late may take either.           *)
(***************************************************************************)
Park(t) ==
    /\ pc[t] = "park"
    /\ nfy' = Create(nfy, t)
    /\ Goto(t, "wait")
    /\ UNCHANGED <<size, closed, idle, cur, leaked, closer>>

\* The first poll finds nothing: the task suspends.
Suspend(t) ==
    /\ pc[t] = "wait"
    /\ nfy.st[t] = "created"
    /\ ~Ready(nfy, t)
    /\ nfy' = Register(nfy, t)
    /\ UNCHANGED <<size, closed, idle, pc, cur, deadline, leaked, closer>>

Woken(t) ==
    /\ pc[t] = "wait"
    /\ Ready(nfy, t)
    /\ nfy' = Consume(nfy, t)
    /\ Goto(t, "woken")
    /\ UNCHANGED <<size, closed, idle, cur, leaked, closer>>

\* The clock passes the deadline of a task.
Expire(t) ==
    /\ deadline[t] = "armed"
    /\ deadline' = [deadline EXCEPT ![t] = "passed"]
    /\ UNCHANGED <<size, closed, idle, pc, cur, nfy, leaked, closer>>

TimedOut(t) ==
    /\ pc[t] = "wait"
    /\ deadline[t] = "passed"
    /\ nfy' = DropNotified(nfy, t)
    /\ Goto(t, "last")
    /\ UNCHANGED <<size, closed, idle, cur, leaked, closer>>

WokenPop(t) == pc[t] = "woken" /\ Pop(t, "check", "discard")

\* "One last retry before giving up": Err(Timeout) when the queue is empty.
LastPop(t) == pc[t] = "last" /\ Pop(t, "rest", "free")

-----------------------------------------------------------------------------
(***************************************************************************)
(* The end of a loan: drop of a PooledConnection, and take().              *)
(***************************************************************************)

\* return_conn() begins by reading the closed flag.
Release(t) ==
    /\ pc[t] = "held"
    /\ Goto(t, IF closed THEN "free" ELSE "return")
    /\ UNCHANGED <<size, closed, idle, cur, nfy, leaked, closer>>

\* The connection is pushed and nobody is told.
FaultyPush(t) ==
    /\ pc[t] = "return"
    /\ IF idle < MaxSize
       THEN idle' = idle + 1 /\ Goto(t, "rest")
       ELSE idle' = idle /\ Goto(t, "free")
    /\ UNCHANGED <<size, closed, cur, nfy, leaked, closer>>

\* ArrayQueue::push; a full queue hands the connection back and it is dropped.
Push(t) ==
    /\ pc[t] = "return"
    /\ IF idle < MaxSize
       THEN idle' = idle + 1 /\ Goto(t, "freeNote")
       ELSE idle' = idle /\ Goto(t, "free")
    /\ UNCHANGED <<size, closed, cur, nfy, leaked, closer>>

\* take(): the connection leaves the pool with the caller.
Take(t) ==
    /\ pc[t] = "held"
    /\ Goto(t, "free")
    /\ UNCHANGED <<size, closed, idle, cur, nfy, leaked, closer>>

\* The slot is given back and no waiter is told that it may create.
FaultyFreeSlot(t) ==
    /\ size' = Decremented
    /\ \/ pc[t] = "discard" /\ Goto(t, "check")
       \/ pc[t] = "free" /\ Goto(t, "rest")
    /\ UNCHANGED <<closed, idle, cur, nfy, leaked, closer>>

\* size.fetch_sub(1) ...
FreeSlot(t) ==
    /\ size' = Decremented
    /\ \/ pc[t] = "discard" /\ Goto(t, "discardNote")
       \/ pc[t] = "free" /\ Goto(t, "freeNote")
    /\ UNCHANGED <<closed, idle, cur, nfy, leaked, closer>>

\* ... and then notify.notify_one().
WakeOne(t) ==
    /\ nfy' = NotifyOne(nfy)
    /\ \/ pc[t] = "discardNote" /\ Goto(t, "check")
       \/ pc[t] = "freeNote" /\ Goto(t, "rest")
    /\ UNCHANGED <<size, closed, idle, cur, leaked, closer>>

-----------------------------------------------------------------------------
(***************************************************************************)
(* Cancellation: the future of acquire() is dropped at an await, as when   *)
(* an HTTP client goes away.  The wait path cleans up through the drop of  *)
(* Notified; a creation in progress has no owner left to release its slot. *)
(***************************************************************************)
CancelWait(t) ==
    /\ pc[t] = "wait"
    /\ nfy.st[t] \in {"waiting", "one", "all"}
    /\ nfy' = DropNotified(nfy, t)
    /\ Goto(t, "rest")
    /\ UNCHANGED <<size, closed, idle, cur, leaked, closer>>

CancelCreate(t) ==
    /\ pc[t] = "opening"
    /\ leaked < MaxLeaks
    /\ leaked' = leaked + 1
    /\ Goto(t, "rest")
    /\ UNCHANGED <<size, closed, idle, cur, nfy, closer>>

(***************************************************************************)
(* close(): store the flag, wake the waiters, drain the queue.             *)
(***************************************************************************)
CloseStore ==
    /\ closer = "open"
    /\ MayClose
    /\ closed' = TRUE
    /\ closer' = "notify"
    /\ UNCHANGED <<size, idle, pc, cur, deadline, nfy, leaked>>

CloseNotify ==
    /\ closer = "notify"
    /\ nfy' = NotifyWaiters(nfy)
    /\ closer' = "drain"
    /\ UNCHANGED <<size, closed, idle, pc, cur, deadline, leaked>>

CloseDrain ==
    /\ closer = "drain"
    /\ IF idle > 0
       THEN idle' = idle - 1 /\ closer' = "dec"
       ELSE idle' = idle /\ closer' = "done"
    /\ UNCHANGED <<size, closed, pc, cur, deadline, nfy, leaked>>

CloseDec ==
    /\ closer = "dec"
    /\ size' = Decremented
    /\ closer' = "drain"
    /\ UNCHANGED <<closed, idle, pc, cur, deadline, nfy, leaked>>

-----------------------------------------------------------------------------
\* The steps a task takes by itself once acquire() or a return has begun.
Step(t) ==
    \/ FastPop(t) \/ CheckClosed(t) \/ LoadSize(t)
    \/ Reserve(t) \/ LoseRace(t) \/ CreateOne(t)
    \/ Connected(t) \/ ConnectFailed(t)
    \/ Park(t) \/ Suspend(t) \/ Woken(t) \/ TimedOut(t)
    \/ WokenPop(t) \/ LastPop(t)
    \/ Push(t) \/ FreeSlot(t) \/ WakeOne(t)

\* The steps its surroundings decide: the caller, the clock, the client.
Outside(t) ==
    \/ Acquire(t) \/ Release(t) \/ Take(t)
    \/ Expire(t) \/ CancelWait(t) \/ CancelCreate(t)

Close == CloseStore \/ CloseNotify \/ CloseDrain \/ CloseDec

Next ==
    /\ (\E t \in Tasks : Step(t) \/ Outside(t)) \/ Close
    /\ UNCHANGED waitZero

Spec == Init /\ [][Next]_vars

(***************************************************************************)
(* Fairness.  The runtime polls every ready task and the clock advances,   *)
(* so both are weakly fair; the connection attempt is bounded by           *)
(* create_timeout.  Strong fairness on TimedOut is select!'s random order; *)
(* on Reserve it is the chance that a retried compare-and-exchange wins.   *)
(* Nothing obliges a caller to return its connection.                      *)
(***************************************************************************)
Fairness ==
    \A t \in Tasks :
        /\ WF_pool(Step(t))
        /\ WF_pool(Expire(t))
        /\ SF_pool(TimedOut(t))
        /\ SF_pool(Reserve(t))

FairSpec == Spec /\ Fairness

(***************************************************************************)
(* Fairness for the hand-off alone: callers do return their connections,   *)
(* and no deadline ever passes by obligation, so a sleeper that gets up    *)
(* owes it to another task.                                                *)
(***************************************************************************)
HandoffSpec ==
    /\ Spec
    /\ \A t \in Tasks :
          WF_pool(Step(t)) /\ SF_pool(Reserve(t)) /\ WF_pool(Release(t))

-----------------------------------------------------------------------------
(***************************************************************************)
(* Properties                                                              *)
(***************************************************************************)

\* Every variable has its type.
TypeOK ==
    /\ waitZero \in BOOLEAN
    /\ size \in 0 .. SizeModulus - 1
    /\ closed \in BOOLEAN
    /\ idle \in 0 .. MaxSize
    /\ pc \in [Tasks -> Pcs]
    /\ cur \in [Tasks -> 0 .. MaxSize - 1]
    /\ deadline \in [Tasks -> {"none", "armed", "passed"}]
    /\ nfy \in NotifyType(Tasks)
    /\ leaked \in 0 .. MaxLeaks
    /\ closer \in {"open", "notify", "drain", "dec", "done"}

\* Connections to the server that exist or are being opened never outnumber
\* max_size, whatever races, cancellations and closing do to the counter.
LiveBound == Live <= MaxSize

\* Until the pool is closed the counter stands for exactly the idle
\* connections, the tasks that own one, and the slots lost to cancellation.
SizeAccounting == ~closed => size = Slots /\ size <= MaxSize

\* return_conn() of a live connection always finds room in the queue: the
\* "Queue full" arm is never taken.
PushFindsRoom == \A t \in Tasks : pc[t] = "return" => idle < MaxSize

\* An open pool is never wedged: while a task sleeps and no creation was
\* cancelled, some task is awake in the pool or holds a connection, so that the
\* sleeper does not depend on its own deadline.
NeverWedged ==
    ~closed /\ leaked = 0 /\ nfy.queue # <<>> =>
        \E t \in Tasks : pc[t] # "rest" /\ nfy.st[t] # "waiting"

\* A wake-up on its way to, or just received by, some task.
WakesInFlight ==
    {t \in Tasks : \/ pc[t] \in {"discardNote", "freeNote", "woken"}
                   \/ pc[t] = "wait" /\ nfy.st[t] = "one"}

\* "Wait path (pool empty, at capacity)": a task is parked only while the pool
\* is empty, or the wake-up for the connection it could have is on its way.
NoIdleWhileAsleep ==
    ~closed /\ nfy.queue # <<>> => Cardinality(WakesInFlight) >= idle

\* Once the pool is closed no connection is opened any more: connections that
\* exist or are being opened only go.
ClosedOnlyShrinks == [][closed => Live' <= Live]_vars

\* An acquire() always ends, in a connection or an error, within its wait
\* budget, however often it is woken and loses the race for the connection.
AcquireFinishes ==
    \A t \in Tasks : pc[t] = "pop" ~> pc[t] \in {"rest", "held"}

\* Every parked task is woken by the others, without the help of its deadline.
SleeperWoken ==
    \A t \in Tasks : nfy.st[t] = "waiting" ~> nfy.st[t] # "waiting"

\* The pool implements the budget of connections it promises: every step of the
\* code is a step of that specification or changes nothing in it.
Budget == INSTANCE ConnectionBudget
            WITH opening <- Cardinality(At({"opening"})),
                 lent <- Cardinality(At({"held", "return"}))
ImplementsBudget == Budget!Spec

\* PoolStatus.size, "Total connections (idle + checked out)": with nobody in
\* the middle of an operation the counter is just that, at least until the pool
\* is closed or else, but for the slots lost before, from then on.
Quiet == At({"rest", "held"}) = Tasks /\ closer \in {"open", "done"}
Connections == idle + Cardinality(At({"held"}))
QuietSize ==
    \/ [](Quiet /\ ~closed => size = Connections)
    \/ [](Quiet /\ closed => size = Connections + leaked)
=============================================================================
