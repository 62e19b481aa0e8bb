------------------------ MODULE LockFreePool_proofs ------------------------
(***************************************************************************)
(* Proofs about the connection pool, for any set of tasks and any size.    *)
(***************************************************************************)
EXTENDS LockFreePool, TokioNotify_proofs, FiniteSetTheorems

\* How many tasks are at one of the given control points, when f is pc or pc'.
Count(f, labels) == Cardinality({t \in Tasks : f[t] \in labels})

\* The weight of one control point in such a count.
In(label, labels) == IF label \in labels THEN 1 ELSE 0

\* Counting tasks yields a natural number.
LEMMA CountType ==
    ASSUME NEW f, NEW L
    PROVE  /\ IsFiniteSet({t \in Tasks : f[t] \in L})
           /\ Count(f, L) \in Nat
BY TasksAssumption, FS_Subset, FS_CardinalityType DEF Count

\* The arithmetic part of the same fact.
LEMMA CountNat ==
    ASSUME NEW f, NEW L
    PROVE  Count(f, L) \in Nat
BY CountType

\* Fewer labels count fewer tasks.
LEMMA CountMonotonic ==
    ASSUME NEW f, NEW L, NEW M, L \subseteq M
    PROVE  Count(f, L) <= Count(f, M)
<1> DEFINE S == {t \in Tasks : f[t] \in L}
           T == {t \in Tasks : f[t] \in M}
<1>1. S \subseteq T
    OBVIOUS
<1>2. IsFiniteSet(T)
    BY CountType
<1>3. Count(f, L) = Cardinality(S) /\ Count(f, M) = Cardinality(T)
    BY DEF Count
<1> HIDE DEF S, T
<1> QED BY <1>1, <1>2, <1>3, FS_Subset

\* A task at one of the labels is counted.
LEMMA CountPositive ==
    ASSUME NEW f, NEW L, NEW t \in Tasks, f[t] \in L
    PROVE  Count(f, L) >= 1
<1>1. {u \in Tasks : f[u] \in L} # {}
    OBVIOUS
<1> QED BY <1>1, CountType, FS_EmptySet DEF Count

\* Disjoint labels are counted separately.
LEMMA CountDisjoint ==
    ASSUME NEW f, NEW L, NEW M, L \cap M = {}
    PROVE  Count(f, L \cup M) = Count(f, L) + Count(f, M)
<1> DEFINE S == {t \in Tasks : f[t] \in L}
           T == {t \in Tasks : f[t] \in M}
<1>1. {t \in Tasks : f[t] \in L \cup M} = S \cup T
    OBVIOUS
<1>2. S \cap T = {}
    OBVIOUS
<1>3. IsFiniteSet(S) /\ IsFiniteSet(T)
    BY CountType
<1>4. Cardinality(S) \in Nat /\ Cardinality(T) \in Nat
    BY <1>3, FS_CardinalityType
<1>5. /\ Count(f, L) = Cardinality(S)
      /\ Count(f, M) = Cardinality(T)
      /\ Count(f, L \cup M) = Cardinality(S \cup T)
    BY <1>1 DEF Count
<1> HIDE DEF S, T
<1>6. Cardinality(S \cup T)
        = Cardinality(S) + Cardinality(T) - Cardinality(S \cap T)
    BY <1>3, FS_Union
<1>7. Cardinality(S \cap T) = 0
    BY <1>2, FS_EmptySet
<1> QED BY <1>4, <1>5, <1>6, <1>7

\* A task that moves from one control point to another changes the counts by
\* its own weight.
LEMMA CountMove ==
    ASSUME NEW f \in [Tasks -> Pcs], NEW t \in Tasks, NEW label, NEW L
    PROVE  Count([f EXCEPT ![t] = label], L)
             = Count(f, L) + In(label, L) - In(f[t], L)
<1> DEFINE g == [f EXCEPT ![t] = label]
           old == {u \in Tasks : f[u] \in L}
           new == {u \in Tasks : g[u] \in L}
           others == {u \in Tasks \ {t} : f[u] \in L}
<1>1. IsFiniteSet(others)
    BY TasksAssumption, FS_Subset, others \subseteq Tasks
<1>2. Cardinality(others) \in Nat
    BY <1>1, FS_CardinalityType
<1>3. Cardinality(others \cup {t}) = Cardinality(others) + 1
    BY <1>1, FS_AddElement, t \notin others
<1>4. old = IF f[t] \in L THEN others \cup {t} ELSE others
    OBVIOUS
<1>5. new = IF label \in L THEN others \cup {t} ELSE others
    OBVIOUS
<1>9. Count(f, L) = Cardinality(old) /\ Count(g, L) = Cardinality(new)
    BY DEF Count
<1> HIDE DEF old, new, others, g
<1>6. Cardinality(old) = Cardinality(others) + In(f[t], L)
    BY <1>2, <1>3, <1>4 DEF In
<1>7. Cardinality(new) = Cardinality(others) + In(label, L)
    BY <1>2, <1>3, <1>5 DEF In
<1>8. In(label, L) \in Nat /\ In(f[t], L) \in Nat
    BY DEF In
<1> QED BY <1>2, <1>6, <1>7, <1>8, <1>9 DEF g

-----------------------------------------------------------------------------
(***************************************************************************)
(* Type correctness.                                                       *)
(***************************************************************************)

\* A jump of one task keeps the types of what it assigns.
LEMMA GotoType ==
    ASSUME TypeOK, NEW t \in Tasks, NEW label \in Pcs, Goto(t, label)
    PROVE  /\ pc' \in [Tasks -> Pcs]
           /\ deadline' \in [Tasks -> {"none", "armed", "passed"}]
BY DEF TypeOK, Goto, Jump

\* The counter stays within its width.
LEMMA DecrementedType ==
    ASSUME TypeOK
    PROVE  Decremented \in 0 .. SizeModulus - 1
BY SizeAssumption DEF TypeOK, Decremented

\* A new pool is well typed.
LEMMA TypeInit == Init => TypeOK
<1>1. NewNotify(Tasks) \in NotifyType(Tasks)
    BY NewNotifyType
<1>2. 0 \in 0 .. SizeModulus - 1 /\ 0 \in 0 .. MaxSize /\ 0 \in 0 .. MaxSize - 1
    BY SizeAssumption
<1>3. 0 \in 0 .. MaxLeaks
    BY OptionsAssumption
<1>4. [t \in Tasks |-> "rest"] \in [Tasks -> Pcs]
    BY DEF Pcs
<1>5. [t \in Tasks |-> 0] \in [Tasks -> 0 .. MaxSize - 1]
    BY <1>2
<1> QED BY <1>1, <1>2, <1>3, <1>4, <1>5 DEF Init, TypeOK

\* Every step keeps the types.
LEMMA TypeStep == TypeOK /\ [Next]_vars => TypeOK'
<1> SUFFICES ASSUME TypeOK, [Next]_vars PROVE TypeOK'
    OBVIOUS
<1>w. UNCHANGED waitZero
    BY DEF Next, vars
<1> USE <1>w, SizeAssumption, OptionsAssumption
<1>1. ASSUME NEW t \in Tasks, Acquire(t) PROVE TypeOK'
    BY <1>1, GotoType DEF TypeOK, Acquire, Pcs, LoopPcs
<1>2. ASSUME NEW t \in Tasks, FastPop(t) PROVE TypeOK'
    BY <1>2, GotoType DEF TypeOK, FastPop, Pcs, LoopPcs, Pop
<1>3. ASSUME NEW t \in Tasks, CheckClosed(t) PROVE TypeOK'
    BY <1>3, GotoType DEF TypeOK, CheckClosed, Pcs, LoopPcs
<1>4. ASSUME NEW t \in Tasks, LoadSize(t) PROVE TypeOK'
    BY <1>4, GotoType DEF TypeOK, LoadSize, Pcs, LoopPcs, ArmDeadline, Jump,
       HasRoom
<1>5. ASSUME NEW t \in Tasks, Reserve(t) PROVE TypeOK'
    BY <1>5, GotoType DEF TypeOK, Reserve, Pcs, LoopPcs
<1>6. ASSUME NEW t \in Tasks, LoseRace(t) PROVE TypeOK'
    BY <1>6, GotoType DEF TypeOK, LoseRace, Pcs, LoopPcs
<1>7. ASSUME NEW t \in Tasks, CreateOne(t) PROVE TypeOK'
    BY <1>7, GotoType, DecrementedType DEF TypeOK, CreateOne, Pcs, LoopPcs
<1>8. ASSUME NEW t \in Tasks, Connected(t) PROVE TypeOK'
    BY <1>8, GotoType DEF TypeOK, Connected, Pcs, LoopPcs
<1>9. ASSUME NEW t \in Tasks, ConnectFailed(t) PROVE TypeOK'
    BY <1>9, GotoType DEF TypeOK, ConnectFailed, Pcs, LoopPcs
<1>10. ASSUME NEW t \in Tasks, Park(t) PROVE TypeOK'
    BY <1>10, GotoType, CreateType DEF TypeOK, Park, Pcs, LoopPcs
<1>11. ASSUME NEW t \in Tasks, Suspend(t) PROVE TypeOK'
    BY <1>11, GotoType, RegisterType DEF TypeOK, Suspend, Pcs, LoopPcs
<1>12. ASSUME NEW t \in Tasks, Woken(t) PROVE TypeOK'
    BY <1>12, GotoType, ConsumeType DEF TypeOK, Woken, Pcs, LoopPcs
<1>13. ASSUME NEW t \in Tasks, TimedOut(t) PROVE TypeOK'
    BY <1>13, GotoType, DropNotifiedType DEF TypeOK, TimedOut, Pcs, LoopPcs
<1>14. ASSUME NEW t \in Tasks, WokenPop(t) PROVE TypeOK'
    BY <1>14, GotoType DEF TypeOK, WokenPop, Pcs, LoopPcs, Pop
<1>15. ASSUME NEW t \in Tasks, LastPop(t) PROVE TypeOK'
    BY <1>15, GotoType DEF TypeOK, LastPop, Pcs, LoopPcs, Pop
<1>16. ASSUME NEW t \in Tasks, Push(t) PROVE TypeOK'
    BY <1>16, GotoType DEF TypeOK, Push, Pcs, LoopPcs
<1>17. ASSUME NEW t \in Tasks, FreeSlot(t) PROVE TypeOK'
    BY <1>17, GotoType, DecrementedType DEF TypeOK, FreeSlot, Pcs, LoopPcs
<1>18. ASSUME NEW t \in Tasks, WakeOne(t) PROVE TypeOK'
    BY <1>18, GotoType, NotifyOneType DEF TypeOK, WakeOne, Pcs, LoopPcs
<1>19. ASSUME NEW t \in Tasks, Release(t) PROVE TypeOK'
    BY <1>19, GotoType DEF TypeOK, Release, Pcs, LoopPcs
<1>20. ASSUME NEW t \in Tasks, Take(t) PROVE TypeOK'
    BY <1>20, GotoType DEF TypeOK, Take, Pcs, LoopPcs
<1>21. ASSUME NEW t \in Tasks, Expire(t) PROVE TypeOK'
    BY <1>21, GotoType DEF TypeOK, Expire, Pcs, LoopPcs
<1>22. ASSUME NEW t \in Tasks, CancelWait(t) PROVE TypeOK'
    BY <1>22, GotoType, DropNotifiedType DEF TypeOK, CancelWait, Pcs, LoopPcs
<1>23. ASSUME NEW t \in Tasks, CancelCreate(t) PROVE TypeOK'
    BY <1>23, GotoType DEF TypeOK, CancelCreate, Pcs, LoopPcs
<1>24. ASSUME CloseStore PROVE TypeOK'
    BY <1>24 DEF TypeOK, CloseStore
<1>25. ASSUME CloseNotify PROVE TypeOK'
    BY <1>25, NotifyWaitersType DEF TypeOK, CloseNotify
<1>26. ASSUME CloseDrain PROVE TypeOK'
    BY <1>26 DEF TypeOK, CloseDrain
<1>27. ASSUME CloseDec PROVE TypeOK'
    BY <1>27, DecrementedType DEF TypeOK, CloseDec
<1>28. CASE UNCHANGED vars
    BY <1>28 DEF vars, TypeOK
<1> QED BY <1>1, <1>2, <1>3, <1>4, <1>5, <1>6, <1>7, <1>8, <1>9, <1>10, <1>11,
       <1>12, <1>13, <1>14, <1>15, <1>16, <1>17, <1>18, <1>19, <1>20, <1>21,
       <1>22, <1>23, <1>24, <1>25, <1>26, <1>27, <1>28 DEF Next, Step,
       Outside, Close

\* Every variable keeps its type, for any set of tasks and any bounds.
THEOREM TypeCorrect == Spec => []TypeOK
BY TypeInit, TypeStep, PTL DEF Spec

-----------------------------------------------------------------------------
(***************************************************************************)
(* The counter and the connections.                                        *)
(***************************************************************************)

\* What one task's jump does to the counts of tasks.
LEMMA JumpCounts ==
    ASSUME TypeOK, NEW t \in Tasks, NEW label, Jump(t, label), NEW L
    PROVE  Count(pc', L) = Count(pc, L) + In(label, L) - In(pc[t], L)
<1>1. pc \in [Tasks -> Pcs]
    BY DEF TypeOK
<1>2. Count([pc EXCEPT ![t] = label], L)
        = Count(pc, L) + In(label, L) - In(pc[t], L)
    BY ONLY <1>1, t \in Tasks, CountMove, Zenon
<1> QED BY <1>2 DEF Jump

\* Only close() closes, and it does so first.
CloserKnowsClosed == closed <=> closer # "open"

\* Every step keeps it.
LEMMA CloserStep ==
    ASSUME TypeOK, CloserKnowsClosed, [Next]_vars
    PROVE  CloserKnowsClosed'
BY DEF CloserKnowsClosed, Next, Step, Outside, Close, vars,
       Acquire, FastPop, Pop, CheckClosed, LoadSize, Reserve, LoseRace,
       CreateOne, Connected, ConnectFailed, Park, Suspend, Woken, TimedOut,
       WokenPop, LastPop, Push, FreeSlot, WakeOne, Release, Take, Expire,
       CancelWait, CancelCreate, CloseStore, CloseNotify, CloseDrain, CloseDec

\* A step that leaves the pool open keeps the account of `size`.
LEMMA AccountStep ==
    ASSUME TypeOK, CloserKnowsClosed, SizeAccounting, [Next]_vars
    PROVE  SizeAccounting'
<1> DEFINE owners == Count(pc, OwnerPcs)
           owners1 == Count(pc', OwnerPcs)
           Balanced == size' = idle' + owners1 + leaked' /\ size' <= MaxSize
<1>a. owners \in Nat /\ owners1 \in Nat
    BY CountNat
<1>b. Slots = idle + owners + leaked /\ Slots' = idle' + owners1 + leaked'
    BY DEF Slots, Count, At
<1>c. size \in Nat /\ idle \in Nat /\ leaked \in Nat
    BY DEF TypeOK
<1> SUFFICES ASSUME ~closed'
             PROVE  Balanced
    BY <1>b DEF SizeAccounting
<1>d. ~closed
    BY DEF Next, Step, Outside, Close, vars, Acquire, FastPop, Pop, CheckClosed,
           LoadSize, Reserve, LoseRace, CreateOne, Connected, ConnectFailed,
           Park,
           Suspend, Woken, TimedOut, WokenPop, LastPop, Push, FreeSlot, WakeOne,
           Release, Take, Expire, CancelWait, CancelCreate, CloseStore,
           CloseNotify, CloseDrain, CloseDec
<1>e. size = idle + owners + leaked /\ size <= MaxSize
    BY <1>b, <1>d DEF SizeAccounting
<1>1. ASSUME NEW t \in Tasks, Acquire(t) PROVE Balanced
    BY <1>1, <1>a, <1>c, <1>d, <1>e, JumpCounts
       DEF Acquire, Goto, In, OwnerPcs, LivePcs
<1>2. ASSUME NEW t \in Tasks, FastPop(t) PROVE Balanced
    BY <1>2, <1>a, <1>c, <1>d, <1>e, JumpCounts
       DEF FastPop, Goto, Pop, In, OwnerPcs, LivePcs
<1>3. ASSUME NEW t \in Tasks, CheckClosed(t) PROVE Balanced
    BY <1>3, <1>a, <1>c, <1>d, <1>e, JumpCounts
       DEF CheckClosed, Goto, In, OwnerPcs, LivePcs
<1>4. ASSUME NEW t \in Tasks, LoadSize(t) PROVE Balanced
    BY <1>4, <1>a, <1>c, <1>d, <1>e, JumpCounts
       DEF LoadSize, Goto, ArmDeadline, In, OwnerPcs, LivePcs
<1>5. ASSUME NEW t \in Tasks, Reserve(t) PROVE Balanced
    <2>1. size = cur[t] /\ cur[t] < MaxSize
        BY <1>5, SizeAssumption DEF Reserve, TypeOK
    <2>2. owners1 = owners + 1
        BY <1>5, <1>a, JumpCounts DEF Reserve, Goto, In, OwnerPcs, LivePcs
    <2> QED BY <1>5, <1>a, <1>c, <1>e, <2>1, <2>2, SizeAssumption DEF Reserve
<1>6. ASSUME NEW t \in Tasks, LoseRace(t) PROVE Balanced
    BY <1>6, <1>a, <1>c, <1>d, <1>e, JumpCounts
       DEF LoseRace, Goto, In, OwnerPcs, LivePcs
<1>7. ASSUME NEW t \in Tasks, CreateOne(t) PROVE Balanced
    BY <1>7, <1>a, <1>c, <1>d, <1>e, JumpCounts
       DEF CreateOne, Goto, In, OwnerPcs, LivePcs
<1>8. ASSUME NEW t \in Tasks, Connected(t) PROVE Balanced
    BY <1>8, <1>a, <1>c, <1>d, <1>e, JumpCounts
       DEF Connected, Goto, In, OwnerPcs, LivePcs
<1>9. ASSUME NEW t \in Tasks, ConnectFailed(t) PROVE Balanced
    BY <1>9, <1>a, <1>c, <1>d, <1>e, JumpCounts
       DEF ConnectFailed, Goto, In, OwnerPcs, LivePcs
<1>10. ASSUME NEW t \in Tasks, Park(t) PROVE Balanced
    BY <1>10, <1>a, <1>c, <1>d, <1>e, JumpCounts
       DEF Park, Goto, In, OwnerPcs, LivePcs
<1>11. ASSUME NEW t \in Tasks, Suspend(t) PROVE Balanced
    BY <1>11, <1>e DEF Suspend
<1>12. ASSUME NEW t \in Tasks, Woken(t) PROVE Balanced
    BY <1>12, <1>a, <1>c, <1>d, <1>e, JumpCounts
       DEF Woken, Goto, In, OwnerPcs, LivePcs
<1>13. ASSUME NEW t \in Tasks, TimedOut(t) PROVE Balanced
    BY <1>13, <1>a, <1>c, <1>d, <1>e, JumpCounts
       DEF TimedOut, Goto, In, OwnerPcs, LivePcs
<1>14. ASSUME NEW t \in Tasks, WokenPop(t) PROVE Balanced
    BY <1>14, <1>a, <1>c, <1>d, <1>e, JumpCounts
       DEF WokenPop, Goto, Pop, In, OwnerPcs, LivePcs
<1>15. ASSUME NEW t \in Tasks, LastPop(t) PROVE Balanced
    BY <1>15, <1>a, <1>c, <1>d, <1>e, JumpCounts
       DEF LastPop, Goto, Pop, In, OwnerPcs, LivePcs
<1>16. ASSUME NEW t \in Tasks, Push(t) PROVE Balanced
    BY <1>16, <1>a, <1>c, <1>d, <1>e, JumpCounts
       DEF Push, Goto, In, OwnerPcs, LivePcs
<1>17. ASSUME NEW t \in Tasks, FreeSlot(t) PROVE Balanced
    <2>1. pc[t] \in OwnerPcs
        BY <1>17 DEF FreeSlot, OwnerPcs
    <2>2. owners >= 1
        BY <2>1, CountPositive
    <2>3. owners1 = owners - 1
        BY <1>17, <1>a, JumpCounts DEF FreeSlot, Goto, In, OwnerPcs, LivePcs
    <2> QED BY <1>17, <1>a, <1>c, <1>e, <2>2, <2>3, SizeAssumption
            DEF FreeSlot, Decremented
<1>18. ASSUME NEW t \in Tasks, WakeOne(t) PROVE Balanced
    BY <1>18, <1>a, <1>c, <1>d, <1>e, JumpCounts
       DEF WakeOne, Goto, In, OwnerPcs, LivePcs
<1>19. ASSUME NEW t \in Tasks, Release(t) PROVE Balanced
    BY <1>19, <1>a, <1>c, <1>d, <1>e, JumpCounts
       DEF Release, Goto, In, OwnerPcs, LivePcs
<1>20. ASSUME NEW t \in Tasks, Take(t) PROVE Balanced
    BY <1>20, <1>a, <1>c, <1>d, <1>e, JumpCounts
       DEF Take, Goto, In, OwnerPcs, LivePcs
<1>21. ASSUME NEW t \in Tasks, Expire(t) PROVE Balanced
    BY <1>21, <1>e DEF Expire
<1>22. ASSUME NEW t \in Tasks, CancelWait(t) PROVE Balanced
    BY <1>22, <1>a, <1>c, <1>d, <1>e, JumpCounts
       DEF CancelWait, Goto, In, OwnerPcs, LivePcs
<1>23. ASSUME NEW t \in Tasks, CancelCreate(t) PROVE Balanced
    BY <1>23, <1>a, <1>c, <1>d, <1>e, JumpCounts
       DEF CancelCreate, Goto, In, OwnerPcs, LivePcs
<1>24. CASE Close
    BY <1>24, <1>d DEF CloserKnowsClosed, Close, CloseStore, CloseNotify,
                      CloseDrain, CloseDec
<1>25. CASE UNCHANGED vars
    BY <1>25, <1>e DEF vars
<1> QED BY <1>1, <1>2, <1>3, <1>4, <1>5, <1>6, <1>7, <1>8, <1>9, <1>10, <1>11,
       <1>12, <1>13, <1>14, <1>15, <1>16, <1>17, <1>18, <1>19, <1>20, <1>21,
       <1>22, <1>23, <1>24, <1>25 DEF Next, Step, Outside

\* What a closed pool has of connections only goes.
LEMMA ShrinkStep ==
    ASSUME TypeOK, closed, [Next]_vars
    PROVE  Live' <= Live
<1> DEFINE live == Count(pc, LivePcs)
           live1 == Count(pc', LivePcs)
           Shrinks == idle' + live1 <= idle + live
<1>a. live \in Nat /\ live1 \in Nat
    BY CountNat
<1>b. Live = idle + live /\ Live' = idle' + live1
    BY DEF Live, Count, At
<1>c. idle \in Nat
    BY DEF TypeOK
<1> SUFFICES Shrinks
    BY <1>b
<1>1. ASSUME NEW t \in Tasks, Acquire(t) PROVE Shrinks
    BY <1>1, <1>a, <1>c, JumpCounts
       DEF Acquire, Goto, In, LivePcs
<1>2. ASSUME NEW t \in Tasks, FastPop(t) PROVE Shrinks
    BY <1>2, <1>a, <1>c, JumpCounts
       DEF FastPop, Goto, Pop, In, LivePcs
<1>3. ASSUME NEW t \in Tasks, CheckClosed(t) PROVE Shrinks
    BY <1>3, <1>a, <1>c, JumpCounts
       DEF CheckClosed, Goto, In, LivePcs
<1>4. ASSUME NEW t \in Tasks, LoadSize(t) PROVE Shrinks
    BY <1>4, <1>a, <1>c, JumpCounts
       DEF LoadSize, Goto, ArmDeadline, In, LivePcs
<1>5. ASSUME NEW t \in Tasks, Reserve(t) PROVE Shrinks
    BY <1>5, <1>a, <1>c, JumpCounts
       DEF Reserve, Goto, In, LivePcs
<1>6. ASSUME NEW t \in Tasks, LoseRace(t) PROVE Shrinks
    BY <1>6, <1>a, <1>c, JumpCounts
       DEF LoseRace, Goto, In, LivePcs
<1>7. ASSUME NEW t \in Tasks, CreateOne(t) PROVE Shrinks
    BY <1>7, <1>a, <1>c, JumpCounts
       DEF CreateOne, Goto, In, LivePcs
<1>8. ASSUME NEW t \in Tasks, Connected(t) PROVE Shrinks
    BY <1>8, <1>a, <1>c, JumpCounts
       DEF Connected, Goto, In, LivePcs
<1>9. ASSUME NEW t \in Tasks, ConnectFailed(t) PROVE Shrinks
    BY <1>9, <1>a, <1>c, JumpCounts
       DEF ConnectFailed, Goto, In, LivePcs
<1>10. ASSUME NEW t \in Tasks, Park(t) PROVE Shrinks
    BY <1>10, <1>a, <1>c, JumpCounts
       DEF Park, Goto, In, LivePcs
<1>11. ASSUME NEW t \in Tasks, Suspend(t) PROVE Shrinks
    BY <1>11, <1>a, <1>c DEF Suspend
<1>12. ASSUME NEW t \in Tasks, Woken(t) PROVE Shrinks
    BY <1>12, <1>a, <1>c, JumpCounts
       DEF Woken, Goto, In, LivePcs
<1>13. ASSUME NEW t \in Tasks, TimedOut(t) PROVE Shrinks
    BY <1>13, <1>a, <1>c, JumpCounts
       DEF TimedOut, Goto, In, LivePcs
<1>14. ASSUME NEW t \in Tasks, WokenPop(t) PROVE Shrinks
    BY <1>14, <1>a, <1>c, JumpCounts
       DEF WokenPop, Goto, Pop, In, LivePcs
<1>15. ASSUME NEW t \in Tasks, LastPop(t) PROVE Shrinks
    BY <1>15, <1>a, <1>c, JumpCounts
       DEF LastPop, Goto, Pop, In, LivePcs
<1>16. ASSUME NEW t \in Tasks, Push(t) PROVE Shrinks
    BY <1>16, <1>a, <1>c, JumpCounts
       DEF Push, Goto, In, LivePcs
<1>17. ASSUME NEW t \in Tasks, FreeSlot(t) PROVE Shrinks
    BY <1>17, <1>a, <1>c, JumpCounts
       DEF FreeSlot, Goto, In, LivePcs
<1>18. ASSUME NEW t \in Tasks, WakeOne(t) PROVE Shrinks
    BY <1>18, <1>a, <1>c, JumpCounts
       DEF WakeOne, Goto, In, LivePcs
<1>19. ASSUME NEW t \in Tasks, Release(t) PROVE Shrinks
    BY <1>19, <1>a, <1>c, JumpCounts
       DEF Release, Goto, In, LivePcs
<1>20. ASSUME NEW t \in Tasks, Take(t) PROVE Shrinks
    BY <1>20, <1>a, <1>c, JumpCounts
       DEF Take, Goto, In, LivePcs
<1>21. ASSUME NEW t \in Tasks, Expire(t) PROVE Shrinks
    BY <1>21, <1>a, <1>c DEF Expire
<1>22. ASSUME NEW t \in Tasks, CancelWait(t) PROVE Shrinks
    BY <1>22, <1>a, <1>c, JumpCounts
       DEF CancelWait, Goto, In, LivePcs
<1>23. ASSUME NEW t \in Tasks, CancelCreate(t) PROVE Shrinks
    BY <1>23, <1>a, <1>c, JumpCounts
       DEF CancelCreate, Goto, In, LivePcs
<1>24. CASE Close
    <2>1. pc' = pc
        BY <1>24 DEF Close, CloseStore, CloseNotify, CloseDrain, CloseDec
    <2>2. idle' \in Int /\ idle' <= idle
        <3>1. CASE CloseDrain
            BY <3>1, <1>c DEF CloseDrain
        <3>2. CASE CloseStore
            BY <3>2, <1>c DEF CloseStore
        <3>3. CASE CloseNotify
            BY <3>3, <1>c DEF CloseNotify
        <3>4. CASE CloseDec
            BY <3>4, <1>c DEF CloseDec
        <3> QED BY <1>24, <3>1, <3>2, <3>3, <3>4 DEF Close
    <2> QED BY <1>a, <1>c, <2>1, <2>2
<1>25. CASE UNCHANGED vars
    BY <1>25, <1>a, <1>c DEF vars
<1> QED BY <1>1, <1>2, <1>3, <1>4, <1>5, <1>6, <1>7, <1>8, <1>9, <1>10, <1>11,
       <1>12, <1>13, <1>14, <1>15, <1>16, <1>17, <1>18, <1>19, <1>20, <1>21,
       <1>22, <1>23, <1>24, <1>25 DEF Next, Step, Outside

\* In an open pool the connections are among the slots that `size` counts.
LEMMA OpenBound ==
    ASSUME TypeOK, SizeAccounting, ~closed
    PROVE  LiveBound
<1>1. Count(pc, LivePcs) <= Count(pc, OwnerPcs)
    BY CountMonotonic DEF OwnerPcs
<1>2. Count(pc, LivePcs) \in Nat /\ Count(pc, OwnerPcs) \in Nat
    BY CountNat
<1>3. /\ Live = idle + Count(pc, LivePcs)
      /\ Slots = idle + Count(pc, OwnerPcs) + leaked
    BY DEF Live, Slots, Count, At
<1>4. idle \in Nat /\ leaked \in Nat
    BY DEF TypeOK
<1> QED BY <1>1, <1>2, <1>3, <1>4, SizeAssumption DEF LiveBound, SizeAccounting

-----------------------------------------------------------------------------
(***************************************************************************)
(* The inductive invariant.  LiveBound alone is not inductive: that the    *)
(* next creation stays within the bound follows from the counter, which    *)
(* stands for the connections only while the pool is open; once it is      *)
(* closed the counter may be anything, and the bound holds because nothing *)
(* is opened any more.                                                     *)
(***************************************************************************)
IInv ==
    /\ TypeOK
    /\ CloserKnowsClosed
    /\ SizeAccounting
    /\ LiveBound

\* A new pool satisfies the invariant.
LEMMA InvInit == Init => IInv
<1> SUFFICES ASSUME Init PROVE IInv
    OBVIOUS
<1>1. TypeOK
    BY TypeInit
<1>2. CloserKnowsClosed
    BY DEF Init, CloserKnowsClosed
<1>3. At(OwnerPcs) = {}
    BY DEF Init, At, OwnerPcs, LivePcs
<1>4. Cardinality(At(OwnerPcs)) = 0
    BY <1>3, FS_EmptySet
<1>5. SizeAccounting
    BY <1>4, SizeAssumption DEF SizeAccounting, Slots, Init
<1>6. LiveBound
    BY <1>1, <1>5, OpenBound DEF Init
<1> QED BY <1>1, <1>2, <1>5, <1>6 DEF IInv

\* Every step keeps the invariant.
LEMMA InvStep == IInv /\ [Next]_vars => IInv'
<1> SUFFICES ASSUME IInv, [Next]_vars PROVE IInv'
    OBVIOUS
<1>1. TypeOK'
    BY TypeStep DEF IInv
<1>2. CloserKnowsClosed'
    BY CloserStep DEF IInv
<1>3. SizeAccounting'
    BY AccountStep DEF IInv
<1>4. LiveBound'
    <2>1. CASE ~closed'
        <3>1. Count(pc', LivePcs) <= Count(pc', OwnerPcs)
            BY CountMonotonic DEF OwnerPcs
        <3>2. Count(pc', LivePcs) \in Nat /\ Count(pc', OwnerPcs) \in Nat
            BY CountNat
        <3>3. /\ Live' = idle' + Count(pc', LivePcs)
              /\ Slots' = idle' + Count(pc', OwnerPcs) + leaked'
            BY DEF Live, Slots, Count, At
        <3>4. idle' \in Nat /\ leaked' \in Nat
            BY <1>1 DEF TypeOK
        <3> QED BY <1>3, <2>1, <3>1, <3>2, <3>3, <3>4, SizeAssumption
                DEF LiveBound, SizeAccounting
    <2>2. CASE closed' /\ closed
        <3>1. Live' <= Live /\ Live <= MaxSize
            BY <2>2, ShrinkStep DEF IInv, LiveBound
        <3>2. Count(pc, LivePcs) \in Nat /\ Count(pc', LivePcs) \in Nat
            BY CountNat
        <3>3. /\ Live = idle + Count(pc, LivePcs)
              /\ Live' = idle' + Count(pc', LivePcs)
            BY DEF Live, Count, At
        <3>4. idle \in Nat /\ idle' \in Nat
            BY <1>1 DEF IInv, TypeOK
        <3> QED BY <3>1, <3>2, <3>3, <3>4, SizeAssumption DEF LiveBound
    <2>3. CASE closed' /\ ~closed
        <3>1. CloseStore
            BY <2>3 DEF Next, Step, Outside, Close, vars, Acquire, FastPop, Pop,
               CheckClosed, LoadSize, Reserve, LoseRace, CreateOne, Connected,
               ConnectFailed, Park, Suspend, Woken, TimedOut, WokenPop, LastPop,
               Push, FreeSlot, WakeOne, Release, Take, Expire, CancelWait,
               CancelCreate, CloseNotify, CloseDrain, CloseDec
        <3>2. Live' = Live
            BY <3>1 DEF CloseStore, Live, At
        <3> QED BY <3>2 DEF IInv, LiveBound
    <2> QED BY <2>1, <2>2, <2>3
<1> QED BY <1>1, <1>2, <1>3, <1>4 DEF IInv

\* The invariant holds throughout.
LEMMA Invariance == Spec => []IInv
BY InvInit, InvStep, PTL DEF Spec

\* Connections never outnumber max_size, and while the pool is open the counter
\* is exact, whatever the number of tasks and the size of the pool.
THEOREM LiveBounded == Spec => []LiveBound
<1>1. IInv => LiveBound
    BY DEF IInv
<1> QED BY <1>1, Invariance, PTL

\* Until the pool is closed the counter stands for the connections, their
\* owners and the slots lost to cancellation, for every pool.
THEOREM SizeAccounted == Spec => []SizeAccounting
<1>1. IInv => SizeAccounting
    BY DEF IInv
<1> QED BY <1>1, Invariance, PTL

\* The "Queue full" arm of return_conn() is dead code, for every pool.
THEOREM PushAlwaysFindsRoom == Spec => []PushFindsRoom
<1>1. IInv => PushFindsRoom
    <2> SUFFICES ASSUME IInv, NEW t \in Tasks, pc[t] = "return"
                 PROVE  idle < MaxSize
        BY DEF PushFindsRoom
    <2>1. Count(pc, LivePcs) >= 1
        BY CountPositive DEF LivePcs
    <2>2. Count(pc, LivePcs) \in Nat
        BY CountNat
    <2>3. Live = idle + Count(pc, LivePcs)
        BY DEF Live, Count, At
    <2> QED BY <2>1, <2>2, <2>3, SizeAssumption DEF IInv, TypeOK, LiveBound
<1> QED BY <1>1, Invariance, PTL

\* A closed pool never opens a connection again, for every pool.
THEOREM ClosedShrinks == Spec => ClosedOnlyShrinks
<1>1. IInv /\ [Next]_vars => [closed => Live' <= Live]_vars
    BY ShrinkStep DEF IInv
<1> QED BY <1>1, Invariance, PTL DEF Spec, ClosedOnlyShrinks

-----------------------------------------------------------------------------
(***************************************************************************)
(* Refinement: the pool is a ConnectionBudget.                             *)
(***************************************************************************)

\* A step of the code is a step of the budget, or changes nothing in it.
LEMMA BudgetStep ==
    ASSUME IInv, IInv', [Next]_vars
    PROVE  [Budget!Next]_(Budget!vars)
<1> DEFINE op == Count(pc, {"opening"})
           op1 == Count(pc', {"opening"})
           ln == Count(pc, {"held", "return"})
           ln1 == Count(pc', {"held", "return"})
           Same == op1 = op /\ ln1 = ln /\ idle' = idle /\ closed' = closed
           Goal == [Budget!Next]_(Budget!vars)
<1>a. op \in Nat /\ op1 \in Nat /\ ln \in Nat /\ ln1 \in Nat
    BY CountNat
<1>b. /\ Cardinality(At({"opening"})) = op
      /\ Cardinality(At({"opening"}))' = op1
      /\ Cardinality(At({"held", "return"})) = ln
      /\ Cardinality(At({"held", "return"}))' = ln1
    BY DEF Count, At
<1>c. idle \in Nat /\ idle' \in Nat
    BY DEF IInv, TypeOK
<1>d. op1 + ln1 + idle' <= MaxSize
    <2>1. Count(pc', {"opening"} \cup {"held", "return"}) = op1 + ln1
        BY CountDisjoint
    <2>2. {"opening"} \cup {"held", "return"} = LivePcs
        BY DEF LivePcs
    <2>3. Live' = idle' + Count(pc', LivePcs)
        BY DEF Live, Count, At
    <2> QED BY <1>a, <1>c, <2>1, <2>2, <2>3, SizeAssumption DEF IInv, LiveBound
<1>e. TypeOK
    BY DEF IInv
<1> USE <1>a, <1>b, <1>c
<1> HIDE DEF op, op1, ln, ln1
<1>s. Same => Goal
    BY DEF Budget!vars
<1>p. \A t \in Tasks : pc[t] = "opening" => op > 0
    BY CountPositive DEF op
<1>q. \A t \in Tasks : pc[t] \in {"held", "return"} => ln > 0
    BY CountPositive DEF ln
<1> DEFINE
      NoneIdled == idle' = idle /\ closed' = closed
      NoneOpened == op1 = op /\ closed' = closed
      BOpen == ~closed /\ op1 = op + 1 /\ ln1 = ln /\ NoneIdled
      BOpened == op > 0 /\ op1 = op - 1 /\ ln1 = ln + 1 /\ NoneIdled
      BOpenFails == op > 0 /\ op1 = op - 1 /\ ln1 = ln /\ NoneIdled
      BLend == idle > 0 /\ idle' = idle - 1 /\ ln1 = ln + 1 /\ NoneOpened
      BGiveBack == ln > 0 /\ ln1 = ln - 1 /\ idle' = idle + 1 /\ NoneOpened
      BDropLent == ln > 0 /\ ln1 = ln - 1 /\ idle' = idle /\ NoneOpened
      BDropIdle == idle > 0 /\ idle' = idle - 1 /\ ln1 = ln /\ NoneOpened
      BClose == closed' = TRUE /\ op1 = op /\ ln1 = ln /\ idle' = idle
<1>rOpen. BOpen => Goal
    BY <1>d, SizeAssumption DEF Budget!Next, Budget!Open
<1>rOpened. BOpened => Goal
    BY DEF Budget!Next, Budget!Opened
<1>rOpenFails. BOpenFails => Goal
    BY DEF Budget!Next, Budget!OpenFails
<1>rLend. BLend => Goal
    BY DEF Budget!Next, Budget!Lend
<1>rGiveBack. BGiveBack => Goal
    BY DEF Budget!Next, Budget!GiveBack
<1>rDropLent. BDropLent => Goal
    BY DEF Budget!Next, Budget!DropLent
<1>rDropIdle. BDropIdle => Goal
    BY DEF Budget!Next, Budget!DropIdle
<1>rClose. BClose => Goal
    BY DEF Budget!Next, Budget!Close
<1>1. ASSUME NEW t \in Tasks, Acquire(t) PROVE Same
    BY <1>1, <1>e, <1>p, <1>q, JumpCounts
       DEF Acquire, Goto, In, op, op1, ln, ln1
<1>2. ASSUME NEW t \in Tasks, FastPop(t) PROVE Same \/ BLend \/ BDropIdle
    BY <1>2, <1>e, <1>p, <1>q, JumpCounts
       DEF FastPop, Goto, Pop, In, op, op1, ln, ln1
<1>3. ASSUME NEW t \in Tasks, CheckClosed(t) PROVE Same
    BY <1>3, <1>e, <1>p, <1>q, JumpCounts
       DEF CheckClosed, Goto, In, op, op1, ln, ln1
<1>4. ASSUME NEW t \in Tasks, LoadSize(t) PROVE Same
    BY <1>4, <1>e, <1>p, <1>q, JumpCounts
       DEF LoadSize, Goto, ArmDeadline, In, op, op1, ln, ln1
<1>5. ASSUME NEW t \in Tasks, Reserve(t) PROVE Same
    BY <1>5, <1>e, <1>p, <1>q, JumpCounts
       DEF Reserve, Goto, In, op, op1, ln, ln1
<1>6. ASSUME NEW t \in Tasks, LoseRace(t) PROVE Same
    BY <1>6, <1>e, <1>p, <1>q, JumpCounts
       DEF LoseRace, Goto, In, op, op1, ln, ln1
<1>7. ASSUME NEW t \in Tasks, CreateOne(t) PROVE Same \/ BOpen
    BY <1>7, <1>e, <1>p, <1>q, JumpCounts
       DEF CreateOne, Goto, In, op, op1, ln, ln1
<1>8. ASSUME NEW t \in Tasks, Connected(t) PROVE BOpened
    BY <1>8, <1>e, <1>p, <1>q, JumpCounts
       DEF Connected, Goto, In, op, op1, ln, ln1
<1>9. ASSUME NEW t \in Tasks, ConnectFailed(t) PROVE BOpenFails
    BY <1>9, <1>e, <1>p, <1>q, JumpCounts
       DEF ConnectFailed, Goto, In, op, op1, ln, ln1
<1>10. ASSUME NEW t \in Tasks, Park(t) PROVE Same
    BY <1>10, <1>e, <1>p, <1>q, JumpCounts
       DEF Park, Goto, In, op, op1, ln, ln1
<1>11. ASSUME NEW t \in Tasks, Suspend(t) PROVE Same
    BY <1>11 DEF Suspend, op, op1, ln, ln1
<1>12. ASSUME NEW t \in Tasks, Woken(t) PROVE Same
    BY <1>12, <1>e, <1>p, <1>q, JumpCounts
       DEF Woken, Goto, In, op, op1, ln, ln1
<1>13. ASSUME NEW t \in Tasks, TimedOut(t) PROVE Same
    BY <1>13, <1>e, <1>p, <1>q, JumpCounts
       DEF TimedOut, Goto, In, op, op1, ln, ln1
<1>14. ASSUME NEW t \in Tasks, WokenPop(t) PROVE Same \/ BLend \/ BDropIdle
    BY <1>14, <1>e, <1>p, <1>q, JumpCounts
       DEF WokenPop, Goto, Pop, In, op, op1, ln, ln1
<1>15. ASSUME NEW t \in Tasks, LastPop(t) PROVE Same \/ BLend \/ BDropIdle
    BY <1>15, <1>e, <1>p, <1>q, JumpCounts
       DEF LastPop, Goto, Pop, In, op, op1, ln, ln1
<1>16. ASSUME NEW t \in Tasks, Push(t) PROVE BGiveBack \/ BDropLent
    BY <1>16, <1>e, <1>p, <1>q, JumpCounts
       DEF Push, Goto, In, op, op1, ln, ln1
<1>17. ASSUME NEW t \in Tasks, FreeSlot(t) PROVE Same
    BY <1>17, <1>e, <1>p, <1>q, JumpCounts
       DEF FreeSlot, Goto, In, op, op1, ln, ln1
<1>18. ASSUME NEW t \in Tasks, WakeOne(t) PROVE Same
    BY <1>18, <1>e, <1>p, <1>q, JumpCounts
       DEF WakeOne, Goto, In, op, op1, ln, ln1
<1>19. ASSUME NEW t \in Tasks, Release(t) PROVE Same \/ BDropLent
    BY <1>19, <1>e, <1>p, <1>q, JumpCounts
       DEF Release, Goto, In, op, op1, ln, ln1
<1>20. ASSUME NEW t \in Tasks, Take(t) PROVE BDropLent
    BY <1>20, <1>e, <1>p, <1>q, JumpCounts
       DEF Take, Goto, In, op, op1, ln, ln1
<1>21. ASSUME NEW t \in Tasks, Expire(t) PROVE Same
    BY <1>21 DEF Expire, op, op1, ln, ln1
<1>22. ASSUME NEW t \in Tasks, CancelWait(t) PROVE Same
    BY <1>22, <1>e, <1>p, <1>q, JumpCounts
       DEF CancelWait, Goto, In, op, op1, ln, ln1
<1>23. ASSUME NEW t \in Tasks, CancelCreate(t) PROVE BOpenFails
    BY <1>23, <1>e, <1>p, <1>q, JumpCounts
       DEF CancelCreate, Goto, In, op, op1, ln, ln1
<1>24. CASE Close
    <2>1. op1 = op /\ ln1 = ln
        BY <1>24 DEF Close, CloseStore, CloseNotify, CloseDrain, CloseDec, op,
           op1, ln, ln1
    <2>2. CASE CloseStore
        BY <2>1, <2>2, <1>rClose DEF CloseStore
    <2>3. CASE CloseNotify
        BY <2>1, <2>3, <1>s DEF CloseNotify
    <2>4. CASE CloseDrain
        BY <2>1, <2>4, <1>s, <1>rDropIdle DEF CloseDrain
    <2>5. CASE CloseDec
        BY <2>1, <2>5, <1>s DEF CloseDec
    <2> QED BY <1>24, <2>2, <2>3, <2>4, <2>5 DEF Close
<1>25. CASE UNCHANGED vars
    BY <1>25, <1>s DEF vars, op, op1, ln, ln1
<1> HIDE DEF Same, Goal, BOpen, BOpened, BOpenFails, BLend, BGiveBack,
   BDropLent, BDropIdle, BClose
<1> QED BY <1>1, <1>2, <1>3, <1>4, <1>5, <1>6, <1>7, <1>8, <1>9, <1>10, <1>11,
       <1>12, <1>13, <1>14, <1>15, <1>16, <1>17, <1>18, <1>19, <1>20, <1>21,
       <1>22, <1>23, <1>24, <1>25, <1>s, <1>rOpen, <1>rOpened, <1>rOpenFails,
       <1>rLend, <1>rGiveBack, <1>rDropLent, <1>rDropIdle, <1>rClose DEF Next,
       Step, Outside, Goal

\* The code implements the budget of connections: nothing is opened beyond
\* max_size or after closing, and a connection is lent to one borrower at a
\* time, for every pool.
THEOREM Refinement == Spec => ImplementsBudget
<1>1. Init => Budget!Init
    <2> SUFFICES ASSUME Init PROVE Budget!Init
        OBVIOUS
    <2>1. At({"opening"}) = {} /\ At({"held", "return"}) = {}
        BY DEF Init, At
    <2>2. /\ Cardinality(At({"opening"})) = 0
          /\ Cardinality(At({"held", "return"})) = 0
        BY <2>1, FS_EmptySet
    <2> QED BY <2>2 DEF Init, Budget!Init
<1>2. IInv /\ IInv' /\ [Next]_vars => [Budget!Next]_(Budget!vars)
    BY BudgetStep
<1> QED BY <1>1, <1>2, Invariance, PTL DEF Spec, ImplementsBudget, Budget!Spec
=============================================================================
