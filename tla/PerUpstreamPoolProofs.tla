------------------------- MODULE PerUpstreamPoolProofs -------------------------
(***************************************************************************)
(* Proofs about PerUpstreamPool, for every number of tasks and connections *)
(* and every setting of the limits.                                        *)
(***************************************************************************)
EXTENDS PerUpstreamPool, FiniteSetTheorems, SequenceTheorems, TLAPS

\* TypeOK without the upper bounds of the two counters, which only follow from
\* the accounting.
Shape ==
  /\ conn \in [Conns -> ConnState]
  /\ idle \in Seq(Conns)
  /\ keep \in Seq(Conns)
  /\ reaping \in BOOLEAN
  /\ permits \in Nat
  /\ pc \in [Tasks -> {"out", "wait", "lock", "purge", "open", "use", "park", "shut"}]
  /\ held \in [Tasks -> Conns \cup {NoConn}]
  /\ closing \in BOOLEAN
  /\ drained \in BOOLEAN
  /\ leaked \in Nat

\* Where a task stands tells whether it has a connection in its hands.
Hands ==
  \A t \in Tasks :
    /\ pc[t] \in {"use", "park"} => held[t] \in Conns
    /\ pc[t] \in {"out", "wait", "lock", "open", "shut"} => held[t] = NoConn

--------------------------------------------------------------------------------
(* Sequences of connections *)

LEMMA SliceType ==
  ASSUME NEW S, NEW s \in Seq(S), NEW i \in Nat \ {0}, NEW j \in Nat, j <= Len(s)
  PROVE  /\ SubSeq(s, i, j) \in Seq(S)
         /\ Len(SubSeq(s, i, j)) = IF i <= j THEN j - i + 1 ELSE 0
         /\ \A n \in 1..(j - i + 1) : SubSeq(s, i, j)[n] = s[i + n - 1]
<1>1. \A n \in i..j : s[n] \in S
  BY ElementOfSeq, LenProperties
<1> QED  BY <1>1, SubSeqProperties

LEMMA TailSlice ==
  ASSUME NEW S, NEW s \in Seq(S), NEW k \in 1..(Len(s) + 1)
  PROVE  \A i \in 1..Len(SubSeq(s, k + 1, Len(s))) :
           /\ i + k \in 1..Len(s) /\ k < i + k
           /\ SubSeq(s, k + 1, Len(s))[i] = s[i + k]
<1> DEFINE r == SubSeq(s, k + 1, Len(s))
<1>1. Len(s) \in Nat /\ k \in Nat /\ k <= Len(s) + 1
  BY LenProperties
<1>2. /\ Len(r) = IF k + 1 <= Len(s) THEN Len(s) - (k + 1) + 1 ELSE 0
      /\ \A n \in 1..(Len(s) - (k + 1) + 1) : r[n] = s[k + 1 + n - 1]
  BY <1>1, SliceType
<1> HIDE DEF r
<1>3. ASSUME NEW i \in 1..Len(r)
      PROVE  i + k \in 1..Len(s) /\ k < i + k /\ r[i] = s[i + k]
  <2>1. i \in 1..(Len(s) - (k + 1) + 1) /\ k + 1 + i - 1 = i + k
    BY <1>1, <1>2
  <2> QED  BY <1>1, <1>2, <2>1
<1> QED  BY <1>3 DEF r

--------------------------------------------------------------------------------
(* Typing *)

LEMMA ConnCounts ==
  ASSUME NEW r \in ConnState
  PROVE  r.count \in Nat /\ r.served \in Nat
BY DEF ConnState

LEMMA ConnUpdate ==
  ASSUME NEW r \in ConnState, NEW n \in Nat
  PROVE  /\ [r EXCEPT !.count = n] \in ConnState
         /\ [r EXCEPT !.served = n] \in ConnState
BY DEF ConnState


LEMMA ShapeInit == Init => Shape /\ Hands
<1> SUFFICES ASSUME Init PROVE Shape /\ Hands
  OBVIOUS
<1> USE DEF Init
<1>1. conn \in [Conns -> ConnState]
  BY DEF ConnState, Unused
<1>2. idle \in Seq(Conns) /\ keep \in Seq(Conns)
  BY EmptySeq
<1>3. permits \in Nat
  BY PoolAssumption
<1>4. Hands
  BY DEF Hands
<1> QED  BY <1>1, <1>2, <1>3, <1>4 DEF Shape

\* acquire()'s search of the deque.
LEMMA PopIdleShape ==
  ASSUME Shape, Hands, NEW t \in Tasks, PopIdle(t)
  PROVE  /\ conn' \in [Conns -> ConnState]
         /\ idle' \in Seq(Conns)
         /\ pc' \in [Tasks -> {"out", "wait", "lock", "purge", "open", "use", "park", "shut"}]
         /\ held' \in [Tasks -> Conns \cup {NoConn}]
         /\ Hands'
<1> USE DEF Shape
<1>1. PICK stale \in SUBSET Elems(idle), k \in 1..(Len(idle) + 1) :
        LET found   == k <= Len(idle)
            toClose == {idle[i] : i \in 1..(k - 1)}
        IN /\ idle' = SubSeq(idle, k + 1, Len(idle))
           /\ Hold(t, IF found THEN idle[k] ELSE NoConn)
           /\ conn' = [c \in Conns |->
                         IF c \in toClose THEN Unused
                         ELSE IF found /\ c = idle[k]
                              THEN [conn[c] EXCEPT !.served = @ + 1]
                              ELSE conn[c]]
           /\ GoTo(t, IF toClose # {} THEN "purge"
                      ELSE IF found THEN "use" ELSE "open")
  BY DEF PopIdle
<1>2. Len(idle) \in Nat
  BY LenProperties
<1>3. k <= Len(idle) => idle[k] \in Conns
  BY <1>2, ElementOfSeq
<1>4. idle' \in Seq(Conns)
  BY <1>1, <1>2, SliceType
<1>5. held' \in [Tasks -> Conns \cup {NoConn}]
  BY <1>1, <1>3 DEF Hold
<1>6. pc' \in [Tasks -> {"out", "wait", "lock", "purge", "open", "use", "park", "shut"}]
  BY <1>1 DEF GoTo
<1>7. conn' \in [Conns -> ConnState]
  <2>1. ASSUME NEW c \in Conns
        PROVE  [conn[c] EXCEPT !.served = @ + 1] \in ConnState
    <3>1. conn[c] \in ConnState /\ conn[c].served + 1 \in Nat
      BY ConnCounts
    <3> QED  BY <3>1, ConnUpdate
  <2>2. Unused \in ConnState
    BY DEF ConnState, Unused
  <2>3. \A c \in Conns : conn[c] \in ConnState
    OBVIOUS
  <2> HIDE DEF Shape
  <2> QED  BY <1>1, <2>1, <2>2, <2>3
<1>8. Hands'
  <2> SUFFICES ASSUME NEW u \in Tasks
               PROVE  /\ pc'[u] \in {"use", "park"} => held'[u] \in Conns
                      /\ pc'[u] \in {"out", "wait", "lock", "open", "shut"} => held'[u] = NoConn
    BY DEF Hands
  <2>1. CASE u = t
    <3>1. pc'[t] \in {"purge", "use", "open"}
      BY <1>1 DEF GoTo
    <3>2. pc'[t] = "use" => k <= Len(idle) /\ held'[t] = idle[k]
      BY <1>1 DEF GoTo, Hold
    <3>3. pc'[t] = "open" => held'[t] = NoConn
      BY <1>1 DEF GoTo, Hold
    <3>4. pc'[t] \in {"use", "park"} => held'[t] \in Conns
      BY <3>1, <3>2, <1>3
    <3>5. pc'[t] \in {"out", "wait", "lock", "open", "shut"} => held'[t] = NoConn
      BY <3>1, <3>3
    <3> QED  BY <2>1, <3>4, <3>5
  <2>2. CASE u # t
    BY <2>2, <1>1 DEF Hold, GoTo, Hands
  <2> QED  BY <2>1, <2>2
<1> QED  BY <1>4, <1>5, <1>6, <1>7, <1>8

LEMMA ShapeStep == Shape /\ Hands /\ [Next]_vars => Shape' /\ Hands'
<1> SUFFICES ASSUME Shape, Hands, [Next]_vars
             PROVE  Shape' /\ Hands'
  OBVIOUS
<1> USE DEF Shape
<1>1. ASSUME NEW t \in Tasks, Enter(t) PROVE Shape' /\ Hands'
  BY <1>1 DEF Enter, GoTo, Hands
<1>2. ASSUME NEW t \in Tasks, AcquireNow(t) PROVE Shape' /\ Hands'
  BY <1>2, PopIdleShape DEF AcquireNow, TakePermit
<1>3. ASSUME NEW t \in Tasks, QueueForLock(t) PROVE Shape' /\ Hands'
  BY <1>3 DEF QueueForLock, TakePermit, GoTo, Hands
<1>4. ASSUME NEW t \in Tasks, LockGranted(t) PROVE Shape' /\ Hands'
  BY <1>4, PopIdleShape DEF LockGranted
<1>5. ASSUME NEW t \in Tasks, PurgeDone(t) PROVE Shape' /\ Hands'
  BY <1>5 DEF PurgeDone, GoTo, Hands
<1>6. ASSUME NEW t \in Tasks, Open(t) PROVE Shape' /\ Hands'
  BY <1>6 DEF Open, GoTo, Hold, Hands, ConnState, Opened
<1>7. ASSUME NEW t \in Tasks, GiveUpWaiting(t) PROVE Shape' /\ Hands'
  BY <1>7 DEF GiveUpWaiting, GoTo, Hands
<1>8. ASSUME NEW t \in Tasks, AcquireFails(t) PROVE Shape' /\ Hands'
  BY <1>8 DEF AcquireFails, GoTo, Hold, Hands, ConnState, Unused
<1>9. ASSUME NEW t \in Tasks, SendRequest(t) PROVE Shape' /\ Hands'
  BY <1>9 DEF SendRequest, Hands, ConnState
<1>10. ASSUME NEW t \in Tasks, ReadResponse(t) PROVE Shape' /\ Hands'
  BY <1>10 DEF ReadResponse, Hands, ConnState
<1>11. ASSUME NEW t \in Tasks, CloseInUse(t) PROVE Shape' /\ Hands'
  BY <1>11 DEF CloseInUse, Hands, ConnState
<1>12. ASSUME NEW t \in Tasks, ReleaseClosed(t) PROVE Shape' /\ Hands'
  BY <1>12 DEF ReleaseClosed, GoTo, Hold, Hands, ConnState, Unused
<1>13. ASSUME NEW t \in Tasks, ReleaseWornOut(t) PROVE Shape' /\ Hands'
  BY <1>13 DEF ReleaseWornOut, GoTo, Hold, Hands, ConnState, Unused
<1>14. ASSUME NEW t \in Tasks, NEW n \in Nat, held[t] \in Conns, Deposit(t, n)
       PROVE  Shape' /\ Hands'
  <2>1. [conn[held[t]] EXCEPT !.count = n] \in ConnState /\ Unused \in ConnState
    BY <1>14, ConnUpdate DEF ConnState, Unused
  <2>2. conn' \in [Conns -> ConnState]
    BY <1>14, <2>1 DEF Deposit
  <2>3. Append(idle, held[t]) \in Seq(Conns)
    BY <1>14
  <2>4. idle' \in Seq(Conns)
    BY <1>14, <2>3 DEF Deposit
  <2>5. /\ \E p \in {"out", "shut"} : pc' = [pc EXCEPT ![t] = p]
        /\ held' = [held EXCEPT ![t] = NoConn]
        /\ permits' \in Nat
        /\ UNCHANGED <<keep, reaping, closing, drained, leaked>>
    BY <1>14 DEF Deposit, GoTo, Hold
  <2>6. Hands'
    BY <2>5 DEF Hands
  <2> QED  BY <2>2, <2>4, <2>5, <2>6
<1>15. ASSUME NEW t \in Tasks, Release(t) PROVE Shape' /\ Hands'
  <2>1. held[t] \in Conns /\ conn[held[t]].count + 1 \in Nat
    BY <1>15 DEF Release, Hands, ConnState
  <2> QED  BY <1>15, <1>14, <2>1 DEF Release
<1>16. ASSUME NEW t \in Tasks, ReleaseBlocked(t) PROVE Shape' /\ Hands'
  <2>1. held[t] \in Conns
    BY <1>16 DEF ReleaseBlocked, Hands
  <2>2. conn[held[t]] \in ConnState /\ conn[held[t]].count + 1 \in Nat
    BY <2>1, ConnCounts
  <2>3. conn' \in [Conns -> ConnState]
    BY <1>16, <2>2, ConnUpdate DEF ReleaseBlocked
  <2> QED  BY <1>16, <2>1, <2>3 DEF ReleaseBlocked, GoTo, Hands
<1>17. ASSUME NEW t \in Tasks, ReleaseParked(t) PROVE Shape' /\ Hands'
  <2>1. held[t] \in Conns /\ conn[held[t]].count \in Nat
    BY <1>17 DEF ReleaseParked, Hands, ConnState
  <2> QED  BY <1>17, <1>14, <2>1 DEF ReleaseParked
<1>18. ASSUME NEW t \in Tasks, ReleaseCancelled(t) PROVE Shape' /\ Hands'
  BY <1>18 DEF ReleaseCancelled, GoTo, Hold, Hands, ConnState, Unused
<1>19. CASE ReapClose
  <2>1. PICK k \in 1..Len(idle) :
          /\ keep' = keep \o SubSeq(idle, 1, k - 1)
          /\ idle' = SubSeq(idle, k + 1, Len(idle))
          /\ conn' = [conn EXCEPT ![idle[k]] = Unused]
    BY <1>19 DEF ReapClose
  <2>2. Len(idle) \in Nat /\ idle[k] \in Conns
    BY LenProperties, ElementOfSeq
  <2>3. SubSeq(idle, 1, k - 1) \in Seq(Conns) /\ idle' \in Seq(Conns)
    BY <2>1, <2>2, SliceType
  <2>4. keep' \in Seq(Conns)
    BY <2>1, <2>3, ConcatProperties
  <2> QED  BY <1>19, <2>1, <2>2, <2>3, <2>4 DEF ReapClose, Hands, ConnState, Unused
<1>20. CASE ReapEnd
  BY <1>20, ConcatProperties, EmptySeq DEF ReapEnd, Hands
<1>21. CASE ReapCancelled
  BY <1>21, EmptySeq DEF ReapCancelled, Hands, ConnState, Unused
<1>22. CASE BeginShutdown
  BY <1>22 DEF BeginShutdown, Hands
<1>23. CASE Drain
  BY <1>23, EmptySeq DEF Drain, Hands, ConnState, Unused
<1>24. ASSUME NEW c \in Conns, PeerClose(c) PROVE Shape' /\ Hands'
  BY <1>24 DEF PeerClose, Hands, ConnState
<1>25. CASE UNCHANGED vars
  BY <1>25 DEF vars, Hands
<1>26. ASSUME NEW t \in Tasks, ShutDone(t) PROVE Shape' /\ Hands'
  BY <1>26 DEF ShutDone, GoTo, Hands
<1> QED
  BY <1>1, <1>2, <1>3, <1>4, <1>5, <1>6, <1>7, <1>8, <1>9, <1>10, <1>11, <1>12, <1>13,
     <1>15, <1>16, <1>17, <1>18, <1>19, <1>20, <1>21, <1>22, <1>23, <1>24, <1>25, <1>26
  DEF Next, TaskStep, Reap

--------------------------------------------------------------------------------
(* Permits *)

\* The places at which a task owns a permit.
Inside == {"lock", "purge", "open", "use", "park"}

LEMMA HoldersFinite ==
  IsFiniteSet(Holders) /\ Cardinality(Holders) \in Nat
<1>1. Holders \subseteq Tasks
  BY DEF Holders
<1> QED  BY <1>1, PoolAssumption, FS_Subset, FS_CardinalityType

LEMMA HoldersSame ==
  ASSUME Shape, NEW t \in Tasks, NEW p, GoTo(t, p),
         pc[t] \in Inside <=> p \in Inside
  PROVE  Holders' = Holders
BY DEF Shape, Holders, GoTo, Inside

LEMMA HoldersIn ==
  ASSUME Shape, NEW t \in Tasks, NEW p \in Inside, GoTo(t, p), pc[t] \notin Inside
  PROVE  Cardinality(Holders') = Cardinality(Holders) + 1
<1>1. Holders' = Holders \cup {t} /\ t \notin Holders
  BY DEF Shape, Holders, GoTo, Inside
<1> QED  BY <1>1, HoldersFinite, FS_AddElement

LEMMA HoldersOut ==
  ASSUME Shape, NEW t \in Tasks, NEW p, p \notin Inside, GoTo(t, p), pc[t] \in Inside
  PROVE  Cardinality(Holders') = Cardinality(Holders) - 1
<1>1. Holders' = Holders \ {t} /\ t \in Holders
  BY DEF Shape, Holders, GoTo, Inside
<1> QED  BY <1>1, HoldersFinite, FS_RemoveElement

\* The search of the deque leaves the task inside.
LEMMA PopIdleGoesIn ==
  ASSUME NEW t \in Tasks, PopIdle(t)
  PROVE  \E p \in Inside : GoTo(t, p)
<1>1. PICK stale \in SUBSET Elems(idle), k \in 1..(Len(idle) + 1) :
        GoTo(t, IF {idle[i] : i \in 1..(k - 1)} # {} THEN "purge"
                ELSE IF k <= Len(idle) THEN "use" ELSE "open")
  BY DEF PopIdle
<1> QED  BY <1>1 DEF Inside

LEMMA AccountingInit == Init => PermitAccounting
<1> SUFFICES ASSUME Init PROVE PermitAccounting
  OBVIOUS
<1>1. Holders = {}
  BY DEF Init, Holders
<1> QED  BY <1>1, FS_EmptySet, PoolAssumption DEF Init, PermitAccounting

LEMMA AccountingStep ==
  Shape /\ PermitAccounting /\ [Next]_vars => PermitAccounting'
<1> SUFFICES ASSUME Shape, PermitAccounting, [Next]_vars
             PROVE  PermitAccounting'
  OBVIOUS
<1> USE DEF PermitAccounting
<1>0. permits \in Nat /\ leaked \in Nat /\ Cardinality(Holders) \in Nat
  BY HoldersFinite DEF Shape
\* Steps at which a permit changes hands ...
<1>1. ASSUME NEW t \in Tasks, AcquireNow(t) PROVE PermitAccounting'
  <2>1. Cardinality(Holders') = Cardinality(Holders) + 1
    BY <1>1, PopIdleGoesIn, HoldersIn DEF AcquireNow, TakePermit, Inside
  <2> QED  BY <1>0, <1>1, <2>1 DEF AcquireNow, TakePermit
<1>2. ASSUME NEW t \in Tasks, QueueForLock(t) PROVE PermitAccounting'
  <2>1. Cardinality(Holders') = Cardinality(Holders) + 1
    BY <1>2, HoldersIn DEF QueueForLock, TakePermit, Inside
  <2> QED  BY <1>0, <1>2, <2>1 DEF QueueForLock, TakePermit
<1>3. ASSUME NEW t \in Tasks, pc[t] \in Inside, NEW p \in {"out", "shut"}, GoTo(t, p),
             \/ permits' = permits + 1 /\ leaked' = leaked
             \/ permits' = permits /\ leaked' = leaked + 1
      PROVE  PermitAccounting'
  <2>1. Cardinality(Holders') = Cardinality(Holders) - 1
    BY <1>3, HoldersOut DEF Inside
  <2> QED  BY <1>0, <1>3, <2>1
<1>4. ASSUME NEW t \in Tasks,
             \/ AcquireFails(t) \/ ReleaseClosed(t) \/ ReleaseWornOut(t)
             \/ Release(t) \/ ReleaseParked(t) \/ ReleaseCancelled(t)
      PROVE  PermitAccounting'
  BY <1>3, <1>4 DEF Inside, AcquireFails, ReleaseClosed, ReleaseWornOut, Release,
     ReleaseParked, ReleaseCancelled, Deposit
\* ... and steps at which none does.
<1>5. ASSUME UNCHANGED <<permits, leaked>>, Holders' = Holders
      PROVE  PermitAccounting'
  BY <1>5
<1>6. ASSUME NEW t \in Tasks, LockGranted(t) PROVE PermitAccounting'
  BY <1>5, <1>6, PopIdleGoesIn, HoldersSame DEF LockGranted, Inside
<1>7. ASSUME NEW t \in Tasks,
             \/ Enter(t) \/ PurgeDone(t) \/ Open(t) \/ GiveUpWaiting(t)
             \/ ReleaseBlocked(t) \/ ShutDone(t)
      PROVE  PermitAccounting'
  BY <1>5, <1>7, HoldersSame DEF Inside, Enter, PurgeDone, Open, GiveUpWaiting,
     ReleaseBlocked, ShutDone
<1>8. ASSUME UNCHANGED <<permits, leaked, pc>> PROVE PermitAccounting'
  BY <1>5, <1>8 DEF Holders
<1>9. ASSUME NEW t \in Tasks, SendRequest(t) \/ ReadResponse(t) \/ CloseInUse(t)
      PROVE  PermitAccounting'
  BY <1>8, <1>9 DEF SendRequest, ReadResponse, CloseInUse
<1>10. CASE Reap \/ BeginShutdown \/ Drain \/ \E c \in Conns : PeerClose(c)
  BY <1>8, <1>10 DEF Reap, ReapClose, ReapEnd, ReapCancelled, BeginShutdown, Drain,
     PeerClose
<1>11. CASE UNCHANGED vars
  BY <1>8, <1>11 DEF vars
<1> QED
  BY <1>1, <1>2, <1>4, <1>6, <1>7, <1>9, <1>10, <1>11 DEF Next, TaskStep

\* What one step needs of the state before it, for both results.
IInv == Shape /\ Hands /\ PermitAccounting

LEMMA IInvHolds == Spec => []IInv
<1>1. Init => IInv
  BY ShapeInit, AccountingInit DEF IInv
<1>2. IInv /\ [Next]_vars => IInv'
  BY ShapeStep, AccountingStep DEF IInv
<1> QED  BY <1>1, <1>2, PTL DEF Spec

\* Every variable keeps its type; the counters stay between 0 and MaxConns.
THEOREM TypeCorrect == Spec => []TypeOK
<1>1. IInv => TypeOK
  <2> SUFFICES ASSUME IInv PROVE TypeOK
    OBVIOUS
  <2>1. permits \in 0..MaxConns /\ leaked \in 0..MaxConns
    BY HoldersFinite, PoolAssumption DEF IInv, Shape, PermitAccounting
  <2> QED  BY <2>1 DEF IInv, Shape, TypeOK
<1> QED  BY <1>1, IInvHolds, PTL

\* No path through acquire() and release() creates a permit, and none loses one
\* but the cancellation of a release() that waits for the lock.
THEOREM PermitsAccounted == Spec => []PermitAccounting
<1>1. IInv => PermitAccounting
  BY DEF IInv
<1> QED  BY <1>1, IInvHolds, PTL

--------------------------------------------------------------------------------
(* Exclusive use *)

\* Exclusive, spelled out for each pair of places.
Apart ==
  /\ \A t, u \in Tasks : t # u /\ held[t] # NoConn => held[t] # held[u]
  /\ \A t \in Tasks, i \in 1..Len(idle) : held[t] # idle[i]
  /\ \A t \in Tasks, i \in 1..Len(keep) : held[t] # keep[i]
  /\ \A i, j \in 1..Len(idle) : i # j => idle[i] # idle[j]
  /\ \A i, j \in 1..Len(keep) : i # j => keep[i] # keep[j]
  /\ \A i \in 1..Len(idle), j \in 1..Len(keep) : idle[i] # keep[j]

LEMMA ApartIsExclusive == Shape /\ Apart => Exclusive
<1> SUFFICES ASSUME Shape, Apart PROVE Exclusive
  OBVIOUS
<1> DEFINE both == idle \o keep
<1>1. Len(idle) \in Nat /\ Len(keep) \in Nat
  BY LenProperties DEF Shape
<1>2. /\ Len(both) = Len(idle) + Len(keep)
      /\ \A i \in 1..Len(both) :
           both[i] = IF i <= Len(idle) THEN idle[i] ELSE keep[i - Len(idle)]
  BY ConcatProperties DEF Shape
<1> HIDE DEF both
<1>3. \A i \in 1..Len(both) :
        \/ i \in 1..Len(idle) /\ both[i] = idle[i]
        \/ i - Len(idle) \in 1..Len(keep) /\ both[i] = keep[i - Len(idle)]
  BY <1>1, <1>2
<1>4. \A t \in Tasks : held[t] \notin Elems(both)
  BY <1>3 DEF Apart, Elems
<1>5. \A i, j \in 1..Len(both) : i # j => both[i] # both[j]
  <2> SUFFICES ASSUME NEW i \in 1..Len(both), NEW j \in 1..Len(both), i # j
               PROVE  both[i] # both[j]
    OBVIOUS
  <2>1. i \in Nat /\ j \in Nat /\ i - Len(idle) # j - Len(idle)
    BY <1>1, <1>2
  <2> QED  BY <2>1, <1>3, SMTT(30) DEF Apart
<1> QED  BY <1>4, <1>5 DEF Exclusive, Apart, both

\* A task that lets its connection go, to nobody.
LEMMA ApartDrop ==
  ASSUME Shape, Apart, NEW t \in Tasks, Hold(t, NoConn), UNCHANGED <<idle, keep>>
  PROVE  Apart'
<1>1. \A i \in 1..Len(idle) : idle[i] # NoConn
  BY PoolAssumption, ElementOfSeq DEF Shape
<1>2. \A i \in 1..Len(keep) : keep[i] # NoConn
  BY PoolAssumption, ElementOfSeq DEF Shape
<1> QED  BY <1>1, <1>2 DEF Shape, Apart, Hold

LEMMA ApartPopIdle ==
  ASSUME Shape, Apart, NEW t \in Tasks, PopIdle(t), held[t] = NoConn, UNCHANGED keep
  PROVE  Apart'
<1>1. PICK k \in 1..(Len(idle) + 1) :
        /\ idle' = SubSeq(idle, k + 1, Len(idle))
        /\ Hold(t, IF k <= Len(idle) THEN idle[k] ELSE NoConn)
  BY DEF PopIdle
<1>2. /\ Len(idle) \in Nat
      /\ \A i \in 1..Len(idle) : idle[i] \in Conns
      /\ \A i \in 1..Len(keep) : keep[i] \in Conns
  BY LenProperties, ElementOfSeq DEF Shape
<1>3. \A i \in 1..Len(idle') :
        i + k \in 1..Len(idle) /\ k < i + k /\ idle'[i] = idle[i + k]
  BY <1>1, TailSlice DEF Shape
<1>4. held' = [held EXCEPT ![t] = IF k <= Len(idle) THEN idle[k] ELSE NoConn]
  BY <1>1 DEF Hold
<1>5. \A u, v \in Tasks : u # v /\ held'[u] # NoConn => held'[u] # held'[v]
  BY <1>2, <1>4, PoolAssumption DEF Apart, Shape
<1>6. \A u \in Tasks, i \in 1..Len(idle') : held'[u] # idle'[i]
  BY <1>2, <1>3, <1>4, PoolAssumption DEF Apart, Shape
<1>7. \A u \in Tasks, i \in 1..Len(keep) : held'[u] # keep[i]
  BY <1>2, <1>4, PoolAssumption DEF Apart, Shape
<1>8. \A i, j \in 1..Len(idle') : i # j => idle'[i] # idle'[j]
  <2> SUFFICES ASSUME NEW i \in 1..Len(idle'), NEW j \in 1..Len(idle'), i # j
               PROVE  idle[i + k] # idle[j + k]
    BY <1>3
  <2> QED  BY <1>2, <1>3 DEF Apart
<1>9. \A i \in 1..Len(idle'), j \in 1..Len(keep) : idle'[i] # keep[j]
  BY <1>3 DEF Apart
<1> QED  BY <1>5, <1>6, <1>7, <1>8, <1>9 DEF Apart

LEMMA ApartDeposit ==
  ASSUME Shape, Apart, NEW t \in Tasks, NEW n, held[t] \in Conns, Deposit(t, n)
  PROVE  Apart'
<1>1. CASE idle' = idle
  BY <1>1, ApartDrop DEF Deposit
<1>2. CASE idle' = Append(idle, held[t])
  <2>1. /\ Len(idle) \in Nat
        /\ \A i \in 1..Len(idle) : idle[i] \in Conns
        /\ \A i \in 1..Len(keep) : keep[i] \in Conns
    BY LenProperties, ElementOfSeq DEF Shape
  <2>2. /\ Len(idle') = Len(idle) + 1
        /\ \A i \in 1..Len(idle') : idle'[i] = IF i <= Len(idle) THEN idle[i] ELSE held[t]
    BY <1>2, <2>1 DEF Shape
  <2>3. held' = [held EXCEPT ![t] = NoConn] /\ keep' = keep
    BY DEF Deposit, Hold
  <2>4. \A u, v \in Tasks : u # v /\ held'[u] # NoConn => held'[u] # held'[v]
    BY <2>3 DEF Apart, Shape
  <2>5. \A i \in 1..Len(idle') : i <= Len(idle) => i \in 1..Len(idle)
    BY <2>1, <2>2
  <2>6. \A u \in Tasks, i \in 1..Len(idle') : held'[u] # idle'[i]
    BY <2>1, <2>2, <2>3, <2>5, PoolAssumption DEF Apart, Shape
  <2>7. \A u \in Tasks, i \in 1..Len(keep) : held'[u] # keep[i]
    BY <2>1, <2>3, PoolAssumption DEF Apart, Shape
  <2>8. \A i, j \in 1..Len(idle') : i # j => idle'[i] # idle'[j]
    <3> SUFFICES ASSUME NEW i \in 1..Len(idle'), NEW j \in 1..Len(idle'), i # j
                 PROVE  idle'[i] # idle'[j]
      OBVIOUS
    <3>1. i \in 1..Len(idle) \/ j \in 1..Len(idle)
      BY <2>1, <2>2
    <3> QED  BY <2>2, <2>5, <3>1 DEF Apart
  <2>9. \A i \in 1..Len(idle'), j \in 1..Len(keep) : idle'[i] # keep[j]
    BY <2>2, <2>5 DEF Apart
  <2> QED  BY <2>3, <2>4, <2>6, <2>7, <2>8, <2>9 DEF Apart
<1> QED  BY <1>1, <1>2 DEF Deposit

LEMMA ApartReapClose ==
  ASSUME Shape, Apart, ReapClose
  PROVE  Apart'
<1>1. PICK k \in 1..Len(idle) :
        /\ keep' = keep \o SubSeq(idle, 1, k - 1)
        /\ idle' = SubSeq(idle, k + 1, Len(idle))
  BY DEF ReapClose
<1>2. Len(idle) \in Nat /\ Len(keep) \in Nat
  BY LenProperties DEF Shape
<1>3. \A i \in 1..Len(idle') :
        i + k \in 1..Len(idle) /\ k < i + k /\ idle'[i] = idle[i + k]
  <2>1. k \in 1..(Len(idle) + 1)
    BY <1>2
  <2> QED  BY <1>1, <2>1, TailSlice DEF Shape
<1>4. /\ Len(keep') = Len(keep) + k - 1
      /\ \A i \in 1..Len(keep') :
           \/ i \in 1..Len(keep) /\ keep'[i] = keep[i]
           \/ /\ i - Len(keep) \in 1..(k - 1)
              /\ i - Len(keep) \in 1..Len(idle)
              /\ keep'[i] = idle[i - Len(keep)]
  <2> DEFINE front == SubSeq(idle, 1, k - 1)
  <2>1. /\ front \in Seq(Conns)
        /\ Len(front) = k - 1
        /\ \A n \in 1..(k - 1) : front[n] = idle[n]
    BY <1>2, SliceType DEF Shape
  <2> HIDE DEF front
  <2>2. /\ Len(keep') = Len(keep) + Len(front)
        /\ \A i \in 1..(Len(keep) + Len(front)) :
             keep'[i] = IF i <= Len(keep) THEN keep[i] ELSE front[i - Len(keep)]
    BY <1>1, <2>1, ConcatProperties DEF Shape, front
  <2> QED  BY <1>2, <2>1, <2>2
<1>5. held' = held
  BY DEF ReapClose
<1>6. \A u \in Tasks, i \in 1..Len(idle') : held[u] # idle'[i]
  BY <1>3 DEF Apart
<1>7. \A u \in Tasks, i \in 1..Len(keep') : held[u] # keep'[i]
  BY <1>4 DEF Apart
<1>8. \A i, j \in 1..Len(idle') : i # j => idle'[i] # idle'[j]
  <2> SUFFICES ASSUME NEW i \in 1..Len(idle'), NEW j \in 1..Len(idle'), i # j
               PROVE  idle[i + k] # idle[j + k]
    BY <1>3
  <2> QED  BY <1>2, <1>3 DEF Apart
<1>9. \A i, j \in 1..Len(keep') : i # j => keep'[i] # keep'[j]
  <2> SUFFICES ASSUME NEW i \in 1..Len(keep'), NEW j \in 1..Len(keep'), i # j
               PROVE  keep'[i] # keep'[j]
    OBVIOUS
  <2>1. i \in Nat /\ j \in Nat /\ i - Len(keep) # j - Len(keep)
    BY <1>2, <1>4
  <2>2. CASE i \in 1..Len(keep) /\ keep'[i] = keep[i]
    BY <2>1, <2>2, <1>4 DEF Apart
  <2>3. CASE i - Len(keep) \in 1..Len(idle) /\ keep'[i] = idle[i - Len(keep)]
    BY <2>1, <2>3, <1>4 DEF Apart
  <2> QED  BY <2>2, <2>3, <1>4
<1>10. \A i \in 1..Len(idle'), j \in 1..Len(keep') : idle'[i] # keep'[j]
  <2> SUFFICES ASSUME NEW i \in 1..Len(idle'), NEW j \in 1..Len(keep')
               PROVE  idle[i + k] # keep'[j]
    BY <1>3
  <2> QED  BY <1>2, <1>3, <1>4 DEF Apart
<1> QED  BY <1>5, <1>6, <1>7, <1>8, <1>9, <1>10 DEF Apart

LEMMA ApartReapEnd ==
  ASSUME Shape, Apart, ReapEnd
  PROVE  Apart'
<1>1. Len(idle) \in Nat /\ Len(keep) \in Nat
  BY LenProperties DEF Shape
<1>2. /\ Len(idle') = Len(keep) + Len(idle)
      /\ \A i \in 1..(Len(keep) + Len(idle)) :
           idle'[i] = IF i <= Len(keep) THEN keep[i] ELSE idle[i - Len(keep)]
  BY ConcatProperties DEF ReapEnd, Shape
<1>3. \A i \in 1..Len(idle') :
        \/ i \in 1..Len(keep) /\ idle'[i] = keep[i]
        \/ i - Len(keep) \in 1..Len(idle) /\ idle'[i] = idle[i - Len(keep)]
  BY <1>1, <1>2
<1>4. Len(keep') = 0 /\ held' = held
  BY EmptySeq DEF ReapEnd
<1>5. \A u \in Tasks, i \in 1..Len(idle') : held[u] # idle'[i]
  BY <1>3 DEF Apart
<1>6. \A i, j \in 1..Len(idle') : i # j => idle'[i] # idle'[j]
  <2> SUFFICES ASSUME NEW i \in 1..Len(idle'), NEW j \in 1..Len(idle'), i # j
               PROVE  idle'[i] # idle'[j]
    OBVIOUS
  <2> QED  BY <1>1, <1>2, <1>3 DEF Apart
<1> QED  BY <1>4, <1>5, <1>6 DEF Apart

LEMMA ApartStep == Shape /\ Hands /\ Apart /\ [Next]_vars => Apart'
<1> SUFFICES ASSUME Shape, Hands, Apart, [Next]_vars
             PROVE  Apart'
  OBVIOUS
<1>1. ASSUME UNCHANGED <<idle, keep, held>> PROVE Apart'
  BY <1>1 DEF Apart
<1>2. ASSUME NEW t \in Tasks, AcquireNow(t) \/ LockGranted(t) PROVE Apart'
  <2>1. held[t] = NoConn
    BY <1>2 DEF AcquireNow, TakePermit, LockGranted, Hands
  <2> QED  BY <1>2, <2>1, ApartPopIdle DEF AcquireNow, LockGranted
<1>3. ASSUME NEW t \in Tasks, Open(t) PROVE Apart'
  <2>1. PICK c \in Conns \ Known : Hold(t, c)
    BY <1>3 DEF Open
  <2>2. UNCHANGED <<idle, keep>>
    BY <1>3 DEF Open
  <2> QED  BY <2>1, <2>2, PoolAssumption DEF Apart, Hold, Known, Elems, Shape
<1>4. ASSUME NEW t \in Tasks,
             \/ AcquireFails(t) \/ ReleaseClosed(t) \/ ReleaseWornOut(t)
             \/ ReleaseCancelled(t)
      PROVE  Apart'
  BY <1>4, ApartDrop DEF AcquireFails, ReleaseClosed, ReleaseWornOut, ReleaseCancelled
<1>5. ASSUME NEW t \in Tasks, Release(t) \/ ReleaseParked(t) PROVE Apart'
  <2>1. held[t] \in Conns
    BY <1>5 DEF Release, ReleaseParked, Hands
  <2> QED  BY <1>5, <2>1, ApartDeposit DEF Release, ReleaseParked
<1>6. ASSUME NEW t \in Tasks,
             \/ Enter(t) \/ QueueForLock(t) \/ PurgeDone(t) \/ GiveUpWaiting(t)
             \/ SendRequest(t) \/ ReadResponse(t) \/ CloseInUse(t) \/ ReleaseBlocked(t)
             \/ ShutDone(t)
      PROVE  Apart'
  BY <1>1, <1>6 DEF Enter, QueueForLock, TakePermit, PurgeDone, GiveUpWaiting,
     SendRequest, ReadResponse, CloseInUse, ReleaseBlocked, ShutDone
<1>7. CASE ReapCancelled
  BY <1>7, EmptySeq DEF ReapCancelled, Apart
<1>8. CASE Drain
  BY <1>8, EmptySeq DEF Drain, Apart
<1>9. CASE BeginShutdown \/ (\E c \in Conns : PeerClose(c)) \/ UNCHANGED vars
  BY <1>1, <1>9 DEF BeginShutdown, PeerClose, vars
<1> QED
  BY <1>2, <1>3, <1>4, <1>5, <1>6, <1>7, <1>8, <1>9, ApartReapClose, ApartReapEnd
  DEF Next, TaskStep, Reap

\* Two requests never share a connection, and none is in use and idle at once.
THEOREM ConnectionsExclusive == Spec => []Exclusive
<1>1. Init => Shape /\ Hands /\ Apart
  BY ShapeInit, EmptySeq DEF Init, Apart
<1>2. Shape /\ Hands /\ Apart /\ [Next]_vars => Shape' /\ Hands' /\ Apart'
  BY ShapeStep, ApartStep
<1>3. Shape /\ Hands /\ Apart => Exclusive
  BY ApartIsExclusive
<1> QED  BY <1>1, <1>2, <1>3, PTL DEF Spec
================================================================================
