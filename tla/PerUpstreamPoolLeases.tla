------------------------- MODULE PerUpstreamPoolLeases -------------------------
(***************************************************************************)
(* More proofs about PerUpstreamPool: which connections exist, how many    *)
(* there are, and that the pool implements ConnectionLeases.               *)
(***************************************************************************)
EXTENDS PerUpstreamPoolProofs

\* Connections that are idle, in the deque or in the hands of the reaper.
Stored == Elems(idle) \cup Elems(keep)

\* Apart, in terms of the sets of connections.
LEMMA StoredApart ==
  ASSUME Shape, Apart
  PROVE  /\ Stored \subseteq Conns /\ NoConn \notin Stored
         /\ Elems(idle) \cap Elems(keep) = {}
         /\ \A t \in Tasks : held[t] \notin Stored
BY PoolAssumption, ElementOfSeq DEF Shape, Apart, Stored, Elems

\* What the search of the deque does: it closes some connections and takes at
\* most one, which has been used less than it may be; if it takes none, the deque
\* is empty.
LEMMA PopIdleSets ==
  ASSUME Shape, Apart, NEW t \in Tasks, PopIdle(t)
  PROVE  \E closed \in SUBSET Elems(idle), c \in Elems(idle) \cup {NoConn} :
           /\ c \notin closed
           /\ c # NoConn => conn[c].count < MaxRequests /\ Len(idle') < Len(idle)
           /\ c = NoConn => idle' = <<>>
           /\ Elems(idle)' = Elems(idle) \ (closed \cup {c})
           /\ held' = [held EXCEPT ![t] = c]
           /\ conn' = [d \in Conns |->
                         IF d \in closed THEN Unused
                         ELSE IF d = c THEN [conn[d] EXCEPT !.served = @ + 1]
                         ELSE conn[d]]
           /\ \E p \in {"purge", "use", "open"} : GoTo(t, p)
<1>1. PICK stale \in SUBSET Elems(idle), k \in 1..(Len(idle) + 1) :
        LET found   == k <= Len(idle)
            toClose == {idle[i] : i \in 1..(k - 1)}
        IN /\ found => Usable(idle[k], stale)
           /\ idle' = SubSeq(idle, k + 1, Len(idle))
           /\ Hold(t, IF found THEN idle[k] ELSE NoConn)
           /\ conn' = [c \in Conns |->
                         IF c \in toClose THEN Unused
                         ELSE IF found /\ c = idle[k]
                              THEN [conn[c] EXCEPT !.served = @ + 1]
                              ELSE conn[c]]
           /\ GoTo(t, IF toClose # {} THEN "purge"
                      ELSE IF found THEN "use" ELSE "open")
  BY DEF PopIdle
<1> DEFINE closed == {idle[i] : i \in 1..(k - 1)}
           c      == IF k <= Len(idle) THEN idle[k] ELSE NoConn
<1>2. /\ Len(idle) \in Nat /\ k \in Nat
      /\ \A i \in 1..Len(idle) : idle[i] \in Conns /\ idle[i] # NoConn
      /\ \A i, j \in 1..Len(idle) : i # j => idle[i] # idle[j]
  BY LenProperties, ElementOfSeq, PoolAssumption DEF Shape, Apart
<1>3. closed \in SUBSET Elems(idle) /\ c \in Elems(idle) \cup {NoConn} /\ c \notin closed
  BY <1>2 DEF Elems
<1>4. /\ Len(idle') = IF k + 1 <= Len(idle) THEN Len(idle) - k ELSE 0
      /\ \A i \in 1..Len(idle') : i + k \in 1..Len(idle) /\ k < i + k /\ idle'[i] = idle[i + k]
      /\ idle' \in Seq(Conns)
  <2>1. /\ SubSeq(idle, k + 1, Len(idle)) \in Seq(Conns)
        /\ Len(SubSeq(idle, k + 1, Len(idle)))
             = IF k + 1 <= Len(idle) THEN Len(idle) - (k + 1) + 1 ELSE 0
    BY <1>2, SliceType DEF Shape
  <2>2. \A i \in 1..Len(idle') : i + k \in 1..Len(idle) /\ k < i + k /\ idle'[i] = idle[i + k]
    BY <1>1, TailSlice DEF Shape
  <2> QED  BY <1>1, <1>2, <2>1, <2>2
<1>5. c # NoConn => conn[c].count < MaxRequests /\ Len(idle') < Len(idle)
  BY <1>1, <1>2, <1>4 DEF Usable
<1>6. c = NoConn => idle' = <<>>
  <2>1. c = NoConn => Len(idle') = 0
    BY <1>2, <1>4
  <2> QED  BY <1>4, <2>1, EmptySeq
<1>7. Elems(idle)' = Elems(idle) \ (closed \cup {c})
  <2>1. ASSUME NEW i \in 1..Len(idle') PROVE idle'[i] \in Elems(idle) \ (closed \cup {c})
    <3>1. i + k \in 1..Len(idle) /\ k < i + k /\ idle'[i] = idle[i + k]
      BY <1>4
    <3>2. \A j \in 1..k : j <= Len(idle) => idle[j] # idle[i + k]
      BY <1>2, <3>1
    <3>3. idle[i + k] \notin closed /\ idle[i + k] # c
      BY <1>2, <3>1, <3>2
    <3> QED  BY <3>1, <3>3 DEF Elems
  <2>2. ASSUME NEW j \in 1..Len(idle), idle[j] \notin closed \cup {c}
        PROVE  idle[j] \in {idle'[i] : i \in 1..Len(idle')}
    <3>1. j > k
      BY <1>2, <2>2
    <3>2. j - k \in 1..Len(idle') /\ idle'[j - k] = idle[(j - k) + k] /\ (j - k) + k = j
      BY <1>2, <1>4, <3>1
    <3> QED  BY <3>2
  <2> QED  BY <2>1, <2>2 DEF Elems
<1>8. held' = [held EXCEPT ![t] = c]
  BY <1>1 DEF Hold
<1>9. conn' = [d \in Conns |->
                 IF d \in closed THEN Unused
                 ELSE IF d = c THEN [conn[d] EXCEPT !.served = @ + 1]
                 ELSE conn[d]]
  BY <1>1, PoolAssumption
<1>10. \E p \in {"purge", "use", "open"} : GoTo(t, p)
  BY <1>1
<1> HIDE DEF closed, c
<1> QED  BY <1>3, <1>5, <1>6, <1>7, <1>8, <1>9, <1>10

\* What a step of the reaper that closes a connection does.
LEMMA ReapCloseSets ==
  ASSUME Shape, Apart, ReapClose
  PROVE  /\ \E c \in Elems(idle) :
              /\ Stored' = Stored \ {c}
              /\ conn' = [conn EXCEPT ![c] = Unused]
         /\ Len(idle') + Len(keep') = Len(idle) + Len(keep) - 1
<1>1. PICK k \in 1..Len(idle) :
        /\ keep' = keep \o SubSeq(idle, 1, k - 1)
        /\ idle' = SubSeq(idle, k + 1, Len(idle))
        /\ conn' = [conn EXCEPT ![idle[k]] = Unused]
  BY DEF ReapClose
<1>2. /\ Len(idle) \in Nat /\ Len(keep) \in Nat /\ k \in Nat
      /\ \A i, j \in 1..Len(idle) : i # j => idle[i] # idle[j]
      /\ \A i \in 1..Len(keep) : keep[i] # idle[k]
  BY LenProperties DEF Shape, Apart
<1>3. /\ Len(idle') = Len(idle) - k
      /\ \A i \in 1..Len(idle') : i + k \in 1..Len(idle) /\ k < i + k /\ idle'[i] = idle[i + k]
  <2>1. k \in 1..(Len(idle) + 1)
    BY <1>2
  <2> QED  BY <1>1, <1>2, <2>1, TailSlice, SliceType DEF Shape
<1> DEFINE front == SubSeq(idle, 1, k - 1)
<1>4. front \in Seq(Conns) /\ Len(front) = k - 1 /\ \A n \in 1..(k - 1) : front[n] = idle[n]
  BY <1>2, SliceType DEF Shape
<1> HIDE DEF front
<1>5. /\ Len(keep') = Len(keep) + (k - 1)
      /\ \A i \in 1..(Len(keep) + (k - 1)) :
           keep'[i] = IF i <= Len(keep) THEN keep[i] ELSE front[i - Len(keep)]
  BY <1>1, <1>4, ConcatProperties DEF Shape, front
<1>6. ASSUME NEW i \in 1..Len(idle') PROVE idle'[i] \in Stored \ {idle[k]}
  BY <1>2, <1>3 DEF Stored, Elems
<1>7. ASSUME NEW i \in 1..Len(keep') PROVE keep'[i] \in Stored \ {idle[k]}
  <2>1. CASE i <= Len(keep)
    <3>1. i \in 1..Len(keep) /\ keep'[i] = keep[i]
      BY <1>2, <1>5, <2>1
    <3> QED  BY <1>2, <3>1 DEF Stored, Elems
  <2>2. CASE i > Len(keep)
    <3>1. i - Len(keep) \in 1..(k - 1) /\ i - Len(keep) \in 1..Len(idle)
          /\ keep'[i] = front[i - Len(keep)]
      BY <1>2, <1>5, <2>2
    <3> QED  BY <1>2, <1>4, <3>1 DEF Stored, Elems
  <2> QED  BY <1>2, <1>5, <2>1, <2>2
<1>8. ASSUME NEW j \in 1..Len(idle), j # k PROVE idle[j] \in Stored'
  <2>1. CASE j > k
    <3>1. j - k \in 1..Len(idle') /\ idle'[j - k] = idle[(j - k) + k] /\ (j - k) + k = j
      BY <1>2, <1>3, <2>1
    <3> QED  BY <3>1 DEF Stored, Elems
  <2>2. CASE j < k
    <3>1. /\ Len(keep) + j \in 1..Len(keep') /\ j \in 1..(k - 1)
          /\ keep'[Len(keep) + j] = front[(Len(keep) + j) - Len(keep)]
          /\ (Len(keep) + j) - Len(keep) = j
      BY <1>2, <1>5, <2>2
    <3>2. keep'[Len(keep) + j] = idle[j]
      BY <1>4, <3>1
    <3> QED  BY <3>1, <3>2 DEF Stored, Elems
  <2> QED  BY <1>2, <1>8, <2>1, <2>2
<1>9. ASSUME NEW j \in 1..Len(keep) PROVE keep[j] \in Stored'
  <2>1. j \in 1..Len(keep') /\ keep'[j] = keep[j]
    BY <1>2, <1>5
  <2> QED  BY <2>1 DEF Stored, Elems
<1>10. Stored' = Stored \ {idle[k]}
  <2>1. Stored' \subseteq Stored \ {idle[k]}
    BY <1>6, <1>7 DEF Stored, Elems
  <2>2. Stored \ {idle[k]} \subseteq Stored'
    BY <1>8, <1>9 DEF Stored, Elems
  <2> QED  BY <2>1, <2>2
<1>11. idle[k] \in Elems(idle)
  BY DEF Elems
<1>12. Len(idle') + Len(keep') = Len(idle) + Len(keep) - 1
  BY <1>2, <1>3, <1>5
<1> QED  BY <1>1, <1>10, <1>11, <1>12

LEMMA ReapEndSets ==
  ASSUME Shape, ReapEnd
  PROVE  Stored' = Stored /\ keep' = <<>> /\ Len(idle') + Len(keep') = Len(idle) + Len(keep)
<1>1. Len(idle) \in Nat /\ Len(keep) \in Nat /\ Len(keep') = 0 /\ keep' = <<>>
  BY LenProperties, EmptySeq DEF ReapEnd, Shape
<1>2. /\ Len(idle') = Len(keep) + Len(idle)
      /\ \A i \in 1..(Len(keep) + Len(idle)) :
           idle'[i] = IF i <= Len(keep) THEN keep[i] ELSE idle[i - Len(keep)]
  BY ConcatProperties DEF ReapEnd, Shape
<1>3. ASSUME NEW i \in 1..Len(idle') PROVE idle'[i] \in Stored
  <2>1. CASE i <= Len(keep)
    <3>1. i \in 1..Len(keep) /\ idle'[i] = keep[i]
      BY <1>1, <1>2, <2>1
    <3> QED  BY <3>1 DEF Stored, Elems
  <2>2. CASE i > Len(keep)
    <3>1. i - Len(keep) \in 1..Len(idle) /\ idle'[i] = idle[i - Len(keep)]
      BY <1>1, <1>2, <2>2
    <3> QED  BY <3>1 DEF Stored, Elems
  <2> QED  BY <1>1, <1>2, <2>1, <2>2
<1>4. ASSUME NEW j \in 1..Len(keep) PROVE keep[j] \in Elems(idle')
  <2>1. j \in 1..Len(idle') /\ idle'[j] = keep[j]
    BY <1>1, <1>2
  <2> QED  BY <2>1 DEF Elems
<1>5. ASSUME NEW j \in 1..Len(idle) PROVE idle[j] \in Elems(idle')
  <2>1. /\ Len(keep) + j \in 1..Len(idle')
        /\ idle'[Len(keep) + j] = idle[(Len(keep) + j) - Len(keep)]
        /\ (Len(keep) + j) - Len(keep) = j
    BY <1>1, <1>2
  <2> QED  BY <2>1 DEF Elems
<1>6. Elems(keep') = {}
  BY <1>1 DEF Elems
<1>7. Stored' \subseteq Stored
  BY <1>3, <1>6 DEF Stored, Elems
<1>8. Stored \subseteq Stored'
  BY <1>4, <1>5 DEF Stored, Elems
<1>9. Stored' = Stored
  BY <1>7, <1>8
<1> QED  BY <1>1, <1>2, <1>9

--------------------------------------------------------------------------------
(* Connections that are known exist, and nothing else does; request_count is ahead *)
(* of the number of leases by the one that release() adds.                         *)

\* c exists, and has been counted n times more than it has been leased.
Entry(c, n) == conn[c].status # "none" /\ conn[c].count = conn[c].served + n

Books ==
  /\ \A c \in Stored : Entry(c, 1)
  /\ \A t \in Tasks : held[t] # NoConn => Entry(held[t], IF pc[t] = "park" THEN 1 ELSE 0)
  /\ \A c \in Conns \ Known : conn[c] = Unused
  /\ ~reaping => keep = <<>>

LEMMA BooksInit == Init => Books
<1> SUFFICES ASSUME Init PROVE Books
  OBVIOUS
<1>1. Stored = {}
  BY EmptySeq DEF Init, Stored, Elems
<1> QED  BY <1>1 DEF Init, Books

\* A task forgets its connection, and nothing else happens.
LEMMA BooksDrop ==
  ASSUME Shape, Apart, Books, NEW t \in Tasks, NEW p \in {"out", "shut"}, Hold(t, NoConn),
         GoTo(t, p), UNCHANGED <<idle, keep, reaping>>,
         conn' = [c \in Conns |-> IF c = held[t] THEN Unused ELSE conn[c]]
  PROVE  Books'
<1>1. Stored' = Stored
  BY DEF Stored, Elems
<1>2. ASSUME NEW c \in Stored PROVE Entry(c, 1)'
  BY <1>2, StoredApart DEF Books, Entry
<1>3. ASSUME NEW u \in Tasks, held'[u] # NoConn
      PROVE  Entry(held[u], IF pc[u] = "park" THEN 1 ELSE 0)' 
  <2>1. u # t /\ held'[u] = held[u] /\ pc'[u] = pc[u] /\ held[u] # NoConn
    BY <1>3 DEF Hold, GoTo, Shape
  <2>2. held[u] # held[t] /\ held[u] \in Conns
    BY <2>1 DEF Apart, Shape
  <2> QED  BY <2>1, <2>2 DEF Books, Entry
<1>4. ASSUME NEW c \in Conns, c \notin Known' PROVE conn'[c] = Unused
  <2>1. c \notin Known \/ c = held[t]
    BY <1>1, <1>4 DEF Known, Stored, Hold, Shape
  <2> QED  BY <2>1 DEF Books
<1> QED  BY <1>1, <1>2, <1>3, <1>4 DEF Books

\* Connections stay where they are, and what changes in them is not in the books.
LEMMA BooksKeep ==
  ASSUME Books, UNCHANGED <<idle, keep, reaping, held>>,
         \A t \in Tasks : held[t] # NoConn => (pc'[t] = "park" <=> pc[t] = "park"),
         \A c \in Conns :
           /\ conn'[c].status = "none" <=> conn[c].status = "none"
           /\ conn'[c].count = conn[c].count /\ conn'[c].served = conn[c].served
           /\ conn[c] = Unused => conn'[c] = Unused,
         Shape
  PROVE  Books'
<1>1. Stored' = Stored /\ Known' = Known /\ Stored \subseteq Conns
  BY ElementOfSeq DEF Stored, Elems, Known, Shape
<1>2. ASSUME NEW c \in Stored PROVE Entry(c, 1)'
  BY <1>1, <1>2 DEF Books, Entry
<1>3. ASSUME NEW u \in Tasks, held'[u] # NoConn
      PROVE  Entry(held[u], IF pc[u] = "park" THEN 1 ELSE 0)'
  BY <1>3 DEF Books, Entry, Shape
<1> QED  BY <1>1, <1>2, <1>3 DEF Books

LEMMA BooksPopIdle ==
  ASSUME Shape, Apart, Books, NEW t \in Tasks, PopIdle(t), held[t] = NoConn,
         UNCHANGED <<keep, reaping>>, ~reaping
  PROVE  Books'
<1>1. PICK closed \in SUBSET Elems(idle), c \in Elems(idle) \cup {NoConn} :
        /\ c \notin closed
        /\ Elems(idle)' = Elems(idle) \ (closed \cup {c})
        /\ held' = [held EXCEPT ![t] = c]
        /\ conn' = [d \in Conns |->
                      IF d \in closed THEN Unused
                      ELSE IF d = c THEN [conn[d] EXCEPT !.served = @ + 1]
                      ELSE conn[d]]
        /\ \E p \in {"purge", "use", "open"} : GoTo(t, p)
  BY PopIdleSets
<1>2. keep = <<>> /\ Elems(keep) = {} /\ Elems(keep)' = {}
  BY EmptySeq DEF Books, Elems
<1>3. Stored = Elems(idle) /\ Stored' = Stored \ (closed \cup {c})
  BY <1>1, <1>2 DEF Stored
<1>4. ASSUME NEW d \in Stored' PROVE Entry(d, 1)'
  BY <1>1, <1>3, <1>4, StoredApart DEF Books, Entry
<1>5. ASSUME NEW u \in Tasks, held'[u] # NoConn
      PROVE  Entry(held[u], IF pc[u] = "park" THEN 1 ELSE 0)'
  <2>1. CASE u = t
    <3>1. held'[u] = c /\ c \in Stored /\ c \in Conns /\ pc'[u] # "park"
      BY <1>1, <1>3, <1>5, <2>1, StoredApart DEF GoTo, Shape
    <3>2. conn'[c] = [conn[c] EXCEPT !.served = @ + 1]
      BY <1>1, <3>1
    <3>3. conn[c] \in ConnState /\ Entry(c, 1)
      BY <3>1 DEF Books, Shape
    <3>4. conn'[c].status # "none" /\ conn'[c].count = conn'[c].served + 0
      BY <3>2, <3>3 DEF Entry, ConnState
    <3> QED  BY <3>1, <3>4 DEF Entry
  <2>2. CASE u # t
    <3>1. held'[u] = held[u] /\ pc'[u] = pc[u] /\ held[u] \in Conns /\ held[u] \notin Stored
      BY <1>1, <1>5, <2>2, StoredApart DEF GoTo, Shape
    <3>2. conn'[held[u]] = conn[held[u]]
      BY <1>1, <1>3, <1>5, <3>1
    <3> QED  BY <1>5, <3>1, <3>2 DEF Books, Entry
  <2> QED  BY <2>1, <2>2
<1>6. ASSUME NEW d \in Conns, d \notin Known' PROVE conn'[d] = Unused
  <2>1. d \in closed \/ d \notin Stored
    <3>1. d \notin Stored' /\ d # c
      BY <1>1, <1>6 DEF Known, Stored, Shape
    <3> QED  BY <1>3, <3>1
  <2>2. d \notin closed => d \notin Known
    <3>1. \A u \in Tasks : held[u] # d
      BY <1>1, <1>6, PoolAssumption DEF Known, Shape
    <3> QED  BY <2>1, <3>1 DEF Known, Stored
  <2>3. d # c
    BY <1>1, <1>6 DEF Known, Shape
  <2> QED  BY <1>1, <2>2, <2>3 DEF Books
<1> QED  BY <1>2, <1>4, <1>5, <1>6 DEF Books

LEMMA BooksDeposit ==
  ASSUME Shape, Apart, Books, NEW t \in Tasks, NEW n, held[t] \in Conns, Deposit(t, n),
         n = conn[held[t]].served + 1
  PROVE  Books'
<1>1. CASE idle' = idle /\ conn' = [conn EXCEPT ![held[t]] = Unused]
  <2>1. conn' = [c \in Conns |-> IF c = held[t] THEN Unused ELSE conn[c]]
    BY <1>1 DEF Shape
  <2>2. \E p \in {"out", "shut"} : GoTo(t, p)
    BY DEF Deposit
  <2> QED  BY <1>1, <2>1, <2>2, BooksDrop DEF Deposit
<1>2. CASE /\ idle' = Append(idle, held[t])
           /\ conn' = [conn EXCEPT ![held[t]].count = n]
  <2>1. held' = [held EXCEPT ![t] = NoConn]
        /\ \E p \in {"out", "shut"} : pc' = [pc EXCEPT ![t] = p]
        /\ UNCHANGED <<keep, reaping>>
    BY DEF Deposit, Hold, GoTo
  <2>2. Stored' = Stored \cup {held[t]}
    <3>1. /\ Len(idle) \in Nat /\ Len(idle') = Len(idle) + 1
          /\ \A i \in 1..Len(idle') : idle'[i] = IF i <= Len(idle) THEN idle[i] ELSE held[t]
      BY <1>2, LenProperties DEF Shape
    <3>2. Elems(idle)' = Elems(idle) \cup {held[t]}
      <4>1. ASSUME NEW i \in 1..Len(idle') PROVE idle'[i] \in Elems(idle) \cup {held[t]}
        BY <3>1 DEF Elems
      <4>2. ASSUME NEW i \in 1..Len(idle) PROVE idle[i] \in Elems(idle)'
        <5>1. i \in 1..Len(idle') /\ idle'[i] = idle[i]
          BY <3>1
        <5> QED  BY <5>1 DEF Elems
      <4>3. held[t] \in Elems(idle)'
        <5>1. Len(idle') \in 1..Len(idle') /\ idle'[Len(idle')] = held[t]
          BY <3>1
        <5> QED  BY <5>1 DEF Elems
      <4> QED  BY <4>1, <4>2, <4>3 DEF Elems
    <3> QED  BY <2>1, <3>2 DEF Stored, Elems
  <2>3. \A c \in Conns : c # held[t] => conn'[c] = conn[c]
    BY <1>2 DEF Shape
  <2>4. ASSUME NEW c \in Conns, c = held[t] PROVE Entry(c, 1)'
    <3>1. conn[held[t]] \in ConnState /\ conn[held[t]].status # "none"
      BY PoolAssumption DEF Shape, Books, Entry
    <3>2. conn'[held[t]] = [conn[held[t]] EXCEPT !.count = n]
      BY <1>2 DEF Shape
    <3>3. /\ conn'[held[t]].status # "none"
          /\ conn'[held[t]].count = conn'[held[t]].served + 1
      BY <3>1, <3>2 DEF ConnState
    <3> QED  BY <2>4, <3>3 DEF Entry
  <2>5. ASSUME NEW c \in Stored' PROVE Entry(c, 1)'
    <3>1. CASE c \in Stored
      BY <2>3, <3>1, StoredApart DEF Books, Entry
    <3>2. CASE c \notin Stored
      BY <2>2, <2>4, <2>5, <3>2
    <3> QED  BY <3>1, <3>2
  <2>6. ASSUME NEW u \in Tasks, held'[u] # NoConn
        PROVE  Entry(held[u], IF pc[u] = "park" THEN 1 ELSE 0)'
    <3>1. u # t /\ held'[u] = held[u] /\ pc'[u] = pc[u] /\ held[u] # NoConn
      BY <2>1, <2>6 DEF Shape
    <3>2. held[u] # held[t] /\ held[u] \in Conns
      BY <3>1 DEF Apart, Shape
    <3> QED  BY <2>3, <3>1, <3>2 DEF Books, Entry
  <2>7. ASSUME NEW c \in Conns, c \notin Known' PROVE conn'[c] = Unused
    <3>1. c \notin Stored /\ c # held[t]
      BY <2>2, <2>7 DEF Known, Stored
    <3>2. c \notin Known
      BY <2>1, <2>7, <3>1 DEF Known, Stored, Shape
    <3> QED  BY <2>3, <3>1, <3>2 DEF Books
  <2>8. ~reaping' => keep' = <<>>
    BY <2>1 DEF Books
  <2> QED  BY <2>5, <2>6, <2>7, <2>8 DEF Books
<1> QED  BY <1>1, <1>2 DEF Deposit

LEMMA BooksOpen ==
  ASSUME Shape, Hands, Apart, Books, NEW t \in Tasks, Open(t)
  PROVE  Books'
<1>1. PICK c \in Conns \ Known : conn' = [conn EXCEPT ![c] = Opened] /\ Hold(t, c)
  BY DEF Open
<1>2. UNCHANGED <<idle, keep, reaping>> /\ GoTo(t, "use") /\ Stored' = Stored
  BY DEF Open, Stored, Elems
<1>3. ASSUME NEW d \in Stored PROVE Entry(d, 1)'
  <2>1. d # c /\ d \in Conns
    BY <1>3, StoredApart DEF Known, Stored
  <2> QED  BY <1>1, <1>3, <2>1 DEF Books, Entry, Shape
<1>4. ASSUME NEW u \in Tasks, held'[u] # NoConn
      PROVE  Entry(held[u], IF pc[u] = "park" THEN 1 ELSE 0)'
  <2>1. CASE u = t
    <3>1. held'[t] = c /\ conn'[c] = Opened /\ pc'[t] = "use"
      BY <1>1, <1>2 DEF Hold, GoTo, Shape
    <3> QED  BY <2>1, <3>1 DEF Entry, Opened
  <2>2. CASE u # t
    <3>1. held'[u] = held[u] /\ pc'[u] = pc[u] /\ held[u] \in Conns /\ held[u] # c
      BY <1>1, <1>2, <1>4, <2>2 DEF Hold, GoTo, Shape, Known
    <3> QED  BY <1>1, <1>4, <3>1 DEF Books, Entry, Shape
  <2> QED  BY <2>1, <2>2
<1>5. ASSUME NEW d \in Conns, d \notin Known' PROVE conn'[d] = Unused
  <2>1. held[t] = NoConn /\ d # c
    BY <1>1, <1>5 DEF Open, Hands, Hold, Known, Shape
  <2>2. d \notin Known
    BY <1>1, <1>2, <1>5, <2>1, PoolAssumption DEF Hold, Known, Shape
  <2> QED  BY <1>1, <2>1, <2>2 DEF Books, Shape
<1> QED  BY <1>2, <1>3, <1>4, <1>5 DEF Books

LEMMA BooksStep == Shape /\ Hands /\ Apart /\ Books /\ [Next]_vars => Books'
<1> SUFFICES ASSUME Shape, Hands, Apart, Books, [Next]_vars
             PROVE  Books'
  OBVIOUS
<1>1. ASSUME NEW t \in Tasks, AcquireNow(t) \/ LockGranted(t) PROVE Books'
  <2>1. held[t] = NoConn /\ PopIdle(t) /\ UNCHANGED <<keep, reaping>> /\ ~reaping
    BY <1>1 DEF AcquireNow, TakePermit, LockGranted, Contended, Hands
  <2> QED  BY <2>1, BooksPopIdle
<1>2. ASSUME NEW t \in Tasks,
             \/ Enter(t) \/ QueueForLock(t) \/ PurgeDone(t) \/ GiveUpWaiting(t)
             \/ ShutDone(t)
      PROVE  Books'
  <2>1. /\ UNCHANGED <<conn, idle, keep, reaping, held>>
        /\ \E p \in {"out", "wait", "lock", "use", "open"} : GoTo(t, p)
        /\ pc[t] # "park"
    BY <1>2 DEF Enter, QueueForLock, TakePermit, PurgeDone, GiveUpWaiting, ShutDone
  <2>2. \A u \in Tasks : pc'[u] = "park" <=> pc[u] = "park"
    BY <2>1 DEF GoTo, Shape
  <2> QED  BY <2>1, <2>2, BooksKeep
<1>3. ASSUME NEW t \in Tasks, SendRequest(t) \/ ReadResponse(t) \/ CloseInUse(t)
      PROVE  Books'
  <2>1. UNCHANGED <<idle, keep, reaping, held, pc>> /\ held[t] \in Conns
    BY <1>3 DEF SendRequest, ReadResponse, CloseInUse, Hands
  <2>2. conn[held[t]].status # "none" /\ conn[held[t]] # Unused
    BY <1>3, <2>1, PoolAssumption DEF Books, Entry, Unused
  <2>3. \A c \in Conns :
           /\ conn'[c].status = "none" <=> conn[c].status = "none"
           /\ conn'[c].count = conn[c].count /\ conn'[c].served = conn[c].served
           /\ conn[c] = Unused => conn'[c] = Unused
    <3>1. conn[held[t]] \in ConnState
      BY <2>1 DEF Shape
    <3> QED  BY <1>3, <2>1, <2>2, <3>1 DEF SendRequest, ReadResponse, CloseInUse, Shape, ConnState
  <2> QED  BY <2>1, <2>3, BooksKeep
<1>4. ASSUME NEW t \in Tasks,
             \/ AcquireFails(t) \/ ReleaseClosed(t) \/ ReleaseWornOut(t)
             \/ ReleaseCancelled(t)
      PROVE  Books'
  <2>1. Hold(t, NoConn) /\ UNCHANGED <<idle, keep, reaping>>
        /\ \E p \in {"out", "shut"} : GoTo(t, p)
    BY <1>4 DEF AcquireFails, ReleaseClosed, ReleaseWornOut, ReleaseCancelled
  <2>2. conn' = [c \in Conns |-> IF c = held[t] THEN Unused ELSE conn[c]]
    BY <1>4 DEF AcquireFails, ReleaseClosed, ReleaseWornOut, ReleaseCancelled, Shape
  <2> QED  BY <2>1, <2>2, BooksDrop
<1>5. ASSUME NEW t \in Tasks, Release(t) PROVE Books'
  <2>1. held[t] \in Conns /\ held[t] # NoConn /\ pc[t] = "use"
    BY <1>5, PoolAssumption DEF Release, Hands
  <2>2. conn[held[t]].count = conn[held[t]].served /\ conn[held[t]].served \in Nat
    BY <2>1, ConnCounts DEF Books, Entry, Shape
  <2> QED  BY <1>5, <2>1, <2>2, BooksDeposit DEF Release
<1>6. ASSUME NEW t \in Tasks, ReleaseParked(t) PROVE Books'
  <2>1. held[t] \in Conns /\ held[t] # NoConn /\ pc[t] = "park"
    BY <1>6, PoolAssumption DEF ReleaseParked, Hands
  <2> QED  BY <1>6, <2>1, BooksDeposit DEF ReleaseParked, Books, Entry
<1>7. ASSUME NEW t \in Tasks, ReleaseBlocked(t) PROVE Books'
  <2>1. /\ UNCHANGED <<idle, keep, reaping, held>>
        /\ pc[t] = "use" /\ GoTo(t, "park")
        /\ conn' = [conn EXCEPT ![held[t]].count = @ + 1]
        /\ held[t] \in Conns /\ held[t] # NoConn
    BY <1>7, PoolAssumption DEF ReleaseBlocked, Hands
  <2>2. /\ Stored' = Stored /\ Known' = Known
        /\ \A c \in Conns : c # held[t] => conn'[c] = conn[c]
    BY <2>1 DEF Stored, Elems, Known, Shape
  <2>3. ASSUME NEW c \in Stored PROVE Entry(c, 1)'
    BY <2>2, <2>3, StoredApart DEF Books, Entry
  <2>4. ASSUME NEW u \in Tasks, held'[u] # NoConn
        PROVE  Entry(held[u], IF pc[u] = "park" THEN 1 ELSE 0)'
    <3>1. CASE u = t
      <4>1. conn[held[t]] \in ConnState /\ Entry(held[t], 0)
        BY <2>1 DEF Books, Shape
      <4>2. conn'[held[t]] = [conn[held[t]] EXCEPT !.count = @ + 1] /\ pc'[t] = "park"
        BY <2>1 DEF GoTo, Shape
      <4>3. conn'[held[t]].status # "none" /\ conn'[held[t]].count = conn'[held[t]].served + 1
        BY <4>1, <4>2 DEF Entry, ConnState
      <4> QED  BY <2>1, <3>1, <4>2, <4>3 DEF Entry
    <3>2. CASE u # t
      <4>1. /\ held'[u] = held[u] /\ pc'[u] = pc[u]
            /\ held[u] \in Conns /\ held[u] # held[t]
        BY <2>1, <2>4, <3>2 DEF GoTo, Shape, Apart
      <4> QED  BY <2>2, <2>4, <4>1 DEF Books, Entry
    <3> QED  BY <3>1, <3>2
  <2>5. ASSUME NEW c \in Conns \ Known' PROVE conn'[c] = Unused
    BY <2>1, <2>2, <2>5 DEF Books, Known
  <2>6. \A c \in Stored' : Entry(c, 1)'
    BY <2>2, <2>3
  <2> QED  BY <2>1, <2>4, <2>5, <2>6 DEF Books
\* Connections that were idle are closed; those in use stay as they are.
<1>8. ASSUME NEW gone \in SUBSET Stored, Stored' = Stored \ gone, UNCHANGED <<held, pc>>,
             conn' = [c \in Conns |-> IF c \in gone THEN Unused ELSE conn[c]],
             ~reaping' => keep' = <<>>
      PROVE  Books'
  <2>1. ASSUME NEW c \in Stored' PROVE Entry(c, 1)'
    BY <1>8, <2>1, StoredApart DEF Books, Entry
  <2>2. ASSUME NEW u \in Tasks, held'[u] # NoConn
        PROVE  Entry(held[u], IF pc[u] = "park" THEN 1 ELSE 0)'
    <3>1. held[u] \in Conns /\ held[u] \notin gone
      BY <1>8, <2>2, StoredApart DEF Shape
    <3> QED  BY <1>8, <2>2, <3>1 DEF Books, Entry
  <2>3. ASSUME NEW c \in Conns \ Known' PROVE conn'[c] = Unused
    BY <1>8, <2>3 DEF Books, Known, Stored
  <2> QED  BY <1>8, <2>1, <2>2, <2>3 DEF Books
<1>9. CASE ReapClose
  <2>1. PICK c \in Elems(idle) : Stored' = Stored \ {c} /\ conn' = [conn EXCEPT ![c] = Unused]
    BY <1>9, ReapCloseSets
  <2>2. /\ {c} \in SUBSET Stored
        /\ conn' = [d \in Conns |-> IF d \in {c} THEN Unused ELSE conn[d]]
    BY <2>1 DEF Shape, Stored
  <2> QED  BY <1>8, <1>9, <2>1, <2>2 DEF ReapClose
<1>10. CASE ReapEnd
  <2>1. /\ {} \in SUBSET Stored /\ Stored' = Stored \ {}
        /\ keep' = <<>> /\ UNCHANGED <<held, pc, conn>>
    BY <1>10, ReapEndSets DEF ReapEnd
  <2>2. conn' = [d \in Conns |-> IF d \in {} THEN Unused ELSE conn[d]]
    BY <2>1 DEF Shape
  <2> QED  BY <1>8, <2>1, <2>2
<1>11. CASE ReapCancelled
  <2>1. Stored' = Stored \ Elems(keep)
    BY <1>11, StoredApart, EmptySeq DEF ReapCancelled, Stored, Elems
  <2> QED  BY <1>8, <1>11, <2>1 DEF ReapCancelled, Stored
<1>12. CASE Drain
  <2>1. Stored' = Stored \ Elems(idle)
    BY <1>12, StoredApart, EmptySeq DEF Drain, Stored, Elems
  <2> QED  BY <1>8, <1>12, <2>1 DEF Drain, Stored, Books
<1>13. CASE BeginShutdown \/ UNCHANGED vars
  BY <1>13, BooksKeep DEF BeginShutdown, vars
<1>14. ASSUME NEW c \in Conns, PeerClose(c) PROVE Books'
  <2>1. \A d \in Conns :
           /\ conn'[d].status = "none" <=> conn[d].status = "none"
           /\ conn'[d].count = conn[d].count /\ conn'[d].served = conn[d].served
           /\ conn[d] = Unused => conn'[d] = Unused
    <3>1. conn[c] \in ConnState /\ conn[c] # Unused
      BY <1>14 DEF PeerClose, Shape, Unused
    <3> QED  BY <1>14, <3>1 DEF PeerClose, Shape, ConnState
  <2> QED  BY <1>14, <2>1, BooksKeep DEF PeerClose
<1> QED
  BY <1>1, <1>2, <1>3, <1>4, <1>5, <1>6, <1>7, <1>9, <1>10, <1>11, <1>12, <1>13, <1>14,
     BooksOpen DEF Next, TaskStep, Reap

\* The inductive invariant of the pool.
PoolInv == Shape /\ Hands /\ PermitAccounting /\ Apart /\ Books

LEMMA PoolInvHolds == Spec => []PoolInv
<1>1. Init => PoolInv
  BY ShapeInit, AccountingInit, BooksInit, EmptySeq DEF PoolInv, Init, Apart
<1>2. PoolInv /\ [Next]_vars => PoolInv'
  BY ShapeStep, AccountingStep, ApartStep, BooksStep DEF PoolInv
<1> QED  BY <1>1, <1>2, PTL DEF Spec

\* Whatever is cancelled, times out or is shut down, no connection stays open
\* that nobody knows, and nobody keeps one that is gone.
THEOREM NothingStrays == Spec => []NoStray
<1>1. PoolInv => NoStray
  <2> SUFFICES ASSUME PoolInv, NEW c \in Conns PROVE c \in Known <=> conn[c].status # "none"
    BY DEF NoStray
  <2>1. CASE c \in Known
    BY <2>1, PoolAssumption DEF PoolInv, Books, Entry, Known, Stored
  <2>2. CASE c \notin Known
    BY <2>2 DEF PoolInv, Books, Unused
  <2> QED  BY <2>1, <2>2
<1> QED  BY <1>1, PoolInvHolds, PTL

--------------------------------------------------------------------------------
(* How many connections there are *)

\* The places at which a task has a connection or is about to open one.
Engaging == {"purge", "open", "use", "park"}

LEMMA LengthsNat == Shape => Len(idle) \in Nat /\ Len(keep) \in Nat
BY LenProperties DEF Shape

LEMMA SubsetSmaller ==
  ASSUME NEW H \in SUBSET Tasks, NEW E \in SUBSET H
  PROVE  /\ IsFiniteSet(E) /\ Cardinality(E) \in Nat /\ Cardinality(H) \in Nat
         /\ Cardinality(E) <= Cardinality(H)
<1>1. IsFiniteSet(H)
  BY PoolAssumption, FS_Subset
<1> QED  BY <1>1, FS_Subset, FS_CardinalityType

\* No task comes to a connection, and no idle connection is added.
LEMMA BoundKeep ==
  ASSUME Shape, Shape', OpenBound, Engaged' \subseteq Engaged,
         Len(idle') + Len(keep') <= Len(idle) + Len(keep)
  PROVE  OpenBound'
<1>1. Engaged \subseteq Tasks
  BY DEF Engaged
<1>2. /\ Cardinality(Engaged') \in Nat /\ Cardinality(Engaged) \in Nat
      /\ Cardinality(Engaged') <= Cardinality(Engaged)
  BY <1>1, SubsetSmaller
<1>3. Len(idle') \in Nat /\ Len(keep') \in Nat
  BY LenProperties DEF Shape
<1> QED  BY <1>2, <1>3, LengthsNat, PoolAssumption DEF OpenBound

\* acquire(): a connection taken from the deque was counted there; when there was
\* none, the deque is empty, and only the permits bound the connections in use.
LEMMA BoundPopIdle ==
  ASSUME PoolInv, PoolInv', OpenBound, NEW t \in Tasks, PopIdle(t),
         pc[t] \in {"wait", "lock"}, keep' = keep, ~reaping
  PROVE  OpenBound'
<1>1. PICK c \in Elems(idle) \cup {NoConn} :
        /\ c # NoConn => Len(idle') < Len(idle)
        /\ c = NoConn => idle' = <<>>
        /\ \E p \in {"purge", "use", "open"} : GoTo(t, p)
  BY PopIdleSets DEF PoolInv
<1>2. Engaged' = Engaged \cup {t} /\ t \notin Engaged
  BY <1>1 DEF Engaged, GoTo, PoolInv, Shape
<1>3. Cardinality(Engaged') = Cardinality(Engaged) + 1 /\ Cardinality(Engaged) \in Nat
  <2>1. Engaged \subseteq Tasks
    BY DEF Engaged
  <2> QED  BY <1>2, <2>1, SubsetSmaller, FS_AddElement
<1>4. keep = <<>> /\ Len(keep) = 0 /\ Len(idle) \in Nat /\ Len(idle') \in Nat
  BY LenProperties, EmptySeq DEF PoolInv, Books, Shape
<1>5. CASE c # NoConn
  BY <1>1, <1>3, <1>4, <1>5, PoolAssumption DEF OpenBound
<1>6. CASE c = NoConn
  <2>1. Engaged' \subseteq Holders' /\ Holders' \subseteq Tasks
    BY DEF Engaged, Holders
  <2>2. /\ Cardinality(Engaged') <= Cardinality(Holders')
        /\ Cardinality(Holders') \in Nat /\ Cardinality(Engaged') \in Nat
    BY <2>1, SubsetSmaller
  <2>3. permits' + Cardinality(Holders') + leaked' = MaxConns
        /\ permits' \in Nat /\ leaked' \in Nat
    BY DEF PoolInv, PermitAccounting, Shape
  <2>4. Len(idle') = 0
    BY <1>1, <1>6, EmptySeq
  <2> QED  BY <1>4, <2>2, <2>3, <2>4, PoolAssumption DEF OpenBound
<1> QED  BY <1>5, <1>6

LEMMA BoundDeposit ==
  ASSUME PoolInv, PoolInv', OpenBound, NEW t \in Tasks, NEW n, Deposit(t, n),
         pc[t] \in {"use", "park"}, ~reaping
  PROVE  OpenBound'
<1>1. Engaged' = Engaged \ {t} /\ t \in Engaged
  BY DEF Deposit, Engaged, GoTo, PoolInv, Shape
<1>2. Cardinality(Engaged') = Cardinality(Engaged) - 1 /\ Cardinality(Engaged) \in Nat
  <2>1. Engaged \subseteq Tasks
    BY DEF Engaged
  <2> QED  BY <1>1, <2>1, SubsetSmaller, FS_RemoveElement
<1>3. keep' = keep /\ Len(keep) = 0 /\ Len(idle) \in Nat
  BY LenProperties, EmptySeq DEF PoolInv, Books, Shape, Deposit
<1>4. held[t] \in Conns
  BY DEF PoolInv, Hands
<1>5. Len(idle') <= Len(idle) \/ (Len(idle') = Len(idle) + 1 /\ Len(idle) < MaxIdle)
  <2>1. Len(Append(idle, held[t])) = Len(idle) + 1
    BY <1>4 DEF PoolInv, Shape
  <2> QED  BY <1>3, <2>1 DEF Deposit
<1>6. Len(idle') \in Nat
  BY LenProperties DEF PoolInv, Shape
<1> QED  BY <1>2, <1>3, <1>5, <1>6, PoolAssumption DEF OpenBound

LEMMA BoundStep == PoolInv /\ PoolInv' /\ OpenBound /\ [Next]_vars => OpenBound'
<1> SUFFICES ASSUME PoolInv, PoolInv', OpenBound, [Next]_vars
             PROVE  OpenBound'
  OBVIOUS
<1>1. Shape /\ Shape' /\ Hands /\ Apart
  BY DEF PoolInv
<1>2. ASSUME NEW t \in Tasks, AcquireNow(t) \/ LockGranted(t) PROVE OpenBound'
  BY <1>2, BoundPopIdle DEF AcquireNow, TakePermit, LockGranted, Contended
<1>3. ASSUME NEW t \in Tasks, Release(t) \/ ReleaseParked(t) PROVE OpenBound'
  BY <1>3, BoundDeposit DEF Release, ReleaseParked, Contended
<1>4. ASSUME NEW t \in Tasks, NEW p, GoTo(t, p), UNCHANGED <<idle, keep>>,
             p \in Engaging => pc[t] \in Engaging
      PROVE  OpenBound'
  <2>1. Engaged' \subseteq Engaged
    BY <1>1, <1>4 DEF Engaged, Engaging, GoTo, Shape
  <2> QED  BY <1>1, <1>4, <2>1, LengthsNat, BoundKeep
<1>5. ASSUME NEW t \in Tasks,
             \/ Enter(t) \/ QueueForLock(t) \/ PurgeDone(t) \/ Open(t)
             \/ GiveUpWaiting(t) \/ AcquireFails(t) \/ ShutDone(t)
      PROVE  OpenBound'
  BY <1>4, <1>5 DEF Enter, QueueForLock, TakePermit, PurgeDone, Open, GiveUpWaiting,
     AcquireFails, ShutDone, Engaging
<1>6. ASSUME NEW t \in Tasks,
             \/ ReleaseClosed(t) \/ ReleaseWornOut(t) \/ ReleaseBlocked(t)
             \/ ReleaseCancelled(t)
      PROVE  OpenBound'
  BY <1>4, <1>6 DEF ReleaseClosed, ReleaseWornOut, ReleaseBlocked, ReleaseCancelled,
     Engaging
<1>7. ASSUME pc' = pc, Len(idle') + Len(keep') <= Len(idle) + Len(keep)
      PROVE  OpenBound'
  BY <1>1, <1>7, BoundKeep DEF Engaged
<1>8. CASE ReapClose \/ ReapEnd
  BY <1>1, <1>7, <1>8, ReapCloseSets, ReapEndSets, LengthsNat DEF ReapClose, ReapEnd
<1>9. CASE ReapCancelled \/ Drain
  BY <1>1, <1>7, <1>9, LengthsNat, EmptySeq DEF ReapCancelled, Drain
<1>10. ASSUME UNCHANGED <<pc, idle, keep>> PROVE OpenBound'
  BY <1>1, <1>7, <1>10, LengthsNat
<1>11. ASSUME NEW t \in Tasks, SendRequest(t) \/ ReadResponse(t) \/ CloseInUse(t)
       PROVE  OpenBound'
  BY <1>10, <1>11 DEF SendRequest, ReadResponse, CloseInUse
<1>12. CASE BeginShutdown \/ (\E c \in Conns : PeerClose(c)) \/ UNCHANGED vars
  BY <1>10, <1>12 DEF BeginShutdown, PeerClose, vars
<1> QED
  BY <1>2, <1>3, <1>5, <1>6, <1>8, <1>9, <1>11, <1>12 DEF Next, TaskStep, Reap

\* max_conns_per_upstream and max_idle bound the connections that are open, the
\* idle ones without a permit included, whatever the reaper has moved where.
THEOREM ConnectionsBounded == Spec => []OpenBound
<1>1. Init => OpenBound
  <2> SUFFICES ASSUME Init PROVE OpenBound
    OBVIOUS
  <2>1. Engaged = {}
    BY DEF Init, Engaged
  <2> QED  BY <2>1, FS_EmptySet, EmptySeq, PoolAssumption DEF Init, OpenBound
<1>2. PoolInv /\ PoolInv' /\ OpenBound /\ [Next]_vars => OpenBound'
  BY BoundStep
<1> QED  BY <1>1, <1>2, PoolInvHolds, PTL DEF Spec

--------------------------------------------------------------------------------
(* The pool implements ConnectionLeases *)

LEMMA SameCardinality == \A S : Leases!Cardinality(S) = Cardinality(S)
BY DEF Leases!Cardinality, Cardinality

\* A task with a permit and no connection leaves room for one more lease.
LEMMA RoomForOne ==
  ASSUME PoolInv, NEW t \in Tasks, held[t] = NoConn,
         (pc[t] = "wait" /\ permits > 0) \/ pc[t] \in Inside
  PROVE  Leases!Cardinality(Leases!Leasing) < MaxConns
<1> SUFFICES Cardinality(Leases!Leasing) < MaxConns
  BY SameCardinality
<1>1. Leases!Leasing \subseteq Holders \ {t} /\ Holders \subseteq Tasks
  BY DEF Leases!Leasing, Holders, PoolInv, Hands, Shape
<1>2. /\ IsFiniteSet(Holders) /\ Cardinality(Holders) \in Nat
      /\ permits + Cardinality(Holders) + leaked = MaxConns
      /\ permits \in Nat /\ leaked \in Nat
  BY HoldersFinite DEF PoolInv, PermitAccounting, Shape
<1>3. /\ Cardinality(Leases!Leasing) \in Nat /\ Cardinality(Holders \ {t}) \in Nat
      /\ Cardinality(Leases!Leasing) <= Cardinality(Holders \ {t})
      /\ Cardinality(Holders \ {t}) <= Cardinality(Holders)
  BY <1>1, SubsetSmaller
<1>4. CASE pc[t] = "wait" /\ permits > 0
  BY <1>2, <1>3, <1>4, PoolAssumption
<1>5. CASE pc[t] \in Inside
  <2>1. t \in Holders
    BY <1>5 DEF Holders, Inside
  <2>2. Cardinality(Holders \ {t}) = Cardinality(Holders) - 1
    BY <1>2, <2>1, FS_RemoveElement
  <2> QED  BY <1>2, <1>3, <2>2, PoolAssumption
<1> QED  BY <1>4, <1>5

\* acquire() hands out a connection from the deque, or retires what it found there.
LEMMA PopIdleGrants ==
  ASSUME PoolInv, NEW t \in Tasks, PopIdle(t), held[t] = NoConn,
         (pc[t] = "wait" /\ permits > 0) \/ pc[t] \in Inside
  PROVE  Leases!Next
<1>1. PICK closed \in SUBSET Elems(idle), c \in Elems(idle) \cup {NoConn} :
        /\ c \notin closed
        /\ c # NoConn => conn[c].count < MaxRequests
        /\ held' = [held EXCEPT ![t] = c]
        /\ conn' = [d \in Conns |->
                      IF d \in closed THEN Unused
                      ELSE IF d = c THEN [conn[d] EXCEPT !.served = @ + 1]
                      ELSE conn[d]]
  BY PopIdleSets DEF PoolInv
<1>2. /\ Shape /\ Apart /\ Elems(idle) \subseteq Stored /\ Stored \subseteq Conns
      /\ NoConn \notin Stored /\ \A u \in Tasks : held[u] \notin Stored
  BY StoredApart DEF PoolInv, Stored
<1>3. closed \in SUBSET Conns /\ \A d \in closed : ~Leases!Leased(d)
  BY <1>2 DEF Leases!Leased
<1>4. \A d \in Conns : conn[d] \in ConnState
  BY <1>2 DEF Shape
<1>5. CASE c # NoConn
  <2>1. c \in Conns /\ c \in Stored /\ ~Leases!Leased(c)
    BY <1>2, <1>5 DEF Leases!Leased
  <2>2. conn[c].count = conn[c].served + 1 /\ conn[c].served \in Nat
    BY <1>4, <2>1 DEF PoolInv, Books, Entry, ConnState
  <2>3. conn[c].served < IF MaxRequests = 1 THEN 1 ELSE MaxRequests - 1
    BY <1>1, <1>5, <2>2, PoolAssumption
  <2>4. [d \in Conns |-> conn'[d].served]
          = [d \in Conns |-> IF d = c THEN conn[d].served + 1
                             ELSE IF d \in closed THEN 0 ELSE conn[d].served]
    <3> SUFFICES ASSUME NEW d \in Conns
                 PROVE  conn'[d].served = IF d = c THEN conn[d].served + 1
                                          ELSE IF d \in closed THEN 0 ELSE conn[d].served
      OBVIOUS
    <3> QED  BY <1>1, <1>4 DEF Unused, ConnState
  <2>5. Leases!Cardinality(Leases!Leasing) < MaxConns
    BY RoomForOne
  <2>6. Leases!Grant(t, c, closed)
    BY <1>1, <1>3, <2>1, <2>3, <2>4, <2>5 DEF Leases!Grant
  <2> QED  BY <1>3, <2>1, <2>6 DEF Leases!Next
<1>6. CASE c = NoConn
  <2>1. held' = held
    BY <1>1, <1>2, <1>6 DEF Shape
  <2>2. [d \in Conns |-> conn'[d].served]
          = [d \in Conns |-> IF d \in closed THEN 0 ELSE conn[d].served]
    BY <1>1, <1>6, PoolAssumption DEF Unused
  <2>3. Leases!Retire(closed)
    BY <1>3, <2>1, <2>2 DEF Leases!Retire
  <2> QED  BY <1>3, <2>3 DEF Leases!Next
<1> QED  BY <1>5, <1>6

LEMMA OpenGrants ==
  ASSUME PoolInv, NEW t \in Tasks, Open(t)
  PROVE  Leases!Next
<1>1. PICK c \in Conns \ Known : conn' = [conn EXCEPT ![c] = Opened] /\ Hold(t, c)
  BY DEF Open
<1>2. held[t] = NoConn /\ pc[t] \in Inside /\ conn[c] = Unused
  BY <1>1 DEF Open, PoolInv, Hands, Inside, Books
<1>3. ~Leases!Leased(c)
  BY <1>1 DEF Leases!Leased, Known
<1>4. conn[c].served < IF MaxRequests = 1 THEN 1 ELSE MaxRequests - 1
  BY <1>2, PoolAssumption DEF Unused
<1>5. [d \in Conns |-> conn'[d].served]
        = [d \in Conns |-> IF d = c THEN conn[d].served + 1
                           ELSE IF d \in {} THEN 0 ELSE conn[d].served]
  <2> SUFFICES ASSUME NEW d \in Conns
               PROVE  conn'[d].served = IF d = c THEN conn[d].served + 1 ELSE conn[d].served
    OBVIOUS
  <2> QED  BY <1>1, <1>2 DEF PoolInv, Shape, Opened, Unused
<1>6. Leases!Cardinality(Leases!Leasing) < MaxConns
  BY <1>2, RoomForOne
<1>7. Leases!Grant(t, c, {})
  BY <1>1, <1>2, <1>3, <1>4, <1>5, <1>6 DEF Leases!Grant, Hold
<1> QED  BY <1>1, <1>7 DEF Leases!Next

\* A task gives up its connection, which is closed, or was none.
LEMMA DropReturns ==
  ASSUME PoolInv, NEW t \in Tasks, Hold(t, NoConn),
         conn' = [c \in Conns |-> IF c = held[t] THEN Unused ELSE conn[c]]
  PROVE  [Leases!Next]_Leases!vars
<1>1. CASE held[t] = NoConn
  <2>1. held' = held /\ conn' = conn
    BY <1>1, PoolAssumption DEF Hold, PoolInv, Shape
  <2> QED  BY <2>1 DEF Leases!vars
<1>2. CASE held[t] # NoConn
  <2>1. held[t] \in Conns /\ \A u \in Tasks \ {t} : held[u] # held[t]
    BY <1>2 DEF PoolInv, Shape, Apart
  <2>2. PICK gone \in SUBSET Conns : gone = {held[t]}
    BY <2>1
  <2>3. [d \in Conns |-> conn'[d].served]
          = [d \in Conns |-> IF d \in gone THEN 0 ELSE conn[d].served]
    BY <2>2 DEF Unused
  <2>4. Leases!Return(t, gone)
    BY <1>2, <2>1, <2>2, <2>3 DEF Leases!Return, Hold
  <2> QED  BY <2>4 DEF Leases!Next
<1> QED  BY <1>1, <1>2

LEMMA DepositReturns ==
  ASSUME PoolInv, NEW t \in Tasks, NEW n, Deposit(t, n), held[t] \in Conns
  PROVE  [Leases!Next]_Leases!vars
<1>1. Hold(t, NoConn) /\ held[t] # NoConn
  BY PoolAssumption DEF Deposit
<1>2. CASE conn' = [conn EXCEPT ![held[t]] = Unused]
  <2>1. conn' = [c \in Conns |-> IF c = held[t] THEN Unused ELSE conn[c]]
    BY <1>2 DEF PoolInv, Shape
  <2> QED  BY <1>1, <2>1, DropReturns
<1>3. CASE conn' = [conn EXCEPT ![held[t]].count = n]
  <2>1. [d \in Conns |-> conn'[d].served]
          = [d \in Conns |-> IF d \in {} THEN 0 ELSE conn[d].served]
    <3> SUFFICES ASSUME NEW d \in Conns PROVE conn'[d].served = conn[d].served
      OBVIOUS
    <3>1. conn[d] \in ConnState
      BY DEF PoolInv, Shape
    <3> QED  BY <1>3, <3>1 DEF PoolInv, Shape, ConnState
  <2>2. Leases!Return(t, {})
    BY <1>1, <2>1 DEF Leases!Return, Hold
  <2> QED  BY <2>2 DEF Leases!Next
<1> QED  BY <1>2, <1>3 DEF Deposit

\* Nobody gets or gives back a connection, and some that were idle are closed.
LEMMA ClosingRetires ==
  ASSUME PoolInv, NEW gone \in SUBSET Stored, held' = held,
         conn' = [c \in Conns |-> IF c \in gone THEN Unused ELSE conn[c]]
  PROVE  Leases!Next
<1>1. gone \in SUBSET Conns /\ \A d \in gone : ~Leases!Leased(d)
  BY StoredApart DEF Leases!Leased, PoolInv
<1>2. [d \in Conns |-> conn'[d].served]
        = [d \in Conns |-> IF d \in gone THEN 0 ELSE conn[d].served]
  BY DEF Unused
<1>3. Leases!Retire(gone)
  BY <1>1, <1>2 DEF Leases!Retire
<1> QED  BY <1>1, <1>3 DEF Leases!Next

LEMMA LeaseStep == PoolInv /\ [Next]_vars => [Leases!Next]_Leases!vars
<1> SUFFICES ASSUME PoolInv, [Next]_vars
             PROVE  [Leases!Next]_Leases!vars
  OBVIOUS
<1>1. ASSUME NEW t \in Tasks, AcquireNow(t) \/ LockGranted(t) PROVE Leases!Next
  <2>1. /\ held[t] = NoConn /\ PopIdle(t)
        /\ (pc[t] = "wait" /\ permits > 0) \/ pc[t] \in Inside
    BY <1>1 DEF AcquireNow, TakePermit, LockGranted, PoolInv, Hands, Inside
  <2> QED  BY <2>1, PopIdleGrants
<1>2. ASSUME NEW t \in Tasks,
             \/ AcquireFails(t) \/ ReleaseClosed(t) \/ ReleaseWornOut(t)
             \/ ReleaseCancelled(t)
      PROVE  [Leases!Next]_Leases!vars
  <2>1. /\ Hold(t, NoConn)
        /\ conn' = [c \in Conns |-> IF c = held[t] THEN Unused ELSE conn[c]]
    BY <1>2 DEF AcquireFails, ReleaseClosed, ReleaseWornOut, ReleaseCancelled, PoolInv, Shape
  <2> QED  BY <2>1, DropReturns
<1>3. ASSUME NEW t \in Tasks, Release(t) \/ ReleaseParked(t)
      PROVE  [Leases!Next]_Leases!vars
  BY <1>3, DepositReturns DEF Release, ReleaseParked, PoolInv, Hands
<1>4. ASSUME held' = held, \A d \in Conns : conn'[d].served = conn[d].served
      PROVE  [Leases!Next]_Leases!vars
  BY <1>4 DEF Leases!vars
<1>5. ASSUME NEW t \in Tasks,
             \/ Enter(t) \/ QueueForLock(t) \/ PurgeDone(t) \/ GiveUpWaiting(t)
             \/ ShutDone(t)
      PROVE  [Leases!Next]_Leases!vars
  BY <1>4, <1>5 DEF Enter, QueueForLock, TakePermit, PurgeDone, GiveUpWaiting, ShutDone
<1>6. ASSUME NEW t \in Tasks,
             \/ SendRequest(t) \/ ReadResponse(t) \/ CloseInUse(t) \/ ReleaseBlocked(t)
      PROVE  [Leases!Next]_Leases!vars
  <2>1. held' = held /\ conn \in [Conns -> ConnState] /\ held[t] \in Conns
        /\ conn[held[t]] \in ConnState
    BY <1>6 DEF SendRequest, ReadResponse, CloseInUse, ReleaseBlocked, PoolInv, Shape, Hands
  <2>2. \A d \in Conns : conn'[d].served = conn[d].served
    BY <1>6, <2>1 DEF SendRequest, ReadResponse, CloseInUse, ReleaseBlocked, ConnState
  <2> QED  BY <1>4, <2>1, <2>2
<1>7. CASE ReapClose
  <2>1. PICK c \in Elems(idle) : conn' = [conn EXCEPT ![c] = Unused]
    BY <1>7, ReapCloseSets DEF PoolInv
  <2>2. /\ {c} \in SUBSET Stored /\ held' = held
        /\ conn' = [d \in Conns |-> IF d \in {c} THEN Unused ELSE conn[d]]
    BY <1>7, <2>1 DEF PoolInv, Shape, Stored, ReapClose
  <2> QED  BY <2>2, ClosingRetires
<1>8. CASE ReapCancelled \/ Drain
  <2>1. Elems(keep) \in SUBSET Stored /\ Elems(idle) \in SUBSET Stored
    BY DEF Stored
  <2> QED  BY <1>8, <2>1, ClosingRetires DEF ReapCancelled, Drain
<1>9. CASE ReapEnd \/ BeginShutdown \/ UNCHANGED vars
  BY <1>4, <1>9 DEF ReapEnd, BeginShutdown, vars
<1>10. ASSUME NEW c \in Conns, PeerClose(c) PROVE [Leases!Next]_Leases!vars
  <2>1. conn \in [Conns -> ConnState] /\ conn[c] \in ConnState /\ held' = held
    BY <1>10 DEF PoolInv, Shape, PeerClose
  <2>2. \A d \in Conns : conn'[d].served = conn[d].served
    BY <1>10, <2>1 DEF PeerClose, ConnState
  <2> QED  BY <1>4, <2>1, <2>2
<1> QED
  BY <1>1, <1>2, <1>3, <1>5, <1>6, <1>7, <1>8, <1>9, <1>10, OpenGrants
  DEF Next, TaskStep, Reap

\* The pool hands out connections as ConnectionLeases says: never more than
\* MaxConns at a time, none to two tasks, and none more often than max_requests
\* allows, through every interleaving of acquire(), release(), the reaper,
\* cancellations and shutdown.
THEOREM PoolImplementsLeases == Spec => ImplementsLeases
<1>1. Init => Leases!Init
  BY DEF Init, Leases!Init, Unused
<1>2. PoolInv /\ [Next]_vars => [Leases!Next]_Leases!vars
  BY LeaseStep
<1> QED  BY <1>1, <1>2, PoolInvHolds, PTL DEF Spec, ImplementsLeases, Leases!Spec
================================================================================
