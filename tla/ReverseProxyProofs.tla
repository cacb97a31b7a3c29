--------------------------- MODULE ReverseProxyProofs ---------------------------
(***************************************************************************)
(* Proofs about ReverseProxy, for every number of connections and reloads  *)
(* and every limit.                                                        *)
(***************************************************************************)
EXTENDS ReverseProxy, FiniteSetTheorems, TLAPS

Places  == Holding \cup {"away", "queued"}
InUse   == {"handling", "leased"}

\* TypeOK without the bounds of slots, active and made, which follow from the
\* accounting.
Shape ==
  /\ place \in [Conns -> Places]
  /\ handled \in [Conns -> 0..MaxRequests]
  /\ using \in [Conns -> Pools]
  /\ written \in [Conns -> BOOLEAN]
  /\ slots \in Nat
  /\ limit \in Limits \cup {StartLimit}
  /\ active \in Int
  /\ pool \in Pools
  /\ made \in Nat
  /\ dead \in [Pools -> BOOLEAN]
  /\ emptied \in [Pools -> BOOLEAN]
  /\ reload \in [Reloads -> {"not_yet", "unread", "closing", "done", "failed"}]
  /\ victim \in [Reloads -> Pools]
  /\ stop \in {"no", "server", "draining", "gather", "pool", "done"}

\* A request is only begun below keep_alive.max_requests.
BelowMaxRequests == \A c \in Conns : place[c] \in InUse => handled[c] < MaxRequests

\* SIGHUPs that may still make a pool.
Pending == {r \in Reloads : reload[r] \in {"not_yet", "closing"}}

\* Every pool but the first is made by a reload of its own; only pools that have
\* been made are shut down.
PoolsMade ==
  /\ pool < made
  /\ made + Cardinality(Pending) <= Cardinality(Reloads) + 1
  /\ \A p \in Pools : dead[p] => p < made

--------------------------------------------------------------------------------
(* Counting connections by their place *)

LEMMA AtFinite ==
  ASSUME NEW S
  PROVE  IsFiniteSet(At(S)) /\ Cardinality(At(S)) \in Nat
<1>1. At(S) \subseteq Conns
  BY DEF At
<1> QED  BY <1>1, ProxyAssumption, FS_Subset, FS_CardinalityType

LEMMA AtSame ==
  ASSUME Shape, NEW c \in Conns, NEW p, GoTo(c, p), NEW S, place[c] \in S <=> p \in S
  PROVE  At(S)' = At(S)
BY DEF Shape, At, GoTo

LEMMA AtMore ==
  ASSUME Shape, NEW c \in Conns, NEW p, GoTo(c, p), NEW S, place[c] \notin S, p \in S
  PROVE  Cardinality(At(S)') = Cardinality(At(S)) + 1
<1>1. At(S)' = At(S) \cup {c} /\ c \notin At(S)
  BY DEF Shape, At, GoTo
<1> QED  BY <1>1, AtFinite, FS_AddElement

LEMMA AtLess ==
  ASSUME Shape, NEW c \in Conns, NEW p, GoTo(c, p), NEW S, place[c] \in S, p \notin S
  PROVE  Cardinality(At(S)') = Cardinality(At(S)) - 1
<1>1. At(S)' = At(S) \ {c} /\ c \in At(S)
  BY DEF Shape, At, GoTo
<1> QED  BY <1>1, AtFinite, FS_RemoveElement

--------------------------------------------------------------------------------
(* Typing *)

LEMMA ReloadsFinite ==
  /\ Cardinality(Reloads) \in Nat
  /\ Pools \subseteq Nat
  /\ IsFiniteSet(Pending) /\ Cardinality(Pending) \in Nat
<1>1. IsFiniteSet(Reloads) /\ Pending \subseteq Reloads
  BY ProxyAssumption DEF Pending
<1>2. Cardinality(Reloads) \in Nat /\ IsFiniteSet(Pending)
  BY <1>1, FS_CardinalityType, FS_Subset
<1> QED  BY <1>2, FS_CardinalityType DEF Pools

LEMMA ShapeInit == Init => Shape /\ BelowMaxRequests /\ PoolsMade
<1> SUFFICES ASSUME Init PROVE Shape /\ BelowMaxRequests /\ PoolsMade
  OBVIOUS
<1>1. Pending = Reloads
  BY DEF Init, Pending
<1>2. 0 \in Pools /\ 0 \in 0..MaxRequests /\ StartLimit \in Nat
  BY ReloadsFinite, ProxyAssumption DEF Pools
<1>3. Shape
  BY <1>2 DEF Init, Shape, Places
<1>4. BelowMaxRequests
  BY DEF Init, BelowMaxRequests, InUse
<1> QED  BY <1>1, <1>3, <1>4, ReloadsFinite DEF Init, PoolsMade

\* A connection moves, and the server's own variables stay.
LEMMA ConnShape ==
  ASSUME Shape, BelowMaxRequests, NEW c \in Conns, ConnStep(c)
  PROVE  Shape' /\ BelowMaxRequests' /\ UNCHANGED <<limit, poolVars, reload, victim, stop>>
<1> USE DEF GoTo, Writes, Holding, Counted, Places, poolVars
<1>0. MaxRequests \in Nat \ {0} /\ 0 \in Pools
  BY ProxyAssumption, ReloadsFinite DEF Pools
<1>1. CASE Accept(c) \/ Dequeue(c)
  <2>1. Admit(c) /\ UNCHANGED <<using, limit, poolVars, reload, victim, stop>>
    BY <1>1 DEF Accept, Dequeue
  <2>2. slots' \in Nat /\ active' \in Int
    BY <2>1 DEF Admit, Shape
  <2>3. /\ place' \in [Conns -> Places]
        /\ handled' \in [Conns -> 0..MaxRequests]
        /\ written' \in [Conns -> BOOLEAN]
    BY <1>0, <2>1 DEF Admit, Shape
  <2>4. BelowMaxRequests'
    BY <2>1 DEF Admit, Shape, BelowMaxRequests, InUse
  <2> QED  BY <2>1, <2>2, <2>3, <2>4 DEF Shape
<1>2. CASE AcceptFull(c)
  BY <1>2 DEF AcceptFull, Shape, BelowMaxRequests, InUse
<1>3. CASE Begin(c)
  BY <1>3 DEF Begin, Loops, Shape, BelowMaxRequests, InUse
<1>4. CASE NoUpstream(c) \/ Lease(c) \/ Retry(c)
  BY <1>4 DEF NoUpstream, Lease, Retry, Shape, BelowMaxRequests, InUse
<1>5. CASE Served(c)
  <2>1. handled[c] \in 0..MaxRequests /\ handled[c] < MaxRequests
    BY <1>5 DEF Served, Shape, BelowMaxRequests, InUse
  <2>2. handled[c] + 1 \in 0..MaxRequests
    BY <1>0, <2>1
  <2> QED  BY <1>0, <1>5, <2>2 DEF Served, Shape, BelowMaxRequests, InUse
<1>6. CASE Failed(c)
  BY <1>0, <1>6 DEF Failed, Shape, BelowMaxRequests, InUse
<1>7. CASE Finish(c)
  <2>1. /\ place' = [place EXCEPT ![c] = "closing"]
        /\ active' = active - 1
        /\ using' = [using EXCEPT ![c] = 0]
        /\ UNCHANGED <<handled, slots, limit, poolVars, reload, victim, stop>>
    BY <1>7 DEF Finish
  <2>2. written' \in [Conns -> BOOLEAN]
    BY <1>7 DEF Finish, Shape
  <2>3. BelowMaxRequests'
    BY <2>1 DEF Shape, BelowMaxRequests, InUse
  <2>4. place' \in [Conns -> Places] /\ using' \in [Conns -> Pools] /\ active' \in Int
    BY <1>0, <2>1 DEF Shape
  <2>5. UNCHANGED <<handled, slots, limit, pool, made, dead, emptied, reload, victim, stop>>
    BY <2>1
  <2> QED  BY <2>2, <2>3, <2>4, <2>5 DEF Shape
<1>8. CASE CloseDone(c)
  BY <1>8 DEF CloseDone, Shape, BelowMaxRequests, InUse
<1> QED
  BY <1>1, <1>2, <1>3, <1>4, <1>5, <1>6, <1>7, <1>8 DEF ConnStep

\* The pools change, the connections stay.
LEMMA PoolsShape ==
  ASSUME Shape, BelowMaxRequests, PoolsMade,
         \E r \in Reloads : ReloadStart(r) \/ ReloadEnd(r)
  PROVE  Shape' /\ BelowMaxRequests' /\ PoolsMade' /\ UNCHANGED <<connVars, stop>>
<1> PICK r \in Reloads : ReloadStart(r) \/ ReloadEnd(r)
  OBVIOUS
<1>0. /\ Pools \subseteq Nat /\ Cardinality(Reloads) \in Nat
      /\ IsFiniteSet(Pending) /\ Cardinality(Pending) \in Nat
      /\ pool \in Nat /\ made \in Nat
  BY ReloadsFinite DEF Shape
<1>1. CASE ReloadStart(r) /\ reload' = [reload EXCEPT ![r] = "unread"]
  <2>1. Pending' = Pending \ {r} /\ r \in Pending
    BY <1>1 DEF ReloadStart, Pending, Shape
  <2>2. Cardinality(Pending') = Cardinality(Pending) - 1
    BY <1>0, <2>1, FS_RemoveElement
  <2>3. UNCHANGED <<connVars, limit, dead, victim, pool, made, emptied, stop>>
    BY <1>1 DEF ReloadStart, Shape
  <2>4. PoolsMade'
    BY <1>0, <2>2, <2>3 DEF PoolsMade
  <2> QED  BY <1>1, <2>3, <2>4 DEF Shape, BelowMaxRequests, connVars
<1>2. CASE /\ ReloadStart(r)
           /\ reload' = [reload EXCEPT ![r] = "closing"]
           /\ limit' \in Limits
           /\ dead' = [dead EXCEPT ![pool] = TRUE]
           /\ victim' = [victim EXCEPT ![r] = pool]
  <2>1. Pending' = Pending
    BY <1>2 DEF ReloadStart, Pending, Shape
  <2>2. UNCHANGED <<connVars, pool, made, emptied, stop>>
    BY <1>2 DEF ReloadStart
  <2>3. PoolsMade'
    BY <1>2, <2>1, <2>2 DEF PoolsMade, Shape
  <2> QED  BY <1>2, <2>2, <2>3 DEF Shape, BelowMaxRequests, connVars
<1>3. CASE ReloadEnd(r)
  <2>1. Pending' = Pending \ {r} /\ r \in Pending
    BY <1>3 DEF ReloadEnd, Pending, Shape
  <2>2. Cardinality(Pending') = Cardinality(Pending) - 1
    BY <1>0, <2>1, FS_RemoveElement
  <2>3. Cardinality(Pending) # 0
    BY <1>0, <2>1, FS_EmptySet
  <2>4. made \in Pools
    BY <1>0, <2>3 DEF PoolsMade, Pools
  <2>5. /\ UNCHANGED <<connVars, limit, dead, victim, stop>>
        /\ emptied' \in [Pools -> BOOLEAN]
        /\ reload' \in [Reloads -> {"not_yet", "unread", "closing", "done", "failed"}]
        /\ \/ pool' = made /\ made' = made + 1
           \/ pool' = pool /\ made' = made
    BY <1>3 DEF ReloadEnd, Shape
  <2>6. PoolsMade'
    BY <1>0, <2>2, <2>5 DEF PoolsMade
  <2> QED  BY <1>0, <2>4, <2>5, <2>6 DEF Shape, BelowMaxRequests, connVars
<1> QED  BY <1>1, <1>2, <1>3 DEF ReloadStart

LEMMA StopShape ==
  ASSUME Shape, BelowMaxRequests, PoolsMade, StopStart \/ StopStep
  PROVE  Shape' /\ BelowMaxRequests' /\ PoolsMade'
<1>1. Pools \subseteq Nat /\ 0 \in Pools
  BY ReloadsFinite DEF Pools
<1>2. CASE StopStart \/ ServerClosed \/ Drained \/ Gathered
  BY <1>2 DEF StopStart, ServerClosed, Drained, Gathered, Shape, BelowMaxRequests,
     PoolsMade, Pending, connVars, poolVars
<1>3. CASE DrainTimeout
  <2>1. Cardinality(At(Counted)) \in Nat /\ Cardinality(At({"closing"})) \in Nat
    BY AtFinite
  <2>2. place' \in [Conns -> Places] /\ \A c \in Conns : place'[c] \notin InUse
    BY <1>3 DEF DrainTimeout, Places, Holding, InUse
  <2>3. slots' \in Nat /\ active' \in Int
    BY <1>3, <2>1 DEF DrainTimeout, Shape
  <2> QED  BY <1>1, <1>3, <2>2, <2>3 DEF DrainTimeout, Shape, BelowMaxRequests,
              PoolsMade, Pending, poolVars
<1>4. CASE StopEnd
  BY <1>4 DEF StopEnd, Shape, BelowMaxRequests, PoolsMade, Pending, connVars
<1> QED  BY <1>2, <1>3, <1>4 DEF StopStep

LEMMA ShapeStep ==
  Shape /\ BelowMaxRequests /\ PoolsMade /\ [Next]_vars
    => Shape' /\ BelowMaxRequests' /\ PoolsMade'
<1> SUFFICES ASSUME Shape, BelowMaxRequests, PoolsMade, [Next]_vars
             PROVE  Shape' /\ BelowMaxRequests' /\ PoolsMade'
  OBVIOUS
<1>1. ASSUME NEW c \in Conns, ConnStep(c) PROVE Shape' /\ BelowMaxRequests' /\ PoolsMade'
  BY <1>1, ConnShape DEF PoolsMade, Pending, poolVars
<1>2. CASE UNCHANGED vars
  BY <1>2 DEF vars, connVars, poolVars, Shape, BelowMaxRequests, PoolsMade, Pending
<1> QED  BY <1>1, <1>2, PoolsShape, StopShape DEF Next

--------------------------------------------------------------------------------
(* Slots and active connections *)

LEMMA SlotsInit == Init => SlotsAccounted
<1> SUFFICES ASSUME Init PROVE SlotsAccounted
  OBVIOUS
<1>1. At(Holding) = {} /\ At(Counted) = {}
  BY DEF Init, At, Holding, Counted
<1> QED  BY <1>1, FS_EmptySet, ProxyAssumption DEF Init, SlotsAccounted

\* Who is cancelled by DrainTimeout leaves the loop, who was closing is gone.
LEMMA DrainTimeoutSlots ==
  ASSUME Shape, SlotsAccounted, DrainTimeout
  PROVE  SlotsAccounted'
<1>1. /\ IsFiniteSet(At(Counted)) /\ Cardinality(At(Counted)) \in Nat
      /\ IsFiniteSet(At({"closing"})) /\ Cardinality(At({"closing"})) \in Nat
  BY AtFinite
<1>2. At(Counted)' = {} /\ At(Holding)' = At(Counted)
  BY DEF DrainTimeout, At, Holding, Counted
<1>3. /\ At(Holding) = At(Counted) \cup At({"closing"})
      /\ At(Counted) \cap At({"closing"}) = {}
  BY DEF At, Holding, Counted
<1>4. Cardinality(At(Holding)) = Cardinality(At(Counted)) + Cardinality(At({"closing"}))
  <2>1. Cardinality(At(Counted) \cap At({"closing"})) = 0
    BY <1>3, FS_EmptySet
  <2>2. Cardinality(At(Counted) \cup At({"closing"}))
          = Cardinality(At(Counted)) + Cardinality(At({"closing"}))
            - Cardinality(At(Counted) \cap At({"closing"}))
    BY <1>1, FS_Union
  <2> QED  BY <1>1, <1>3, <2>1, <2>2
<1> QED  BY <1>1, <1>2, <1>4, FS_EmptySet DEF DrainTimeout, SlotsAccounted, Shape

LEMMA SlotsStep == Shape /\ SlotsAccounted /\ [Next]_vars => SlotsAccounted'
<1> SUFFICES ASSUME Shape, SlotsAccounted, [Next]_vars
             PROVE  SlotsAccounted'
  OBVIOUS
<1> USE DEF SlotsAccounted
<1>0. /\ slots \in Nat /\ active \in Int
      /\ Cardinality(At(Holding)) \in Nat /\ Cardinality(At(Counted)) \in Nat
  BY AtFinite DEF Shape
<1>1. ASSUME NEW c \in Conns, place[c] \in {"away", "queued"}, Admit(c)
      PROVE  SlotsAccounted'
  <2>1. /\ Cardinality(At(Holding)') = Cardinality(At(Holding)) + 1
        /\ Cardinality(At(Counted)') = Cardinality(At(Counted)) + 1
    BY <1>1, AtMore DEF Admit, Holding, Counted
  <2> QED  BY <1>0, <1>1, <2>1 DEF Admit
<1>2. ASSUME NEW c \in Conns, NEW p, GoTo(c, p), UNCHANGED <<slots, active>>,
             \/ place[c] \in Counted /\ p \in Counted
             \/ place[c] \notin Holding /\ p \notin Holding
      PROVE  SlotsAccounted'
  <2>1. At(Holding)' = At(Holding) /\ At(Counted)' = At(Counted)
    BY <1>2, AtSame DEF Holding
  <2> QED  BY <1>2, <2>1
<1>3. ASSUME NEW c \in Conns,
             \/ AcceptFull(c) \/ Begin(c) \/ NoUpstream(c) \/ Lease(c) \/ Retry(c)
             \/ Served(c) \/ Failed(c)
      PROVE  SlotsAccounted'
  <2>1. UNCHANGED <<slots, active>>
    BY <1>3 DEF AcceptFull, Begin, NoUpstream, Lease, Retry, Served, Failed
  <2>2. CASE AcceptFull(c)
    BY <1>2, <2>1, <2>2 DEF AcceptFull, Holding, Counted
  <2>3. ASSUME ~AcceptFull(c) PROVE \E p \in Counted : place[c] \in Counted /\ GoTo(c, p)
    BY <1>3, <2>3 DEF Begin, NoUpstream, Loops, Lease, Retry, Served, Failed, Counted
  <2> QED  BY <1>2, <1>3, <2>1, <2>2, <2>3
<1>4. ASSUME NEW c \in Conns, Finish(c) PROVE SlotsAccounted'
  <2>1. /\ At(Holding)' = At(Holding)
        /\ Cardinality(At(Counted)') = Cardinality(At(Counted)) - 1
    BY <1>4, AtSame, AtLess DEF Finish, Holding, Counted
  <2> QED  BY <1>0, <1>4, <2>1 DEF Finish
<1>5. ASSUME NEW c \in Conns, CloseDone(c) PROVE SlotsAccounted'
  <2>1. Cardinality(At(Holding)') = Cardinality(At(Holding)) - 1
    BY <1>5, AtLess DEF CloseDone, Holding, Counted
  <2>2. CASE place[c] = "refusing"
    <3>1. Cardinality(At(Counted)') = Cardinality(At(Counted)) - 1
      BY <1>5, <2>2, AtLess DEF CloseDone, Counted
    <3> QED  BY <1>0, <1>5, <2>1, <2>2, <3>1 DEF CloseDone
  <2>3. CASE place[c] = "closing"
    <3>1. At(Counted)' = At(Counted)
      BY <1>5, <2>3, AtSame DEF CloseDone, Counted
    <3> QED  BY <1>0, <1>5, <2>1, <2>3, <3>1 DEF CloseDone
  <2> QED  BY <1>5, <2>2, <2>3 DEF CloseDone
<1>6. ASSUME NEW c \in Conns, ConnStep(c) PROVE SlotsAccounted'
  <2>1. ASSUME Accept(c) \/ Dequeue(c) PROVE SlotsAccounted'
    BY <1>1, <2>1 DEF Accept, Dequeue
  <2> QED  BY <1>3, <1>4, <1>5, <1>6, <2>1 DEF ConnStep
<1>7. ASSUME UNCHANGED connVars PROVE SlotsAccounted'
  BY <1>7 DEF connVars, At
<1>8. ASSUME NEW r \in Reloads, ReloadStart(r) \/ ReloadEnd(r) PROVE SlotsAccounted'
  BY <1>7, <1>8 DEF ReloadStart, ReloadEnd
<1>9. CASE StopStart \/ ServerClosed \/ Drained \/ Gathered \/ StopEnd \/ UNCHANGED vars
  BY <1>7, <1>9 DEF StopStart, ServerClosed, Drained, Gathered, StopEnd, vars
<1> QED  BY <1>6, <1>8, <1>9, DrainTimeoutSlots DEF Next, StopStep

\* The inductive invariant of the server.
IInv == Shape /\ BelowMaxRequests /\ PoolsMade /\ SlotsAccounted

LEMMA Invariance == Spec => []IInv
<1>1. Init => IInv
  BY ShapeInit, SlotsInit DEF IInv
<1>2. IInv /\ [Next]_vars => IInv'
  BY ShapeStep, SlotsStep DEF IInv
<1> QED  BY <1>1, <1>2, PTL DEF Spec

\* Every variable keeps its type: the semaphore and the count of active connections
\* stay between 0 and the limit, no connection is served more than max_requests
\* times, and no more pools are made than there are reloads.
THEOREM TypeCorrect == Spec => []TypeOK
<1>1. IInv => TypeOK
  <2> SUFFICES ASSUME IInv PROVE TypeOK
    OBVIOUS
  <2>1. /\ At(Counted) \subseteq At(Holding)
        /\ IsFiniteSet(At(Holding))
    BY AtFinite DEF At, Holding
  <2>2. /\ Cardinality(At(Counted)) \in Nat /\ Cardinality(At(Holding)) \in Nat
        /\ Cardinality(At(Counted)) <= Cardinality(At(Holding))
    BY <2>1, AtFinite, FS_Subset
  <2>3. slots \in 0..StartLimit /\ active \in 0..StartLimit
    BY <2>2, ProxyAssumption DEF IInv, SlotsAccounted, Shape
  <2>4. made \in 1..(Cardinality(Reloads) + 1)
    BY ReloadsFinite DEF IInv, PoolsMade, Shape
  <2> QED  BY <2>3, <2>4 DEF IInv, Shape, TypeOK, Places
<1> QED  BY <1>1, Invariance, PTL

\* Through every exit of handle_connection a slot is given back once, and
\* active_connections counts the connections in the loop exactly.
THEOREM SlotsKept == Spec => []SlotsAccounted
<1>1. IInv => SlotsAccounted
  BY DEF IInv
<1> QED  BY <1>1, Invariance, PTL

--------------------------------------------------------------------------------
(* The stop *)

LEMMA QuietStep == IInv /\ QuietStop /\ [Next]_vars => QuietStop'
<1> SUFFICES ASSUME Shape, SlotsAccounted, QuietStop, [Next]_vars,
                    stop' \in {"pool", "done"}
             PROVE  At({"handling", "leased", "refusing"})' = {}
  BY DEF IInv, QuietStop
<1> DEFINE Busy == At({"handling", "leased", "refusing"})
<1>1. CASE Drained
  <2>1. At(Counted) = {}
    BY <1>1, AtFinite, FS_EmptySet DEF Drained, SlotsAccounted
  <2> QED  BY <1>1, <2>1 DEF Drained, At, Counted, connVars
<1>2. CASE Gathered
  BY <1>2 DEF Gathered, At, connVars
<1>3. ASSUME stop \in {"pool", "done"}, NEW c \in Conns, ConnStep(c) PROVE Busy' = {}
  <2>1. Busy = {} /\ place[c] \notin {"handling", "leased", "refusing"} /\ ~Loops(c)
    BY <1>3 DEF QuietStop, At, Loops, Stopping
  <2>2. \E p \in Places : GoTo(c, p) /\ p \notin {"handling", "leased", "refusing"}
    BY <1>3, <2>1 DEF ConnStep, Accept, Admit, AcceptFull, Dequeue, Begin, NoUpstream,
       Lease, Retry, Served, Failed, Finish, CloseDone, Places, Holding, Counted
  <2> QED  BY <2>1, <2>2, AtSame
<1>4. ASSUME NEW c \in Conns, ConnStep(c) PROVE stop' = stop
  BY <1>4 DEF ConnStep, Accept, AcceptFull, Dequeue, Begin, NoUpstream,
     Lease, Retry, Served, Failed, Finish, CloseDone
<1>5. ASSUME stop \in {"pool", "done"}, UNCHANGED connVars PROVE Busy' = {}
  BY <1>5 DEF QuietStop, At, connVars
<1>6. ASSUME NEW r \in Reloads, ReloadStart(r) \/ ReloadEnd(r) PROVE Busy' = {}
  BY <1>5, <1>6 DEF ReloadStart, ReloadEnd
<1>7. CASE StopEnd \/ UNCHANGED vars
  BY <1>5, <1>7 DEF StopEnd, vars
<1>8. CASE StopStart \/ ServerClosed \/ DrainTimeout
  BY <1>8 DEF StopStart, ServerClosed, DrainTimeout
<1> QED  BY <1>1, <1>2, <1>3, <1>4, <1>6, <1>7, <1>8 DEF Next, StopStep

\* _stop turns to the pool only when no request is left that could use it, whichever
\* way it has waited for them, and none begins afterwards.
THEOREM PoolStopsUnderNobody == Spec => []QuietStop
<1>1. Init => QuietStop
  BY DEF Init, QuietStop
<1> QED  BY <1>1, QuietStep, Invariance, PTL DEF Spec

--------------------------------------------------------------------------------
(* Reloads *)

LEMMA InstallStep == IInv /\ ReloadInstalls /\ [Next]_vars => ReloadInstalls'
<1> SUFFICES ASSUME Shape, BelowMaxRequests, PoolsMade, ReloadInstalls, [Next]_vars
             PROVE  ReloadInstalls'
  BY DEF IInv
<1>1. ASSUME UNCHANGED <<pool, dead, reload, victim, stop>> PROVE ReloadInstalls'
  BY <1>1 DEF ReloadInstalls, Stopping
<1>2. ASSUME NEW r \in Reloads, ReloadStart(r) PROVE ReloadInstalls'
  <2>1. pool' = pool /\ stop' = stop /\ reload[r] = "not_yet"
    BY <1>2 DEF ReloadStart
  <2>2. CASE /\ reload' = [reload EXCEPT ![r] = "unread"]
             /\ UNCHANGED <<dead, victim>>
    BY <2>1, <2>2 DEF ReloadInstalls, Shape, Stopping
  <2>3. CASE /\ reload' = [reload EXCEPT ![r] = "closing"]
             /\ victim' = [victim EXCEPT ![r] = pool]
    <3>1. victim'[r] = pool /\ reload'[r] = "closing"
      BY <2>3 DEF Shape
    <3> QED  BY <2>1, <3>1 DEF ReloadInstalls
  <2> QED  BY <1>2, <2>2, <2>3 DEF ReloadStart
<1>3. ASSUME NEW r \in Reloads, ReloadEnd(r) PROVE ReloadInstalls'
  <2>1. dead' = dead /\ victim' = victim /\ stop' = stop /\ reload[r] = "closing"
    BY <1>3 DEF ReloadEnd
  \* The new pool has never been shut down.
  <2>2. CASE pool' = made
    <3>1. pool' \in Pools => ~dead[made]
      BY <2>2 DEF PoolsMade, Shape
    <3>2. pool' \in Pools
      BY <1>3, PoolsShape DEF Shape
    <3> QED  BY <2>1, <2>2, <3>1, <3>2 DEF ReloadInstalls
  <2>3. CASE reload' = [reload EXCEPT ![r] = "failed"] /\ pool' = pool
    BY <2>1, <2>3 DEF ReloadInstalls, Shape, Stopping
  <2> QED  BY <1>3, <2>2, <2>3 DEF ReloadEnd
<1>4. ASSUME NEW c \in Conns, ConnStep(c) PROVE ReloadInstalls'
  BY <1>1, <1>4 DEF ConnStep, Accept, AcceptFull, Dequeue, Begin, NoUpstream,
     Lease, Retry, Served, Failed, Finish, CloseDone, poolVars
<1>5. CASE StopStart \/ StopEnd
  BY <1>5 DEF StopStart, StopEnd, ReloadInstalls, Stopping
<1>6. CASE ServerClosed \/ Drained \/ DrainTimeout \/ Gathered
  BY <1>6 DEF ServerClosed, Drained, DrainTimeout, Gathered, ReloadInstalls, Stopping
<1>7. CASE UNCHANGED vars
  BY <1>1, <1>7 DEF vars, poolVars
<1> QED  BY <1>2, <1>3, <1>4, <1>5, <1>6, <1>7 DEF Next, StopStep

\* However reloads overlap, with each other and with requests, a dead pool is in
\* service only because of a reload that is not over, or that has failed.
THEOREM ReloadsInstall == Spec => []ReloadInstalls
<1>1. Init => ReloadInstalls
  BY ReloadsFinite DEF Init, ReloadInstalls, Pools
<1> QED  BY <1>1, InstallStep, Invariance, PTL DEF Spec
================================================================================
