-------------------------- MODULE UpstreamsPoolProofs --------------------------
(***************************************************************************)
(* Proofs about UpstreamsPool, for every number of upstreams and requests, *)
(* and every threshold, cooldown and number of retries.                    *)
(***************************************************************************)
EXTENDS UpstreamsPool, WellFoundedInduction, TLAPS

LEMMA AfterType == \A u \in Upstreams : After(u) \in Upstreams
  BY BalancerAssumption DEF After, Upstreams

LEMMA NotAnUpstream == NoUpstream \notin Upstreams
  BY BalancerAssumption DEF NoUpstream, Upstreams

LEMMA FirstAllows ==
  ASSUME NEW u \in Upstreams, NEW S, First(u, S)
  PROVE  Allows(u)
  BY DEF First, Eligible

--------------------------------------------------------------------------------
(* Typing *)

LEMMA TypeInit == Init => TypeOK
<1>1. 0 \in Upstreams
  BY BalancerAssumption DEF Upstreams
<1>2. 0 \in 0..MaxRetries /\ 0 \in 0..Cooldown /\ Cooldown \in 0..Cooldown /\ 0 \in 0..Threshold
  BY BalancerAssumption
<1> SUFFICES ASSUME Init PROVE TypeOK
  OBVIOUS
<1>3. nextIndex \in Upstreams /\ status \in [Upstreams -> BOOLEAN] /\ down \in BOOLEAN
  BY <1>1 DEF Init
<1>4. /\ breaker \in [Upstreams -> {"closed", "open", "half_open"}]
      /\ failures \in [Upstreams -> Nat]
      /\ cooling \in [Upstreams -> 0..Cooldown]
      /\ quiet \in [Upstreams -> 0..Cooldown]
      /\ errors \in [Upstreams -> 0..Threshold]
  BY <1>2 DEF Init
<1>5. /\ target \in [Tasks -> Upstreams \cup {NoUpstream}]
      /\ tries \in [Tasks -> 0..MaxRetries]
      /\ probe \in [Upstreams -> Tasks \cup {NoTask}]
  BY <1>2 DEF Init
<1> QED  BY <1>3, <1>4, <1>5 DEF TypeOK

LEMMA ChooseType ==
  ASSUME TypeOK, NEW t \in Tasks, NEW u \in Upstreams, Choose(t, u)
  PROVE  /\ nextIndex' \in Upstreams
         /\ target' \in [Tasks -> Upstreams \cup {NoUpstream}]
         /\ breaker' \in [Upstreams -> {"closed", "open", "half_open"}]
         /\ probe' \in [Upstreams -> Tasks \cup {NoTask}]
         /\ quiet' \in [Upstreams -> 0..Cooldown]
  BY AfterType, BalancerAssumption DEF TypeOK, Choose

LEMMA CountErrorType ==
  ASSUME TypeOK, NEW u \in Upstreams, CountError(u)
  PROVE  errors' \in [Upstreams -> 0..Threshold]
  BY BalancerAssumption DEF TypeOK, CountError

LEMMA RecordType ==
  ASSUME TypeOK, NEW u \in Upstreams, RecordSuccess(u) \/ RecordFailure(u)
  PROVE  /\ breaker' \in [Upstreams -> {"closed", "open", "half_open"}]
         /\ failures' \in [Upstreams -> Nat]
         /\ cooling' \in [Upstreams -> 0..Cooldown]
         /\ probe' \in [Upstreams -> Tasks \cup {NoTask}]
         /\ quiet' \in [Upstreams -> 0..Cooldown]
         /\ errors' \in [Upstreams -> 0..Threshold]
<1>1. CASE RecordSuccess(u)
  BY <1>1, BalancerAssumption DEF TypeOK, RecordSuccess
<1>2. CASE RecordFailure(u)
  <2>1. errors' \in [Upstreams -> 0..Threshold]
    BY <1>2, CountErrorType DEF RecordFailure
  <2> QED  BY <1>2, <2>1, BalancerAssumption DEF TypeOK, RecordFailure
<1> QED  BY <1>1, <1>2

LEMMA TypeStep == TypeOK /\ [Next]_vars => TypeOK'
<1> SUFFICES ASSUME TypeOK, [Next]_vars PROVE TypeOK'
  OBVIOUS
<1>1. ASSUME NEW t \in Tasks, Select(t) PROVE TypeOK'
  <2>1. PICK u \in Upstreams : Choose(t, u)
    BY <1>1 DEF Select
  <2>2. tries' \in [Tasks -> 0..MaxRetries]
    BY <1>1, BalancerAssumption DEF Select, TypeOK
  <2> QED  BY <1>1, <2>1, <2>2, ChooseType DEF Select, TypeOK
<1>2. ASSUME NEW t \in Tasks, Retry(t) PROVE TypeOK'
  <2>1. target[t] \in Upstreams
    BY <1>2 DEF Retry, TypeOK
  <2>2. tries' \in [Tasks -> 0..MaxRetries]
    BY <1>2, BalancerAssumption DEF Retry, TypeOK
  <2>3. errors' \in [Upstreams -> 0..Threshold]
    BY <1>2, <2>1, CountErrorType DEF Retry
  <2>4. CASE \E u \in Upstreams : Choose(t, u)
    BY <1>2, <2>2, <2>3, <2>4, ChooseType DEF Retry, TypeOK
  <2>5. CASE UNCHANGED <<nextIndex, target, breaker, probe, quiet>>
    BY <1>2, <2>2, <2>3, <2>5 DEF Retry, TypeOK
  <2> QED  BY <1>2, <2>4, <2>5 DEF Retry
<1>3. ASSUME NEW t \in Tasks, Finish(t)
      PROVE  /\ target[t] \in Upstreams
             /\ nextIndex' \in Upstreams
             /\ status' \in [Upstreams -> BOOLEAN]
             /\ down' \in BOOLEAN
             /\ target' \in [Tasks -> Upstreams \cup {NoUpstream}]
             /\ tries' \in [Tasks -> 0..MaxRetries]
  BY <1>3, BalancerAssumption DEF Finish, TypeOK
<1>4. ASSUME NEW t \in Tasks, Succeed(t) \/ Fail(t) PROVE TypeOK'
  <2>1. Finish(t) /\ (RecordSuccess(target[t]) \/ RecordFailure(target[t]))
    BY <1>4 DEF Succeed, Fail
  <2> QED  BY <1>3, <2>1, RecordType DEF TypeOK
<1>5. ASSUME NEW t \in Tasks, Abandon(t) PROVE TypeOK'
  BY <1>3, <1>5 DEF Abandon, TypeOK
<1>6. ASSUME NEW u \in Upstreams, SetStatus(u) PROVE TypeOK'
  BY <1>6 DEF SetStatus, TypeOK
<1>7. CASE Tick
  BY <1>7, BalancerAssumption DEF Tick, TypeOK
<1>8. CASE Shutdown
  BY <1>8 DEF Shutdown, TypeOK
<1>9. CASE UNCHANGED vars
  BY <1>9 DEF vars, TypeOK
<1> QED
  BY <1>1, <1>2, <1>4, <1>5, <1>6, <1>7, <1>8, <1>9 DEF Next, TaskStep

\* The cursor stays inside the list, the counters in their ranges.
THEOREM TypeCorrect == Spec => []TypeOK
  BY TypeInit, TypeStep, PTL DEF Spec

--------------------------------------------------------------------------------
(* How a step of a request moves the breaker of an upstream *)

LEMMA ChooseBreaker ==
  ASSUME TypeOK, NEW t \in Tasks, NEW v \in Upstreams, Allows(v), Choose(t, v),
         NEW u \in Upstreams
  PROVE  \/ breaker'[u] = breaker[u] /\ quiet'[u] = quiet[u]
         \/ breaker[u] = "open" /\ breaker'[u] = "half_open" /\ cooling[u] = 0
  BY DEF TypeOK, Choose, Allows

\* The state of the breaker of u, its counter and its clocks, before and after.
Moves(u) ==
  \/ UNCHANGED <<breaker[u], failures[u], cooling[u], quiet[u]>>
  \/ /\ breaker[u] = "open" /\ breaker'[u] = "half_open" /\ cooling[u] = 0
     /\ UNCHANGED <<failures[u], cooling[u]>>
  \/ /\ breaker'[u] = "closed" /\ failures'[u] = 0 /\ breaker[u] = "half_open"
     /\ UNCHANGED <<cooling[u], quiet[u]>>
  \/ /\ breaker'[u] = "open" /\ cooling'[u] = Cooldown
     /\ UNCHANGED quiet[u]
     /\ breaker[u] = "closed" => Trips(u) /\ failures'[u] = failures[u] + 1
  \/ /\ breaker[u] # "half_open" /\ ~Trips(u) /\ failures'[u] = failures[u] + 1
     /\ UNCHANGED <<breaker[u], cooling[u], quiet[u]>>
  \/ /\ cooling'[u] = IF cooling[u] > 0 THEN cooling[u] - 1 ELSE 0
     /\ quiet'[u] = IF quiet[u] < Cooldown THEN quiet[u] + 1 ELSE Cooldown
     /\ UNCHANGED <<breaker[u], failures[u]>>

LEMMA StepMoves == TypeOK /\ [Next]_vars => \A u \in Upstreams : Moves(u)
<1> SUFFICES ASSUME TypeOK, [Next]_vars, NEW u \in Upstreams PROVE Moves(u)
  OBVIOUS
<1>1. ASSUME NEW t \in Tasks, NEW v \in Upstreams, Allows(v), Choose(t, v),
             UNCHANGED <<failures, cooling>>
      PROVE  Moves(u)
  BY <1>1, ChooseBreaker DEF Moves
<1>2. ASSUME UNCHANGED <<breaker, failures, cooling, quiet>> PROVE Moves(u)
  BY <1>2 DEF Moves
<1>3. ASSUME NEW t \in Tasks, Select(t) PROVE Moves(u)
  BY <1>1, <1>3, FirstAllows DEF Select
<1>4. ASSUME NEW t \in Tasks, Retry(t) PROVE Moves(u)
  BY <1>1, <1>2, <1>4, FirstAllows DEF Retry
<1>5. ASSUME NEW t \in Tasks, Succeed(t) PROVE Moves(u)
  BY <1>5 DEF Succeed, Finish, RecordSuccess, Moves, TypeOK
<1>6. ASSUME NEW t \in Tasks, Fail(t) PROVE Moves(u)
  BY <1>6 DEF Fail, Finish, RecordFailure, Moves, TypeOK
<1>7. ASSUME NEW t \in Tasks, Abandon(t) PROVE Moves(u)
  BY <1>2, <1>7 DEF Abandon
<1>8. CASE Shutdown \/ (\E v \in Upstreams : SetStatus(v)) \/ UNCHANGED vars
  BY <1>2, <1>8 DEF Shutdown, SetStatus, vars
<1>9. CASE Tick
  BY <1>9 DEF Tick, Moves
<1> QED
  BY <1>3, <1>4, <1>5, <1>6, <1>7, <1>8, <1>9 DEF Next, TaskStep

--------------------------------------------------------------------------------
(* The threshold *)

\* A closed breaker never holds failure_threshold failures or more.
THEOREM BreakerOpensInTime == Spec => []ClosedBelowThreshold
<1>1. Init => ClosedBelowThreshold
  BY BalancerAssumption DEF Init, ClosedBelowThreshold
<1>2. TypeOK /\ ClosedBelowThreshold /\ [Next]_vars => ClosedBelowThreshold'
  <2> SUFFICES ASSUME TypeOK, ClosedBelowThreshold, [Next]_vars,
                      NEW u \in Upstreams, breaker'[u] = "closed"
               PROVE  failures'[u] < Threshold
    BY DEF ClosedBelowThreshold
  <2>1. Moves(u)
    BY StepMoves
  <2>2. failures[u] \in Nat /\ Threshold \in Nat \ {0}
    BY BalancerAssumption DEF TypeOK
  <2>3. breaker[u] = "closed" => failures[u] < Threshold
    BY DEF ClosedBelowThreshold
  <2> QED  BY <2>1, <2>2, <2>3 DEF Moves, Trips
<1> QED  BY <1>1, <1>2, TypeCorrect, PTL DEF Spec

--------------------------------------------------------------------------------
(* The pace of the probes *)

\* What an open breaker still has to wait and what it has waited since its last
\* probe make up a cooldown.
Waited ==
  \A u \in Upstreams : breaker[u] = "open" => quiet[u] + cooling[u] >= Cooldown

\* From one probe of an upstream to the next, at least a cooldown passes.
THEOREM ProbesKeepTheirDistance == Spec => ProbesSpaced
<1>1. Init => Waited
  BY DEF Init, Waited
<1>2. TypeOK /\ Waited /\ [Next]_vars => Waited'
  <2> SUFFICES ASSUME TypeOK, TypeOK', Waited, [Next]_vars,
                      NEW u \in Upstreams, breaker'[u] = "open"
               PROVE  quiet'[u] + cooling'[u] >= Cooldown
    BY TypeStep DEF Waited
  <2>1. Moves(u)
    BY StepMoves
  <2>2. /\ quiet[u] \in 0..Cooldown /\ cooling[u] \in 0..Cooldown
        /\ quiet'[u] \in 0..Cooldown /\ Cooldown \in Nat
    BY BalancerAssumption DEF TypeOK
  <2>3. breaker[u] = "open" => quiet[u] + cooling[u] >= Cooldown
    BY DEF Waited
  <2> QED  BY <2>1, <2>2, <2>3 DEF Moves
<1>3. TypeOK /\ Waited /\ [Next]_vars =>
        [\A u \in Upstreams :
           breaker[u] = "open" /\ breaker'[u] = "half_open" => quiet[u] = Cooldown]_vars
  <2> SUFFICES ASSUME TypeOK, Waited, [Next]_vars, NEW u \in Upstreams,
                      breaker[u] = "open", breaker'[u] = "half_open"
               PROVE  quiet[u] = Cooldown
    OBVIOUS
  <2>1. Moves(u)
    BY StepMoves
  <2>2. quiet[u] \in 0..Cooldown /\ quiet[u] + cooling[u] >= Cooldown
    BY DEF TypeOK, Waited
  <2>3. cooling[u] = 0
    BY <2>1 DEF Moves
  <2> QED  BY <2>2, <2>3, BalancerAssumption
<1> QED  BY <1>1, <1>2, <1>3, TypeCorrect, PTL DEF Spec, ProbesSpaced

--------------------------------------------------------------------------------
(* The cause of an opening *)

\* What a step does to failure_count and to the failed attempts since the breaker of
\* u was closed.
Counts(u) ==
  \/ failures'[u] = failures[u] /\ errors'[u] >= errors[u]
  \/ failures'[u] = 0 /\ breaker[u] = "half_open"
  \/ /\ failures'[u] = failures[u] + 1
     /\ errors'[u] = IF errors[u] < Threshold THEN errors[u] + 1 ELSE errors[u]

LEMMA StepCounts == TypeOK /\ [Next]_vars => \A u \in Upstreams : Counts(u)
<1> SUFFICES ASSUME TypeOK, [Next]_vars, NEW u \in Upstreams PROVE Counts(u)
  OBVIOUS
<1>1. errors[u] \in Nat /\ failures[u] \in Nat /\ Threshold \in Nat
  BY BalancerAssumption DEF TypeOK
<1>2. ASSUME UNCHANGED <<failures, errors>> PROVE Counts(u)
  BY <1>1, <1>2 DEF Counts
<1>3. ASSUME NEW v \in Upstreams, CountError(v)
      PROVE  errors'[u] = IF u = v /\ errors[u] < Threshold THEN errors[u] + 1 ELSE errors[u]
  BY <1>3 DEF CountError, TypeOK
<1>4. ASSUME NEW t \in Tasks, Select(t) \/ Abandon(t) PROVE Counts(u)
  BY <1>2, <1>4 DEF Select, Abandon
<1>5. ASSUME NEW t \in Tasks, Retry(t) PROVE Counts(u)
  <2>1. target[t] \in Upstreams /\ CountError(target[t]) /\ failures' = failures
    BY <1>5 DEF Retry, TypeOK
  <2> QED  BY <1>1, <1>3, <2>1 DEF Counts
<1>6. ASSUME NEW t \in Tasks, Succeed(t) PROVE Counts(u)
  <2>1. target[t] \in Upstreams /\ RecordSuccess(target[t])
    BY <1>6 DEF Succeed, Finish, TypeOK
  <2> QED  BY <1>1, <2>1 DEF RecordSuccess, Counts, TypeOK
<1>7. ASSUME NEW t \in Tasks, Fail(t) PROVE Counts(u)
  <2>1. target[t] \in Upstreams /\ RecordFailure(target[t]) /\ CountError(target[t])
    BY <1>7 DEF Fail, Finish, RecordFailure, TypeOK
  <2>2. CASE target[t] # u
    <3>1. failures'[u] = failures[u]
      BY <2>1, <2>2 DEF RecordFailure, TypeOK
    <3> QED  BY <1>1, <1>3, <2>1, <2>2, <3>1 DEF Counts
  <2>3. CASE target[t] = u
    <3>1. \/ breaker[u] = "half_open" /\ failures'[u] = 0
          \/ failures'[u] = failures[u] + 1
      BY <2>1, <2>3 DEF RecordFailure, TypeOK
    <3> QED  BY <1>1, <1>3, <2>1, <2>3, <3>1 DEF Counts
  <2> QED  BY <2>2, <2>3
<1>8. CASE Tick \/ Shutdown \/ (\E v \in Upstreams : SetStatus(v)) \/ UNCHANGED vars
  BY <1>2, <1>8 DEF Tick, Shutdown, SetStatus, vars
<1> QED  BY <1>4, <1>5, <1>6, <1>7, <1>8 DEF Next, TaskStep

\* Every failure that a closed breaker has counted is one since it was closed.
Caused == \A u \in Upstreams : breaker[u] = "closed" => failures[u] <= errors[u]

\* A breaker only opens for as many failed attempts as the threshold says.
THEOREM BreakerOpensForCause == Spec => OpensForCause
<1>1. Init => Caused
  BY DEF Init, Caused
<1>2. ASSUME TypeOK, ClosedBelowThreshold, Caused, [Next]_vars, NEW u \in Upstreams
      PROVE  /\ Moves(u) /\ Counts(u)
             /\ errors[u] \in 0..Threshold /\ failures[u] \in Nat /\ Threshold \in Nat
             /\ breaker[u] = "closed" => failures[u] <= errors[u] /\ failures[u] < Threshold
  BY <1>2, StepMoves, StepCounts, BalancerAssumption DEF TypeOK, ClosedBelowThreshold, Caused
<1>3. TypeOK /\ ClosedBelowThreshold /\ Caused /\ [Next]_vars => Caused'
  <2> SUFFICES ASSUME TypeOK, TypeOK', ClosedBelowThreshold, Caused, [Next]_vars,
                      NEW u \in Upstreams, breaker'[u] = "closed"
               PROVE  failures'[u] <= errors'[u]
    BY TypeStep DEF Caused
  <2>1. errors'[u] \in 0..Threshold
    BY DEF TypeOK
  <2> QED  BY <1>2, <2>1 DEF Moves, Counts
<1>4. TypeOK /\ ClosedBelowThreshold /\ Caused /\ [Next]_vars =>
        [\A u \in Upstreams :
           breaker[u] = "closed" /\ breaker'[u] = "open" => errors'[u] >= Threshold]_vars
  <2> SUFFICES ASSUME TypeOK, ClosedBelowThreshold, Caused, [Next]_vars,
                      NEW u \in Upstreams, breaker[u] = "closed", breaker'[u] = "open"
               PROVE  errors'[u] >= Threshold
    OBVIOUS
  <2>1. failures'[u] = failures[u] + 1 /\ Trips(u)
    BY <1>2 DEF Moves, Counts, Trips
  <2> QED  BY <1>2, <2>1 DEF Counts, Trips
<1> QED  BY <1>1, <1>3, <1>4, TypeCorrect, BreakerOpensInTime, PTL DEF Spec, OpensForCause

--------------------------------------------------------------------------------
(* Who is sent to a tripped upstream *)

LEMMA ChosenIsAllowed ==
  ASSUME TypeOK, NEW t \in Tasks, NEW v \in Upstreams, NEW S, First(v, S), Choose(t, v),
         NEW u \in Upstreams, breaker[u] # "closed", breaker'[u] = breaker[u]
  PROVE  At(u)' \subseteq At(u)
<1>1. v # u
  BY FirstAllows DEF Choose, Allows, TypeOK
<1> QED  BY <1>1 DEF Choose, At, TypeOK

\* While a breaker is not closed, only the probe joins the requests at its upstream.
THEOREM TrippedUpstreamDrains == Spec => TrippedDrains
<1>1. TypeOK /\ [Next]_vars =>
        [\A u \in Upstreams :
           breaker[u] # "closed" /\ breaker'[u] = breaker[u] => At(u)' \subseteq At(u)]_vars
  <2> SUFFICES ASSUME TypeOK, [Next]_vars, NEW u \in Upstreams,
                      breaker[u] # "closed", breaker'[u] = breaker[u]
               PROVE  At(u)' \subseteq At(u)
    OBVIOUS
  <2>1. ASSUME UNCHANGED target PROVE At(u)' \subseteq At(u)
    BY <2>1 DEF At
  <2>2. ASSUME NEW t \in Tasks, Select(t) PROVE At(u)' \subseteq At(u)
    BY <2>2, ChosenIsAllowed DEF Select
  <2>3. ASSUME NEW t \in Tasks, Retry(t) PROVE At(u)' \subseteq At(u)
    BY <2>1, <2>3, ChosenIsAllowed DEF Retry
  <2>4. ASSUME NEW t \in Tasks, Finish(t) PROVE At(u)' \subseteq At(u)
    BY <2>4, NotAnUpstream DEF Finish, At, TypeOK
  <2>5. CASE Tick \/ Shutdown \/ (\E v \in Upstreams : SetStatus(v)) \/ UNCHANGED vars
    BY <2>1, <2>5 DEF Tick, Shutdown, SetStatus, vars
  <2> QED
    BY <2>2, <2>3, <2>4, <2>5 DEF Next, TaskStep, Succeed, Fail, Abandon
<1> QED  BY <1>1, TypeCorrect, PTL DEF Spec, TrippedDrains

--------------------------------------------------------------------------------
(* The search of get_next_alive *)

LEMMA Wraps ==
  ASSUME NEW x \in 0..(2 * N - 1)
  PROVE  x % N = IF x < N THEN x ELSE x - N
<1>1. N \in Nat \ {0}
  BY BalancerAssumption
<1>2. CASE x < N
  BY <1>1, <1>2
<1>3. CASE x >= N
  BY <1>1, <1>3
<1> QED  BY <1>1, <1>2, <1>3

\* The upstream that is asked after k others, and how many are asked before u.
Asked(k)    == (nextIndex + k) % N
Distance(u) == IF u >= nextIndex THEN u - nextIndex ELSE u - nextIndex + N

\* Every upstream has its turn in one round.
LEMMA EveryoneIsAsked ==
  ASSUME nextIndex \in Upstreams, NEW u \in Upstreams
  PROVE  /\ Distance(u) \in 0..(N - 1) /\ Asked(Distance(u)) = u
         /\ \A k \in 0..(N - 1) : Asked(k) \in Upstreams /\ (Asked(k) = u => k = Distance(u))
<1>1. /\ N \in Nat \ {0} /\ nextIndex \in 0..(N - 1) /\ u \in 0..(N - 1)
  BY BalancerAssumption DEF Upstreams
<1>2. Distance(u) \in 0..(N - 1)
  BY <1>1 DEF Distance
<1>3. \A k \in 0..(N - 1) :
        Asked(k) = IF nextIndex + k < N THEN nextIndex + k ELSE nextIndex + k - N
  <2> TAKE k \in 0..(N - 1)
  <2>1. PICK x \in 0..(2 * N - 1) : x = nextIndex + k
    BY <1>1
  <2>2. x % N = IF x < N THEN x ELSE x - N
    BY Wraps
  <2>3. Asked(k) = x % N
    BY <2>1 DEF Asked
  <2>4. Asked(k) = IF x < N THEN x ELSE x - N
    BY <2>2, <2>3
  <2> QED  BY <1>1, <2>1, <2>4
<1>4. Asked(Distance(u)) = u
  BY <1>1, <1>2, <1>3 DEF Distance
<1>5. ASSUME NEW k \in 0..(N - 1)
      PROVE  Asked(k) \in Upstreams /\ (Asked(k) = u => k = Distance(u))
  BY <1>1, <1>3 DEF Distance, Upstreams
<1> QED  BY <1>2, <1>4, <1>5

LEMMA LeastNumber ==
  ASSUME NEW T \in SUBSET Nat, T # {}
  PROVE  \E m \in T : \A k \in T : m <= k
<1>1. PICK m \in T : \A k \in T : <<k, m>> \notin OpToRel(<, Nat)
  BY WFMin, NatLessThanWellFounded, Zenon
<1>2. \A k \in T : ~(k < m)
  BY <1>1, Zenon DEF OpToRel
<1>3. m \in Nat /\ \A k \in T : k \in Nat
  OBVIOUS
<1> QED  BY <1>2, <1>3

\* Wherever the cursor stands, get_next_alive finds an upstream if there is one it
\* may choose, and it is the only one that the search can end with.
THEOREM SearchFinds ==
  ASSUME TypeOK, NEW S, NEW v \in Upstreams, Eligible(v, S)
  PROVE  \E u \in Upstreams : First(u, S) /\ \A w \in Upstreams : First(w, S) => w = u
<1> DEFINE T == {k \in 0..(N - 1) : Eligible(Asked(k), S)}
<1>1. N \in Nat \ {0} /\ nextIndex \in Upstreams
  BY BalancerAssumption DEF TypeOK
<1>2. Distance(v) \in T
  BY <1>1, EveryoneIsAsked
<1>3. PICK k \in T : \A j \in T : k <= j
  <2>1. T \in SUBSET Nat /\ T # {}
    BY <1>1, <1>2
  <2> HIDE DEF T
  <2> QED  BY <2>1, LeastNumber
<1>4. k \in 0..(N - 1) /\ Eligible(Asked(k), S)
  OBVIOUS
<1>5. ASSUME NEW j \in 0..(k - 1) PROVE ~Eligible(Asked(j), S)
  <2>1. j \in 0..(N - 1) /\ ~(k <= j)
    BY <1>1, <1>4
  <2> QED  BY <1>3, <2>1
<1>6. Asked(k) \in Upstreams
  BY <1>1, <1>4, EveryoneIsAsked
<1>7. First(Asked(k), S)
  BY <1>4, <1>5 DEF First, Asked
<1>8. ASSUME NEW w \in Upstreams, First(w, S) PROVE w = Asked(k)
  <2>1. PICK l \in 0..(N - 1) :
          w = Asked(l) /\ Eligible(Asked(l), S) /\ \A j \in 0..(l - 1) : ~Eligible(Asked(j), S)
    BY <1>8 DEF First, Asked
  <2>2. ~(k < l)
    <3>1. k < l => k \in 0..(l - 1)
      BY <1>1, <1>4
    <3> QED  BY <1>4, <2>1, <3>1
  <2>3. ~(l < k)
    <3>1. l < k => l \in 0..(k - 1)
      BY <1>1, <1>4
    <3> QED  BY <1>5, <2>1, <3>1
  <2>4. l = k
    BY <1>1, <1>4, <2>2, <2>3
  <2> QED  BY <2>1, <2>4
<1> QED  BY <1>6, <1>7, <1>8

\* A choice that passes over an upstream it could have made brings the cursor
\* nearer to it.
LEMMA ChoiceComesNearer ==
  ASSUME TypeOK, NEW t \in Tasks, NEW S, NEW v \in Upstreams, First(v, S), Choose(t, v),
         NEW u \in Upstreams, u # v, Eligible(u, S)
  PROVE  Distance(u)' < Distance(u)
<1>1. /\ N \in Nat \ {0} /\ nextIndex \in Upstreams /\ nextIndex \in 0..(N - 1)
      /\ u \in 0..(N - 1) /\ v \in 0..(N - 1)
  BY BalancerAssumption DEF TypeOK, Upstreams
<1>2. PICK k \in 0..(N - 1) :
        v = Asked(k) /\ \A j \in 0..(k - 1) : ~Eligible(Asked(j), S)
  BY DEF First, Asked
<1>3. k = Distance(v)
  BY <1>1, <1>2, EveryoneIsAsked
<1>4. Distance(u) \in 0..(N - 1) /\ Asked(Distance(u)) = u
  BY <1>1, EveryoneIsAsked
<1>5. Distance(u) > k
  <2>1. Distance(u) \notin 0..(k - 1)
    BY <1>2, <1>4
  <2>2. Distance(u) # k
    BY <1>2, <1>4
  <2> QED  BY <1>1, <1>4, <2>1, <2>2
<1>6. nextIndex' = IF v + 1 < N THEN v + 1 ELSE 0
  <2>1. PICK x \in 0..(2 * N - 1) : x = v + 1
    BY <1>1
  <2>2. x % N = IF x < N THEN x ELSE x - N
    BY Wraps
  <2>3. nextIndex' = x % N
    BY <2>1 DEF Choose, After
  <2> QED  BY <1>1, <2>1, <2>2, <2>3
<1>7. Distance(u)' = IF u >= nextIndex' THEN u - nextIndex' ELSE u - nextIndex' + N
  BY DEF Distance
<1> QED  BY <1>1, <1>3, <1>5, <1>6, <1>7 DEF Distance

\* Round robin: an upstream that could be chosen, and is not, is nearer to its turn
\* after every choice, so that it is passed over N - 1 times in a row at most.
\* (A retry passes over the upstream that failed; that one may have to wait longer.)
TurnsCome ==
  [][\A t \in Tasks, u \in Upstreams :
       /\ target'[t] \notin {target[t], NoUpstream, u}
       /\ u # target[t] /\ Eligible(u, {})
       => Distance(u)' < Distance(u)]_vars

THEOREM NobodyIsPassedOver == Spec => TurnsCome
<1>1. TypeOK /\ [Next]_vars =>
        [\A t \in Tasks, u \in Upstreams :
           /\ target'[t] \notin {target[t], NoUpstream, u}
           /\ u # target[t] /\ Eligible(u, {})
           => Distance(u)' < Distance(u)]_vars
  <2> SUFFICES ASSUME TypeOK, [Next]_vars, NEW t \in Tasks, NEW u \in Upstreams,
                      target'[t] \notin {target[t], NoUpstream, u},
                      u # target[t], Eligible(u, {})
               PROVE  Distance(u)' < Distance(u)
    OBVIOUS
  <2>1. ASSUME NEW s \in Tasks, NEW S, NEW v \in Upstreams, First(v, S), Choose(s, v),
               S \subseteq {target[t]}
        PROVE  Distance(u)' < Distance(u)
    <3>1. s = t
      BY <2>1 DEF Choose, TypeOK
    <3>2. u # v
      BY <2>1, <3>1 DEF Choose, TypeOK
    <3>3. Eligible(u, S)
      BY <2>1 DEF Eligible
    <3> QED  BY <2>1, <3>2, <3>3, ChoiceComesNearer
  <2>2. ASSUME NEW s \in Tasks, Select(s) PROVE Distance(u)' < Distance(u)
    BY <2>1, <2>2 DEF Select
  <2>3. ASSUME NEW s \in Tasks, Retry(s) PROVE Distance(u)' < Distance(u)
    <3>1. s = t
      BY <2>3 DEF Retry, Choose, TypeOK
    <3>2. target' # target
      OBVIOUS
    <3> QED  BY <2>1, <2>3, <3>1, <3>2 DEF Retry
  <2>4. ASSUME NEW s \in Tasks, Finish(s) PROVE FALSE
    BY <2>4, NotAnUpstream DEF Finish, TypeOK
  <2>5. CASE Tick \/ Shutdown \/ (\E v \in Upstreams : SetStatus(v)) \/ UNCHANGED vars
    BY <2>5 DEF Tick, Shutdown, SetStatus, vars
  <2> QED
    BY <2>2, <2>3, <2>4, <2>5 DEF Next, TaskStep, Succeed, Fail, Abandon
<1> QED  BY <1>1, TypeCorrect, PTL DEF Spec, TurnsCome
================================================================================
