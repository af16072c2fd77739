------------------------ MODULE AssetBreakerTheorems ------------------------
(***************************************************************************)
(* For every number of calls, every capacity, deadline and reset timeout   *)
(* above the deadline: the breaker's types, the exactness of its count,    *)
(* and that only the probe decides about a half-open breaker.              *)
(***************************************************************************)
EXTENDS AssetBreaker, FiniteSetTheorems, TLAPS

\* What makes a half-open breaker safe.  While the breaker is open, every call
\* still under way has less time left than the reset timer; so none is left
\* when the timer fires, and the first caller after that is the probe.
HalfOpenInv ==
    /\ state = "open" => \A c \in Pending : Deadline - call[c].age < resetIn
    /\ state = "halfOpen" =>
         IF pendingClose THEN Busy = {}
         ELSE \E c \in Pending : Busy = {c} /\ call[c].probe

Counted == IsFiniteSet(Busy) /\ CountExact

Inv == TypeOK /\ Counted /\ HalfOpenInv

\* The breaker starts closed and unused.
LEMMA InitInv == Init => Inv
<1> SUFFICES ASSUME Init PROVE Inv
  OBVIOUS
<1>1. Busy = {}
  BY DEF Init, Busy, Idle
<1>2. Counted
  BY <1>1, FS_EmptySet DEF Counted, CountExact, Init
<1>3. TypeOK
  <2>1. 0 \in 0..Capacity /\ 0 \in 0..Deadline /\ 0 \in 0..ResetTimeout
    BY BreakerAssumption
  <2> QED
    BY <2>1 DEF Init, TypeOK, Idle
<1> QED
  BY <1>2, <1>3 DEF Inv, Init, HalfOpenInv

\* An admitted call raises the count by itself, and is the probe if the breaker
\* was half-open.
LEMMA FireStep == ASSUME Inv, NEW c \in Call, Fire(c) PROVE Inv'
<1>0. /\ call'[c].step = "fetch" /\ call[c].step = "idle"
      /\ \A d \in Call \ {c} : call'[d] = call[d]
  BY DEF Inv, TypeOK, Fire
<1>1. TypeOK'
  <2>1. inFlight \in 0..Capacity /\ inFlight < Capacity /\ inFlight' = inFlight + 1
    BY DEF Inv, TypeOK, Fire, Admits
  <2>2. inFlight' \in 0..Capacity
    BY <2>1, BreakerAssumption
  <2>3. 0 \in 0..Deadline
    BY BreakerAssumption
  <2> QED
    BY <2>2, <2>3 DEF Inv, TypeOK, Fire
<1>2. c \notin Busy /\ Busy' = Busy \cup {c} /\ c \in Pending'
  BY <1>0 DEF Busy, Pending
<1>3. Counted'
  BY <1>2, FS_AddElement DEF Inv, Counted, CountExact, Fire
<1>4. HalfOpenInv'
  <2>1. CASE state = "closed"
    BY <2>1 DEF HalfOpenInv, Fire
  <2>2. CASE state = "halfOpen"
    <3>1. Busy = {}
      BY <2>2 DEF Inv, HalfOpenInv, Fire, Admits
    <3>2. Busy' = {c} /\ call'[c].probe
      BY <1>2, <2>2, <3>1 DEF Fire, Inv, TypeOK
    <3> QED
      BY <1>2, <2>2, <3>2 DEF HalfOpenInv, Fire
  <2> QED
    BY <2>1, <2>2 DEF Inv, TypeOK, Fire, Admits
<1> QED
  BY <1>1, <1>3, <1>4 DEF Inv

\* The arrival of the headers changes nothing of it.
LEMMA HeadersStep == ASSUME Inv, NEW c \in Call, Headers(c) PROVE Inv'
<1>1. TypeOK'
  BY DEF Inv, TypeOK, Headers
<1>2. Busy' = Busy /\ Pending' = Pending
  BY DEF Inv, TypeOK, Headers, Busy, Pending
<1>3. Counted'
  BY <1>2 DEF Inv, Counted, CountExact, Headers
<1>4. \A d \in Call : call'[d].age = call[d].age /\ call'[d].probe = call[d].probe
  BY DEF Inv, TypeOK, Headers
<1>5. HalfOpenInv'
  BY <1>2, <1>4 DEF Inv, HalfOpenInv, Headers, Pending
<1> QED
  BY <1>1, <1>3, <1>5 DEF Inv

\* A settled call is still counted, and no longer pending.
LEMMA LeaveStep ==
  ASSUME Inv, NEW c \in Pending, Leave(c)
  PROVE  /\ Busy' = Busy /\ Pending' \subseteq Pending
         /\ \A d \in Call : call'[d].age = call[d].age
         /\ call' \in [Call -> [step : {"idle", "fetch", "body", "leave"},
                                age : 0..Deadline, probe : BOOLEAN]]
BY DEF Inv, TypeOK, Leave, Busy, Pending

\* A success settles a call; the only call that can succeed while the breaker is
\* half-open is the probe, and then no other call is under way.
LEMMA SucceedStep == ASSUME Inv, NEW c \in Call, Succeed(c) PROVE Inv'
<1>0. c \in Pending
  BY DEF Succeed, Pending
<1>1. TypeOK'
  BY <1>0, LeaveStep DEF Inv, TypeOK, Succeed
<1>2. Counted'
  BY <1>0, LeaveStep DEF Inv, Counted, CountExact, Succeed
<1>3. HalfOpenInv'
  BY <1>0, LeaveStep DEF Inv, TypeOK, HalfOpenInv, Succeed, Pending
<1> QED
  BY <1>1, <1>2, <1>3 DEF Inv

\* Whatever the breaker did before, it opens for longer than any call may last.
LEMMA FailedStep == ASSUME Inv, NEW c \in Pending, Failed(c) PROVE Inv'
<1>0. Leave(c)
  BY DEF Failed
<1>1. TypeOK'
  <2>1. ResetTimeout \in 0..ResetTimeout
    BY BreakerAssumption
  <2>2. inFlight' = inFlight
    BY DEF Failed
  <2>3. state' \in {"closed", "open", "halfOpen"} /\ pendingClose' \in BOOLEAN
        /\ resetIn' \in 0..ResetTimeout
    BY <2>1 DEF Inv, TypeOK, Failed, OpenBreaker
  <2> QED
    BY <1>0, <2>2, <2>3, LeaveStep DEF Inv, TypeOK
<1>2. Counted'
  BY <1>0, LeaveStep DEF Inv, Counted, CountExact, Failed
<1>3. \A d \in Pending' : call'[d].age \in 0..Deadline
  BY <1>1 DEF TypeOK, Pending
<1>4. ASSUME OpenBreaker PROVE HalfOpenInv'
  <2>1. \A d \in Pending' : Deadline - call'[d].age < ResetTimeout
    BY <1>3, BreakerAssumption
  <2> QED
    BY <1>4, <2>1 DEF HalfOpenInv, OpenBreaker
<1>5. ASSUME state # "halfOpen", UNCHANGED <<state, pendingClose, resetIn>>
      PROVE  HalfOpenInv'
  <2>1. \A d \in Pending' : d \in Pending /\ d \in Call /\ call'[d].age = call[d].age
    BY <1>0, LeaveStep DEF Pending
  <2> QED
    BY <1>5, <2>1 DEF Inv, HalfOpenInv
<1> QED
  BY <1>1, <1>2, <1>4, <1>5 DEF Inv, Failed

\* The slot of a settled call is given back.
LEMMA FinallyStep == ASSUME Inv, NEW c \in Call, Finally(c) PROVE Inv'
<1>1. c \in Busy /\ Busy' = Busy \ {c} /\ Pending' = Pending /\ c \notin Pending
  BY DEF Inv, TypeOK, Finally, Idle, Busy, Pending
<1>2. IsFiniteSet(Busy') /\ Cardinality(Busy') = Cardinality(Busy) - 1
  BY <1>1, FS_RemoveElement DEF Inv, Counted
<1>3. Counted'
  BY <1>2 DEF Inv, Counted, CountExact, Finally
<1>4. inFlight' \in 0..Capacity
  <2>1. Cardinality(Busy') \in Nat
    BY <1>2, FS_CardinalityType
  <2> QED
    BY <1>3, <2>1, BreakerAssumption DEF Counted, CountExact, Inv, TypeOK, Finally
<1>5. TypeOK'
  BY <1>4, BreakerAssumption DEF Inv, TypeOK, Finally, Idle
<1>6. HalfOpenInv'
  BY <1>1 DEF Inv, TypeOK, HalfOpenInv, Finally, Pending
<1> QED
  BY <1>3, <1>5, <1>6 DEF Inv

\* When the reset timer fires, no call that was admitted before is left.
LEMMA HalfOpenStep == ASSUME Inv, HalfOpen PROVE Inv'
<1>1. Pending = {}
  BY BreakerAssumption DEF Inv, TypeOK, HalfOpenInv, HalfOpen, Pending
<1>2. Busy = {}
  BY <1>1 DEF Inv, TypeOK, HalfOpen, Busy, Pending, Leaving
<1>3. Busy' = Busy
  BY DEF HalfOpen, Busy
<1>4. TypeOK'
  BY DEF Inv, TypeOK, HalfOpen
<1> QED
  BY <1>2, <1>3, <1>4 DEF Inv, Counted, CountExact, HalfOpenInv, HalfOpen

\* A tick takes as much from the reset timer as from every deadline.
LEMMA TickStep == ASSUME Inv, Tick PROVE Inv'
<1>1. \A c \in Pending : call[c].age \in 0..Deadline /\ call[c].age < Deadline
  BY BreakerAssumption DEF Inv, TypeOK, Tick, Overdue, Pending
<1>2. \A c \in Call : /\ call'[c].step = call[c].step /\ call'[c].probe = call[c].probe
                      /\ c \in Pending => call'[c].age = call[c].age + 1
  BY DEF Inv, TypeOK, Tick
<1>3. Busy' = Busy /\ Pending' = Pending
  BY <1>2 DEF Busy, Pending
<1>4. TypeOK'
  BY <1>1, BreakerAssumption DEF Inv, TypeOK, Tick
<1>5. Counted'
  BY <1>3 DEF Inv, Counted, CountExact, Tick
<1>6. state = "open" => \A c \in Pending : Deadline - (call[c].age + 1) < resetIn - 1
  BY <1>1, BreakerAssumption DEF Inv, TypeOK, HalfOpenInv
<1>7. HalfOpenInv'
  BY <1>2, <1>3, <1>6 DEF Inv, HalfOpenInv, Tick, Pending
<1> QED
  BY <1>4, <1>5, <1>7 DEF Inv

\* The invariant reads nothing but the variables.
LEMMA StutterStep == ASSUME Inv, UNCHANGED vars PROVE Inv'
BY DEF Inv, TypeOK, Counted, CountExact, HalfOpenInv, vars, Busy, Pending

\* Every step keeps the invariant: one lemma per action.
LEMMA NextInv == Inv /\ [Next]_vars => Inv'
<1> SUFFICES ASSUME Inv, [Next]_vars PROVE Inv'
  OBVIOUS
<1>1. ASSUME NEW c \in Call, Fail(c) \/ Abort(c) PROVE Inv'
  BY <1>1, FailedStep DEF Fail, Abort, Overdue
<1> QED
  BY <1>1, FireStep, HeadersStep, SucceedStep, FinallyStep, HalfOpenStep, TickStep,
     StutterStep DEF Next

\* The invariant the properties of the breaker follow from.
THEOREM Invariance == Spec => []Inv
BY InitInv, NextInv, PTL DEF Spec

\* The types, and the in-flight count within the capacity.
THEOREM TypeCorrect == Spec => []TypeOK
<1>1. Inv => TypeOK
  BY DEF Inv
<1> QED
  BY <1>1, Invariance, PTL

\* The count that limits admission is exact.
THEOREM CountIsExact == Spec => []CountExact
<1>1. Inv => CountExact
  BY DEF Inv, Counted
<1> QED
  BY <1>1, Invariance, PTL

\* No call admitted before the breaker opened decides about the half-open
\* breaker.
THEOREM ProbeAlone == Spec => []OnlyProbeDecides
<1>1. Inv => OnlyProbeDecides
  BY DEF Inv, HalfOpenInv, OnlyProbeDecides, Busy, Pending
<1> QED
  BY <1>1, Invariance, PTL

\* A half-open breaker has room for its probe, and never two of them.
THEOREM ProbeIsOne == Spec => []OneProbe
<1>1. Inv => OneProbe
  <2> SUFFICES ASSUME Inv, state = "halfOpen"
               PROVE  IF pendingClose THEN inFlight = 0
                      ELSE inFlight = 1 /\ \E c \in Pending : Pending = {c}
    BY DEF OneProbe
  <2>1. CASE pendingClose
    BY <2>1, FS_EmptySet DEF Inv, HalfOpenInv, Counted, CountExact
  <2>2. CASE ~pendingClose
    <3>1. PICK c \in Pending : Busy = {c}
      BY <2>2 DEF Inv, HalfOpenInv
    <3>2. Pending = {c}
      BY <3>1 DEF Busy, Pending
    <3>3. inFlight = 1
      BY <3>1, FS_Singleton DEF Inv, Counted, CountExact
    <3> QED
      BY <2>2, <3>2, <3>3
  <2> QED
    BY <2>1, <2>2
<1> QED
  BY <1>1, Invariance, PTL
=============================================================================
