---------------------------- MODULE AssetBreaker ----------------------------
(***************************************************************************)
(* The circuit breaker around Access Core's calls of Asset Core: the       *)
(* admission check and the in-flight count of assetBreaker.ts, and the     *)
(* state machine of the opossum breaker it wraps.                          *)
(*                                                                         *)
(* The process is single-threaded: an action is what runs without an       *)
(* await.  Time advances in ticks; a timer that is due fires before the    *)
(* next tick.  A call is aborted at its deadline, whether it waits for the *)
(* response or reads the body, and the abort takes less than the safety    *)
(* margin between the deadline and the reset timeout.                      *)
(***************************************************************************)
EXTENDS Integers, FiniteSets

CONSTANTS Call,          \* the calls of Asset Core that may be under way
          Capacity,      \* options.capacity
          Deadline,      \* options.requestTimeoutMs, in ticks
          ResetTimeout   \* options.resetTimeoutMs, in ticks

\* validateResetTimeoutMs refuses any other configuration.
ASSUME BreakerAssumption ==
    /\ Deadline \in Nat /\ ResetTimeout \in Nat
    /\ ResetTimeout > Deadline
    /\ Capacity \in Nat \ {0}

VARIABLES
    state,         \* "closed", "open" or "halfOpen"
    pendingClose,  \* the half-open breaker has not admitted its probe
    resetIn,       \* ticks until the reset timer fires
    inFlight,      \* the controller's count of admitted calls
    call           \* the calls

vars == <<state, pendingClose, resetIn, inFlight, call>>

\* step: "idle", "fetch" (no response yet), "body" (headers arrived), "leave"
\* (the breaker has the outcome, the caller's finally block has not run).
\* probe: admitted by a half-open breaker.
Idle == [step |-> "idle", age |-> 0, probe |-> FALSE]

Init ==
    /\ state = "closed"
    /\ pendingClose = FALSE
    /\ resetIn = 0
    /\ inFlight = 0
    /\ call = [c \in Call |-> Idle]

Pending == {c \in Call : call[c].step \in {"fetch", "body"}}
Leaving == {c \in Call : call[c].step = "leave"}
Busy == {c \in Call : call[c].step # "idle"}

-----------------------------------------------------------------------------
AdmitsOneMore ==  \* faulty variant: off by one
    state # "open" /\ (state = "halfOpen" => pendingClose) /\ inFlight <= Capacity
AdmitsWhileProbing == state # "open" /\ inFlight < Capacity  \* faulty variant

\* checkAdmission, in its order: an open breaker, one whose probe is out, a
\* full controller.
Admits ==
    /\ state # "open"
    /\ state = "halfOpen" => pendingClose
    /\ inFlight < Capacity

\* fire: admission, the count, and the breaker's own call, with no await
\* between them.  A refused caller changes nothing.
Fire(c) ==
    /\ call[c].step = "idle"
    /\ Admits
    /\ inFlight' = inFlight + 1
    /\ call' = [call EXCEPT ![c] = [step |-> "fetch", age |-> 0,
                                    probe |-> state = "halfOpen"]]
    /\ pendingClose' = FALSE
    /\ UNCHANGED <<state, resetIn>>

\* Faulty variant: the body has a deadline of its own.
HeadersRestart(c) ==
    /\ call[c].step = "fetch"
    /\ call' = [call EXCEPT ![c].step = "body", ![c].age = 0]
    /\ UNCHANGED <<state, pendingClose, resetIn, inFlight>>

\* The headers arrive; the deadline goes on while the body is read.
Headers(c) ==
    /\ call[c].step = "fetch"
    /\ call' = [call EXCEPT ![c].step = "body"]
    /\ UNCHANGED <<state, pendingClose, resetIn, inFlight>>

Leave(c) == call' = [call EXCEPT ![c].step = "leave"]

\* A response below 500 is a success, which closes a half-open breaker, as the
\* breaker does not ask whose it is.
Succeed(c) ==
    /\ call[c].step = "body"
    /\ Leave(c)
    /\ state' = IF state = "halfOpen" THEN "closed" ELSE state
    /\ pendingClose' = FALSE
    /\ UNCHANGED <<resetIn, inFlight>>

OpenBreaker ==
    /\ state' = "open"
    /\ pendingClose' = FALSE
    /\ resetIn' = ResetTimeout

\* A failure opens a half-open breaker and may open a closed one, when the
\* rolling statistics are over the thresholds.  An open breaker ignores it.
Failed(c) ==
    /\ Leave(c)
    /\ \/ state # "open" /\ OpenBreaker
       \/ state # "halfOpen" /\ UNCHANGED <<state, pendingClose, resetIn>>
    /\ UNCHANGED inFlight

\* Asset Core answers 500 or above, or the connection breaks.
Fail(c) == c \in Pending /\ Failed(c)

\* The deadline's timer aborts the request and the reading of its body.
Overdue == {c \in Pending : call[c].age >= Deadline}
Abort(c) == c \in Overdue /\ Failed(c)

\* The finally block of fire.
Finally(c) ==
    /\ call[c].step = "leave"
    /\ inFlight' = inFlight - 1
    /\ call' = [call EXCEPT ![c] = Idle]
    /\ UNCHANGED <<state, pendingClose, resetIn>>

\* Faulty variant: the breaker turns half-open when it is called, behind a
\* check that refuses every call of an open breaker.
HalfOpenOnDemand ==
    /\ state = "open" /\ resetIn = 0 /\ Leaving = {} /\ Busy # {}
    /\ state' = "halfOpen"
    /\ pendingClose' = TRUE
    /\ UNCHANGED <<resetIn, inFlight, call>>

\* The reset timer, set when the breaker opened, fires.
HalfOpen ==
    /\ state = "open"
    /\ resetIn = 0
    /\ Leaving = {}
    /\ state' = "halfOpen"
    /\ pendingClose' = TRUE
    /\ UNCHANGED <<resetIn, inFlight, call>>

\* Time passes when no timer is due and no microtask is left.
Tick ==
    /\ Overdue = {}
    /\ Leaving = {}
    /\ state = "open" => resetIn > 0
    /\ resetIn' = IF state = "open" THEN resetIn - 1 ELSE resetIn
    /\ call' = [c \in Call |-> IF c \in Pending THEN [call[c] EXCEPT !.age = @ + 1]
                               ELSE call[c]]
    /\ UNCHANGED <<state, pendingClose, inFlight>>

-----------------------------------------------------------------------------
Next ==
    \/ \E c \in Call : \/ Fire(c) \/ Headers(c) \/ Succeed(c) \/ Fail(c) \/ Abort(c)
                       \/ Finally(c)
    \/ HalfOpen
    \/ Tick

Spec == Init /\ [][Next]_vars

\* Timers fire and microtasks run.  Nothing obliges Asset Core to answer nor
\* anybody to call.
Fairness ==
    /\ WF_vars(Tick) /\ WF_vars(HalfOpen)
    /\ \A c \in Call : WF_vars(Abort(c)) /\ WF_vars(Finally(c))

FairSpec == Spec /\ Fairness

-----------------------------------------------------------------------------
\* Types of the breaker and the calls.
TypeOK ==
    /\ state \in {"closed", "open", "halfOpen"}
    /\ pendingClose \in BOOLEAN
    /\ resetIn \in 0..ResetTimeout
    /\ inFlight \in 0..Capacity
    /\ call \in [Call -> [step : {"idle", "fetch", "body", "leave"},
                          age : 0..Deadline, probe : BOOLEAN]]

\* "Every call admitted before the breaker opened is guaranteed to have settled
\* before the breaker can transition to half-open": while it is half-open, the
\* outcome that closes it or opens it again can only be the probe's.
OnlyProbeDecides == state = "halfOpen" => \A c \in Pending : call[c].probe

\* A half-open breaker has admitted one probe or will admit the next caller:
\* the slots of earlier calls are free by then, so the capacity limit does not
\* refuse the probe, and a breaker that waits for an outcome has one coming.
OneProbe ==
    state = "halfOpen" =>
        IF pendingClose THEN inFlight = 0
        ELSE inFlight = 1 /\ \E c \in Pending : Pending = {c}

\* The count that limits admission is the number of calls not yet returned.
CountExact == inFlight = Cardinality(Busy)

\* Nobody is refused for ever: whatever made the breaker refuse (it is open, its
\* probe is out, every slot is taken), it admits a caller again, even when Asset
\* Core sends headers and never ends the body, and even if nobody calls.
AdmitsAgain == []<>Admits
=============================================================================
