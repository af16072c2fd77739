---------------------------- MODULE QuotaLedger ----------------------------
(***************************************************************************)
(* What the raw-media ledger of an organization promises: every upload is  *)
(* charged once, when it is admitted, for the size it declared; it stays   *)
(* charged, first as a reservation and then as stored bytes, until it is   *)
(* released, once and for ever; and an upload is only admitted while the   *)
(* total stays within the quota.                                           *)
(***************************************************************************)
EXTENDS ByteSums

CONSTANTS Uploads, Quota

VARIABLES
    hold,     \* per upload: "free", "reserved", "stored" or "released"
    amount,   \* per upload: the bytes it was admitted for
    charged   \* what the organization is charged in all

ledger == <<hold, amount, charged>>

Held == {u \in Uploads : hold[u] \in {"reserved", "stored"}}

Init ==
    /\ hold = [u \in Uploads |-> "free"]
    /\ amount = [u \in Uploads |-> 0]
    /\ charged = 0

\* Admission may release reservations that have lapsed in the same step.
Admit(u, b, R) ==
    /\ hold[u] = "free"
    /\ R \subseteq {v \in Uploads : hold[v] = "reserved"}
    /\ charged' = charged - Bytes(amount, R) + b
    /\ charged' <= Quota
    /\ hold' = [v \in Uploads |-> IF v = u THEN "reserved"
                                  ELSE IF v \in R THEN "released" ELSE hold[v]]
    /\ amount' = [amount EXCEPT ![u] = b]

Store(u) ==
    /\ hold[u] = "reserved"
    /\ hold' = [hold EXCEPT ![u] = "stored"]
    /\ UNCHANGED <<amount, charged>>

ReleaseAll(R) ==
    /\ R \subseteq Held
    /\ charged' = charged - Bytes(amount, R)
    /\ hold' = [v \in Uploads |-> IF v \in R THEN "released" ELSE hold[v]]
    /\ UNCHANGED amount

Next ==
    \/ \E u \in Uploads, b \in 1..MaxUploadBytes, R \in SUBSET Uploads : Admit(u, b, R)
    \/ \E u \in Uploads : Store(u)
    \/ \E R \in SUBSET Uploads : ReleaseAll(R)

Spec == Init /\ [][Next]_ledger
=============================================================================
