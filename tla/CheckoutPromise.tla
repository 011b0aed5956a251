-------------------------- MODULE CheckoutPromise --------------------------
(***************************************************************************)
(* What a checkout promises, whoever does the work and whatever fails: a   *)
(* session opens once and is never open again after it was closed; it is   *)
(* shown as paid, and its merchant is told of a payment, only when that    *)
(* payment is on record; a payment on record stays there.  Closed sessions *)
(* may still change between paid, expired and cancelled.                   *)
(*                                                                         *)
(* SessionLifecycle implements this with the webhook queue as the          *)
(* merchant, SessionQueue with the merchant's endpoint.                    *)
(***************************************************************************)
CONSTANTS
    Sessions,   \* checkout sessions
    Txs         \* transaction hashes

VARIABLES
    view,       \* what the API shows: "none", "open", or how it was closed
    recorded,   \* <<session, tx>>: the payments on record
    told        \* <<session, tx>>: the payments the merchant has heard of

promised == <<view, recorded, told>>

OnRecord(s) == \E t \in Txs : <<s, t>> \in recorded

Init ==
    /\ view = [s \in Sessions |-> "none"]
    /\ recorded = {}
    /\ told = {}

Open(s) ==
    /\ view[s] = "none"
    /\ view' = [view EXCEPT ![s] = "open"]
    /\ UNCHANGED <<recorded, told>>

(* A payment goes on record and its session is paid, in one step. *)
Confirm(s, t) ==
    /\ view[s] # "none"
    /\ recorded' = recorded \cup {<<s, t>>}
    /\ view' = [view EXCEPT ![s] = "paid"]
    /\ UNCHANGED told

(* An open session is closed, or a closed one is closed differently; as    *)
(* paid only if a payment is on record.                                    *)
Close(s, how) ==
    /\ view[s] # "none"
    /\ how = "paid" => OnRecord(s)
    /\ view' = [view EXCEPT ![s] = how]
    /\ UNCHANGED <<recorded, told>>

Tell(s, t) ==
    /\ <<s, t>> \in recorded
    /\ told' = told \cup {<<s, t>>}
    /\ UNCHANGED <<view, recorded>>

Next ==
    \E s \in Sessions :
        \/ Open(s)
        \/ \E t \in Txs : Confirm(s, t) \/ Tell(s, t)
        \/ \E how \in {"paid", "expired", "cancelled"} : Close(s, how)

Spec == Init /\ [][Next]_promised

=============================================================================
