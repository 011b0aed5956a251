-------------------------- MODULE MCPaymentPolling --------------------------
(* Instances of PaymentPolling for TLC. *)
EXTENDS PaymentPolling, TLC

Symmetric == Permutations(Instances)

-----------------------------------------------------------------------------
(* Statements that do not hold; the README says how each comes to fail.    *)

(* The lock is renewed and deleted by its holder only ("if this instance   *)
(* still holds it").                                                       *)
LockTouchedByHolder ==
    [][\A i \in Instances : ExtendLock(i) \/ DeleteLock(i) => lock = i]_vars

(* A loop that starts from 'now' is given no operation that is already on  *)
(* the ledger ("Payments before this point will not be replayed").         *)
NowSkipsHistory ==
    [][\A i \in Instances : Fetch(i) /\ inst[i].cursor = Now => inst'[i].pc = "poll"]_vars

(* Every operation is processed, whatever becomes of the calls of the loops. *)
ProcessedAtLast ==
    \A k \in 1..MaxOps : tip >= k ~> k \in processed

=============================================================================
