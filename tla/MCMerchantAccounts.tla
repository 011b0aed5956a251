------------------------- MODULE MCMerchantAccounts -------------------------
(* Instances of MerchantAccounts for TLC. *)
EXTENDS MerchantAccounts, TLC

Symmetric ==
    Permutations(Merchants) \cup Permutations(Wallets) \cup Permutations(Emails)
        \cup Permutations(Keys) \cup Permutations(Requests)

-----------------------------------------------------------------------------
(* Statements that do not hold; the README says how each comes to fail.    *)

(* A viewer changes nothing. *)
ViewersOnlyRead ==
    [][\A q \in Requests, k \in Keys :
          GenerateApiKey(q, k) => merchants[req[q].merchant].role \in Writers]_vars

(* Every key that was generated is in the audit log or about to be. *)
KeysAreAudited ==
    \A k \in Keys : Exists(k) =>
        \/ <<"api_key_generated", apiKeys[k].merchantId, k>> \in auditLogs
        \/ \E q \in Requests : req[q].note = <<"api_key_generated", apiKeys[k].merchantId, k>>

=============================================================================
