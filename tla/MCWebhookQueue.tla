--------------------------- MODULE MCWebhookQueue ---------------------------
(* Instances of WebhookQueue for TLC. *)
EXTENDS WebhookQueue, TLC

Symmetric == Permutations(Ids) \cup Permutations(Sessions) \cup Permutations(Workers)

-----------------------------------------------------------------------------
(* Statements that do not hold; the README says how each comes to fail.    *)

(* The sweep is "safe to run repeatedly": it does not revive a delivery    *)
(* that has been concluded.                                                *)
SweepRevivesUnfinished ==
    [][\A w \in Workers : ReviveJob(w) => Unfinished(recov[w].job[1])]_vars

(* "A later event for a session is never delivered until the earlier one   *)
(* has either succeeded or been dead-lettered."                            *)
StrictOrder ==
    [][\A w \in Workers, d \in Ids :
          Deliver(w, d) => \A e \in Ids : Earlier(e, d) => Finished(e)]_vars

(* A retry waits for its backoff.                                          *)
BackoffRespected ==
    [][\A w \in Workers, d \in Ids :
          ~Active(w, d) /\ Active(w, d)' => scheduled[d] # "later"]_vars

(* "After 5 failed attempts a delivery is moved to the dead-letter queue": *)
(* it is not attempted any more.                                           *)
DeadIsNotAttempted ==
    [][\A w \in Workers, d \in Ids : Deliver(w, d) => dead[d] = "no"]_vars

=============================================================================
