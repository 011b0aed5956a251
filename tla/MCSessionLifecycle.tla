------------------------- MODULE MCSessionLifecycle -------------------------
(* Instances of SessionLifecycle for TLC. *)
EXTENDS SessionLifecycle, TLC

CONSTANTS s1, s2, t1, t2, t3, usdc, issuer1, issuer2, Nobody

Native  == [code |-> XLM, issuer |-> Nobody]
Usdc(i) == [code |-> usdc, issuer |-> i]

MCPrice == [s \in Sessions |-> IF s = s1 THEN [amount |-> 1, asset |-> Native]
                                         ELSE [amount |-> 2, asset |-> Usdc(issuer1)]]

Operation(t, s, n, a) == [tx |-> t, memo |-> s, amount |-> n, asset |-> a]

(* Two payments that the checks accept for one session, one of them in     *)
(* another asset, and one with the wrong amount.                           *)
MCOneSession ==
    {Operation(t1, s1, 1, Native), Operation(t2, s1, 1, Usdc(issuer1)),
     Operation(t3, s1, 2, Native)}

(* Two payments that match one session. *)
MCTwice == {Operation(t1, s1, 1, Native), Operation(t2, s1, 1, Native)}

(* A session priced in XLM, and one priced in the asset of one issuer,     *)
(* each with a payment of the asked amount in another asset.               *)
MCOtherCode   == {Operation(t1, s1, 1, Usdc(issuer1))}
MCOtherIssuer == {Operation(t1, s2, 2, Usdc(issuer2))}

Symmetric ==
    Permutations(Detectors) \cup Permutations(Recoverers) \cup Permutations(Requests)

-----------------------------------------------------------------------------
(* Statements that do not hold; the README says how each comes to fail.    *)

(* Only a pending session can be cancelled.                                *)
CancelOnlyPending ==
    [][\A s \in Sessions :
          status'[s] = "cancelled" /\ status[s] # "cancelled" => status[s] = "pending"]_vars

(* "session TTL in minutes" (.env.example): a session expires when its     *)
(* time to live is over, not before.                                       *)
ExpiresAtDeadline ==
    [][\A s \in Sessions :
          status'[s] = "expired" /\ status[s] # "expired" => age[s] > TTL]_vars

=============================================================================
