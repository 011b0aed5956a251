--------------------------- MODULE MCAuthChallenge ---------------------------
(* Instances of AuthChallenge for TLC. *)
EXTENDS AuthChallenge, TLC

Symmetric == Permutations(Calls) \cup Permutations(Wallets)

-----------------------------------------------------------------------------
(* Statements that do not hold; the README says how each comes to fail.    *)

(* "single-use nonce": a challenge is exchanged for one token.             *)
OneTokenPerChallenge ==
    \A c, d \in Calls :
        call[c].verdict = "token" /\ call[d].verdict = "token" /\ call[c].tx = call[d].tx
            => c = d

(* "Too many failed verification attempts. Try again later.": a counter    *)
(* that turns calls away runs out, or a call is about to see to it.        *)
CounterRunsOut ==
    \A w \in Wallets : attempts[w].n >= MaxAttempts =>
        \/ attempts[w].until # 0
        \/ \E c \in Calls : call[c].pc = "expire" /\ call[c].wallet = w

(* What is held against a wallet are attempts that failed through the      *)
(* caller ("Too many failed verification attempts"), while a Horizon that  *)
(* cannot be reached is answered 503 ("Horizon API is unreachable").       *)
OutagesAreNotCharged ==
    \A w \in Wallets :
        attempts[w].n <=
            Cardinality({c \in Calls : call[c].refused = "caller" /\ call[c].wallet = w})

=============================================================================
