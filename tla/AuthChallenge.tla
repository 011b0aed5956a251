---------------------------- MODULE AuthChallenge ----------------------------
(***************************************************************************)
(* The wallet login of auth.service.ts: a challenge whose nonce waits in   *)
(* Redis, the calls that verify a signed challenge, the counter of failed  *)
(* attempts of a wallet, and the circuit breaker in front of Horizon.      *)
(*                                                                         *)
(* One process serves the calls; an action is the code between two awaits. *)
(* A transaction is the number of the challenge it was built from, 0 for   *)
(* one the server never issued, and the key its client signed it with.     *)
(* Its time bounds end with the nonce's time to live, or later, and are    *)
(* left out: no transaction passes the nonce check and fails theirs.       *)
(*                                                                         *)
(* A definition headed "Variant" is a plausible mistake in the definition  *)
(* that follows it.  No behaviour of the system uses it: it shows that a   *)
(* property notices the mistake.                                           *)
(***************************************************************************)
EXTENDS Naturals, Sequences, FiniteSets

CONSTANTS
    Wallets,       \* wallet addresses
    NoWallet,      \* a call that has not begun
    Calls,         \* calls of verifyChallenge
    Ttl,           \* challengeTtlSeconds, in clock ticks
    MaxAttempts,   \* failed attempts before a wallet has to wait (10)
    AttemptsTtl,   \* time to live of the counter (60 s)
    MaxRetries,    \* repeated requests to Horizon (2)
    Threshold,     \* failed fetches that open the breaker (3)
    OpenFor,       \* how long it stays open (30 s)
    MaxParallel,   \* bound: calls in progress at a time
    MaxChallenges, \* bound: challenges requested
    MaxTime,       \* bound: the last tick of the clock
    MaxFaults      \* bound: crashes of the process, Redis calls that throw

ASSUME WalletsAssumption == NoWallet \notin Wallets
ASSUME AuthRuleAssumption ==
    /\ Ttl \in Nat \ {0} /\ AttemptsTtl \in Nat \ {0} /\ OpenFor \in Nat
    /\ MaxAttempts \in Nat \ {0} /\ MaxRetries \in Nat /\ Threshold \in Nat \ {0}
ASSUME AuthBoundsAssumption ==
    /\ MaxParallel \in Nat \ {0} /\ MaxChallenges \in Nat
    /\ MaxTime \in Nat /\ MaxFaults \in Nat

VARIABLES
    clock,
    owner,      \* owner[n]: the wallet challenge n was issued to
    challenge,  \* Redis challenge:<wallet>: [n, until], n = 0 without a key
    attempts,   \* Redis rate_limit:verify:<wallet>: [n, until], until = 0 without a TTL
    breaker,    \* this.horizonFailureCount and this.horizonCircuitOpenUntil
    call,       \* the calls of verifyChallenge
    faults

vars == <<clock, owner, challenge, attempts, breaker, call, faults>>

NoKey  == [n |-> 0, until |-> 0]
Closed == [failures |-> 0, until |-> 0]

(* "verdict" is the answer; "refused" whether verifyChallengeCore threw an *)
(* UnauthorizedException, and whether it threw it at something the caller  *)
(* had done or because Horizon gave no answer; "used" the challenges that  *)
(* had been exchanged for a token when the call began.                     *)
NewCall == [pc |-> "new", wallet |-> NoWallet, tx |-> 0, key |-> "none", tries |-> 0,
            verdict |-> "none", refused |-> "no", used |-> {}]

Init ==
    /\ clock = 0
    /\ owner = <<>>
    /\ challenge = [w \in Wallets |-> NoKey]
    /\ attempts = [w \in Wallets |-> NoKey]
    /\ breaker = Closed
    /\ call = [c \in Calls |-> NewCall]
    /\ faults = 0

Fault == faults < MaxFaults /\ faults' = faults + 1

InProgress == {c \in Calls : call[c].pc \notin {"new", "done"}}

Exchanged == {call[c].tx : c \in {d \in Calls : call[d].verdict = "token"}}

GoTo(c, pc) == call' = [call EXCEPT ![c].pc = pc]

Finish(c, verdict) == call' = [call EXCEPT ![c].pc = "done", ![c].verdict = verdict]

(* throw new UnauthorizedException inside verifyChallengeCore: it is       *)
(* counted before it is passed on, whoever is the reason.                  *)
Refuse(c, reason) == call' = [call EXCEPT ![c].pc = "count", ![c].refused = reason]

-----------------------------------------------------------------------------
(* requestChallenge: the newest challenge of a wallet replaces the others. *)
RequestChallenge(w) ==
    /\ Len(owner) < MaxChallenges
    /\ owner' = Append(owner, w)
    /\ challenge' = [challenge EXCEPT ![w] = [n |-> Len(owner) + 1, until |-> clock + Ttl]]
    /\ UNCHANGED <<clock, attempts, breaker, call, faults>>

(* A call that has read the counter and goes on or is turned away. *)
Begun(w, tx, key, late) ==
    [pc |-> IF late THEN "done" ELSE "read", wallet |-> w, tx |-> tx, key |-> key,
     tries |-> 0, verdict |-> IF late THEN "tooMany" ELSE "none", refused |-> "no",
     used |-> Exchanged]

(* Variant: one attempt more than the limit. *)
BeginLate(c) ==
    /\ call[c].pc = "new"
    /\ Cardinality(InProgress) < MaxParallel
    /\ \E w \in Wallets, tx \in 0..Len(owner), key \in {"wallet", "signer", "other"} :
          call' = [call EXCEPT ![c] = Begun(w, tx, key, attempts[w].n > MaxAttempts)]
    /\ UNCHANGED <<clock, owner, challenge, attempts, breaker, faults>>

(* verifyChallenge begins and reads the counter. *)
Begin(c) ==
    /\ call[c].pc = "new"
    /\ Cardinality(InProgress) < MaxParallel
    /\ \E w \in Wallets, tx \in 0..Len(owner), key \in {"wallet", "signer", "other"} :
          call' = [call EXCEPT ![c] = Begun(w, tx, key, attempts[w].n >= MaxAttempts)]
    /\ UNCHANGED <<clock, owner, challenge, attempts, breaker, faults>>

(* The nonce in Redis is the one of the transaction, whose operation       *)
(* belongs to the wallet.                                                  *)
Presents(c) ==
    /\ challenge[call[c].wallet].n # 0
    /\ call[c].tx = challenge[call[c].wallet].n
    /\ owner[call[c].tx] = call[c].wallet

(* verifyChallengeCore reads the nonce and checks the transaction, and     *)
(* fetchAccountSignersWithResilience looks at the breaker.  An operation   *)
(* without a value makes Buffer.from throw a TypeError, which is no        *)
(* refusal; only transactions the server never issued have one.            *)
ReadNonce(c) ==
    /\ call[c].pc = "read"
    /\ IF ~Presents(c)
       THEN \/ Refuse(c, "caller")
            \/ /\ challenge[call[c].wallet].n # 0 /\ call[c].tx = 0
               /\ Finish(c, "error")
       ELSE IF clock < breaker.until THEN Finish(c, "unavailable")
       ELSE GoTo(c, "fetch")
    /\ UNCHANGED <<clock, owner, challenge, attempts, breaker, faults>>

(* Variant: nobody looks at the signature. *)
AcceptAnyKey(c, known) == GoTo(c, "delete")

(* A signature by the wallet's own key or by a signer of its account.      *)
CheckSignature(c, known) ==
    IF call[c].key \in known THEN GoTo(c, "delete") ELSE Refuse(c, "caller")

-----------------------------------------------------------------------------
(* The answers of Horizon. *)

SignersAnswer(c) ==
    /\ call[c].pc = "fetch"
    /\ breaker' = [breaker EXCEPT !.failures = 0]
    /\ CheckSignature(c, {"wallet", "signer"})
    /\ UNCHANGED <<clock, owner, challenge, attempts, faults>>

(* 404: the account is not on the ledger, its key is its only signer.      *)
NotFoundAnswer(c) ==
    /\ call[c].pc = "fetch"
    /\ CheckSignature(c, {"wallet"})
    /\ UNCHANGED <<clock, owner, challenge, attempts, breaker, faults>>

(* Variant: the error counts once per request, not once per call. *)
FailingOf(c) ==
    LET failures == breaker.failures + 1
    IN breaker' = [failures |-> failures,
                   until |-> IF failures >= Threshold THEN clock + OpenFor
                             ELSE breaker.until]

(* The last request of a call counts. *)
Failing(c) ==
    IF call[c].tries < MaxRetries THEN UNCHANGED breaker
    ELSE LET failures == breaker.failures + 1
         IN breaker' = [failures |-> failures,
                        until |-> IF failures >= Threshold THEN clock + OpenFor
                                  ELSE breaker.until]

(* Variant: one request too many. *)
OutageOnceMore(c) ==
    /\ call[c].pc = "fetch"
    /\ Failing(c)
    /\ IF call[c].tries <= MaxRetries
       THEN call' = [call EXCEPT ![c].tries = @ + 1]
       ELSE Finish(c, "unavailable")
    /\ UNCHANGED <<clock, owner, challenge, attempts, faults>>

(* Variant: the caller is charged for a 5xx or a timeout. *)
OutageCharged(c) ==
    /\ call[c].pc = "fetch"
    /\ Failing(c)
    /\ IF call[c].tries < MaxRetries
       THEN call' = [call EXCEPT ![c].tries = @ + 1]
       ELSE GoTo(c, "count")
    /\ UNCHANGED <<clock, owner, challenge, attempts, faults>>

(* 5xx or a timeout: wait and ask again, without another look at the       *)
(* breaker; after the last request, 503.                                   *)
OutageAnswer(c) ==
    /\ call[c].pc = "fetch"
    /\ Failing(c)
    /\ IF call[c].tries < MaxRetries
       THEN call' = [call EXCEPT ![c].tries = @ + 1]
       ELSE Finish(c, "unavailable")
    /\ UNCHANGED <<clock, owner, challenge, attempts, faults>>

(* No connection (ECONNREFUSED, ENOTFOUND, ECONNRESET) or 429: an outage   *)
(* of Horizon, but neither a 5xx nor a timeout.  It is not asked again,    *)
(* the breaker does not notice, and the answer is an                       *)
(* UnauthorizedException.                                                  *)
UnreachableAnswer(c) ==
    /\ call[c].pc = "fetch"
    /\ Refuse(c, "horizon")
    /\ UNCHANGED <<clock, owner, challenge, attempts, breaker, faults>>

(* Another 4xx: Horizon does not accept the account the caller named. *)
ErrorAnswer(c) ==
    /\ call[c].pc = "fetch"
    /\ Refuse(c, "caller")
    /\ UNCHANGED <<clock, owner, challenge, attempts, breaker, faults>>

-----------------------------------------------------------------------------
(* The end of a call. *)

(* Variant: the nonce stays. *)
KeepNonce(c) ==
    /\ call[c].pc = "delete"
    /\ Finish(c, "token")
    /\ UNCHANGED <<clock, owner, challenge, attempts, breaker, faults>>

(* The wallet's nonce is deleted, whichever it is by now, and the token    *)
(* issued.                                                                 *)
DeleteNonce(c) ==
    /\ call[c].pc = "delete"
    /\ challenge' = [challenge EXCEPT ![call[c].wallet] = NoKey]
    /\ Finish(c, "token")
    /\ UNCHANGED <<clock, owner, attempts, breaker, faults>>

(* INCR; a counter that did not exist gets its time to live in a second    *)
(* call ...                                                                *)
CountFailure(c) ==
    /\ call[c].pc = "count"
    /\ attempts' = [attempts EXCEPT ![call[c].wallet].n = @ + 1]
    /\ IF attempts[call[c].wallet].n = 0
       THEN GoTo(c, "expire") ELSE Finish(c, "unauthorized")
    /\ UNCHANGED <<clock, owner, challenge, breaker, faults>>

(* ... EXPIRE. *)
ExpireCounter(c) ==
    /\ call[c].pc = "expire"
    /\ attempts' = [attempts EXCEPT ![call[c].wallet].until =
                       IF attempts[call[c].wallet].n = 0 THEN 0 ELSE clock + AttemptsTtl]
    /\ Finish(c, "unauthorized")
    /\ UNCHANGED <<clock, owner, challenge, breaker, faults>>

(* A Redis call throws something that is no UnauthorizedException; a       *)
(* write may have been carried out.                                        *)
RedisThrows(c) ==
    /\ call[c].pc \in {"read", "delete", "count", "expire"}
    /\ Fault
    /\ Finish(c, "error")
    /\ challenge' \in {challenge} \cup
          (IF call[c].pc = "delete"
           THEN {[challenge EXCEPT ![call[c].wallet] = NoKey]} ELSE {})
    /\ attempts' \in {attempts} \cup
          (IF call[c].pc = "count"
           THEN {[attempts EXCEPT ![call[c].wallet].n = @ + 1]} ELSE {})
    /\ UNCHANGED <<clock, owner, breaker>>

(* The process dies, with its calls and its breaker. *)
Crash ==
    /\ Fault
    /\ call' = [c \in Calls |->
                   IF c \in InProgress
                   THEN [call[c] EXCEPT !.pc = "done", !.verdict = "error"] ELSE call[c]]
    /\ breaker' = Closed
    /\ UNCHANGED <<clock, owner, challenge, attempts>>

(* Time passes and keys run out. *)
Tick ==
    /\ clock < MaxTime
    /\ clock' = clock + 1
    /\ challenge' = [w \in Wallets |->
                        IF challenge[w].until <= clock + 1 THEN NoKey ELSE challenge[w]]
    /\ attempts' = [w \in Wallets |->
                       IF attempts[w].until \in 1..(clock + 1) THEN NoKey ELSE attempts[w]]
    /\ UNCHANGED <<owner, breaker, call, faults>>

-----------------------------------------------------------------------------
Verify(c) ==
    \/ ReadNonce(c) \/ SignersAnswer(c) \/ NotFoundAnswer(c) \/ OutageAnswer(c)
    \/ UnreachableAnswer(c) \/ ErrorAnswer(c)
    \/ DeleteNonce(c) \/ CountFailure(c) \/ ExpireCounter(c)

Next ==
    \/ Tick \/ Crash
    \/ \E w \in Wallets : RequestChallenge(w)
    \/ \E c \in Calls : Begin(c) \/ Verify(c) \/ RedisThrows(c)

Spec == Init /\ [][Next]_vars

-----------------------------------------------------------------------------
(* The type invariant. *)
TypeOK ==
    /\ clock \in 0..MaxTime
    /\ owner \in Seq(Wallets) /\ Len(owner) <= MaxChallenges
    /\ challenge \in [Wallets -> [n : 0..MaxChallenges, until : 0..(MaxTime + Ttl)]]
    /\ \A w \in Wallets : challenge[w].n # 0 =>
          challenge[w].n <= Len(owner) /\ owner[challenge[w].n] = w
    /\ attempts \in [Wallets -> [n : Nat, until : 0..(MaxTime + AttemptsTtl)]]
    /\ breaker \in [failures : Nat, until : 0..(MaxTime + OpenFor)]
    /\ call \in [Calls -> [
          pc : {"new", "read", "fetch", "delete", "count", "expire", "done"},
          wallet : Wallets \cup {NoWallet}, tx : 0..MaxChallenges,
          key : {"none", "wallet", "signer", "other"}, tries : 0..MaxRetries,
          verdict : {"none", "token", "unauthorized", "unavailable", "tooMany", "error"},
          refused : {"no", "caller", "horizon"}, used : SUBSET (1..MaxChallenges)]]
    /\ faults \in 0..MaxFaults

(* A token is issued only for a challenge that the server issued to this   *)
(* very wallet and that the wallet or a signer of its account has signed,  *)
(* whatever other calls and challenges come between its checks.            *)
TokensAreProven ==
    \A c \in Calls : call[c].verdict = "token" =>
        /\ call[c].tx \in 1..Len(owner)
        /\ owner[call[c].tx] = call[c].wallet
        /\ call[c].key \in {"wallet", "signer"}

(* A challenge that has been exchanged for a token is of no use to a call  *)
(* that begins later, not even when later challenges, failing calls or a   *)
(* crash come between.                                                     *)
NotReplayed ==
    \A c \in Calls : call[c].verdict = "token" => call[c].tx \notin call[c].used

(* The counter is read before a verification and written after it: calls   *)
(* that overlap pass the check together, but no more of them than are in   *)
(* progress at a time.                                                     *)
AttemptsBounded ==
    \A w \in Wallets : attempts[w].n < MaxAttempts + MaxParallel

(* Only refusals are counted, each once: neither a 5xx or a timeout of     *)
(* Horizon, however many requests it takes, nor a breaker that is open,    *)
(* nor a call the counter turns away is held against the wallet.  A        *)
(* connection that fails is, and so is a 429 (UnreachableAnswer).          *)
OnlyRefusalsCount ==
    \A w \in Wallets :
        attempts[w].n <=
            Cardinality({c \in Calls : call[c].refused # "no" /\ call[c].wallet = w})

(* The breaker opens only after Threshold calls have each used up all      *)
(* their requests to Horizon.                                              *)
BreakerNeedsFailures ==
    breaker.until # 0 =>
        Cardinality({c \in Calls : call[c].verdict = "unavailable"
                                   /\ call[c].tries = MaxRetries}) >= Threshold

=============================================================================
