------------------------- MODULE AuthChallengeProofs -------------------------
(* Safety of AuthChallenge for any number of wallets, calls and challenges. *)
EXTENDS AuthChallenge, FiniteSetTheorems, TLAPS

CallType == [pc : {"new", "read", "fetch", "delete", "count", "expire", "done"},
             wallet : Wallets \cup {NoWallet}, tx : 0..MaxChallenges,
             key : {"none", "wallet", "signer", "other"}, tries : 0..MaxRetries,
             verdict : {"none", "token", "unauthorized", "unavailable", "tooMany", "error"},
             refused : {"no", "caller", "horizon"}, used : SUBSET (1..MaxChallenges)]

(* For whose sake a call is refused. *)
Reasons == {"caller", "horizon"}

(* The part of TypeOK about the keys, the breaker and the counters. *)
KeysInv ==
    /\ clock \in 0..MaxTime
    /\ owner \in Seq(Wallets) /\ Len(owner) <= MaxChallenges
    /\ challenge \in [Wallets -> [n : 0..MaxChallenges, until : 0..(MaxTime + Ttl)]]
    /\ \A w \in Wallets : challenge[w].n # 0 =>
          challenge[w].n <= Len(owner) /\ owner[challenge[w].n] = w
    /\ attempts \in [Wallets -> [n : Nat, until : 0..(MaxTime + AttemptsTtl)]]
    /\ breaker \in [failures : Nat, until : 0..(MaxTime + OpenFor)]
    /\ faults \in 0..MaxFaults

(* What a call knows.  Past the nonce check its challenge belongs to its   *)
(* wallet and had not been exchanged when it began; past the signature     *)
(* check it is signed.                                                     *)
CallInv(c) ==
    /\ call[c].tx <= Len(owner)
    /\ call[c].pc # "new" => call[c].wallet \in Wallets
    /\ call[c].used \subseteq Exchanged
    /\ call[c].pc \in {"fetch", "delete"} \/ call[c].verdict = "token" =>
          /\ call[c].tx \in 1..Len(owner)
          /\ owner[call[c].tx] = call[c].wallet
          /\ call[c].tx \notin call[c].used
    /\ call[c].pc = "delete" \/ call[c].verdict = "token" =>
          call[c].key \in {"wallet", "signer"}
    /\ call[c].verdict = "token" => call[c].pc = "done"

(* A nonce that is still in Redis has not been exchanged. *)
NoncesAreFresh ==
    \A w \in Wallets, c \in Calls :
        call[c].verdict = "token" => call[c].tx # challenge[w].n

Inv ==
    /\ KeysInv
    /\ call \in [Calls -> CallType]
    /\ \A c \in Calls : CallInv(c)
    /\ NoncesAreFresh

(* The three properties are parts of the invariant. *)
LEMMA InvImplies == Inv => TypeOK /\ TokensAreProven /\ NotReplayed
BY DEF Inv, KeysInv, CallType, CallInv, TypeOK, TokensAreProven, NotReplayed

(* Initially there is no key and no call. *)
LEMMA InitInv == Init => Inv
<1> SUFFICES ASSUME Init PROVE Inv
    OBVIOUS
<1> USE DEF Init, NewCall, NoKey, Closed
<1>1. KeysInv
    BY AuthRuleAssumption, AuthBoundsAssumption DEF KeysInv
<1>2. call \in [Calls -> CallType]
    BY AuthRuleAssumption, AuthBoundsAssumption DEF CallType
<1>3. ASSUME NEW c \in Calls PROVE CallInv(c)
    BY DEF CallInv
<1> QED
    BY <1>1, <1>2, <1>3 DEF Inv, NoncesAreFresh

(* A step of one call, to which no token had been given: it is enough to   *)
(* look at that call and, if it gets a token, at the nonces.               *)
LEMMA OneCall ==
    ASSUME Inv, NEW c \in Calls, KeysInv', owner' = owner,
           NEW new \in CallType, call' = [call EXCEPT ![c] = new],
           call[c].verdict # "token", CallInv(c)',
           \A w \in Wallets : challenge'[w].n \in {0, challenge[w].n},
           new.verdict = "token" => \A w \in Wallets : new.tx # challenge'[w].n
    PROVE  Inv'
<1>1. call' \in [Calls -> CallType] /\ call'[c] = new
    BY DEF Inv
<1>2. \A d \in Calls : d # c => call'[d] = call[d]
    BY DEF Inv
<1>3. Exchanged \subseteq Exchanged'
    BY <1>1, <1>2 DEF Exchanged, Inv
<1>4. ASSUME NEW d \in Calls PROVE CallInv(d)'
    <2>1. CASE d = c
        BY <2>1
    <2>2. CASE d # c
        BY <2>2, <1>2, <1>3 DEF Inv, CallInv
    <2> QED
        BY <2>1, <2>2
<1>5. NoncesAreFresh'
    <2> SUFFICES ASSUME NEW w \in Wallets, NEW d \in Calls, call'[d].verdict = "token"
                 PROVE  call'[d].tx # challenge'[w].n
        BY DEF NoncesAreFresh
    <2>1. CASE d = c
        BY <2>1, <1>1
    <2>2. CASE d # c
        <3>1. call[d].verdict = "token" /\ call'[d].tx = call[d].tx
            BY <2>2, <1>2
        <3>2. call[d].tx # challenge[w].n /\ call[d].tx # 0
            BY <3>1 DEF Inv, CallInv, NoncesAreFresh
        <3> QED
            BY <3>1, <3>2
    <2> QED
        BY <2>1, <2>2
<1> QED
    BY <1>1, <1>4, <1>5 DEF Inv

(* A call that begins. *)
LEMMA BeginStep == ASSUME Inv, NEW c \in Calls, Begin(c) PROVE Inv'
<1>1. PICK w \in Wallets, tx \in 0..Len(owner), key \in {"wallet", "signer", "other"} :
          call' = [call EXCEPT ![c] = Begun(w, tx, key, attempts[w].n >= MaxAttempts)]
    BY DEF Begin
<1> DEFINE new == Begun(w, tx, key, attempts[w].n >= MaxAttempts)
<1>2. UNCHANGED <<clock, owner, challenge, attempts, breaker, faults>> /\ call[c].pc = "new"
    BY DEF Begin
<1>3. KeysInv'
    BY <1>2 DEF Inv, KeysInv
<1>4. call[c].verdict # "token"
    BY <1>2 DEF Inv, CallInv
<1>5. Exchanged \subseteq 1..MaxChallenges
    BY AuthBoundsAssumption DEF Exchanged, Inv, KeysInv, CallInv, CallType
<1>6. tx \in 0..MaxChallenges /\ tx <= Len(owner)
    BY AuthBoundsAssumption DEF Inv, KeysInv
<1>7. new \in CallType
    <2>1. 0 \in 0..MaxRetries
        BY AuthRuleAssumption
    <2> QED
        BY <2>1, <1>5, <1>6 DEF CallType, Begun
<1>8. /\ new.wallet = w /\ new.tx = tx /\ new.used = Exchanged
      /\ new.pc \in {"read", "done"} /\ new.verdict # "token"
    BY DEF Begun
<1> HIDE DEF new
<1>9. call' = [call EXCEPT ![c] = new] /\ call'[c] = new
    BY <1>1 DEF Inv, new
<1>10. Exchanged \subseteq Exchanged'
    <2>1. \A d \in Calls : d # c => call'[d] = call[d]
        BY <1>9 DEF Inv
    <2> QED
        BY <2>1, <1>4 DEF Exchanged
<1>11. CallInv(c)'
    BY <1>2, <1>6, <1>8, <1>9, <1>10 DEF CallInv
<1>12. \A v \in Wallets : challenge'[v].n \in {0, challenge[v].n}
    BY <1>2
<1> QED
    BY <1>2, <1>3, <1>4, <1>7, <1>8, <1>9, <1>11, <1>12, OneCall

(* A step that leaves a call without a token and without news about its    *)
(* challenge.                                                              *)
LEMMA QuietStep ==
    ASSUME Inv, NEW c \in Calls, KeysInv', owner' = owner,
           call[c].pc \notin {"new", "done"},
           NEW new \in CallType, call' = [call EXCEPT ![c] = new],
           new.wallet = call[c].wallet, new.tx = call[c].tx, new.used = call[c].used,
           new.key = call[c].key, new.verdict # "token", new.pc # "new",
           new.pc = "fetch" =>
              \/ call[c].pc = "fetch"
              \/ /\ call[c].tx \in 1..Len(owner) /\ owner[call[c].tx] = call[c].wallet
                 /\ call[c].tx \notin call[c].used,
           new.pc = "delete" =>
              call[c].pc = "fetch" /\ call[c].key \in {"wallet", "signer"},
           \A w \in Wallets : challenge'[w].n \in {0, challenge[w].n}
    PROVE  Inv'
<1>1. call[c].verdict # "token"
    BY DEF Inv, CallInv
<1>2. call'[c] = new
    BY DEF Inv
<1>3. Exchanged \subseteq Exchanged'
    <2>1. \A d \in Calls : d # c => call'[d] = call[d]
        BY DEF Inv
    <2> QED
        BY <2>1, <1>1 DEF Exchanged
<1>4. CallInv(c)'
    BY <1>2, <1>3 DEF Inv, CallInv
<1> QED
    BY <1>1, <1>4, OneCall

(* The forms in which the actions write a call. *)
LEMMA CallUpdates ==
    ASSUME Inv, NEW c \in Calls
    PROVE  /\ \A pc \in {"fetch", "delete", "count", "expire"} :
                 [call[c] EXCEPT !.pc = pc] \in CallType
           /\ \A v \in {"token", "unauthorized", "unavailable", "error"} :
                 [call[c] EXCEPT !.pc = "done", !.verdict = v] \in CallType
           /\ \A r \in Reasons : [call[c] EXCEPT !.pc = "count", !.refused = r] \in CallType
           /\ call[c].tries < MaxRetries => [call[c] EXCEPT !.tries = @ + 1] \in CallType
<1>1. call[c] \in CallType
    BY DEF Inv
<1>2. \A pc \in {"fetch", "delete", "count", "expire"} :
          [call[c] EXCEPT !.pc = pc] \in CallType
    BY <1>1 DEF CallType
<1>3. \A v \in {"token", "unauthorized", "unavailable", "error"} :
          [call[c] EXCEPT !.pc = "done", !.verdict = v] \in CallType
    BY <1>1 DEF CallType
<1>4. \A r \in Reasons : [call[c] EXCEPT !.pc = "count", !.refused = r] \in CallType
    BY <1>1 DEF CallType, Reasons
<1>5. ASSUME call[c].tries < MaxRetries
      PROVE  [call[c] EXCEPT !.tries = @ + 1] \in CallType
    <2>1. call[c].tries + 1 \in 0..MaxRetries
        BY <1>1, <1>5, AuthRuleAssumption DEF CallType
    <2> QED
        BY <1>1, <2>1 DEF CallType
<1> QED
    BY <1>2, <1>3, <1>4, <1>5

(* The three ways in which an action writes a call, as one record. *)
LEMMA Writes ==
    ASSUME Inv, NEW c \in Calls
    PROVE  /\ \A pc : GoTo(c, pc) => call' = [call EXCEPT ![c] = [call[c] EXCEPT !.pc = pc]]
           /\ \A v : Finish(c, v) =>
                 call' = [call EXCEPT ![c] = [call[c] EXCEPT !.pc = "done", !.verdict = v]]
           /\ \A r : Refuse(c, r) =>
                 call' = [call EXCEPT ![c] = [call[c] EXCEPT !.pc = "count", !.refused = r]]
BY DEF GoTo, Finish, Refuse, Inv

(* A verification that goes on to a step without knowledge of its own,     *)
(* that ends without a token, or that is refused.                          *)
LEMMA QuietWrites ==
    ASSUME Inv, NEW c \in Calls, KeysInv', owner' = owner,
           call[c].pc \notin {"new", "done"},
           \A w \in Wallets : challenge'[w].n \in {0, challenge[w].n},
           \/ \E pc \in {"count", "expire"} : GoTo(c, pc)
           \/ \E v \in {"unauthorized", "unavailable", "error"} : Finish(c, v)
           \/ \E r \in Reasons : Refuse(c, r)
    PROVE  Inv'
<1> DEFINE at(pc) == [call[c] EXCEPT !.pc = pc]
           done(v) == [call[c] EXCEPT !.pc = "done", !.verdict = v]
           refused(r) == [call[c] EXCEPT !.pc = "count", !.refused = r]
<1>t. call[c] \in CallType /\ call[c].verdict # "token"
    BY DEF Inv, CallInv
<1>1. ASSUME NEW pc \in {"count", "expire"}, GoTo(c, pc) PROVE Inv'
    <2>0. at(pc) \in CallType
        BY CallUpdates
    <2>1. /\ at(pc).pc = pc /\ at(pc).wallet = call[c].wallet
          /\ at(pc).tx = call[c].tx /\ at(pc).used = call[c].used
          /\ at(pc).key = call[c].key /\ at(pc).verdict # "token"
        BY <1>t DEF CallType
    <2>2. call' = [call EXCEPT ![c] = at(pc)]
        BY <1>1, Writes
    <2> HIDE DEF at
    <2> QED
        BY <2>0, <2>1, <2>2, QuietStep
<1>2. ASSUME NEW v \in {"unauthorized", "unavailable", "error"}, Finish(c, v) PROVE Inv'
    <2>0. done(v) \in CallType
        BY CallUpdates
    <2>1. /\ done(v).pc = "done" /\ done(v).wallet = call[c].wallet
          /\ done(v).tx = call[c].tx /\ done(v).used = call[c].used
          /\ done(v).key = call[c].key /\ done(v).verdict # "token"
        BY <1>t DEF CallType
    <2>2. call' = [call EXCEPT ![c] = done(v)]
        BY <1>2, Writes
    <2> HIDE DEF done
    <2> QED
        BY <2>0, <2>1, <2>2, QuietStep
<1>3. ASSUME NEW r \in Reasons, Refuse(c, r) PROVE Inv'
    <2>0. refused(r) \in CallType
        BY CallUpdates
    <2>1. /\ refused(r).pc = "count" /\ refused(r).wallet = call[c].wallet
          /\ refused(r).tx = call[c].tx /\ refused(r).used = call[c].used
          /\ refused(r).key = call[c].key /\ refused(r).verdict # "token"
        BY <1>t DEF CallType
    <2>2. call' = [call EXCEPT ![c] = refused(r)]
        BY <1>3, Writes
    <2> HIDE DEF refused
    <2> QED
        BY <2>0, <2>1, <2>2, QuietStep
<1> QED
    BY <1>1, <1>2, <1>3

(* The nonce check: a call that passes it presents its wallet's nonce,     *)
(* which has not been exchanged.                                           *)
LEMMA ReadStep == ASSUME Inv, NEW c \in Calls, ReadNonce(c) PROVE Inv'
<1>1. UNCHANGED <<clock, owner, challenge, attempts, breaker, faults>> /\ call[c].pc = "read"
    BY DEF ReadNonce
<1>2. KeysInv'
    BY <1>1 DEF Inv, KeysInv
<1>3. CASE Refuse(c, "caller") \/ Finish(c, "error") \/ Finish(c, "unavailable")
    BY <1>1, <1>2, <1>3, QuietWrites DEF Reasons
<1>4. CASE Presents(c) /\ GoTo(c, "fetch")
    <2> DEFINE new == [call[c] EXCEPT !.pc = "fetch"]
    <2>1. call[c] \in CallType /\ call[c].verdict # "token" /\ call[c].wallet \in Wallets
        BY <1>1 DEF Inv, CallInv
    <2>2. call[c].tx \in 1..Len(owner) /\ owner[call[c].tx] = call[c].wallet
        BY <1>4, <2>1 DEF Presents, Inv, KeysInv
    <2>3. call[c].tx \notin call[c].used
        <3>1. call[c].tx \notin Exchanged
            BY <1>4, <2>1 DEF Presents, Inv, NoncesAreFresh, Exchanged
        <3> QED
            BY <3>1 DEF Inv, CallInv
    <2>0. new \in CallType
        BY CallUpdates
    <2>4. /\ new.pc = "fetch" /\ new.wallet = call[c].wallet
          /\ new.tx = call[c].tx /\ new.used = call[c].used /\ new.key = call[c].key
          /\ new.verdict # "token"
        BY <2>1 DEF CallType
    <2>5. call' = [call EXCEPT ![c] = new]
        BY <1>4, Writes
    <2> HIDE DEF new
    <2> QED
        BY <1>1, <1>2, <2>0, <2>2, <2>3, <2>4, <2>5, QuietStep
<1> QED
    BY <1>3, <1>4 DEF ReadNonce

(* The signature check, after whichever answer. *)
LEMMA SignatureStep ==
    ASSUME Inv, NEW c \in Calls, KeysInv', UNCHANGED <<owner, challenge>>,
           call[c].pc = "fetch", NEW known \in SUBSET {"wallet", "signer"},
           CheckSignature(c, known)
    PROVE  Inv'
<1>1. CASE Refuse(c, "caller")
    BY <1>1, QuietWrites DEF Reasons
<1>2. CASE call[c].key \in known /\ GoTo(c, "delete")
    <2> DEFINE new == [call[c] EXCEPT !.pc = "delete"]
    <2>1. call[c] \in CallType /\ call[c].verdict # "token"
        BY DEF Inv, CallInv
    <2>0. new \in CallType
        BY CallUpdates
    <2>2. /\ new.pc = "delete" /\ new.wallet = call[c].wallet
          /\ new.tx = call[c].tx /\ new.used = call[c].used /\ new.key = call[c].key
          /\ new.verdict # "token"
        BY <2>1 DEF CallType
    <2>3. call' = [call EXCEPT ![c] = new]
        BY <1>2, Writes
    <2> HIDE DEF new
    <2> QED
        BY <1>2, <2>0, <2>2, <2>3, QuietStep
<1> QED
    BY <1>1, <1>2 DEF CheckSignature

(* An outage: the breaker may count, the call asks again or ends. *)
LEMMA OutageStep == ASSUME Inv, NEW c \in Calls, OutageAnswer(c) PROVE Inv'
<1>1. UNCHANGED <<clock, owner, challenge, attempts, faults>> /\ call[c].pc = "fetch"
    BY DEF OutageAnswer
<1>2. breaker' \in [failures : Nat, until : 0..(MaxTime + OpenFor)]
    <2>1. clock + OpenFor \in 0..(MaxTime + OpenFor)
        BY AuthRuleAssumption, AuthBoundsAssumption DEF Inv, KeysInv
    <2> QED
        BY <2>1, AuthRuleAssumption DEF OutageAnswer, Failing, Inv, KeysInv
<1>3. KeysInv'
    BY <1>1, <1>2 DEF Inv, KeysInv
<1>4. CASE Finish(c, "unavailable")
    BY <1>1, <1>3, <1>4, QuietWrites
<1>5. CASE call[c].tries < MaxRetries /\ call' = [call EXCEPT ![c].tries = @ + 1]
    <2> DEFINE new == [call[c] EXCEPT !.tries = @ + 1]
    <2>1. call[c] \in CallType /\ call[c].verdict # "token"
        BY <1>1 DEF Inv, CallInv
    <2>0. new \in CallType
        BY <1>5, CallUpdates
    <2>2. /\ new.pc = "fetch" /\ new.wallet = call[c].wallet
          /\ new.tx = call[c].tx /\ new.used = call[c].used /\ new.key = call[c].key
          /\ new.verdict # "token"
        BY <1>1, <2>1 DEF CallType
    <2>3. call' = [call EXCEPT ![c] = new]
        BY <1>5 DEF Inv
    <2> HIDE DEF new
    <2> QED
        BY <1>1, <1>3, <2>0, <2>2, <2>3, QuietStep
<1> QED
    BY <1>4, <1>5 DEF OutageAnswer

(* Deleting a wallet's nonce keeps the keys in order, and so does adding   *)
(* one to its counter.                                                     *)
LEMMA KeyWrites ==
    ASSUME Inv, NEW w \in Wallets, UNCHANGED <<clock, owner, breaker>>, faults' \in 0..MaxFaults,
           challenge' \in {challenge, [challenge EXCEPT ![w] = NoKey]},
           attempts' \in {attempts, [attempts EXCEPT ![w].n = @ + 1]}
    PROVE  /\ KeysInv'
           /\ \A v \in Wallets : challenge'[v].n \in {0, challenge[v].n}
<1>1. NoKey \in [n : 0..MaxChallenges, until : 0..(MaxTime + Ttl)] /\ NoKey.n = 0
    <2>1. 0 \in 0..MaxChallenges /\ 0 \in 0..(MaxTime + Ttl)
        BY AuthRuleAssumption, AuthBoundsAssumption
    <2> QED
        BY <2>1 DEF NoKey
<1> USE DEF Inv, KeysInv
<1>2. /\ challenge' \in [Wallets -> [n : 0..MaxChallenges, until : 0..(MaxTime + Ttl)]]
      /\ \A v \in Wallets : challenge'[v] \in {NoKey, challenge[v]}
    BY <1>1
<1>3. attempts' \in [Wallets -> [n : Nat, until : 0..(MaxTime + AttemptsTtl)]]
    <2>1. attempts[w] \in [n : Nat, until : 0..(MaxTime + AttemptsTtl)]
        OBVIOUS
    <2>2. attempts[w].n + 1 \in Nat
        BY <2>1
    <2>3. [attempts[w] EXCEPT !.n = @ + 1] \in [n : Nat, until : 0..(MaxTime + AttemptsTtl)]
        BY <2>1, <2>2
    <2>4. [attempts EXCEPT ![w].n = @ + 1] = [attempts EXCEPT ![w] = [attempts[w] EXCEPT !.n = @ + 1]]
        OBVIOUS
    <2> QED
        BY <2>3, <2>4
<1>4. \A v \in Wallets : challenge'[v].n # 0 => challenge'[v] = challenge[v]
    BY <1>1, <1>2
<1> QED
    BY <1>1, <1>2, <1>3, <1>4

(* A token is issued: the nonce that belongs to the same wallet goes with  *)
(* it, and the nonces of other wallets are other challenges.               *)
LEMMA DeleteStep == ASSUME Inv, NEW c \in Calls, DeleteNonce(c) PROVE Inv'
<1> DEFINE w == call[c].wallet
           new == [call[c] EXCEPT !.pc = "done", !.verdict = "token"]
<1>1. /\ call[c].pc = "delete" /\ w \in Wallets /\ Finish(c, "token")
      /\ challenge' = [challenge EXCEPT ![w] = NoKey]
      /\ UNCHANGED <<clock, owner, attempts, breaker, faults>>
    BY DEF DeleteNonce, Inv, CallInv
<1>2. /\ call[c].tx \in 1..Len(owner) /\ owner[call[c].tx] = w
      /\ call[c].tx \notin call[c].used /\ call[c].key \in {"wallet", "signer"}
      /\ call[c].used \subseteq Exchanged /\ call[c].verdict # "token"
    BY <1>1 DEF Inv, CallInv
<1>3. KeysInv' /\ \A v \in Wallets : challenge'[v].n \in {0, challenge[v].n}
    <2> HIDE DEF w
    <2>1. faults' \in 0..MaxFaults
        BY <1>1 DEF Inv, KeysInv
    <2> QED
        BY <1>1, <2>1, KeyWrites
<1>4. call[c] \in CallType
    BY DEF Inv
<1>5. new \in CallType
    BY CallUpdates
<1>6. /\ new.pc = "done" /\ new.verdict = "token" /\ new.wallet = w /\ new.tx = call[c].tx
      /\ new.used = call[c].used /\ new.key = call[c].key
    BY <1>4 DEF CallType
<1>7. call' = [call EXCEPT ![c] = new]
    BY <1>1, Writes
<1>8. \A v \in Wallets : new.tx # challenge'[v].n
    <2> SUFFICES ASSUME NEW v \in Wallets PROVE new.tx # challenge'[v].n
        OBVIOUS
    <2>1. CASE v = w
        <3>1. challenge'[v].n = 0
            BY <1>1, <2>1 DEF Inv, KeysInv, NoKey
        <3>2. call[c].tx # 0
            <4>1. Len(owner) \in Nat /\ call[c].tx \in 1..Len(owner)
                BY <1>2 DEF Inv, KeysInv
            <4> QED
                BY <4>1
        <3> QED
            BY <1>6, <3>1, <3>2
    <2>2. CASE v # w
        <3>1. challenge'[v] = challenge[v]
            BY <1>1, <2>2 DEF Inv, KeysInv
        <3>2. challenge[v].n # 0 => owner[challenge[v].n] = v
            BY DEF Inv, KeysInv
        <3> QED
            BY <1>2, <1>6, <2>2, <3>1, <3>2
    <2> QED
        BY <2>1, <2>2
<1>9. CallInv(c)'
    <2> HIDE DEF new
    <2>1. call'[c] = new
        BY <1>7 DEF Inv
    <2>2. Exchanged \subseteq Exchanged'
        <3>1. \A d \in Calls : d # c => call'[d] = call[d]
            BY <1>7 DEF Inv
        <3> QED
            BY <3>1, <1>2 DEF Exchanged
    <2> QED
        BY <1>1, <1>2, <1>6, <2>1, <2>2 DEF CallInv
<1> HIDE DEF new, w
<1> QED
    BY <1>1, <1>2, <1>3, <1>5, <1>7, <1>8, <1>9, OneCall

(* The two calls that count a refusal. *)
LEMMA CountStep == ASSUME Inv, NEW c \in Calls, CountFailure(c) \/ ExpireCounter(c) PROVE Inv'
<1>1. call[c].pc \in {"count", "expire"} /\ call[c].wallet \in Wallets
    BY DEF CountFailure, ExpireCounter, Inv, CallInv
<1>2. CASE CountFailure(c)
    <2>1. KeysInv' /\ \A v \in Wallets : challenge'[v].n \in {0, challenge[v].n}
        <3>1. faults' \in 0..MaxFaults
            BY <1>2 DEF CountFailure, Inv, KeysInv
        <3> QED
            BY <1>1, <1>2, <3>1, KeyWrites DEF CountFailure
    <2> QED
        BY <1>1, <1>2, <2>1, QuietWrites DEF CountFailure
<1>3. CASE ExpireCounter(c)
    <2>1. clock + AttemptsTtl \in 0..(MaxTime + AttemptsTtl) /\ 0 \in 0..(MaxTime + AttemptsTtl)
        BY AuthRuleAssumption, AuthBoundsAssumption DEF Inv, KeysInv
    <2>2. attempts' \in [Wallets -> [n : Nat, until : 0..(MaxTime + AttemptsTtl)]]
        <3> DEFINE w == call[c].wallet
                   until == IF attempts[w].n = 0 THEN 0 ELSE clock + AttemptsTtl
        <3>1. /\ attempts \in [Wallets -> [n : Nat, until : 0..(MaxTime + AttemptsTtl)]]
              /\ attempts[w] \in [n : Nat, until : 0..(MaxTime + AttemptsTtl)]
            BY <1>1 DEF Inv, KeysInv
        <3>2. until \in 0..(MaxTime + AttemptsTtl)
            BY <2>1
        <3>3. attempts' = [attempts EXCEPT ![w].until = until]
            BY <1>3 DEF ExpireCounter
        <3> HIDE DEF until, w
        <3>4. [attempts[w] EXCEPT !.until = until]
                  \in [n : Nat, until : 0..(MaxTime + AttemptsTtl)]
            BY <3>1, <3>2
        <3>5. attempts' = [attempts EXCEPT ![w] = [attempts[w] EXCEPT !.until = until]]
            BY <3>1, <3>3
        <3> QED
            BY <3>1, <3>4, <3>5
    <2>3. KeysInv'
        BY <1>3, <2>2 DEF ExpireCounter, Inv, KeysInv
    <2> QED
        BY <1>1, <1>3, <2>3, QuietWrites DEF ExpireCounter
<1> QED
    BY <1>2, <1>3

(* A call of Redis throws, having done its work or not. *)
LEMMA ThrowStep == ASSUME Inv, NEW c \in Calls, RedisThrows(c) PROVE Inv'
<1>1. /\ call[c].pc \in {"read", "delete", "count", "expire"} /\ call[c].wallet \in Wallets
      /\ Finish(c, "error") /\ UNCHANGED <<clock, owner, breaker>>
    BY DEF RedisThrows, Inv, CallInv
<1>2. faults' \in 0..MaxFaults
    BY AuthBoundsAssumption DEF RedisThrows, Fault, Inv, KeysInv
<1>3. /\ challenge' \in {challenge, [challenge EXCEPT ![call[c].wallet] = NoKey]}
      /\ attempts' \in {attempts, [attempts EXCEPT ![call[c].wallet].n = @ + 1]}
    BY DEF RedisThrows
<1> QED
    BY <1>1, <1>2, <1>3, KeyWrites, QuietWrites

(* The number of a new challenge is greater than all that are in use. *)
LEMMA RequestStep == ASSUME Inv, NEW w \in Wallets, RequestChallenge(w) PROVE Inv'
<1> DEFINE n == Len(owner) + 1
<1>1. /\ Len(owner) < MaxChallenges /\ owner' = Append(owner, w)
      /\ challenge' = [challenge EXCEPT ![w] = [n |-> n, until |-> clock + Ttl]]
      /\ UNCHANGED <<clock, attempts, breaker, call, faults>>
    BY DEF RequestChallenge
<1>2. owner \in Seq(Wallets) /\ Len(owner) \in Nat
    BY DEF Inv, KeysInv
<1>3. /\ owner' \in Seq(Wallets) /\ Len(owner') = n /\ owner'[n] = w
      /\ \A i \in 1..Len(owner) : owner'[i] = owner[i]
    BY <1>1, <1>2
<1>4. [n |-> n, until |-> clock + Ttl] \in [n : 0..MaxChallenges, until : 0..(MaxTime + Ttl)]
    BY <1>1, <1>2, AuthRuleAssumption, AuthBoundsAssumption DEF Inv, KeysInv
<1>5. /\ challenge' \in [Wallets -> [n : 0..MaxChallenges, until : 0..(MaxTime + Ttl)]]
      /\ challenge'[w].n = n
      /\ \A v \in Wallets : v # w => challenge'[v] = challenge[v]
    BY <1>1, <1>4 DEF Inv, KeysInv
<1>6. \A v \in Wallets : challenge'[v].n # 0 =>
          challenge'[v].n <= Len(owner') /\ owner'[challenge'[v].n] = v
    <2> SUFFICES ASSUME NEW v \in Wallets, challenge'[v].n # 0
                 PROVE  challenge'[v].n <= Len(owner') /\ owner'[challenge'[v].n] = v
        OBVIOUS
    <2>1. CASE v = w
        BY <1>2, <1>3, <1>5, <2>1
    <2>2. CASE v # w
        <3>1. /\ challenge[v].n \in 1..Len(owner) /\ owner[challenge[v].n] = v
            BY <1>5, <2>2, <1>2 DEF Inv, KeysInv
        <3>2. challenge'[v].n = challenge[v].n
            BY <1>5, <2>2
        <3>3. owner'[challenge[v].n] = v
            BY <1>3, <3>1
        <3>4. challenge[v].n <= Len(owner')
            BY <1>2, <1>3, <3>1
        <3> QED
            BY <3>2, <3>3, <3>4
    <2> QED
        BY <2>1, <2>2
<1>7. KeysInv'
    <2>1. Len(owner') <= MaxChallenges
        BY <1>1, <1>2, <1>3, AuthBoundsAssumption
    <2> QED
        BY <1>1, <1>3, <1>5, <1>6, <2>1 DEF Inv, KeysInv
<1>8. UNCHANGED Exchanged
    BY <1>1 DEF Exchanged
<1>9. ASSUME NEW c \in Calls PROVE CallInv(c)'
    <2>1. CallInv(c) /\ call[c].tx \in Nat
        BY DEF Inv, CallType
    <2> QED
        BY <1>1, <1>2, <1>3, <1>8, <2>1 DEF CallInv
<1>10. NoncesAreFresh'
    <2> SUFFICES ASSUME NEW v \in Wallets, NEW c \in Calls, call[c].verdict = "token"
                 PROVE  call[c].tx # challenge'[v].n
        BY <1>1 DEF NoncesAreFresh
    <2>1. call[c].tx <= Len(owner) /\ call[c].tx \in Nat
        BY DEF Inv, CallInv, CallType
    <2>2. call[c].tx # challenge[v].n
        BY DEF Inv, NoncesAreFresh
    <2> QED
        BY <1>2, <1>5, <2>1, <2>2
<1> QED
    BY <1>1, <1>7, <1>9, <1>10 DEF Inv

(* A crash ends the calls that were in progress, none of which had a token. *)
LEMMA CrashStep == ASSUME Inv, Crash PROVE Inv'
<1>1. UNCHANGED <<clock, owner, challenge, attempts>> /\ breaker' = Closed
    BY DEF Crash
<1>2. KeysInv'
    <2>1. faults' \in 0..MaxFaults
        <3>1. faults < MaxFaults /\ faults' = faults + 1 /\ faults \in 0..MaxFaults
            BY DEF Crash, Fault, Inv, KeysInv
        <3> QED
            BY <3>1, AuthBoundsAssumption
    <2>2. breaker' \in [failures : Nat, until : 0..(MaxTime + OpenFor)]
        BY <1>1, AuthRuleAssumption, AuthBoundsAssumption DEF Closed
    <2> QED
        BY <1>1, <2>1, <2>2 DEF Inv, KeysInv
<1>3. ASSUME NEW c \in Calls
      PROVE  \/ call'[c] = call[c]
             \/ /\ call[c].pc \notin {"new", "done"}
                /\ call'[c] = [call[c] EXCEPT !.pc = "done", !.verdict = "error"]
    BY DEF Crash, InProgress
<1>4. ASSUME NEW c \in Calls
      PROVE  [call[c] EXCEPT !.pc = "done", !.verdict = "error"] \in CallType
    BY CallUpdates
<1>5. call' \in [Calls -> CallType]
    BY <1>4 DEF Crash, Inv
<1>6. ASSUME NEW c \in Calls
      PROVE  /\ call'[c].tx = call[c].tx /\ call'[c].wallet = call[c].wallet
             /\ call'[c].key = call[c].key /\ call'[c].used = call[c].used
             /\ call'[c].verdict = "token" <=> call[c].verdict = "token"
             /\ call'[c] # call[c] =>
                   call[c].pc # "new" /\ call'[c].pc = "done" /\ call'[c].verdict = "error"
    <2>1. call[c] \in CallType /\ (call[c].verdict = "token" => call[c].pc = "done")
        BY DEF Inv, CallInv
    <2> QED
        BY <1>3, <2>1 DEF CallType
<1>7. UNCHANGED Exchanged
    BY <1>6 DEF Exchanged
<1>8. ASSUME NEW c \in Calls PROVE CallInv(c)'
    <2>1. CallInv(c)
        BY DEF Inv
    <2>2. CASE call'[c] = call[c]
        BY <1>1, <1>7, <2>1, <2>2 DEF CallInv
    <2>3. CASE call'[c] # call[c]
        BY <1>1, <1>6, <1>7, <2>1, <2>3 DEF CallInv
    <2> QED
        BY <2>2, <2>3
<1>9. NoncesAreFresh'
    BY <1>1, <1>6 DEF Inv, NoncesAreFresh
<1> QED
    BY <1>2, <1>5, <1>8, <1>9 DEF Inv

(* Keys that run out are gone. *)
LEMMA TickStep == ASSUME Inv, Tick PROVE Inv'
<1>1. UNCHANGED <<owner, breaker, call, faults>> /\ clock' \in 0..MaxTime
    BY AuthBoundsAssumption DEF Tick, Inv, KeysInv
<1>2. /\ challenge' \in [Wallets -> [n : 0..MaxChallenges, until : 0..(MaxTime + Ttl)]]
      /\ \A w \in Wallets : challenge'[w] = NoKey \/ challenge'[w] = challenge[w]
    BY AuthRuleAssumption, AuthBoundsAssumption DEF Tick, NoKey, Inv, KeysInv
<1>3. attempts' \in [Wallets -> [n : Nat, until : 0..(MaxTime + AttemptsTtl)]]
    BY AuthRuleAssumption, AuthBoundsAssumption DEF Tick, NoKey, Inv, KeysInv
<1>4. \A w \in Wallets : challenge'[w].n # 0 => challenge'[w] = challenge[w]
    BY <1>2 DEF NoKey
<1>5. KeysInv'
    BY <1>1, <1>2, <1>3, <1>4 DEF Inv, KeysInv
<1>6. \A c \in Calls : CallInv(c)'
    BY <1>1 DEF Inv, CallInv, Exchanged
<1>7. NoncesAreFresh'
    <2> SUFFICES ASSUME NEW w \in Wallets, NEW c \in Calls, call[c].verdict = "token"
                 PROVE  call[c].tx # challenge'[w].n
        BY <1>1 DEF NoncesAreFresh
    <2>1. call[c].tx # challenge[w].n /\ call[c].tx # 0
        BY DEF Inv, CallInv, NoncesAreFresh
    <2> QED
        BY <2>1, <1>4
<1> QED
    BY <1>1, <1>5, <1>6, <1>7 DEF Inv

-----------------------------------------------------------------------------
(* Inv holds in every reachable state. *)
THEOREM Invariance == Spec => []Inv
<1>1. Inv /\ [Next]_vars => Inv'
    <2> SUFFICES ASSUME Inv, [Next]_vars PROVE Inv'
        OBVIOUS
    <2>1. ASSUME NEW c \in Calls, Verify(c) PROVE Inv'
        <3>1. CASE SignersAnswer(c)
            <4>1. KeysInv'
                BY <3>1 DEF SignersAnswer, Inv, KeysInv
            <4> QED
                BY <3>1, <4>1, SignatureStep DEF SignersAnswer
        <3>2. CASE NotFoundAnswer(c)
            <4>1. KeysInv'
                BY <3>2 DEF NotFoundAnswer, Inv, KeysInv
            <4> QED
                BY <3>2, <4>1, SignatureStep DEF NotFoundAnswer
        <3>3. CASE UnreachableAnswer(c) \/ ErrorAnswer(c)
            <4>1. KeysInv'
                BY <3>3 DEF UnreachableAnswer, ErrorAnswer, Inv, KeysInv
            <4> QED
                BY <3>3, <4>1, QuietWrites DEF UnreachableAnswer, ErrorAnswer, Reasons
        <3> QED
            BY <2>1, <3>1, <3>2, <3>3, ReadStep, OutageStep, DeleteStep, CountStep DEF Verify
    <2>2. CASE UNCHANGED vars
        <3>1. KeysInv' /\ NoncesAreFresh'
            BY <2>2 DEF vars, Inv, KeysInv, NoncesAreFresh
        <3>2. \A c \in Calls : CallInv(c)'
            BY <2>2 DEF vars, Inv, CallInv, Exchanged
        <3> QED
            BY <2>2, <3>1, <3>2 DEF vars, Inv
    <2> QED
        BY <2>1, <2>2, TickStep, CrashStep, RequestStep, BeginStep, ThrowStep DEF Next
<1> QED
    BY InitInv, <1>1, PTL DEF Spec

(* Redis keys, breaker and calls stay in their types, and a nonce belongs  *)
(* to the wallet it is stored for.                                         *)
THEOREM Typing == Spec => []TypeOK
    BY Invariance, InvImplies, PTL

(* A token rests on a challenge of its own wallet and on a signature: see  *)
(* TokensAreProven.                                                        *)
THEOREM ProvenTokens == Spec => []TokensAreProven
    BY Invariance, InvImplies, PTL

(* An exchanged challenge is of no use to a later call: see NotReplayed. *)
THEOREM NoLaterUse == Spec => []NotReplayed
    BY Invariance, InvImplies, PTL

-----------------------------------------------------------------------------
(* The counters. *)

Pending(w) == {c \in Calls : call[c].wallet = w /\ call[c].pc \in {"read", "fetch", "count"}}

Refused(w) == {c \in Calls : call[c].refused # "no" /\ call[c].wallet = w}

Counted(w) == {c \in Refused(w) : call[c].pc # "count"}

Spent == {c \in Calls : call[c].verdict = "unavailable" /\ call[c].tries = MaxRetries}

(* When a call has its answer, and when it has been refused. *)
Phase(c) ==
    /\ call[c].verdict # "none" => call[c].pc = "done"
    /\ call[c].refused # "no" => call[c].pc \in {"count", "expire", "done"}
    /\ call[c].pc = "count" => call[c].refused # "no"

(* A call that may still be counted has its place below the bound: it took *)
(* one of MaxParallel places while the counter was below the limit.        *)
ParallelInv ==
    /\ IsFiniteSet(InProgress) /\ Cardinality(InProgress) <= MaxParallel
    /\ \A w \in Wallets :
          attempts[w].n + Cardinality(Pending(w)) < MaxAttempts + MaxParallel

(* What is counted are refused calls that have passed the count. *)
RefusalInv ==
    \A w \in Wallets :
        IsFiniteSet(Refused(w)) /\ attempts[w].n <= Cardinality(Counted(w))

(* Every failure the breaker has counted, or opened for, is a call that    *)
(* used up its requests.                                                   *)
BreakerInv ==
    /\ IsFiniteSet(Spent) /\ breaker.failures <= Cardinality(Spent)
    /\ breaker.until # 0 => Cardinality(Spent) >= Threshold

CountersInv ==
    /\ \A c \in Calls : Phase(c)
    /\ ParallelInv
    /\ RefusalInv
    /\ BreakerInv

(* The three properties follow from it. *)
LEMMA CountersImply ==
    Inv /\ CountersInv => AttemptsBounded /\ OnlyRefusalsCount /\ BreakerNeedsFailures
<1> SUFFICES ASSUME Inv, CountersInv
             PROVE  AttemptsBounded /\ OnlyRefusalsCount /\ BreakerNeedsFailures
    OBVIOUS
<1>1. ASSUME NEW w \in Wallets PROVE attempts[w].n < MaxAttempts + MaxParallel
    <2>1. Pending(w) \subseteq InProgress
        BY DEF Pending, InProgress
    <2>2. Cardinality(Pending(w)) \in Nat
        BY <2>1, FS_Subset, FS_CardinalityType DEF CountersInv, ParallelInv
    <2>3. attempts[w].n \in Nat
        BY DEF Inv, KeysInv
    <2> QED
        BY <2>2, <2>3, AuthRuleAssumption, AuthBoundsAssumption DEF CountersInv, ParallelInv
<1>2. ASSUME NEW w \in Wallets
      PROVE  attempts[w].n <= Cardinality({c \in Calls : call[c].refused # "no" /\ call[c].wallet = w})
    <2>1. IsFiniteSet(Refused(w)) /\ attempts[w].n <= Cardinality(Counted(w))
        BY DEF CountersInv, RefusalInv
    <2>2. Counted(w) \in SUBSET Refused(w)
        BY DEF Counted
    <2>3. Cardinality(Counted(w)) <= Cardinality(Refused(w))
        BY <2>1, <2>2, FS_Subset
    <2>4. /\ Cardinality(Counted(w)) \in Nat /\ Cardinality(Refused(w)) \in Nat
          /\ attempts[w].n \in Nat
        BY <2>1, <2>2, FS_Subset, FS_CardinalityType DEF Inv, KeysInv
    <2>5. attempts[w].n <= Cardinality(Refused(w))
        BY <2>1, <2>3, <2>4
    <2> QED
        BY <2>5 DEF Refused
<1>3. BreakerNeedsFailures
    BY DEF CountersInv, BreakerInv, BreakerNeedsFailures, Spent
<1> QED
    BY <1>1, <1>2, <1>3 DEF AttemptsBounded, OnlyRefusalsCount

LEMMA CountersInit == Init => CountersInv
<1> SUFFICES ASSUME Init PROVE CountersInv
    OBVIOUS
<1>1. \A c \in Calls : call[c] = NewCall
    BY DEF Init
<1>2. \A c \in Calls : /\ call[c].pc = "new" /\ call[c].refused = "no"
                       /\ call[c].verdict = "none"
    BY <1>1 DEF NewCall
<1>3. InProgress = {} /\ Spent = {} /\ \A w \in Wallets : Pending(w) = {} /\ Refused(w) = {}
    BY <1>2 DEF InProgress, Spent, Pending, Refused
<1>4. \A w \in Wallets : Counted(w) = {}
    BY <1>3 DEF Counted
<1>5. /\ \A w \in Wallets : attempts[w].n = 0
      /\ breaker.failures = 0 /\ breaker.until = 0
    BY DEF Init, NoKey, Closed
<1>6. \A c \in Calls : Phase(c)
    BY <1>2 DEF Phase
<1>7. ParallelInv
    BY <1>3, <1>5, FS_EmptySet, AuthRuleAssumption, AuthBoundsAssumption DEF ParallelInv
<1>8. RefusalInv
    <2>1. IsFiniteSet({}) /\ 0 <= Cardinality({})
        BY FS_EmptySet
    <2> QED
        BY <1>3, <1>4, <1>5, <2>1 DEF RefusalInv
<1>9. BreakerInv
    BY <1>3, <1>5, FS_EmptySet DEF BreakerInv
<1> QED
    BY <1>6, <1>7, <1>8, <1>9 DEF CountersInv

(* A set that a step may extend by one member. *)
LEMMA OneMore ==
    ASSUME NEW S, IsFiniteSet(S), NEW x, NEW T \in SUBSET (S \cup {x})
    PROVE  /\ IsFiniteSet(T) /\ Cardinality(S) \in Nat /\ Cardinality(T) \in Nat
           /\ Cardinality(T) <= Cardinality(S) + 1
           /\ S \subseteq T => Cardinality(S) <= Cardinality(T)
           /\ S \subseteq T /\ x \in T /\ x \notin S => Cardinality(T) = Cardinality(S) + 1
           /\ x \notin T => Cardinality(T) <= Cardinality(S)
           /\ x \notin T /\ x \in S => Cardinality(T) < Cardinality(S)
<1>1. /\ IsFiniteSet(S \cup {x}) /\ Cardinality(S) \in Nat
      /\ Cardinality(S \cup {x}) = IF x \in S THEN Cardinality(S) ELSE Cardinality(S) + 1
    BY FS_AddElement, FS_CardinalityType
<1>2. IsFiniteSet(T) /\ Cardinality(T) <= Cardinality(S \cup {x}) /\ Cardinality(T) \in Nat
    BY <1>1, FS_Subset, FS_CardinalityType
<1>3. S \subseteq T => Cardinality(S) <= Cardinality(T)
    BY <1>2, FS_Subset
<1>4. ASSUME S \subseteq T, x \in T, x \notin S PROVE Cardinality(T) = Cardinality(S) + 1
    <2>1. T = S \cup {x}
        BY <1>4
    <2> QED
        BY <2>1, <1>1, <1>4
<1>5. ASSUME x \notin T PROVE Cardinality(T) <= Cardinality(S \ {x})
    <2>1. T \in SUBSET (S \ {x}) /\ IsFiniteSet(S \ {x})
        BY <1>5, FS_RemoveElement
    <2> QED
        BY <2>1, FS_Subset
<1>6. Cardinality(S \ {x}) = IF x \in S THEN Cardinality(S) - 1 ELSE Cardinality(S)
    BY FS_RemoveElement
<1> QED
    BY <1>1, <1>2, <1>3, <1>4, <1>5, <1>6

-----------------------------------------------------------------------------
(* How a step of a call moves it. *)

Begins(c) ==
    /\ call[c].pc = "new" /\ call'[c].pc \in {"read", "done"} /\ call'[c].refused = "no"
    /\ IF call'[c].pc = "read"
       THEN /\ call'[c].verdict = "none"
            /\ attempts[call'[c].wallet].n < MaxAttempts
            /\ Cardinality(InProgress) < MaxParallel
       ELSE call'[c].verdict = "tooMany"

GoesOn(c) ==
    /\ call[c].pc \in {"read", "fetch"} /\ call'[c].wallet = call[c].wallet
    /\ \/ /\ call'[c].pc = "count" /\ call'[c].refused # "no" /\ call'[c].verdict = call[c].verdict
       \/ /\ call'[c].pc \in {"fetch", "delete"} /\ call'[c].refused = call[c].refused
          /\ call'[c].verdict = call[c].verdict
       \/ /\ call'[c].pc = "done" /\ call'[c].refused = call[c].refused
          /\ call'[c].verdict \in {"unavailable", "error"}

Ends(c) ==
    /\ call[c].pc \in {"delete", "count", "expire"} /\ call'[c].wallet = call[c].wallet
    /\ call'[c].refused = call[c].refused
    /\ \/ /\ call'[c].pc = "done" /\ call'[c].verdict \in {"token", "unauthorized", "error"}
       \/ /\ call[c].pc = "count" /\ call'[c].pc = "expire"
          /\ call'[c].verdict = call[c].verdict

Moves(c) ==
    /\ \A d \in Calls : d # c => call'[d] = call[d]
    /\ Begins(c) \/ GoesOn(c) \/ Ends(c)

(* The counter of the call's wallet grows by one at most, as the call      *)
(* passes the count.                                                       *)
Counts(c) ==
    \A w \in Wallets :
        \/ attempts'[w].n = attempts[w].n
        \/ /\ call[c].pc = "count" /\ w = call[c].wallet
           /\ attempts'[w].n = attempts[w].n + 1

LEMMA Written ==
    ASSUME Inv, NEW c \in Calls
    PROVE  /\ \A pc : GoTo(c, pc) =>
                 /\ \A d \in Calls : d # c => call'[d] = call[d]
                 /\ call'[c].pc = pc /\ call'[c].wallet = call[c].wallet
                 /\ call'[c].refused = call[c].refused /\ call'[c].verdict = call[c].verdict
           /\ \A v : Finish(c, v) =>
                 /\ \A d \in Calls : d # c => call'[d] = call[d]
                 /\ call'[c].pc = "done" /\ call'[c].wallet = call[c].wallet
                 /\ call'[c].refused = call[c].refused /\ call'[c].verdict = v
           /\ (\E r \in Reasons : Refuse(c, r)) =>
                 /\ \A d \in Calls : d # c => call'[d] = call[d]
                 /\ call'[c].pc = "count" /\ call'[c].wallet = call[c].wallet
                 /\ call'[c].refused # "no" /\ call'[c].verdict = call[c].verdict
<1>t. call \in [Calls -> CallType] /\ call[c] \in CallType
    BY DEF Inv
<1>1. ASSUME NEW pc, GoTo(c, pc)
      PROVE  /\ \A d \in Calls : d # c => call'[d] = call[d]
             /\ call'[c].pc = pc /\ call'[c].wallet = call[c].wallet
             /\ call'[c].refused = call[c].refused /\ call'[c].verdict = call[c].verdict
    BY <1>t, <1>1 DEF GoTo, CallType
<1>2. ASSUME NEW v, Finish(c, v)
      PROVE  /\ \A d \in Calls : d # c => call'[d] = call[d]
             /\ call'[c].pc = "done" /\ call'[c].wallet = call[c].wallet
             /\ call'[c].refused = call[c].refused /\ call'[c].verdict = v
    BY <1>t, <1>2 DEF Finish, CallType
<1>3. ASSUME NEW r \in Reasons, Refuse(c, r)
      PROVE  /\ \A d \in Calls : d # c => call'[d] = call[d]
             /\ call'[c].pc = "count" /\ call'[c].wallet = call[c].wallet
             /\ call'[c].refused # "no" /\ call'[c].verdict = call[c].verdict
    BY <1>t, <1>3 DEF Refuse, Reasons, CallType
<1> QED
    BY <1>1, <1>2, <1>3

LEMMA BeginMoves ==
    ASSUME Inv, NEW c \in Calls, Begin(c)
    PROVE  Moves(c) /\ UNCHANGED <<attempts, breaker>> /\ call'[c].wallet \in Wallets
<1>1. PICK w \in Wallets, tx \in 0..Len(owner), key \in {"wallet", "signer", "other"} :
          call' = [call EXCEPT ![c] = Begun(w, tx, key, attempts[w].n >= MaxAttempts)]
    BY DEF Begin
<1>2. /\ call'[c] = Begun(w, tx, key, attempts[w].n >= MaxAttempts)
      /\ \A d \in Calls : d # c => call'[d] = call[d]
    BY <1>1 DEF Inv
<1>3. /\ call[c].pc = "new" /\ Cardinality(InProgress) < MaxParallel
      /\ UNCHANGED <<attempts, breaker>>
    BY DEF Begin
<1>4. /\ call'[c].wallet = w /\ call'[c].refused = "no"
      /\ call'[c].pc = (IF attempts[w].n >= MaxAttempts THEN "done" ELSE "read")
      /\ call'[c].verdict = (IF attempts[w].n >= MaxAttempts THEN "tooMany" ELSE "none")
    BY <1>2 DEF Begun
<1>5. attempts[w].n \in Nat /\ MaxAttempts \in Nat
    BY AuthRuleAssumption DEF Inv, KeysInv
<1>6. Begins(c)
    <2>1. CASE attempts[w].n >= MaxAttempts
        BY <1>3, <1>4, <2>1 DEF Begins
    <2>2. CASE ~(attempts[w].n >= MaxAttempts)
        <3>1. attempts[w].n < MaxAttempts
            BY <1>5, <2>2
        <3> QED
            BY <1>3, <1>4, <2>2, <3>1 DEF Begins
    <2> QED
        BY <2>1, <2>2
<1> QED
    BY <1>2, <1>3, <1>4, <1>6 DEF Moves

LEMMA SignatureMoves ==
    ASSUME Inv, NEW c \in Calls, call[c].pc = "fetch", NEW known, CheckSignature(c, known)
    PROVE  Moves(c)
BY Written DEF CheckSignature, Moves, GoesOn, Reasons

LEMMA ReadMoves == ASSUME Inv, NEW c \in Calls, ReadNonce(c) PROVE Moves(c)
BY Written DEF ReadNonce, Moves, GoesOn, Reasons

(* An outage counts for the breaker when it ends a call that has asked     *)
(* MaxRetries times again.                                                 *)
LEMMA OutageMoves ==
    ASSUME Inv, NEW c \in Calls, OutageAnswer(c)
    PROVE  /\ Moves(c)
           /\ \/ UNCHANGED breaker
              \/ /\ call'[c].verdict = "unavailable" /\ call'[c].tries = MaxRetries
                 /\ breaker'.failures = breaker.failures + 1
                 /\ \/ breaker'.failures >= Threshold
                    \/ breaker'.until = breaker.until
<1>t. call \in [Calls -> CallType] /\ call[c] \in CallType
    BY DEF Inv
<1>0. call[c].pc = "fetch"
    BY DEF OutageAnswer
<1>1. CASE call[c].tries < MaxRetries
    <2>1. call' = [call EXCEPT ![c].tries = @ + 1] /\ UNCHANGED breaker
        BY <1>1 DEF OutageAnswer, Failing
    <2>2. /\ \A d \in Calls : d # c => call'[d] = call[d]
          /\ call'[c].pc = call[c].pc /\ call'[c].wallet = call[c].wallet
          /\ call'[c].refused = call[c].refused /\ call'[c].verdict = call[c].verdict
        BY <1>t, <2>1 DEF CallType
    <2> QED
        BY <1>0, <2>1, <2>2 DEF Moves, GoesOn
<1>2. CASE ~(call[c].tries < MaxRetries)
    <2>1. call[c].tries = MaxRetries
        <3>1. call[c].tries \in 0..MaxRetries /\ MaxRetries \in Nat
            BY <1>t, AuthRuleAssumption DEF CallType
        <3> QED
            BY <1>2, <3>1
    <2>2. Finish(c, "unavailable")
        BY <1>2 DEF OutageAnswer
    <2>3. call'[c].tries = call[c].tries
        BY <1>t, <2>2 DEF Finish, CallType
    <2>4. Moves(c) /\ call'[c].verdict = "unavailable"
        BY <1>0, <2>2, Written DEF Moves, GoesOn
    <2>5. breaker' = [failures |-> breaker.failures + 1,
                      until |-> IF breaker.failures + 1 >= Threshold
                                THEN clock + OpenFor ELSE breaker.until]
        BY <1>2 DEF OutageAnswer, Failing
    <2>6. /\ breaker'.failures = breaker.failures + 1
          /\ \/ breaker'.failures >= Threshold
             \/ breaker'.until = breaker.until
        BY <2>5
    <2> QED
        BY <2>1, <2>3, <2>4, <2>6
<1> QED
    BY <1>1, <1>2

(* One more attempt of one wallet. *)
LEMMA OneAttempt ==
    ASSUME Inv, NEW v \in Wallets, attempts' = [attempts EXCEPT ![v].n = @ + 1]
    PROVE  /\ attempts'[v].n = attempts[v].n + 1
           /\ \A w \in Wallets : w # v => attempts'[w] = attempts[w]
<1>1. attempts \in [Wallets -> [n : Nat, until : 0..(MaxTime + AttemptsTtl)]]
    BY DEF Inv, KeysInv
<1> QED
    BY <1>1

LEMMA CountMoves ==
    ASSUME Inv, NEW c \in Calls, CountFailure(c) \/ ExpireCounter(c)
    PROVE  Moves(c) /\ Counts(c)
<1>1. call[c].wallet \in Wallets
    BY DEF CountFailure, ExpireCounter, Inv, CallInv
<1>2. CASE CountFailure(c)
    <2>1. Moves(c)
        BY <1>2, Written DEF CountFailure, Moves, Ends
    <2>2. call[c].pc = "count" /\ attempts' = [attempts EXCEPT ![call[c].wallet].n = @ + 1]
        BY <1>2 DEF CountFailure
    <2>3. /\ attempts'[call[c].wallet].n = attempts[call[c].wallet].n + 1
          /\ \A w \in Wallets : w # call[c].wallet => attempts'[w] = attempts[w]
        BY <1>1, <2>2, OneAttempt
    <2> QED
        BY <2>1, <2>2, <2>3 DEF Counts
<1>3. CASE ExpireCounter(c)
    <2>1. Moves(c)
        BY <1>3, Written DEF ExpireCounter, Moves, Ends
    <2>2. \A w \in Wallets : attempts'[w].n = attempts[w].n
        BY <1>1, <1>3 DEF ExpireCounter, Inv, KeysInv
    <2> QED
        BY <2>1, <2>2 DEF Counts
<1> QED
    BY <1>2, <1>3

LEMMA ThrowMoves == ASSUME Inv, NEW c \in Calls, RedisThrows(c) PROVE Moves(c) /\ Counts(c)
<1>1. call[c].pc \in {"read", "delete", "count", "expire"} /\ Finish(c, "error")
    BY DEF RedisThrows
<1>2. call[c].wallet \in Wallets
    BY <1>1 DEF Inv, CallInv
<1>3. Moves(c)
    BY <1>1, Written DEF Moves, GoesOn, Ends
<1>4. \/ attempts' = attempts
      \/ call[c].pc = "count" /\ attempts' = [attempts EXCEPT ![call[c].wallet].n = @ + 1]
    BY DEF RedisThrows
<1>5. CASE attempts' = attempts
    BY <1>3, <1>5 DEF Counts
<1>6. CASE call[c].pc = "count" /\ attempts' = [attempts EXCEPT ![call[c].wallet].n = @ + 1]
    <2>1. /\ attempts'[call[c].wallet].n = attempts[call[c].wallet].n + 1
          /\ \A w \in Wallets : w # call[c].wallet => attempts'[w] = attempts[w]
        BY <1>2, <1>6, OneAttempt
    <2> QED
        BY <1>3, <1>6, <2>1 DEF Counts
<1> QED
    BY <1>4, <1>5, <1>6

(* All of it: what one step of one call does. *)
LEMMA CallMoves ==
    ASSUME Inv, NEW c \in Calls, Begin(c) \/ Verify(c) \/ RedisThrows(c)
    PROVE  /\ Moves(c) /\ Counts(c)
           /\ \/ UNCHANGED breaker
              \/ breaker'.failures = 0 /\ breaker'.until = breaker.until
              \/ /\ call'[c].verdict = "unavailable" /\ call'[c].tries = MaxRetries
                 /\ breaker'.failures = breaker.failures + 1
                 /\ \/ breaker'.failures >= Threshold
                    \/ breaker'.until = breaker.until
<1>1. CASE Begin(c)
    BY <1>1, BeginMoves DEF Counts
<1>2. CASE ReadNonce(c)
    BY <1>2, ReadMoves DEF ReadNonce, Counts
<1>3. CASE SignersAnswer(c)
    <2>1. breaker'.failures = 0 /\ breaker'.until = breaker.until
        BY <1>3 DEF SignersAnswer, Inv, KeysInv
    <2>2. call[c].pc = "fetch" /\ CheckSignature(c, {"wallet", "signer"}) /\ UNCHANGED attempts
        BY <1>3 DEF SignersAnswer
    <2> QED
        BY <2>1, <2>2, SignatureMoves DEF Counts
<1>4. CASE NotFoundAnswer(c)
    BY <1>4, SignatureMoves DEF NotFoundAnswer, Counts
<1>5. CASE OutageAnswer(c)
    <2>1. UNCHANGED attempts
        BY <1>5 DEF OutageAnswer
    <2> QED
        BY <1>5, <2>1, OutageMoves DEF Counts
<1>6. CASE UnreachableAnswer(c) \/ ErrorAnswer(c)
    BY <1>6, Written DEF UnreachableAnswer, ErrorAnswer, Reasons, Counts, Moves, GoesOn
<1>7. CASE DeleteNonce(c)
    BY <1>7, Written DEF DeleteNonce, Counts, Moves, Ends
<1>8. CASE CountFailure(c) \/ ExpireCounter(c)
    <2>1. UNCHANGED breaker
        BY <1>8 DEF CountFailure, ExpireCounter
    <2> QED
        BY <1>8, <2>1, CountMoves
<1>9. CASE RedisThrows(c)
    <2>1. UNCHANGED breaker
        BY <1>9 DEF RedisThrows
    <2> QED
        BY <1>9, <2>1, ThrowMoves
<1> QED
    BY <1>1, <1>2, <1>3, <1>4, <1>5, <1>6, <1>7, <1>8, <1>9 DEF Verify

LEMMA PhaseKept ==
    ASSUME Inv, CountersInv, NEW c \in Calls, Moves(c)
    PROVE  \A d \in Calls : Phase(d)'
<1>1. Phase(c)
    BY DEF CountersInv
<1>2. Phase(c)'
    <2>1. CASE Begins(c)
        BY <2>1 DEF Begins, Phase
    <2>2. CASE GoesOn(c)
        BY <1>1, <2>2 DEF GoesOn, Phase
    <2>3. CASE Ends(c)
        BY <1>1, <2>3 DEF Ends, Phase
    <2> QED
        BY <2>1, <2>2, <2>3 DEF Moves
<1>3. ASSUME NEW d \in Calls, d # c PROVE Phase(d)'
    BY <1>3 DEF Moves, CountersInv, Phase
<1> QED
    BY <1>2, <1>3

LEMMA ParallelKept ==
    ASSUME Inv, CountersInv, NEW c \in Calls, Moves(c), Counts(c)
    PROVE  ParallelInv'
<1>n. MaxAttempts \in Nat /\ MaxParallel \in Nat
    BY AuthRuleAssumption, AuthBoundsAssumption
<1>0. \A d \in Calls : d # c => call'[d] = call[d]
    BY DEF Moves
<1>1. IsFiniteSet(InProgress) /\ Cardinality(InProgress) <= MaxParallel
    BY DEF CountersInv, ParallelInv
<1>2. InProgress' \in SUBSET (InProgress \cup {c})
    BY <1>0 DEF InProgress
<1>3. IsFiniteSet(InProgress') /\ Cardinality(InProgress') <= MaxParallel
    <2>1. /\ IsFiniteSet(InProgress') /\ Cardinality(InProgress') <= Cardinality(InProgress) + 1
          /\ Cardinality(InProgress) \in Nat /\ Cardinality(InProgress') \in Nat
        BY <1>1, <1>2, OneMore
    <2>2. CASE Begins(c) /\ call'[c].pc = "read"
        BY <1>n, <2>1, <2>2 DEF Begins
    <2>3. CASE ~(Begins(c) /\ call'[c].pc = "read")
        <3>1. c \in InProgress' => c \in InProgress
            BY <2>3 DEF Moves, Begins, GoesOn, Ends, InProgress
        <3>2. InProgress' \in SUBSET InProgress
            BY <1>2, <3>1
        <3>3. Cardinality(InProgress') <= Cardinality(InProgress)
            BY <1>1, <3>2, FS_Subset
        <3> QED
            BY <1>1, <1>n, <2>1, <3>3
    <2> QED
        BY <2>2, <2>3
<1>4. ASSUME NEW w \in Wallets
      PROVE  attempts'[w].n + Cardinality(Pending(w)') < MaxAttempts + MaxParallel
    <2>1. IsFiniteSet(Pending(w)) /\ attempts[w].n \in Nat /\ Cardinality(Pending(w)) \in Nat
        <3>1. Pending(w) \in SUBSET InProgress
            BY DEF Pending, InProgress
        <3> QED
            BY <1>1, <3>1, FS_Subset, FS_CardinalityType DEF Inv, KeysInv
    <2>2. Pending(w)' \in SUBSET (Pending(w) \cup {c})
        BY <1>0 DEF Pending
    <2>3. attempts[w].n + Cardinality(Pending(w)) < MaxAttempts + MaxParallel
        BY DEF CountersInv, ParallelInv
    <2>4. Cardinality(Pending(w)') \in Nat
        BY <2>1, <2>2, OneMore
    <2>5. CASE Begins(c)
        <3>0. attempts'[w].n = attempts[w].n
            BY <2>5 DEF Begins, Counts
        <3>1. CASE c \in Pending(w)'
            <4>1. /\ call'[c].wallet = w /\ call'[c].pc = "read"
                  /\ attempts[w].n < MaxAttempts
                BY <2>5, <3>1 DEF Begins, Pending
            <4>2. Pending(w)' \in SUBSET InProgress'
                BY DEF Pending, InProgress
            <4>3. Cardinality(Pending(w)') <= Cardinality(InProgress')
                BY <1>3, <4>2, FS_Subset
            <4>4. Cardinality(InProgress') \in Nat
                BY <1>3, FS_CardinalityType
            <4> QED
                BY <1>n, <1>3, <2>1, <2>4, <3>0, <4>1, <4>3, <4>4
        <3>2. CASE c \notin Pending(w)'
            <4>1. Cardinality(Pending(w)') <= Cardinality(Pending(w))
                BY <2>1, <2>2, <3>2, OneMore
            <4> QED
                BY <1>n, <2>1, <2>3, <2>4, <3>0, <4>1
        <3> QED
            BY <3>1, <3>2
    <2>6. CASE GoesOn(c) \/ Ends(c)
        <3>1. c \in Pending(w)' => c \in Pending(w)
            BY <2>6 DEF GoesOn, Ends, Pending
        <3>2. CASE attempts'[w].n = attempts[w].n
            <4>1. Pending(w)' \in SUBSET Pending(w)
                BY <2>2, <3>1
            <4>2. Cardinality(Pending(w)') <= Cardinality(Pending(w))
                BY <2>1, <4>1, FS_Subset
            <4> QED
                BY <1>n, <2>1, <2>3, <2>4, <3>2, <4>2
        <3>3. CASE call[c].pc = "count" /\ w = call[c].wallet /\ attempts'[w].n = attempts[w].n + 1
            <4>1. c \in Pending(w) /\ c \notin Pending(w)'
                BY <2>6, <3>3 DEF GoesOn, Ends, Pending
            <4>2. Cardinality(Pending(w)') < Cardinality(Pending(w))
                BY <2>1, <2>2, <4>1, OneMore
            <4> QED
                BY <1>n, <2>1, <2>3, <2>4, <3>3, <4>2
        <3> QED
            BY <3>2, <3>3 DEF Counts
    <2> QED
        BY <2>5, <2>6 DEF Moves
<1> QED
    BY <1>3, <1>4 DEF ParallelInv

LEMMA RefusalKept ==
    ASSUME Inv, CountersInv, NEW c \in Calls, Moves(c), Counts(c)
    PROVE  RefusalInv'
<1>0. \A d \in Calls : d # c => call'[d] = call[d]
    BY DEF Moves
<1>p. Phase(c)
    BY DEF CountersInv
<1> SUFFICES ASSUME NEW w \in Wallets
             PROVE  IsFiniteSet(Refused(w)') /\ attempts'[w].n <= Cardinality(Counted(w)')
    BY DEF RefusalInv
<1>1. IsFiniteSet(Refused(w)) /\ attempts[w].n <= Cardinality(Counted(w))
    BY DEF CountersInv, RefusalInv
<1>2. Refused(w)' \in SUBSET (Refused(w) \cup {c})
    BY <1>0 DEF Refused
<1>3. IsFiniteSet(Refused(w)')
    BY <1>1, <1>2, OneMore
<1>4. IsFiniteSet(Counted(w)) /\ Counted(w)' \in SUBSET (Counted(w) \cup {c})
    <2>1. Counted(w) \in SUBSET Refused(w)
        BY DEF Counted
    <2> QED
        BY <1>0, <1>1, <2>1, FS_Subset DEF Counted, Refused
<1>5. Counted(w) \subseteq Counted(w)'
    <2>1. c \in Counted(w) => c \in Counted(w)'
        BY <1>p DEF Moves, Begins, GoesOn, Ends, Counted, Refused, Phase
    <2> QED
        BY <1>0, <2>1 DEF Counted, Refused
<1>6. /\ Cardinality(Counted(w)) <= Cardinality(Counted(w)')
      /\ Cardinality(Counted(w)) \in Nat /\ Cardinality(Counted(w)') \in Nat
      /\ attempts[w].n \in Nat
    BY <1>4, <1>5, OneMore DEF Inv, KeysInv
<1>7. CASE attempts'[w].n = attempts[w].n
    BY <1>1, <1>3, <1>6, <1>7
<1>8. CASE call[c].pc = "count" /\ w = call[c].wallet /\ attempts'[w].n = attempts[w].n + 1
    <2>1. c \in Counted(w)' /\ c \notin Counted(w)
        BY <1>p, <1>8 DEF Moves, Begins, GoesOn, Ends, Counted, Refused, Phase
    <2>2. Cardinality(Counted(w)') = Cardinality(Counted(w)) + 1
        BY <1>4, <1>5, <2>1, OneMore
    <2> QED
        BY <1>1, <1>3, <1>6, <1>8, <2>2
<1> QED
    BY <1>7, <1>8 DEF Counts

LEMMA BreakerKept ==
    ASSUME Inv, CountersInv, NEW c \in Calls, Begin(c) \/ Verify(c) \/ RedisThrows(c)
    PROVE  BreakerInv'
<1>n. Threshold \in Nat /\ breaker.failures \in Nat
    BY AuthRuleAssumption DEF Inv, KeysInv
<1>0. Moves(c) /\ \A d \in Calls : d # c => call'[d] = call[d]
    BY CallMoves DEF Moves
<1>1. /\ IsFiniteSet(Spent) /\ breaker.failures <= Cardinality(Spent)
      /\ breaker.until # 0 => Cardinality(Spent) >= Threshold
    BY DEF CountersInv, BreakerInv
<1>2. Spent' \in SUBSET (Spent \cup {c})
    BY <1>0 DEF Spent
<1>3. c \notin Spent
    <2>1. Phase(c) /\ call[c].pc # "done"
        BY <1>0 DEF CountersInv, Moves, Begins, GoesOn, Ends
    <2> QED
        BY <2>1 DEF Phase, Spent
<1>4. Spent \subseteq Spent'
    BY <1>0, <1>3 DEF Spent
<1>5. /\ IsFiniteSet(Spent') /\ Cardinality(Spent) <= Cardinality(Spent')
      /\ Cardinality(Spent) \in Nat /\ Cardinality(Spent') \in Nat
    BY <1>1, <1>2, <1>4, OneMore
<1>6. CASE UNCHANGED breaker
    BY <1>n, <1>1, <1>5, <1>6 DEF BreakerInv
<1>7. CASE breaker'.failures = 0 /\ breaker'.until = breaker.until
    BY <1>n, <1>1, <1>5, <1>7 DEF BreakerInv
<1>8. CASE /\ call'[c].verdict = "unavailable" /\ call'[c].tries = MaxRetries
           /\ breaker'.failures = breaker.failures + 1
           /\ \/ breaker'.failures >= Threshold
              \/ breaker'.until = breaker.until
    <2>1. c \in Spent'
        BY <1>8 DEF Spent
    <2>2. Cardinality(Spent') = Cardinality(Spent) + 1
        BY <1>1, <1>2, <1>3, <1>4, <2>1, OneMore
    <2>3. breaker'.failures <= Cardinality(Spent')
        BY <1>n, <1>1, <1>5, <1>8, <2>2
    <2>4. breaker'.until # 0 => Cardinality(Spent') >= Threshold
        <3>1. CASE breaker'.failures >= Threshold
            BY <1>n, <1>1, <1>5, <1>8, <2>2, <3>1
        <3>2. CASE breaker'.until = breaker.until
            BY <1>n, <1>1, <1>5, <3>2
        <3> QED
            BY <1>8, <3>1, <3>2
    <2> QED
        BY <1>5, <2>3, <2>4 DEF BreakerInv
<1> QED
    BY <1>6, <1>7, <1>8, CallMoves

(* The steps of no single call. *)
LEMMA CountersCrash == ASSUME Inv, CountersInv, Crash PROVE CountersInv'
<1>1. ASSUME NEW c \in Calls
      PROVE  /\ call'[c].wallet = call[c].wallet /\ call'[c].refused = call[c].refused
             /\ call'[c].tries = call[c].tries
             /\ IF c \in InProgress
                THEN call'[c].pc = "done" /\ call'[c].verdict = "error"
                ELSE call'[c] = call[c]
    <2>1. call[c] \in CallType
        BY DEF Inv
    <2> QED
        BY <2>1 DEF Crash, CallType
<1>2. ASSUME NEW c \in Calls PROVE Phase(c)'
    BY <1>1 DEF Phase, InProgress, CountersInv
<1>3. InProgress' = {}
    BY <1>1 DEF InProgress
<1>4. \A w \in Wallets : Pending(w)' = {}
    BY <1>1 DEF Pending, InProgress
<1>5. UNCHANGED attempts /\ breaker' = Closed
    BY DEF Crash
<1>6. ParallelInv'
    <2>1. /\ IsFiniteSet({}) /\ Cardinality({}) = 0 /\ 0 <= MaxParallel
          /\ MaxParallel \in Nat /\ MaxAttempts \in Nat
        BY FS_EmptySet, AuthRuleAssumption, AuthBoundsAssumption
    <2>2. ASSUME NEW w \in Wallets
          PROVE  attempts'[w].n + Cardinality(Pending(w)') < MaxAttempts + MaxParallel
        <3>1. IsFiniteSet(InProgress) /\ Pending(w) \in SUBSET InProgress
            BY DEF CountersInv, ParallelInv, Pending, InProgress
        <3>2. Cardinality(Pending(w)) \in Nat /\ attempts[w].n \in Nat
            BY <3>1, FS_Subset, FS_CardinalityType DEF Inv, KeysInv
        <3>3. attempts[w].n + Cardinality(Pending(w)) < MaxAttempts + MaxParallel
            BY DEF CountersInv, ParallelInv
        <3>4. Cardinality(Pending(w)') = 0 /\ attempts'[w].n = attempts[w].n
            BY <1>4, <1>5, <2>1
        <3> QED
            BY <2>1, <3>2, <3>3, <3>4
    <2> QED
        BY <1>3, <2>1, <2>2 DEF ParallelInv
<1>7. ASSUME NEW w \in Wallets
      PROVE  IsFiniteSet(Refused(w)') /\ attempts'[w].n <= Cardinality(Counted(w)')
    <2>1. Refused(w)' = Refused(w) /\ Counted(w)' \in SUBSET Refused(w)
        BY <1>1 DEF Refused, Counted
    <2>2. Counted(w) \in SUBSET Counted(w)'
        BY <1>1, <2>1 DEF Refused, Counted
    <2>3. IsFiniteSet(Refused(w)) /\ attempts[w].n <= Cardinality(Counted(w))
        BY DEF CountersInv, RefusalInv
    <2>4. IsFiniteSet(Counted(w)')
        BY <2>1, <2>3, FS_Subset
    <2>5. /\ Cardinality(Counted(w)) <= Cardinality(Counted(w)')
          /\ IsFiniteSet(Counted(w))
        BY <2>2, <2>4, FS_Subset
    <2>6. /\ Cardinality(Counted(w)) \in Nat /\ Cardinality(Counted(w)') \in Nat
          /\ attempts[w].n \in Nat
        BY <2>4, <2>5, FS_CardinalityType DEF Inv, KeysInv
    <2> QED
        BY <1>5, <2>1, <2>3, <2>5, <2>6
<1>8. BreakerInv'
    <2>1. Spent' = Spent
        <3>1. ASSUME NEW c \in Calls PROVE c \in Spent' <=> c \in Spent
            <4>1. c \in InProgress => call[c].verdict = "none"
                BY DEF CountersInv, Phase, InProgress
            <4> QED
                BY <1>1, <4>1 DEF Spent
        <3> QED
            BY <3>1 DEF Spent
    <2>2. IsFiniteSet(Spent) /\ Cardinality(Spent) \in Nat
        BY FS_CardinalityType DEF CountersInv, BreakerInv
    <2>3. breaker'.failures = 0 /\ breaker'.until = 0
        BY <1>5 DEF Closed
    <2> QED
        BY <2>1, <2>2, <2>3 DEF BreakerInv
<1> QED
    BY <1>2, <1>6, <1>7, <1>8 DEF CountersInv, RefusalInv

LEMMA CountersTick ==
    ASSUME Inv, CountersInv, UNCHANGED <<call, breaker>>,
           \A w \in Wallets : attempts'[w].n \in {0, attempts[w].n}
    PROVE  CountersInv'
<1>1. \A c \in Calls : Phase(c)'
    BY DEF CountersInv, Phase
<1>2. /\ UNCHANGED <<InProgress, Spent>>
      /\ \A w \in Wallets : UNCHANGED <<Pending(w), Refused(w), Counted(w)>>
    BY DEF InProgress, Spent, Pending, Refused, Counted
<1>3. BreakerInv'
    BY <1>2 DEF CountersInv, BreakerInv
<1>4. ASSUME NEW w \in Wallets
      PROVE  /\ attempts'[w].n + Cardinality(Pending(w)') < MaxAttempts + MaxParallel
             /\ IsFiniteSet(Refused(w)') /\ attempts'[w].n <= Cardinality(Counted(w)')
    <2>1. /\ IsFiniteSet(InProgress) /\ IsFiniteSet(Refused(w))
          /\ Pending(w) \in SUBSET InProgress /\ Counted(w) \in SUBSET Refused(w)
        BY DEF CountersInv, ParallelInv, RefusalInv, Pending, Counted, InProgress
    <2>2. Cardinality(Pending(w)) \in Nat /\ Cardinality(Counted(w)) \in Nat
        BY <2>1, FS_Subset, FS_CardinalityType
    <2>3. attempts[w].n \in Nat /\ MaxAttempts \in Nat /\ MaxParallel \in Nat
        BY AuthRuleAssumption, AuthBoundsAssumption DEF Inv, KeysInv
    <2>4. /\ attempts[w].n + Cardinality(Pending(w)) < MaxAttempts + MaxParallel
          /\ attempts[w].n <= Cardinality(Counted(w))
        BY DEF CountersInv, ParallelInv, RefusalInv
    <2>5. attempts'[w].n = 0 \/ attempts'[w].n = attempts[w].n
        OBVIOUS
    <2>6. attempts'[w].n + Cardinality(Pending(w)) < MaxAttempts + MaxParallel
        BY <2>2, <2>3, <2>4, <2>5
    <2>7. attempts'[w].n <= Cardinality(Counted(w))
        BY <2>2, <2>3, <2>4, <2>5
    <2> QED
        BY <1>2, <2>1, <2>6, <2>7
<1> QED
    BY <1>1, <1>2, <1>3, <1>4 DEF CountersInv, ParallelInv, RefusalInv

(* CountersInv holds in every reachable state. *)
THEOREM CountersInvariance == Spec => []CountersInv
<1>1. Inv /\ CountersInv /\ [Next]_vars => CountersInv'
    <2> SUFFICES ASSUME Inv, CountersInv, [Next]_vars PROVE CountersInv'
        OBVIOUS
    <2>1. ASSUME NEW c \in Calls, Begin(c) \/ Verify(c) \/ RedisThrows(c) PROVE CountersInv'
        <3>1. Moves(c) /\ Counts(c)
            BY <2>1, CallMoves
        <3>2. BreakerInv'
            BY <2>1, BreakerKept
        <3> QED
            BY <3>1, <3>2, PhaseKept, ParallelKept, RefusalKept DEF CountersInv
    <2>2. CASE Tick
        <3>1. \A w \in Wallets : attempts'[w].n \in {0, attempts[w].n}
            BY <2>2 DEF Tick, NoKey
        <3> QED
            BY <2>2, <3>1, CountersTick DEF Tick
    <2>3. CASE (\E w \in Wallets : RequestChallenge(w)) \/ UNCHANGED vars
        <3>1. UNCHANGED <<attempts, breaker, call>>
            BY <2>3 DEF RequestChallenge, vars
        <3> QED
            BY <3>1, CountersTick
    <2> QED
        BY <2>1, <2>2, <2>3, CountersCrash DEF Next
<1> QED
    BY Invariance, CountersInit, <1>1, PTL DEF Spec

(* Overlapping calls exceed the limit by less than their number: see       *)
(* AttemptsBounded.                                                        *)
THEOREM FewMoreAttempts == Spec => []AttemptsBounded
    BY Invariance, CountersInvariance, CountersImply, PTL

(* Only refused calls are held against a wallet: see OnlyRefusalsCount. *)
THEOREM RefusalsOnly == Spec => []OnlyRefusalsCount
    BY Invariance, CountersInvariance, CountersImply, PTL

(* An open breaker has Threshold failed calls behind it: see               *)
(* BreakerNeedsFailures.                                                   *)
THEOREM OpenForAReason == Spec => []BreakerNeedsFailures
    BY Invariance, CountersInvariance, CountersImply, PTL

=============================================================================
