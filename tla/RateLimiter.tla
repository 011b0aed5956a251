----------------------------- MODULE RateLimiter -----------------------------
(***************************************************************************)
(* The sliding-window rate limiter (rate-limit.service.ts) for the         *)
(* requests of one identity under one rule: the Lua script on a Redis zset *)
(* that all instances share, and the in-memory window each instance falls  *)
(* back to, at half the limit, when Redis does not answer.                 *)
(*                                                                         *)
(* A request reads the clock when it arrives; its script runs up to        *)
(* MaxDelay ticks later.  The client of ioredis sends a script again when  *)
(* the connection breaks before the reply, so it may run more than once.   *)
(*                                                                         *)
(* A definition headed "Variant" is a plausible mistake in the definition  *)
(* that follows it.  No behaviour of the system uses it: it shows that a   *)
(* property notices the mistake.                                           *)
(***************************************************************************)
EXTENDS Naturals, FiniteSets

CONSTANTS
    Requests,    \* requests of the identity
    Instances,   \* instances of the service
    NoInstance,  \* a request that has not arrived
    Limit,       \* rule.limit
    Window,      \* WINDOW_MS, in clock ticks
    MaxTime,     \* bound: the last tick of the clock
    MaxDelay,    \* bound: ticks between the arrival of a request and its script
    MaxOutages,  \* bound: instances that lose Redis, calls that fail
    MaxLost      \* bound: scripts that run without a reply

ASSUME NoInstanceAssumption == NoInstance \notin Instances
ASSUME RuleAssumption == Limit \in Nat \ {0} /\ Window \in Nat \ {0}
ASSUME RateBoundsAssumption ==
    MaxTime \in Nat /\ MaxDelay \in Nat /\ MaxOutages \in Nat /\ MaxLost \in Nat

VARIABLES
    clock,
    zset,     \* Redis: <<time, request>> members of the key
    expires,  \* Redis: when the key runs out (PEXPIRE)
    memory,   \* memoryStore, per instance: the timestamps of the key, each with
              \* the request that pushed it, which it does once
    ready,    \* client.status, per instance
    req,      \* the check() call of each request
    outages, lost

counts == <<outages, lost>>
vars   == <<clock, zset, expires, memory, ready, req, counts>>

NewRequest == [pc |-> "new", inst |-> NoInstance, now |-> 0, verdict |-> "none",
               by |-> "none"]

(* Half the limit, but one at least. *)
Fallback == IF Limit \div 2 > 1 THEN Limit \div 2 ELSE 1

Init ==
    /\ clock = 0
    /\ zset = {}
    /\ expires = 0
    /\ memory = [i \in Instances |-> {}]
    /\ ready = [i \in Instances |-> TRUE]
    /\ req = [r \in Requests |-> NewRequest]
    /\ outages = 0 /\ lost = 0

(* Variant: the oldest tick of the window is dropped too early. *)
ShortWindow(t, now) == t + Window > now + 1

(* Variant: ... or kept too long. *)
LongWindow(t, now) == t + Window >= now

(* Not older than the window: ZREMRANGEBYSCORE removes up to now - window, *)
(* the fallback keeps what is greater: one definition is what both do.     *)
InWindow(t, now) == t + Window > now

Outage == outages < MaxOutages /\ outages' = outages + 1 /\ UNCHANGED lost

Answer(i, now, by, allowed) ==
    [pc |-> "done", inst |-> i, now |-> now, by |-> by,
     verdict |-> IF allowed THEN "allowed" ELSE "blocked"]

-----------------------------------------------------------------------------
(* The two windows. *)

(* checkMemory, with the time the request has read.  The order of the      *)
(* timestamps matters to nothing but the retry header.                     *)
CheckMemory(r, i, now) ==
    LET live    == {e \in memory[i] : InWindow(e[1], now)}
        allowed == Cardinality(live) < Fallback
    IN /\ memory' = [memory EXCEPT ![i] = IF allowed THEN live \cup {<<now, r>>} ELSE live]
       /\ req' = [req EXCEPT ![r] = Answer(i, now, "memory", allowed)]

(* Variant: the script compares after it has added. *)
AdmitOneMore(live) == Cardinality(live) <= Limit

Admit(live) == Cardinality(live) < Limit

Live(r) == {e \in zset : InWindow(e[1], req[r].now)}

(* SLIDING_WINDOW_LUA.  The member of a request is the same whenever its   *)
(* script runs.                                                            *)
Script(r) ==
    /\ zset' = IF Admit(Live(r)) THEN Live(r) \cup {<<req[r].now, r>>} ELSE Live(r)
    /\ expires' = clock + Window

-----------------------------------------------------------------------------
(* A request arrives: with no ready client it is decided from memory, in   *)
(* the same step.                                                          *)
Check(r, i) ==
    /\ req[r].pc = "new"
    /\ IF ready[i]
       THEN /\ req' = [req EXCEPT ![r] = [NewRequest EXCEPT !.pc = "eval", !.inst = i,
                                                            !.now = clock]]
            /\ UNCHANGED memory
       ELSE CheckMemory(r, i, clock)
    /\ UNCHANGED <<clock, zset, expires, ready, counts>>

(* The script runs and its reply arrives. *)
CheckRedis(r) ==
    /\ req[r].pc = "eval"
    /\ Script(r)
    /\ req' = [req EXCEPT ![r] = Answer(req[r].inst, req[r].now, "redis", Admit(Live(r)))]
    /\ UNCHANGED <<clock, memory, ready, counts>>

(* The script runs, its reply is lost, and the client sends it again ...   *)
Resend(r) ==
    /\ req[r].pc = "eval"
    /\ lost < MaxLost /\ lost' = lost + 1
    /\ Script(r)
    /\ UNCHANGED <<clock, memory, ready, req, outages>>

(* ... or gives up after maxRetriesPerRequest, run or not run: check()     *)
(* catches the error and decides from memory.                              *)
GiveUp(r) ==
    /\ req[r].pc = "eval"
    /\ Outage
    /\ CheckMemory(r, req[r].inst, req[r].now)
    /\ UNCHANGED <<clock, zset, expires, ready>>

Disconnect(i) ==
    /\ ready[i]
    /\ Outage
    /\ ready' = [ready EXCEPT ![i] = FALSE]
    /\ UNCHANGED <<clock, zset, expires, memory, req>>

Reconnect(i) ==
    /\ ~ready[i]
    /\ ready' = [ready EXCEPT ![i] = TRUE]
    /\ UNCHANGED <<clock, zset, expires, memory, req, counts>>

(* Time passes; the key is gone when it runs out. *)
Tick ==
    /\ clock < MaxTime
    /\ \A r \in Requests : req[r].pc = "eval" => clock < req[r].now + MaxDelay
    /\ clock' = clock + 1
    /\ zset' = IF clock + 1 >= expires THEN {} ELSE zset
    /\ UNCHANGED <<expires, memory, ready, req, counts>>

Next ==
    \/ Tick
    \/ \E r \in Requests :
          \/ \E i \in Instances : Check(r, i)
          \/ CheckRedis(r) \/ Resend(r) \/ GiveUp(r)
    \/ \E i \in Instances : Disconnect(i) \/ Reconnect(i)

Spec == Init /\ [][Next]_vars

-----------------------------------------------------------------------------
(* The type invariant; neither window ever holds more than its limit.      *)
TypeOK ==
    /\ clock \in 0..MaxTime
    /\ zset \subseteq (0..MaxTime) \X Requests /\ Cardinality(zset) <= Limit
    /\ expires \in 0..(MaxTime + Window)
    /\ memory \in [Instances -> SUBSET ((0..MaxTime) \X Requests)]
    /\ \A i \in Instances : Cardinality(memory[i]) <= Fallback
    /\ ready \in [Instances -> BOOLEAN]
    /\ req \in [Requests -> [pc : {"new", "eval", "done"}, inst : Instances \cup {NoInstance},
                             now : 0..MaxTime, verdict : {"none", "allowed", "blocked"},
                             by : {"none", "redis", "memory"}]]
    /\ outages \in 0..MaxOutages /\ lost \in 0..MaxLost

(* The requests that arrived from tick a to tick b and were allowed by a   *)
(* backend of the instances I.                                             *)
AllowedIn(a, b, by, I) ==
    {r \in Requests : /\ req[r].verdict = "allowed" /\ req[r].by = by /\ req[r].inst \in I
                      /\ req[r].now \in a..b}

(* The limit, by the times the requests arrived: Redis allows no more than *)
(* Limit of them in a window, on whatever instances, nor the memory of one *)
(* instance more than the fallback limit.  Scripts that run late, behind   *)
(* later requests that have dropped the oldest entries, shorten the window *)
(* by their delay, and by no more.                                         *)
AtMostLimit ==
    \A t \in 0..MaxTime :
        LET end == t + Window - MaxDelay - 1
        IN /\ Cardinality(AllowedIn(t, end, "redis", Instances)) <= Limit
           /\ \A i \in Instances : Cardinality(AllowedIn(t, end, "memory", {i})) <= Fallback

(* And the limiter is not stricter than its limit: a request is refused    *)
(* only if the window that ends with it, or with requests that overtook    *)
(* it, was full.  A recorded request whose reply was lost is in no count.  *)
BlockedOnlyWhenFull ==
    lost = 0 => \A r \in Requests : req[r].verdict = "blocked" =>
        LET begin == IF req[r].now < Window THEN 0 ELSE req[r].now - Window + 1
            end   == req[r].now + MaxDelay
        IN IF req[r].by = "redis"
           THEN Cardinality(AllowedIn(begin, end, "redis", Instances)) >= Limit
           ELSE Cardinality(AllowedIn(begin, end, "memory", {req[r].inst})) >= Fallback

=============================================================================
