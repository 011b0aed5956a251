-------------------------- MODULE RateLimiterProofs --------------------------
(* Safety of RateLimiter for any number of requests and instances, every   *)
(* limit, window and delay.  Requests need not be a finite set: only those *)
(* that have arrived are counted.                                          *)
EXTENDS RateLimiter, FiniteSetTheorems, Integers, TLAPS

RequestType == [pc : {"new", "eval", "done"}, inst : Instances \cup {NoInstance},
                now : 0..MaxTime, verdict : {"none", "allowed", "blocked"},
                by : {"none", "redis", "memory"}]

(* TypeOK without the sizes of the windows. *)
Types ==
    /\ clock \in 0..MaxTime
    /\ zset \subseteq (0..MaxTime) \X Requests
    /\ expires \in 0..(MaxTime + Window)
    /\ memory \in [Instances -> SUBSET ((0..MaxTime) \X Requests)]
    /\ ready \in [Instances -> BOOLEAN]
    /\ req \in [Requests -> RequestType]
    /\ outages \in 0..MaxOutages /\ lost \in 0..MaxLost

Sizes ==
    /\ IsFiniteSet(zset) /\ Cardinality(zset) <= Limit
    /\ \A i \in Instances :
          IsFiniteSet(memory[i]) /\ Cardinality(memory[i]) <= Fallback

Arrived == {r \in Requests : req[r].pc # "new"}

Allowed(r, backend) == req[r].verdict = "allowed" /\ req[r].by = backend

RequestInv(r) ==
    /\ req[r].now <= clock
    /\ req[r].pc # "new" => req[r].inst \in Instances
    /\ req[r].pc = "eval" => clock <= req[r].now + MaxDelay
    /\ req[r].pc # "done" => req[r].verdict = "none"

(* An entry carries the time of its request.  The key outlives its         *)
(* entries' window, and while no reply is lost an entry is an answer.      *)
EntriesInv ==
    /\ \A e \in zset :
          /\ e[1] = req[e[2]].now
          /\ req[e[2]].pc # "new"
          /\ e[1] + Window <= expires
          /\ lost = 0 => Allowed(e[2], "redis")
    /\ \A i \in Instances : \A e \in memory[i] :
          /\ e[1] = req[e[2]].now
          /\ Allowed(e[2], "memory") /\ req[e[2]].inst = i

(* What was allowed stays in its window as long as the clock is in it. *)
Held ==
    \A r \in Requests : clock < req[r].now + Window =>
        /\ Allowed(r, "redis") => <<req[r].now, r>> \in zset
        /\ Allowed(r, "memory") => <<req[r].now, r>> \in memory[req[r].inst]

Inv ==
    /\ Types
    /\ Sizes
    /\ IsFiniteSet(Arrived)
    /\ \A r \in Requests : RequestInv(r)
    /\ EntriesInv
    /\ Held
    /\ AtMostLimit
    /\ BlockedOnlyWhenFull

(* The three properties are parts of the invariant. *)
LEMMA InvImplies == Inv => TypeOK /\ AtMostLimit /\ BlockedOnlyWhenFull
BY DEF Inv, Types, Sizes, RequestType, TypeOK

(* Half the limit is a number of requests. *)
LEMMA FallbackType == Fallback \in Nat \ {0}
BY RuleAssumption DEF Fallback

-----------------------------------------------------------------------------
(* Counting. *)

(* Requests whose entries are all in S are no more than S. *)
LEMMA Fits ==
    ASSUME NEW A, NEW S, IsFiniteSet(S), NEW f, \A r \in A : <<f[r].now, r>> \in S
    PROVE  IsFiniteSet(A) /\ Cardinality(A) <= Cardinality(S)
<1> DEFINE g == [r \in A |-> <<f[r].now, r>>]
<1>1. g \in Injection(A, S)
    BY DEF Injection, IsInjective
<1> QED
    BY <1>1, FS_Injection

(* Entries whose requests are all in A are no more than A. *)
LEMMA Covers ==
    ASSUME NEW A, IsFiniteSet(A), NEW S, NEW X, S \subseteq X \X A, NEW f,
           \A e \in S : e[1] = f[e[2]].now
    PROVE  Cardinality(S) <= Cardinality(A)
<1> DEFINE g == [e \in S |-> e[2]]
<1>1. \A e, d \in S : e[2] = d[2] => e = d
    OBVIOUS
<1>2. g \in Injection(S, A)
    BY <1>1 DEF Injection, IsInjective
<1> QED
    BY <1>2, FS_Injection

(* Adding an entry that was admitted keeps the limit. *)
LEMMA AddsOne ==
    ASSUME NEW S, IsFiniteSet(S), NEW n \in Nat, Cardinality(S) < n, NEW e
    PROVE  IsFiniteSet(S \cup {e}) /\ Cardinality(S \cup {e}) <= n
BY FS_AddElement, FS_CardinalityType

LEMMA Part ==
    ASSUME NEW S, IsFiniteSet(S), NEW T, T \subseteq S
    PROVE  IsFiniteSet(T) /\ Cardinality(T) <= Cardinality(S)
           /\ Cardinality(T) \in Nat /\ Cardinality(S) \in Nat
BY FS_Subset, FS_CardinalityType

(* Initially the windows are empty. *)
LEMMA InitInv == Init => Inv
<1> SUFFICES ASSUME Init PROVE Inv
    OBVIOUS
<1> USE RuleAssumption, RateBoundsAssumption, FallbackType DEF Init, NewRequest
<1>1. Types
    BY DEF Types, RequestType
<1>2. Sizes
    BY FS_EmptySet DEF Sizes
<1>3. Arrived = {}
    BY DEF Arrived
<1>4. \A r \in Requests : RequestInv(r)
    BY DEF RequestInv
<1>5. EntriesInv /\ Held
    BY DEF EntriesInv, Held, Allowed
<1>6. \A a, b, by, I : AllowedIn(a, b, by, I) = {}
    BY DEF AllowedIn
<1>7. AtMostLimit
    BY <1>6, FS_EmptySet DEF AtMostLimit
<1>8. BlockedOnlyWhenFull
    BY DEF BlockedOnlyWhenFull
<1> QED
    BY <1>1, <1>2, <1>3, <1>4, <1>5, <1>7, <1>8, FS_EmptySet DEF Inv

-----------------------------------------------------------------------------
(* One request moves on. *)

Begin(n) == IF n < Window THEN 0 ELSE n - Window + 1
End(t)   == t + Window - MaxDelay - 1

(* AllowedIn, of the requests as they are in f: req, or req'. *)
AllowedOf(f, T, backend, I) ==
    {r \in Requests : /\ f[r].verdict = "allowed" /\ f[r].by = backend /\ f[r].inst \in I
                      /\ f[r].now \in T}

WithinLimit(f, t) ==
    /\ Cardinality(AllowedOf(f, t..End(t), "redis", Instances)) <= Limit
    /\ \A i \in Instances : Cardinality(AllowedOf(f, t..End(t), "memory", {i})) <= Fallback

(* The window that ends with the refused request q was full. *)
Full(f, q) ==
    IF q.by = "redis"
    THEN Cardinality(AllowedOf(f, Begin(q.now)..(q.now + MaxDelay), "redis", Instances)) >= Limit
    ELSE Cardinality(AllowedOf(f, Begin(q.now)..(q.now + MaxDelay), "memory", {q.inst})) >= Fallback

LEMMA AtMostDef ==
    /\ AtMostLimit <=> \A t \in 0..MaxTime : WithinLimit(req, t)
    /\ AtMostLimit' <=> \A t \in 0..MaxTime : WithinLimit(req', t)
BY DEF AtMostLimit, WithinLimit, AllowedIn, AllowedOf, End

LEMMA BlockedDef ==
    /\ BlockedOnlyWhenFull <=>
          (lost = 0 => \A r \in Requests : req[r].verdict = "blocked" => Full(req, req[r]))
    /\ BlockedOnlyWhenFull' <=>
          (lost' = 0 => \A r \in Requests : req'[r].verdict = "blocked" => Full(req', req'[r]))
BY DEF BlockedOnlyWhenFull, Full, AllowedIn, AllowedOf, Begin

(* Between f and g only r has changed: it was not decided, and is now. *)
Decides(f, g, r) ==
    /\ f \in [Requests -> RequestType] /\ g \in [Requests -> RequestType]
    /\ \A q \in Requests \ {r} : g[q] = f[q]
    /\ f[r].verdict = "none"

AllowedBy(q, T, backend, I) ==
    q.verdict = "allowed" /\ q.by = backend /\ q.inst \in I /\ q.now \in T

(* If r is not allowed by that backend in that time, nothing is new. *)
LEMMA SameAllowed ==
    ASSUME NEW f, NEW g, NEW r \in Requests, Decides(f, g, r),
           NEW T, NEW backend, NEW I, ~AllowedBy(g[r], T, backend, I)
    PROVE  Cardinality(AllowedOf(g, T, backend, I)) = Cardinality(AllowedOf(f, T, backend, I))
<1>1. AllowedOf(g, T, backend, I) = AllowedOf(f, T, backend, I)
    BY DEF Decides, AllowedBy, AllowedOf
<1> QED
    BY <1>1

(* Only requests that have arrived are allowed. *)
LEMMA Finite ==
    ASSUME NEW f, NEW r, IsFiniteSet({q \in Requests : f[q].pc # "new"}),
           \A q \in Requests : f[q].verdict = "allowed" => f[q].pc # "new"
    PROVE  \A T, backend, I : IsFiniteSet(AllowedOf(f, T, backend, I))
<1> SUFFICES ASSUME NEW T, NEW backend, NEW I
             PROVE  IsFiniteSet(AllowedOf(f, T, backend, I))
    OBVIOUS
<1>1. AllowedOf(f, T, backend, I) \subseteq {q \in Requests : f[q].pc # "new"}
    BY DEF AllowedOf
<1> QED
    BY <1>1, Part

(* The limit holds at g if it holds in the windows r is allowed in. *)
LEMMA AtMostKept ==
    ASSUME NEW f, NEW g, NEW r \in Requests, Decides(f, g, r),
           \A t \in 0..MaxTime : WithinLimit(f, t),
           \A t \in 0..MaxTime : AllowedBy(g[r], t..End(t), "redis", Instances) =>
              Cardinality(AllowedOf(g, t..End(t), "redis", Instances)) <= Limit,
           \A t \in 0..MaxTime : \A i \in Instances :
              AllowedBy(g[r], t..End(t), "memory", {i}) =>
                 Cardinality(AllowedOf(g, t..End(t), "memory", {i})) <= Fallback
    PROVE  \A t \in 0..MaxTime : WithinLimit(g, t)
<1> SUFFICES ASSUME NEW t \in 0..MaxTime PROVE WithinLimit(g, t)
    OBVIOUS
<1>1. WithinLimit(f, t)
    OBVIOUS
<1>2. Cardinality(AllowedOf(g, t..End(t), "redis", Instances)) <= Limit
  <2>1. CASE AllowedBy(g[r], t..End(t), "redis", Instances)
      BY <2>1
  <2>2. CASE ~AllowedBy(g[r], t..End(t), "redis", Instances)
      BY <1>1, <2>2, SameAllowed DEF WithinLimit
  <2> QED
      BY <2>1, <2>2
<1>3. ASSUME NEW i \in Instances
      PROVE  Cardinality(AllowedOf(g, t..End(t), "memory", {i})) <= Fallback
  <2>1. CASE AllowedBy(g[r], t..End(t), "memory", {i})
      BY <2>1
  <2>2. CASE ~AllowedBy(g[r], t..End(t), "memory", {i})
      BY <1>1, <2>2, SameAllowed DEF WithinLimit
  <2> QED
      BY <2>1, <2>2
<1> QED
    BY <1>2, <1>3 DEF WithinLimit

(* A window that is full at f is full at g, if more are allowed at g. *)
LEMMA MoreIsFull ==
    ASSUME NEW f, NEW g, NEW q, Full(f, q),
           \A T, backend, I :
              /\ Cardinality(AllowedOf(f, T, backend, I)) \in Nat
              /\ Cardinality(AllowedOf(g, T, backend, I)) \in Nat
              /\ Cardinality(AllowedOf(f, T, backend, I))
                    <= Cardinality(AllowedOf(g, T, backend, I))
    PROVE  Full(g, q)
BY FallbackType, RuleAssumption DEF Full

(* A window that was full stays full. *)
LEMMA FullStays ==
    ASSUME NEW f, NEW g, NEW r \in Requests, Decides(f, g, r),
           \A T, backend, I : IsFiniteSet(AllowedOf(g, T, backend, I)),
           \A q \in Requests : f[q].verdict = "blocked" => Full(f, f[q]),
           g[r].verdict = "blocked" => Full(g, g[r])
    PROVE  \A q \in Requests : g[q].verdict = "blocked" => Full(g, g[q])
<1>1. ASSUME NEW T, NEW backend, NEW I
      PROVE  /\ Cardinality(AllowedOf(f, T, backend, I)) \in Nat
             /\ Cardinality(AllowedOf(g, T, backend, I)) \in Nat
             /\ Cardinality(AllowedOf(f, T, backend, I))
                   <= Cardinality(AllowedOf(g, T, backend, I))
  <2>1. AllowedOf(f, T, backend, I) \subseteq AllowedOf(g, T, backend, I)
      BY DEF Decides, AllowedOf
  <2> QED
      BY <2>1, Part
<1> SUFFICES ASSUME NEW q \in Requests, g[q].verdict = "blocked", q # r
             PROVE  Full(g, g[q])
    OBVIOUS
<1>2. g[q] = f[q]
    BY DEF Decides
<1>3. Full(f, f[q])
    BY <1>2
<1> QED
    BY <1>1, <1>2, <1>3, MoreIsFull

-----------------------------------------------------------------------------
(* A request is decided. *)

(* What the state says of a request that is not decided yet. *)
LEMMA Undecided ==
    ASSUME Inv, NEW r \in Requests, req[r].pc # "done",
           req' \in [Requests -> RequestType], \A q \in Requests \ {r} : req'[q] = req[q],
           req'[r].pc # "new"
    PROVE  /\ Decides(req, req', r)
           /\ IsFiniteSet(Arrived')
           /\ \A q \in Requests : req[q].verdict = "allowed" => q # r /\ req'[q] = req[q]
<1>1. Decides(req, req', r)
    BY DEF Inv, Types, RequestInv, Decides
<1>2. Arrived' = Arrived \cup {r}
    BY DEF Arrived
<1>3. IsFiniteSet(Arrived')
    BY <1>2, FS_AddElement DEF Inv
<1> QED
    BY <1>1, <1>3 DEF Decides

(* The backend's answer and the limit: S is what it holds after the step,  *)
(* everything it has allowed since t is in it.                             *)
LEMMA WindowFits ==
    ASSUME NEW f, NEW t, NEW backend, NEW I, NEW S, IsFiniteSet(S),
           \A q \in AllowedOf(f, t..End(t), backend, I) : <<f[q].now, q>> \in S,
           NEW n \in Nat, Cardinality(S) <= n
    PROVE  Cardinality(AllowedOf(f, t..End(t), backend, I)) <= n
BY Fits, FS_CardinalityType

(* The memory of an instance decides. *)
LEMMA MemoryStep ==
    ASSUME Inv, NEW r \in Requests, NEW i \in Instances, NEW now \in 0..clock,
           clock <= now + MaxDelay,
           req[r].pc = "new" \/ (req[r].pc = "eval" /\ req[r].now = now),
           CheckMemory(r, i, now),
           ready' \in [Instances -> BOOLEAN], outages' \in 0..MaxOutages,
           UNCHANGED <<clock, zset, expires, lost>>
    PROVE  Inv'
<1>1. PICK live, allowed :
         /\ live = {e \in memory[i] : InWindow(e[1], now)}
         /\ allowed = (Cardinality(live) < Fallback)
         /\ memory' = [memory EXCEPT ![i] = IF allowed THEN live \cup {<<now, r>>} ELSE live]
         /\ req' = [req EXCEPT ![r] = Answer(i, now, "memory", allowed)]
    BY DEF CheckMemory
<1>2. PICK new : new = Answer(i, now, "memory", allowed)
    OBVIOUS
<1>3. /\ new \in RequestType /\ new.pc = "done" /\ new.inst = i /\ new.now = now
      /\ new.by = "memory"
      /\ new.verdict = "allowed" <=> Cardinality(live) < Fallback
      /\ new.verdict = "blocked" <=> ~(Cardinality(live) < Fallback)
      /\ new.verdict # "none"
  <2>1. now \in 0..MaxTime
      BY RateBoundsAssumption DEF Inv, Types
  <2>2. /\ new.pc = "done" /\ new.inst = i /\ new.now = now /\ new.by = "memory"
        /\ new.verdict = IF allowed THEN "allowed" ELSE "blocked"
      BY <1>2 DEF Answer
  <2>3. new \in RequestType
      BY <2>1, <1>2 DEF Answer, RequestType
  <2> QED
      BY <2>2, <2>3, <1>1
<1>4. /\ req' \in [Requests -> RequestType]
      /\ req'[r] = new /\ \A q \in Requests \ {r} : req'[q] = req[q]
    BY <1>1, <1>2, <1>3 DEF Inv, Types
<1>5. PICK m : m = IF allowed THEN live \cup {<<now, r>>} ELSE live
    OBVIOUS
<1>6. /\ live \subseteq memory[i] /\ m \subseteq (0..MaxTime) \X Requests
      /\ live \subseteq m
  <2>1. memory[i] \subseteq (0..MaxTime) \X Requests
      BY DEF Inv, Types
  <2>2. live \subseteq memory[i] /\ live \subseteq m
      BY <1>1, <1>5
  <2>3. <<now, r>> \in (0..MaxTime) \X Requests
      BY RateBoundsAssumption DEF Inv, Types
  <2>4. m \subseteq live \cup {<<now, r>>}
      BY <1>5
  <2> QED
      BY <2>1, <2>2, <2>3, <2>4
<1>7. /\ memory' \in [Instances -> SUBSET ((0..MaxTime) \X Requests)]
      /\ memory'[i] = m /\ \A j \in Instances \ {i} : memory'[j] = memory[j]
  <2>1. memory' = [memory EXCEPT ![i] = m]
      BY <1>1, <1>5
  <2>2. memory \in [Instances -> SUBSET ((0..MaxTime) \X Requests)]
      BY DEF Inv, Types
  <2> QED
      BY <2>1, <2>2, <1>6
<1>8. /\ IsFiniteSet(live) /\ Cardinality(live) <= Fallback /\ Cardinality(live) \in Nat
      /\ IsFiniteSet(m) /\ Cardinality(m) <= Fallback
  <2>1. IsFiniteSet(memory[i]) /\ Cardinality(memory[i]) <= Fallback
      BY DEF Inv, Sizes
  <2>2. IsFiniteSet(live) /\ Cardinality(live) <= Fallback /\ Cardinality(live) \in Nat
      BY <2>1, <1>6, Part, FallbackType
  <2> QED
      BY <2>2, <1>1, <1>5, AddsOne, FallbackType
<1>9. /\ Decides(req, req', r) /\ IsFiniteSet(Arrived')
      /\ \A q \in Requests : req[q].verdict = "allowed" => q # r /\ req'[q] = req[q]
    BY <1>3, <1>4, Undecided
<1>10. Types' /\ Sizes'
    BY <1>4, <1>7, <1>8 DEF Inv, Types, Sizes
<1>11. \A q \in Requests : RequestInv(q)'
  <2> SUFFICES ASSUME NEW q \in Requests PROVE RequestInv(q)'
      OBVIOUS
  <2>1. RequestInv(q) /\ RequestInv(r)
      BY DEF Inv
  <2> QED
      BY <2>1, <1>3, <1>4 DEF RequestInv
<1>12. EntriesInv'
  <2>1. ASSUME NEW e \in zset
        PROVE  /\ e[1] = req'[e[2]].now /\ req'[e[2]].pc # "new" /\ e[1] + Window <= expires
               /\ lost = 0 => Allowed(e[2], "redis")'
      BY <1>3, <1>4, <1>9 DEF Inv, EntriesInv, Types, Allowed
  <2>2. ASSUME NEW e \in live
        PROVE  /\ e[1] = req'[e[2]].now /\ Allowed(e[2], "memory")' /\ req'[e[2]].inst = i
      BY <1>1, <1>4, <1>9 DEF Inv, EntriesInv, Types, Allowed
  <2>3. ASSUME NEW e \in m
        PROVE  /\ e[1] = req'[e[2]].now /\ Allowed(e[2], "memory")' /\ req'[e[2]].inst = i
    <3>1. CASE e \in live
        BY <3>1, <2>2
    <3>2. CASE e \notin live
      <4>1. e = <<now, r>> /\ allowed
          BY <3>2, <1>5
      <4> QED
          BY <4>1, <1>1, <1>3, <1>4 DEF Allowed
    <3> QED
        BY <3>1, <3>2
  <2>4. ASSUME NEW j \in Instances \ {i}, NEW e \in memory[j]
        PROVE  /\ e[1] = req'[e[2]].now /\ Allowed(e[2], "memory")' /\ req'[e[2]].inst = j
      BY <1>4, <1>9 DEF Inv, EntriesInv, Types, Allowed
  <2> QED
      BY <2>1, <2>3, <2>4, <1>7 DEF EntriesInv, Allowed
<1>13. Held'
  <2> SUFFICES ASSUME NEW q \in Requests, clock < req'[q].now + Window
               PROVE  /\ Allowed(q, "redis")' => <<req'[q].now, q>> \in zset
                      /\ Allowed(q, "memory")' => <<req'[q].now, q>> \in memory'[req'[q].inst]
      BY DEF Held, Allowed
  <2>1. CASE q = r
      BY <2>1, <1>1, <1>3, <1>4, <1>5, <1>7 DEF Allowed
  <2>2. CASE q # r
    <3>1. req'[q] = req[q]
        BY <2>2, <1>4
    <3>2. Allowed(q, "memory")' /\ req[q].inst = i => <<req[q].now, q>> \in live
        BY <3>1, <1>1, RuleAssumption DEF Inv, Held, Allowed, InWindow, Types, RequestType
    <3>3. Allowed(q, "memory")' => req[q].inst \in Instances
        BY <3>1 DEF Inv, RequestInv, Allowed
    <3> QED
        BY <3>1, <3>2, <3>3, <1>6, <1>7 DEF Inv, Held, Allowed
  <2> QED
      BY <2>1, <2>2
<1>14. AtMostLimit'
  <2>1. ASSUME NEW t \in 0..MaxTime, AllowedBy(req'[r], t..End(t), "memory", {i})
        PROVE  Cardinality(AllowedOf(req', t..End(t), "memory", {i})) <= Fallback
    <3>1. now \in t..End(t) /\ allowed
        BY <2>1, <1>1, <1>3, <1>4 DEF AllowedBy
    <3>2. clock < t + Window
        BY <3>1, RuleAssumption, RateBoundsAssumption DEF End, Inv, Types
    <3>3. ASSUME NEW q \in AllowedOf(req', t..End(t), "memory", {i})
          PROVE  <<req'[q].now, q>> \in m
      <4>1. /\ q \in Requests /\ Allowed(q, "memory")' /\ req'[q].inst = i
            /\ req'[q].now \in Nat /\ t <= req'[q].now
          BY <3>3, <1>4 DEF AllowedOf, Allowed, RequestType
      <4>2. clock < req'[q].now + Window
          BY <4>1, <3>2, RuleAssumption DEF Inv, Types
      <4> QED
          BY <4>1, <4>2, <1>7, <1>13 DEF Held
    <3> QED
        BY <3>3, <1>8, WindowFits, FallbackType
  <2>2. ASSUME NEW T PROVE /\ ~AllowedBy(req'[r], T, "redis", Instances)
                           /\ \A j \in Instances \ {i} : ~AllowedBy(req'[r], T, "memory", {j})
      BY <1>3, <1>4 DEF AllowedBy
  <2>3. \A t \in 0..MaxTime : WithinLimit(req, t)
      BY AtMostDef DEF Inv
  <2>4. \A t \in 0..MaxTime : WithinLimit(req', t)
      BY <2>1, <2>2, <2>3, <1>9, AtMostKept
  <2> QED
      BY <2>4, AtMostDef
<1>15. BlockedOnlyWhenFull'
  <2> SUFFICES ASSUME lost = 0
               PROVE  \A q \in Requests : req'[q].verdict = "blocked" => Full(req', req'[q])
      BY BlockedDef
  <2>1. \A q \in Requests : req[q].verdict = "blocked" => Full(req, req[q])
      BY BlockedDef DEF Inv
  <2>2. \A T, backend, I : IsFiniteSet(AllowedOf(req', T, backend, I))
    <3>1. \A q \in Requests : req'[q].verdict = "allowed" => req'[q].pc # "new"
        BY <1>11 DEF RequestInv
    <3>2. IsFiniteSet({q \in Requests : req'[q].pc # "new"})
        BY <1>9 DEF Arrived
    <3> QED
        BY <3>1, <3>2, Finite
  <2>3. ASSUME req'[r].verdict = "blocked" PROVE Full(req', req'[r])
    <3>1. Cardinality(live) >= Fallback
        BY <2>3, <1>3, <1>4, <1>8, FallbackType
    <3>2. PICK A : A = AllowedOf(req', Begin(now)..(now + MaxDelay), "memory", {i})
        OBVIOUS
    <3>3. ASSUME NEW e \in live
          PROVE  e \in (0..MaxTime) \X A /\ e[1] = req'[e[2]].now
      <4>1. /\ e \in (0..MaxTime) \X Requests /\ e \in memory[i] /\ InWindow(e[1], now)
            /\ e[1] = req[e[2]].now /\ Allowed(e[2], "memory") /\ req[e[2]].inst = i
          BY <1>1, <1>6 DEF Inv, Types, EntriesInv
      <4>2. req'[e[2]] = req[e[2]]
          BY <4>1, <1>9 DEF Allowed
      <4>3. e[1] <= clock
          BY <4>1 DEF Inv, RequestInv
      <4>4. e[1] \in Begin(now)..(now + MaxDelay)
          BY <4>1, <4>3, RuleAssumption, RateBoundsAssumption DEF Begin, InWindow, Inv, Types
      <4> QED
          BY <4>1, <4>2, <4>4, <3>2 DEF AllowedOf, Allowed
    <3>4. IsFiniteSet(A)
        BY <2>2, <3>2
    <3>5. Cardinality(live) <= Cardinality(A)
        BY <3>3, <3>4, Covers
    <3>6. Cardinality(A) >= Fallback
        BY <3>1, <3>4, <3>5, <1>8, FS_CardinalityType, FallbackType
    <3> QED
        BY <3>2, <3>6, <1>3, <1>4 DEF Full
  <2> QED
      BY <2>1, <2>2, <2>3, <1>9, FullStays
<1> QED
    BY <1>9, <1>10, <1>11, <1>12, <1>13, <1>14, <1>15 DEF Inv

(* The script, for a request that waits for its reply. *)
LEMMA ScriptWrites ==
    ASSUME Inv, NEW r \in Requests, req[r].pc = "eval", Script(r)
    PROVE  /\ Live(r) \subseteq zset /\ Live(r) \subseteq zset'
           /\ IsFiniteSet(Live(r)) /\ Cardinality(Live(r)) \in Nat
           /\ zset' \subseteq (0..MaxTime) \X Requests
           /\ IsFiniteSet(zset') /\ Cardinality(zset') <= Limit
           /\ expires' \in 0..(MaxTime + Window)
           /\ \A e \in zset' : e[1] + Window <= expires'
           /\ \A e \in zset' : e \in Live(r) \/ (e = <<req[r].now, r>> /\ Admit(Live(r)))
           /\ Admit(Live(r)) => <<req[r].now, r>> \in zset'
           /\ \A e \in zset : clock < e[1] + Window => e \in zset'
<1>1. /\ clock \in 0..MaxTime /\ req[r].now \in 0..MaxTime /\ req[r].now <= clock
      /\ zset \subseteq (0..MaxTime) \X Requests
    BY DEF Inv, Types, RequestType, RequestInv
<1>2. PICK live : live = Live(r)
    OBVIOUS
<1>3. live = {e \in zset : InWindow(e[1], req[r].now)}
    BY <1>2 DEF Live
<1>4. live \subseteq zset /\ \A e \in zset : clock < e[1] + Window => e \in live
    BY <1>1, <1>3, RuleAssumption DEF InWindow
<1>5. /\ zset' = IF Admit(live) THEN live \cup {<<req[r].now, r>>} ELSE live
      /\ expires' = clock + Window
    BY <1>2 DEF Script
<1>6. IsFiniteSet(live) /\ Cardinality(live) \in Nat /\ Cardinality(live) <= Limit
    BY <1>4, Part, RuleAssumption DEF Inv, Sizes
<1>7. IsFiniteSet(zset') /\ Cardinality(zset') <= Limit
    BY <1>5, <1>6, AddsOne, RuleAssumption DEF Admit
<1>8. zset' \subseteq live \cup {<<req[r].now, r>>} /\ live \subseteq zset'
    BY <1>5
<1>9. zset' \subseteq (0..MaxTime) \X Requests
    BY <1>1, <1>4, <1>8
<1>10. \A e \in zset' : e[1] + Window <= expires'
  <2>1. \A e \in zset : e[1] <= clock
      BY <1>1 DEF Inv, EntriesInv, RequestInv
  <2> QED
      BY <2>1, <1>1, <1>4, <1>5, <1>8, RuleAssumption
<1>11. expires' \in 0..(MaxTime + Window)
    BY <1>1, <1>5, RuleAssumption, RateBoundsAssumption
<1>12. /\ \A e \in zset' : e \in live \/ (e = <<req[r].now, r>> /\ Admit(live))
       /\ Admit(live) => <<req[r].now, r>> \in zset'
    BY <1>5
<1> QED
    BY <1>2, <1>4, <1>6, <1>7, <1>8, <1>9, <1>10, <1>11, <1>12

(* The reply is lost: the request waits on. *)
LEMMA ResendStep == ASSUME Inv, NEW r \in Requests, Resend(r) PROVE Inv'
<1>1. /\ req[r].pc = "eval" /\ Script(r)
      /\ lost \in 0..MaxLost /\ lost < MaxLost /\ lost' = lost + 1
      /\ UNCHANGED <<clock, memory, ready, req, outages>>
    BY DEF Resend, Inv, Types
<1>8. /\ zset' \subseteq (0..MaxTime) \X Requests /\ expires' \in 0..(MaxTime + Window)
      /\ \A e \in zset' : e[1] + Window <= expires'
      /\ \A e \in zset' : e \in zset \/ e = <<req[r].now, r>>
    BY <1>1, ScriptWrites
<1>2. Types'
    BY <1>1, <1>8, RateBoundsAssumption DEF Inv, Types
<1>3. Sizes'
    BY <1>1, ScriptWrites DEF Inv, Sizes
<1>4. IsFiniteSet(Arrived') /\ \A q \in Requests : RequestInv(q)'
    BY <1>1 DEF Inv, Arrived, RequestInv
<1>5. EntriesInv'
  <2>1. \A e \in zset' : e[1] = req'[e[2]].now /\ req'[e[2]].pc # "new" /\ lost' # 0
      BY <1>1, <1>8 DEF Inv, EntriesInv
  <2> QED
      BY <2>1, <1>1, <1>8 DEF Inv, EntriesInv, Allowed
<1>6. Held'
    BY <1>1, ScriptWrites DEF Inv, Held, Allowed
<1>7. AtMostLimit' /\ BlockedOnlyWhenFull'
  <2>1. \A t \in 0..MaxTime : WithinLimit(req', t)
      BY <1>1, AtMostDef DEF Inv
  <2>2. lost' # 0
      BY <1>1
  <2> QED
      BY <2>1, <2>2, AtMostDef, BlockedDef
<1> QED
    BY <1>2, <1>3, <1>4, <1>5, <1>6, <1>7 DEF Inv

(* The reply arrives: Redis has decided. *)
LEMMA RedisStep == ASSUME Inv, NEW r \in Requests, CheckRedis(r) PROVE Inv'
<1>1. /\ req[r].pc = "eval" /\ Script(r)
      /\ req' = [req EXCEPT ![r] = Answer(req[r].inst, req[r].now, "redis", Admit(Live(r)))]
      /\ UNCHANGED <<clock, memory, ready, outages, lost>>
    BY DEF CheckRedis, counts
<1>2. PICK new : new = Answer(req[r].inst, req[r].now, "redis", Admit(Live(r)))
    OBVIOUS
<1>3. /\ new \in RequestType /\ new.pc = "done" /\ new.by = "redis"
      /\ new.now = req[r].now /\ new.inst = req[r].inst /\ new.inst \in Instances
      /\ new.verdict = "allowed" <=> Admit(Live(r))
      /\ new.verdict = "blocked" <=> ~Admit(Live(r))
  <2>1. req[r] \in RequestType /\ req[r].inst \in Instances
      BY <1>1 DEF Inv, Types, RequestInv
  <2>2. /\ new.pc = "done" /\ new.inst = req[r].inst /\ new.now = req[r].now
        /\ new.by = "redis" /\ new.verdict = IF Admit(Live(r)) THEN "allowed" ELSE "blocked"
      BY <1>2 DEF Answer
  <2>3. new \in RequestType
      BY <2>1, <1>2 DEF Answer, RequestType
  <2> QED
      BY <2>1, <2>2, <2>3
<1>4. /\ req' \in [Requests -> RequestType]
      /\ req'[r] = new /\ \A q \in Requests \ {r} : req'[q] = req[q]
    BY <1>1, <1>2, <1>3 DEF Inv, Types
<1>5. /\ Decides(req, req', r) /\ IsFiniteSet(Arrived')
      /\ \A q \in Requests : req[q].verdict = "allowed" => q # r /\ req'[q] = req[q]
    BY <1>1, <1>3, <1>4, Undecided
<1>6. Types' /\ Sizes'
    BY <1>1, <1>4, ScriptWrites DEF Inv, Types, Sizes
<1>7. \A q \in Requests : RequestInv(q)'
  <2> SUFFICES ASSUME NEW q \in Requests PROVE RequestInv(q)'
      OBVIOUS
  <2>1. RequestInv(q) /\ RequestInv(r)
      BY DEF Inv
  <2> QED
      BY <2>1, <1>1, <1>3, <1>4 DEF RequestInv
<1>8. EntriesInv'
  <2>1. ASSUME NEW e \in zset'
        PROVE  /\ e[1] = req'[e[2]].now /\ req'[e[2]].pc # "new" /\ e[1] + Window <= expires'
               /\ lost = 0 => Allowed(e[2], "redis")'
    <3>1. e[1] + Window <= expires'
        BY <1>1, ScriptWrites
    <3>2. CASE e \in Live(r)
      <4>1. e \in zset /\ e[2] \in Requests
          BY <1>1, <3>2, ScriptWrites DEF Inv, Types
      <4>2. /\ e[1] = req[e[2]].now /\ req[e[2]].pc # "new"
            /\ lost = 0 => Allowed(e[2], "redis")
          BY <4>1 DEF Inv, EntriesInv
      <4> QED
          BY <3>1, <4>1, <4>2, <1>3, <1>4, <1>5 DEF Allowed
    <3>3. CASE e \notin Live(r)
      <4>1. e = <<req[r].now, r>> /\ Admit(Live(r))
          BY <1>1, <3>3, ScriptWrites
      <4> QED
          BY <3>1, <4>1, <1>3, <1>4 DEF Allowed
    <3> QED
        BY <3>2, <3>3
  <2>2. ASSUME NEW i \in Instances, NEW e \in memory[i]
        PROVE  /\ e[1] = req'[e[2]].now /\ Allowed(e[2], "memory")' /\ req'[e[2]].inst = i
      BY <1>4, <1>5 DEF Inv, EntriesInv, Types, Allowed
  <2> QED
      BY <2>1, <2>2, <1>1 DEF EntriesInv, Allowed
<1>9. Held'
  <2> SUFFICES ASSUME NEW q \in Requests, clock < req'[q].now + Window
               PROVE  /\ Allowed(q, "redis")' => <<req'[q].now, q>> \in zset'
                      /\ Allowed(q, "memory")' => <<req'[q].now, q>> \in memory[req'[q].inst]
      BY <1>1 DEF Held, Allowed
  <2>1. CASE q = r
    <3>1. Admit(Live(r)) => <<req[r].now, r>> \in zset'
        BY <1>1, ScriptWrites
    <3> QED
        BY <2>1, <3>1, <1>3, <1>4 DEF Allowed
  <2>2. CASE q # r
    <3>1. req'[q] = req[q]
        BY <2>2, <1>4
    <3>2. <<req[q].now, q>> \in zset => <<req[q].now, q>> \in zset'
        BY <3>1, <1>1, ScriptWrites
    <3> QED
        BY <3>1, <3>2 DEF Inv, Held, Allowed
  <2> QED
      BY <2>1, <2>2
<1>10. AtMostLimit'
  <2>1. ASSUME NEW t \in 0..MaxTime, AllowedBy(req'[r], t..End(t), "redis", Instances)
        PROVE  Cardinality(AllowedOf(req', t..End(t), "redis", Instances)) <= Limit
    <3>1. req[r].now \in t..End(t) /\ Admit(Live(r))
        BY <2>1, <1>3, <1>4 DEF AllowedBy
    <3>2. clock < t + Window
        BY <1>1, <3>1, RuleAssumption, RateBoundsAssumption
           DEF End, Inv, Types, RequestInv, RequestType
    <3>3. ASSUME NEW q \in AllowedOf(req', t..End(t), "redis", Instances)
          PROVE  <<req'[q].now, q>> \in zset'
      <4>1. q \in Requests /\ Allowed(q, "redis")' /\ req'[q].now \in Nat /\ t <= req'[q].now
          BY <3>3, <1>4 DEF AllowedOf, Allowed, RequestType
      <4>2. clock < req'[q].now + Window
          BY <4>1, <3>2, RuleAssumption DEF Inv, Types
      <4> QED
          BY <4>1, <4>2, <1>1, <1>9 DEF Held
    <3> QED
        BY <3>3, <1>1, ScriptWrites, WindowFits, RuleAssumption
  <2>2. ASSUME NEW T, NEW i PROVE ~AllowedBy(req'[r], T, "memory", {i})
      BY <1>3, <1>4 DEF AllowedBy
  <2>3. \A t \in 0..MaxTime : WithinLimit(req, t)
      BY AtMostDef DEF Inv
  <2>4. \A t \in 0..MaxTime : WithinLimit(req', t)
      BY <2>1, <2>2, <2>3, <1>5, AtMostKept
  <2> QED
      BY <2>4, AtMostDef
<1>11. BlockedOnlyWhenFull'
  <2> SUFFICES ASSUME lost = 0
               PROVE  \A q \in Requests : req'[q].verdict = "blocked" => Full(req', req'[q])
      BY <1>1, BlockedDef
  <2>1. \A q \in Requests : req[q].verdict = "blocked" => Full(req, req[q])
      BY BlockedDef DEF Inv
  <2>2. \A T, backend, I : IsFiniteSet(AllowedOf(req', T, backend, I))
    <3>1. \A q \in Requests : req'[q].verdict = "allowed" => req'[q].pc # "new"
        BY <1>7 DEF RequestInv
    <3>2. IsFiniteSet({q \in Requests : req'[q].pc # "new"})
        BY <1>5 DEF Arrived
    <3> QED
        BY <3>1, <3>2, Finite
  <2>3. ASSUME req'[r].verdict = "blocked" PROVE Full(req', req'[r])
    <3>1. PICK live : live = Live(r)
        OBVIOUS
    <3>2. Cardinality(live) >= Limit /\ Cardinality(live) \in Nat
      <4>1. Cardinality(live) \in Nat
          BY <3>1, <1>1, ScriptWrites
      <4>2. ~(Cardinality(live) < Limit)
          BY <2>3, <3>1, <1>3, <1>4 DEF Admit
      <4> QED
          BY <4>1, <4>2, RuleAssumption
    <3>3. PICK now : now = req[r].now
        OBVIOUS
    <3>4. PICK A : A = AllowedOf(req', Begin(now)..(now + MaxDelay), "redis", Instances)
        OBVIOUS
    <3>5. ASSUME NEW e \in live
          PROVE  e \in (0..MaxTime) \X A /\ e[1] = req'[e[2]].now
      <4>1. /\ e \in (0..MaxTime) \X Requests /\ e \in zset /\ InWindow(e[1], now)
            /\ e[1] = req[e[2]].now /\ Allowed(e[2], "redis") /\ req[e[2]].pc # "new"
          BY <3>1, <3>3 DEF Live, Inv, Types, EntriesInv
      <4>2. req'[e[2]] = req[e[2]] /\ req[e[2]].inst \in Instances
          BY <4>1, <1>5 DEF Allowed, Inv, RequestInv
      <4>3. e[1] <= clock /\ clock <= now + MaxDelay /\ now \in 0..MaxTime
          BY <4>1, <3>3, <1>1 DEF Inv, RequestInv, Types, RequestType
      <4>4. e[1] \in Begin(now)..(now + MaxDelay)
          BY <4>1, <4>3, RuleAssumption, RateBoundsAssumption DEF Begin, InWindow, Inv, Types
      <4> QED
          BY <4>1, <4>2, <4>4, <3>4 DEF AllowedOf, Allowed
    <3>6. IsFiniteSet(A)
        BY <2>2, <3>4
    <3>7. Cardinality(live) <= Cardinality(A)
        BY <3>5, <3>6, Covers
    <3>8. Cardinality(A) >= Limit
        BY <3>2, <3>6, <3>7, FS_CardinalityType, RuleAssumption
    <3> QED
        BY <3>3, <3>4, <3>8, <1>3, <1>4 DEF Full
  <2> QED
      BY <2>1, <2>2, <2>3, <1>5, FullStays
<1> QED
    BY <1>5, <1>6, <1>7, <1>8, <1>9, <1>10, <1>11 DEF Inv

-----------------------------------------------------------------------------
(* The other steps. *)

(* A request arrives and its script is sent. *)
LEMMA ArriveStep ==
    ASSUME Inv, NEW r \in Requests, NEW i \in Instances, Check(r, i), ready[i]
    PROVE  Inv'
<1>0. /\ req[r].pc = "new"
      /\ req' = [req EXCEPT ![r] = [NewRequest EXCEPT !.pc = "eval", !.inst = i, !.now = clock]]
      /\ UNCHANGED <<clock, zset, expires, memory, ready, outages, lost>>
    BY DEF Check, counts
<1>1. PICK new : new = [NewRequest EXCEPT !.pc = "eval", !.inst = i, !.now = clock]
    OBVIOUS
<1>2. /\ new \in RequestType /\ new.pc = "eval" /\ new.inst = i /\ new.now = clock
      /\ new.verdict = "none"
    BY <1>1 DEF NewRequest, RequestType, Inv, Types
<1>3. /\ req' \in [Requests -> RequestType]
      /\ req'[r] = new /\ \A q \in Requests \ {r} : req'[q] = req[q]
    BY <1>1, <1>2, <1>0 DEF Inv, Types
<1>4. /\ Decides(req, req', r) /\ IsFiniteSet(Arrived')
      /\ \A q \in Requests : req[q].verdict = "allowed" => q # r /\ req'[q] = req[q]
    BY <1>2, <1>3, <1>0, Undecided
<1>5. Types' /\ Sizes'
    BY <1>3, <1>0 DEF Inv, Types, Sizes
<1>6. \A q \in Requests : RequestInv(q)'
  <2> SUFFICES ASSUME NEW q \in Requests PROVE RequestInv(q)'
      OBVIOUS
  <2>1. clock \in Nat /\ clock' = clock /\ RequestInv(q)
      BY <1>0 DEF Inv, Types
  <2> QED
      BY <2>1, <1>2, <1>3, RateBoundsAssumption DEF RequestInv
<1>7. EntriesInv'
  <2>1. ASSUME NEW e \in zset PROVE e[2] # r /\ req'[e[2]] = req[e[2]]
      BY <1>3, <1>0 DEF Inv, EntriesInv, Types
  <2>2. ASSUME NEW j \in Instances, NEW e \in memory[j] PROVE req'[e[2]] = req[e[2]]
      BY <1>4 DEF Inv, EntriesInv, Types, Allowed
  <2>3. zset' = zset /\ memory' = memory /\ expires' = expires /\ lost' = lost
      BY <1>0
  <2> QED
      BY <2>1, <2>2, <2>3 DEF Inv, EntriesInv, Allowed
<1>8. Held'
    BY <1>2, <1>3, <1>0 DEF Inv, Held, Allowed
<1>9. AtMostLimit'
  <2>1. ASSUME NEW T, NEW backend, NEW I PROVE ~AllowedBy(req'[r], T, backend, I)
      BY <1>2, <1>3 DEF AllowedBy
  <2>2. \A t \in 0..MaxTime : WithinLimit(req, t)
      BY AtMostDef DEF Inv
  <2>3. \A t \in 0..MaxTime : WithinLimit(req', t)
      BY <2>1, <2>2, <1>4, AtMostKept
  <2> QED
      BY <2>3, AtMostDef
<1>10. BlockedOnlyWhenFull'
  <2> SUFFICES ASSUME lost = 0
               PROVE  \A q \in Requests : req'[q].verdict = "blocked" => Full(req', req'[q])
      BY <1>0, BlockedDef
  <2>1. \A q \in Requests : req[q].verdict = "blocked" => Full(req, req[q])
      BY BlockedDef DEF Inv
  <2>2. \A T, backend, I : IsFiniteSet(AllowedOf(req', T, backend, I))
    <3>1. \A q \in Requests : req'[q].verdict = "allowed" => req'[q].pc # "new"
        BY <1>6 DEF RequestInv
    <3>2. IsFiniteSet({q \in Requests : req'[q].pc # "new"})
        BY <1>4 DEF Arrived
    <3> QED
        BY <3>1, <3>2, Finite
  <2>3. req'[r].verdict # "blocked"
      BY <1>2, <1>3
  <2> QED
      BY <2>1, <2>2, <2>3, <1>4, FullStays
<1> QED
    BY <1>4, <1>5, <1>6, <1>7, <1>8, <1>9, <1>10 DEF Inv

LEMMA CheckStep ==
    ASSUME Inv, NEW r \in Requests, NEW i \in Instances, Check(r, i) PROVE Inv'
<1>1. CASE ready[i]
    BY <1>1, ArriveStep DEF Check
<1>2. CASE ~ready[i]
  <2>1. CheckMemory(r, i, clock) /\ req[r].pc = "new"
      BY <1>2 DEF Check
  <2>2. clock \in 0..clock /\ clock <= clock + MaxDelay
      BY RateBoundsAssumption DEF Inv, Types
  <2>3. /\ UNCHANGED <<clock, zset, expires, lost>>
        /\ ready' \in [Instances -> BOOLEAN] /\ outages' \in 0..MaxOutages
      BY DEF Check, counts, Inv, Types
  <2> QED
      BY <2>1, <2>2, <2>3, MemoryStep
<1> QED
    BY <1>1, <1>2

LEMMA GiveUpStep == ASSUME Inv, NEW r \in Requests, GiveUp(r) PROVE Inv'
<1>1. /\ req[r].pc = "eval" /\ CheckMemory(r, req[r].inst, req[r].now)
      /\ UNCHANGED <<clock, zset, expires, lost>>
      /\ ready' \in [Instances -> BOOLEAN] /\ outages' \in 0..MaxOutages
    BY RateBoundsAssumption DEF GiveUp, Outage, Inv, Types
<1>2. /\ req[r].inst \in Instances /\ req[r].now \in 0..clock
      /\ clock <= req[r].now + MaxDelay
    BY <1>1 DEF Inv, Types, RequestType, RequestInv
<1> QED
    BY <1>1, <1>2, MemoryStep

(* A connection changes and nothing else. *)
LEMMA ConnectionStep ==
    ASSUME Inv, ready' \in [Instances -> BOOLEAN], outages' \in 0..MaxOutages,
           UNCHANGED <<clock, zset, expires, memory, req, lost>>
    PROVE  Inv'
<1>1. Types' /\ Sizes' /\ IsFiniteSet(Arrived') /\ EntriesInv' /\ Held'
    BY DEF Inv, Types, Sizes, Arrived, EntriesInv, Held, Allowed
<1>2. \A r \in Requests : RequestInv(r)'
    BY DEF Inv, RequestInv
<1>3. AtMostLimit' /\ BlockedOnlyWhenFull'
    BY AtMostDef, BlockedDef DEF Inv
<1> QED
    BY <1>1, <1>2, <1>3 DEF Inv

(* Time passes: no request waits longer than MaxDelay, and the key runs    *)
(* out only when the window of its entries has passed.                     *)
LEMMA TickStep == ASSUME Inv, Tick PROVE Inv'
<1>1. /\ clock \in 0..MaxTime /\ clock < MaxTime /\ clock' = clock + 1
      /\ UNCHANGED <<expires, memory, ready, req, outages, lost>>
      /\ zset' = IF clock + 1 >= expires THEN {} ELSE zset
    BY DEF Tick, counts, Inv, Types
<1>2. IsFiniteSet(zset') /\ Cardinality(zset') <= Limit /\ zset' \subseteq zset
    BY <1>1, FS_EmptySet, RuleAssumption DEF Inv, Sizes
<1>3. Types' /\ Sizes' /\ IsFiniteSet(Arrived')
    BY <1>1, <1>2, RateBoundsAssumption DEF Inv, Types, Sizes, Arrived
<1>4. \A r \in Requests : RequestInv(r)'
  <2> SUFFICES ASSUME NEW r \in Requests PROVE RequestInv(r)'
      OBVIOUS
  <2>1. req[r].now \in 0..MaxTime /\ RequestInv(r)
      BY DEF Inv, Types, RequestType
  <2>2. req[r].pc = "eval" => clock < req[r].now + MaxDelay
      BY DEF Tick
  <2> QED
      BY <2>1, <2>2, <1>1, RateBoundsAssumption DEF RequestInv
<1>5. EntriesInv'
    BY <1>1, <1>2 DEF Inv, EntriesInv, Allowed
<1>6. Held'
  <2> SUFFICES ASSUME NEW q \in Requests, clock' < req[q].now + Window
               PROVE  /\ Allowed(q, "redis") => <<req[q].now, q>> \in zset'
                      /\ Allowed(q, "memory") => <<req[q].now, q>> \in memory[req[q].inst]
      BY <1>1 DEF Held, Allowed
  <2>1. req[q].now \in 0..MaxTime /\ clock < req[q].now + Window
      BY <1>1, RuleAssumption DEF Inv, Types, RequestType
  <2>2. /\ Allowed(q, "redis") => <<req[q].now, q>> \in zset
        /\ Allowed(q, "memory") => <<req[q].now, q>> \in memory[req[q].inst]
      BY <2>1 DEF Inv, Held
  <2>3. <<req[q].now, q>> \in zset => req[q].now + Window <= expires
      BY DEF Inv, EntriesInv
  <2>4. <<req[q].now, q>> \in zset => ~(clock + 1 >= expires)
      BY <2>1, <2>3, <1>1, RuleAssumption DEF Inv, Types
  <2> QED
      BY <2>2, <2>4, <1>1
<1>7. AtMostLimit' /\ BlockedOnlyWhenFull'
    BY <1>1, AtMostDef, BlockedDef DEF Inv
<1> QED
    BY <1>3, <1>4, <1>5, <1>6, <1>7 DEF Inv

(* Every step keeps the invariant. *)
LEMMA NextInv == Inv /\ [Next]_vars => Inv'
<1> SUFFICES ASSUME Inv, [Next]_vars PROVE Inv'
    OBVIOUS
<1>1. CASE Tick
    BY <1>1, TickStep
<1>2. CASE \E r \in Requests :
               \/ \E i \in Instances : Check(r, i)
               \/ CheckRedis(r) \/ Resend(r) \/ GiveUp(r)
    BY <1>2, CheckStep, RedisStep, ResendStep, GiveUpStep
<1>3. CASE \E i \in Instances : Disconnect(i) \/ Reconnect(i)
  <2>1. PICK i \in Instances : Disconnect(i) \/ Reconnect(i)
      BY <1>3
  <2>2. ready' = [ready EXCEPT ![i] = FALSE] \/ ready' = [ready EXCEPT ![i] = TRUE]
      BY <2>1 DEF Disconnect, Reconnect
  <2>3. ready' \in [Instances -> BOOLEAN]
      BY <2>2 DEF Inv, Types
  <2>4. /\ outages' \in 0..MaxOutages
        /\ UNCHANGED <<clock, zset, expires, memory, req, lost>>
      BY <2>1, RateBoundsAssumption DEF Disconnect, Reconnect, Outage, counts, Inv, Types
  <2> QED
      BY <2>3, <2>4, ConnectionStep
<1>4. CASE UNCHANGED vars
  <2>1. /\ ready' \in [Instances -> BOOLEAN] /\ outages' \in 0..MaxOutages
        /\ UNCHANGED <<clock, zset, expires, memory, req, lost>>
      BY <1>4 DEF vars, counts, Inv, Types
  <2> QED
      BY <2>1, ConnectionStep
<1> QED
    BY <1>1, <1>2, <1>3, <1>4 DEF Next

LEMMA Invariance == Spec => []Inv
BY InitInv, NextInv, PTL DEF Spec

(* Windows, clients and requests stay in their types, and neither window   *)
(* ever holds more entries than its limit.                                 *)
THEOREM Typing == Spec => []TypeOK
BY Invariance, InvImplies, PTL

(* Redis allows no more than the limit in a window, nor the memory of an   *)
(* instance more than the fallback limit, whatever the interleaving of     *)
(* late scripts, lost replies and outages.                                 *)
THEOREM LimitHolds == Spec => []AtMostLimit
BY Invariance, InvImplies, PTL

(* A request is refused only when its window was full, unless the reply of *)
(* a script was lost.                                                      *)
THEOREM NoFalseRefusal == Spec => []BlockedOnlyWhenFull
BY Invariance, InvImplies, PTL

=============================================================================
