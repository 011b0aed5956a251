------------------------------ MODULE CorsCache ------------------------------
(***************************************************************************)
(* The CORS origins of merchants (cors-origins-cache.service.ts), which    *)
(* PostgreSQL holds and Redis caches: one entry per merchant and one, All, *)
(* with the origins of all merchants.  setCorsOrigins                      *)
(* (merchants.service.ts) writes the table and then the merchant's entry;  *)
(* every instance rewrites all entries on a timer; and the middleware      *)
(* (dynamic-cors.middleware.ts) decides a request by All, filling it from  *)
(* the table when it has run out.  Each of them reads in one call and      *)
(* writes in a later one.                                                  *)
(*                                                                         *)
(* An action is one call to PostgreSQL or Redis with the code up to the    *)
(* next await.  An allowed origin matches itself only: the patterns of     *)
(* originMatches are a pure function.                                      *)
(*                                                                         *)
(* A definition headed "Variant" is a plausible mistake in the definition  *)
(* that follows it.  No behaviour of the system uses it: it shows that a   *)
(* property notices the mistake.                                           *)
(***************************************************************************)
EXTENDS Naturals

CONSTANTS
    Merchants,   \* registered merchants
    Origins,     \* web origins
    All,         \* the key of the entry for all merchants
    Miss,        \* an entry that does not exist
    Setters,     \* setCorsOrigins calls that may run at once
    Refreshers,  \* refreshCache runs that may overlap, on any instance
    Readers,     \* requests that may be in the middleware at once
    Ttl,         \* CACHE_TTL_MS, in clock ticks
    MaxDelay,    \* bound: ticks between a handler's read of the table and its last write
    MaxFaults    \* bound: calls that throw and instances that stop

ASSUME KeysAssumption == All \notin Merchants /\ Miss \notin [origins : SUBSET Origins, left : 1..Ttl]
ASSUME TtlAssumption == Ttl \in Nat \ {0}
ASSUME CorsBoundsAssumption == MaxDelay \in Nat /\ MaxFaults \in Nat

VARIABLES
    table,    \* merchants.cors_origins
    since,    \* time since the merchant's origins were changed, saturating
    cache,    \* Redis: the entries, with the time they have left
    set,      \* setCorsOrigins, per call
    refresh,  \* refreshCache, per run
    read,     \* the middleware, per request
    faults

handlers == <<set, refresh, read>>
vars     == <<table, since, cache, handlers, faults>>

Keys     == Merchants \cup {All}
SinceCap == Ttl + MaxDelay

IdleSet     == [pc |-> "idle", merchant |-> All, origins |-> {}, age |-> 0]
IdleRefresh == [pc |-> "idle", todo |-> {}, table |-> [m \in Merchants |-> {}], age |-> 0]
IdleRead    == [pc |-> "idle", origins |-> {}, age |-> 0]

UnionOf(t) == UNION {t[m] : m \in Merchants}

Init ==
    /\ table   = [m \in Merchants |-> {}]
    /\ since   = [m \in Merchants |-> SinceCap]
    /\ cache   = [k \in Keys |-> Miss]
    /\ set     = [c \in Setters |-> IdleSet]
    /\ refresh = [f \in Refreshers |-> IdleRefresh]
    /\ read    = [r \in Readers |-> IdleRead]
    /\ faults  = 0

Fault == faults < MaxFaults /\ faults' = faults + 1

(* Variant: the time to live in the wrong unit. *)
PutTooLong(k, origins) ==
    cache' = [cache EXCEPT ![k] = [origins |-> origins, left |-> Ttl + Ttl]]

(* SET key origins PX CACHE_TTL_MS *)
Put(k, origins) == cache' = [cache EXCEPT ![k] = [origins |-> origins, left |-> Ttl]]

-----------------------------------------------------------------------------
(* setCorsOrigins *)

UpdateOrigins(c, m, origins) ==
    /\ set[c].pc = "idle"
    /\ table' = [table EXCEPT ![m] = origins]
    /\ since' = [since EXCEPT ![m] = IF origins = table[m] THEN @ ELSE 0]
    /\ set' = [set EXCEPT ![c].pc = "delete", ![c].merchant = m]
    /\ UNCHANGED <<cache, refresh, read, faults>>

(* invalidateMerchantCache: DEL, outside of its try block. *)
DeleteEntry(c) ==
    /\ set[c].pc = "delete"
    /\ cache' = [cache EXCEPT ![set[c].merchant] = Miss]
    /\ set' = [set EXCEPT ![c].pc = "select"]
    /\ UNCHANGED <<table, since, refresh, read, faults>>

SelectOrigins(c) ==
    /\ set[c].pc = "select"
    /\ set' = [set EXCEPT ![c].pc = "write", ![c].origins = table[set[c].merchant]]
    /\ UNCHANGED <<table, since, cache, refresh, read, faults>>

WriteEntry(c) ==
    /\ set[c].pc = "write"
    /\ Put(set[c].merchant, set[c].origins)
    /\ set' = [set EXCEPT ![c] = IdleSet]
    /\ UNCHANGED <<table, since, refresh, read, faults>>

(* DEL throws, or what follows it does and is logged. *)
FailSet(c) ==
    /\ set[c].pc # "idle"
    /\ Fault
    /\ set' = [set EXCEPT ![c] = IdleSet]
    /\ UNCHANGED <<table, since, cache, refresh, read>>

-----------------------------------------------------------------------------
(* refreshCache *)

SelectTable(f) ==
    /\ refresh[f].pc = "idle"
    /\ refresh' = [refresh EXCEPT ![f] = [pc |-> "write", todo |-> Keys,
                                          table |-> table, age |-> 0]]
    /\ UNCHANGED <<table, since, cache, set, read, faults>>

(* The pipeline is one batch and no transaction: commands of others may    *)
(* come between.  All is written last.                                     *)
WriteNext(f, k) ==
    LET rest == refresh[f].todo \ {k} IN
    /\ refresh[f].pc = "write" /\ k \in refresh[f].todo
    /\ k = All => rest = {}
    /\ Put(k, IF k = All THEN UnionOf(refresh[f].table) ELSE refresh[f].table[k])
    /\ refresh' = [refresh EXCEPT ![f] =
                      IF rest = {} THEN IdleRefresh ELSE [@ EXCEPT !.todo = rest]]
    /\ UNCHANGED <<table, since, set, read, faults>>

(* The rest of the pipeline is not run, or the instance stops. *)
FailRefresh(f) ==
    /\ refresh[f].pc = "write"
    /\ Fault
    /\ refresh' = [refresh EXCEPT ![f] = IdleRefresh]
    /\ UNCHANGED <<table, since, cache, set, read>>

-----------------------------------------------------------------------------
(* use: a request of a web page to a route of the merchant API.  It passes *)
(* if its origin is one of the origins the handler ends up with.           *)

Answer(r, origins) ==
    read' = [read EXCEPT ![r] = [pc |-> "answered", origins |-> origins, age |-> 0]]

(* Variant: an entry that is used gets its full time to live again. *)
GetAllSliding(r) ==
    /\ read[r].pc = "idle"
    /\ IF cache[All] # Miss
       THEN Answer(r, cache[All].origins) /\ Put(All, cache[All].origins)
       ELSE read' = [read EXCEPT ![r].pc = "select"] /\ UNCHANGED cache
    /\ UNCHANGED <<table, since, set, refresh, faults>>

(* GET: a hit decides. *)
GetAll(r) ==
    /\ read[r].pc = "idle"
    /\ IF cache[All] # Miss
       THEN Answer(r, cache[All].origins)
       ELSE read' = [read EXCEPT ![r].pc = "select"]
    /\ UNCHANGED <<table, since, cache, set, refresh, faults>>

(* A GET that throws counts as a miss. *)
FailGet(r) ==
    /\ read[r].pc = "idle"
    /\ Fault
    /\ read' = [read EXCEPT ![r].pc = "select"]
    /\ UNCHANGED <<table, since, cache, set, refresh>>

SelectAll(r) ==
    /\ read[r].pc = "select"
    /\ read' = [read EXCEPT ![r] = [pc |-> "set", origins |-> UnionOf(table), age |-> 0]]
    /\ UNCHANGED <<table, since, cache, set, refresh, faults>>

SetAll(r) ==
    /\ read[r].pc = "set"
    /\ Put(All, read[r].origins)
    /\ Answer(r, read[r].origins)
    /\ UNCHANGED <<table, since, set, refresh, faults>>

(* SELECT or SET throws: getAllowedMerchantOrigins answers [], also when    *)
(* the table has been read.                                                *)
FailFill(r) ==
    /\ read[r].pc \in {"select", "set"}
    /\ Fault
    /\ read' = [read EXCEPT ![r] = [pc |-> "refused", origins |-> {}, age |-> 0]]
    /\ UNCHANGED <<table, since, cache, set, refresh>>

(* The request has been answered; the next one comes. *)
Leave(r) ==
    /\ read[r].pc \in {"answered", "refused"}
    /\ read' = [read EXCEPT ![r] = IdleRead]
    /\ UNCHANGED <<table, since, cache, set, refresh, faults>>

-----------------------------------------------------------------------------
(* Time passes for the entries and for the handlers that have read.        *)

Older(h, pc) == IF h.pc = pc THEN [h EXCEPT !.age = @ + 1] ELSE h

Tick ==
    /\ \A c \in Setters : set[c].age < MaxDelay \/ set[c].pc # "write"
    /\ \A f \in Refreshers : refresh[f].age < MaxDelay \/ refresh[f].pc # "write"
    /\ \A r \in Readers : read[r].age < MaxDelay \/ read[r].pc # "set"
    /\ since' = [m \in Merchants |-> IF since[m] < SinceCap THEN since[m] + 1 ELSE since[m]]
    /\ cache' = [k \in Keys |->
          IF cache[k] = Miss \/ cache[k].left = 1 THEN Miss
          ELSE [cache[k] EXCEPT !.left = @ - 1]]
    /\ set'     = [c \in Setters |-> Older(set[c], "write")]
    /\ refresh' = [f \in Refreshers |-> Older(refresh[f], "write")]
    /\ read'    = [r \in Readers |-> Older(read[r], "set")]
    /\ UNCHANGED <<table, faults>>

Next ==
    \/ Tick
    \/ \E c \in Setters :
          \/ \E m \in Merchants, origins \in SUBSET Origins : UpdateOrigins(c, m, origins)
          \/ DeleteEntry(c) \/ SelectOrigins(c) \/ WriteEntry(c) \/ FailSet(c)
    \/ \E f \in Refreshers :
          \/ SelectTable(f) \/ FailRefresh(f)
          \/ \E k \in Keys : WriteNext(f, k)
    \/ \E r \in Readers :
          \/ GetAll(r) \/ FailGet(r) \/ SelectAll(r) \/ SetAll(r) \/ FailFill(r) \/ Leave(r)

Spec == Init /\ [][Next]_vars

-----------------------------------------------------------------------------
Tables  == [Merchants -> SUBSET Origins]
Entries == [origins : SUBSET Origins, left : 1..Ttl]

(* The type invariant: entries have no more than their time to live left,  *)
(* and no handler is older than the bound.                                 *)
TypeOK ==
    /\ table \in Tables
    /\ since \in [Merchants -> 0..SinceCap]
    /\ cache \in [Keys -> Entries \cup {Miss}]
    /\ set \in [Setters -> [pc : {"idle", "delete", "select", "write"}, merchant : Keys,
                            origins : SUBSET Origins, age : 0..MaxDelay]]
    /\ refresh \in [Refreshers -> [pc : {"idle", "write"}, todo : SUBSET Keys,
                                   table : Tables, age : 0..MaxDelay]]
    /\ read \in [Readers -> [pc : {"idle", "select", "set", "answered", "refused"},
                             origins : SUBSET Origins, age : 0..MaxDelay]]
    /\ faults \in 0..MaxFaults

(* A set of origins that was the union of the table less than n ticks ago. *)
WithinLast(n, origins) ==
    origins # UnionOf(table) => \E m \in Merchants : since[m] < n

(* No entry is older than its time to live and the slowest handler: an     *)
(* entry that differs from the table stands for a change made since, also  *)
(* when refreshes, invalidations and fills write over each other in any    *)
(* order and some of them fail.                                            *)
CacheIsRecent ==
    /\ \A m \in Merchants :
          cache[m] # Miss /\ cache[m].origins # table[m] => since[m] < SinceCap
    /\ cache[All] # Miss => WithinLast(SinceCap, cache[All].origins)

(* A request is decided by the origins of the table, or by those it had    *)
(* within the same time; only a failing call makes it an empty list.       *)
DecisionsAreRecent ==
    [][\A r \in Readers :
          read[r].pc # "answered" /\ read'[r].pc = "answered"
              => WithinLast(SinceCap, read'[r].origins)]_vars

=============================================================================
