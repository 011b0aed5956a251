--------------------------- MODULE CorsCacheProofs ---------------------------
(* Safety of CorsCache for any number of merchants, handlers and any times. *)
EXTENDS CorsCache, Integers, TLAPS

(* Origins that are the merchant's, or were n ticks ago at the latest. *)
Recent(m, origins, n) == origins # table[m] => since[m] <= n

(* The same of the origins of all merchants. *)
RecentAll(origins, n) == origins # UnionOf(table) => \E m \in Merchants : since[m] <= n

(* How long ago the origins of an entry may have been read: it was written *)
(* within MaxDelay and has been there since.                               *)
EntryAge(k) == MaxDelay + Ttl - cache[k].left

(* A snapshot is as old as its handler says, and an entry as old as the    *)
(* time it has left says.                                                  *)
SetInv(c) ==
    /\ set[c].pc # "idle" => set[c].merchant \in Merchants
    /\ set[c].pc = "write" => Recent(set[c].merchant, set[c].origins, set[c].age)

RefreshInv(f) ==
    refresh[f].pc = "write" =>
        \A m \in Merchants : Recent(m, refresh[f].table[m], refresh[f].age)

ReadInv(r) == read[r].pc = "set" => RecentAll(read[r].origins, read[r].age)

EntryInv(k) ==
    cache[k] # Miss =>
        IF k = All THEN RecentAll(cache[k].origins, EntryAge(k))
                   ELSE Recent(k, cache[k].origins, EntryAge(k))

Inv ==
    /\ TypeOK
    /\ \A c \in Setters : SetInv(c)
    /\ \A f \in Refreshers : RefreshInv(f)
    /\ \A r \in Readers : ReadInv(r)
    /\ \A k \in Keys : EntryInv(k)

(* An entry that differs from the table is younger than the change. *)
LEMMA InvImplies == Inv => TypeOK /\ CacheIsRecent
<1> SUFFICES ASSUME Inv PROVE CacheIsRecent
    BY DEF Inv
<1>1. ASSUME NEW k \in Keys, cache[k] # Miss
      PROVE  EntryAge(k) \in Int /\ EntryAge(k) < SinceCap
    <2>1. cache[k].left \in 1..Ttl
        BY <1>1 DEF Inv, TypeOK, Entries
    <2> QED
        BY <2>1, TtlAssumption, CorsBoundsAssumption DEF EntryAge, SinceCap
<1>2. since \in [Merchants -> 0..SinceCap] /\ SinceCap \in Nat
    BY TtlAssumption, CorsBoundsAssumption DEF Inv, TypeOK, SinceCap
<1>3. ASSUME NEW m \in Merchants, cache[m] # Miss, cache[m].origins # table[m]
      PROVE  since[m] < SinceCap
    <2>1. m \in Keys /\ m # All
        BY KeysAssumption DEF Keys
    <2>2. since[m] <= EntryAge(m)
        BY <1>3, <2>1 DEF Inv, EntryInv, Recent
    <2> QED
        BY <1>1, <1>2, <1>3, <2>1, <2>2
<1>4. ASSUME cache[All] # Miss PROVE WithinLast(SinceCap, cache[All].origins)
    <2> SUFFICES ASSUME cache[All].origins # UnionOf(table)
                 PROVE  \E m \in Merchants : since[m] < SinceCap
        BY DEF WithinLast
    <2>1. PICK m \in Merchants : since[m] <= EntryAge(All)
        BY <1>4 DEF Inv, EntryInv, RecentAll, Keys
    <2>2. EntryAge(All) \in Int /\ EntryAge(All) < SinceCap
        BY <1>1, <1>4 DEF Keys
    <2> QED
        BY <1>2, <2>1, <2>2
<1> QED
    BY <1>3, <1>4 DEF CacheIsRecent

LEMMA InitInv == Init => Inv
<1> SUFFICES ASSUME Init PROVE Inv
    OBVIOUS
<1> USE DEF Init
<1>1. SinceCap \in Nat /\ 0 \in 0..MaxDelay
    BY TtlAssumption, CorsBoundsAssumption DEF SinceCap
<1>2. IdleSet \in [pc : {"idle", "delete", "select", "write"}, merchant : Keys,
                   origins : SUBSET Origins, age : 0..MaxDelay]
    BY <1>1 DEF IdleSet, Keys
<1>3. IdleRefresh \in [pc : {"idle", "write"}, todo : SUBSET Keys, table : Tables, age : 0..MaxDelay]
    BY <1>1 DEF IdleRefresh, Tables
<1>4. IdleRead \in [pc : {"idle", "select", "set", "answered", "refused"},
                    origins : SUBSET Origins, age : 0..MaxDelay]
    BY <1>1 DEF IdleRead
<1>5. TypeOK
    BY <1>1, <1>2, <1>3, <1>4, CorsBoundsAssumption DEF TypeOK, Tables
<1>6. \A c \in Setters : SetInv(c)
    BY DEF SetInv, IdleSet
<1>7. \A f \in Refreshers : RefreshInv(f)
    BY DEF RefreshInv, IdleRefresh
<1>8. \A r \in Readers : ReadInv(r)
    BY DEF ReadInv, IdleRead
<1>9. \A k \in Keys : EntryInv(k)
    BY DEF EntryInv
<1> QED
    BY <1>5, <1>6, <1>7, <1>8, <1>9 DEF Inv

-----------------------------------------------------------------------------
(* What is recent stays so while the table does not change. *)
LEMMA RecentKept ==
    ASSUME UNCHANGED <<table, since>>
    PROVE  /\ \A m, origins, n : Recent(m, origins, n)' <=> Recent(m, origins, n)
           /\ \A origins, n : RecentAll(origins, n)' <=> RecentAll(origins, n)
BY DEF Recent, RecentAll, UnionOf

(* A snapshot of the table is a snapshot of the union of its origins. *)
LEMMA UnionRecent ==
    ASSUME NEW t, NEW n, \A m \in Merchants : Recent(m, t[m], n)
    PROVE  RecentAll(UnionOf(t), n)
<1>1. CASE \A m \in Merchants : t[m] = table[m]
    <2>1. {t[m] : m \in Merchants} = {table[m] : m \in Merchants}
        BY <1>1
    <2> QED
        BY <2>1 DEF UnionOf, RecentAll
<1>2. CASE \E m \in Merchants : t[m] # table[m]
    BY <1>2 DEF Recent, RecentAll
<1> QED
    BY <1>1, <1>2

(* The entries after one has been written. *)
LEMMA PutStep ==
    ASSUME Inv, NEW k \in Keys, NEW origins \in SUBSET Origins, Put(k, origins),
           UNCHANGED <<table, since>>,
           IF k = All THEN RecentAll(origins, MaxDelay) ELSE Recent(k, origins, MaxDelay)
    PROVE  /\ cache' \in [Keys -> Entries \cup {Miss}]
           /\ \A l \in Keys : EntryInv(l)'
<1> DEFINE entry == [origins |-> origins, left |-> Ttl]
<1>1. entry \in Entries
    BY TtlAssumption DEF Entries
<1>2. cache' = [cache EXCEPT ![k] = entry]
    BY DEF Put
<1>3. cache' \in [Keys -> Entries \cup {Miss}]
    BY <1>1, <1>2 DEF Inv, TypeOK
<1>4. ASSUME NEW l \in Keys PROVE EntryInv(l)'
    <2>1. CASE l = k
        <3>1. cache'[l].origins = origins /\ cache'[l].left = Ttl
            BY <1>2, <2>1 DEF Inv, TypeOK
        <3>2. EntryAge(l)' = MaxDelay
            BY <3>1, TtlAssumption, CorsBoundsAssumption DEF EntryAge
        <3> QED
            BY <2>1, <3>1, <3>2, RecentKept DEF EntryInv
    <2>2. CASE l # k
        <3>1. cache'[l] = cache[l] /\ EntryAge(l)' = EntryAge(l)
            BY <1>2, <2>2 DEF Inv, TypeOK, EntryAge
        <3> QED
            BY <3>1, RecentKept DEF EntryInv, Inv
    <2> QED
        BY <2>1, <2>2
<1> QED
    BY <1>3, <1>4

(* Entries that are left alone. *)
LEMMA EntriesStay ==
    ASSUME Inv, UNCHANGED <<table, since, cache>>
    PROVE  \A k \in Keys : EntryInv(k)'
BY RecentKept DEF Inv, EntryInv, EntryAge

(* Handlers that are left alone. *)
LEMMA SetStays ==
    ASSUME Inv, UNCHANGED <<table, since>>, NEW c \in Setters, set'[c] = set[c]
    PROVE  SetInv(c)'
BY RecentKept DEF Inv, SetInv

LEMMA RefreshStays ==
    ASSUME Inv, UNCHANGED <<table, since>>, NEW f \in Refreshers, refresh'[f] = refresh[f]
    PROVE  RefreshInv(f)'
BY RecentKept DEF Inv, RefreshInv

LEMMA ReadStays ==
    ASSUME Inv, UNCHANGED <<table, since>>, NEW r \in Readers, read'[r] = read[r]
    PROVE  ReadInv(r)'
BY RecentKept DEF Inv, ReadInv

-----------------------------------------------------------------------------
(* A change: whatever differs from the table now has just been recent. *)
LEMMA UpdateStep ==
    ASSUME Inv, NEW c \in Setters, NEW m \in Merchants, NEW origins \in SUBSET Origins,
           UpdateOrigins(c, m, origins)
    PROVE  Inv'
<1>1. /\ table' = [table EXCEPT ![m] = origins]
      /\ since' = [since EXCEPT ![m] = IF origins = table[m] THEN @ ELSE 0]
      /\ set[c].pc = "idle" /\ set' = [set EXCEPT ![c].pc = "delete", ![c].merchant = m]
      /\ UNCHANGED <<cache, refresh, read, faults>>
    BY DEF UpdateOrigins
<1>2. TypeOK'
    <2>1. 0 \in 0..SinceCap
        BY TtlAssumption, CorsBoundsAssumption DEF SinceCap
    <2>2. since' \in [Merchants -> 0..SinceCap] /\ table' \in Tables
        BY <1>1, <2>1 DEF Inv, TypeOK, Tables
    <2>3. set' \in [Setters -> [pc : {"idle", "delete", "select", "write"}, merchant : Keys,
                                origins : SUBSET Origins, age : 0..MaxDelay]]
        <3>1. [set[c] EXCEPT !.pc = "delete", !.merchant = m] \in
                  [pc : {"idle", "delete", "select", "write"}, merchant : Keys,
                   origins : SUBSET Origins, age : 0..MaxDelay]
            <4>1. set[c] \in [pc : {"idle", "delete", "select", "write"}, merchant : Keys,
                               origins : SUBSET Origins, age : 0..MaxDelay]
                BY DEF Inv, TypeOK
            <4>2. m \in Keys
                BY DEF Keys
            <4> QED
                BY <4>1, <4>2
        <3>2. set' = [set EXCEPT ![c] = [set[c] EXCEPT !.pc = "delete", !.merchant = m]]
            BY <1>1 DEF Inv, TypeOK
        <3> QED
            BY <3>1, <3>2 DEF Inv, TypeOK
    <2> QED
        BY <1>1, <2>2, <2>3 DEF Inv, TypeOK
<1>3. ASSUME NEW k \in Merchants, NEW o, NEW n \in Nat, Recent(k, o, n) PROVE o # table'[k] => since'[k] <= n
    <2>1. CASE k = m /\ origins # table[m]
        BY <1>1, <2>1 DEF Inv, TypeOK
    <2>2. CASE ~(k = m /\ origins # table[m])
        BY <1>1, <1>3, <2>2 DEF Inv, TypeOK, Tables, Recent
    <2> QED
        BY <2>1, <2>2
<1>4. ASSUME NEW o, NEW n \in Nat, RecentAll(o, n)
      PROVE  o # UnionOf(table)' => \E k \in Merchants : since'[k] <= n
    <2>1. CASE origins # table[m]
        BY <1>1, <2>1 DEF Inv, TypeOK
    <2>2. CASE origins = table[m]
        <3>1. table' = table /\ since' = since
            BY <1>1, <2>2 DEF Inv, TypeOK, Tables
        <3> QED
            BY <1>4, <3>1 DEF RecentAll, UnionOf
    <2> QED
        BY <2>1, <2>2
<1>5. ASSUME NEW d \in Setters PROVE SetInv(d)'
    <2>1. CASE d = c
        BY <1>1, <2>1 DEF Inv, TypeOK, SetInv
    <2>2. CASE d # c
        <3>1. set'[d] = set[d] /\ set[d].age \in Nat /\ SetInv(d)
            BY <1>1, <2>2, CorsBoundsAssumption DEF Inv, TypeOK
        <3> QED
            BY <3>1, <1>3 DEF SetInv, Recent
    <2> QED
        BY <2>1, <2>2
<1>6. ASSUME NEW f \in Refreshers PROVE RefreshInv(f)'
    <2>1. refresh[f].age \in Nat /\ RefreshInv(f)
        BY CorsBoundsAssumption DEF Inv, TypeOK
    <2> QED
        BY <1>1, <1>3, <2>1 DEF RefreshInv, Recent
<1>7. ASSUME NEW r \in Readers PROVE ReadInv(r)'
    <2>1. read[r].age \in Nat /\ ReadInv(r)
        BY CorsBoundsAssumption DEF Inv, TypeOK
    <2> QED
        BY <1>1, <1>4, <2>1 DEF ReadInv, RecentAll
<1>8. ASSUME NEW k \in Keys PROVE EntryInv(k)'
    <2> SUFFICES ASSUME cache[k] # Miss PROVE EntryInv(k)'
        BY <1>1 DEF EntryInv
    <2>1. EntryAge(k) \in Nat /\ EntryAge(k)' = EntryAge(k) /\ EntryInv(k)
        <3>1. cache[k].left \in 1..Ttl
            BY DEF Inv, TypeOK, Entries
        <3> QED
            BY <1>1, <3>1, TtlAssumption, CorsBoundsAssumption DEF Inv, EntryAge
    <2>2. CASE k = All
        BY <1>1, <1>4, <2>1, <2>2 DEF EntryInv, RecentAll
    <2>3. CASE k # All
        BY <1>1, <1>3, <2>1, <2>3 DEF EntryInv, Recent, Keys
    <2> QED
        BY <2>2, <2>3
<1> QED
    BY <1>2, <1>5, <1>6, <1>7, <1>8 DEF Inv

(* Time passes: the changes, the snapshots and the entries grow older      *)
(* together.                                                               *)
LEMMA TickStep == ASSUME Inv, Tick PROVE Inv'
<1>0. MaxDelay \in Nat /\ Ttl \in Nat \ {0} /\ SinceCap \in Nat
    BY TtlAssumption, CorsBoundsAssumption DEF SinceCap
<1>1. /\ UNCHANGED <<table, faults>>
      /\ since' = [m \in Merchants |-> IF since[m] < SinceCap THEN since[m] + 1 ELSE since[m]]
      /\ cache' = [k \in Keys |-> IF cache[k] = Miss \/ cache[k].left = 1 THEN Miss
                                  ELSE [cache[k] EXCEPT !.left = @ - 1]]
      /\ set'     = [c \in Setters |-> Older(set[c], "write")]
      /\ refresh' = [f \in Refreshers |-> Older(refresh[f], "write")]
      /\ read'    = [r \in Readers |-> Older(read[r], "set")]
    BY DEF Tick
<1>2. since' \in [Merchants -> 0..SinceCap] /\ \A m \in Merchants : since'[m] <= since[m] + 1
    BY <1>0, <1>1 DEF Inv, TypeOK
<1>3. ASSUME NEW k \in Keys, cache'[k] # Miss
      PROVE  /\ cache[k] # Miss /\ cache[k].left \in 2..Ttl
             /\ cache'[k].origins = cache[k].origins /\ cache'[k].left = cache[k].left - 1
             /\ cache'[k] \in Entries
    <2>1. /\ cache[k] # Miss /\ cache[k].left # 1
          /\ cache'[k] = [cache[k] EXCEPT !.left = @ - 1]
        BY <1>1, <1>3
    <2>2. cache[k] \in Entries
        BY <2>1 DEF Inv, TypeOK
    <2> QED
        BY <1>0, <2>1, <2>2 DEF Entries
<1>4. cache' \in [Keys -> Entries \cup {Miss}]
    BY <1>1, <1>3
<1>5. ASSUME NEW c \in Setters
      PROVE  /\ set'[c] \in [pc : {"idle", "delete", "select", "write"}, merchant : Keys,
                             origins : SUBSET Origins, age : 0..MaxDelay]
             /\ set'[c].pc = set[c].pc /\ set'[c].merchant = set[c].merchant
             /\ set'[c].origins = set[c].origins
             /\ set[c].pc = "write" => set'[c].age = set[c].age + 1
    <2>1. CASE set[c].pc = "write"
        <3>1. set[c].age < MaxDelay /\ set'[c] = [set[c] EXCEPT !.age = @ + 1]
            BY <1>1, <2>1 DEF Tick, Older
        <3> QED
            BY <1>0, <2>1, <3>1 DEF Inv, TypeOK
    <2>2. CASE set[c].pc # "write"
        <3>1. set'[c] = set[c]
            BY <1>1, <2>2 DEF Older
        <3> QED
            BY <2>2, <3>1 DEF Inv, TypeOK
    <2> QED
        BY <2>1, <2>2
<1>6. ASSUME NEW f \in Refreshers
      PROVE  /\ refresh'[f] \in [pc : {"idle", "write"}, todo : SUBSET Keys, table : Tables,
                                 age : 0..MaxDelay]
             /\ refresh'[f].pc = refresh[f].pc /\ refresh'[f].table = refresh[f].table
             /\ refresh[f].pc = "write" => refresh'[f].age = refresh[f].age + 1
    <2>1. CASE refresh[f].pc = "write"
        <3>1. refresh[f].age < MaxDelay /\ refresh'[f] = [refresh[f] EXCEPT !.age = @ + 1]
            BY <1>1, <2>1 DEF Tick, Older
        <3> QED
            BY <1>0, <2>1, <3>1 DEF Inv, TypeOK
    <2>2. CASE refresh[f].pc # "write"
        <3>1. refresh'[f] = refresh[f]
            BY <1>1, <2>2 DEF Older
        <3> QED
            BY <2>2, <3>1 DEF Inv, TypeOK
    <2> QED
        BY <2>1, <2>2
<1>7. ASSUME NEW r \in Readers
      PROVE  /\ read'[r] \in [pc : {"idle", "select", "set", "answered", "refused"},
                              origins : SUBSET Origins, age : 0..MaxDelay]
             /\ read'[r].pc = read[r].pc /\ read'[r].origins = read[r].origins
             /\ read[r].pc = "set" => read'[r].age = read[r].age + 1
    <2>1. CASE read[r].pc = "set"
        <3>1. read[r].age < MaxDelay /\ read'[r] = [read[r] EXCEPT !.age = @ + 1]
            BY <1>1, <2>1 DEF Tick, Older
        <3> QED
            BY <1>0, <2>1, <3>1 DEF Inv, TypeOK
    <2>2. CASE read[r].pc # "set"
        <3>1. read'[r] = read[r]
            BY <1>1, <2>2 DEF Older
        <3> QED
            BY <2>2, <3>1 DEF Inv, TypeOK
    <2> QED
        BY <2>1, <2>2
<1>8. TypeOK'
    BY <1>1, <1>2, <1>4, <1>5, <1>6, <1>7 DEF Inv, TypeOK
<1>9. ASSUME NEW m \in Merchants, NEW o, NEW n \in Nat, Recent(m, o, n)
      PROVE  o # table'[m] => since'[m] <= n + 1
    BY <1>1, <1>2, <1>9 DEF Recent, Inv, TypeOK
<1>10. ASSUME NEW o, NEW n \in Nat, RecentAll(o, n)
       PROVE  o # UnionOf(table)' => \E m \in Merchants : since'[m] <= n + 1
    <2> SUFFICES ASSUME o # UnionOf(table)' PROVE \E m \in Merchants : since'[m] <= n + 1
        OBVIOUS
    <2>1. PICK m \in Merchants : since[m] <= n
        BY <1>1, <1>10 DEF RecentAll, UnionOf
    <2> QED
        BY <1>2, <2>1 DEF Inv, TypeOK
<1>11. ASSUME NEW c \in Setters PROVE SetInv(c)'
    <2>1. set[c].age \in Nat /\ SetInv(c)
        BY <1>0 DEF Inv, TypeOK
    <2>2. set[c].pc # "idle" => set[c].merchant \in Merchants
        BY <2>1 DEF SetInv
    <2>3. ASSUME set[c].pc = "write"
          PROVE  set[c].origins # table'[set[c].merchant] => since'[set[c].merchant] <= set[c].age + 1
        BY <1>9, <2>1, <2>2, <2>3 DEF SetInv
    <2> QED
        BY <1>5, <2>2, <2>3 DEF SetInv, Recent
<1>12. ASSUME NEW f \in Refreshers PROVE RefreshInv(f)'
    <2>1. refresh[f].age \in Nat /\ RefreshInv(f)
        BY <1>0 DEF Inv, TypeOK
    <2> QED
        BY <1>6, <1>9, <2>1 DEF RefreshInv, Recent
<1>13. ASSUME NEW r \in Readers PROVE ReadInv(r)'
    <2>1. read[r].age \in Nat /\ ReadInv(r)
        BY <1>0 DEF Inv, TypeOK
    <2>2. ASSUME read[r].pc = "set"
          PROVE  read[r].origins # UnionOf(table)' =>
                     \E m \in Merchants : since'[m] <= read[r].age + 1
        BY <1>10, <2>1, <2>2 DEF ReadInv
    <2> QED
        BY <1>7, <2>2 DEF ReadInv, RecentAll
<1>14. ASSUME NEW k \in Keys PROVE EntryInv(k)'
    <2> SUFFICES ASSUME cache'[k] # Miss PROVE EntryInv(k)'
        BY DEF EntryInv
    <2>1. EntryAge(k) \in Nat /\ EntryAge(k)' = EntryAge(k) + 1 /\ EntryInv(k) /\ cache[k] # Miss
          /\ cache'[k].origins = cache[k].origins
        BY <1>0, <1>3 DEF Inv, EntryAge
    <2>2. CASE k = All
        BY <1>10, <2>1, <2>2 DEF EntryInv, RecentAll
    <2>3. CASE k # All
        BY <1>9, <2>1, <2>3 DEF EntryInv, Recent, Keys
    <2> QED
        BY <2>2, <2>3
<1> QED
    BY <1>8, <1>11, <1>12, <1>13, <1>14 DEF Inv

-----------------------------------------------------------------------------
(* A step of one handler that is over or about to start, or holds a        *)
(* snapshot that is recent.                                                *)
LEMMA SetStep ==
    ASSUME Inv, NEW c \in Setters, UNCHANGED <<table, since, refresh, read>>,
           NEW new \in [pc : {"idle", "delete", "select", "write"}, merchant : Keys,
                        origins : SUBSET Origins, age : 0..MaxDelay],
           set' = [set EXCEPT ![c] = new],
           new.pc # "idle" => new.merchant \in Merchants,
           new.pc = "write" => Recent(new.merchant, new.origins, new.age),
           faults' \in 0..MaxFaults, cache' \in [Keys -> Entries \cup {Miss}],
           \A k \in Keys : EntryInv(k)'
    PROVE  Inv'
<1>1. TypeOK'
    BY DEF Inv, TypeOK
<1>2. ASSUME NEW d \in Setters PROVE SetInv(d)'
    <2>1. CASE d = c
        <3>1. set'[d] = new
            BY <2>1 DEF Inv, TypeOK
        <3> QED
            BY <3>1, RecentKept DEF SetInv
    <2>2. CASE d # c
        BY <2>2, SetStays DEF Inv, TypeOK
    <2> QED
        BY <2>1, <2>2
<1> QED
    BY <1>1, <1>2, RefreshStays, ReadStays DEF Inv

LEMMA RefreshStep ==
    ASSUME Inv, NEW f \in Refreshers, UNCHANGED <<table, since, set, read>>,
           NEW new \in [pc : {"idle", "write"}, todo : SUBSET Keys, table : Tables, age : 0..MaxDelay],
           refresh' = [refresh EXCEPT ![f] = new],
           new.pc = "write" => \A m \in Merchants : Recent(m, new.table[m], new.age),
           faults' \in 0..MaxFaults, cache' \in [Keys -> Entries \cup {Miss}],
           \A k \in Keys : EntryInv(k)'
    PROVE  Inv'
<1>1. TypeOK'
    BY DEF Inv, TypeOK
<1>2. ASSUME NEW g \in Refreshers PROVE RefreshInv(g)'
    <2>1. CASE g = f
        <3>1. refresh'[g] = new
            BY <2>1 DEF Inv, TypeOK
        <3> QED
            BY <3>1, RecentKept DEF RefreshInv
    <2>2. CASE g # f
        BY <2>2, RefreshStays DEF Inv, TypeOK
    <2> QED
        BY <2>1, <2>2
<1> QED
    BY <1>1, <1>2, SetStays, ReadStays DEF Inv

LEMMA ReadStep ==
    ASSUME Inv, NEW r \in Readers, UNCHANGED <<table, since, set, refresh>>,
           NEW new \in [pc : {"idle", "select", "set", "answered", "refused"},
                        origins : SUBSET Origins, age : 0..MaxDelay],
           read' = [read EXCEPT ![r] = new],
           new.pc = "set" => RecentAll(new.origins, new.age),
           faults' \in 0..MaxFaults, cache' \in [Keys -> Entries \cup {Miss}],
           \A k \in Keys : EntryInv(k)'
    PROVE  Inv'
<1>1. TypeOK'
    BY DEF Inv, TypeOK
<1>2. ASSUME NEW q \in Readers PROVE ReadInv(q)'
    <2>1. CASE q = r
        <3>1. read'[q] = new
            BY <2>1 DEF Inv, TypeOK
        <3> QED
            BY <3>1, RecentKept DEF ReadInv
    <2>2. CASE q # r
        BY <2>2, ReadStays DEF Inv, TypeOK
    <2> QED
        BY <2>1, <2>2
<1> QED
    BY <1>1, <1>2, SetStays, RefreshStays DEF Inv

(* A bound on a snapshot's age is one on any greater age. *)
LEMMA RecentEnough ==
    ASSUME Inv, NEW n \in 0..MaxDelay
    PROVE  /\ \A m \in Merchants : \A o : Recent(m, o, n) => Recent(m, o, MaxDelay)
           /\ \A o : RecentAll(o, n) => RecentAll(o, MaxDelay)
BY CorsBoundsAssumption, TtlAssumption DEF Inv, TypeOK, Recent, RecentAll, SinceCap

(* The idle handlers, the counter of faults and the keys have their types. *)
LEMMA Types ==
    ASSUME Inv
    PROVE  /\ IdleSet \in [pc : {"idle", "delete", "select", "write"}, merchant : Keys,
                           origins : SUBSET Origins, age : 0..MaxDelay]
           /\ IdleRefresh \in [pc : {"idle", "write"}, todo : SUBSET Keys, table : Tables,
                               age : 0..MaxDelay]
           /\ IdleRead \in [pc : {"idle", "select", "set", "answered", "refused"},
                            origins : SUBSET Origins, age : 0..MaxDelay]
           /\ Fault => faults' \in 0..MaxFaults
           /\ faults \in 0..MaxFaults
           /\ \A m \in Merchants : m \in Keys /\ m # All /\ table[m] \in SUBSET Origins
           /\ All \in Keys
           /\ 0 \in 0..MaxDelay
<1>1. 0 \in 0..MaxDelay
    BY CorsBoundsAssumption
<1>2. All \in Keys /\ faults \in 0..MaxFaults
    BY DEF Keys, Inv, TypeOK
<1>3. \A m \in Merchants : m \in Keys /\ m # All /\ table[m] \in SUBSET Origins
    BY KeysAssumption DEF Keys, Inv, TypeOK, Tables
<1>4. Fault => faults' \in 0..MaxFaults
    BY <1>2, CorsBoundsAssumption DEF Fault
<1>5. [m \in Merchants |-> {}] \in Tables
    BY DEF Tables
<1> QED
    BY <1>1, <1>2, <1>3, <1>4, <1>5 DEF IdleSet, IdleRefresh, IdleRead

(* setCorsOrigins after its UPDATE. *)
LEMMA SetterStep ==
    ASSUME Inv, NEW c \in Setters,
           DeleteEntry(c) \/ SelectOrigins(c) \/ WriteEntry(c) \/ FailSet(c)
    PROVE  Inv'
<1> DEFINE s == set[c]
<1>1. /\ s \in [pc : {"idle", "delete", "select", "write"}, merchant : Keys,
                origins : SUBSET Origins, age : 0..MaxDelay]
      /\ SetInv(c) /\ UNCHANGED <<table, since, refresh, read>> /\ s.pc # "idle"
      /\ cache \in [Keys -> Entries \cup {Miss}]
    BY DEF Inv, TypeOK, DeleteEntry, SelectOrigins, WriteEntry, FailSet
<1>2. s.merchant \in Merchants
    BY <1>1 DEF SetInv
<1>3. CASE DeleteEntry(c)
    <2> DEFINE new == [s EXCEPT !.pc = "select"]
    <2>1. /\ cache' = [cache EXCEPT ![s.merchant] = Miss] /\ set' = [set EXCEPT ![c] = new]
          /\ faults' = faults
        BY <1>3 DEF DeleteEntry
    <2>2. cache' \in [Keys -> Entries \cup {Miss}]
        BY <1>1, <2>1
    <2>3. ASSUME NEW k \in Keys PROVE EntryInv(k)'
        <3>1. cache'[k] = Miss \/ cache'[k] = cache[k]
            BY <1>1, <2>1
        <3>2. cache'[k] = cache[k] => EntryAge(k)' = EntryAge(k)
            BY DEF EntryAge
        <3> QED
            BY <1>1, <3>1, <3>2, RecentKept DEF EntryInv, Inv
    <2>4. new \in [pc : {"idle", "delete", "select", "write"}, merchant : Keys,
                   origins : SUBSET Origins, age : 0..MaxDelay] /\ new.merchant \in Merchants
        BY <1>1, <1>2
    <2> QED
        BY <1>1, <2>1, <2>2, <2>3, <2>4, SetStep, Types
<1>4. CASE SelectOrigins(c)
    <2> DEFINE new == [s EXCEPT !.pc = "write", !.origins = table[s.merchant]]
    <2>1. set' = [set EXCEPT ![c] = new] /\ faults' = faults /\ cache' = cache
        BY <1>4 DEF SelectOrigins
    <2>2. table[s.merchant] \in SUBSET Origins
        BY <1>2, Types
    <2>3. /\ new \in [pc : {"idle", "delete", "select", "write"}, merchant : Keys,
                      origins : SUBSET Origins, age : 0..MaxDelay]
          /\ new.merchant \in Merchants /\ new.origins = table[new.merchant]
        BY <1>1, <1>2, <2>2
    <2> QED
        BY <1>1, <2>1, <2>3, SetStep, Types, EntriesStay DEF Recent
<1>5. CASE WriteEntry(c)
    <2>1. /\ s.pc = "write" /\ Put(s.merchant, s.origins) /\ set' = [set EXCEPT ![c] = IdleSet]
          /\ faults' = faults
        BY <1>5 DEF WriteEntry
    <2>2. Recent(s.merchant, s.origins, MaxDelay)
        BY <1>1, <1>2, <2>1, RecentEnough DEF SetInv
    <2>3. cache' \in [Keys -> Entries \cup {Miss}] /\ \A k \in Keys : EntryInv(k)'
        BY <1>1, <1>2, <2>1, <2>2, PutStep, Types
    <2> QED
        BY <1>1, <2>1, <2>3, SetStep, Types DEF IdleSet
<1>6. CASE FailSet(c)
    <2>1. Fault /\ set' = [set EXCEPT ![c] = IdleSet] /\ cache' = cache
        BY <1>6 DEF FailSet
    <2> QED
        BY <1>1, <2>1, SetStep, Types, EntriesStay DEF IdleSet
<1> QED
    BY <1>3, <1>4, <1>5, <1>6

(* refreshCache *)
LEMMA RefresherStep ==
    ASSUME Inv, NEW f \in Refreshers,
           SelectTable(f) \/ FailRefresh(f) \/ (\E k \in Keys : WriteNext(f, k))
    PROVE  Inv'
<1> DEFINE s == refresh[f]
<1>1. /\ s \in [pc : {"idle", "write"}, todo : SUBSET Keys, table : Tables, age : 0..MaxDelay]
      /\ RefreshInv(f) /\ UNCHANGED <<table, since, set, read>> /\ table \in Tables
      /\ cache \in [Keys -> Entries \cup {Miss}]
    BY DEF Inv, TypeOK, SelectTable, FailRefresh, WriteNext
<1>2. CASE SelectTable(f)
    <2> DEFINE new == [pc |-> "write", todo |-> Keys, table |-> table, age |-> 0]
    <2>1. refresh' = [refresh EXCEPT ![f] = new] /\ cache' = cache /\ faults' = faults
        BY <1>2 DEF SelectTable
    <2>2. /\ new \in [pc : {"idle", "write"}, todo : SUBSET Keys, table : Tables, age : 0..MaxDelay]
          /\ new.table = table
        BY <1>1, Types
    <2> QED
        BY <1>1, <2>1, <2>2, RefreshStep, Types, EntriesStay DEF Recent
<1>3. CASE FailRefresh(f)
    <2>1. Fault /\ refresh' = [refresh EXCEPT ![f] = IdleRefresh] /\ cache' = cache
        BY <1>3 DEF FailRefresh
    <2> QED
        BY <1>1, <2>1, RefreshStep, Types, EntriesStay DEF IdleRefresh
<1>4. ASSUME NEW k \in Keys, WriteNext(f, k) PROVE Inv'
    <2> DEFINE rest == s.todo \ {k}
               new == IF rest = {} THEN IdleRefresh ELSE [s EXCEPT !.todo = rest]
               origins == IF k = All THEN UnionOf(s.table) ELSE s.table[k]
    <2>1. s.pc = "write" /\ refresh' = [refresh EXCEPT ![f] = new] /\ faults' = faults
          /\ Put(k, origins)
        BY <1>4 DEF WriteNext
    <2>2. \A m \in Merchants : Recent(m, s.table[m], MaxDelay)
        BY <1>1, <2>1, RecentEnough DEF RefreshInv
    <2>3. origins \in SUBSET Origins
        BY <1>1 DEF UnionOf, Tables, Keys
    <2>4. IF k = All THEN RecentAll(origins, MaxDelay) ELSE Recent(k, origins, MaxDelay)
        <3>1. CASE k = All
            BY <2>2, <3>1, UnionRecent
        <3>2. CASE k # All
            BY <2>2, <3>2 DEF Keys
        <3> QED
            BY <3>1, <3>2
    <2>5. cache' \in [Keys -> Entries \cup {Miss}] /\ \A l \in Keys : EntryInv(l)'
        BY <1>1, <2>1, <2>3, <2>4, PutStep
    <2>6. /\ new \in [pc : {"idle", "write"}, todo : SUBSET Keys, table : Tables, age : 0..MaxDelay]
          /\ new.pc = "write" => \A m \in Merchants : Recent(m, new.table[m], new.age)
        <3>1. CASE rest = {}
            BY <3>1, Types DEF IdleRefresh
        <3>2. CASE rest # {}
            BY <1>1, <2>1, <3>2 DEF RefreshInv
        <3> QED
            BY <3>1, <3>2
    <2> QED
        BY <1>1, <2>1, <2>5, <2>6, RefreshStep, Types
<1> QED
    BY <1>2, <1>3, <1>4

(* The middleware. *)
LEMMA ReaderStep ==
    ASSUME Inv, NEW r \in Readers,
           GetAll(r) \/ FailGet(r) \/ SelectAll(r) \/ SetAll(r) \/ FailFill(r) \/ Leave(r)
    PROVE  Inv'
<1> DEFINE s == read[r]
           Reads == [pc : {"idle", "select", "set", "answered", "refused"},
                     origins : SUBSET Origins, age : 0..MaxDelay]
<1>1. /\ s \in Reads /\ ReadInv(r) /\ UNCHANGED <<table, since, set, refresh>>
      /\ cache \in [Keys -> Entries \cup {Miss}] /\ table \in Tables
    BY DEF Inv, TypeOK, GetAll, FailGet, SelectAll, SetAll, FailFill, Leave
<1>2. ASSUME cache' = cache, faults' \in 0..MaxFaults, NEW new \in Reads,
             read' = [read EXCEPT ![r] = new], new.pc = "set" => RecentAll(new.origins, new.age)
      PROVE  Inv'
    BY <1>1, <1>2, ReadStep, EntriesStay
<1>3. ASSUME NEW origins \in SUBSET Origins
      PROVE  [pc |-> "answered", origins |-> origins, age |-> 0] \in Reads
    BY Types
<1>4. [s EXCEPT !.pc = "select"] \in Reads
    BY <1>1
<1>5. CASE GetAll(r)
    <2>1. cache' = cache /\ faults' = faults
        BY <1>5 DEF GetAll
    <2>2. CASE cache[All] # Miss
        <3> DEFINE new == [pc |-> "answered", origins |-> cache[All].origins, age |-> 0]
        <3>1. read' = [read EXCEPT ![r] = new]
            BY <1>5, <2>2 DEF GetAll, Answer
        <3>2. cache[All].origins \in SUBSET Origins
            BY <1>1, <2>2, Types DEF Entries
        <3>3. new \in Reads /\ new.pc # "set"
            BY <1>3, <3>2
        <3> QED
            BY <1>2, <2>1, <3>1, <3>3, Types
    <2>3. CASE cache[All] = Miss
        <3> DEFINE new == [s EXCEPT !.pc = "select"]
        <3>1. read' = [read EXCEPT ![r] = new] /\ new.pc # "set"
            BY <1>1, <1>5, <2>3 DEF GetAll
        <3> QED
            BY <1>2, <1>4, <2>1, <3>1, Types
    <2> QED
        BY <2>2, <2>3
<1>6. CASE FailGet(r)
    <2> DEFINE new == [s EXCEPT !.pc = "select"]
    <2>1. read' = [read EXCEPT ![r] = new] /\ new.pc # "set" /\ Fault /\ cache' = cache
        BY <1>1, <1>6 DEF FailGet
    <2> QED
        BY <1>2, <1>4, <2>1, Types
<1>7. CASE SelectAll(r)
    <2> DEFINE new == [pc |-> "set", origins |-> UnionOf(table), age |-> 0]
    <2>1. read' = [read EXCEPT ![r] = new] /\ cache' = cache /\ faults' = faults
        BY <1>7 DEF SelectAll
    <2>2. UnionOf(table) \in SUBSET Origins
        BY <1>1 DEF UnionOf, Tables
    <2>3. new \in Reads
        BY <2>2, Types
    <2>4. RecentAll(new.origins, new.age)
        BY DEF RecentAll
    <2> QED
        BY <1>2, <2>1, <2>3, <2>4, Types
<1>8. CASE SetAll(r)
    <2> DEFINE new == [pc |-> "answered", origins |-> s.origins, age |-> 0]
    <2>1. /\ s.pc = "set" /\ Put(All, s.origins) /\ faults' = faults
          /\ read' = [read EXCEPT ![r] = new]
        BY <1>8 DEF SetAll, Answer
    <2>2. RecentAll(s.origins, MaxDelay)
        BY <1>1, <2>1, RecentEnough DEF ReadInv
    <2>3. cache' \in [Keys -> Entries \cup {Miss}] /\ \A k \in Keys : EntryInv(k)'
        BY <1>1, <2>1, <2>2, PutStep, Types
    <2>4. new \in Reads /\ new.pc # "set"
        BY <1>1, <1>3
    <2> QED
        BY <1>1, <2>1, <2>3, <2>4, ReadStep, Types
<1>9. CASE FailFill(r)
    <2> DEFINE new == [pc |-> "refused", origins |-> {}, age |-> 0]
    <2>1. read' = [read EXCEPT ![r] = new] /\ Fault /\ cache' = cache
        BY <1>9 DEF FailFill
    <2>2. new \in Reads /\ new.pc # "set"
        BY Types
    <2> QED
        BY <1>2, <2>1, <2>2, Types
<1>10. CASE Leave(r)
    <2>1. read' = [read EXCEPT ![r] = IdleRead] /\ cache' = cache /\ faults' = faults
        BY <1>10 DEF Leave
    <2>2. IdleRead \in Reads /\ IdleRead.pc # "set"
        BY Types DEF IdleRead
    <2> QED
        BY <1>2, <2>1, <2>2, Types
<1> QED
    BY <1>5, <1>6, <1>7, <1>8, <1>9, <1>10

LEMMA NextInv == Inv /\ [Next]_vars => Inv'
<1> SUFFICES ASSUME Inv, [Next]_vars PROVE Inv'
    OBVIOUS
<1>1. CASE Next
    BY <1>1, TickStep, UpdateStep, SetterStep, RefresherStep, ReaderStep DEF Next
<1>2. CASE UNCHANGED vars
    <2>1. UNCHANGED <<table, since, cache, set, refresh, read, faults>>
        BY <1>2 DEF vars, handlers
    <2> QED
        BY <2>1, SetStays, RefreshStays, ReadStays, EntriesStay DEF Inv, TypeOK
<1> QED
    BY <1>1, <1>2

LEMMA Invariance == Spec => []Inv
BY InitInv, NextInv, PTL DEF Spec

-----------------------------------------------------------------------------
(* Entries never have more than their time to live left. *)
THEOREM Typing == Spec => []TypeOK
BY InvImplies, Invariance, PTL

(* No entry is older than its time to live and the slowest handler. *)
THEOREM EntriesAreRecent == Spec => []CacheIsRecent
BY InvImplies, Invariance, PTL

(* Nor is what a request is decided by. *)
THEOREM RecentDecisions == Spec => DecisionsAreRecent
<1>1. ASSUME Inv, Next, NEW r \in Readers, read[r].pc # "answered", read'[r].pc = "answered"
      PROVE  WithinLast(SinceCap, read'[r].origins)
    <2>1. CASE GetAll(r)
        <3>1. cache[All] # Miss /\ read'[r].origins = cache[All].origins
            BY <1>1, <2>1 DEF GetAll, Answer, Inv, TypeOK
        <3> QED
            BY <1>1, <3>1, InvImplies DEF CacheIsRecent
    <2>2. CASE SetAll(r)
        <3>1. read'[r].origins = read[r].origins /\ read[r].pc = "set"
            BY <2>2 DEF SetAll, Answer, Inv, TypeOK
        <3>2. RecentAll(read[r].origins, MaxDelay)
            BY <1>1, <3>1, RecentEnough DEF Inv, TypeOK, ReadInv
        <3>3. \A m \in Merchants : since[m] <= MaxDelay => since[m] < SinceCap
            BY <1>1, TtlAssumption, CorsBoundsAssumption DEF Inv, TypeOK, SinceCap
        <3> QED
            BY <3>1, <3>2, <3>3 DEF RecentAll, WithinLast
    <2>3. CASE ~GetAll(r) /\ ~SetAll(r)
        <3>1. CASE Tick
            BY <1>1, <3>1 DEF Tick, Older, Inv, TypeOK
        <3>2. ASSUME NEW q \in Readers,
                     GetAll(q) \/ FailGet(q) \/ SelectAll(q) \/ SetAll(q) \/ FailFill(q) \/ Leave(q)
              PROVE  FALSE
            <4>1. CASE q # r
                BY <1>1, <3>2, <4>1
                DEF GetAll, FailGet, SelectAll, SetAll, FailFill, Leave, Answer, Inv, TypeOK
            <4>2. CASE q = r
                BY <1>1, <2>3, <3>2, <4>2 DEF FailGet, SelectAll, FailFill, Leave, IdleRead, Inv, TypeOK
            <4> QED
                BY <4>1, <4>2
        <3>3. CASE read' = read
            BY <1>1, <3>3
        <3>4. Tick \/ read' = read \/ \E q \in Readers :
                  GetAll(q) \/ FailGet(q) \/ SelectAll(q) \/ SetAll(q) \/ FailFill(q) \/ Leave(q)
            BY <1>1 DEF Next, UpdateOrigins, DeleteEntry, SelectOrigins, WriteEntry, FailSet,
                        SelectTable, FailRefresh, WriteNext
        <3> QED
            BY <3>1, <3>2, <3>3, <3>4
    <2> QED
        BY <2>1, <2>2, <2>3
<1>2. Inv /\ [Next]_vars => [\A r \in Readers :
          read[r].pc # "answered" /\ read'[r].pc = "answered"
              => WithinLast(SinceCap, read'[r].origins)]_vars
    BY <1>1
<1> QED
    BY <1>2, Invariance, PTL DEF Spec, DecisionsAreRecent

=============================================================================
