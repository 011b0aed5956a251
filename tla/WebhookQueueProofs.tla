-------------------------- MODULE WebhookQueueProofs --------------------------
(* Safety of WebhookQueue for any number of deliveries, sessions, attempts *)
(* and faults: for any number of instances what a single process() call    *)
(* answers for, and for the one worker the code is written for ("a single  *)
(* in-process worker") the order of the deliveries and what the sweep and  *)
(* the cleanup leave behind.                                               *)
EXTENDS WebhookQueue, FiniteSetTheorems, Integers, TLAPS

-----------------------------------------------------------------------------
(* What holds with any number of instances. *)

Job        == Ids \X (0..(MaxAttempts - 1))
EnqType    == [pc : {"new", "row", "write", "join", "schedule", "mark", "done", "failed"},
               by : Workers \cup {Nothing}, session : Sessions \cup {Nothing},
               seq : Nat, of : Ids \cup {Nothing}, after : SUBSET Ids]
TickType   == [pc : {"down", "idle", "read", "drop", "head", "dispatch"},
               room : 0..MaxConcurrency, due : SUBSET Ids,
               job : Job \cup {Nothing}, picks : SUBSET Job]
ProcType   == [pc : ProcPlaces, attempt : 0..(MaxAttempts - 1),
               verdict : {Nothing} \cup Outcomes]
RecovType  == [pc : {"check", "write", "join", "schedule", "done"},
               todo : SUBSET Job, job : Job \cup {Nothing}]

(* TypeOK, with the attempt numbers the scheduling pass and the sweep hold. *)
PgTypes ==
    /\ rows \in [Ids -> {Nothing} \cup Row]
    /\ dead \in [Ids -> {"no", "listed", "retried"}]
RedisTypes ==
    /\ seqs \in [Sessions -> Nat]
    /\ waiting \subseteq Ids
    /\ jobs \in [Ids -> {NoJob} \cup 0..(MaxAttempts - 1)]
    /\ scheduled \in [Ids -> {"no", "due", "later"}]
CountTypes ==
    /\ acked \subseteq Ids
    /\ tries \in [Ids -> 0..(MaxAttempts + 1)]
    /\ crashes \in 0..MaxFaults /\ throws \in 0..MaxFaults /\ lapsed \in BOOLEAN

Types ==
    /\ PgTypes /\ RedisTypes /\ CountTypes
    /\ enq \in [Ids -> EnqType]
    /\ tick \in [Workers -> TickType]
    /\ proc \in [Workers -> [Ids -> ProcType]]
    /\ recov \in [Workers -> RecovType]

(* A row is the row of its enqueue call, which has then drawn a number. *)
EnqInv(d) ==
    /\ enq[d].pc # "new" => enq[d].session \in Sessions /\ enq[d].seq # 0
    /\ enq[d].pc \in {"new", "row"} => ~Stored(d)
    /\ enq[d].pc \in {"write", "join", "schedule", "mark", "done"} => Stored(d)
    /\ enq[d].pc = "mark" => enq[d].of \in Ids
    /\ Stored(d) => rows[d].session = enq[d].session /\ rows[d].seq = enq[d].seq

(* What is scheduled or dead has a row; a row to be retried has an attempt *)
(* left, and one that says delivered was acknowledged.                     *)
RowInv(d) ==
    /\ dead[d] # "no" \/ scheduled[d] # "no" => Stored(d)
    /\ Unfinished(d) => rows[d].attempts < MaxAttempts
    /\ Stored(d) /\ rows[d].status = "delivered" => d \in acked

TickInv(w) ==
    /\ tick[w].pc \in {"read", "drop", "head"} => tick[w].job # Nothing
    /\ tick[w].job # Nothing => Stored(tick[w].job[1])
    /\ \A d \in tick[w].due : Stored(d)
    /\ IsFiniteSet(tick[w].picks)
    /\ \A job \in tick[w].picks : Stored(job[1])

ProcInv(w, d) ==
    /\ Active(w, d) => Stored(d)
    /\ proc[w][d].pc = "record" =>
          /\ proc[w][d].verdict # Nothing
          /\ proc[w][d].verdict = "failed" => proc[w][d].attempt + 1 < MaxAttempts
          /\ proc[w][d].verdict = "delivered" => d \in acked
    /\ proc[w][d].pc = "rewrite" => proc[w][d].attempt + 1 < MaxAttempts

RecovInv(w) ==
    /\ recov[w].pc \in {"write", "join", "schedule"} => recov[w].job # Nothing
    /\ recov[w].job # Nothing => Stored(recov[w].job[1])
    /\ \A job \in recov[w].todo : Stored(job[1])

Base ==
    /\ Types
    /\ \A d \in Ids : EnqInv(d) /\ RowInv(d)
    /\ \A w \in Workers : IsFiniteSet(Inflight(w)) /\ TickInv(w) /\ RecovInv(w)
    /\ \A w \in Workers, d \in Ids : ProcInv(w, d)

(* Types, and the rows and acknowledgements a base step needs. *)
LEMMA BaseImplies == Base => TypeOK /\ DeliveredIsAcked
BY LimitsAssumption DEF Base, Types, PgTypes, RedisTypes, CountTypes, TypeOK, DeliveredIsAcked,
   Job, Row, EnqType, TickType, ProcType, RecovType, RowInv, Picked

LEMMA EmptyTick ==
    /\ IdleTick \in TickType /\ [IdleTick EXCEPT !.pc = "down"] \in TickType
    /\ IdleTick.pc = "idle" /\ IdleTick.picks = {} /\ IdleTick.due = {}
    /\ IdleTick.job = Nothing
    /\ [IdleTick EXCEPT !.pc = "down"].pc = "down"
    /\ [IdleTick EXCEPT !.pc = "down"].picks = {}
    /\ [IdleTick EXCEPT !.pc = "down"].due = {}
    /\ [IdleTick EXCEPT !.pc = "down"].job = Nothing
<1>1. 0 \in 0..MaxConcurrency
    BY LimitsAssumption
<1>2. IdleTick \in TickType
    BY <1>1 DEF IdleTick, TickType
<1>3. [IdleTick EXCEPT !.pc = "down"] \in TickType
    BY <1>2 DEF TickType
<1> QED
    BY <1>2, <1>3 DEF IdleTick

(* Initially there is nothing. *)
LEMMA InitBase == Init => Base
<1> SUFFICES ASSUME Init PROVE Base
    OBVIOUS
<1> USE NothingAssumption, LimitsAssumption, QueueBoundsAssumption
        DEF Init, NewEnq, IdleTick, IdleProc, NoSweep
<1>1. PgTypes /\ RedisTypes /\ CountTypes
  <2>1. PgTypes
      BY DEF PgTypes
  <2>2. RedisTypes
      BY DEF RedisTypes
  <2>3. CountTypes
    <3>1. lapsed \in BOOLEAN
        OBVIOUS
    <3>2. crashes \in 0..MaxFaults /\ throws \in 0..MaxFaults
        OBVIOUS
    <3>3. tries \in [Ids -> 0..(MaxAttempts + 1)] /\ acked \subseteq Ids
        OBVIOUS
    <3> QED
        BY <3>1, <3>2, <3>3 DEF CountTypes
  <2> QED
      BY <2>1, <2>2, <2>3
<1>2. enq \in [Ids -> EnqType] /\ recov \in [Workers -> RecovType]
    BY DEF EnqType, RecovType
<1>3. tick \in [Workers -> TickType]
  <2>1. [IdleTick EXCEPT !.pc = "down"] \in TickType
      BY EmptyTick
  <2> QED
      BY <2>1
<1>4. proc \in [Workers -> [Ids -> ProcType]]
    BY DEF ProcType, ProcPlaces
<1>5. \A d \in Ids : EnqInv(d) /\ RowInv(d)
    BY DEF EnqInv, RowInv, Stored, Unfinished
<1>6. \A w \in Workers : Inflight(w) = {} /\ TickInv(w) /\ RecovInv(w)
    BY FS_EmptySet DEF Inflight, Active, TickInv, RecovInv
<1>7. \A w \in Workers, d \in Ids : ProcInv(w, d)
    BY DEF ProcInv, Active
<1> QED
    BY <1>1, <1>2, <1>3, <1>4, <1>5, <1>6, <1>7, FS_EmptySet DEF Base, Types

-----------------------------------------------------------------------------
(* The variables as a step changes them. *)

(* The part of Base that a step leaves alone stays. *)
LEMMA BaseFrame ==
    ASSUME Base, Types',
           \A d \in Ids : Stored(d) => Stored(d)',
           acked \subseteq acked',
           \A d \in Ids : (enq'[d] = enq[d] /\ rows'[d] = rows[d]) \/ EnqInv(d)',
           \A d \in Ids : (/\ dead'[d] = dead[d] /\ scheduled'[d] = scheduled[d]
                          /\ rows'[d] = rows[d]) \/ RowInv(d)',
           \A w \in Workers : tick'[w] = tick[w] \/ TickInv(w)',
           \A w \in Workers : proc'[w] = proc[w] \/
              (IsFiniteSet(Inflight(w)') /\
               \A d \in Ids : proc'[w][d] = proc[w][d] \/ ProcInv(w, d)'),
           \A w \in Workers : recov'[w] = recov[w] \/ RecovInv(w)'
    PROVE  Base'
<1>1. ASSUME NEW d \in Ids PROVE EnqInv(d)'
  <2>1. EnqInv(d)
      BY DEF Base
  <2> QED
      BY <2>1 DEF EnqInv, Stored
<1>2. ASSUME NEW d \in Ids PROVE RowInv(d)'
  <2>1. RowInv(d)
      BY DEF Base
  <2> QED
      BY <2>1 DEF RowInv, Stored, Unfinished
<1>3. ASSUME NEW w \in Workers PROVE TickInv(w)' /\ RecovInv(w)'
  <2>1. TickInv(w) /\ RecovInv(w)
      BY DEF Base
  <2>2. tick[w] \in TickType /\ recov[w] \in RecovType
      BY DEF Base, Types
  <2>3. TickInv(w)'
      BY <2>1, <2>2 DEF TickInv, TickType, Job
  <2>4. RecovInv(w)'
      BY <2>1, <2>2 DEF RecovInv, RecovType, Job
  <2> QED
      BY <2>3, <2>4
<1>4. ASSUME NEW w \in Workers
      PROVE  IsFiniteSet(Inflight(w)') /\ \A d \in Ids : ProcInv(w, d)'
  <2>1. IsFiniteSet(Inflight(w))
      BY DEF Base
  <2>2. proc'[w] = proc[w] => Inflight(w)' = Inflight(w)
      BY DEF Inflight, Active
  <2>3. ASSUME NEW d \in Ids PROVE ProcInv(w, d)'
    <3>1. ProcInv(w, d)
        BY DEF Base
    <3> QED
        BY <3>1 DEF ProcInv, Active
  <2> QED
      BY <2>1, <2>2, <2>3
<1> QED
    BY <1>1, <1>2, <1>3, <1>4 DEF Base

EnqPlaces == {"new", "row", "write", "join", "schedule", "mark", "done", "failed"}

(* An enqueue call goes on to another place. *)
LEMMA EnqMoves ==
    ASSUME enq \in [Ids -> EnqType], NEW d \in Ids, NEW pc \in EnqPlaces, EnqTo(d, pc)
    PROVE  /\ enq' \in [Ids -> EnqType]
           /\ enq'[d].pc = pc /\ enq'[d].session = enq[d].session /\ enq'[d].seq = enq[d].seq
           /\ enq'[d].of = enq[d].of /\ enq'[d].after = enq[d].after /\ enq'[d].by = enq[d].by
           /\ \A e \in Ids \ {d} : enq'[e] = enq[e]
<1>1. enq' = [enq EXCEPT ![d] = [enq[d] EXCEPT !.pc = pc]]
    BY DEF EnqTo
<1>2. PICK new : new = [enq[d] EXCEPT !.pc = pc]
    OBVIOUS
<1>3. /\ new \in EnqType /\ new.pc = pc /\ new.session = enq[d].session
      /\ new.seq = enq[d].seq /\ new.of = enq[d].of /\ new.after = enq[d].after
      /\ new.by = enq[d].by
    BY <1>2 DEF EnqType, EnqPlaces
<1> QED
    BY <1>1, <1>2, <1>3

(* A scheduling pass changes, and no other. *)
LEMMA TickMoves ==
    ASSUME tick \in [Workers -> TickType], NEW w \in Workers, NEW t \in TickType, TickTo(w, t)
    PROVE  /\ tick' \in [Workers -> TickType] /\ tick'[w] = t
           /\ \A v \in Workers \ {w} : tick'[v] = tick[v]
BY DEF TickTo

(* Where the pass is after it has gone on. *)
WentOn(w, t, room, due, picks) ==
    /\ t \in TickType /\ t.picks = picks /\ t.due \subseteq due
    /\ \/ t.pc = "dispatch" /\ t.job = Nothing /\ t.due = {}
       \/ /\ t.pc = "read" /\ t.job \in Job /\ t.job[1] \in due
          /\ ~Active(w, t.job[1])

LEMMA ContinueMoves ==
    ASSUME tick \in [Workers -> TickType], NEW w \in Workers, NEW room \in 0..MaxConcurrency,
           NEW due \in SUBSET Ids, NEW picks \in SUBSET Job, Continue(w, room, due, picks)
    PROVE  /\ tick' \in [Workers -> TickType]
           /\ WentOn(w, tick'[w], room, due, picks)
           /\ \A v \in Workers \ {w} : tick'[v] = tick[v]
<1>1. PICK t : /\ TickTo(w, t)
               /\ \/ t = [pc |-> "dispatch", room |-> room, due |-> {}, job |-> Nothing,
                          picks |-> picks]
                  \/ \E d \in due : \E rest \in SUBSET due :
                        /\ ~Active(w, d)
                        /\ t = [pc |-> "read", room |-> room, due |-> rest, job |-> <<d, 0>>,
                                picks |-> picks]
    BY DEF Continue
<1>2. \A d \in Ids : <<d, 0>> \in Job
    BY LimitsAssumption DEF Job
<1>3. WentOn(w, t, room, due, picks)
  <2>1. CASE t = [pc |-> "dispatch", room |-> room, due |-> {}, job |-> Nothing, picks |-> picks]
    <3>1. t \in TickType
        BY <2>1 DEF TickType
    <3> QED
        BY <2>1, <3>1 DEF WentOn
  <2>2. ASSUME NEW d \in due, NEW rest \in SUBSET due, ~Active(w, d),
               t = [pc |-> "read", room |-> room, due |-> rest, job |-> <<d, 0>>, picks |-> picks]
        PROVE  WentOn(w, t, room, due, picks)
    <3>1. <<d, 0>> \in Job
        BY <1>2
    <3>2. t \in TickType
        BY <2>2, <3>1 DEF TickType
    <3> QED
        BY <2>2, <3>1, <3>2 DEF WentOn
  <2> QED
      BY <1>1, <2>1, <2>2
<1> QED
    BY <1>1, <1>3, TickMoves DEF WentOn

(* A process() call moves to p, and no other. *)
ProcMoves(w, d, p) ==
    /\ proc' \in [Workers -> [Ids -> ProcType]] /\ proc'[w][d] = p
    /\ \A v \in Workers \ {w} : proc'[v] = proc[v]
    /\ \A e \in Ids \ {d} : proc'[w][e] = proc[w][e]

LEMMA ProcSet ==
    ASSUME proc \in [Workers -> [Ids -> ProcType]], NEW w \in Workers, NEW d \in Ids,
           NEW p \in ProcType, proc' = [proc EXCEPT ![w][d] = p]
    PROVE  ProcMoves(w, d, p)
<1>1. PICK row : row = [proc[w] EXCEPT ![d] = p]
    OBVIOUS
<1>2. row \in [Ids -> ProcType] /\ row[d] = p /\ \A e \in Ids \ {d} : row[e] = proc[w][e]
    BY <1>1
<1>3. proc' = [proc EXCEPT ![w] = row]
    BY <1>1
<1> QED
    BY <1>2, <1>3 DEF ProcMoves

LEMMA ProcToMoves ==
    ASSUME proc \in [Workers -> [Ids -> ProcType]], NEW w \in Workers, NEW d \in Ids,
           NEW pc \in ProcPlaces, ProcTo(w, d, pc)
    PROVE  \E p \in ProcType : /\ ProcMoves(w, d, p) /\ p.pc = pc
                               /\ p.attempt = proc[w][d].attempt
                               /\ p.verdict = proc[w][d].verdict
<1>1. PICK p : p = [proc[w][d] EXCEPT !.pc = pc]
    OBVIOUS
<1>2. /\ p \in ProcType /\ p.pc = pc /\ p.attempt = proc[w][d].attempt
      /\ p.verdict = proc[w][d].verdict
  <2>1. proc[w][d] \in ProcType
      OBVIOUS
  <2> QED
      BY <2>1, <1>1 DEF ProcType
<1>3. proc' = [proc EXCEPT ![w][d] = p]
    BY <1>1 DEF ProcTo
<1> QED
    BY <1>2, <1>3, ProcSet

LEMMA SettleMoves ==
    ASSUME proc \in [Workers -> [Ids -> ProcType]], NEW w \in Workers, NEW d \in Ids,
           Settle(w, d)
    PROVE  ProcMoves(w, d, IdleProc) /\ IdleProc.pc = "idle"
<1>1. IdleProc \in ProcType
    BY LimitsAssumption DEF IdleProc, ProcType, ProcPlaces
<1>2. proc' = [proc EXCEPT ![w][d] = IdleProc]
    BY DEF Settle
<1> QED
    BY <1>1, <1>2, ProcSet DEF IdleProc

(* ... and as many calls run, but for the one that moved. *)
LEMMA InflightMoves ==
    ASSUME NEW w \in Workers, NEW d \in Ids, NEW p, ProcMoves(w, d, p),
           \A v \in Workers : IsFiniteSet(Inflight(v))
    PROVE  \A v \in Workers : IsFiniteSet(Inflight(v)')
<1>1. Inflight(w)' \subseteq Inflight(w) \cup {d}
    BY DEF Inflight, Active, ProcMoves
<1>2. IsFiniteSet(Inflight(w)')
    BY <1>1, FS_AddElement, FS_Subset
<1>3. \A v \in Workers \ {w} : Inflight(v)' = Inflight(v)
    BY DEF Inflight, Active, ProcMoves
<1> QED
    BY <1>2, <1>3

(* The sweep of an instance changes, and no other. *)
RecovMoves(w, r) ==
    /\ recov' \in [Workers -> RecovType] /\ recov'[w] = r
    /\ \A v \in Workers \ {w} : recov'[v] = recov[v]

LEMMA RecovToPlace ==
    ASSUME recov \in [Workers -> RecovType], NEW w \in Workers,
           NEW pc \in {"check", "write", "join", "schedule", "done"},
           recov' = [recov EXCEPT ![w].pc = pc]
    PROVE  \E r \in RecovType : /\ RecovMoves(w, r) /\ r.pc = pc
                                /\ r.todo = recov[w].todo /\ r.job = recov[w].job
<1>1. PICK r : r = [recov[w] EXCEPT !.pc = pc]
    OBVIOUS
<1>2. r \in RecovType /\ r.pc = pc /\ r.todo = recov[w].todo /\ r.job = recov[w].job
    BY <1>1 DEF RecovType
<1> QED
    BY <1>1, <1>2 DEF RecovMoves

LEMMA SweepEnds ==
    ASSUME recov \in [Workers -> RecovType], NEW w \in Workers,
           recov' = [recov EXCEPT ![w] = NoSweep]
    PROVE  /\ RecovMoves(w, NoSweep)
           /\ NoSweep.pc = "done" /\ NoSweep.todo = {} /\ NoSweep.job = Nothing
<1>1. NoSweep \in RecovType
    BY DEF NoSweep, RecovType
<1> QED
    BY <1>1 DEF RecovMoves, NoSweep

-----------------------------------------------------------------------------
(* Base, step by step: enqueue. *)

LEMMA StartBase ==
    ASSUME Base, NEW w \in Workers, NEW d \in Ids, NEW s \in Sessions,
           NEW e \in Ids \cup {Nothing}, StartEnqueue(w, d, s, e)
    PROVE  Base'
<1>1. /\ enq[d].pc = "new"
      /\ seqs' = [seqs EXCEPT ![s] = seqs[s] + 1]
      /\ UNCHANGED <<pg, jobs, waiting, scheduled, tick, proc, recov, history, counts>>
    BY DEF StartEnqueue
<1>2. PICK new : new = [pc |-> "row", by |-> w, session |-> s, seq |-> seqs[s] + 1, of |-> e,
                        after |-> {x \in Ids : enq[x].pc = "done" /\ enq[x].session = s}]
    OBVIOUS
<1>3. enq' = [enq EXCEPT ![d] = new]
    BY <1>2 DEF StartEnqueue
<1>4. /\ new \in EnqType /\ new.pc = "row" /\ new.session = s /\ new.seq = seqs[s] + 1
      /\ seqs[s] \in Nat
    BY <1>2 DEF EnqType, Base, Types, RedisTypes
<1>5. /\ enq' \in [Ids -> EnqType] /\ enq'[d] = new /\ \A x \in Ids \ {d} : enq'[x] = enq[x]
    BY <1>3, <1>4 DEF Base, Types
<1>6. Types'
    BY <1>1, <1>4, <1>5
       DEF Base, Types, PgTypes, RedisTypes, CountTypes, pg, history, counts
<1>7. EnqInv(d)'
  <2>1. EnqInv(d)
      BY DEF Base
  <2> QED
      BY <2>1, <1>1, <1>4, <1>5 DEF EnqInv, Stored, pg
<1>8. rows' = rows /\ dead' = dead /\ scheduled' = scheduled /\ acked' = acked
      /\ tick' = tick /\ proc' = proc /\ recov' = recov
    BY <1>1 DEF pg, history
<1> QED
    BY <1>5, <1>6, <1>7, <1>8, BaseFrame DEF Stored

LEMMA InsertBase == ASSUME Base, NEW d \in Ids, InsertRow(d) PROVE Base'
<1>1. /\ enq[d].pc = "row" /\ EnqTo(d, "write")
      /\ UNCHANGED <<dead, redis, tick, proc, recov, history, counts>>
    BY DEF InsertRow
<1>2. PICK row : row = [session |-> enq[d].session, seq |-> enq[d].seq,
                        status |-> "pending", attempts |-> 0]
    OBVIOUS
<1>3. rows' = [rows EXCEPT ![d] = row]
    BY <1>2 DEF InsertRow
<1>4. EnqInv(d) /\ enq[d] \in EnqType
    BY DEF Base, Types
<1>5. /\ row \in Row /\ row.session = enq[d].session /\ row.seq = enq[d].seq
      /\ row.status = "pending" /\ row.attempts = 0
    BY <1>1, <1>2, <1>4, LimitsAssumption DEF EnqInv, EnqType, Row
<1>6. /\ rows' \in [Ids -> {Nothing} \cup Row] /\ rows'[d] = row
      /\ \A e \in Ids \ {d} : rows'[e] = rows[e]
    BY <1>3, <1>5 DEF Base, Types, PgTypes
<1>7. /\ enq' \in [Ids -> EnqType] /\ enq'[d].pc = "write"
      /\ enq'[d].session = enq[d].session /\ enq'[d].seq = enq[d].seq
      /\ \A e \in Ids \ {d} : enq'[e] = enq[e]
    BY <1>1, EnqMoves DEF Base, Types, EnqPlaces
<1>8. Types'
    BY <1>1, <1>6, <1>7
       DEF Base, Types, PgTypes, RedisTypes, CountTypes, redis, history, counts
<1>9. row # Nothing /\ rows[d] = Nothing
    BY <1>1, <1>4, <1>5, NothingAssumption DEF EnqInv, Stored
<1>10. EnqInv(d)' /\ RowInv(d)'
  <2>1. RowInv(d)
      BY DEF Base
  <2> QED
      BY <2>1, <1>1, <1>4, <1>5, <1>6, <1>7, <1>9, LimitsAssumption
         DEF EnqInv, RowInv, Stored, Unfinished, EnqType, redis
<1>11. /\ dead' = dead /\ scheduled' = scheduled /\ acked' = acked
       /\ tick' = tick /\ proc' = proc /\ recov' = recov
    BY <1>1 DEF redis, history
<1>12. \A e \in Ids : Stored(e) => Stored(e)'
    BY <1>6, <1>9 DEF Stored
<1> QED
    BY <1>6, <1>7, <1>8, <1>10, <1>11, <1>12, BaseFrame

(* The other calls of enqueue leave the rows alone. *)
LEMMA EnqueueBase ==
    ASSUME Base, NEW d \in Ids, NEW pc \in EnqPlaces, EnqTo(d, pc), Types',
           enq[d].pc \in {"write", "join", "schedule", "mark"} \/ pc = "failed",
           enq[d].pc # "new", pc \notin {"new", "row"}, pc = "mark" => enq[d].of # Nothing,
           \A e \in Ids : dead'[e] # "no" => dead[e] # "no",
           \A e \in Ids : scheduled'[e] # "no" => scheduled[e] # "no" \/ Stored(e),
           UNCHANGED <<rows, tick, proc, recov, acked>>
    PROVE  Base'
<1>1. /\ enq'[d].pc = pc /\ enq'[d].session = enq[d].session /\ enq'[d].seq = enq[d].seq
      /\ enq'[d].of = enq[d].of /\ \A e \in Ids \ {d} : enq'[e] = enq[e]
    BY EnqMoves DEF Base, Types
<1>2. EnqInv(d)'
  <2>1. EnqInv(d) /\ enq[d] \in EnqType
      BY DEF Base, Types
  <2> QED
      BY <2>1, <1>1 DEF EnqInv, EnqType, EnqPlaces, Stored
<1>3. \A e \in Ids : RowInv(e)'
  <2> SUFFICES ASSUME NEW e \in Ids PROVE RowInv(e)'
      OBVIOUS
  <2>1. RowInv(e)
      BY DEF Base
  <2> QED
      BY <2>1 DEF RowInv, Stored, Unfinished
<1>4. \A e \in Ids : Stored(e) => Stored(e)'
    BY DEF Stored
<1> QED
    BY <1>1, <1>2, <1>3, <1>4, BaseFrame

LEMMA EnqueueStepBase ==
    ASSUME Base, NEW d \in Ids,
           WriteJob(d) \/ JoinSession(d) \/ Schedule(d) \/ MarkRetried(d) \/ FailEnqueue(d)
    PROVE  Base'
<1>0. /\ enq \in [Ids -> EnqType] /\ jobs \in [Ids -> {NoJob} \cup 0..(MaxAttempts - 1)]
      /\ scheduled \in [Ids -> {"no", "due", "later"}]
      /\ dead \in [Ids -> {"no", "listed", "retried"}]
      /\ crashes \in 0..MaxFaults /\ throws \in 0..MaxFaults
    BY DEF Base, Types, PgTypes, RedisTypes, CountTypes
<1>1. CASE WriteJob(d)
  <2>1. enq[d].pc = "write" /\ EnqTo(d, "join") /\ jobs' = [jobs EXCEPT ![d] = 0]
        /\ UNCHANGED <<pg, seqs, waiting, scheduled, tick, proc, recov, history, counts>>
      BY <1>1 DEF WriteJob
  <2>2. enq' \in [Ids -> EnqType]
      BY <2>1, <1>0, EnqMoves DEF EnqPlaces
  <2>3. jobs' \in [Ids -> {NoJob} \cup 0..(MaxAttempts - 1)]
      BY <2>1, <1>0, LimitsAssumption
  <2>4. Types'
      BY <2>1, <2>2, <2>3 DEF Base, Types, PgTypes, RedisTypes, CountTypes, pg, history, counts
  <2> QED
      BY <2>1, <2>4, EnqueueBase DEF EnqPlaces, pg, history
<1>2. CASE JoinSession(d)
  <2>1. enq[d].pc = "join" /\ EnqTo(d, "schedule") /\ waiting' = waiting \cup {d}
        /\ UNCHANGED <<pg, seqs, jobs, scheduled, tick, proc, recov, history, counts>>
      BY <1>2 DEF JoinSession
  <2>2. enq' \in [Ids -> EnqType]
      BY <2>1, <1>0, EnqMoves DEF EnqPlaces
  <2>3. Types'
      BY <2>1, <2>2 DEF Base, Types, PgTypes, RedisTypes, CountTypes, pg, history, counts
  <2> QED
      BY <2>1, <2>3, EnqueueBase DEF EnqPlaces, pg, history
<1>3. CASE Schedule(d)
  <2>1. PICK pc \in {"done", "mark"} : pc = IF enq[d].of = Nothing THEN "done" ELSE "mark"
      OBVIOUS
  <2>2. enq[d].pc = "schedule" /\ EnqTo(d, pc) /\ scheduled' = [scheduled EXCEPT ![d] = "due"]
        /\ UNCHANGED <<pg, seqs, jobs, waiting, tick, proc, recov, history, counts>>
      BY <1>3, <2>1 DEF Schedule
  <2>3. enq' \in [Ids -> EnqType]
      BY <2>2, <1>0, EnqMoves DEF EnqPlaces
  <2>4. scheduled' \in [Ids -> {"no", "due", "later"}]
        /\ \A e \in Ids : scheduled'[e] # "no" => scheduled[e] # "no" \/ e = d
      BY <2>2, <1>0
  <2>5. Types'
      BY <2>2, <2>3, <2>4 DEF Base, Types, PgTypes, RedisTypes, CountTypes, pg, history, counts
  <2>6. Stored(d)
      BY <2>2 DEF Base, EnqInv
  <2> QED
      BY <2>1, <2>2, <2>4, <2>5, <2>6, EnqueueBase DEF EnqPlaces, pg, history
<1>4. CASE MarkRetried(d)
  <2>1. PICK v : dead' = [dead EXCEPT ![enq[d].of] = v] /\ v \in {"no", "retried"}
                 /\ (dead[enq[d].of] = "no" => v = "no")
      BY <1>4 DEF MarkRetried
  <2>2. enq[d].pc = "mark" /\ EnqTo(d, "done")
        /\ UNCHANGED <<rows, redis, tick, proc, recov, history, counts>>
      BY <1>4 DEF MarkRetried
  <2>3. enq' \in [Ids -> EnqType]
      BY <2>2, <1>0, EnqMoves DEF EnqPlaces
  <2>4. dead' \in [Ids -> {"no", "listed", "retried"}]
        /\ \A e \in Ids : dead'[e] # "no" => dead[e] # "no"
      BY <2>1, <1>0
  <2>5. Types'
      BY <2>2, <2>3, <2>4
         DEF Base, Types, PgTypes, RedisTypes, CountTypes, redis, history, counts
  <2> QED
      BY <2>2, <2>4, <2>5, EnqueueBase DEF EnqPlaces, redis, history
<1>5. CASE FailEnqueue(d)
  <2>1. EnqTo(d, "failed") /\ enq[d].pc # "new"
        /\ crashes + throws < MaxFaults /\ throws' = throws + 1
        /\ UNCHANGED <<pg, redis, tick, proc, recov, history, crashes, lapsed>>
      BY <1>5 DEF FailEnqueue, Throw, Enqueueing
  <2>2. enq' \in [Ids -> EnqType]
      BY <2>1, <1>0, EnqMoves DEF EnqPlaces
  <2>3. throws' \in 0..MaxFaults
      BY <2>1, <1>0, QueueBoundsAssumption
  <2>4. Types'
      BY <2>1, <2>2, <2>3 DEF Base, Types, PgTypes, RedisTypes, CountTypes, pg, redis, history
  <2> QED
      BY <2>1, <2>4, EnqueueBase DEF EnqPlaces, pg, redis, history
<1> QED
    BY <1>1, <1>2, <1>3, <1>4, <1>5

-----------------------------------------------------------------------------
(* Base, step by step: the scheduling pass. *)

(* A step that changes the pass of w, and may unschedule a job. *)
LEMMA PassBase ==
    ASSUME Base, NEW w \in Workers, Types',
           \A v \in Workers \ {w} : tick'[v] = tick[v], TickInv(w)',
           \A d \in Ids : scheduled'[d] # "no" => scheduled[d] # "no",
           UNCHANGED <<rows, dead, enq, proc, recov, acked>>
    PROVE  Base'
<1>1. \A d \in Ids : RowInv(d)'
  <2> SUFFICES ASSUME NEW d \in Ids PROVE RowInv(d)'
      OBVIOUS
  <2>1. RowInv(d)
      BY DEF Base
  <2> QED
      BY <2>1 DEF RowInv, Stored, Unfinished
<1>2. \A d \in Ids : Stored(d) => Stored(d)'
    BY DEF Stored
<1> QED
    BY <1>1, <1>2, BaseFrame

(* The pass goes on: what it still holds has a row. *)
LEMMA ContinueBase ==
    ASSUME Base, NEW w \in Workers, NEW room \in 0..MaxConcurrency,
           NEW due \in SUBSET Ids, NEW picks \in SUBSET Job, Continue(w, room, due, picks),
           \A d \in due : Stored(d), IsFiniteSet(picks), \A job \in picks : Stored(job[1]),
           scheduled' \in [Ids -> {"no", "due", "later"}],
           \A d \in Ids : scheduled'[d] # "no" => scheduled[d] # "no",
           UNCHANGED <<pg, seqs, jobs, waiting, enq, proc, recov, history, counts>>
    PROVE  Base'
<1>1. /\ tick' \in [Workers -> TickType] /\ WentOn(w, tick'[w], room, due, picks)
      /\ \A v \in Workers \ {w} : tick'[v] = tick[v]
    BY ContinueMoves DEF Base, Types
<1>2. Types'
    BY <1>1 DEF Base, Types, PgTypes, RedisTypes, CountTypes, pg, history, counts
<1>3. rows' = rows
    BY DEF pg
<1>4. TickInv(w)'
  <2>1. \A job \in Job : job # Nothing
      BY NothingAssumption, LimitsAssumption DEF Job, Picked
  <2> QED
      BY <1>1, <1>3, <2>1 DEF TickInv, WentOn, Stored
<1> QED
    BY <1>1, <1>2, <1>4, PassBase DEF pg, history

LEMMA TickBase ==
    ASSUME Base, NEW w \in Workers,
           TickStart(w) \/ ReadJob(w) \/ DropDue(w) \/ CheckHead(w) \/ FailTick(w)
    PROVE  Base'
<1>1. /\ tick \in [Workers -> TickType] /\ tick[w] \in TickType /\ TickInv(w)
      /\ scheduled \in [Ids -> {"no", "due", "later"}]
      /\ jobs \in [Ids -> {NoJob} \cup 0..(MaxAttempts - 1)]
      /\ crashes \in 0..MaxFaults /\ throws \in 0..MaxFaults
    BY DEF Base, Types, RedisTypes, CountTypes
<1>2. /\ tick[w].room \in 0..MaxConcurrency /\ tick[w].due \in SUBSET Ids
      /\ tick[w].picks \in SUBSET Job
    BY <1>1 DEF TickType
<1>3. tick[w].pc \in {"read", "drop", "head"} =>
        tick[w].job \in Job /\ tick[w].job[1] \in Ids /\ Stored(tick[w].job[1])
    BY <1>1 DEF TickInv, TickType, Job
<1>4. CASE TickStart(w)
  <2>1. PICK due \in SUBSET Ids : due = {d \in Ids : scheduled[d] = "due"}
      OBVIOUS
  <2>2. PICK n : n = Cardinality(Inflight(w))
      OBVIOUS
  <2>3. /\ n < MaxConcurrency /\ Continue(w, MaxConcurrency - n, due, {})
        /\ UNCHANGED <<pg, redis, enq, proc, recov, history, counts>>
      BY <1>4, <2>1, <2>2 DEF TickStart
  <2>4. n \in Nat
      BY <2>2, FS_CardinalityType DEF Base
  <2>5. MaxConcurrency - n \in 0..MaxConcurrency
      BY <2>3, <2>4, LimitsAssumption
  <2>6. \A d \in due : Stored(d)
      BY <2>1 DEF Base, RowInv
  <2> QED
      BY <1>1, <2>3, <2>5, <2>6, ContinueBase, FS_EmptySet DEF redis
<1>5. CASE ReadJob(w)
  <2>1. PICK d \in Ids : d = tick[w].job[1] /\ Stored(d) /\ tick[w].job \in Job
      BY <1>3, <1>5 DEF ReadJob
  <2>2. UNCHANGED <<pg, redis, enq, proc, recov, history, counts>>
      BY <1>5 DEF ReadJob
  <2>3. ASSUME NEW pc \in {"drop", "head"}, NEW n \in 0..(MaxAttempts - 1),
               tick' = [tick EXCEPT ![w].pc = pc, ![w].job = <<d, n>>]
        PROVE  Base'
    <3>1. PICK t : t = [[tick[w] EXCEPT !.pc = pc] EXCEPT !.job = <<d, n>>]
        OBVIOUS
    <3>2. <<d, n>> \in Job /\ <<d, n>> # Nothing
        BY NothingAssumption, LimitsAssumption DEF Job, Picked
    <3>3. /\ t \in TickType /\ t.pc = pc /\ t.job = <<d, n>> /\ t.due = tick[w].due
          /\ t.picks = tick[w].picks
        BY <1>1, <3>1, <3>2 DEF TickType
    <3>4. TickTo(w, t)
        BY <2>3, <3>1 DEF TickTo
    <3>5. /\ tick' \in [Workers -> TickType] /\ tick'[w] = t
          /\ \A v \in Workers \ {w} : tick'[v] = tick[v]
        BY <1>1, <3>3, <3>4, TickMoves
    <3>6. Types'
        BY <2>2, <3>5
           DEF Base, Types, PgTypes, RedisTypes, CountTypes, pg, redis, history, counts
    <3>7. TickInv(w)'
        BY <1>1, <2>1, <2>2, <3>2, <3>3, <3>5 DEF TickInv, Stored, pg
    <3> QED
        BY <2>2, <3>5, <3>6, <3>7, PassBase DEF pg, redis, history
  <2>4. CASE Continue(w, tick[w].room, tick[w].due, tick[w].picks)
      BY <1>1, <1>2, <2>2, <2>4, ContinueBase DEF redis, TickInv
  <2>5. \/ \E pc \in {"drop", "head"}, n \in 0..(MaxAttempts - 1) :
              tick' = [tick EXCEPT ![w].pc = pc, ![w].job = <<d, n>>]
        \/ Continue(w, tick[w].room, tick[w].due, tick[w].picks)
    <3>1. 0 \in 0..(MaxAttempts - 1) /\ (jobs[d] = NoJob \/ jobs[d] \in 0..(MaxAttempts - 1))
        BY <1>1, LimitsAssumption
    <3> QED
        BY <1>5, <2>1, <3>1 DEF ReadJob
  <2> QED
      BY <2>3, <2>4, <2>5
<1>6. CASE DropDue(w)
  <2>1. /\ scheduled' = [scheduled EXCEPT ![tick[w].job[1]] = "no"]
        /\ Continue(w, tick[w].room, tick[w].due, tick[w].picks)
        /\ UNCHANGED <<pg, seqs, jobs, waiting, enq, proc, recov, history, counts>>
      BY <1>6 DEF DropDue
  <2>2. /\ scheduled' \in [Ids -> {"no", "due", "later"}]
        /\ \A d \in Ids : scheduled'[d] # "no" => scheduled[d] # "no"
      BY <1>1, <2>1
  <2> QED
      BY <1>1, <1>2, <2>1, <2>2, ContinueBase DEF TickInv
<1>7. CASE CheckHead(w)
  <2>1. PICK job : job = tick[w].job
      OBVIOUS
  <2>2. PICK picks : picks = tick[w].picks \cup (IF IsHead(job[1]) THEN {job} ELSE {})
      OBVIOUS
  <2>3. /\ tick[w].pc = "head" /\ Continue(w, tick[w].room, tick[w].due, picks)
        /\ UNCHANGED <<pg, redis, enq, proc, recov, history, counts>>
      BY <1>7, <2>1, <2>2 DEF CheckHead
  <2>4. job \in Job /\ Stored(job[1])
      BY <1>3, <2>1, <2>3
  <2>5. picks \in SUBSET Job /\ \A j \in picks : Stored(j[1])
      BY <1>1, <1>2, <2>2, <2>4 DEF TickInv
  <2>6. IsFiniteSet(picks)
    <3>1. picks = tick[w].picks \/ picks = tick[w].picks \cup {job}
        BY <2>2
    <3> QED
        BY <1>1, <3>1, FS_AddElement DEF TickInv
  <2> QED
      BY <1>1, <1>2, <2>3, <2>5, <2>6, ContinueBase DEF redis, TickInv
<1>8. CASE FailTick(w)
  <2>1. /\ crashes + throws < MaxFaults /\ throws' = throws + 1
        /\ TickTo(w, IdleTick)
        /\ UNCHANGED <<pg, redis, enq, proc, recov, history, crashes, lapsed>>
      BY <1>8 DEF FailTick, Throw
  <2>2. /\ tick' \in [Workers -> TickType] /\ tick'[w] = IdleTick
        /\ \A v \in Workers \ {w} : tick'[v] = tick[v]
      BY <1>1, <2>1, TickMoves, EmptyTick
  <2>3. throws' \in 0..MaxFaults
      BY <1>1, <2>1, QueueBoundsAssumption
  <2>4. Types'
      BY <2>1, <2>2, <2>3 DEF Base, Types, PgTypes, RedisTypes, CountTypes, pg, redis, history
  <2>5. TickInv(w)'
      BY <2>2, EmptyTick, FS_EmptySet DEF TickInv
  <2> QED
      BY <2>1, <2>2, <2>4, <2>5, PassBase DEF pg, redis, history
<1> QED
    BY <1>4, <1>5, <1>6, <1>7, <1>8

(* What the pass dispatches it has picked, and each job once. *)
LEMMA DispatchMoves ==
    ASSUME proc \in [Workers -> [Ids -> ProcType]], tick \in [Workers -> TickType],
           NEW w \in Workers, Dispatch(w)
    PROVE  \E D \in SUBSET Ids :
              /\ IsPassOf(w, D) /\ (IsFiniteSet(tick[w].picks) => IsFiniteSet(D))
              /\ proc' \in [Workers -> [Ids -> ProcType]]
              /\ \A v \in Workers \ {w} : proc'[v] = proc[v]
              /\ \A d \in Ids \ D : proc'[w][d] = proc[w][d]
              /\ \A d \in D : /\ proc'[w][d].pc = "deliver"
                              /\ <<d, proc'[w][d].attempt>> \in tick[w].picks
<1>1. PICK D \in SUBSET Ids : /\ IsPassOf(w, D)
                              /\ proc' = [proc EXCEPT ![w] = [d \in Ids |->
                                    IF d \in D
                                    THEN [pc |-> "deliver", verdict |-> Nothing,
                                          attempt |-> CHOOSE n \in 0..MaxAttempts :
                                                         <<d, n>> \in tick[w].picks]
                                    ELSE proc[w][d]]]
    BY DEF Dispatch
<1>2. tick[w].picks \subseteq Job
    BY DEF TickType
<1>3. PICK g : g = [d \in D |-> CHOOSE n \in 0..MaxAttempts : <<d, n>> \in tick[w].picks]
    OBVIOUS
<1>4. \A d \in D : <<d, g[d]>> \in tick[w].picks
  <2>1. ASSUME NEW d \in D PROVE \E n \in 0..MaxAttempts : <<d, n>> \in tick[w].picks
    <3>1. \E job \in tick[w].picks : job[1] = d
        BY <1>1 DEF IsPassOf
    <3> QED
        BY <3>1, <1>2, LimitsAssumption DEF Job
  <2> QED
      BY <2>1, <1>3
<1>5. \A d \in D : g[d] \in 0..(MaxAttempts - 1)
    BY <1>2, <1>4 DEF Job
<1>6. PICK row : row = [d \in Ids |-> IF d \in D
                                      THEN [pc |-> "deliver", verdict |-> Nothing,
                                            attempt |-> g[d]]
                                      ELSE proc[w][d]]
    OBVIOUS
<1>7. proc' = [proc EXCEPT ![w] = row]
    BY <1>1, <1>3, <1>6
<1>8. row \in [Ids -> ProcType]
  <2>1. ASSUME NEW d \in D
        PROVE  [pc |-> "deliver", verdict |-> Nothing, attempt |-> g[d]] \in ProcType
      BY <1>5 DEF ProcType, ProcPlaces
  <2>2. \A d \in Ids : proc[w][d] \in ProcType
      OBVIOUS
  <2> QED
      BY <1>6, <2>1, <2>2
<1>9. /\ \A d \in Ids \ D : row[d] = proc[w][d]
      /\ \A d \in D : row[d].pc = "deliver" /\ row[d].attempt = g[d]
    BY <1>6
<1>10. proc' \in [Workers -> [Ids -> ProcType]] /\ proc'[w] = row
       /\ \A v \in Workers \ {w} : proc'[v] = proc[v]
    BY <1>7, <1>8
<1>11. IsFiniteSet(tick[w].picks) => IsFiniteSet(D)
  <2>1. [d \in D |-> <<d, g[d]>>] \in Injection(D, tick[w].picks)
      BY <1>4 DEF Injection, IsInjective
  <2> QED
      BY <2>1, FS_Injection
<1>12. \A d \in D : <<d, proc'[w][d].attempt>> \in tick[w].picks
    BY <1>4, <1>9, <1>10
<1> QED
    BY <1>1, <1>9, <1>10, <1>11, <1>12

LEMMA DispatchBase == ASSUME Base, NEW w \in Workers, Dispatch(w) PROVE Base'
<1>1. TickTo(w, IdleTick) /\ UNCHANGED <<pg, redis, enq, recov, history, counts>>
    BY DEF Dispatch
<1>2. /\ tick' \in [Workers -> TickType] /\ tick'[w] = IdleTick
      /\ \A v \in Workers \ {w} : tick'[v] = tick[v]
    BY <1>1, TickMoves, EmptyTick DEF Base, Types
<1>3. PICK D \in SUBSET Ids :
         /\ IsFiniteSet(D) /\ proc' \in [Workers -> [Ids -> ProcType]]
         /\ \A v \in Workers \ {w} : proc'[v] = proc[v]
         /\ \A d \in Ids \ D : proc'[w][d] = proc[w][d]
         /\ \A d \in D : /\ proc'[w][d].pc = "deliver"
                         /\ <<d, proc'[w][d].attempt>> \in tick[w].picks
  <2>1. IsFiniteSet(tick[w].picks)
      BY DEF Base, TickInv
  <2> QED
      BY <2>1, DispatchMoves DEF Base, Types
<1>4. Types'
    BY <1>1, <1>2, <1>3
       DEF Base, Types, PgTypes, RedisTypes, CountTypes, pg, redis, history, counts
<1>5. TickInv(w)'
    BY <1>2, EmptyTick, FS_EmptySet DEF TickInv
<1>6. rows' = rows /\ dead' = dead /\ scheduled' = scheduled /\ acked' = acked
      /\ enq' = enq /\ recov' = recov
    BY <1>1 DEF pg, redis, history
<1>7. \A d \in D : ProcInv(w, d)'
  <2> SUFFICES ASSUME NEW d \in D PROVE ProcInv(w, d)'
      OBVIOUS
  <2>1. PICK job \in tick[w].picks : job[1] = d
      BY <1>3
  <2>2. Stored(d)
      BY <2>1 DEF Base, TickInv
  <2> QED
      BY <1>3, <1>6, <2>2 DEF ProcInv, Active, Stored
<1>8. IsFiniteSet(Inflight(w)')
  <2>1. Inflight(w)' \subseteq Inflight(w) \cup D
      BY <1>3 DEF Inflight, Active
  <2> QED
      BY <1>3, <2>1, FS_Union, FS_Subset DEF Base
<1>9. \A d \in Ids : Stored(d) => Stored(d)'
    BY <1>6 DEF Stored
<1> QED
    BY <1>2, <1>3, <1>4, <1>5, <1>6, <1>7, <1>8, <1>9, BaseFrame

-----------------------------------------------------------------------------
(* Base, step by step: process(). *)

(* A step of one process() call. *)
LEMMA ProcessBase ==
    ASSUME Base, NEW w \in Workers, NEW d \in Ids, NEW p, ProcMoves(w, d, p), Types',
           ProcInv(w, d)', EnqInv(d)', RowInv(d)', rows[d] # Nothing => rows'[d] # Nothing,
           \A e \in Ids \ {d} : /\ rows'[e] = rows[e] /\ dead'[e] = dead[e]
                                /\ scheduled'[e] = scheduled[e],
           acked \subseteq acked', UNCHANGED <<enq, tick, recov>>
    PROVE  Base'
<1>1. \A v \in Workers : IsFiniteSet(Inflight(v)')
    BY InflightMoves DEF Base
<1>2. \A e \in Ids : Stored(e) => Stored(e)'
    BY DEF Stored
<1>3. \A e \in Ids : e # d => proc'[w][e] = proc[w][e]
    BY DEF ProcMoves
<1>4. \A v \in Workers : v # w => proc'[v] = proc[v]
    BY DEF ProcMoves
<1> QED
    BY <1>1, <1>2, <1>3, <1>4, BaseFrame

LEMMA DeliverMoves ==
    ASSUME proc \in [Workers -> [Ids -> ProcType]], NEW w \in Workers, NEW d \in Ids,
           Deliver(w, d)
    PROVE  \E p \in ProcType :
              /\ ProcMoves(w, d, p) /\ p.pc = "record" /\ p.attempt = proc[w][d].attempt
              /\ p.verdict \in Outcomes
              /\ p.verdict = "failed" => p.attempt + 1 < MaxAttempts
              /\ \/ p.verdict = "delivered" /\ acked' = acked \cup {d}
                 \/ p.verdict # "delivered" /\ acked' = acked
<1>1. PICK outcome \in {"success", "retry", "dead"} :
         /\ proc' = [proc EXCEPT ![w][d].pc = "record",
                ![w][d].verdict = Verdict(outcome, proc[w][d].attempt + 1)]
         /\ acked' = IF outcome = "success" THEN acked \cup {d} ELSE acked
    BY DEF Deliver
<1>2. PICK n \in 0..(MaxAttempts - 1) : n = proc[w][d].attempt
    BY DEF ProcType
<1>3. PICK v : v = Verdict(outcome, n + 1)
    OBVIOUS
<1>4. /\ v \in Outcomes /\ (v = "failed" => n + 1 < MaxAttempts)
      /\ (v = "delivered" <=> outcome = "success")
  <2>1. CASE outcome = "success"
    <3>1. v = "delivered"
        BY <1>3, <2>1 DEF Verdict
    <3> QED
        BY <3>1, <2>1 DEF Outcomes
  <2>2. CASE outcome # "success" /\ (outcome = "dead" \/ n + 1 >= MaxAttempts)
    <3>1. v = "dead"
        BY <1>3, <2>2 DEF Verdict
    <3> QED
        BY <3>1, <2>2 DEF Outcomes
  <2>3. CASE ~(outcome = "success" \/ outcome = "dead" \/ n + 1 >= MaxAttempts)
    <3>1. v = "failed"
        BY <1>3, <2>3 DEF Verdict
    <3> QED
        BY <3>1, <2>3, LimitsAssumption DEF Outcomes
  <2> QED
      BY <2>1, <2>2, <2>3
<1>5. PICK p : p = [[proc[w][d] EXCEPT !.pc = "record"] EXCEPT !.verdict = v]
    OBVIOUS
<1>6. p \in ProcType /\ p.pc = "record" /\ p.attempt = n /\ p.verdict = v
  <2>1. proc[w][d] \in ProcType
      OBVIOUS
  <2> QED
      BY <2>1, <1>2, <1>4, <1>5 DEF ProcType, ProcPlaces
<1>7. proc' = [proc EXCEPT ![w][d] = p]
    BY <1>1, <1>2, <1>3, <1>5
<1>8. ProcMoves(w, d, p)
    BY <1>6, <1>7, ProcSet
<1> QED
    BY <1>1, <1>2, <1>4, <1>6, <1>8

(* The row of a delivery takes what its attempt came to. *)
LEMMA RecordMoves ==
    ASSUME Types, NEW w \in Workers, NEW d \in Ids, RecordDelivery(w, d), ProcInv(w, d)
    PROVE  \E p \in ProcType, row \in Row :
              /\ ProcMoves(w, d, p) /\ p.attempt = proc[w][d].attempt
              /\ p.pc = CASE row.status = "delivered" -> "unschedule"
                          [] row.status = "dead"      -> "bury"
                          [] row.status = "failed"    -> "rewrite"
              /\ row.session = rows[d].session /\ row.seq = rows[d].seq
              /\ row.status = proc[w][d].verdict /\ row.status \in Outcomes
              /\ row.attempts = p.attempt + 1
              /\ rows' \in [Ids -> {Nothing} \cup Row] /\ rows'[d] = row
              /\ \A e \in Ids \ {d} : rows'[e] = rows[e]
<1>1. /\ proc[w][d] \in ProcType /\ rows[d] \in Row /\ rows \in [Ids -> {Nothing} \cup Row]
      /\ proc[w][d].pc = "record"
    BY DEF Types, PgTypes, ProcInv, Active, Stored, RecordDelivery
<1>2. PICK n \in 0..(MaxAttempts - 1) : n = proc[w][d].attempt
    BY <1>1 DEF ProcType
<1>3. PICK v \in Outcomes : v = proc[w][d].verdict
    BY <1>1 DEF ProcType, ProcInv
<1>4. PICK row : row = [[rows[d] EXCEPT !.status = v] EXCEPT !.attempts = n + 1]
    OBVIOUS
<1>5. /\ row \in Row /\ row.session = rows[d].session /\ row.seq = rows[d].seq
      /\ row.status = v /\ row.attempts = n + 1
  <2>1. n + 1 \in 0..MaxAttempts
      BY LimitsAssumption
  <2> QED
      BY <1>1, <1>4, <2>1 DEF Row, Outcomes
<1>6. rows' = [rows EXCEPT ![d] = row]
    BY <1>2, <1>3, <1>4 DEF RecordDelivery
<1>7. rows' \in [Ids -> {Nothing} \cup Row] /\ rows'[d] = row
      /\ \A e \in Ids \ {d} : rows'[e] = rows[e]
    BY <1>1, <1>5, <1>6
<1>8. PICK pc \in ProcPlaces : pc = CASE v = "delivered" -> "unschedule"
                                      [] v = "dead"      -> "bury"
                                      [] v = "failed"    -> "rewrite"
    BY DEF Outcomes, ProcPlaces
<1>9. ProcTo(w, d, pc)
    BY <1>3, <1>8 DEF RecordDelivery
<1>10. PICK p \in ProcType : ProcMoves(w, d, p) /\ p.pc = pc /\ p.attempt = n
    BY <1>2, <1>9, ProcToMoves DEF Types
<1> QED
    BY <1>2, <1>3, <1>5, <1>7, <1>8, <1>10

LEMMA DeliverBase ==
    ASSUME Base, NEW w \in Workers, NEW d \in Ids, Deliver(w, d) PROVE Base'
<1>1. /\ proc[w][d].pc = "deliver"
      /\ tries' = [tries EXCEPT ![d] = IF @ > MaxAttempts THEN @ ELSE @ + 1]
      /\ UNCHANGED <<pg, redis, enq, tick, recov, counts>>
    BY DEF Deliver
<1>2. PICK p \in ProcType :
         /\ ProcMoves(w, d, p) /\ p.pc = "record" /\ p.verdict \in Outcomes
         /\ p.verdict = "failed" => p.attempt + 1 < MaxAttempts
         /\ \/ p.verdict = "delivered" /\ acked' = acked \cup {d}
            \/ p.verdict # "delivered" /\ acked' = acked
    BY DeliverMoves DEF Base, Types
<1>3. tries' \in [Ids -> 0..(MaxAttempts + 1)]
  <2>1. PICK n : n = IF tries[d] > MaxAttempts THEN tries[d] ELSE tries[d] + 1
      OBVIOUS
  <2>2. tries[d] \in 0..(MaxAttempts + 1)
      BY DEF Base, Types, CountTypes
  <2>3. n \in 0..(MaxAttempts + 1)
      BY <2>1, <2>2, LimitsAssumption
  <2> QED
      BY <1>1, <2>1, <2>3 DEF Base, Types, CountTypes
<1>4. acked \subseteq acked' /\ acked' \subseteq Ids
    BY <1>2 DEF Base, Types, CountTypes
<1>5. Types'
    BY <1>1, <1>2, <1>3, <1>4
       DEF Base, Types, PgTypes, RedisTypes, CountTypes, pg, redis, counts, ProcMoves
<1>6. rows' = rows /\ dead' = dead /\ scheduled' = scheduled
    BY <1>1 DEF pg, redis
<1>7. ProcInv(w, d)'
  <2>1. Stored(d)
      BY <1>1 DEF Base, ProcInv, Active
  <2>2. proc'[w][d] = p /\ p.verdict # Nothing
      BY <1>2, NothingAssumption DEF ProcMoves
  <2> QED
      BY <1>2, <1>6, <2>1, <2>2 DEF ProcInv, Active, Stored
<1>8. EnqInv(d)' /\ RowInv(d)'
  <2>1. EnqInv(d) /\ RowInv(d)
      BY DEF Base
  <2> QED
      BY <2>1, <1>1, <1>4, <1>6 DEF EnqInv, RowInv, Stored, Unfinished
<1> QED
    BY <1>1, <1>2, <1>4, <1>5, <1>6, <1>7, <1>8, ProcessBase

LEMMA RecordBase ==
    ASSUME Base, NEW w \in Workers, NEW d \in Ids, RecordDelivery(w, d) PROVE Base'
<1>1. proc[w][d].pc = "record" /\ UNCHANGED <<dead, redis, enq, tick, recov, history, counts>>
    BY DEF RecordDelivery
<1>2. ProcInv(w, d) /\ Types
    BY DEF Base
<1>3. PICK p \in ProcType, row \in Row :
         /\ ProcMoves(w, d, p) /\ p.attempt = proc[w][d].attempt
         /\ p.pc = CASE row.status = "delivered" -> "unschedule"
                     [] row.status = "dead"      -> "bury"
                     [] row.status = "failed"    -> "rewrite"
         /\ row.session = rows[d].session /\ row.seq = rows[d].seq
         /\ row.status = proc[w][d].verdict /\ row.status \in Outcomes
         /\ row.attempts = p.attempt + 1
         /\ rows' \in [Ids -> {Nothing} \cup Row] /\ rows'[d] = row
         /\ \A e \in Ids \ {d} : rows'[e] = rows[e]
    BY <1>2, RecordMoves
<1>4. Types'
    BY <1>1, <1>2, <1>3
       DEF Types, PgTypes, RedisTypes, CountTypes, redis, history, counts, ProcMoves
<1>5. row # Nothing /\ Stored(d)'
    BY <1>3, NothingAssumption DEF Stored
<1>6. /\ row.status = "failed" => row.attempts < MaxAttempts
      /\ row.status = "delivered" => d \in acked
      /\ row.status # "pending"
    BY <1>1, <1>2, <1>3 DEF ProcInv, Outcomes
<1>7. ProcInv(w, d)'
  <2>1. p.pc = "rewrite" => p.attempt + 1 < MaxAttempts
      BY <1>3, <1>6 DEF Outcomes
  <2>2. p.pc \in {"unschedule", "bury", "rewrite"}
      BY <1>3 DEF Outcomes
  <2>3. proc'[w][d] = p
      BY <1>3 DEF ProcMoves
  <2> QED
      BY <1>5, <2>1, <2>2, <2>3 DEF ProcInv, Active
<1>8. EnqInv(d)' /\ RowInv(d)'
  <2>1. EnqInv(d) /\ RowInv(d) /\ Stored(d)
      BY <1>1, <1>2 DEF Base, ProcInv, Active
  <2>2. EnqInv(d)'
      BY <2>1, <1>1, <1>3, <1>5 DEF EnqInv, Stored
  <2>3. RowInv(d)'
      BY <2>1, <1>1, <1>3, <1>5, <1>6 DEF RowInv, Stored, Unfinished, history, redis
  <2> QED
      BY <2>2, <2>3
<1> QED
    BY <1>1, <1>3, <1>4, <1>5, <1>7, <1>8, ProcessBase DEF redis, history

(* The rest of process() leaves the rows alone; it lists a dead letter of  *)
(* a stored row, and schedules a retry.                                    *)
LEMMA CleanupBase ==
    ASSUME Base, NEW w \in Workers, NEW d \in Ids, Active(w, d), NEW p \in ProcType,
           ProcMoves(w, d, p), Types', p.pc \notin {"record", "rewrite"},
           \A e \in Ids \ {d} : dead'[e] = dead[e] /\ scheduled'[e] = scheduled[e],
           UNCHANGED <<rows, enq, tick, recov, acked>>
    PROVE  Base'
<1>1. EnqInv(d) /\ RowInv(d) /\ Stored(d)
    BY DEF Base, ProcInv
<1>2. EnqInv(d)' /\ RowInv(d)'
    BY <1>1 DEF EnqInv, RowInv, Stored, Unfinished
<1>3. ProcInv(w, d)'
    BY <1>1 DEF ProcInv, ProcMoves, Stored
<1> QED
    BY <1>2, <1>3, ProcessBase

LEMMA ProcessRestBase ==
    ASSUME Base, NEW w \in Workers, NEW d \in Ids,
           \/ DeadLetter(w, d) \/ Unschedule(w, d) \/ LeaveSession(w, d) \/ DeleteJob(w, d)
           \/ RewriteJob(w, d) \/ Reschedule(w, d) \/ FailProcess(w, d)
    PROVE  Base'
<1>0. /\ proc \in [Workers -> [Ids -> ProcType]]
      /\ jobs \in [Ids -> {NoJob} \cup 0..(MaxAttempts - 1)]
      /\ scheduled \in [Ids -> {"no", "due", "later"}]
      /\ dead \in [Ids -> {"no", "listed", "retried"}]
      /\ crashes \in 0..MaxFaults /\ throws \in 0..MaxFaults
    BY DEF Base, Types, PgTypes, RedisTypes, CountTypes
<1>1. ASSUME NEW pc \in ProcPlaces, ProcTo(w, d, pc) PROVE \E p \in ProcType : ProcMoves(w, d, p) /\ p.pc = pc
    BY <1>1, <1>0, ProcToMoves
<1>2. ASSUME Settle(w, d) PROVE \E p \in ProcType : ProcMoves(w, d, p) /\ p.pc = "idle"
  <2>1. IdleProc \in ProcType
      BY LimitsAssumption DEF IdleProc, ProcType, ProcPlaces
  <2> QED
      BY <1>2, <1>0, <2>1, SettleMoves
<1>3. CASE DeadLetter(w, d)
  <2>1. /\ proc[w][d].pc = "bury"
        /\ dead' = [dead EXCEPT ![d] = IF @ = "no" THEN "listed" ELSE @]
        /\ UNCHANGED <<rows, redis, enq, tick, recov, history, counts>>
        /\ Settle(w, d) \/ ProcTo(w, d, "unschedule")
      BY <1>3 DEF DeadLetter
  <2>2. PICK p \in ProcType : ProcMoves(w, d, p) /\ p.pc \in {"idle", "unschedule"}
      BY <2>1, <1>1, <1>2 DEF ProcPlaces
  <2>3. dead' \in [Ids -> {"no", "listed", "retried"}]
        /\ \A e \in Ids \ {d} : dead'[e] = dead[e]
      BY <2>1, <1>0
  <2>4. Types'
      BY <2>1, <2>2, <2>3
         DEF Base, Types, PgTypes, RedisTypes, CountTypes, redis, history, counts, ProcMoves
  <2> QED
      BY <2>1, <2>2, <2>3, <2>4, CleanupBase DEF Active, redis, history
<1>4. CASE Unschedule(w, d)
  <2>1. /\ proc[w][d].pc = "unschedule" /\ ProcTo(w, d, "leave")
        /\ scheduled' = [scheduled EXCEPT ![d] = "no"]
        /\ UNCHANGED <<pg, seqs, jobs, waiting, enq, tick, recov, history, counts>>
      BY <1>4 DEF Unschedule
  <2>2. PICK p \in ProcType : ProcMoves(w, d, p) /\ p.pc = "leave"
      BY <2>1, <1>1 DEF ProcPlaces
  <2>3. scheduled' \in [Ids -> {"no", "due", "later"}]
        /\ \A e \in Ids \ {d} : scheduled'[e] = scheduled[e]
      BY <2>1, <1>0
  <2>4. Types'
      BY <2>1, <2>2, <2>3
         DEF Base, Types, PgTypes, RedisTypes, CountTypes, pg, history, counts, ProcMoves
  <2> QED
      BY <2>1, <2>2, <2>3, <2>4, CleanupBase DEF Active, pg, history
<1>5. CASE LeaveSession(w, d)
  <2>1. /\ proc[w][d].pc = "leave" /\ ProcTo(w, d, "delete") /\ waiting' = waiting \ {d}
        /\ UNCHANGED <<pg, seqs, jobs, scheduled, enq, tick, recov, history, counts>>
      BY <1>5 DEF LeaveSession
  <2>2. PICK p \in ProcType : ProcMoves(w, d, p) /\ p.pc = "delete"
      BY <2>1, <1>1 DEF ProcPlaces
  <2>3. Types'
      BY <2>1, <2>2
         DEF Base, Types, PgTypes, RedisTypes, CountTypes, pg, history, counts, ProcMoves
  <2> QED
      BY <2>1, <2>2, <2>3, CleanupBase DEF Active, pg, history
<1>6. CASE DeleteJob(w, d)
  <2>1. /\ proc[w][d].pc = "delete" /\ Settle(w, d) /\ jobs' = [jobs EXCEPT ![d] = NoJob]
        /\ UNCHANGED <<pg, seqs, waiting, scheduled, enq, tick, recov, history, counts>>
      BY <1>6 DEF DeleteJob
  <2>2. PICK p \in ProcType : ProcMoves(w, d, p) /\ p.pc = "idle"
      BY <2>1, <1>2
  <2>3. jobs' \in [Ids -> {NoJob} \cup 0..(MaxAttempts - 1)]
      BY <2>1, <1>0
  <2>4. Types'
      BY <2>1, <2>2, <2>3
         DEF Base, Types, PgTypes, RedisTypes, CountTypes, pg, history, counts, ProcMoves
  <2> QED
      BY <2>1, <2>2, <2>4, CleanupBase DEF Active, pg, history
<1>7. CASE RewriteJob(w, d)
  <2>1. PICK n : n = proc[w][d].attempt + 1
      OBVIOUS
  <2>2. /\ proc[w][d].pc = "rewrite" /\ ProcTo(w, d, "reschedule")
        /\ jobs' = [jobs EXCEPT ![d] = n]
        /\ UNCHANGED <<pg, seqs, waiting, scheduled, enq, tick, recov, history, counts>>
      BY <1>7, <2>1 DEF RewriteJob
  <2>3. PICK p \in ProcType : ProcMoves(w, d, p) /\ p.pc = "reschedule"
      BY <2>2, <1>1 DEF ProcPlaces
  <2>4. n \in 0..(MaxAttempts - 1)
    <3>1. proc[w][d].attempt \in 0..(MaxAttempts - 1) /\ n < MaxAttempts
        BY <2>1, <2>2, <1>0 DEF Base, ProcInv, ProcType
    <3> QED
        BY <3>1, <2>1, LimitsAssumption
  <2>5. jobs' \in [Ids -> {NoJob} \cup 0..(MaxAttempts - 1)]
      BY <2>2, <2>4, <1>0
  <2>6. Types'
      BY <2>2, <2>3, <2>5
         DEF Base, Types, PgTypes, RedisTypes, CountTypes, pg, history, counts, ProcMoves
  <2> QED
      BY <2>2, <2>3, <2>6, CleanupBase DEF Active, pg, history
<1>8. CASE Reschedule(w, d)
  <2>1. /\ proc[w][d].pc = "reschedule" /\ Settle(w, d)
        /\ scheduled' = [scheduled EXCEPT ![d] = "later"]
        /\ UNCHANGED <<pg, seqs, jobs, waiting, enq, tick, recov, history, counts>>
      BY <1>8 DEF Reschedule
  <2>2. PICK p \in ProcType : ProcMoves(w, d, p) /\ p.pc = "idle"
      BY <2>1, <1>2
  <2>3. scheduled' \in [Ids -> {"no", "due", "later"}]
        /\ \A e \in Ids \ {d} : scheduled'[e] = scheduled[e]
      BY <2>1, <1>0
  <2>4. Types'
      BY <2>1, <2>2, <2>3
         DEF Base, Types, PgTypes, RedisTypes, CountTypes, pg, history, counts, ProcMoves
  <2> QED
      BY <2>1, <2>2, <2>3, <2>4, CleanupBase DEF Active, pg, history
<1>9. CASE FailProcess(w, d)
  <2>1. /\ Active(w, d) /\ Settle(w, d)
        /\ crashes + throws < MaxFaults /\ throws' = throws + 1
        /\ UNCHANGED <<pg, redis, enq, tick, recov, history, crashes, lapsed>>
      BY <1>9 DEF FailProcess, Throw
  <2>2. PICK p \in ProcType : ProcMoves(w, d, p) /\ p.pc = "idle"
      BY <2>1, <1>2
  <2>3. throws' \in 0..MaxFaults
      BY <1>0, <2>1, QueueBoundsAssumption
  <2>4. Types'
      BY <2>1, <2>2, <2>3
         DEF Base, Types, PgTypes, RedisTypes, CountTypes, pg, redis, history, ProcMoves
  <2> QED
      BY <2>1, <2>2, <2>4, CleanupBase DEF pg, redis, history
<1> QED
    BY <1>3, <1>4, <1>5, <1>6, <1>7, <1>8, <1>9

-----------------------------------------------------------------------------
(* Base, step by step: startup, the sweep, crashes. *)

(* A step that changes the sweep of w, and schedules what has a row. *)
LEMMA SweepBase ==
    ASSUME Base, NEW w \in Workers, NEW r \in RecovType, RecovMoves(w, r), Types',
           r.pc \in {"write", "join", "schedule"} => r.job # Nothing,
           r.job # Nothing => Stored(r.job[1]),
           \A job \in r.todo : Stored(job[1]),
           \A d \in Ids : scheduled'[d] = scheduled[d] \/ Stored(d),
           \A v \in Workers : tick'[v] = tick[v] \/ TickInv(v)',
           UNCHANGED <<rows, dead, enq, proc, acked>>
    PROVE  Base'
<1>1. RecovInv(w)'
    BY DEF RecovInv, RecovMoves, Stored
<1>2. \A d \in Ids : RowInv(d)'
  <2> SUFFICES ASSUME NEW d \in Ids PROVE RowInv(d)'
      OBVIOUS
  <2>1. RowInv(d)
      BY DEF Base
  <2> QED
      BY <2>1 DEF RowInv, Stored, Unfinished
<1>3. \A d \in Ids : Stored(d) => Stored(d)'
    BY DEF Stored
<1> QED
    BY <1>1, <1>2, <1>3, BaseFrame DEF RecovMoves

(* The sweep reads the unfinished rows, and looks at one after the other. *)
LEMMA StartMoves ==
    ASSUME recov \in [Workers -> RecovType], rows \in [Ids -> {Nothing} \cup Row],
           \A d \in Ids : RowInv(d), NEW w \in Workers, Start(w)
    PROVE  \E r \in RecovType :
              /\ RecovMoves(w, r) /\ r.pc = "check" /\ r.job = Nothing
              /\ \A job \in r.todo : Unfinished(job[1])
              /\ \A d \in Ids : Unfinished(d) => \E job \in r.todo : job[1] = d
<1>1. PICK todo : todo = {<<d, rows[d].attempts>> : d \in {e \in Ids : Unfinished(e)}}
    OBVIOUS
<1>2. PICK r : r = [pc |-> "check", job |-> Nothing, todo |-> todo]
    OBVIOUS
<1>3. todo \subseteq Job
  <2>1. ASSUME NEW d \in Ids, Unfinished(d) PROVE <<d, rows[d].attempts>> \in Job
    <3>1. rows[d] \in Row /\ rows[d].attempts < MaxAttempts
        BY <2>1 DEF RowInv, Unfinished, Stored
    <3>2. rows[d].attempts \in 0..MaxAttempts
        BY <3>1 DEF Row
    <3> QED
        BY <3>1, <3>2, LimitsAssumption DEF Job
  <2> QED
      BY <1>1, <2>1
<1>4. r \in RecovType
    BY <1>2, <1>3 DEF RecovType
<1>5. recov' = [recov EXCEPT ![w] = r]
    BY <1>1, <1>2 DEF Start
<1>6. RecovMoves(w, r)
    BY <1>4, <1>5 DEF RecovMoves
<1>7. /\ \A job \in todo : Unfinished(job[1])
      /\ \A d \in Ids : Unfinished(d) => \E job \in todo : job[1] = d
  <2>1. \A d \in Ids : Unfinished(d) => <<d, rows[d].attempts>> \in todo
      BY <1>1
  <2>2. \A job \in todo : Unfinished(job[1])
      BY <1>1
  <2>3. ASSUME NEW d \in Ids, Unfinished(d) PROVE \E job \in todo : job[1] = d
    <3>1. <<d, rows[d].attempts>>[1] = d
        OBVIOUS
    <3> QED
        BY <2>1, <2>3, <3>1
  <2> QED
      BY <2>2, <2>3
<1> QED
    BY <1>2, <1>4, <1>6, <1>7

LEMMA CheckMoves ==
    ASSUME recov \in [Workers -> RecovType], NEW w \in Workers, NEW job \in recov[w].todo,
           CheckJob(w, job)
    PROVE  \E r \in RecovType :
              /\ RecovMoves(w, r) /\ r.job = job /\ r.todo = recov[w].todo \ {job}
              /\ r.pc = IF jobs[job[1]] = NoJob THEN "write" ELSE "check"
<1>1. PICK pc : pc = IF jobs[job[1]] = NoJob THEN "write" ELSE "check"
    OBVIOUS
<1>2. PICK r : r = [[[recov[w] EXCEPT !.todo = recov[w].todo \ {job}] EXCEPT !.pc = pc]
                    EXCEPT !.job = job]
    OBVIOUS
<1>3. r \in RecovType /\ r.job = job /\ r.todo = recov[w].todo \ {job} /\ r.pc = pc
  <2>1. recov[w] \in RecovType
      OBVIOUS
  <2>2. job \in Job
      BY <2>1 DEF RecovType
  <2> QED
      BY <2>1, <2>2, <1>1, <1>2 DEF RecovType
<1>4. recov' = [recov EXCEPT ![w] = r]
    BY <1>1, <1>2 DEF CheckJob
<1>5. RecovMoves(w, r)
    BY <1>3, <1>4 DEF RecovMoves
<1> QED
    BY <1>1, <1>3, <1>5

LEMMA SweepStepBase ==
    ASSUME Base, NEW w \in Workers, Start(w) \/ Sweep(w) \/ FailSweep(w)
    PROVE  Base'
<1>0. /\ recov \in [Workers -> RecovType] /\ recov[w] \in RecovType /\ RecovInv(w)
      /\ tick \in [Workers -> TickType] /\ seqs \in [Sessions -> Nat]
      /\ rows \in [Ids -> {Nothing} \cup Row]
      /\ jobs \in [Ids -> {NoJob} \cup 0..(MaxAttempts - 1)]
      /\ scheduled \in [Ids -> {"no", "due", "later"}]
      /\ crashes \in 0..MaxFaults /\ throws \in 0..MaxFaults
    BY DEF Base, Types, PgTypes, RedisTypes, CountTypes
<1>1. recov[w].job # Nothing => recov[w].job \in Job /\ recov[w].job[1] \in Ids
                                /\ recov[w].job[2] \in 0..(MaxAttempts - 1)
    BY <1>0 DEF RecovType, Job
<1>2. CASE Start(w)
  <2>1. TickTo(w, IdleTick) /\ UNCHANGED <<pg, redis, enq, proc, history, counts>>
      BY <1>2 DEF Start
  <2>2. \A d \in Ids : RowInv(d)
      BY DEF Base
  <2>3. PICK r \in RecovType :
           /\ RecovMoves(w, r) /\ r.pc = "check" /\ r.job = Nothing
           /\ \A job \in r.todo : Unfinished(job[1])
      BY <1>0, <1>2, <2>2, StartMoves
  <2>4. /\ tick' \in [Workers -> TickType] /\ tick'[w] = IdleTick
        /\ \A v \in Workers \ {w} : tick'[v] = tick[v]
      BY <1>0, <2>1, TickMoves, EmptyTick
  <2>5. Types'
      BY <2>1, <2>3, <2>4
         DEF Base, Types, PgTypes, RedisTypes, CountTypes, pg, redis, history, counts, RecovMoves
  <2>6. TickInv(w)'
      BY <2>4, EmptyTick, FS_EmptySet DEF TickInv
  <2>7. \A job \in r.todo : Stored(job[1])
      BY <2>3 DEF Unfinished
  <2> QED
      BY <2>1, <2>3, <2>4, <2>5, <2>6, <2>7, SweepBase DEF pg, redis, history
<1>3. ASSUME NEW job \in recov[w].todo, CheckJob(w, job) PROVE Base'
  <2>1. UNCHANGED <<pg, redis, enq, tick, proc, history, counts>>
      BY <1>3 DEF CheckJob
  <2>2. PICK r \in RecovType :
           RecovMoves(w, r) /\ r.job = job /\ r.todo = recov[w].todo \ {job}
      BY <1>0, <1>3, CheckMoves
  <2>3. Stored(job[1]) /\ \A j \in r.todo : Stored(j[1])
      BY <1>0, <2>2 DEF RecovInv
  <2>4. Types'
      BY <2>1, <2>2
         DEF Base, Types, PgTypes, RedisTypes, CountTypes, pg, redis, history, counts, RecovMoves
  <2>5. job # Nothing
      BY <1>0, NothingAssumption, LimitsAssumption DEF RecovType, Job, Picked
  <2> QED
      BY <2>1, <2>2, <2>3, <2>4, <2>5, SweepBase DEF pg, redis, history
<1>4. ASSUME NEW pc \in {"check", "write", "join", "schedule", "done"},
             recov[w].pc \in {"write", "join", "schedule"},
             recov' = [recov EXCEPT ![w].pc = pc],
             seqs' \in [Sessions -> Nat], waiting' \subseteq Ids,
             jobs' \in [Ids -> {NoJob} \cup 0..(MaxAttempts - 1)],
             scheduled' \in [Ids -> {"no", "due", "later"}],
             \A d \in Ids : scheduled'[d] = scheduled[d] \/ d = recov[w].job[1],
             UNCHANGED <<pg, enq, tick, proc, history, counts>>
      PROVE  Base'
  <2>0. recov' = [recov EXCEPT ![w].pc = pc]
      BY <1>4
  <2>1. PICK r \in RecovType : RecovMoves(w, r) /\ r.pc = pc
                               /\ r.todo = recov[w].todo /\ r.job = recov[w].job
      BY <1>0, <2>0, RecovToPlace
  <2>2. Types'
      BY <1>4, <2>1
         DEF Base, Types, PgTypes, RedisTypes, CountTypes, pg, history, counts, RecovMoves
  <2>3. recov[w].job # Nothing /\ Stored(recov[w].job[1]) /\ \A job \in recov[w].todo : Stored(job[1])
      BY <1>0, <1>4 DEF RecovInv
  <2>4. \A d \in Ids : scheduled'[d] = scheduled[d] \/ Stored(d)
      BY <1>4, <2>3
  <2> QED
      BY <1>4, <2>1, <2>2, <2>3, <2>4, SweepBase DEF pg, history
<1>5. CASE ReviveJob(w)
  <2>1. /\ recov[w].pc = "write" /\ recov' = [recov EXCEPT ![w].pc = "join"]
        /\ jobs' = [jobs EXCEPT ![recov[w].job[1]] = recov[w].job[2]]
        /\ UNCHANGED <<pg, seqs, waiting, scheduled, enq, tick, proc, history, counts>>
      BY <1>5 DEF ReviveJob
  <2>2. recov[w].job # Nothing
      BY <1>0, <2>1 DEF RecovInv
  <2>3. jobs' \in [Ids -> {NoJob} \cup 0..(MaxAttempts - 1)]
      BY <1>0, <1>1, <2>1, <2>2
  <2>4. waiting \subseteq Ids
      BY DEF Base, Types, RedisTypes
  <2> QED
      BY <1>0, <1>4, <2>1, <2>3, <2>4
<1>6. CASE ReviveOrder(w)
  <2>1. PICK d : d = recov[w].job[1]
      OBVIOUS
  <2>2. /\ recov[w].pc = "join" /\ recov' = [recov EXCEPT ![w].pc = "schedule"]
        /\ waiting' = waiting \cup {d}
        /\ seqs' = [seqs EXCEPT ![rows[d].session] = IF @ < rows[d].seq THEN rows[d].seq ELSE @]
        /\ UNCHANGED <<pg, jobs, scheduled, enq, tick, proc, history, counts>>
      BY <1>6, <2>1 DEF ReviveOrder
  <2>3. d \in Ids /\ rows[d] \in Row
      BY <1>0, <1>1, <2>1, <2>2 DEF RecovInv, Stored
  <2>4. seqs' \in [Sessions -> Nat]
    <3>1. rows[d].session \in Sessions /\ rows[d].seq \in Nat
        BY <2>3 DEF Row
    <3> QED
        BY <1>0, <2>2, <3>1
  <2>5. waiting' \subseteq Ids
      BY <2>2, <2>3 DEF Base, Types, RedisTypes
  <2> QED
      BY <1>0, <1>4, <2>2, <2>4, <2>5
<1>7. CASE ReviveSchedule(w)
  <2>1. /\ recov[w].pc = "schedule" /\ recov' = [recov EXCEPT ![w].pc = "check"]
        /\ scheduled' = [scheduled EXCEPT ![recov[w].job[1]] = "due"]
        /\ UNCHANGED <<pg, seqs, jobs, waiting, enq, tick, proc, history, counts>>
      BY <1>7 DEF ReviveSchedule
  <2>2. /\ scheduled' \in [Ids -> {"no", "due", "later"}]
        /\ \A d \in Ids : scheduled'[d] = scheduled[d] \/ d = recov[w].job[1]
      BY <1>0, <2>1
  <2>3. waiting \subseteq Ids
      BY DEF Base, Types, RedisTypes
  <2> QED
      BY <1>0, <1>4, <2>1, <2>2, <2>3
<1>8. CASE FinishSweep(w) \/ FailSweep(w)
  <2>1. /\ recov' = [recov EXCEPT ![w] = NoSweep]
        /\ throws' \in 0..MaxFaults
        /\ UNCHANGED <<pg, redis, enq, tick, proc, history, crashes, lapsed>>
    <3>1. CASE FinishSweep(w)
        BY <1>0, <3>1 DEF FinishSweep, counts
    <3>2. CASE FailSweep(w)
      <4>1. crashes + throws < MaxFaults /\ throws' = throws + 1
            /\ UNCHANGED <<crashes, lapsed>>
          BY <3>2 DEF FailSweep, Throw
      <4>2. throws' \in 0..MaxFaults
          BY <1>0, <4>1, QueueBoundsAssumption
      <4> QED
          BY <3>2, <4>1, <4>2 DEF FailSweep
    <3> QED
        BY <1>8, <3>1, <3>2
  <2>2. /\ RecovMoves(w, NoSweep)
        /\ NoSweep.pc = "done" /\ NoSweep.todo = {} /\ NoSweep.job = Nothing
      BY <1>0, <2>1, SweepEnds
  <2>3. Types'
      BY <2>1, <2>2
         DEF Base, Types, PgTypes, RedisTypes, CountTypes, pg, redis, history, RecovMoves
  <2>4. NoSweep \in RecovType
      BY <2>2 DEF RecovMoves
  <2> QED
      BY <2>1, <2>2, <2>3, <2>4, SweepBase DEF pg, redis, history
<1> QED
    BY <1>2, <1>3, <1>5, <1>6, <1>7, <1>8 DEF Sweep

(* An instance stops: nothing of it goes on. *)
CrashMoves(w) ==
    /\ tick' \in [Workers -> TickType] /\ tick'[w] = [IdleTick EXCEPT !.pc = "down"]
    /\ \A v \in Workers \ {w} : tick'[v] = tick[v]
    /\ proc' \in [Workers -> [Ids -> ProcType]]
    /\ \A d \in Ids : proc'[w][d] = IdleProc
    /\ \A v \in Workers \ {w} : proc'[v] = proc[v]
    /\ RecovMoves(w, NoSweep)
    /\ enq' \in [Ids -> EnqType]
    /\ \A d \in Ids : \/ enq'[d] = enq[d]
                      \/ /\ Enqueueing(d) /\ enq'[d].pc = "failed"
                         /\ enq'[d].session = enq[d].session /\ enq'[d].seq = enq[d].seq
                         /\ enq'[d].of = enq[d].of /\ enq'[d].after = enq[d].after
    /\ \A d \in Ids : enq'[d] = enq[d] => ~(Enqueueing(d) /\ enq[d].by = w)
    /\ crashes + throws < MaxFaults /\ crashes' = crashes + 1
    /\ UNCHANGED <<pg, redis, history, throws, lapsed>>

LEMMA CrashChanges == ASSUME Types, NEW w \in Workers, Crash(w) PROVE CrashMoves(w)
<1>1. /\ tick' \in [Workers -> TickType] /\ tick'[w] = [IdleTick EXCEPT !.pc = "down"]
      /\ \A v \in Workers \ {w} : tick'[v] = tick[v]
  <2>1. TickTo(w, [IdleTick EXCEPT !.pc = "down"])
      BY DEF Crash
  <2> QED
      BY <2>1, TickMoves, EmptyTick DEF Types
<1>2. /\ proc' \in [Workers -> [Ids -> ProcType]]
      /\ \A d \in Ids : proc'[w][d] = IdleProc
      /\ \A v \in Workers \ {w} : proc'[v] = proc[v]
  <2>1. IdleProc \in ProcType
      BY LimitsAssumption DEF IdleProc, ProcType, ProcPlaces
  <2>2. proc' = [proc EXCEPT ![w] = [d \in Ids |-> IdleProc]]
      BY DEF Crash
  <2> QED
      BY <2>1, <2>2 DEF Types
<1>3. RecovMoves(w, NoSweep)
    BY SweepEnds DEF Crash, Types
<1>4. /\ enq' \in [Ids -> EnqType]
      /\ \A d \in Ids : \/ enq'[d] = enq[d]
                        \/ /\ Enqueueing(d) /\ enq'[d].pc = "failed"
                           /\ enq'[d].session = enq[d].session /\ enq'[d].seq = enq[d].seq
                           /\ enq'[d].of = enq[d].of /\ enq'[d].after = enq[d].after
      /\ \A d \in Ids : enq'[d] = enq[d] => ~(Enqueueing(d) /\ enq[d].by = w)
  <2>1. enq' = [d \in Ids |-> IF Enqueueing(d) /\ enq[d].by = w
                              THEN [enq[d] EXCEPT !.pc = "failed"] ELSE enq[d]]
      BY DEF Crash
  <2>2. ASSUME NEW d \in Ids, NEW x, x = [enq[d] EXCEPT !.pc = "failed"]
        PROVE  /\ x \in EnqType /\ x.pc = "failed" /\ x.session = enq[d].session
               /\ x.seq = enq[d].seq /\ x.of = enq[d].of /\ x.after = enq[d].after
    <3>1. enq[d] \in EnqType
        BY DEF Types
    <3> QED
        BY <2>2, <3>1 DEF EnqType
  <2>3. \A d \in Ids : enq'[d] = IF Enqueueing(d) /\ enq[d].by = w
                                 THEN [enq[d] EXCEPT !.pc = "failed"] ELSE enq[d]
      BY <2>1
  <2>4. \A d \in Ids : enq'[d] \in EnqType
      BY <2>2, <2>3 DEF Types
  <2>5. enq' \in [Ids -> EnqType]
      BY <2>1, <2>4
  <2>6. \A d \in Ids : enq'[d] = enq[d] => ~(Enqueueing(d) /\ enq[d].by = w)
    <3>1. ASSUME NEW d \in Ids, enq'[d] = enq[d], Enqueueing(d), enq[d].by = w PROVE FALSE
      <4>1. enq'[d].pc = "failed"
          BY <2>2, <2>3, <3>1
      <4> QED
          BY <3>1, <4>1 DEF Enqueueing
    <3> QED
        BY <3>1
  <2> QED
      BY <2>2, <2>3, <2>5, <2>6
<1> QED
    BY <1>1, <1>2, <1>3, <1>4 DEF Crash, CrashMoves

LEMMA CrashBase == ASSUME Base, NEW w \in Workers, Crash(w) PROVE Base'
<1>1. CrashMoves(w)
    BY CrashChanges DEF Base
<1>2. Types'
  <2>1. crashes' \in 0..MaxFaults /\ throws' \in 0..MaxFaults
      BY <1>1, QueueBoundsAssumption DEF Base, Types, CountTypes, CrashMoves
  <2> QED
      BY <1>1, <2>1 DEF Base, Types, PgTypes, RedisTypes, CountTypes, CrashMoves,
                        pg, redis, history, RecovMoves
<1>3. ASSUME NEW d \in Ids PROVE enq'[d] = enq[d] \/ EnqInv(d)'
  <2>1. EnqInv(d)
      BY DEF Base
  <2>2. rows' = rows
      BY <1>1 DEF CrashMoves, pg
  <2> QED
      BY <1>1, <2>1, <2>2 DEF EnqInv, CrashMoves, Enqueueing, Stored
<1>4. TickInv(w)' /\ RecovInv(w)'
  <2>1. TickInv(w)'
      BY <1>1, EmptyTick, FS_EmptySet DEF CrashMoves, TickInv
  <2>2. recov'[w] = NoSweep
      BY <1>1 DEF CrashMoves, RecovMoves
  <2>3. RecovInv(w)'
      BY <2>2 DEF RecovInv, NoSweep
  <2> QED
      BY <2>1, <2>3
<1>5. Inflight(w)' = {} /\ \A d \in Ids : ProcInv(w, d)'
    BY <1>1 DEF CrashMoves, ProcInv, Active, Inflight, IdleProc
<1>6. /\ rows' = rows /\ dead' = dead /\ scheduled' = scheduled /\ acked' = acked
      /\ \A v \in Workers \ {w} : tick'[v] = tick[v] /\ proc'[v] = proc[v]
                                  /\ recov'[v] = recov[v]
    BY <1>1 DEF CrashMoves, pg, redis, history, RecovMoves
<1>7. \A d \in Ids : Stored(d) => Stored(d)'
    BY <1>6 DEF Stored
<1> QED
    BY <1>2, <1>3, <1>4, <1>5, <1>6, <1>7, FS_EmptySet, BaseFrame

LEMMA RestBase ==
    ASSUME Base, Lapse \/ \E d \in Ids : Elapse(d) \/ DismissDeadLetter(d)
    PROVE  Base'
<1>0. /\ scheduled \in [Ids -> {"no", "due", "later"}]
      /\ dead \in [Ids -> {"no", "listed", "retried"}]
    BY DEF Base, Types, PgTypes, RedisTypes
<1>1. /\ Types'
      /\ \A d \in Ids : scheduled'[d] # "no" => scheduled[d] # "no"
      /\ \A d \in Ids : dead'[d] # "no" => dead[d] # "no"
      /\ UNCHANGED <<rows, enq, tick, proc, recov, acked>>
  <2>1. CASE Lapse
      BY <2>1 DEF Lapse, Base, Types, PgTypes, RedisTypes, CountTypes, pg, history
  <2>2. ASSUME NEW d \in Ids, Elapse(d)
        PROVE  /\ Types' /\ dead' = dead
               /\ \A e \in Ids : scheduled'[e] # "no" => scheduled[e] # "no"
               /\ UNCHANGED <<rows, enq, tick, proc, recov, acked>>
    <3>1. /\ scheduled' \in [Ids -> {"no", "due", "later"}]
          /\ \A e \in Ids : scheduled'[e] # "no" => scheduled[e] # "no"
        BY <1>0, <2>2 DEF Elapse
    <3> QED
        BY <2>2, <3>1
           DEF Elapse, Base, Types, PgTypes, RedisTypes, CountTypes, pg, history, counts
  <2>3. ASSUME NEW d \in Ids, DismissDeadLetter(d)
        PROVE  /\ Types' /\ scheduled' = scheduled
               /\ \A e \in Ids : dead'[e] # "no" => dead[e] # "no"
               /\ UNCHANGED <<rows, enq, tick, proc, recov, acked>>
    <3>1. /\ dead' \in [Ids -> {"no", "listed", "retried"}]
          /\ \A e \in Ids : dead'[e] # "no" => dead[e] # "no"
        BY <1>0, <2>3 DEF DismissDeadLetter
    <3> QED
        BY <2>3, <3>1
           DEF DismissDeadLetter, Base, Types, PgTypes, RedisTypes, CountTypes, redis,
               history, counts
  <2>4. CASE Lapse
      BY <2>1, <2>4 DEF Lapse, pg, history
  <2> QED
      BY <2>2, <2>3, <2>1, <2>4 DEF Lapse, pg, history
<1>2. \A d \in Ids : RowInv(d)'
  <2> SUFFICES ASSUME NEW d \in Ids PROVE RowInv(d)'
      OBVIOUS
  <2>1. RowInv(d)
      BY DEF Base
  <2> QED
      BY <1>1, <2>1 DEF RowInv, Stored, Unfinished
<1>3. \A d \in Ids : Stored(d) => Stored(d)'
    BY <1>1 DEF Stored
<1> QED
    BY <1>1, <1>2, <1>3, BaseFrame

LEMMA NextBase == Base /\ [Next]_vars => Base'
<1> SUFFICES ASSUME Base, [Next]_vars PROVE Base'
    OBVIOUS
<1>1. ASSUME NEW d \in Ids, EnqueueStep(d) \/ FailEnqueue(d) PROVE Base'
    BY <1>1, InsertBase, EnqueueStepBase DEF EnqueueStep
<1>2. ASSUME NEW w \in Workers, Tick(w) \/ FailTick(w) PROVE Base'
    BY <1>2, TickBase, DispatchBase DEF Tick
<1>3. ASSUME NEW w \in Workers, NEW d \in Ids, Process(w, d) \/ FailProcess(w, d) PROVE Base'
    BY <1>3, DeliverBase, RecordBase, ProcessRestBase DEF Process
<1>4. ASSUME NEW w \in Workers, Start(w) \/ Sweep(w) \/ FailSweep(w) \/ Crash(w) PROVE Base'
    BY <1>4, SweepStepBase, CrashBase
<1>5. ASSUME NEW w \in Workers, NEW d \in Ids, NEW s \in Sessions, Enqueue(w, d, s) PROVE Base'
    BY <1>5, StartBase DEF Enqueue
<1>6. ASSUME NEW w \in Workers, NEW d \in Ids, NEW e \in Ids, Requeue(w, d, e) PROVE Base'
  <2>1. dead[e] # "no" /\ StartEnqueue(w, d, rows[e].session, e)
      BY <1>6 DEF Requeue
  <2>2. rows[e] \in Row
      BY <2>1 DEF Base, RowInv, Types, PgTypes, Stored
  <2>3. rows[e].session \in Sessions
      BY <2>2 DEF Row
  <2> QED
      BY <2>1, <2>3, StartBase
<1>7. CASE UNCHANGED vars
  <2>1. Types'
      BY <1>7 DEF Base, Types, PgTypes, RedisTypes, CountTypes, vars, pg, redis, history, counts
  <2>2. UNCHANGED <<rows, dead, scheduled, enq, tick, proc, recov, acked>>
      BY <1>7 DEF vars, pg, redis, history
  <2>3. \A d \in Ids : Stored(d) => Stored(d)'
      BY <2>2 DEF Stored
  <2> QED
      BY <2>1, <2>2, <2>3, BaseFrame
<1> QED
    BY <1>1, <1>2, <1>3, <1>4, <1>5, <1>6, <1>7, RestBase DEF Next

LEMMA AlwaysBase == Spec => []Base
BY InitBase, NextBase, PTL DEF Spec

(* Type correctness: rows, keys and the state of every call stay within    *)
(* their types whatever the instances interleave; in particular no attempt *)
(* number passes MAX_ATTEMPTS, through retries, crashes and revivals.      *)
THEOREM Typing == Spec => []TypeOK
BY AlwaysBase, BaseImplies, PTL

(* A row says 'delivered' only of an event the endpoint has acknowledged,  *)
(* with any number of instances and through crashes, exceptions and the    *)
(* loss of Redis.                                                          *)
THEOREM DeliveredWasAcked == Spec => []DeliveredIsAcked
BY AlwaysBase, BaseImplies, PTL

-----------------------------------------------------------------------------
(* What holds with one instance. *)

(* "a single in-process worker"                                            *)
OneWorker == \E w \in Workers : Workers = {w}

(* Nothing runs on an instance that is down. *)
DownInv(w) ==
    tick[w].pc = "down" =>
        /\ \A d \in Ids : ~Active(w, d)
        /\ recov[w].pc = "done" /\ tick[w].picks = {}

(* No other job of the session of d is in process(). *)
Alone(w, d) == \A e \in Ids : Active(w, e) /\ SameSession(d, e) => d = e

(* The events enqueued before d are over. *)
AfterOver(d) == ~lapsed => \A e \in enq[d].after : Finished(e)

(* A job in process() is in its session and has its hash until the cleanup *)
(* has come to them, and the cleanup is of a finished delivery.            *)
ActiveInv(w, d) ==
    Active(w, d) =>
        /\ Alone(w, d) /\ AfterOver(d)
        /\ jobs[d] # NoJob
        /\ proc[w][d].pc # "delete" => d \in waiting
        /\ proc[w][d].pc \in {"bury", "unschedule", "leave", "delete"} => Finished(d)

(* The job at the head of its session, and those picked, wait for the end  *)
(* of the pass while no other job of their session runs.                   *)
PassInv(w) ==
    /\ tick[w].pc = "head" =>
          /\ ~SessionBusy(w, tick[w].job[1])
          /\ jobs[tick[w].job[1]] # NoJob
    /\ \A job \in tick[w].picks :
          /\ ~SessionBusy(w, job[1]) /\ AfterOver(job[1])
          /\ jobs[job[1]] # NoJob /\ job[1] \in waiting

(* An unfinished delivery that has joined its session is still there, as   *)
(* long as the keys live; so is the counter of the session.                *)
JoinedInv(d) ==
    ~lapsed /\ enq[d].pc \in {"schedule", "mark", "done"} /\ Unfinished(d) => d \in waiting

OrderInv(d) ==
    /\ ~lapsed /\ enq[d].pc # "new" => enq[d].seq <= seqs[enq[d].session]
    /\ \A e \in enq[d].after :
          /\ enq[e].pc = "done" /\ enq[e].session = enq[d].session
          /\ ~lapsed => enq[e].seq < enq[d].seq

(* While the sweep runs, an unfinished row has its hash, or is still to be *)
(* looked at, or is being revived.                                         *)
SweepInv(w) ==
    recov[w].pc # "done" /\ throws = 0 =>
        \A d \in Ids : Unfinished(d) /\ enq[d].pc # "write" =>
            \/ jobs[d] # NoJob
            \/ \E job \in recov[w].todo : job[1] = d
            \/ recov[w].pc = "write" /\ recov[w].job[1] = d

Single ==
    /\ OneWorker
    /\ \A w \in Workers : DownInv(w) /\ PassInv(w) /\ SweepInv(w)
    /\ \A w \in Workers, d \in Ids : ActiveInv(w, d)
    /\ \A d \in Ids : JoinedInv(d) /\ OrderInv(d)

LEMMA InitSingle == ASSUME Init, OneWorker PROVE Single
<1>1. \A w \in Workers, d \in Ids : ~Active(w, d)
    BY DEF Init, Active, IdleProc
<1>2. \A w \in Workers : recov[w].pc = "done" /\ tick[w].pc = "down" /\ tick[w].picks = {}
    BY DEF Init, NoSweep, IdleTick
<1>3. \A d \in Ids : enq[d].pc = "new" /\ enq[d].after = {}
    BY DEF Init, NewEnq
<1>4. \A w \in Workers : DownInv(w) /\ PassInv(w) /\ SweepInv(w)
    BY <1>1, <1>2 DEF DownInv, PassInv, SweepInv
<1>5. \A w \in Workers, d \in Ids : ActiveInv(w, d)
    BY <1>1 DEF ActiveInv
<1>6. \A d \in Ids : JoinedInv(d) /\ OrderInv(d)
    BY <1>3 DEF JoinedInv, OrderInv
<1> QED
    BY <1>4, <1>5, <1>6 DEF Single

(* A row without an end is unfinished. *)
LEMMA StoredIsEither ==
    ASSUME Base, NEW d \in Ids, Stored(d) PROVE Unfinished(d) \/ Finished(d)
<1>1. rows[d] \in Row
    BY DEF Base, Types, PgTypes, Stored
<1> QED
    BY <1>1 DEF Row, Unfinished, Finished

(* The events enqueued before d are of its session and before it. *)
LEMMA AfterIsEarlier ==
    ASSUME Base, Single, NEW d \in Ids, Stored(d), NEW e \in enq[d].after
    PROVE  e \in Ids /\ SameSession(d, e) /\ (~lapsed => Earlier(e, d)) /\ enq[e].pc = "done"
<1>1. e \in Ids
    BY DEF Base, Types, EnqType
<1>2. OrderInv(d) /\ EnqInv(d) /\ EnqInv(e)
    BY <1>1 DEF Single, Base
<1>3. enq[e].pc = "done" /\ Stored(e)
    BY <1>2 DEF OrderInv, EnqInv
<1> QED
    BY <1>1, <1>2, <1>3 DEF OrderInv, EnqInv, SameSession, Earlier

(* A step that starts no process() call, and touches what the others and   *)
(* the pass rely on only for the jobs of X, which are in process().        *)
Undisturbed(w, X) ==
    /\ \A x \in X : Active(w, x)
    /\ lapsed' = lapsed
    /\ \A e \in Ids : Stored(e) =>
          /\ Stored(e)' /\ rows'[e].session = rows[e].session /\ rows'[e].seq = rows[e].seq
          /\ enq'[e].after = enq[e].after
    /\ \A e \in Ids \ X :
          /\ Finished(e) => Finished(e)'
          /\ jobs[e] # NoJob => jobs'[e] # NoJob
          /\ e \in waiting => e \in waiting'
    /\ \A e \in Ids : Active(w, e)' => Active(w, e)

LEMMA BusyFrame ==
    ASSUME Base, Single, NEW w \in Workers, NEW X \in SUBSET Ids, Undisturbed(w, X),
           NEW d \in Ids, Stored(d), ~SessionBusy(w, d)
    PROVE  /\ ~SessionBusy(w, d)' /\ d \notin X
           /\ AfterOver(d) => AfterOver(d)'
<1>1. \A e \in Ids : Active(w, e) => ~SameSession(d, e)
    BY DEF SessionBusy, Inflight
<1>2. d \notin X
    BY <1>1 DEF Undisturbed, SameSession
<1>3. \A e \in Ids : Active(w, e) => Stored(e)
    BY DEF Base, ProcInv
<1>4. ASSUME NEW e \in Ids, Active(w, e)', SameSession(d, e)' PROVE FALSE
  <2>1. Active(w, e) /\ Stored(e)
      BY <1>3, <1>4 DEF Undisturbed
  <2>2. SameSession(d, e)
      BY <1>4, <2>1 DEF Undisturbed, SameSession
  <2> QED
      BY <1>1, <2>1, <2>2
<1>5. ~SessionBusy(w, d)'
    BY <1>4 DEF SessionBusy, Inflight
<1>6. ASSUME AfterOver(d), ~lapsed, NEW e \in enq[d].after PROVE Finished(e)'
  <2>1. e \in Ids /\ SameSession(d, e)
      BY AfterIsEarlier
  <2>2. e \notin X
      BY <1>1, <2>1 DEF Undisturbed
  <2>3. Finished(e)
      BY <1>6 DEF AfterOver
  <2> QED
      BY <2>1, <2>2, <2>3 DEF Undisturbed
<1>7. enq'[d].after = enq[d].after /\ lapsed' = lapsed
    BY DEF Undisturbed
<1> QED
    BY <1>2, <1>5, <1>6, <1>7 DEF AfterOver

(* The pass that stays where it is. *)
LEMMA PassFrame ==
    ASSUME Base, Single, NEW w \in Workers, NEW X \in SUBSET Ids, Undisturbed(w, X),
           tick'[w] = tick[w]
    PROVE  PassInv(w)'
<1>1. PassInv(w) /\ TickInv(w) /\ tick[w] \in TickType
    BY DEF Single, Base, Types
<1>2. ASSUME tick[w].pc = "head"
      PROVE  ~SessionBusy(w, tick[w].job[1])' /\ jobs'[tick[w].job[1]] # NoJob
  <2>1. PICK d \in Ids : d = tick[w].job[1] /\ Stored(d) /\ ~SessionBusy(w, d) /\ jobs[d] # NoJob
      BY <1>1, <1>2 DEF PassInv, TickInv, TickType, Job
  <2>2. ~SessionBusy(w, d)' /\ d \notin X
      BY <2>1, BusyFrame
  <2>3. jobs'[d] # NoJob
      BY <2>1, <2>2 DEF Undisturbed
  <2>4. tick'[w].job[1] = d
      BY <2>1
  <2> QED
      BY <2>1, <2>2, <2>3
<1>3. ASSUME NEW job \in tick[w].picks
      PROVE  /\ ~SessionBusy(w, job[1])' /\ AfterOver(job[1])'
             /\ jobs'[job[1]] # NoJob /\ job[1] \in waiting'
  <2>1. PICK d \in Ids : /\ d = job[1] /\ Stored(d) /\ ~SessionBusy(w, d) /\ AfterOver(d)
                         /\ jobs[d] # NoJob /\ d \in waiting
      BY <1>1, <1>3 DEF PassInv, TickInv, TickType, Job
  <2>2. ~SessionBusy(w, d)' /\ AfterOver(d)' /\ d \notin X
      BY <2>1, BusyFrame
  <2>3. jobs'[d] # NoJob /\ d \in waiting'
      BY <2>1, <2>2 DEF Undisturbed
  <2> QED
      BY <2>1, <2>2, <2>3
<1> QED
    BY <1>2, <1>3 DEF PassInv

(* The calls that go on: alone in their session as before, and after what  *)
(* came before them.                                                       *)
LEMMA AloneFrame ==
    ASSUME Base, Single, NEW w \in Workers, NEW X \in SUBSET Ids, Undisturbed(w, X),
           NEW d \in Ids, Active(w, d)
    PROVE  Alone(w, d)' /\ AfterOver(d)'
<1>1. /\ Alone(w, d) /\ AfterOver(d) /\ Stored(d)
      /\ \A e \in Ids : Active(w, e) => Stored(e)
    BY DEF Single, ActiveInv, Base, ProcInv
<1>2. ASSUME NEW e \in Ids, Active(w, e)', SameSession(d, e)' PROVE d = e
  <2>1. Active(w, e) /\ Stored(e)
      BY <1>1, <1>2 DEF Undisturbed
  <2>2. SameSession(d, e)
      BY <1>1, <1>2, <2>1 DEF Undisturbed, SameSession
  <2> QED
      BY <1>1, <2>1, <2>2 DEF Alone
<1>3. ASSUME ~lapsed, NEW e \in enq[d].after PROVE Finished(e)'
  <2>1. e \in Ids /\ SameSession(d, e) /\ Earlier(e, d)
      BY <1>1, <1>3, AfterIsEarlier
  <2>2. Active(w, e) => d = e
      BY <1>1, <2>1 DEF Alone
  <2>3. d # e
    <3>1. rows[d] \in Row
        BY <1>1 DEF Base, Types, PgTypes, Stored
    <3>2. rows[d].seq \in Nat
        BY <3>1 DEF Row
    <3> QED
        BY <2>1, <3>2 DEF Earlier
  <2>4. e \notin X
      BY <2>2, <2>3 DEF Undisturbed
  <2>5. Finished(e)
      BY <1>1, <1>3 DEF AfterOver
  <2> QED
      BY <2>1, <2>4, <2>5 DEF Undisturbed
<1>4. enq'[d].after = enq[d].after /\ lapsed' = lapsed
    BY <1>1 DEF Undisturbed
<1> QED
    BY <1>2, <1>3, <1>4 DEF Alone, AfterOver

LEMMA ActiveFrame ==
    ASSUME Base, Single, NEW w \in Workers, NEW X \in SUBSET Ids, Undisturbed(w, X),
           NEW d \in Ids \ X, proc'[w][d] = proc[w][d]
    PROVE  ActiveInv(w, d)'
<1>1. ActiveInv(w, d)
    BY DEF Single
<1>2. ASSUME Active(w, d)' PROVE Active(w, d) /\ Alone(w, d)' /\ AfterOver(d)'
    BY <1>2, AloneFrame DEF Active
<1>3. /\ Finished(d) => Finished(d)'
      /\ jobs[d] # NoJob => jobs'[d] # NoJob
      /\ d \in waiting => d \in waiting'
    BY DEF Undisturbed
<1> QED
    BY <1>1, <1>2, <1>3 DEF ActiveInv

(* The counters only grow, and an enqueue call keeps what it has drawn. *)
LEMMA OrderFrame ==
    ASSUME Base, Single, seqs' \in [Sessions -> Nat], \A s \in Sessions : seqs[s] <= seqs'[s],
           lapsed => lapsed',
           \A e \in Ids : /\ enq[e].pc = "new" => enq'[e].pc = "new"
                          /\ enq[e].pc = "done" => enq'[e].pc = "done"
                          /\ enq'[e].session = enq[e].session /\ enq'[e].seq = enq[e].seq
                          /\ enq'[e].after = enq[e].after
    PROVE  \A d \in Ids : OrderInv(d)'
<1> SUFFICES ASSUME NEW d \in Ids PROVE OrderInv(d)'
    OBVIOUS
<1>1. OrderInv(d) /\ EnqInv(d) /\ enq[d] \in EnqType /\ seqs \in [Sessions -> Nat]
    BY DEF Single, Base, Types, RedisTypes
<1>2. enq[d].seq \in Nat /\ \A e \in enq[d].after : e \in Ids
    BY <1>1 DEF EnqType
<1>3. ASSUME ~lapsed', enq'[d].pc # "new" PROVE enq'[d].seq <= seqs'[enq'[d].session]
  <2>1. PICK s \in Sessions : s = enq[d].session
      BY <1>1, <1>3 DEF EnqInv
  <2>2. enq[d].seq <= seqs[s] /\ seqs[s] <= seqs'[s] /\ seqs[s] \in Nat /\ seqs'[s] \in Nat
      BY <1>1, <1>3, <2>1 DEF OrderInv
  <2> QED
      BY <1>2, <2>1, <2>2
<1>4. ASSUME NEW e \in enq'[d].after
      PROVE  /\ enq'[e].pc = "done" /\ enq'[e].session = enq'[d].session
             /\ ~lapsed' => enq'[e].seq < enq'[d].seq
  <2>1. e \in Ids /\ e \in enq[d].after
      BY <1>2, <1>4
  <2> QED
      BY <1>1, <2>1 DEF OrderInv
<1> QED
    BY <1>3, <1>4 DEF OrderInv

(* The same session has its place, or its end. *)
Placed == {"schedule", "mark", "done"}

LEMMA SingleFrame ==
    ASSUME Base, Single, NEW w \in Workers, NEW X \in SUBSET Ids, Undisturbed(w, X),
           \/ tick'[w] = tick[w]
           \/ tick'[w].pc # "down" /\ PassInv(w)',
           tick'[w].pc = "down" => tick[w].pc = "down" /\ recov'[w] = recov[w],
           \A d \in Ids : \/ d \notin X /\ proc'[w][d] = proc[w][d]
                          \/ ActiveInv(w, d)',
           \A d \in Ids : OrderInv(d)',
           \A d \in Ids : Unfinished(d)' /\ enq'[d].pc \in Placed =>
              \/ d \notin X /\ Unfinished(d) /\ enq[d].pc \in Placed
              \/ d \in waiting',
           throws' = 0 => throws = 0,
           \/ SweepInv(w)'
           \/ /\ recov'[w] = recov[w]
              /\ \A d \in Ids : Unfinished(d)' /\ enq'[d].pc # "write" =>
                    \/ d \notin X /\ Unfinished(d) /\ enq[d].pc # "write"
                    \/ jobs'[d] # NoJob
    PROVE  Single'
<1>1. \A v \in Workers : v = w
    BY DEF Single, OneWorker
<1>2. PassInv(w)'
    BY PassFrame
<1>3. \A d \in Ids : ActiveInv(w, d)'
    BY ActiveFrame
<1>4. DownInv(w)'
  <2>1. DownInv(w)
      BY DEF Single
  <2> QED
      BY <2>1 DEF DownInv, Undisturbed
<1>5. ASSUME NEW d \in Ids PROVE JoinedInv(d)'
  <2>1. JoinedInv(d)
      BY DEF Single
  <2>2. lapsed' = lapsed /\ (d \in waiting /\ d \notin X => d \in waiting')
      BY DEF Undisturbed
  <2> QED
      BY <2>1, <2>2 DEF JoinedInv, Placed
<1>6. SweepInv(w)'
  <2>1. SweepInv(w)
      BY DEF Single
  <2>2. \A d \in Ids \ X : jobs[d] # NoJob => jobs'[d] # NoJob
      BY DEF Undisturbed
  <2> QED
      BY <2>1, <2>2 DEF SweepInv
<1>7. OneWorker
    BY DEF Single
<1> QED
    BY <1>1, <1>2, <1>3, <1>4, <1>5, <1>6, <1>7 DEF Single, OneWorker

-----------------------------------------------------------------------------
(* Single, step by step: the scheduling pass. *)

(* A job the pass may dispatch: its session is idle and all before it over. *)
MayRun(w, job) ==
    /\ ~SessionBusy(w, job[1]) /\ AfterOver(job[1])
    /\ jobs[job[1]] # NoJob /\ job[1] \in waiting

(* A step that touches neither the queue nor a call of process(). *)
LEMMA QuietSingle ==
    ASSUME Base, Single, NEW w \in Workers, throws' = 0 => throws = 0,
           UNCHANGED <<rows, enq, proc, recov, jobs, waiting, seqs, lapsed>>,
           \/ tick'[w] = tick[w]
           \/ tick'[w].pc # "down" /\ PassInv(w)'
    PROVE  Single'
<1>1. Undisturbed(w, {})
    BY DEF Undisturbed, Stored, Finished, Active
<1>2. \A d \in Ids : OrderInv(d)'
  <2>1. \A d \in Ids : OrderInv(d)
      BY DEF Single
  <2> QED
      BY <2>1 DEF OrderInv
<1>3. \A d \in Ids : Unfinished(d)' => Unfinished(d)
    BY DEF Unfinished, Stored
<1> QED
    BY <1>1, <1>2, <1>3, SingleFrame

LEMMA ContinueSingle ==
    ASSUME Base, Single, NEW w \in Workers, NEW room \in 0..MaxConcurrency,
           NEW due \in SUBSET Ids, NEW picks \in SUBSET Job, Continue(w, room, due, picks),
           \A job \in picks : MayRun(w, job),
           UNCHANGED <<pg, seqs, jobs, waiting, enq, proc, recov, history, counts>>
    PROVE  Single'
<1>1. tick'[w].picks = picks /\ tick'[w].pc \in {"dispatch", "read"}
  <2>1. tick \in [Workers -> TickType]
      BY DEF Base, Types
  <2>2. WentOn(w, tick'[w], room, due, picks)
      BY <2>1, ContinueMoves
  <2> QED
      BY <2>2 DEF WentOn
<1>2. UNCHANGED <<rows, enq, proc, recov, jobs, waiting, seqs, lapsed, throws>>
    BY DEF pg, counts
<1>3. PassInv(w)'
  <2>1. \A job \in picks : /\ ~SessionBusy(w, job[1])' /\ AfterOver(job[1])'
                           /\ jobs'[job[1]] # NoJob /\ job[1] \in waiting'
      BY <1>2 DEF MayRun, SessionBusy, Inflight, Active, SameSession, Stored, AfterOver, Finished
  <2> QED
      BY <1>1, <2>1 DEF PassInv
<1> QED
    BY <1>1, <1>2, <1>3, QuietSingle

(* The head of a session comes after all that is over. *)
LEMMA HeadIsNext ==
    ASSUME Base, Single, NEW d \in Ids, Stored(d), IsHead(d) PROVE AfterOver(d)
<1>1. ASSUME ~lapsed, NEW e \in enq[d].after PROVE Finished(e)
  <2>1. e \in Ids /\ SameSession(d, e) /\ Earlier(e, d) /\ enq[e].pc = "done"
      BY <1>1, AfterIsEarlier
  <2>2. e \notin waiting
      BY <2>1 DEF IsHead
  <2>3. ~Unfinished(e)
      BY <1>1, <2>1, <2>2 DEF Single, JoinedInv
  <2> QED
      BY <2>1, <2>3, StoredIsEither DEF SameSession
<1> QED
    BY <1>1 DEF AfterOver

LEMMA TickSingle ==
    ASSUME Base, Single, NEW w \in Workers,
           TickStart(w) \/ ReadJob(w) \/ DropDue(w) \/ CheckHead(w) \/ FailTick(w)
    PROVE  Single'
<1>1. /\ tick \in [Workers -> TickType] /\ tick[w] \in TickType /\ TickInv(w)
      /\ PassInv(w) /\ throws \in Nat
    BY DEF Base, Types, CountTypes, Single
<1>2. /\ tick[w].room \in 0..MaxConcurrency /\ tick[w].due \in SUBSET Ids
      /\ tick[w].picks \in SUBSET Job /\ \A job \in tick[w].picks : MayRun(w, job)
    BY <1>1 DEF TickType, PassInv, MayRun
<1>3. tick[w].pc \in {"read", "drop", "head"} =>
        tick[w].job \in Job /\ tick[w].job[1] \in Ids /\ Stored(tick[w].job[1])
    BY <1>1 DEF TickInv, TickType, Job
<1>4. CASE TickStart(w)
  <2>1. PICK due \in SUBSET Ids : due = {d \in Ids : scheduled[d] = "due"}
      OBVIOUS
  <2>2. PICK n : n = Cardinality(Inflight(w))
      OBVIOUS
  <2>3. /\ n < MaxConcurrency /\ Continue(w, MaxConcurrency - n, due, {})
        /\ UNCHANGED <<pg, redis, enq, proc, recov, history, counts>>
      BY <1>4, <2>1, <2>2 DEF TickStart
  <2>4. n \in Nat
      BY <2>2, FS_CardinalityType DEF Base
  <2>5. MaxConcurrency - n \in 0..MaxConcurrency
      BY <2>3, <2>4, LimitsAssumption
  <2> QED
      BY <2>3, <2>5, ContinueSingle DEF redis
<1>5. CASE ReadJob(w)
  <2>1. PICK d \in Ids : d = tick[w].job[1] /\ Stored(d) /\ tick[w].pc = "read"
      BY <1>3, <1>5 DEF ReadJob
  <2>2. UNCHANGED <<pg, redis, enq, proc, recov, history, counts>>
      BY <1>5 DEF ReadJob
  <2>3. ASSUME NEW pc \in {"drop", "head"}, NEW n,
               tick' = [tick EXCEPT ![w].pc = pc, ![w].job = <<d, n>>],
               pc = "head" => ~SessionBusy(w, d) /\ jobs[d] # NoJob
        PROVE  Single'
    <3>1. PICK t : t = [[tick[w] EXCEPT !.pc = pc] EXCEPT !.job = <<d, n>>]
        OBVIOUS
    <3>2. t.pc = pc /\ t.job = <<d, n>> /\ t.picks = tick[w].picks
        BY <1>1, <3>1 DEF TickType
    <3>3. tick' = [tick EXCEPT ![w] = t]
        BY <2>3, <3>1
    <3>4. tick'[w] = t
        BY <1>1, <3>3
    <3>5. UNCHANGED <<rows, enq, proc, recov, jobs, waiting, seqs, lapsed, throws>>
        BY <2>2 DEF pg, redis, counts
    <3>6. tick'[w].job[1] = d
        BY <3>2, <3>4
    <3>7. \A e \in Ids : SessionBusy(w, e)' <=> SessionBusy(w, e)
        BY <3>5 DEF SessionBusy, Inflight, Active, SameSession, Stored
    <3>8. \A e \in Ids : AfterOver(e)' <=> AfterOver(e)
        BY <3>5 DEF AfterOver, Finished, Stored
    <3>9. \A job \in tick[w].picks : job[1] \in Ids
        BY <1>2 DEF Job
    <3>10. \A job \in tick[w].picks : /\ ~SessionBusy(w, job[1])' /\ AfterOver(job[1])'
                                      /\ jobs'[job[1]] # NoJob /\ job[1] \in waiting'
        BY <1>2, <3>5, <3>7, <3>8, <3>9 DEF MayRun
    <3>11. PassInv(w)'
        BY <2>3, <3>2, <3>4, <3>5, <3>6, <3>7, <3>10 DEF PassInv
    <3> QED
        BY <3>2, <3>4, <3>5, <3>11, QuietSingle
  <2>4. CASE Continue(w, tick[w].room, tick[w].due, tick[w].picks)
      BY <1>2, <2>2, <2>4, ContinueSingle DEF redis
  <2>5. \/ \E pc \in {"drop", "head"}, n \in {0, jobs[d]} :
              /\ tick' = [tick EXCEPT ![w].pc = pc, ![w].job = <<d, n>>]
              /\ pc = "head" => ~SessionBusy(w, d) /\ jobs[d] # NoJob
        \/ Continue(w, tick[w].room, tick[w].due, tick[w].picks)
      BY <1>5, <2>1 DEF ReadJob
  <2> QED
      BY <2>3, <2>4, <2>5
<1>6. CASE DropDue(w)
    BY <1>2, <1>6, ContinueSingle DEF DropDue
<1>7. CASE CheckHead(w)
  <2>1. PICK job : job = tick[w].job
      OBVIOUS
  <2>2. PICK picks : picks = tick[w].picks \cup (IF IsHead(job[1]) THEN {job} ELSE {})
      OBVIOUS
  <2>3. /\ tick[w].pc = "head" /\ Continue(w, tick[w].room, tick[w].due, picks)
        /\ UNCHANGED <<pg, redis, enq, proc, recov, history, counts>>
      BY <1>7, <2>1, <2>2 DEF CheckHead
  <2>4. job \in Job /\ job[1] \in Ids /\ Stored(job[1])
      BY <1>3, <2>1, <2>3
  <2>5. IsHead(job[1]) => MayRun(w, job)
    <3>1. IsHead(job[1]) => AfterOver(job[1])
        BY <2>4, HeadIsNext
    <3> QED
        BY <1>1, <2>1, <2>3, <3>1 DEF MayRun, PassInv, IsHead
  <2>6. picks \in SUBSET Job /\ \A j \in picks : MayRun(w, j)
      BY <1>2, <2>2, <2>4, <2>5
  <2> QED
      BY <1>2, <2>3, <2>6, ContinueSingle DEF redis
<1>8. CASE FailTick(w)
  <2>1. /\ throws' = throws + 1 /\ TickTo(w, IdleTick)
        /\ UNCHANGED <<pg, redis, enq, proc, recov, history, crashes, lapsed>>
      BY <1>8 DEF FailTick, Throw
  <2>2. tick'[w] = IdleTick
      BY <1>1, <2>1, TickMoves, EmptyTick
  <2>3. tick'[w].pc = "idle" /\ tick'[w].picks = {}
      BY <2>2, EmptyTick
  <2>4. PassInv(w)'
      BY <2>3 DEF PassInv
  <2>5. throws' # 0
      BY <1>1, <2>1
  <2>6. UNCHANGED <<rows, enq, proc, recov, jobs, waiting, seqs, lapsed>>
      BY <2>1 DEF pg, redis
  <2> QED
      BY <2>3, <2>4, <2>5, <2>6, QuietSingle
<1> QED
    BY <1>4, <1>5, <1>6, <1>7, <1>8

(* The pass dispatches one job of a session, whose session is idle. *)
LEMMA DispatchSingle == ASSUME Base, Single, NEW w \in Workers, Dispatch(w) PROVE Single'
<1>1. TickTo(w, IdleTick) /\ UNCHANGED <<pg, redis, enq, recov, history, counts>>
    BY DEF Dispatch
<1>2. tick'[w].pc = "idle" /\ tick'[w].picks = {}
  <2>1. tick \in [Workers -> TickType]
      BY DEF Base, Types
  <2>2. tick'[w] = IdleTick
      BY <1>1, <2>1, TickMoves, EmptyTick
  <2> QED
      BY <2>2, EmptyTick
<1>3. PICK D \in SUBSET Ids :
         /\ IsPassOf(w, D)
         /\ \A d \in Ids \ D : proc'[w][d] = proc[w][d]
         /\ \A d \in D : /\ proc'[w][d].pc = "deliver"
                         /\ <<d, proc'[w][d].attempt>> \in tick[w].picks
    BY DispatchMoves DEF Base, Types
<1>4. UNCHANGED <<rows, enq, recov, jobs, waiting, seqs, lapsed, throws>>
    BY <1>1 DEF pg, redis, counts
<1>5. \A d \in D : ~SessionBusy(w, d) /\ MayRun(w, <<d, proc'[w][d].attempt>>)
  <2>1. PassInv(w)
      BY DEF Single
  <2>2. \A d \in D : MayRun(w, <<d, proc'[w][d].attempt>>)
      BY <1>3, <2>1 DEF PassInv, MayRun
  <2> QED
      BY <1>3, <2>2 DEF IsPassOf
<1>6. \A d \in D : AfterOver(d) /\ jobs[d] # NoJob /\ d \in waiting /\ Stored(d)
  <2>1. ASSUME NEW d \in D
        PROVE  AfterOver(d) /\ jobs[d] # NoJob /\ d \in waiting /\ Stored(d)
    <3>1. PICK job \in tick[w].picks : job[1] = d /\ MayRun(w, job)
        BY <1>3, <1>5
    <3>2. Stored(d)
        BY <3>1 DEF Base, TickInv
    <3> QED
        BY <3>1, <3>2 DEF MayRun
  <2> QED
      BY <2>1
<1>7. \A d, e \in D : d # e => ~SameSession(d, e)
    BY <1>3 DEF IsPassOf
<1>8. \A d, e \in Ids : Active(w, d)' /\ Active(w, e)' /\ SameSession(d, e) => d = e
  <2> SUFFICES ASSUME NEW d \in Ids, NEW e \in Ids, Active(w, d)', Active(w, e)',
                      SameSession(d, e)
               PROVE  d = e
      OBVIOUS
  <2>1. SameSession(e, d)
      BY DEF SameSession
  <2>2. (d \in D \/ Active(w, d)) /\ (e \in D \/ Active(w, e))
      BY <1>3 DEF Active
  <2>3. CASE d \in D /\ e \in D
      BY <1>7, <2>3
  <2>4. CASE d \in D /\ Active(w, e)
      BY <1>5, <2>4 DEF SessionBusy, Inflight
  <2>5. CASE Active(w, d) /\ e \in D
      BY <1>5, <2>1, <2>5 DEF SessionBusy, Inflight
  <2>6. CASE Active(w, d) /\ Active(w, e)
      BY <2>6 DEF Single, ActiveInv, Alone
  <2> QED
      BY <2>2, <2>3, <2>4, <2>5, <2>6
<1>9. ASSUME NEW d \in Ids PROVE ActiveInv(w, d)'
  <2>1. Active(w, d)' => Alone(w, d)'
      BY <1>4, <1>8 DEF Alone, SameSession, Stored
  <2>2. AfterOver(d) => AfterOver(d)'
      BY <1>4 DEF AfterOver, Finished, Stored
  <2>3. CASE d \in D
      BY <1>3, <1>4, <1>6, <2>1, <2>2, <2>3 DEF ActiveInv
  <2>4. CASE d \notin D
    <3>1. ActiveInv(w, d) /\ proc'[w][d] = proc[w][d]
        BY <1>3, <2>4 DEF Single
    <3> QED
        BY <1>4, <2>1, <2>2, <3>1 DEF ActiveInv, Active, Finished, Stored
  <2> QED
      BY <2>3, <2>4
<1>10. /\ DownInv(w)' /\ PassInv(w)'
    BY <1>2 DEF DownInv, PassInv
<1>11. SweepInv(w)'
  <2>1. SweepInv(w)
      BY DEF Single
  <2> QED
      BY <1>4, <2>1 DEF SweepInv, Unfinished, Stored
<1>12. \A d \in Ids : JoinedInv(d)' /\ OrderInv(d)'
  <2>1. \A d \in Ids : JoinedInv(d) /\ OrderInv(d)
      BY DEF Single
  <2> QED
      BY <1>4, <2>1 DEF JoinedInv, OrderInv, Unfinished, Stored
<1>13. OneWorker /\ \A v \in Workers : v = w
    BY DEF Single, OneWorker
<1> QED
    BY <1>9, <1>10, <1>11, <1>12, <1>13 DEF Single, OneWorker

-----------------------------------------------------------------------------
(* Single, step by step: process(). *)

(* The call of d goes on, or ends. *)
LEMMA ProcessSingle ==
    ASSUME Base, Single, NEW w \in Workers, NEW d \in Ids, NEW p, ProcMoves(w, d, p),
           Active(w, d), throws' = 0 => throws = 0,
           UNCHANGED <<enq, tick, recov, seqs, lapsed>>,
           \A e \in Ids : Stored(e) =>
              Stored(e)' /\ rows'[e].session = rows[e].session /\ rows'[e].seq = rows[e].seq,
           \A e \in Ids \ {d} : /\ rows'[e] = rows[e] /\ jobs'[e] = jobs[e]
                                /\ e \in waiting => e \in waiting',
           Unfinished(d)' => d \in waiting' /\ jobs'[d] # NoJob,
           p.pc # "idle" =>
              /\ jobs'[d] # NoJob
              /\ p.pc # "delete" => d \in waiting'
              /\ p.pc \in {"bury", "unschedule", "leave", "delete"} => Finished(d)'
    PROVE  Single'
<1>1. proc'[w][d] = p /\ \A e \in Ids \ {d} : proc'[w][e] = proc[w][e]
    BY DEF ProcMoves
<1>2. Undisturbed(w, {d})
  <2>1. \A e \in Ids : Active(w, e)' => Active(w, e)
      BY <1>1 DEF Active
  <2>2. \A e \in Ids \ {d} : Finished(e) => Finished(e)'
      BY DEF Finished, Stored
  <2> QED
      BY <2>1, <2>2 DEF Undisturbed
<1>3. ActiveInv(w, d)'
  <2>1. Alone(w, d)' /\ AfterOver(d)'
      BY <1>2, AloneFrame
  <2> QED
      BY <1>1, <2>1 DEF ActiveInv, Active
<1>4. \A e \in Ids : OrderInv(e)'
  <2>1. \A e \in Ids : OrderInv(e)
      BY DEF Single
  <2> QED
      BY <2>1 DEF OrderInv
<1>5. \A e \in Ids \ {d} : Unfinished(e)' => Unfinished(e)
    BY DEF Unfinished, Stored
<1> QED
    BY <1>1, <1>2, <1>3, <1>4, <1>5, SingleFrame

LEMMA ProcessStepSingle ==
    ASSUME Base, Single, NEW w \in Workers, NEW d \in Ids, Process(w, d) \/ FailProcess(w, d)
    PROVE  Single'
<1>0. /\ proc \in [Workers -> [Ids -> ProcType]] /\ Types
      /\ ProcInv(w, d) /\ ActiveInv(w, d) /\ throws \in Nat
    BY DEF Base, Types, CountTypes, Single
<1>1. ASSUME NEW p, ProcMoves(w, d, p), Active(w, d), throws' = 0 => throws = 0,
             UNCHANGED <<rows, enq, tick, recov, seqs, lapsed, jobs, waiting>>,
             p.pc = "idle" \/ (/\ p.pc = "delete" \/ proc[w][d].pc # "delete"
                               /\ \/ p.pc \notin {"bury", "unschedule", "leave", "delete"}
                                  \/ Finished(d)),
             p.pc # "delete"
      PROVE  Single'
  <2>1. Unfinished(d)' => d \in waiting' /\ jobs'[d] # NoJob
      BY <1>0, <1>1 DEF ActiveInv, Unfinished, Finished, Stored
  <2>2. Finished(d) => Finished(d)'
      BY <1>1 DEF Finished, Stored
  <2>3. \A e \in Ids : Stored(e) => Stored(e)'
      BY <1>1 DEF Stored
  <2> QED
      BY <1>0, <1>1, <2>1, <2>2, <2>3, ProcessSingle DEF ActiveInv
<1>2. CASE Deliver(w, d)
  <2>1. proc[w][d].pc = "deliver" /\ UNCHANGED <<pg, redis, enq, tick, recov, counts>>
      BY <1>2 DEF Deliver
  <2>2. PICK p \in ProcType : ProcMoves(w, d, p) /\ p.pc = "record"
      BY <1>0, <1>2, DeliverMoves
  <2> QED
      BY <1>1, <2>1, <2>2 DEF Active, pg, redis, counts
<1>3. CASE RecordDelivery(w, d)
  <2>1. proc[w][d].pc = "record" /\ UNCHANGED <<dead, redis, enq, tick, recov, history, counts>>
      BY <1>3 DEF RecordDelivery
  <2>2. PICK p \in ProcType, row \in Row :
           /\ ProcMoves(w, d, p)
           /\ p.pc = CASE row.status = "delivered" -> "unschedule"
                       [] row.status = "dead"      -> "bury"
                       [] row.status = "failed"    -> "rewrite"
           /\ row.session = rows[d].session /\ row.seq = rows[d].seq
           /\ row.status \in Outcomes
           /\ rows'[d] = row /\ \A e \in Ids \ {d} : rows'[e] = rows[e]
      BY <1>0, <1>3, RecordMoves
  <2>3. row # Nothing
      BY NothingAssumption
  <2>4. \A e \in Ids : Stored(e) =>
           Stored(e)' /\ rows'[e].session = rows[e].session /\ rows'[e].seq = rows[e].seq
      BY <2>2, <2>3 DEF Stored
  <2>5. d \in waiting /\ jobs[d] # NoJob /\ Active(w, d)
      BY <1>0, <2>1 DEF ActiveInv, Active
  <2>6. /\ p.pc \in {"unschedule", "bury", "rewrite"}
        /\ p.pc \in {"bury", "unschedule", "leave", "delete"} => Finished(d)'
      BY <2>2, <2>3 DEF Outcomes, Finished, Stored
  <2> QED
      BY <2>1, <2>2, <2>4, <2>5, <2>6, ProcessSingle DEF redis, counts
<1>4. CASE DeadLetter(w, d)
  <2>1. /\ proc[w][d].pc = "bury" /\ UNCHANGED <<rows, redis, enq, tick, recov, history, counts>>
        /\ Settle(w, d) \/ ProcTo(w, d, "unschedule")
      BY <1>4 DEF DeadLetter
  <2>2. PICK p : ProcMoves(w, d, p) /\ p.pc \in {"idle", "unschedule"}
      BY <1>0, <2>1, ProcToMoves, SettleMoves DEF ProcPlaces
  <2>3. Finished(d) /\ Active(w, d)
      BY <1>0, <2>1 DEF ActiveInv, Active
  <2> QED
      BY <1>1, <2>1, <2>2, <2>3 DEF redis, counts
<1>5. CASE Unschedule(w, d)
  <2>1. /\ proc[w][d].pc = "unschedule" /\ ProcTo(w, d, "leave")
        /\ UNCHANGED <<pg, seqs, jobs, waiting, enq, tick, recov, history, counts>>
      BY <1>5 DEF Unschedule
  <2>2. PICK p : ProcMoves(w, d, p) /\ p.pc = "leave"
      BY <1>0, <2>1, ProcToMoves DEF ProcPlaces
  <2>3. Finished(d) /\ Active(w, d)
      BY <1>0, <2>1 DEF ActiveInv, Active
  <2> QED
      BY <1>1, <2>1, <2>2, <2>3 DEF pg, counts
<1>6. CASE LeaveSession(w, d)
  <2>1. /\ proc[w][d].pc = "leave" /\ ProcTo(w, d, "delete") /\ waiting' = waiting \ {d}
        /\ UNCHANGED <<pg, seqs, jobs, scheduled, enq, tick, recov, history, counts>>
      BY <1>6 DEF LeaveSession
  <2>2. PICK p : ProcMoves(w, d, p) /\ p.pc = "delete"
      BY <1>0, <2>1, ProcToMoves DEF ProcPlaces
  <2>3. Finished(d) /\ Active(w, d) /\ jobs[d] # NoJob
      BY <1>0, <2>1 DEF ActiveInv, Active
  <2>4. Finished(d)' /\ ~Unfinished(d)' /\ rows' = rows /\ \A e \in Ids : Stored(e) => Stored(e)'
      BY <2>1, <2>3 DEF Finished, Unfinished, Stored, pg
  <2>5. \A e \in Ids \ {d} : e \in waiting => e \in waiting'
      BY <2>1
  <2> QED
      BY <2>1, <2>2, <2>3, <2>4, <2>5, ProcessSingle DEF pg, counts
<1>7. CASE DeleteJob(w, d)
  <2>1. /\ proc[w][d].pc = "delete" /\ Settle(w, d) /\ jobs' = [jobs EXCEPT ![d] = NoJob]
        /\ UNCHANGED <<pg, seqs, waiting, scheduled, enq, tick, recov, history, counts>>
      BY <1>7 DEF DeleteJob
  <2>2. PICK p : ProcMoves(w, d, p) /\ p.pc = "idle"
      BY <1>0, <2>1, SettleMoves
  <2>3. Finished(d) /\ Active(w, d)
      BY <1>0, <2>1 DEF ActiveInv, Active
  <2>4. ~Unfinished(d)' /\ rows' = rows /\ \A e \in Ids : Stored(e) => Stored(e)'
      BY <2>1, <2>3 DEF Finished, Unfinished, Stored, pg
  <2>5. \A e \in Ids \ {d} : jobs'[e] = jobs[e]
      BY <1>0, <2>1 DEF Types, RedisTypes
  <2> QED
      BY <2>1, <2>2, <2>3, <2>4, <2>5, ProcessSingle DEF pg, counts
<1>8. CASE RewriteJob(w, d)
  <2>1. PICK n : n = proc[w][d].attempt + 1
      OBVIOUS
  <2>2. /\ proc[w][d].pc = "rewrite" /\ ProcTo(w, d, "reschedule")
        /\ jobs' = [jobs EXCEPT ![d] = n]
        /\ UNCHANGED <<pg, seqs, waiting, scheduled, enq, tick, recov, history, counts>>
      BY <1>8, <2>1 DEF RewriteJob
  <2>3. PICK p : ProcMoves(w, d, p) /\ p.pc = "reschedule"
      BY <1>0, <2>2, ProcToMoves DEF ProcPlaces
  <2>4. n # NoJob
    <3>1. proc[w][d].attempt \in 0..(MaxAttempts - 1)
        BY <1>0 DEF ProcType
    <3> QED
        BY <3>1, <2>1, NoJobAssumption
  <2>5. jobs'[d] # NoJob /\ \A e \in Ids \ {d} : jobs'[e] = jobs[e]
      BY <1>0, <2>2, <2>4 DEF Types, RedisTypes
  <2>6. d \in waiting /\ Active(w, d)
      BY <1>0, <2>2 DEF ActiveInv, Active
  <2>7. rows' = rows /\ \A e \in Ids : Stored(e) => Stored(e)'
      BY <2>2 DEF Stored, pg
  <2> QED
      BY <2>2, <2>3, <2>5, <2>6, <2>7, ProcessSingle DEF pg, counts
<1>9. CASE Reschedule(w, d)
  <2>1. /\ proc[w][d].pc = "reschedule" /\ Settle(w, d)
        /\ UNCHANGED <<pg, seqs, jobs, waiting, enq, tick, recov, history, counts>>
      BY <1>9 DEF Reschedule
  <2>2. PICK p : ProcMoves(w, d, p) /\ p.pc = "idle"
      BY <1>0, <2>1, SettleMoves
  <2> QED
      BY <1>1, <2>1, <2>2 DEF Active, pg, counts
<1>10. CASE FailProcess(w, d)
  <2>1. /\ Active(w, d) /\ Settle(w, d) /\ throws' = throws + 1
        /\ UNCHANGED <<pg, redis, enq, tick, recov, history, crashes, lapsed>>
      BY <1>10 DEF FailProcess, Throw
  <2>2. PICK p : ProcMoves(w, d, p) /\ p.pc = "idle"
      BY <1>0, <2>1, SettleMoves
  <2>3. throws' # 0
      BY <1>0, <2>1
  <2> QED
      BY <1>1, <2>1, <2>2, <2>3 DEF pg, redis
<1> QED
    BY <1>2, <1>3, <1>4, <1>5, <1>6, <1>7, <1>8, <1>9, <1>10 DEF Process

-----------------------------------------------------------------------------
(* Single, step by step: enqueue, the sweep, crashes. *)

(* An enqueue call that goes on. *)
LEMMA EnqueueSingle ==
    ASSUME Base, Single, NEW d \in Ids, NEW pc \in EnqPlaces, EnqTo(d, pc),
           enq[d].pc \notin {"new", "done"}, pc # "new",
           throws' = 0 => throws = 0,
           UNCHANGED <<tick, proc, recov, seqs, lapsed>>,
           \A e \in Ids : rows'[e] = rows[e] \/ (~Stored(e) /\ e = d),
           \A e \in Ids : /\ jobs[e] # NoJob => jobs'[e] # NoJob
                          /\ e \in waiting => e \in waiting',
           pc \in Placed => enq[d].pc \in Placed \/ d \in waiting',
           pc # "write" /\ Stored(d)' => Stored(d),
           enq[d].pc = "write" => jobs'[d] # NoJob \/ throws' # 0
    PROVE  Single'
<1>1. /\ enq'[d].pc = pc /\ enq'[d].session = enq[d].session /\ enq'[d].seq = enq[d].seq
      /\ enq'[d].after = enq[d].after
      /\ \A e \in Ids \ {d} : enq'[e] = enq[e]
    BY EnqMoves DEF Base, Types
<1>2. PICK w \in Workers : TRUE
    BY DEF Single, OneWorker
<1>3. Undisturbed(w, {})
  <2>1. \A e \in Ids : enq'[e].after = enq[e].after
      BY <1>1
  <2>2. \A e \in Ids : Stored(e) => Stored(e)' /\ rows'[e] = rows[e]
      BY DEF Stored
  <2>3. \A e \in Ids : Finished(e) => Finished(e)'
      BY <2>2 DEF Finished
  <2> QED
      BY <2>1, <2>2, <2>3 DEF Undisturbed, Active
<1>4. \A e \in Ids : OrderInv(e)'
  <2>1. \A e \in Ids : /\ enq[e].pc = "new" => enq'[e].pc = "new"
                       /\ enq[e].pc = "done" => enq'[e].pc = "done"
                       /\ enq'[e].session = enq[e].session /\ enq'[e].seq = enq[e].seq
                       /\ enq'[e].after = enq[e].after
      BY <1>1
  <2>2. seqs' \in [Sessions -> Nat] /\ \A s \in Sessions : seqs[s] <= seqs'[s]
      BY DEF Base, Types, RedisTypes
  <2> QED
      BY <2>1, <2>2, OrderFrame
<1>5. \A e \in Ids : Unfinished(e)' => Unfinished(e) \/ (e = d /\ ~Stored(e) /\ Stored(e)')
    BY DEF Unfinished, Stored
<1>6. \A e \in Ids : Unfinished(e)' /\ enq'[e].pc \in Placed =>
         (Unfinished(e) /\ enq[e].pc \in Placed) \/ e \in waiting'
    BY <1>1, <1>5 DEF Placed
<1>7. \/ SweepInv(w)'
      \/ \A e \in Ids : Unfinished(e)' /\ enq'[e].pc # "write" =>
            (Unfinished(e) /\ enq[e].pc # "write") \/ jobs'[e] # NoJob
  <2>1. throws' # 0 => SweepInv(w)'
      BY DEF SweepInv
  <2> QED
      BY <1>1, <1>5, <2>1
<1> QED
    BY <1>3, <1>4, <1>6, <1>7, SingleFrame

LEMMA EnqueueStepSingle ==
    ASSUME Base, Single, NEW d \in Ids, EnqueueStep(d) \/ FailEnqueue(d) PROVE Single'
<1>0. /\ enq \in [Ids -> EnqType] /\ rows \in [Ids -> {Nothing} \cup Row]
      /\ jobs \in [Ids -> {NoJob} \cup 0..(MaxAttempts - 1)]
      /\ EnqInv(d) /\ throws \in Nat
    BY DEF Base, Types, PgTypes, RedisTypes, CountTypes
<1>1. CASE InsertRow(d)
  <2>1. /\ enq[d].pc = "row" /\ EnqTo(d, "write")
        /\ UNCHANGED <<dead, redis, tick, proc, recov, history, counts>>
      BY <1>1 DEF InsertRow
  <2>2. ~Stored(d)
      BY <1>0, <2>1 DEF EnqInv
  <2>3. \A e \in Ids : rows'[e] = rows[e] \/ e = d
      BY <1>0, <1>1 DEF InsertRow
  <2> QED
      BY <2>1, <2>2, <2>3, EnqueueSingle DEF EnqPlaces, Placed, redis, counts
<1>2. CASE WriteJob(d)
  <2>1. enq[d].pc = "write" /\ EnqTo(d, "join") /\ jobs' = [jobs EXCEPT ![d] = 0]
        /\ UNCHANGED <<pg, seqs, waiting, scheduled, tick, proc, recov, history, counts>>
      BY <1>2 DEF WriteJob
  <2>2. jobs'[d] # NoJob /\ \A e \in Ids : jobs[e] # NoJob => jobs'[e] # NoJob
      BY <1>0, <2>1, NoJobAssumption
  <2>3. rows' = rows /\ (Stored(d)' => Stored(d))
      BY <2>1 DEF pg, Stored
  <2> QED
      BY <2>1, <2>2, <2>3, EnqueueSingle DEF EnqPlaces, Placed, counts
<1>3. CASE JoinSession(d)
  <2>1. enq[d].pc = "join" /\ EnqTo(d, "schedule") /\ waiting' = waiting \cup {d}
        /\ UNCHANGED <<pg, seqs, jobs, scheduled, tick, proc, recov, history, counts>>
      BY <1>3 DEF JoinSession
  <2>2. d \in waiting' /\ \A e \in Ids : e \in waiting => e \in waiting'
      BY <2>1
  <2>3. rows' = rows /\ (Stored(d)' => Stored(d))
      BY <2>1 DEF pg, Stored
  <2> QED
      BY <2>1, <2>2, <2>3, EnqueueSingle DEF EnqPlaces, Placed, counts
<1>4. CASE Schedule(d)
  <2>1. PICK pc \in {"done", "mark"} : pc = IF enq[d].of = Nothing THEN "done" ELSE "mark"
      OBVIOUS
  <2>2. enq[d].pc = "schedule" /\ EnqTo(d, pc)
        /\ UNCHANGED <<pg, seqs, jobs, waiting, tick, proc, recov, history, counts>>
      BY <1>4, <2>1 DEF Schedule
  <2>3. rows' = rows /\ (Stored(d)' => Stored(d))
      BY <2>2 DEF pg, Stored
  <2> QED
      BY <2>1, <2>2, <2>3, EnqueueSingle DEF EnqPlaces, Placed, counts
<1>5. CASE MarkRetried(d)
  <2>1. enq[d].pc = "mark" /\ EnqTo(d, "done")
        /\ UNCHANGED <<rows, redis, tick, proc, recov, history, counts>>
      BY <1>5 DEF MarkRetried
  <2>2. Stored(d)' => Stored(d)
      BY <2>1 DEF Stored
  <2> QED
      BY <2>1, <2>2, EnqueueSingle DEF EnqPlaces, Placed, redis, counts
<1>6. CASE FailEnqueue(d)
  <2>1. EnqTo(d, "failed") /\ enq[d].pc \notin {"new", "done", "failed"} /\ throws' = throws + 1
        /\ UNCHANGED <<pg, redis, tick, proc, recov, history, crashes, lapsed>>
      BY <1>6 DEF FailEnqueue, Throw, Enqueueing
  <2>2. throws' # 0
      BY <1>0, <2>1
  <2>3. rows' = rows /\ (Stored(d)' => Stored(d))
      BY <2>1 DEF pg, Stored
  <2> QED
      BY <2>1, <2>2, <2>3, EnqueueSingle DEF EnqPlaces, Placed, redis
<1> QED
    BY <1>1, <1>2, <1>3, <1>4, <1>5, <1>6 DEF EnqueueStep

(* A new event takes a number behind those whose calls have returned. *)
LEMMA StartSingle ==
    ASSUME Base, Single, NEW w \in Workers, NEW d \in Ids, NEW s \in Sessions,
           NEW e \in Ids \cup {Nothing}, StartEnqueue(w, d, s, e)
    PROVE  Single'
<1>1. /\ enq[d].pc = "new"
      /\ seqs' = [seqs EXCEPT ![s] = seqs[s] + 1]
      /\ UNCHANGED <<rows, jobs, waiting, tick, proc, recov, lapsed, throws>>
    BY DEF StartEnqueue, pg, counts
<1>2. PICK after : after = {x \in Ids : enq[x].pc = "done" /\ enq[x].session = s}
    OBVIOUS
<1>3. PICK new : new = [pc |-> "row", by |-> w, session |-> s, seq |-> seqs[s] + 1, of |-> e,
                        after |-> after]
    OBVIOUS
<1>4. enq' = [enq EXCEPT ![d] = new]
    BY <1>2, <1>3 DEF StartEnqueue
<1>5. new.pc = "row" /\ new.session = s /\ new.seq = seqs[s] + 1 /\ new.after = after
    BY <1>3
<1>6. enq'[d] = new /\ \A x \in Ids \ {d} : enq'[x] = enq[x]
    BY <1>4 DEF Base, Types
<1>7. /\ seqs \in [Sessions -> Nat] /\ seqs' \in [Sessions -> Nat]
      /\ \A t \in Sessions : seqs[t] <= seqs'[t]
      /\ seqs'[s] = seqs[s] + 1
    BY <1>1 DEF Base, Types, RedisTypes
<1>8. ~Stored(d)
    BY <1>1 DEF Base, EnqInv
<1>9. OrderInv(d)'
  <2>1. ASSUME NEW x \in after
        PROVE  /\ enq'[x].pc = "done" /\ enq'[x].session = s
               /\ ~lapsed => enq'[x].seq < seqs[s] + 1
    <3>1. x \in Ids /\ enq[x].pc = "done" /\ enq[x].session = s /\ enq'[x] = enq[x]
        BY <1>1, <1>2, <1>6, <2>1
    <3>2. ~lapsed => enq[x].seq <= seqs[s]
        BY <3>1 DEF Single, OrderInv
    <3>3. enq[x].seq \in Nat /\ seqs[s] \in Nat
        BY <1>7, <3>1 DEF Base, Types, EnqType
    <3> QED
        BY <3>1, <3>2, <3>3
  <2>2. ~lapsed => enq'[d].seq <= seqs'[enq'[d].session]
    <3>1. seqs[s] + 1 <= seqs[s] + 1
        BY <1>7
    <3> QED
        BY <1>5, <1>6, <1>7, <3>1
  <2> QED
      BY <1>1, <1>5, <1>6, <2>1, <2>2 DEF OrderInv
<1>10. ASSUME NEW x \in Ids \ {d} PROVE OrderInv(x)'
  <2>1. OrderInv(x) /\ EnqInv(x) /\ enq'[x] = enq[x] /\ enq[x] \in EnqType
      BY <1>6 DEF Single, Base, Types
  <2>2. ASSUME enq[x].pc # "new", ~lapsed PROVE enq[x].seq <= seqs'[enq[x].session]
    <3>1. PICK t \in Sessions : t = enq[x].session
        BY <2>1, <2>2 DEF EnqInv
    <3>2. enq[x].seq <= seqs[t] /\ enq[x].seq \in Nat /\ seqs[t] \in Nat /\ seqs'[t] \in Nat
          /\ seqs[t] <= seqs'[t]
        BY <1>7, <2>1, <2>2, <3>1 DEF OrderInv, EnqType
    <3> QED
        BY <3>1, <3>2
  <2>3. \A y \in enq[x].after : y \in Ids /\ enq'[y] = enq[y]
      BY <1>1, <1>6, <2>1 DEF OrderInv, EnqType
  <2> QED
      BY <1>1, <2>1, <2>2, <2>3 DEF OrderInv
<1>11. \A x \in Ids : OrderInv(x)'
    BY <1>9, <1>10
<1>12. Undisturbed(w, {})
    BY <1>1, <1>6, <1>8 DEF Undisturbed, Stored, Finished, Active
<1>13. \A x \in Ids : Unfinished(x)' => x # d /\ Unfinished(x)
    BY <1>1, <1>8 DEF Unfinished, Stored
<1> QED
    BY <1>1, <1>6, <1>11, <1>12, <1>13, SingleFrame

(* A step of the sweep that runs. *)
LEMMA SweepSingle ==
    ASSUME Base, Single, NEW w \in Workers, recov[w].pc # "done",
           UNCHANGED <<rows, enq, tick, proc, lapsed>>, throws' = 0 => throws = 0,
           \A e \in Ids : /\ jobs[e] # NoJob => jobs'[e] # NoJob
                          /\ e \in waiting => e \in waiting',
           seqs' \in [Sessions -> Nat], \A s \in Sessions : seqs[s] <= seqs'[s],
           SweepInv(w)'
    PROVE  Single'
<1>1. tick[w].pc # "down"
    BY DEF Single, DownInv
<1>2. Undisturbed(w, {})
    BY DEF Undisturbed, Stored, Finished, Active
<1>3. \A d \in Ids : OrderInv(d)'
    BY OrderFrame
<1>4. \A d \in Ids : Unfinished(d)' => Unfinished(d)
    BY DEF Unfinished, Stored
<1> QED
    BY <1>1, <1>2, <1>3, <1>4, SingleFrame

LEMMA SweepStepSingle ==
    ASSUME Base, Single, NEW w \in Workers, Start(w) \/ Sweep(w) \/ FailSweep(w)
    PROVE  Single'
<1>0. /\ recov \in [Workers -> RecovType] /\ recov[w] \in RecovType /\ RecovInv(w)
      /\ tick \in [Workers -> TickType] /\ seqs \in [Sessions -> Nat]
      /\ rows \in [Ids -> {Nothing} \cup Row]
      /\ jobs \in [Ids -> {NoJob} \cup 0..(MaxAttempts - 1)]
      /\ throws \in Nat /\ SweepInv(w)
    BY DEF Base, Types, PgTypes, RedisTypes, CountTypes, Single
<1>1. recov[w].job # Nothing => recov[w].job \in Job /\ recov[w].job[1] \in Ids
                                /\ recov[w].job[2] \in 0..(MaxAttempts - 1)
    BY <1>0 DEF RecovType, Job
<1>2. CASE Start(w)
  <2>1. TickTo(w, IdleTick) /\ UNCHANGED <<pg, redis, enq, proc, history, counts>>
      BY <1>2 DEF Start
  <2>2. \A d \in Ids : RowInv(d)
      BY DEF Base
  <2>3. PICK r \in RecovType :
           /\ RecovMoves(w, r) /\ r.pc = "check"
           /\ \A d \in Ids : Unfinished(d) => \E job \in r.todo : job[1] = d
      BY <1>0, <1>2, <2>2, StartMoves
  <2>4. tick'[w] = IdleTick
      BY <1>0, <2>1, TickMoves, EmptyTick
  <2>5. tick'[w].pc = "idle" /\ tick'[w].picks = {}
      BY <2>4, EmptyTick
  <2>6. PassInv(w)'
      BY <2>5 DEF PassInv
  <2>7. UNCHANGED <<rows, enq, proc, jobs, waiting, seqs, lapsed, throws>>
      BY <2>1 DEF pg, redis, counts
  <2>8. \A d \in Ids : Unfinished(d)' <=> Unfinished(d)
      BY <2>7 DEF Unfinished, Stored
  <2>9. SweepInv(w)'
      BY <2>3, <2>8 DEF SweepInv, RecovMoves
  <2>10. Undisturbed(w, {})
      BY <2>7 DEF Undisturbed, Stored, Finished, Active
  <2>11. \A d \in Ids : OrderInv(d)'
    <3>1. \A d \in Ids : OrderInv(d)
        BY DEF Single
    <3> QED
        BY <2>7, <3>1 DEF OrderInv
  <2> QED
      BY <2>5, <2>6, <2>7, <2>8, <2>9, <2>10, <2>11, SingleFrame
<1>3. ASSUME NEW job \in recov[w].todo, CheckJob(w, job) PROVE Single'
  <2>1. UNCHANGED <<pg, redis, enq, tick, proc, history, counts>> /\ recov[w].pc = "check"
      BY <1>3 DEF CheckJob
  <2>2. PICK r \in RecovType :
           /\ RecovMoves(w, r) /\ r.job = job /\ r.todo = recov[w].todo \ {job}
           /\ r.pc = IF jobs[job[1]] = NoJob THEN "write" ELSE "check"
      BY <1>0, <1>3, CheckMoves
  <2>3. UNCHANGED <<rows, enq, tick, proc, jobs, waiting, seqs, lapsed, throws>>
      BY <2>1 DEF pg, redis, counts
  <2>4. \A d \in Ids : Unfinished(d)' <=> Unfinished(d)
      BY <2>3 DEF Unfinished, Stored
  <2>5. recov'[w] = r
      BY <2>2 DEF RecovMoves
  <2>6. SweepInv(w)'
    <3> SUFFICES ASSUME throws = 0, NEW d \in Ids, Unfinished(d), enq[d].pc # "write",
                        jobs[d] = NoJob
                 PROVE  \/ \E j \in r.todo : j[1] = d
                        \/ r.pc = "write" /\ r.job[1] = d
        BY <2>3, <2>4, <2>5 DEF SweepInv
    <3>1. PICK j \in recov[w].todo : j[1] = d
        BY <1>0, <2>1 DEF SweepInv
    <3> QED
        BY <2>2, <3>1
  <2> QED
      BY <1>0, <2>1, <2>3, <2>6, SweepSingle
<1>4. CASE ReviveJob(w)
  <2>1. PICK job : job = recov[w].job
      OBVIOUS
  <2>2. /\ recov[w].pc = "write" /\ recov' = [recov EXCEPT ![w].pc = "join"]
        /\ jobs' = [jobs EXCEPT ![job[1]] = job[2]]
        /\ UNCHANGED <<pg, seqs, waiting, scheduled, enq, tick, proc, history, counts>>
      BY <1>4, <2>1 DEF ReviveJob
  <2>3. job[1] \in Ids /\ job[2] # NoJob
      BY <1>0, <1>1, <2>1, <2>2, NoJobAssumption DEF RecovInv
  <2>4. jobs'[job[1]] # NoJob /\ \A e \in Ids : jobs[e] # NoJob => jobs'[e] # NoJob
      BY <1>0, <2>2, <2>3
  <2>5. PICK r \in RecovType : RecovMoves(w, r) /\ r.pc = "join" /\ r.todo = recov[w].todo
      BY <1>0, <2>2, RecovToPlace
  <2>6. recov'[w] = r
      BY <2>5 DEF RecovMoves
  <2>7. UNCHANGED <<rows, enq, tick, proc, waiting, seqs, lapsed, throws>>
      BY <2>2 DEF pg, counts
  <2>8. \A d \in Ids : Unfinished(d)' <=> Unfinished(d)
      BY <2>7 DEF Unfinished, Stored
  <2>9. SweepInv(w)'
      BY <1>0, <2>1, <2>2, <2>4, <2>5, <2>6, <2>7, <2>8 DEF SweepInv
  <2> QED
      BY <1>0, <2>2, <2>4, <2>7, <2>9, SweepSingle
<1>5. ASSUME NEW pc \in {"check", "write", "join", "schedule", "done"},
             pc \in {"check", "schedule"}, recov[w].pc \in {"join", "schedule"},
             recov' = [recov EXCEPT ![w].pc = pc],
             UNCHANGED <<pg, jobs, enq, tick, proc, history, counts>>,
             \A e \in Ids : e \in waiting => e \in waiting',
             seqs' \in [Sessions -> Nat], \A s \in Sessions : seqs[s] <= seqs'[s]
      PROVE  Single'
  <2>1. recov' = [recov EXCEPT ![w].pc = pc]
      BY <1>5
  <2>2. PICK r \in RecovType : RecovMoves(w, r) /\ r.pc = pc /\ r.todo = recov[w].todo
      BY <1>0, <2>1, RecovToPlace
  <2>3. recov'[w] = r
      BY <2>2 DEF RecovMoves
  <2>4. UNCHANGED <<rows, enq, tick, proc, jobs, lapsed, throws>>
      BY <1>5 DEF pg, counts
  <2>5. \A d \in Ids : Unfinished(d)' <=> Unfinished(d)
      BY <2>4 DEF Unfinished, Stored
  <2>6. SweepInv(w)'
      BY <1>0, <1>5, <2>2, <2>3, <2>4, <2>5 DEF SweepInv
  <2> QED
      BY <1>0, <1>5, <2>4, <2>6, SweepSingle
<1>6. CASE ReviveOrder(w)
  <2>1. PICK d : d = recov[w].job[1]
      OBVIOUS
  <2>2. /\ recov[w].pc = "join" /\ recov' = [recov EXCEPT ![w].pc = "schedule"]
        /\ waiting' = waiting \cup {d}
        /\ seqs' = [seqs EXCEPT ![rows[d].session] = IF @ < rows[d].seq THEN rows[d].seq ELSE @]
        /\ UNCHANGED <<pg, jobs, scheduled, enq, tick, proc, history, counts>>
      BY <1>6, <2>1 DEF ReviveOrder
  <2>3. d \in Ids /\ rows[d] \in Row
      BY <1>0, <1>1, <2>1, <2>2 DEF RecovInv, Stored
  <2>4. seqs' \in [Sessions -> Nat] /\ \A s \in Sessions : seqs[s] <= seqs'[s]
    <3>1. rows[d].session \in Sessions /\ rows[d].seq \in Nat
        BY <2>3 DEF Row
    <3> QED
        BY <1>0, <2>2, <3>1
  <2>5. \A e \in Ids : e \in waiting => e \in waiting'
      BY <2>2
  <2> QED
      BY <1>5, <2>2, <2>4, <2>5
<1>7. CASE ReviveSchedule(w)
  <2>1. /\ recov[w].pc = "schedule" /\ recov' = [recov EXCEPT ![w].pc = "check"]
        /\ UNCHANGED <<pg, seqs, jobs, waiting, enq, tick, proc, history, counts>>
      BY <1>7 DEF ReviveSchedule
  <2>2. \A s \in Sessions : seqs[s] <= seqs[s]
      BY <1>0
  <2> QED
      BY <1>0, <1>5, <2>1, <2>2
<1>8. CASE FinishSweep(w) \/ FailSweep(w)
  <2>1. /\ recov' = [recov EXCEPT ![w] = NoSweep] /\ recov[w].pc # "done"
        /\ throws' = 0 => throws = 0
        /\ UNCHANGED <<pg, redis, enq, tick, proc, history, crashes, lapsed>>
    <3>1. CASE FinishSweep(w)
        BY <3>1 DEF FinishSweep, counts
    <3>2. CASE FailSweep(w)
      <4>1. throws' = throws + 1 /\ UNCHANGED <<crashes, lapsed>>
          BY <3>2 DEF FailSweep, Throw
      <4>2. throws' # 0
          BY <1>0, <4>1
      <4> QED
          BY <3>2, <4>1, <4>2 DEF FailSweep
    <3> QED
        BY <1>8, <3>1, <3>2
  <2>2. RecovMoves(w, NoSweep) /\ NoSweep.pc = "done"
      BY <1>0, <2>1, SweepEnds
  <2>3. SweepInv(w)'
      BY <2>2 DEF SweepInv, RecovMoves
  <2>4. UNCHANGED <<rows, enq, tick, proc, jobs, waiting, seqs, lapsed>>
      BY <2>1 DEF pg, redis
  <2>5. \A s \in Sessions : seqs[s] <= seqs[s]
      BY <1>0
  <2> QED
      BY <1>0, <2>1, <2>3, <2>4, <2>5, SweepSingle
<1> QED
    BY <1>2, <1>3, <1>4, <1>6, <1>7, <1>8 DEF Sweep

LEMMA CrashSingle == ASSUME Base, Single, NEW w \in Workers, Crash(w) PROVE Single'
<1>1. CrashMoves(w)
    BY CrashChanges DEF Base
<1>2. \A v \in Workers : v = w
    BY DEF Single, OneWorker
<1>3. \A d \in Ids : ~Active(w, d)'
    BY <1>1 DEF CrashMoves, Active, IdleProc
<1>4. recov'[w].pc = "done" /\ tick'[w].pc = "down" /\ tick'[w].picks = {}
    BY <1>1, EmptyTick DEF CrashMoves, RecovMoves, NoSweep
<1>5. DownInv(w)' /\ PassInv(w)' /\ SweepInv(w)'
    BY <1>3, <1>4 DEF DownInv, PassInv, SweepInv
<1>6. \A d \in Ids : ActiveInv(w, d)'
    BY <1>3 DEF ActiveInv
<1>7. rows' = rows /\ waiting' = waiting /\ lapsed' = lapsed /\ seqs' = seqs
    BY <1>1 DEF CrashMoves, pg, redis
<1>8. \A d \in Ids : JoinedInv(d)'
  <2>1. \A d \in Ids : JoinedInv(d)
      BY DEF Single
  <2> QED
      BY <1>1, <1>7, <2>1 DEF JoinedInv, CrashMoves, Unfinished, Stored
<1>9. \A d \in Ids : OrderInv(d)'
  <2>1. \A e \in Ids : /\ enq[e].pc = "new" => enq'[e].pc = "new"
                       /\ enq[e].pc = "done" => enq'[e].pc = "done"
                       /\ enq'[e].session = enq[e].session /\ enq'[e].seq = enq[e].seq
                       /\ enq'[e].after = enq[e].after
      BY <1>1 DEF CrashMoves, Enqueueing
  <2>2. seqs' \in [Sessions -> Nat] /\ \A s \in Sessions : seqs[s] <= seqs'[s]
      BY <1>7 DEF Base, Types, RedisTypes
  <2> QED
      BY <1>7, <2>1, <2>2, OrderFrame
<1>10. OneWorker
    BY DEF Single
<1> QED
    BY <1>2, <1>5, <1>6, <1>8, <1>9, <1>10 DEF Single, OneWorker

(* The keys run out only when nothing runs that relies on them. *)
LEMMA LapseSingle == ASSUME Base, Single, Lapse PROVE Single'
<1>1. /\ \A w \in Workers : tick[w].pc = "down"
      /\ lapsed' = TRUE
      /\ UNCHANGED <<pg, scheduled, enq, tick, proc, recov, history, crashes, throws>>
    BY DEF Lapse, Up
<1>2. ASSUME NEW w \in Workers
      PROVE  /\ \A d \in Ids : ~Active(w, d)
             /\ recov[w].pc = "done" /\ tick[w].picks = {}
    BY <1>1 DEF Single, DownInv
<1>3. ASSUME NEW w \in Workers
      PROVE  /\ DownInv(w)' /\ PassInv(w)' /\ SweepInv(w)'
             /\ \A d \in Ids : ActiveInv(w, d)'
  <2>1. \A d \in Ids : ~Active(w, d)'
      BY <1>1, <1>2 DEF Active
  <2> QED
      BY <1>1, <1>2, <2>1 DEF DownInv, PassInv, SweepInv, ActiveInv
<1>4. \A d \in Ids : JoinedInv(d)' /\ OrderInv(d)'
  <2>1. \A d \in Ids : OrderInv(d)
      BY DEF Single
  <2> QED
      BY <1>1, <2>1 DEF JoinedInv, OrderInv
<1>5. OneWorker
    BY DEF Single
<1> QED
    BY <1>3, <1>4, <1>5 DEF Single, OneWorker

LEMMA RestSingle ==
    ASSUME Base, Single,
           (\E d \in Ids : Elapse(d) \/ DismissDeadLetter(d)) \/ UNCHANGED vars
    PROVE  Single'
<1>1. PICK w \in Workers : TRUE
    BY DEF Single, OneWorker
<1>2. UNCHANGED <<rows, enq, tick, proc, recov, jobs, waiting, seqs, lapsed, throws>>
    BY DEF Elapse, DismissDeadLetter, vars, pg, redis, counts, history
<1> QED
    BY <1>2, QuietSingle

LEMMA NextSingle == Base /\ Single /\ [Next]_vars => Single'
<1> SUFFICES ASSUME Base, Single, [Next]_vars PROVE Single'
    OBVIOUS
<1>1. ASSUME NEW d \in Ids, EnqueueStep(d) \/ FailEnqueue(d) PROVE Single'
    BY <1>1, EnqueueStepSingle
<1>2. ASSUME NEW w \in Workers, Tick(w) \/ FailTick(w) PROVE Single'
    BY <1>2, TickSingle, DispatchSingle DEF Tick
<1>3. ASSUME NEW w \in Workers, NEW d \in Ids, Process(w, d) \/ FailProcess(w, d)
      PROVE  Single'
    BY <1>3, ProcessStepSingle
<1>4. ASSUME NEW w \in Workers, Start(w) \/ Sweep(w) \/ FailSweep(w) \/ Crash(w)
      PROVE  Single'
    BY <1>4, SweepStepSingle, CrashSingle
<1>5. ASSUME NEW w \in Workers, NEW d \in Ids, NEW s \in Sessions, Enqueue(w, d, s)
      PROVE  Single'
    BY <1>5, StartSingle DEF Enqueue
<1>6. ASSUME NEW w \in Workers, NEW d \in Ids, NEW e \in Ids, Requeue(w, d, e) PROVE Single'
  <2>1. dead[e] # "no" /\ StartEnqueue(w, d, rows[e].session, e)
      BY <1>6 DEF Requeue
  <2>2. rows[e] \in Row
      BY <2>1 DEF Base, RowInv, Types, PgTypes, Stored
  <2>3. rows[e].session \in Sessions
      BY <2>2 DEF Row
  <2> QED
      BY <2>1, <2>3, StartSingle
<1> QED
    BY <1>1, <1>2, <1>3, <1>4, <1>5, <1>6, LapseSingle, RestSingle DEF Next

LEMMA AlwaysSingle == Spec /\ OneWorker => [](Base /\ Single)
<1>1. Init /\ OneWorker => Base /\ Single
    BY InitBase, InitSingle
<1>2. Base /\ Single /\ [Next]_vars => Base' /\ Single'
    BY NextBase, NextSingle
<1> QED
    BY <1>1, <1>2, PTL DEF Spec

(* With one worker at most one job of a session is in process(), although  *)
(* several passes dispatch beside the calls of earlier ones.               *)
THEOREM OneJobPerSession == Spec /\ OneWorker => []OneInFlight
<1>1. Base /\ Single => OneInFlight
  <2> SUFFICES ASSUME Base, Single, NEW v \in Workers, NEW w \in Workers,
                      NEW d \in Inflight(v), NEW e \in Inflight(w), SameSession(d, e)
               PROVE  d = e /\ v = w
      BY DEF OneInFlight
  <2>1. v = w
      BY DEF Single, OneWorker
  <2> QED
      BY <2>1 DEF Single, ActiveInv, Alone, Inflight
<1> QED
    BY <1>1, AlwaysSingle, PTL

(* With one worker no event is sent to the merchant before the events of   *)
(* its session enqueued earlier are delivered or dead, whatever crashes or *)
(* throws, until the keys of the queue run out of their time to live.      *)
THEOREM SentInOrder == Spec /\ OneWorker => InOrder
<1>1. Base /\ Single /\ [Next]_vars =>
         [\A w \in Workers, d \in Ids :
             Deliver(w, d) /\ ~lapsed => \A e \in enq[d].after : Finished(e)]_vars
  <2> SUFFICES ASSUME Single, NEW w \in Workers, NEW d \in Ids, Deliver(w, d), ~lapsed
               PROVE  \A e \in enq[d].after : Finished(e)
      OBVIOUS
  <2>1. Active(w, d)
      BY DEF Deliver, Active
  <2> QED
      BY <2>1 DEF Single, ActiveInv, AfterOver
<1> QED
    BY <1>1, AlwaysSingle, PTL DEF Spec, InOrder

(* When the recovery sweep of the worker is over and nothing has thrown,   *)
(* every unfinished row outside an enqueue call has its job again.         *)
THEOREM SweepRevivesJobs == Spec /\ OneWorker => SweepLeavesNoBareRow
<1>1. Base /\ Single /\ [Next]_vars =>
         [\A w \in Workers : FinishSweep(w) /\ throws = 0 =>
             \A d \in Ids : Unfinished(d) /\ ~Enqueueing(d) => jobs[d] # NoJob]_vars
  <2> SUFFICES ASSUME Single, NEW w \in Workers, FinishSweep(w), throws = 0,
                      NEW d \in Ids, Unfinished(d), ~Enqueueing(d)
               PROVE  jobs[d] # NoJob
      OBVIOUS
  <2>1. recov[w].pc = "check" /\ recov[w].todo = {} /\ enq[d].pc # "write"
      BY DEF FinishSweep, Enqueueing
  <2> QED
      BY <2>1 DEF Single, SweepInv
<1> QED
    BY <1>1, AlwaysSingle, PTL DEF Spec, SweepLeavesNoBareRow

-----------------------------------------------------------------------------
(* What holds with one instance until a crash or an exception. *)

(* The places of a delivery whose job is complete in Redis, or gone. *)
Ready(d) ==
    /\ Unfinished(d) /\ d \in waiting /\ jobs[d] = rows[d].attempts
    /\ scheduled[d] # "no" /\ tries[d] = rows[d].attempts

Gone(d) ==
    /\ Finished(d) /\ d \notin waiting /\ jobs[d] = NoJob
    /\ scheduled[d] = "no" /\ tries[d] = rows[d].attempts

(* A delivery on its way into Redis ... *)
Entering(d) ==
    /\ scheduled[d] = "no" /\ tries[d] = 0 /\ dead[d] = "no"
    /\ Stored(d) => rows[d].status = "pending" /\ rows[d].attempts = 0
    /\ jobs[d] = IF enq[d].pc \in {"join", "schedule"} THEN 0 ELSE NoJob
    /\ d \in waiting <=> enq[d].pc = "schedule"
    /\ \A w \in Workers : ~Active(w, d)

(* ... and one that has entered it. *)
Entered(w, d) ==
    LET p == proc[w][d] IN
    /\ p.pc = "idle" => Ready(d) \/ Gone(d)
    /\ p.pc = "deliver" => Ready(d) /\ p.attempt = rows[d].attempts
    /\ p.pc = "record" => /\ Unfinished(d) /\ d \in waiting /\ scheduled[d] # "no"
                          /\ p.attempt = rows[d].attempts /\ tries[d] = p.attempt + 1
    /\ p.pc \in {"bury", "unschedule", "leave", "delete"} =>
          Finished(d) /\ tries[d] = rows[d].attempts
    /\ p.pc = "bury" => rows[d].status = "dead" /\ dead[d] = "no"
    /\ p.pc \in {"bury", "unschedule", "leave"} => d \in waiting
    /\ p.pc = "leave" => scheduled[d] = "no"
    /\ p.pc = "delete" => scheduled[d] = "no" /\ d \notin waiting
    /\ p.pc \in {"rewrite", "reschedule"} =>
          /\ Unfinished(d) /\ d \in waiting /\ scheduled[d] # "no"
          /\ rows[d].attempts = p.attempt + 1 /\ tries[d] = p.attempt + 1
    /\ p.pc = "reschedule" => jobs[d] = rows[d].attempts

IsIn(d) == enq[d].pc \in {"mark", "done"}
Dead(d) == Stored(d) /\ rows[d].status = "dead"

(* Where every delivery is; dead letters, and what is retried, are dead. *)
PlaceInv(d) ==
    /\ enq[d].pc # "failed"
    /\ ~IsIn(d) => Entering(d)
    /\ IsIn(d) => \A w \in Workers : Entered(w, d)
    /\ dead[d] # "no" => Dead(d)
    /\ enq[d].of # Nothing => Dead(enq[d].of)

(* The pass holds only deliveries that have entered the queue, and the     *)
(* attempt numbers in their jobs; the sweep finds nothing.                 *)
HoldInv(w) ==
    /\ tick[w].pc = "down" => \A d \in Ids : enq[d].pc = "new"
    /\ recov[w].todo = {} /\ recov[w].pc \in {"check", "done"}
    /\ \A d \in tick[w].due : IsIn(d)
    /\ tick[w].pc \in {"read", "drop", "head"} => IsIn(tick[w].job[1])
    /\ tick[w].pc = "drop" => Gone(tick[w].job[1])
    /\ tick[w].pc = "head" => tick[w].job[2] = jobs[tick[w].job[1]]
    /\ \A job \in tick[w].picks : IsIn(job[1]) /\ job[2] = jobs[job[1]]

CalmInv == Calm => (\A d \in Ids : PlaceInv(d)) /\ (\A w \in Workers : HoldInv(w))

LEMMA InitCalm == Init => CalmInv
<1> SUFFICES ASSUME Init PROVE CalmInv
    OBVIOUS
<1>1. \A d \in Ids : enq[d].pc = "new" /\ enq[d].of = Nothing
    BY DEF Init, NewEnq
<1>2. \A w \in Workers : /\ recov[w].todo = {} /\ recov[w].pc = "done"
                         /\ tick[w].pc = "down" /\ tick[w].due = {} /\ tick[w].picks = {}
    BY DEF Init, NoSweep, IdleTick
<1>3. \A d \in Ids, w \in Workers : ~Active(w, d)
    BY DEF Init, Active, IdleProc
<1>4. \A d \in Ids : /\ rows[d] = Nothing /\ dead[d] = "no" /\ jobs[d] = NoJob
                     /\ d \notin waiting /\ scheduled[d] = "no" /\ tries[d] = 0
    BY DEF Init
<1>5. \A d \in Ids : PlaceInv(d)
    BY <1>1, <1>3, <1>4 DEF PlaceInv, IsIn, Entering, Stored
<1>6. \A w \in Workers : HoldInv(w)
    BY <1>1, <1>2 DEF HoldInv
<1> QED
    BY <1>5, <1>6 DEF CalmInv

(* A step that leaves the delivery d where it is: its row and its keys ... *)
Stays(d) ==
    /\ rows'[d] = rows[d] /\ jobs'[d] = jobs[d] /\ tries'[d] = tries[d]
    /\ d \in waiting' <=> d \in waiting
    /\ scheduled'[d] = "no" <=> scheduled[d] = "no"

(* ... and the calls that are about it. *)
Rests(d) ==
    /\ Stays(d) /\ enq'[d] = enq[d]
    /\ dead'[d] # "no" => dead[d] # "no"
    /\ \A w \in Workers : proc'[w][d] = proc[w][d]

LEMMA PlaceFrame ==
    ASSUME Base, NEW d \in Ids, PlaceInv(d), Rests(d), \A e \in Ids : Dead(e) => Dead(e)'
    PROVE  PlaceInv(d)'
<1>1. PICK o \in Ids \cup {Nothing} : o = enq[d].of
    BY DEF Base, Types, EnqType
<1>2. enq'[d].of = o
    BY <1>1 DEF Rests
<1>3. o # Nothing => Dead(o)'
    BY <1>1 DEF PlaceInv
<1>4. Entering(d) => Entering(d)'
    BY DEF Rests, Stays, Entering, Stored, Active
<1>5. ASSUME NEW w \in Workers, Entered(w, d) PROVE Entered(w, d)'
  <2>1. /\ Ready(d) => Ready(d)'
        /\ Gone(d) => Gone(d)'
        /\ Unfinished(d) => Unfinished(d)'
        /\ Finished(d) => Finished(d)'
      BY DEF Rests, Stays, Ready, Gone, Unfinished, Finished, Stored
  <2> QED
      BY <1>5, <2>1 DEF Rests, Stays, Entered
<1>6. (IsIn(d)' <=> IsIn(d)) /\ (dead'[d] # "no" => Dead(d)') /\ enq'[d].pc # "failed"
    BY DEF Rests, Stays, IsIn, PlaceInv
<1>7. (~IsIn(d) => Entering(d)) /\ (IsIn(d) => \A w \in Workers : Entered(w, d))
    BY DEF PlaceInv
<1>8. (enq[d].of # Nothing => Dead(enq[d].of))'
  <2>1. o # Nothing => rows'[o] # Nothing /\ rows'[o].status = "dead"
      BY <1>3 DEF Dead, Stored
  <2> QED
      BY <1>2, <2>1 DEF Dead, Stored
<1>9. (~IsIn(d) => Entering(d))' /\ (IsIn(d) => \A w \in Workers : Entered(w, d))'
    BY <1>4, <1>5, <1>6, <1>7
<1> QED
    BY <1>6, <1>8, <1>9 DEF PlaceInv

(* What the pass holds is not in process(), and stays. *)
LEMMA HoldFrame ==
    ASSUME Base, Single, NEW w \in Workers, HoldInv(w), tick'[w] = tick[w],
           recov'[w] = recov[w], tick[w].pc = "down" => \A d \in Ids : enq'[d].pc = enq[d].pc,
           \A d \in Ids : IsIn(d) => IsIn(d)' /\ (Stays(d) \/ Active(w, d))
    PROVE  HoldInv(w)'
<1>1. tick[w] \in TickType /\ TickInv(w) /\ PassInv(w)
    BY DEF Base, Types, Single
<1>2. \A d \in Ids : Stored(d) /\ ~SessionBusy(w, d) => ~Active(w, d)
    BY DEF SessionBusy, Inflight, SameSession
<1>3. \A d \in tick[w].due : IsIn(d)'
    BY <1>1 DEF HoldInv, TickType
<1>4. tick[w].job # Nothing => tick[w].job[1] \in Ids /\ Stored(tick[w].job[1])
    BY <1>1 DEF TickType, Job, TickInv
<1>5. tick[w].pc \in {"read", "drop", "head"} => IsIn(tick[w].job[1])'
    BY <1>1, <1>4 DEF HoldInv, TickInv
<1>6. ASSUME tick[w].pc = "drop" PROVE Gone(tick[w].job[1])'
  <2>1. PICK d \in Ids : d = tick[w].job[1] /\ Gone(d) /\ IsIn(d)
      BY <1>1, <1>4, <1>6 DEF HoldInv, TickInv
  <2>2. ~Active(w, d)
      BY <2>1 DEF Single, ActiveInv, Gone
  <2>3. Gone(d)'
      BY <2>1, <2>2 DEF Stays, Gone, Finished, Stored
  <2> QED
      BY <2>1, <2>3
<1>7. ASSUME tick[w].pc = "head" PROVE tick[w].job[2] = jobs'[tick[w].job[1]]
  <2>1. PICK d \in Ids : d = tick[w].job[1] /\ IsIn(d) /\ ~Active(w, d)
      BY <1>1, <1>2, <1>4, <1>7 DEF HoldInv, TickInv, PassInv
  <2> QED
      BY <1>7, <2>1 DEF HoldInv, Stays
<1>8. ASSUME NEW job \in tick[w].picks PROVE IsIn(job[1])' /\ job[2] = jobs'[job[1]]
  <2>1. job[1] \in Ids /\ Stored(job[1]) /\ ~SessionBusy(w, job[1])
      BY <1>1 DEF TickType, Job, TickInv, PassInv
  <2>2. PICK d \in Ids : d = job[1] /\ IsIn(d) /\ ~Active(w, d) /\ job[2] = jobs[d]
      BY <1>2, <2>1 DEF HoldInv
  <2>3. IsIn(d)' /\ jobs'[d] = jobs[d]
      BY <2>2 DEF Stays
  <2> QED
      BY <2>2, <2>3
<1> QED
    BY <1>3, <1>5, <1>6, <1>7, <1>8 DEF HoldInv

LEMMA CalmFrame ==
    ASSUME Base, Single, NEW w \in Workers, CalmInv, Calm' => Calm, NEW D \in SUBSET Ids,
           Calm => \A d \in Ids \ D : Rests(d),
           Calm => \A d \in D : PlaceInv(d)',
           Calm => \A e \in Ids : Dead(e) => Dead(e)',
           Calm => HoldInv(w)'
    PROVE  CalmInv'
<1> SUFFICES ASSUME Calm, Calm' PROVE (\A d \in Ids : PlaceInv(d)') /\ HoldInv(w)'
    BY DEF CalmInv, Single, OneWorker
<1>1. \A d \in Ids \ D : PlaceInv(d)'
    BY PlaceFrame DEF CalmInv
<1> QED
    BY <1>1

(* A step in which nothing moves but the pass or the sweep. *)
LEMMA RestCalm ==
    ASSUME Base, Single, CalmInv, Calm' => Calm, NEW w \in Workers,
           UNCHANGED <<rows, enq, proc, jobs, waiting, tries>>,
           Calm => \A d \in Ids : scheduled'[d] = "no" <=> scheduled[d] = "no",
           \A d \in Ids : dead'[d] # "no" => dead[d] # "no",
           \/ Calm => HoldInv(w)'
           \/ tick'[w] = tick[w] /\ recov'[w] = recov[w]
    PROVE  CalmInv'
<1>1. Calm => \A d \in Ids : Rests(d)
    BY DEF Rests, Stays
<1>2. \A e \in Ids : Dead(e) => Dead(e)'
    BY DEF Dead, Stored
<1>3. Calm => HoldInv(w)'
  <2>1. ASSUME Calm, tick'[w] = tick[w], recov'[w] = recov[w] PROVE HoldInv(w)'
    <3>1. HoldInv(w)
        BY <2>1 DEF CalmInv
    <3>2. \A d \in Ids : IsIn(d) => IsIn(d)' /\ Stays(d)
        BY <1>1, <2>1 DEF Rests, IsIn
    <3> QED
        BY <2>1, <3>1, <3>2, HoldFrame
  <2> QED
      BY <2>1
<1>4. PICK D \in SUBSET Ids : D = {}
    OBVIOUS
<1>5. Calm => \A d \in Ids \ D : Rests(d)
    BY <1>1
<1>6. Calm => \A d \in D : PlaceInv(d)'
    BY <1>4
<1> QED
    BY <1>2, <1>3, <1>5, <1>6, CalmFrame

LEMMA FaultIsNotCalm ==
    ASSUME Base, crashes' = crashes + 1 \/ throws' = throws + 1
    PROVE  ~Calm'
<1>1. crashes \in Nat /\ throws \in Nat
    BY DEF Base, Types, CountTypes
<1> QED
    BY <1>1 DEF Calm

LEMMA ContinueCalm ==
    ASSUME Base, Single, CalmInv, Calm, NEW w \in Workers, NEW room \in 0..MaxConcurrency,
           NEW due \in SUBSET Ids, NEW picks \in SUBSET Job, Continue(w, room, due, picks),
           \A d \in due : IsIn(d),
           \A job \in picks : IsIn(job[1]) /\ job[2] = jobs[job[1]],
           UNCHANGED <<enq, jobs, recov>>
    PROVE  HoldInv(w)'
<1>1. WentOn(w, tick'[w], room, due, picks)
  <2>1. tick \in [Workers -> TickType]
      BY DEF Base, Types
  <2> QED
      BY <2>1, ContinueMoves
<1>2. recov[w].todo = {} /\ recov[w].pc \in {"check", "done"}
    BY DEF CalmInv, HoldInv
<1>3. \A d : IsIn(d)' <=> IsIn(d)
    BY DEF IsIn
<1>4. tick'[w].pc \in {"dispatch", "read"} /\ tick'[w].picks = picks /\ tick'[w].due \subseteq due
    BY <1>1 DEF WentOn
<1>5. tick'[w].pc = "read" => IsIn(tick'[w].job[1])
    BY <1>1 DEF WentOn
<1> QED
    BY <1>2, <1>3, <1>4, <1>5 DEF HoldInv, IsIn

LEMMA TickCalm ==
    ASSUME Base, Single, CalmInv, NEW w \in Workers,
           TickStart(w) \/ ReadJob(w) \/ DropDue(w) \/ CheckHead(w) \/ FailTick(w)
    PROVE  CalmInv'
<1>1. /\ tick \in [Workers -> TickType] /\ tick[w] \in TickType /\ TickInv(w)
      /\ PassInv(w) /\ scheduled \in [Ids -> {"no", "due", "later"}]
    BY DEF Base, Types, RedisTypes, Single
<1>2. /\ tick[w].room \in 0..MaxConcurrency /\ tick[w].due \in SUBSET Ids
      /\ tick[w].picks \in SUBSET Job
    BY <1>1 DEF TickType
<1>3. tick[w].pc \in {"read", "drop", "head"} =>
        tick[w].job \in Job /\ tick[w].job[1] \in Ids /\ Stored(tick[w].job[1])
    BY <1>1 DEF TickInv, TickType, Job
<1>4. CASE FailTick(w)
  <2>1. throws' = throws + 1
      BY <1>4 DEF FailTick, Throw
  <2> QED
      BY <2>1, FaultIsNotCalm DEF CalmInv
<1>5. ASSUME ~FailTick(w)
      PROVE  /\ UNCHANGED <<rows, dead, enq, proc, recov, jobs, waiting, tries, crashes, throws>>
             /\ ~DropDue(w) => UNCHANGED scheduled
    BY <1>5 DEF TickStart, ReadJob, DropDue, CheckHead, pg, redis, counts, history
<1>6. ASSUME Calm, ~FailTick(w)
      PROVE  HoldInv(w)' /\ \A d \in Ids : scheduled'[d] = "no" <=> scheduled[d] = "no"
  <2>0. HoldInv(w) /\ \A d \in Ids : PlaceInv(d)
      BY <1>6 DEF CalmInv
  <2>1. CASE TickStart(w)
    <3>1. PICK due \in SUBSET Ids : due = {d \in Ids : scheduled[d] = "due"}
        OBVIOUS
    <3>2. PICK n : n = Cardinality(Inflight(w))
        OBVIOUS
    <3>3. n < MaxConcurrency /\ Continue(w, MaxConcurrency - n, due, {})
        BY <2>1, <3>1, <3>2 DEF TickStart
    <3>4. n \in Nat
        BY <3>2, FS_CardinalityType DEF Base
    <3>5. MaxConcurrency - n \in 0..MaxConcurrency
        BY <3>3, <3>4, LimitsAssumption
    <3>6. \A d \in due : IsIn(d)
        BY <2>0, <3>1 DEF PlaceInv, Entering
    <3>7. ~DropDue(w)
        BY <2>1 DEF TickStart, DropDue
    <3> QED
        BY <1>5, <1>6, <3>3, <3>5, <3>6, <3>7, ContinueCalm
  <2>2. CASE ReadJob(w)
    <3>1. PICK d \in Ids : d = tick[w].job[1] /\ Stored(d) /\ tick[w].pc = "read" /\ IsIn(d)
        BY <1>3, <2>0, <2>2 DEF ReadJob, HoldInv
    <3>2. UNCHANGED <<pg, redis, enq, proc, recov, history, counts>>
        BY <2>2 DEF ReadJob
    <3>3. UNCHANGED <<rows, jobs, waiting, scheduled, tries>>
        BY <3>2 DEF pg, redis, history
    <3>4. ASSUME NEW pc \in {"drop", "head"}, NEW n,
                 tick' = [tick EXCEPT ![w].pc = pc, ![w].job = <<d, n>>],
                 pc = "head" => n = jobs[d], pc = "drop" => jobs[d] = NoJob
          PROVE  HoldInv(w)'
      <4>1. PICK t : t = [[tick[w] EXCEPT !.pc = pc] EXCEPT !.job = <<d, n>>]
          OBVIOUS
      <4>2. t.pc = pc /\ t.job = <<d, n>> /\ t.picks = tick[w].picks /\ t.due = tick[w].due
          BY <1>1, <4>1 DEF TickType
      <4>3. tick' = [tick EXCEPT ![w] = t]
          BY <3>4, <4>1
      <4>4. tick'[w] = t
          BY <1>1, <4>3
      <4>5. t.job[1] = d /\ t.job[2] = n
          BY <4>2
      <4>6. pc = "drop" => Gone(d)
        <5>1. SUFFICES ASSUME pc = "drop" PROVE Gone(d)
            OBVIOUS
        <5>2. jobs[d] = NoJob
            BY <3>4, <5>1
        <5>3. ~Active(w, d)
            BY <5>2 DEF Single, ActiveInv
        <5>4. Ready(d) \/ Gone(d)
            BY <2>0, <3>1, <5>3 DEF PlaceInv, Entered, Active
        <5>5. ~Ready(d)
          <6>1. Stored(d) => rows[d] \in Row
              BY DEF Base, Types, PgTypes, Stored
          <6>2. Stored(d) => rows[d].attempts \in Nat
              BY <6>1, LimitsAssumption DEF Row
          <6> QED
              BY <5>2, <6>2, NoJobAssumption DEF Ready, Unfinished
        <5> QED
            BY <5>4, <5>5
      <4>7. Gone(d)' <=> Gone(d)
          BY <3>3 DEF Gone, Finished, Stored
      <4>8. \A e : IsIn(e)' <=> IsIn(e)
          BY <3>2 DEF IsIn
      <4>9. recov' = recov /\ enq' = enq
          BY <3>2
      <4> HIDE <4>1, <4>3, <3>4
      <4> QED
          BY <2>0, <3>1, <3>3, <3>4, <4>2, <4>4, <4>5, <4>6, <4>7, <4>8, <4>9 DEF HoldInv
    <3>5. CASE Continue(w, tick[w].room, tick[w].due, tick[w].picks)
      <4>1. \A e \in tick[w].due : IsIn(e)
          BY <2>0 DEF HoldInv
      <4>2. \A job \in tick[w].picks : IsIn(job[1]) /\ job[2] = jobs[job[1]]
          BY <2>0 DEF HoldInv
      <4> QED
          BY <1>2, <1>6, <3>2, <3>3, <3>5, <4>1, <4>2, ContinueCalm
    <3>6. \/ \E pc \in {"drop", "head"}, n \in {0, jobs[d]} :
                /\ tick' = [tick EXCEPT ![w].pc = pc, ![w].job = <<d, n>>]
                /\ pc = "head" => n = jobs[d]
                /\ pc = "drop" => jobs[d] = NoJob
          \/ Continue(w, tick[w].room, tick[w].due, tick[w].picks)
        BY <2>2, <3>1 DEF ReadJob
    <3> QED
        BY <3>3, <3>4, <3>5, <3>6
  <2>3. CASE DropDue(w)
    <3>1. PICK d \in Ids : d = tick[w].job[1] /\ Gone(d)
        BY <1>3, <2>0, <2>3 DEF DropDue, HoldInv
    <3>2. /\ scheduled' = [scheduled EXCEPT ![d] = "no"]
          /\ Continue(w, tick[w].room, tick[w].due, tick[w].picks)
          /\ UNCHANGED <<pg, seqs, jobs, waiting, enq, proc, recov, history, counts>>
        BY <2>3, <3>1 DEF DropDue
    <3>3. \A e \in Ids : scheduled'[e] = "no" <=> scheduled[e] = "no"
        BY <1>1, <3>1, <3>2 DEF Gone
    <3>4. \A e \in tick[w].due : IsIn(e)
        BY <2>0 DEF HoldInv
    <3>5. \A job \in tick[w].picks : IsIn(job[1]) /\ job[2] = jobs[job[1]]
        BY <2>0 DEF HoldInv
    <3> QED
        BY <1>2, <1>6, <3>2, <3>3, <3>4, <3>5, ContinueCalm
  <2>4. CASE CheckHead(w)
    <3>1. PICK job : job = tick[w].job
        OBVIOUS
    <3>2. PICK picks : picks = tick[w].picks \cup (IF IsHead(job[1]) THEN {job} ELSE {})
        OBVIOUS
    <3>3. /\ tick[w].pc = "head" /\ Continue(w, tick[w].room, tick[w].due, picks)
          /\ UNCHANGED <<pg, redis, enq, proc, recov, history, counts>>
        BY <2>4, <3>1, <3>2 DEF CheckHead
    <3>4. job \in Job /\ IsIn(job[1]) /\ job[2] = jobs[job[1]]
        BY <1>3, <2>0, <3>1, <3>3 DEF HoldInv
    <3>5. /\ picks \in SUBSET Job
          /\ \A j \in picks : IsIn(j[1]) /\ j[2] = jobs[j[1]]
        BY <1>2, <2>0, <3>2, <3>4 DEF HoldInv
    <3>6. \A e \in tick[w].due : IsIn(e)
        BY <2>0 DEF HoldInv
    <3>7. UNCHANGED <<jobs, scheduled>>
        BY <3>3 DEF redis
    <3> QED
        BY <1>2, <1>6, <3>3, <3>5, <3>6, <3>7, ContinueCalm
  <2> QED
      BY <1>6, <2>1, <2>2, <2>3, <2>4
<1>7. CASE ~FailTick(w)
  <2>1. Calm' => Calm
      BY <1>5, <1>7 DEF Calm
  <2> QED
      BY <1>5, <1>6, <1>7, <2>1, RestCalm
<1> QED
    BY <1>4, <1>7

LEMMA DispatchCalm ==
    ASSUME Base, Single, CalmInv, NEW w \in Workers, Dispatch(w) PROVE CalmInv'
<1>1. TickTo(w, IdleTick) /\ UNCHANGED <<pg, redis, enq, recov, history, counts>>
    BY DEF Dispatch
<1>2. tick'[w].pc = "idle" /\ tick'[w].picks = {} /\ tick'[w].due = {}
  <2>1. tick \in [Workers -> TickType]
      BY DEF Base, Types
  <2>2. tick'[w] = IdleTick
      BY <1>1, <2>1, TickMoves, EmptyTick
  <2> QED
      BY <2>2, EmptyTick
<1>3. PICK D \in SUBSET Ids :
         /\ \A d \in Ids \ D : proc'[w][d] = proc[w][d]
         /\ \A d \in D : /\ proc'[w][d].pc = "deliver"
                         /\ <<d, proc'[w][d].attempt>> \in tick[w].picks
    BY DispatchMoves DEF Base, Types
<1>4. UNCHANGED <<rows, dead, enq, recov, jobs, waiting, scheduled, tries, crashes, throws>>
    BY <1>1 DEF pg, redis, counts, history
<1>5. \A v \in Workers : v = w
    BY DEF Single, OneWorker
<1>6. \A d \in Ids \ D : Rests(d)
    BY <1>3, <1>4, <1>5 DEF Rests, Stays
<1>7. \A e \in Ids : Dead(e) => Dead(e)'
    BY <1>4 DEF Dead, Stored
<1>8. ASSUME Calm PROVE HoldInv(w)'
  <2>1. HoldInv(w)
      BY <1>8 DEF CalmInv
  <2> QED
      BY <1>2, <1>4, <2>1 DEF HoldInv
<1>9. ASSUME Calm, NEW d \in D PROVE PlaceInv(d)'
  <2>1. PICK job \in tick[w].picks : job[1] = d /\ job[2] = proc'[w][d].attempt
      BY <1>3
  <2>2. IsIn(d) /\ proc'[w][d].attempt = jobs[d] /\ PlaceInv(d)
      BY <1>9, <2>1 DEF CalmInv, HoldInv
  <2>3. ~SessionBusy(w, d) /\ jobs[d] # NoJob /\ Stored(d)
      BY <2>1 DEF Single, PassInv, Base, TickInv
  <2>4. ~Active(w, d)
      BY <2>3 DEF SessionBusy, Inflight, SameSession
  <2>5. Ready(d)
      BY <2>2, <2>3, <2>4 DEF PlaceInv, Entered, Active, Gone
  <2>6. Ready(d)' /\ IsIn(d)'
      BY <1>4, <2>2, <2>5 DEF Ready, Unfinished, Stored, IsIn
  <2>7. proc'[w][d].attempt = rows'[d].attempts
      BY <1>4, <2>2, <2>5 DEF Ready
  <2>8. Entered(w, d)'
      BY <1>3, <2>6, <2>7 DEF Entered
  <2>9. enq'[d].pc # "failed" /\ (dead[d] # "no" => Dead(d))'
      BY <1>4, <2>2 DEF PlaceInv, Dead, Stored
  <2>10. (enq[d].of # Nothing => Dead(enq[d].of))'
      BY <1>4, <2>2 DEF PlaceInv, Dead, Stored
  <2> QED
      BY <1>5, <2>6, <2>8, <2>9, <2>10 DEF PlaceInv
<1>10. Calm' => Calm
    BY <1>4 DEF Calm
<1> QED
    BY <1>6, <1>7, <1>8, <1>9, <1>10, CalmFrame

(* A process() call moves on: only its delivery does. *)
LEMMA ProcessCalm ==
    ASSUME Base, Single, CalmInv, NEW w \in Workers, NEW d \in Ids, Active(w, d),
           NEW p, ProcMoves(w, d, p), UNCHANGED <<enq, tick, recov, crashes, throws>>,
           \A e \in Ids \ {d} :
              /\ rows'[e] = rows[e] /\ jobs'[e] = jobs[e] /\ tries'[e] = tries[e]
              /\ e \in waiting' <=> e \in waiting
              /\ scheduled'[e] = scheduled[e] /\ dead'[e] = dead[e],
           Calm /\ PlaceInv(d) /\ Entered(w, d) =>
              Entered(w, d)' /\ (dead[d] # "no" => Dead(d))' /\ (Dead(d) => Dead(d)')
    PROVE  CalmInv'
<1>1. \A v \in Workers : v = w
    BY DEF Single, OneWorker
<1>2. \A e \in Ids \ {d} : Rests(e)
    BY <1>1 DEF ProcMoves, Rests, Stays
<1>3. ASSUME Calm
      PROVE  /\ PlaceInv(d)' /\ HoldInv(w)' /\ \A e \in Ids : Dead(e) => Dead(e)'
  <2>1. HoldInv(w) /\ PlaceInv(d)
      BY <1>3 DEF CalmInv
  <2>2. IsIn(d) /\ Entered(w, d)
      BY <2>1 DEF PlaceInv, Entering
  <2>3. Entered(w, d)' /\ (dead[d] # "no" => Dead(d))' /\ (Dead(d) => Dead(d)')
      BY <1>3, <2>1, <2>2
  <2>4. \A e \in Ids \ {d} : Dead(e) => Dead(e)'
      BY DEF Dead, Stored
  <2>5. \A e \in Ids : Dead(e) => Dead(e)'
      BY <2>3, <2>4
  <2>6. IsIn(d)' /\ enq'[d].pc # "failed"
      BY <2>1, <2>2 DEF IsIn, PlaceInv
  <2>7. (enq[d].of # Nothing => Dead(enq[d].of))'
    <3>1. PICK o \in Ids \cup {Nothing} : o = enq[d].of
        BY DEF Base, Types, EnqType
    <3>2. o # Nothing => Dead(o)'
        BY <2>1, <2>5, <3>1 DEF PlaceInv
    <3>3. o # Nothing => rows'[o] # Nothing /\ rows'[o].status = "dead"
        BY <3>2 DEF Dead, Stored
    <3> QED
        BY <3>1, <3>3 DEF Dead, Stored
  <2>8. PlaceInv(d)'
      BY <1>1, <2>3, <2>6, <2>7 DEF PlaceInv
  <2>9. \A e \in Ids : IsIn(e) => IsIn(e)' /\ (Stays(e) \/ Active(w, e))
      BY <1>2 DEF IsIn, Rests
  <2>10. HoldInv(w)'
      BY <2>1, <2>9, HoldFrame
  <2> QED
      BY <2>5, <2>8, <2>10
<1>4. Calm' => Calm
    BY DEF Calm
<1>5. PICK D \in SUBSET Ids : D = {d}
    OBVIOUS
<1> QED
    BY <1>2, <1>3, <1>4, <1>5, CalmFrame

LEMMA DeliverCalm ==
    ASSUME Base, Single, CalmInv, NEW w \in Workers, NEW d \in Ids, Deliver(w, d)
    PROVE  CalmInv'
<1>1. proc[w][d].pc = "deliver" /\ UNCHANGED <<pg, redis, enq, tick, recov, counts>>
    BY DEF Deliver
<1>2. PICK p \in ProcType : ProcMoves(w, d, p) /\ p.pc = "record"
                            /\ p.attempt = proc[w][d].attempt
    BY DeliverMoves DEF Base, Types
<1>3. PICK n : n = IF tries[d] > MaxAttempts THEN tries[d] ELSE tries[d] + 1
    OBVIOUS
<1>4. tries' = [tries EXCEPT ![d] = n]
    BY <1>3 DEF Deliver
<1>5. tries'[d] = n /\ \A e \in Ids \ {d} : tries'[e] = tries[e]
    BY <1>4 DEF Base, Types, CountTypes
<1>6. UNCHANGED <<rows, dead, jobs, waiting, scheduled, crashes, throws>>
    BY <1>1 DEF pg, redis, counts
<1>7. proc'[w][d] = p
    BY <1>2 DEF ProcMoves
<1>8. ASSUME Entered(w, d), PlaceInv(d)
      PROVE  Entered(w, d)' /\ (dead[d] # "no" => Dead(d))' /\ (Dead(d) => Dead(d)')
  <2>1. Ready(d) /\ p.attempt = rows[d].attempts
      BY <1>1, <1>2, <1>8 DEF Entered
  <2>2. tries[d] <= MaxAttempts /\ tries[d] \in Nat /\ tries[d] = p.attempt
    <3>1. p.attempt \in 0..(MaxAttempts - 1)
        BY DEF ProcType
    <3> QED
        BY <2>1, <3>1, LimitsAssumption DEF Ready
  <2>3. n = p.attempt + 1
      BY <1>3, <2>2, LimitsAssumption
  <2>4. Unfinished(d)' /\ d \in waiting' /\ scheduled'[d] # "no" /\ rows'[d] = rows[d]
      BY <1>6, <2>1 DEF Ready, Unfinished, Stored
  <2>5. Entered(w, d)'
      BY <1>2, <1>5, <1>7, <2>1, <2>3, <2>4 DEF Entered
  <2> QED
      BY <1>6, <1>8, <2>5 DEF PlaceInv, Dead, Stored
<1> QED
    BY <1>1, <1>2, <1>5, <1>6, <1>8, ProcessCalm DEF Active

LEMMA RecordCalm ==
    ASSUME Base, Single, CalmInv, NEW w \in Workers, NEW d \in Ids, RecordDelivery(w, d)
    PROVE  CalmInv'
<1>1. proc[w][d].pc = "record" /\ UNCHANGED <<dead, redis, enq, tick, recov, history, counts>>
    BY DEF RecordDelivery
<1>2. PICK p \in ProcType, row \in Row :
         /\ ProcMoves(w, d, p) /\ p.attempt = proc[w][d].attempt
         /\ p.pc = CASE row.status = "delivered" -> "unschedule"
                     [] row.status = "dead"      -> "bury"
                     [] row.status = "failed"    -> "rewrite"
         /\ row.status \in Outcomes /\ row.attempts = p.attempt + 1
         /\ rows'[d] = row /\ \A e \in Ids \ {d} : rows'[e] = rows[e]
    BY RecordMoves DEF Base
<1>3. UNCHANGED <<dead, jobs, waiting, scheduled, tries, crashes, throws>>
    BY <1>1 DEF redis, history, counts
<1>4. proc'[w][d] = p
    BY <1>2 DEF ProcMoves
<1>5. row # Nothing
    BY NothingAssumption
<1>6. /\ p.pc \in {"unschedule", "bury", "rewrite"}
      /\ p.pc = "bury" => row.status = "dead"
      /\ p.pc # "rewrite" => Finished(d)'
      /\ p.pc = "rewrite" => Unfinished(d)'
    BY <1>2, <1>5 DEF Outcomes, Finished, Unfinished, Stored
<1>7. ASSUME Entered(w, d), PlaceInv(d)
      PROVE  Entered(w, d)' /\ (dead[d] # "no" => Dead(d))' /\ (Dead(d) => Dead(d)')
  <2>1. /\ Unfinished(d) /\ d \in waiting /\ scheduled[d] # "no"
        /\ tries[d] = p.attempt + 1
      BY <1>1, <1>2, <1>7 DEF Entered
  <2>2. ~Dead(d) /\ dead[d] = "no"
      BY <1>7, <2>1 DEF Dead, Unfinished, PlaceInv
  <2>3. Entered(w, d)'
      BY <1>2, <1>3, <1>4, <1>6, <2>1, <2>2 DEF Entered
  <2> QED
      BY <1>3, <2>2, <2>3
<1> QED
    BY <1>1, <1>2, <1>3, <1>7, ProcessCalm DEF Active

(* The rest of process() leaves the rows alone. *)
LEMMA CleanupCalm ==
    ASSUME Base, Single, CalmInv, NEW w \in Workers, NEW d \in Ids,
           \/ DeadLetter(w, d) \/ Unschedule(w, d) \/ LeaveSession(w, d) \/ DeleteJob(w, d)
           \/ RewriteJob(w, d) \/ Reschedule(w, d)
    PROVE  CalmInv'
<1>0. /\ proc \in [Workers -> [Ids -> ProcType]]
      /\ jobs \in [Ids -> {NoJob} \cup 0..(MaxAttempts - 1)]
      /\ scheduled \in [Ids -> {"no", "due", "later"}]
      /\ dead \in [Ids -> {"no", "listed", "retried"}]
    BY DEF Base, Types, PgTypes, RedisTypes
<1>1. UNCHANGED <<rows, tries, enq, tick, recov, crashes, throws>> /\ Active(w, d)
    BY DEF DeadLetter, Unschedule, LeaveSession, DeleteJob, RewriteJob, Reschedule,
           pg, redis, history, counts, Active
<1>2. /\ Finished(d)' <=> Finished(d)
      /\ Unfinished(d)' <=> Unfinished(d)
      /\ Dead(d)' <=> Dead(d)
    BY <1>1 DEF Finished, Unfinished, Dead, Stored
<1>3. CASE DeadLetter(w, d)
  <2>1. /\ proc[w][d].pc = "bury" /\ UNCHANGED redis
        /\ dead' = [dead EXCEPT ![d] = IF @ = "no" THEN "listed" ELSE @]
        /\ IF dead[d] # "no" THEN Settle(w, d) ELSE ProcTo(w, d, "unschedule")
      BY <1>3 DEF DeadLetter
  <2>2. PICK p : ProcMoves(w, d, p) /\ (dead[d] = "no" => p.pc = "unschedule")
      BY <1>0, <2>1, ProcToMoves, SettleMoves DEF ProcPlaces
  <2>3. \A e \in Ids \ {d} : dead'[e] = dead[e]
      BY <1>0, <2>1
  <2>4. UNCHANGED <<jobs, waiting, scheduled>>
      BY <2>1 DEF redis
  <2>5. ASSUME Entered(w, d), PlaceInv(d)
        PROVE  Entered(w, d)' /\ (dead[d] # "no" => Dead(d))' /\ (Dead(d) => Dead(d)')
    <3>1. /\ Finished(d) /\ tries[d] = rows[d].attempts /\ Dead(d) /\ dead[d] = "no"
          /\ d \in waiting
        BY <2>1, <2>5 DEF Entered, Dead, Finished
    <3>2. proc'[w][d].pc = "unschedule"
        BY <2>2, <3>1 DEF ProcMoves
    <3>3. Entered(w, d)'
        BY <1>1, <1>2, <2>4, <3>1, <3>2 DEF Entered
    <3> QED
        BY <1>2, <3>1, <3>3
  <2> QED
      BY <1>1, <2>2, <2>3, <2>4, <2>5, ProcessCalm
<1>4. CASE Unschedule(w, d)
  <2>1. /\ proc[w][d].pc = "unschedule" /\ ProcTo(w, d, "leave")
        /\ scheduled' = [scheduled EXCEPT ![d] = "no"]
        /\ UNCHANGED <<dead, jobs, waiting>>
      BY <1>4 DEF Unschedule, pg
  <2>2. PICK p : ProcMoves(w, d, p) /\ p.pc = "leave"
      BY <1>0, <2>1, ProcToMoves DEF ProcPlaces
  <2>3. scheduled'[d] = "no" /\ \A e \in Ids \ {d} : scheduled'[e] = scheduled[e]
      BY <1>0, <2>1
  <2>4. ASSUME Entered(w, d), PlaceInv(d)
        PROVE  Entered(w, d)' /\ (dead[d] # "no" => Dead(d))' /\ (Dead(d) => Dead(d)')
    <3>1. /\ Finished(d) /\ tries[d] = rows[d].attempts /\ d \in waiting
        BY <2>1, <2>4 DEF Entered
    <3>2. proc'[w][d].pc = "leave"
        BY <2>2 DEF ProcMoves
    <3>3. Entered(w, d)'
        BY <1>1, <1>2, <2>1, <2>3, <3>1, <3>2 DEF Entered
    <3> QED
        BY <1>2, <2>1, <2>4, <3>3 DEF PlaceInv
  <2> QED
      BY <1>1, <2>1, <2>2, <2>3, <2>4, ProcessCalm
<1>5. CASE LeaveSession(w, d)
  <2>1. /\ proc[w][d].pc = "leave" /\ ProcTo(w, d, "delete") /\ waiting' = waiting \ {d}
        /\ UNCHANGED <<dead, jobs, scheduled>>
      BY <1>5 DEF LeaveSession, pg
  <2>2. PICK p : ProcMoves(w, d, p) /\ p.pc = "delete"
      BY <1>0, <2>1, ProcToMoves DEF ProcPlaces
  <2>3. d \notin waiting' /\ \A e \in Ids \ {d} : e \in waiting' <=> e \in waiting
      BY <2>1
  <2>4. ASSUME Entered(w, d), PlaceInv(d)
        PROVE  Entered(w, d)' /\ (dead[d] # "no" => Dead(d))' /\ (Dead(d) => Dead(d)')
    <3>1. /\ Finished(d) /\ tries[d] = rows[d].attempts /\ scheduled[d] = "no"
        BY <2>1, <2>4 DEF Entered
    <3>2. proc'[w][d].pc = "delete"
        BY <2>2 DEF ProcMoves
    <3>3. Entered(w, d)'
        BY <1>1, <1>2, <2>1, <2>3, <3>1, <3>2 DEF Entered
    <3> QED
        BY <1>2, <2>1, <2>4, <3>3 DEF PlaceInv
  <2> QED
      BY <1>1, <2>1, <2>2, <2>3, <2>4, ProcessCalm
<1>6. CASE DeleteJob(w, d)
  <2>1. /\ proc[w][d].pc = "delete" /\ Settle(w, d) /\ jobs' = [jobs EXCEPT ![d] = NoJob]
        /\ UNCHANGED <<dead, waiting, scheduled>>
      BY <1>6 DEF DeleteJob, pg
  <2>2. PICK p : ProcMoves(w, d, p) /\ p.pc = "idle"
      BY <1>0, <2>1, SettleMoves
  <2>3. jobs'[d] = NoJob /\ \A e \in Ids \ {d} : jobs'[e] = jobs[e]
      BY <1>0, <2>1
  <2>4. ASSUME Entered(w, d), PlaceInv(d)
        PROVE  Entered(w, d)' /\ (dead[d] # "no" => Dead(d))' /\ (Dead(d) => Dead(d)')
    <3>1. /\ Finished(d) /\ tries[d] = rows[d].attempts /\ scheduled[d] = "no"
          /\ d \notin waiting
        BY <2>1, <2>4 DEF Entered
    <3>2. proc'[w][d].pc = "idle"
        BY <2>2 DEF ProcMoves
    <3>3. Gone(d)'
        BY <1>1, <1>2, <2>1, <2>3, <3>1 DEF Gone
    <3>4. Entered(w, d)'
        BY <3>2, <3>3 DEF Entered
    <3> QED
        BY <1>2, <2>1, <2>4, <3>4 DEF PlaceInv
  <2> QED
      BY <1>1, <2>1, <2>2, <2>3, <2>4, ProcessCalm
<1>7. CASE RewriteJob(w, d)
  <2>1. PICK n : n = proc[w][d].attempt + 1
      OBVIOUS
  <2>2. /\ proc[w][d].pc = "rewrite" /\ ProcTo(w, d, "reschedule")
        /\ jobs' = [jobs EXCEPT ![d] = n]
        /\ UNCHANGED <<dead, waiting, scheduled>>
      BY <1>7, <2>1 DEF RewriteJob, pg
  <2>3. PICK p : ProcMoves(w, d, p) /\ p.pc = "reschedule" /\ p.attempt = proc[w][d].attempt
      BY <1>0, <2>2, ProcToMoves DEF ProcPlaces
  <2>4. jobs'[d] = n /\ \A e \in Ids \ {d} : jobs'[e] = jobs[e]
      BY <1>0, <2>2
  <2>5. ASSUME Entered(w, d), PlaceInv(d)
        PROVE  Entered(w, d)' /\ (dead[d] # "no" => Dead(d))' /\ (Dead(d) => Dead(d)')
    <3>1. /\ Unfinished(d) /\ d \in waiting /\ scheduled[d] # "no"
          /\ rows[d].attempts = n /\ tries[d] = n
        BY <2>1, <2>2, <2>5 DEF Entered
    <3>2. proc'[w][d].pc = "reschedule" /\ proc'[w][d].attempt + 1 = n
        BY <2>1, <2>3 DEF ProcMoves
    <3>3. Entered(w, d)'
        BY <1>1, <1>2, <2>2, <2>4, <3>1, <3>2 DEF Entered
    <3> QED
        BY <1>2, <2>2, <2>5, <3>3 DEF PlaceInv
  <2> QED
      BY <1>1, <2>2, <2>3, <2>4, <2>5, ProcessCalm
<1>8. CASE Reschedule(w, d)
  <2>1. /\ proc[w][d].pc = "reschedule" /\ Settle(w, d)
        /\ scheduled' = [scheduled EXCEPT ![d] = "later"]
        /\ UNCHANGED <<dead, jobs, waiting>>
      BY <1>8 DEF Reschedule, pg
  <2>2. PICK p : ProcMoves(w, d, p) /\ p.pc = "idle"
      BY <1>0, <2>1, SettleMoves
  <2>3. scheduled'[d] = "later" /\ \A e \in Ids \ {d} : scheduled'[e] = scheduled[e]
      BY <1>0, <2>1
  <2>4. ASSUME Entered(w, d), PlaceInv(d)
        PROVE  Entered(w, d)' /\ (dead[d] # "no" => Dead(d))' /\ (Dead(d) => Dead(d)')
    <3>1. /\ Unfinished(d) /\ d \in waiting /\ jobs[d] = rows[d].attempts
          /\ tries[d] = rows[d].attempts
        BY <2>1, <2>4 DEF Entered
    <3>2. proc'[w][d].pc = "idle"
        BY <2>2 DEF ProcMoves
    <3>3. Ready(d)'
        BY <1>1, <1>2, <2>1, <2>3, <3>1 DEF Ready
    <3>4. Entered(w, d)'
        BY <3>2, <3>3 DEF Entered
    <3> QED
        BY <1>2, <2>1, <2>4, <3>4 DEF PlaceInv
  <2> QED
      BY <1>1, <2>1, <2>2, <2>3, <2>4, ProcessCalm
<1> QED
    BY <1>3, <1>4, <1>5, <1>6, <1>7, <1>8

(* An enqueue call that goes on: only its delivery moves. *)
LEMMA EnqueueCalm ==
    ASSUME Base, Single, CalmInv, NEW d \in Ids, NEW pc \in EnqPlaces \ {"new", "failed"},
           EnqTo(d, pc), enq[d].pc \notin {"new", "done"},
           UNCHANGED <<tick, proc, recov, tries, crashes, throws>>,
           \A e \in Ids : dead'[e] # "no" => dead[e] # "no",
           \A e \in Ids \ {d} : /\ rows'[e] = rows[e] /\ jobs'[e] = jobs[e]
                                /\ e \in waiting' <=> e \in waiting
                                /\ scheduled'[e] = scheduled[e],
           PlaceInv(d) =>
              /\ IsIn(d) => IsIn(d)' /\ Stays(d)
              /\ ~IsIn(d)' => Entering(d)'
              /\ IsIn(d)' => \A w \in Workers : Entered(w, d)'
              /\ Dead(d) => Dead(d)'
    PROVE  CalmInv'
<1>1. PICK w \in Workers : TRUE
    BY DEF Single, OneWorker
<1>2. /\ enq'[d].pc = pc /\ enq'[d].of = enq[d].of /\ \A e \in Ids \ {d} : enq'[e] = enq[e]
    BY EnqMoves DEF Base, Types
<1>3. \A e \in Ids \ {d} : Rests(e)
    BY <1>2 DEF Rests, Stays
<1>4. ASSUME Calm
      PROVE  /\ PlaceInv(d)' /\ HoldInv(w)' /\ \A e \in Ids : Dead(e) => Dead(e)'
  <2>1. HoldInv(w) /\ PlaceInv(d)
      BY <1>4 DEF CalmInv
  <2>2. /\ IsIn(d) => IsIn(d)' /\ Stays(d)
        /\ ~IsIn(d)' => Entering(d)'
        /\ IsIn(d)' => \A v \in Workers : Entered(v, d)'
        /\ Dead(d) => Dead(d)'
      BY <2>1
  <2>3. \A e \in Ids \ {d} : Dead(e) => Dead(e)'
      BY DEF Dead, Stored
  <2>4. \A e \in Ids : Dead(e) => Dead(e)'
      BY <2>2, <2>3
  <2>5. (enq[d].of # Nothing => Dead(enq[d].of))'
    <3>1. PICK o \in Ids \cup {Nothing} : o = enq[d].of
        BY DEF Base, Types, EnqType
    <3>2. o # Nothing => Dead(o)'
        BY <2>1, <2>4, <3>1 DEF PlaceInv
    <3>3. o # Nothing => rows'[o] # Nothing /\ rows'[o].status = "dead"
        BY <3>2 DEF Dead, Stored
    <3> QED
        BY <1>2, <3>1, <3>3 DEF Dead, Stored
  <2>6. (dead[d] # "no" => Dead(d))'
    <3>1. dead'[d] # "no" => Dead(d)'
        BY <2>1, <2>2 DEF PlaceInv
    <3> QED
        BY <3>1
  <2>7. enq'[d].pc # "failed"
      BY <1>2
  <2>8. (~IsIn(d) => Entering(d))' /\ (IsIn(d) => \A v \in Workers : Entered(v, d))'
      BY <2>2
  <2>9. PlaceInv(d)'
      BY <2>5, <2>6, <2>7, <2>8 DEF PlaceInv
  <2>10. tick[w].pc # "down"
      BY <2>1 DEF HoldInv
  <2>11. \A e \in Ids : IsIn(e) => IsIn(e)' /\ (Stays(e) \/ Active(w, e))
      BY <1>3, <2>2 DEF IsIn, Rests
  <2>12. HoldInv(w)'
      BY <2>1, <2>10, <2>11, HoldFrame
  <2> QED
      BY <2>4, <2>9, <2>12
<1>5. Calm' => Calm
    BY DEF Calm
<1>6. PICK D \in SUBSET Ids : D = {d}
    OBVIOUS
<1> QED
    BY <1>3, <1>4, <1>5, <1>6, CalmFrame

LEMMA EnqueueStepCalm ==
    ASSUME Base, Single, CalmInv, NEW d \in Ids, EnqueueStep(d) PROVE CalmInv'
<1>0. /\ enq \in [Ids -> EnqType] /\ rows \in [Ids -> {Nothing} \cup Row]
      /\ jobs \in [Ids -> {NoJob} \cup 0..(MaxAttempts - 1)]
      /\ scheduled \in [Ids -> {"no", "due", "later"}]
      /\ dead \in [Ids -> {"no", "listed", "retried"}]
      /\ EnqInv(d)
    BY DEF Base, Types, PgTypes, RedisTypes
<1>1. UNCHANGED <<tick, proc, recov, tries, crashes, throws>>
    BY DEF EnqueueStep, InsertRow, WriteJob, JoinSession, Schedule, MarkRetried, history, counts
<1>2. \A w \in Workers : Active(w, d)' <=> Active(w, d)
    BY <1>1 DEF Active
<1>3. CASE InsertRow(d)
  <2>1. /\ enq[d].pc = "row" /\ EnqTo(d, "write")
        /\ UNCHANGED <<dead, jobs, waiting, scheduled>>
      BY <1>3 DEF InsertRow, redis
  <2>2. PICK row : row = [session |-> enq[d].session, seq |-> enq[d].seq,
                          status |-> "pending", attempts |-> 0]
      OBVIOUS
  <2>3. rows' = [rows EXCEPT ![d] = row]
      BY <1>3, <2>2 DEF InsertRow
  <2>4. rows'[d] = row /\ \A e \in Ids \ {d} : rows'[e] = rows[e]
      BY <1>0, <2>3
  <2>5. row.status = "pending" /\ row.attempts = 0
      BY <2>2
  <2>6. enq'[d].pc = "write"
      BY <1>0, <2>1, EnqMoves DEF EnqPlaces
  <2>7. ~IsIn(d) /\ ~IsIn(d)' /\ ~Dead(d)
      BY <1>0, <2>1, <2>6 DEF IsIn, EnqInv, Dead
  <2>8. PlaceInv(d) => Entering(d)'
      BY <1>1, <1>2, <2>1, <2>4, <2>5, <2>6, <2>7 DEF PlaceInv, Entering, Stored
  <2> QED
      BY <1>1, <2>1, <2>4, <2>7, <2>8, EnqueueCalm DEF EnqPlaces
<1>4. CASE WriteJob(d)
  <2>1. /\ enq[d].pc = "write" /\ EnqTo(d, "join") /\ jobs' = [jobs EXCEPT ![d] = 0]
        /\ UNCHANGED <<rows, dead, waiting, scheduled>>
      BY <1>4 DEF WriteJob, pg
  <2>2. jobs'[d] = 0 /\ \A e \in Ids \ {d} : jobs'[e] = jobs[e]
      BY <1>0, <2>1
  <2>3. enq'[d].pc = "join"
      BY <1>0, <2>1, EnqMoves DEF EnqPlaces
  <2>4. ~IsIn(d) /\ ~IsIn(d)' /\ (Dead(d) => Dead(d)')
      BY <2>1, <2>3 DEF IsIn, Dead, Stored
  <2>5. PlaceInv(d) => Entering(d)'
      BY <1>1, <1>2, <2>1, <2>2, <2>3, <2>4 DEF PlaceInv, Entering, Stored
  <2> QED
      BY <1>1, <2>1, <2>2, <2>4, <2>5, EnqueueCalm DEF EnqPlaces
<1>5. CASE JoinSession(d)
  <2>1. /\ enq[d].pc = "join" /\ EnqTo(d, "schedule") /\ waiting' = waiting \cup {d}
        /\ UNCHANGED <<rows, dead, jobs, scheduled>>
      BY <1>5 DEF JoinSession, pg
  <2>2. d \in waiting' /\ \A e \in Ids \ {d} : e \in waiting' <=> e \in waiting
      BY <2>1
  <2>3. enq'[d].pc = "schedule"
      BY <1>0, <2>1, EnqMoves DEF EnqPlaces
  <2>4. ~IsIn(d) /\ ~IsIn(d)' /\ (Dead(d) => Dead(d)')
      BY <2>1, <2>3 DEF IsIn, Dead, Stored
  <2>5. PlaceInv(d) => Entering(d)'
      BY <1>1, <1>2, <2>1, <2>2, <2>3, <2>4 DEF PlaceInv, Entering, Stored
  <2> QED
      BY <1>1, <2>1, <2>2, <2>4, <2>5, EnqueueCalm DEF EnqPlaces
<1>6. CASE Schedule(d)
  <2>1. PICK pc \in {"done", "mark"} : pc = IF enq[d].of = Nothing THEN "done" ELSE "mark"
      OBVIOUS
  <2>2. /\ enq[d].pc = "schedule" /\ EnqTo(d, pc) /\ scheduled' = [scheduled EXCEPT ![d] = "due"]
        /\ UNCHANGED <<rows, dead, jobs, waiting>>
      BY <1>6, <2>1 DEF Schedule, pg
  <2>3. scheduled'[d] = "due" /\ \A e \in Ids \ {d} : scheduled'[e] = scheduled[e]
      BY <1>0, <2>2
  <2>4. enq'[d].pc = pc
      BY <1>0, <2>2, EnqMoves DEF EnqPlaces
  <2>5. ~IsIn(d) /\ IsIn(d)' /\ (Dead(d) => Dead(d)') /\ Stored(d) /\ Stored(d)'
      BY <1>0, <2>2, <2>4 DEF IsIn, Dead, Stored, EnqInv
  <2>6. PlaceInv(d) => Ready(d)' /\ \A w \in Workers : ~Active(w, d)'
      BY <1>1, <1>2, <2>2, <2>3, <2>5 DEF PlaceInv, Entering, Stored, Ready, Unfinished
  <2>7. PlaceInv(d) => \A w \in Workers : Entered(w, d)'
      BY <2>6 DEF Entered, Active
  <2> QED
      BY <1>1, <2>2, <2>3, <2>5, <2>7, EnqueueCalm DEF EnqPlaces
<1>7. CASE MarkRetried(d)
  <2>1. PICK v : dead' = [dead EXCEPT ![enq[d].of] = v] /\ v \in {"no", "retried"}
                 /\ (dead[enq[d].of] = "no" => v = "no")
      BY <1>7 DEF MarkRetried
  <2>2. enq[d].pc = "mark" /\ EnqTo(d, "done")
        /\ UNCHANGED <<rows, jobs, waiting, scheduled>>
      BY <1>7 DEF MarkRetried, redis
  <2>3. \A e \in Ids : dead'[e] # "no" => dead[e] # "no"
      BY <1>0, <2>1
  <2>4. enq'[d].pc = "done"
      BY <1>0, <2>2, EnqMoves DEF EnqPlaces
  <2>5. IsIn(d) /\ IsIn(d)' /\ (Dead(d) => Dead(d)') /\ Stays(d)
      BY <1>1, <2>2, <2>4 DEF IsIn, Dead, Stored, Stays
  <2>6. ASSUME NEW w \in Workers, Entered(w, d) PROVE Entered(w, d)'
    <3>1. /\ Ready(d) => Ready(d)'
          /\ Gone(d) => Gone(d)'
          /\ Unfinished(d) => Unfinished(d)'
          /\ Finished(d) => Finished(d)'
        BY <1>1, <2>2 DEF Ready, Gone, Unfinished, Finished, Stored
    <3> QED
        BY <1>1, <2>2, <2>3, <2>6, <3>1 DEF Entered
  <2>7. PlaceInv(d) => \A w \in Workers : Entered(w, d)'
      BY <2>5, <2>6 DEF PlaceInv
  <2> QED
      BY <1>1, <2>2, <2>3, <2>5, <2>7, EnqueueCalm DEF EnqPlaces
<1> QED
    BY <1>3, <1>4, <1>5, <1>6, <1>7 DEF EnqueueStep

(* A new call of enqueue is for a dead letter only if that delivery is dead. *)
LEMMA StartCalm ==
    ASSUME Base, Single, CalmInv, NEW w \in Workers, NEW d \in Ids, NEW s \in Sessions,
           NEW e \in Ids \cup {Nothing}, e # Nothing => dead[e] # "no",
           StartEnqueue(w, d, s, e)
    PROVE  CalmInv'
<1>1. /\ Up(w) /\ enq[d].pc = "new"
      /\ UNCHANGED <<rows, dead, jobs, waiting, scheduled, tick, proc, recov, tries,
                     crashes, throws>>
    BY DEF StartEnqueue, pg, counts, history
<1>2. PICK new : new = [pc |-> "row", by |-> w, session |-> s, seq |-> seqs[s] + 1, of |-> e,
                        after |-> {x \in Ids : enq[x].pc = "done" /\ enq[x].session = s}]
    OBVIOUS
<1>3. enq' = [enq EXCEPT ![d] = new]
    BY <1>2 DEF StartEnqueue
<1>4. new.pc = "row" /\ new.of = e
    BY <1>2
<1>5. enq'[d] = new /\ \A x \in Ids \ {d} : enq'[x] = enq[x]
    BY <1>3 DEF Base, Types
<1>6. \A x \in Ids \ {d} : Rests(x)
    BY <1>1, <1>5 DEF Rests, Stays
<1>7. \A x \in Ids : Dead(x) => Dead(x)'
    BY <1>1 DEF Dead, Stored
<1>8. ASSUME Calm PROVE PlaceInv(d)' /\ HoldInv(w)'
  <2>1. HoldInv(w) /\ \A x \in Ids : PlaceInv(x)
      BY <1>8 DEF CalmInv
  <2>2. ~IsIn(d) /\ ~IsIn(d)' /\ enq'[d].pc = "row" /\ enq'[d].of = e
      BY <1>1, <1>4, <1>5 DEF IsIn
  <2>3. Entering(d)
      BY <2>1, <2>2 DEF PlaceInv
  <2>4. Entering(d)'
      BY <1>1, <2>2, <2>3 DEF Entering, Stored, Active
  <2>5. e # Nothing => Dead(e)'
      BY <1>7, <2>1 DEF PlaceInv
  <2>6. PlaceInv(d)'
    <3>1. dead'[d] = "no"
        BY <2>4 DEF Entering
    <3>2. (enq[d].of # Nothing => Dead(enq[d].of))'
      <4>1. e # Nothing => rows'[e] # Nothing /\ rows'[e].status = "dead"
          BY <2>5 DEF Dead, Stored
      <4> QED
          BY <2>2, <4>1 DEF Dead, Stored
    <3> QED
        BY <2>2, <2>4, <3>1, <3>2 DEF PlaceInv
  <2>7. tick[w].pc # "down"
      BY <1>1 DEF Up
  <2>8. \A x \in Ids : IsIn(x) => IsIn(x)' /\ Stays(x)
      BY <1>6, <2>2 DEF IsIn, Rests
  <2>9. HoldInv(w)'
      BY <1>1, <2>1, <2>7, <2>8, HoldFrame
  <2> QED
      BY <2>6, <2>9
<1>9. Calm' => Calm
    BY <1>1 DEF Calm
<1>10. PICK D \in SUBSET Ids : D = {d}
    OBVIOUS
<1> QED
    BY <1>6, <1>7, <1>8, <1>9, <1>10, CalmFrame

(* At the first startup there is no row, and later the sweep has nothing   *)
(* to look at.                                                             *)
LEMMA SweepCalm ==
    ASSUME Base, Single, CalmInv, NEW w \in Workers, Start(w) \/ Sweep(w) \/ FailSweep(w)
    PROVE  CalmInv'
<1>0. /\ recov \in [Workers -> RecovType] /\ tick \in [Workers -> TickType]
      /\ rows \in [Ids -> {Nothing} \cup Row] /\ \A d \in Ids : RowInv(d) /\ EnqInv(d)
    BY DEF Base, Types, PgTypes
<1>1. CASE FailSweep(w)
  <2>1. throws' = throws + 1
      BY <1>1 DEF FailSweep, Throw
  <2> QED
      BY <2>1, FaultIsNotCalm DEF CalmInv
<1>2. CASE Start(w)
  <2>1. /\ tick[w].pc = "down" /\ TickTo(w, IdleTick)
        /\ UNCHANGED <<pg, redis, enq, proc, history, counts>>
      BY <1>2 DEF Start
  <2>2. PICK r \in RecovType :
           /\ RecovMoves(w, r) /\ r.pc = "check"
           /\ \A job \in r.todo : Unfinished(job[1])
      BY <1>0, <1>2, StartMoves
  <2>3. tick'[w] = IdleTick
      BY <1>0, <2>1, TickMoves, EmptyTick
  <2>4. tick'[w].pc = "idle" /\ tick'[w].picks = {} /\ tick'[w].due = {}
      BY <2>3, EmptyTick
  <2>5. UNCHANGED <<rows, dead, enq, proc, jobs, waiting, scheduled, tries, crashes, throws>>
      BY <2>1 DEF pg, redis, counts, history
  <2>6. ASSUME Calm PROVE HoldInv(w)'
    <3>1. \A d \in Ids : enq[d].pc = "new"
        BY <2>1, <2>6 DEF CalmInv, HoldInv
    <3>2. \A d \in Ids : ~Unfinished(d)
        BY <1>0, <3>1 DEF EnqInv, Unfinished
    <3>3. r.todo = {}
        BY <2>2, <3>2 DEF RecovType, Job
    <3>4. recov'[w] = r
        BY <2>2 DEF RecovMoves
    <3> QED
        BY <2>2, <2>4, <3>3, <3>4 DEF HoldInv
  <2>7. Calm' => Calm
      BY <2>5 DEF Calm
  <2> QED
      BY <2>5, <2>6, <2>7, RestCalm
<1>3. CASE Sweep(w)
  <2>1. ASSUME Calm PROVE FinishSweep(w)
    <3>1. recov[w].todo = {} /\ recov[w].pc \in {"check", "done"}
        BY <2>1 DEF CalmInv, HoldInv
    <3> QED
        BY <1>3, <3>1 DEF Sweep, ReviveJob, ReviveOrder, ReviveSchedule
  <2>2. crashes' = crashes /\ throws' = throws
      BY <1>3 DEF Sweep, CheckJob, ReviveJob, ReviveOrder, ReviveSchedule, FinishSweep, counts
  <2>3. Calm' => Calm
      BY <2>2 DEF Calm
  <2>4. CASE ~Calm
      BY <2>3, <2>4 DEF CalmInv
  <2>5. CASE Calm
    <3>1. /\ recov' = [recov EXCEPT ![w] = NoSweep]
          /\ UNCHANGED <<pg, redis, enq, tick, proc, history, counts>>
        BY <2>1, <2>5 DEF FinishSweep
    <3>2. recov'[w].todo = {} /\ recov'[w].pc = "done"
      <4>1. RecovMoves(w, NoSweep) /\ NoSweep.pc = "done" /\ NoSweep.todo = {}
          BY <1>0, <3>1, SweepEnds
      <4> QED
          BY <4>1 DEF RecovMoves
    <3>3. UNCHANGED <<rows, dead, enq, tick, proc, jobs, waiting, scheduled, tries>>
        BY <3>1 DEF pg, redis, history
    <3>4. HoldInv(w)'
      <4>1. HoldInv(w)
          BY <2>5 DEF CalmInv
      <4>2. \A d : (IsIn(d)' <=> IsIn(d)) /\ (Gone(d)' <=> Gone(d))
          BY <3>3 DEF IsIn, Gone, Finished, Stored
      <4> QED
          BY <3>2, <3>3, <4>1, <4>2 DEF HoldInv
    <3> QED
        BY <2>3, <3>3, <3>4, RestCalm
  <2> QED
      BY <2>4, <2>5
<1> QED
    BY <1>1, <1>2, <1>3

LEMMA RestStepsCalm ==
    ASSUME Base, Single, CalmInv,
           \/ Lapse \/ UNCHANGED vars
           \/ \E d \in Ids : Elapse(d) \/ DismissDeadLetter(d) \/ FailEnqueue(d)
           \/ \E w \in Workers : Crash(w) \/ \E d \in Ids : FailProcess(w, d)
    PROVE  CalmInv'
<1>0. /\ scheduled \in [Ids -> {"no", "due", "later"}]
      /\ dead \in [Ids -> {"no", "listed", "retried"}]
    BY DEF Base, Types, PgTypes, RedisTypes
<1>1. PICK w \in Workers : TRUE
    BY DEF Single, OneWorker
<1>2. CASE \/ \E d \in Ids : FailEnqueue(d)
           \/ \E v \in Workers : Crash(v) \/ \E d \in Ids : FailProcess(v, d)
  <2>1. crashes' = crashes + 1 \/ throws' = throws + 1
      BY <1>2 DEF FailEnqueue, Crash, FailProcess, Throw
  <2> QED
      BY <2>1, FaultIsNotCalm DEF CalmInv
<1>3. CASE Lapse
  <2>1. crashes' > 0
      BY <1>3 DEF Lapse
  <2>2. ~Calm'
      BY <2>1 DEF Calm
  <2> QED
      BY <2>2 DEF CalmInv
<1>4. ASSUME NEW d \in Ids, Elapse(d) PROVE CalmInv'
  <2>1. /\ scheduled[d] = "later" /\ scheduled' = [scheduled EXCEPT ![d] = "due"]
        /\ UNCHANGED <<rows, dead, enq, tick, proc, recov, jobs, waiting, tries, crashes, throws>>
      BY <1>4 DEF Elapse, pg, history, counts
  <2>2. \A e \in Ids : scheduled'[e] = "no" <=> scheduled[e] = "no"
      BY <1>0, <2>1
  <2>3. Calm' => Calm
      BY <2>1 DEF Calm
  <2> QED
      BY <1>1, <2>1, <2>2, <2>3, RestCalm
<1>5. ASSUME NEW d \in Ids, DismissDeadLetter(d) PROVE CalmInv'
  <2>1. /\ dead' = [dead EXCEPT ![d] = "no"]
        /\ UNCHANGED <<rows, enq, tick, proc, recov, jobs, waiting, scheduled, tries,
                       crashes, throws>>
      BY <1>5 DEF DismissDeadLetter, redis, history, counts
  <2>2. \A e \in Ids : dead'[e] # "no" => dead[e] # "no"
      BY <1>0, <2>1
  <2>3. Calm' => Calm
      BY <2>1 DEF Calm
  <2> QED
      BY <1>1, <2>1, <2>2, <2>3, RestCalm
<1>6. CASE UNCHANGED vars
  <2>1. UNCHANGED <<rows, dead, enq, tick, proc, recov, jobs, waiting, scheduled, tries,
                    crashes, throws>>
      BY <1>6 DEF vars, pg, redis, history, counts
  <2>2. Calm' => Calm
      BY <2>1 DEF Calm
  <2> QED
      BY <1>1, <2>1, <2>2, RestCalm
<1> QED
    BY <1>2, <1>3, <1>4, <1>5, <1>6

LEMMA NextCalm == Base /\ Single /\ CalmInv /\ [Next]_vars => CalmInv'
<1> SUFFICES ASSUME Base, Single, CalmInv, [Next]_vars PROVE CalmInv'
    OBVIOUS
<1>1. ASSUME NEW d \in Ids, EnqueueStep(d) PROVE CalmInv'
    BY <1>1, EnqueueStepCalm
<1>2. ASSUME NEW w \in Workers, Tick(w) \/ FailTick(w) PROVE CalmInv'
    BY <1>2, TickCalm, DispatchCalm DEF Tick
<1>3. ASSUME NEW w \in Workers, NEW d \in Ids, Process(w, d) PROVE CalmInv'
    BY <1>3, DeliverCalm, RecordCalm, CleanupCalm DEF Process
<1>4. ASSUME NEW w \in Workers, Start(w) \/ Sweep(w) \/ FailSweep(w) PROVE CalmInv'
    BY <1>4, SweepCalm
<1>5. ASSUME NEW w \in Workers, NEW d \in Ids, NEW s \in Sessions, Enqueue(w, d, s)
      PROVE  CalmInv'
    BY <1>5, StartCalm DEF Enqueue
<1>6. ASSUME NEW w \in Workers, NEW d \in Ids, NEW e \in Ids, Requeue(w, d, e) PROVE CalmInv'
  <2>1. dead[e] # "no" /\ StartEnqueue(w, d, rows[e].session, e)
      BY <1>6 DEF Requeue
  <2>2. rows[e] \in Row
      BY <2>1 DEF Base, RowInv, Types, PgTypes, Stored
  <2>3. rows[e].session \in Sessions
      BY <2>2 DEF Row
  <2> QED
      BY <2>1, <2>3, StartCalm
<1>7. ASSUME \/ Lapse \/ UNCHANGED vars
             \/ \E d \in Ids : Elapse(d) \/ DismissDeadLetter(d) \/ FailEnqueue(d)
             \/ \E w \in Workers : Crash(w) \/ \E d \in Ids : FailProcess(w, d)
      PROVE  CalmInv'
    BY <1>7, RestStepsCalm
<1> QED
    BY <1>1, <1>2, <1>3, <1>4, <1>5, <1>6, <1>7 DEF Next

LEMMA AlwaysCalm == Spec /\ OneWorker => [](Base /\ Single /\ CalmInv)
<1>1. Init /\ OneWorker => Base /\ Single /\ CalmInv
    BY InitBase, InitSingle, InitCalm
<1>2. Base /\ Single /\ CalmInv /\ [Next]_vars => Base' /\ Single' /\ CalmInv'
    BY NextBase, NextSingle, NextCalm
<1> QED
    BY <1>1, <1>2, PTL DEF Spec

(* Until a crash or an exception, a delivery is in the zset of its session *)
(* exactly while it holds up the events behind it.                         *)
THEOREM SessionIsCleanedUp == Spec /\ OneWorker => []SessionHoldsUnfinished
<1>1. Base /\ Single /\ CalmInv => SessionHoldsUnfinished
  <2> SUFFICES ASSUME Base, CalmInv, Calm, NEW d \in Ids, Single
               PROVE  /\ d \in waiting => Unfinished(d) \/ \E w \in Workers : Active(w, d)
                      /\ Unfinished(d) => d \in waiting \/ Enqueueing(d)
      BY DEF SessionHoldsUnfinished
  <2>1. PlaceInv(d) /\ EnqInv(d) /\ enq[d] \in EnqType
      BY DEF CalmInv, Base, Types
  <2>2. CASE ~IsIn(d)
    <3>1. Entering(d)
        BY <2>1, <2>2 DEF PlaceInv
    <3>2. d \in waiting => Unfinished(d)
        BY <2>1, <3>1 DEF Entering, EnqInv, Unfinished
    <3>3. Unfinished(d) => Enqueueing(d)
        BY <2>1, <2>2 DEF EnqInv, Unfinished, Enqueueing, IsIn, PlaceInv
    <3> QED
        BY <3>2, <3>3
  <2>3. CASE IsIn(d)
    <3>1. PICK w \in Workers : TRUE
        BY DEF Single, OneWorker
    <3>2. Entered(w, d) /\ proc[w][d] \in ProcType
        BY <2>1, <2>3 DEF PlaceInv, Base, Types
    <3>3. CASE proc[w][d].pc = "idle"
        BY <3>2, <3>3 DEF Entered, Ready, Gone, Unfinished, Finished
    <3>4. CASE proc[w][d].pc # "idle"
        BY <3>2, <3>4 DEF Entered, Ready, Unfinished, Finished, Active, ProcType, ProcPlaces
    <3> QED
        BY <3>3, <3>4
  <2> QED
      BY <2>2, <2>3
<1> QED
    BY <1>1, AlwaysCalm, PTL

(* Until a crash or an exception, the attempts noted in the row are the    *)
(* requests the merchant got, and no more than MAX_ATTEMPTS.               *)
THEOREM RequestsAreCounted == Spec /\ OneWorker => []AttemptsCounted
<1>1. Base /\ Single /\ CalmInv => AttemptsCounted
  <2> SUFFICES ASSUME Base, CalmInv, Calm, NEW d \in Ids, Single
               PROVE  /\ tries[d] <= MaxAttempts
                      /\ Stored(d) /\ (\A w \in Workers : proc[w][d].pc # "record")
                            => tries[d] = rows[d].attempts
      BY DEF AttemptsCounted
  <2>1. PlaceInv(d) /\ EnqInv(d)
      BY DEF CalmInv, Base
  <2>2. CASE ~IsIn(d)
    <3>1. Entering(d)
        BY <2>1, <2>2 DEF PlaceInv
    <3> QED
        BY <3>1, LimitsAssumption DEF Entering
  <2>3. CASE IsIn(d)
    <3>1. PICK w \in Workers : TRUE
        BY DEF Single, OneWorker
    <3>2. Entered(w, d) /\ proc[w][d] \in ProcType /\ Stored(d)
        BY <2>1, <2>3 DEF PlaceInv, Base, Types, EnqInv, IsIn
    <3>3. proc[w][d].attempt \in 0..(MaxAttempts - 1)
        BY <3>2 DEF ProcType
    <3>4. rows[d].attempts \in 0..MaxAttempts
      <4>1. rows[d] \in Row
          BY <3>2 DEF Base, Types, PgTypes, Stored
      <4> QED
          BY <4>1 DEF Row
    <3>5. CASE proc[w][d].pc = "record"
        BY <3>2, <3>3, <3>5, LimitsAssumption DEF Entered
    <3>6. CASE proc[w][d].pc # "record"
      <4>1. tries[d] = rows[d].attempts
          BY <3>2, <3>6 DEF Entered, Ready, Gone, ProcType, ProcPlaces
      <4> QED
          BY <3>4, <4>1, LimitsAssumption
    <3> QED
        BY <3>5, <3>6
  <2> QED
      BY <2>2, <2>3
<1> QED
    BY <1>1, AlwaysCalm, PTL

(* Until a crash or an exception, a dead letter that is retried under a    *)
(* new id is never sent again under its own.                               *)
THEOREM RetriedLetterIsOver == Spec /\ OneWorker => RequeuedIsOver
<1>1. Base /\ Single /\ CalmInv /\ [Next]_vars =>
         [\A w \in Workers, e \in Ids :
             Calm /\ Deliver(w, e) => \A d \in Ids : enq[d].of # e]_vars
  <2> SUFFICES ASSUME Base, Single, CalmInv, NEW w \in Workers, NEW e \in Ids,
                      Calm, Deliver(w, e), NEW d \in Ids, enq[d].of = e
               PROVE  FALSE
      OBVIOUS
  <2>1. Dead(e) /\ PlaceInv(e)
    <3>1. e # Nothing
        BY NothingAssumption
    <3> QED
        BY <3>1 DEF CalmInv, PlaceInv
  <2>2. proc[w][e].pc = "deliver" /\ Active(w, e)
      BY DEF Deliver, Active
  <2>3. Entered(w, e)
      BY <2>1, <2>2 DEF PlaceInv, Entering
  <2>4. Unfinished(e)
      BY <2>2, <2>3 DEF Entered, Ready
  <2> QED
      BY <2>1, <2>4 DEF Dead, Unfinished
<1> QED
    BY <1>1, AlwaysCalm, PTL DEF Spec, RequeuedIsOver

=============================================================================
