---------------------------- MODULE WebhookQueue ----------------------------
(***************************************************************************)
(* The webhook delivery queue (webhook-queue.service.ts): enqueueing, the  *)
(* scheduling tick, the attempts of a delivery with retries, cleanup and   *)
(* dead letters, and the recovery sweep at startup.  A delivery lives in   *)
(* two places that no transaction joins: its webhook_deliveries row in     *)
(* PostgreSQL, and in Redis its job hash, its entry in the zset of its     *)
(* session and its entry in the zset 'scheduled'.                          *)
(*                                                                         *)
(* An action is one call to PostgreSQL, Redis or the merchant's endpoint,  *)
(* with the code up to the next await.  Time is abstracted to whether a    *)
(* job's score in 'scheduled' has been reached.  Every event the program   *)
(* dispatches is payment.confirmed and names its session, so all jobs have *)
(* one priority and a session.                                             *)
(*                                                                         *)
(* A definition headed "Variant" is a plausible mistake in the definition  *)
(* that follows it.  No behaviour of the system uses it: it shows that a   *)
(* property notices the mistake.                                           *)
(***************************************************************************)
EXTENDS Naturals, FiniteSets

CONSTANTS
    Ids,             \* delivery ids, one per call of enqueue
    Sessions,        \* checkout sessions
    Workers,         \* instances of the service
    NoJob,           \* the job hash does not exist
    Nothing,         \* no row, no delivery id
    MaxAttempts,     \* MAX_ATTEMPTS
    MaxConcurrency,  \* WEBHOOK_MAX_CONCURRENCY
    MaxCallers,      \* bound: enqueue calls in flight
    MaxFaults        \* bound: instances that stop and calls that throw

ASSUME NoJobAssumption == NoJob \notin Nat
(* A row of webhook_deliveries, what an attempt comes to, and a job the    *)
(* scheduling pass or the sweep holds: an id and an attempt number.        *)
Row      == [session : Sessions, seq : Nat \ {0}, attempts : 0..MaxAttempts,
             status : {"pending", "failed", "delivered", "dead"}]
Outcomes == {"delivered", "dead", "failed"}
Picked   == Ids \X (0..MaxAttempts)

ASSUME NothingAssumption ==
    Nothing \notin Ids /\ Nothing \notin Row /\ Nothing \notin Outcomes /\ Nothing \notin Picked
ASSUME LimitsAssumption == MaxAttempts \in Nat \ {0} /\ MaxConcurrency \in Nat \ {0}
ASSUME QueueBoundsAssumption == MaxCallers \in Nat /\ MaxFaults \in Nat

VARIABLES
    seqs,       \* Redis: the sequence counter of each session
    rows,       \* webhook_deliveries: [session, seq, status, attempts] or Nothing
    dead,       \* webhook_dead_letters: whether an id has an entry, and retried_at
    jobs,       \* Redis: the attempt field of each job hash, or NoJob
    waiting,    \* Redis: the members of all session zsets; their score is rows[d].seq
    scheduled,  \* Redis: the zset 'scheduled': "no" if absent, "due" or "later"
    enq,        \* the enqueue call of each delivery id
    tick,       \* the scheduling pass of each instance
    proc,       \* process(job), per instance and job
    recov,      \* recoverPending, per instance
    acked,      \* history: deliveries the endpoint has answered with 2xx
    tries,      \* history: HTTP requests per delivery, saturating
    crashes, throws,
    lapsed      \* the keys of the queue have once run out of their time to live

pg      == <<rows, dead>>
redis   == <<seqs, jobs, waiting, scheduled>>
counts  == <<crashes, throws, lapsed>>
history == <<acked, tries>>
vars    == <<pg, redis, enq, tick, proc, recov, history, counts>>

NewEnq   == [pc |-> "new", by |-> Nothing, session |-> Nothing, seq |-> 0,
             of |-> Nothing, after |-> {}]
IdleTick == [pc |-> "idle", room |-> 0, due |-> {}, job |-> Nothing, picks |-> {}]
IdleProc == [pc |-> "idle", attempt |-> 0, verdict |-> Nothing]
NoSweep  == [pc |-> "done", todo |-> {}, job |-> Nothing]

Init ==
    /\ seqs = [s \in Sessions |-> 0]
    /\ rows = [d \in Ids |-> Nothing]
    /\ dead = [d \in Ids |-> "no"]
    /\ jobs = [d \in Ids |-> NoJob]
    /\ waiting = {}
    /\ scheduled = [d \in Ids |-> "no"]
    /\ enq   = [d \in Ids |-> NewEnq]
    /\ tick  = [w \in Workers |-> [IdleTick EXCEPT !.pc = "down"]]
    /\ proc  = [w \in Workers |-> [d \in Ids |-> IdleProc]]
    /\ recov = [w \in Workers |-> NoSweep]
    /\ acked = {}
    /\ tries = [d \in Ids |-> 0]
    /\ crashes = 0 /\ throws = 0 /\ lapsed = FALSE

Up(w)         == tick[w].pc # "down"
Stored(d)     == rows[d] # Nothing
Unfinished(d) == Stored(d) /\ rows[d].status \in {"pending", "failed"}
Finished(d)   == Stored(d) /\ rows[d].status \in {"delivered", "dead"}
Active(w, d)  == proc[w][d].pc # "idle"
Inflight(w)   == {d \in Ids : Active(w, d)}
Enqueueing(d) == enq[d].pc \notin {"new", "done", "failed"}

SameSession(d, e) == Stored(d) /\ Stored(e) /\ rows[d].session = rows[e].session
Earlier(e, d)     == SameSession(d, e) /\ rows[e].seq < rows[d].seq

(* Variant: a session is free again before its job has been cleaned up. *)
SessionDelivering(w, d) ==
    \E e \in Ids : proc[w][e].pc \in {"deliver", "record"} /\ SameSession(d, e)

(* inflightSessions: the session of d has a job in process(). *)
SessionBusy(w, d) == \E e \in Inflight(w) : SameSession(d, e)

(* ZRANGE session 0 0 answers d. *)
IsHead(d) == d \in waiting /\ \A e \in waiting : ~Earlier(e, d)

Throw ==
    /\ crashes + throws < MaxFaults
    /\ throws' = throws + 1
    /\ UNCHANGED <<crashes, lapsed>>

-----------------------------------------------------------------------------
(* enqueue: called by dispatchWebhook and by requeueDeadLetter.  Its record *)
(* keeps, as history, the dead letter it retries and the events of the     *)
(* session whose enqueue calls had returned when it began.                 *)

EnqTo(d, pc) == enq' = [enq EXCEPT ![d].pc = pc]

(* The id is drawn, the counter of the session incremented.  The EXPIRE    *)
(* after the INCR matters to Lapse only, and is part of the step.          *)
StartEnqueue(w, d, s, e) ==
    /\ Up(w) /\ enq[d].pc = "new"
    /\ Cardinality({x \in Ids : Enqueueing(x)}) < MaxCallers
    /\ seqs' = [seqs EXCEPT ![s] = @ + 1]
    /\ enq' = [enq EXCEPT ![d] =
          [pc |-> "row", by |-> w, session |-> s, seq |-> seqs[s] + 1, of |-> e,
           after |-> {x \in Ids : enq[x].pc = "done" /\ enq[x].session = s}]]
    /\ UNCHANGED <<pg, jobs, waiting, scheduled, tick, proc, recov, history, counts>>

Enqueue(w, d, s) == StartEnqueue(w, d, s, Nothing)

(* requeueDeadLetter: a new delivery of the event, behind its session. *)
Requeue(w, d, e) == dead[e] # "no" /\ StartEnqueue(w, d, rows[e].session, e)

InsertRow(d) ==
    /\ enq[d].pc = "row"
    /\ rows' = [rows EXCEPT ![d] = [session |-> enq[d].session, seq |-> enq[d].seq,
                                    status |-> "pending", attempts |-> 0]]
    /\ EnqTo(d, "write")
    /\ UNCHANGED <<dead, redis, tick, proc, recov, history, counts>>

WriteJob(d) ==
    /\ enq[d].pc = "write"
    /\ jobs' = [jobs EXCEPT ![d] = 0]
    /\ EnqTo(d, "join")
    /\ UNCHANGED <<pg, seqs, waiting, scheduled, tick, proc, recov, history, counts>>

JoinSession(d) ==
    /\ enq[d].pc = "join"
    /\ waiting' = waiting \cup {d}
    /\ EnqTo(d, "schedule")
    /\ UNCHANGED <<pg, seqs, jobs, scheduled, tick, proc, recov, history, counts>>

(* "Added last: this is the dispatch trigger." *)
Schedule(d) ==
    /\ enq[d].pc = "schedule"
    /\ scheduled' = [scheduled EXCEPT ![d] = "due"]
    /\ EnqTo(d, IF enq[d].of = Nothing THEN "done" ELSE "mark")
    /\ UNCHANGED <<pg, seqs, jobs, waiting, tick, proc, recov, history, counts>>

(* UPDATE webhook_dead_letters SET retried_at, if the entry is still there. *)
MarkRetried(d) ==
    /\ enq[d].pc = "mark"
    /\ dead' = [dead EXCEPT ![enq[d].of] = IF @ = "no" THEN @ ELSE "retried"]
    /\ EnqTo(d, "done")
    /\ UNCHANGED <<rows, redis, tick, proc, recov, history, counts>>

FailEnqueue(d) ==
    /\ Enqueueing(d)
    /\ Throw
    /\ EnqTo(d, "failed")
    /\ UNCHANGED <<pg, redis, tick, proc, recov, history>>

-----------------------------------------------------------------------------
(* tick: the snapshot of the due jobs is read once and then worked off,    *)
(* one or two calls per job, beside the process() calls of earlier passes. *)

TickTo(w, t) == tick' = [tick EXCEPT ![w] = t]

(* The pass goes on to a job that is not in process(); those it meets on   *)
(* the way there are skipped.  After the last one it dispatches.           *)
Continue(w, room, due, picks) ==
    LET idle == {d \in due : ~Active(w, d)}
        pass(pc, rest, job) == [pc |-> pc, room |-> room, due |-> rest, job |-> job,
                                picks |-> picks]
    IN \/ /\ idle = {}
          /\ TickTo(w, pass("dispatch", {}, Nothing))
       \/ \E d \in idle : \E skipped \in SUBSET (due \ idle) :
             TickTo(w, pass("read", due \ (skipped \cup {d}), <<d, 0>>))

(* Variant: one slot is never used. *)
TickStartBelow(w) ==
    LET due == {d \in Ids : scheduled[d] = "due"} IN
    /\ tick[w].pc = "idle"
    /\ Cardinality(Inflight(w)) + 1 < MaxConcurrency
    /\ due # {}
    /\ Continue(w, MaxConcurrency - Cardinality(Inflight(w)), due, {})
    /\ UNCHANGED <<pg, redis, enq, proc, recov, history, counts>>

(* ZRANGEBYSCORE, unless all the slots are taken. *)
TickStart(w) ==
    LET due == {d \in Ids : scheduled[d] = "due"} IN
    /\ tick[w].pc = "idle"
    /\ Cardinality(Inflight(w)) < MaxConcurrency
    /\ due # {}
    /\ Continue(w, MaxConcurrency - Cardinality(Inflight(w)), due, {})
    /\ UNCHANGED <<pg, redis, enq, proc, recov, history, counts>>

(* The hash is read.  ZREM follows if there is none; else the head of the  *)
(* session, unless the session is busy.                                    *)
ReadJob(w) ==
    LET d == tick[w].job[1]
        goTo(pc, n) == tick' = [tick EXCEPT ![w].pc = pc, ![w].job = <<d, n>>]
    IN /\ tick[w].pc = "read"
       /\ \/ jobs[d] = NoJob /\ goTo("drop", 0)
          \/ jobs[d] # NoJob /\ ~SessionBusy(w, d) /\ goTo("head", jobs[d])
          \/ /\ jobs[d] # NoJob /\ SessionBusy(w, d)
             /\ Continue(w, tick[w].room, tick[w].due, tick[w].picks)
       /\ UNCHANGED <<pg, redis, enq, proc, recov, history, counts>>

DropDue(w) ==
    /\ tick[w].pc = "drop"
    /\ scheduled' = [scheduled EXCEPT ![tick[w].job[1]] = "no"]
    /\ Continue(w, tick[w].room, tick[w].due, tick[w].picks)
    /\ UNCHANGED <<pg, seqs, jobs, waiting, enq, proc, recov, history, counts>>

(* Variant: any member of the session zset may run. *)
CheckMember(w) ==
    LET job == tick[w].job IN
    /\ tick[w].pc = "head"
    /\ Continue(w, tick[w].room, tick[w].due,
                tick[w].picks \cup (IF job[1] \in waiting THEN {job} ELSE {}))
    /\ UNCHANGED <<pg, redis, enq, proc, recov, history, counts>>

CheckHead(w) ==
    LET job == tick[w].job IN
    /\ tick[w].pc = "head"
    /\ Continue(w, tick[w].room, tick[w].due,
                tick[w].picks \cup (IF IsHead(job[1]) THEN {job} ELSE {}))
    /\ UNCHANGED <<pg, redis, enq, proc, recov, history, counts>>

(* The candidates the last loop of tick dispatches: in order of sequence,  *)
(* one per idle session, until there is no room.                           *)
IsPassOf(w, D) ==
    LET ids == {job[1] : job \in tick[w].picks}
        free == {d \in ids : ~SessionBusy(w, d)}
        Ahead(e, d) == e # d /\ rows[e].seq <= rows[d].seq
    IN /\ D \subseteq free
       /\ Cardinality(D) <= tick[w].room
       /\ \A d, e \in D : d # e => ~SameSession(d, e)
       /\ \A d \in free \ D :
             \/ \E e \in D : SameSession(d, e) /\ Ahead(e, d)
             \/ Cardinality({e \in D : Ahead(e, d)}) = tick[w].room

Dispatch(w) ==
    /\ tick[w].pc = "dispatch"
    /\ \E D \in SUBSET Ids :
          /\ IsPassOf(w, D)
          /\ proc' = [proc EXCEPT ![w] = [d \in Ids |->
                IF d \in D
                THEN [pc |-> "deliver", verdict |-> Nothing,
                      attempt |-> CHOOSE n \in 0..MaxAttempts : <<d, n>> \in tick[w].picks]
                ELSE proc[w][d]]]
    /\ TickTo(w, IdleTick)
    /\ UNCHANGED <<pg, redis, enq, recov, history, counts>>

(* Some call of the pass throws: ticking is reset, the pass is over. *)
FailTick(w) ==
    /\ tick[w].pc \in {"read", "drop", "head"}
    /\ Throw
    /\ TickTo(w, IdleTick)
    /\ UNCHANGED <<pg, redis, enq, proc, recov, history>>

-----------------------------------------------------------------------------
(* process(job) *)

ProcTo(w, d, pc) == proc' = [proc EXCEPT ![w][d] = [@ EXCEPT !.pc = pc]]
Settle(w, d)     == proc' = [proc EXCEPT ![w][d] = IdleProc]

(* Variant: one attempt too many before the dead-letter queue. *)
LateVerdict(outcome, attemptNo) ==
    IF outcome = "success" THEN "delivered"
    ELSE IF outcome = "dead" \/ attemptNo > MaxAttempts THEN "dead" ELSE "failed"

(* classifyStatus, and MAX_ATTEMPTS for an outcome that is to be retried. *)
Verdict(outcome, attemptNo) ==
    IF outcome = "success" THEN "delivered"
    ELSE IF outcome = "dead" \/ attemptNo >= MaxAttempts THEN "dead" ELSE "failed"

(* The endpoint gets the request, and answers or does not.                 *)
Deliver(w, d) ==
    /\ proc[w][d].pc = "deliver"
    /\ \E outcome \in {"success", "retry", "dead"} :
          /\ proc' = [proc EXCEPT ![w][d].pc = "record",
                ![w][d].verdict = Verdict(outcome, proc[w][d].attempt + 1)]
          /\ acked' = IF outcome = "success" THEN acked \cup {d} ELSE acked
    /\ tries' = [tries EXCEPT ![d] = IF @ > MaxAttempts THEN @ ELSE @ + 1]
    /\ UNCHANGED <<pg, redis, enq, tick, recov, counts>>

(* Variant: a dead delivery is noted as delivered. *)
RecordAsDelivered(w, d) ==
    LET p == proc[w][d] IN
    /\ p.pc = "record"
    /\ rows' = [rows EXCEPT ![d].status = IF p.verdict = "dead" THEN "delivered" ELSE p.verdict,
                            ![d].attempts = p.attempt + 1]
    /\ ProcTo(w, d, CASE p.verdict = "delivered" -> "unschedule"
                      [] p.verdict = "dead"      -> "bury"
                      [] p.verdict = "failed"    -> "rewrite")
    /\ UNCHANGED <<dead, redis, enq, tick, recov, history, counts>>

RecordDelivery(w, d) ==
    LET p == proc[w][d] IN
    /\ p.pc = "record"
    /\ rows' = [rows EXCEPT ![d].status = p.verdict, ![d].attempts = p.attempt + 1]
    /\ ProcTo(w, d, CASE p.verdict = "delivered" -> "unschedule"
                      [] p.verdict = "dead"      -> "bury"
                      [] p.verdict = "failed"    -> "rewrite")
    /\ UNCHANGED <<dead, redis, enq, tick, recov, history, counts>>

(* Variant: the job stays in the queue. *)
DeadLetterOnly(w, d) ==
    /\ proc[w][d].pc = "bury"
    /\ dead' = [dead EXCEPT ![d] = IF @ = "no" THEN "listed" ELSE @]
    /\ Settle(w, d)
    /\ UNCHANGED <<rows, redis, enq, tick, recov, history, counts>>

(* The dead-letter entry; delivery_id is unique, so that a second insert   *)
(* throws and process() is over before it has cleaned up.                  *)
DeadLetter(w, d) ==
    /\ proc[w][d].pc = "bury"
    /\ dead' = [dead EXCEPT ![d] = IF @ = "no" THEN "listed" ELSE @]
    /\ IF dead[d] # "no" THEN Settle(w, d) ELSE ProcTo(w, d, "unschedule")
    /\ UNCHANGED <<rows, redis, enq, tick, recov, history, counts>>

(* cleanup, in its three calls. *)
Unschedule(w, d) ==
    /\ proc[w][d].pc = "unschedule"
    /\ scheduled' = [scheduled EXCEPT ![d] = "no"]
    /\ ProcTo(w, d, "leave")
    /\ UNCHANGED <<pg, seqs, jobs, waiting, enq, tick, recov, history, counts>>

(* Variant: the entry in the session zset is forgotten. *)
LeaveNothing(w, d) ==
    /\ proc[w][d].pc = "leave"
    /\ ProcTo(w, d, "delete")
    /\ UNCHANGED <<pg, redis, enq, tick, recov, history, counts>>

LeaveSession(w, d) ==
    /\ proc[w][d].pc = "leave"
    /\ waiting' = waiting \ {d}
    /\ ProcTo(w, d, "delete")
    /\ UNCHANGED <<pg, seqs, jobs, scheduled, enq, tick, recov, history, counts>>

DeleteJob(w, d) ==
    /\ proc[w][d].pc = "delete"
    /\ jobs' = [jobs EXCEPT ![d] = NoJob]
    /\ Settle(w, d)
    /\ UNCHANGED <<pg, seqs, waiting, scheduled, enq, tick, recov, history, counts>>

(* Variant: the attempt is not noted in the job. *)
RewriteUncounted(w, d) ==
    /\ proc[w][d].pc = "rewrite"
    /\ jobs' = [jobs EXCEPT ![d] = proc[w][d].attempt]
    /\ ProcTo(w, d, "reschedule")
    /\ UNCHANGED <<pg, seqs, waiting, scheduled, enq, tick, recov, history, counts>>

(* A retry keeps its place in the session. *)
RewriteJob(w, d) ==
    /\ proc[w][d].pc = "rewrite"
    /\ jobs' = [jobs EXCEPT ![d] = proc[w][d].attempt + 1]
    /\ ProcTo(w, d, "reschedule")
    /\ UNCHANGED <<pg, seqs, waiting, scheduled, enq, tick, recov, history, counts>>

Reschedule(w, d) ==
    /\ proc[w][d].pc = "reschedule"
    /\ scheduled' = [scheduled EXCEPT ![d] = "later"]
    /\ Settle(w, d)
    /\ UNCHANGED <<pg, seqs, jobs, waiting, enq, tick, recov, history, counts>>

(* Any call of process() but the request to the endpoint may throw. *)
FailProcess(w, d) ==
    /\ Active(w, d)
    /\ Throw
    /\ Settle(w, d)
    /\ UNCHANGED <<pg, redis, enq, tick, recov, history>>

(* The backoff of a retry is over. *)
Elapse(d) ==
    /\ scheduled[d] = "later"
    /\ scheduled' = [scheduled EXCEPT ![d] = "due"]
    /\ UNCHANGED <<pg, seqs, jobs, waiting, enq, tick, proc, recov, history, counts>>

DismissDeadLetter(d) ==
    /\ dead[d] # "no"
    /\ dead' = [dead EXCEPT ![d] = "no"]
    /\ UNCHANGED <<rows, redis, enq, tick, proc, recov, history, counts>>

-----------------------------------------------------------------------------
(* Startup, recoverPending and crashes. *)

(* onModuleInit: the query of recoverPending is the instance's first call; *)
(* the poll timer runs beside the rest of it.                              *)
Start(w) ==
    /\ tick[w].pc = "down"
    /\ TickTo(w, IdleTick)
    /\ recov' = [recov EXCEPT ![w] =
          [pc |-> "check", job |-> Nothing,
           todo |-> {<<d, rows[d].attempts>> : d \in {e \in Ids : Unfinished(e)}}]]
    /\ UNCHANGED <<pg, redis, enq, proc, history, counts>>

(* Variant: rows without a job are passed over. *)
CheckNothing(w, job) ==
    /\ recov[w].pc = "check" /\ job \in recov[w].todo
    /\ recov' = [recov EXCEPT ![w].todo = @ \ {job}]
    /\ UNCHANGED <<pg, redis, enq, tick, proc, history, counts>>

(* EXISTS job: only a row without a job hash is revived. *)
CheckJob(w, job) ==
    /\ recov[w].pc = "check" /\ job \in recov[w].todo
    /\ recov' = [recov EXCEPT ![w].todo = @ \ {job},
                              ![w].pc  = IF jobs[job[1]] = NoJob THEN "write" ELSE "check",
                              ![w].job = job]
    /\ UNCHANGED <<pg, redis, enq, tick, proc, history, counts>>

(* reviveFromRow, from the row as it was when the sweep began. *)
ReviveJob(w) ==
    /\ recov[w].pc = "write"
    /\ jobs' = [jobs EXCEPT ![recov[w].job[1]] = recov[w].job[2]]
    /\ recov' = [recov EXCEPT ![w].pc = "join"]
    /\ UNCHANGED <<pg, seqs, waiting, scheduled, enq, tick, proc, history, counts>>

(* ZADD session; then GET and SET keep the counter of the session ahead of *)
(* the revived job.  One step: the counter is behind a number it has drawn *)
(* only after Lapse, where nothing is said about the order of events.      *)
ReviveOrder(w) ==
    LET d == recov[w].job[1] IN
    /\ recov[w].pc = "join"
    /\ waiting' = waiting \cup {d}
    /\ seqs' = [seqs EXCEPT ![rows[d].session] = IF @ < rows[d].seq THEN rows[d].seq ELSE @]
    /\ recov' = [recov EXCEPT ![w].pc = "schedule"]
    /\ UNCHANGED <<pg, jobs, scheduled, enq, tick, proc, history, counts>>

ReviveSchedule(w) ==
    /\ recov[w].pc = "schedule"
    /\ scheduled' = [scheduled EXCEPT ![recov[w].job[1]] = "due"]
    /\ recov' = [recov EXCEPT ![w].pc = "check"]
    /\ UNCHANGED <<pg, seqs, jobs, waiting, enq, tick, proc, history, counts>>

FinishSweep(w) ==
    /\ recov[w].pc = "check" /\ recov[w].todo = {}
    /\ recov' = [recov EXCEPT ![w] = NoSweep]
    /\ UNCHANGED <<pg, redis, enq, tick, proc, history, counts>>

(* A call of the sweep throws: it is logged and given up. *)
FailSweep(w) ==
    /\ recov[w].pc # "done"
    /\ Throw
    /\ recov' = [recov EXCEPT ![w] = NoSweep]
    /\ UNCHANGED <<pg, redis, enq, tick, proc, history>>

Crash(w) ==
    /\ Up(w)
    /\ crashes + throws < MaxFaults
    /\ crashes' = crashes + 1
    /\ TickTo(w, [IdleTick EXCEPT !.pc = "down"])
    /\ proc'  = [proc EXCEPT ![w] = [d \in Ids |-> IdleProc]]
    /\ recov' = [recov EXCEPT ![w] = NoSweep]
    /\ enq' = [d \in Ids |-> IF Enqueueing(d) /\ enq[d].by = w
                             THEN [enq[d] EXCEPT !.pc = "failed"] ELSE enq[d]]
    /\ UNCHANGED <<pg, redis, history, throws, lapsed>>

(* No instance has run for 48 hours: every key but 'scheduled', which has   *)
(* no time to live, is gone.                                               *)
Lapse ==
    /\ crashes > 0 /\ ~lapsed /\ \A w \in Workers : ~Up(w)
    /\ seqs' = [s \in Sessions |-> 0]
    /\ jobs' = [d \in Ids |-> NoJob]
    /\ waiting' = {}
    /\ lapsed' = TRUE
    /\ UNCHANGED <<pg, scheduled, enq, tick, proc, recov, history, crashes, throws>>

-----------------------------------------------------------------------------
EnqueueStep(d) ==
    InsertRow(d) \/ WriteJob(d) \/ JoinSession(d) \/ Schedule(d) \/ MarkRetried(d)

Tick(w) ==
    \/ TickStart(w) \/ ReadJob(w) \/ DropDue(w) \/ CheckHead(w)
    \/ Dispatch(w)

Process(w, d) ==
    \/ Deliver(w, d) \/ RecordDelivery(w, d) \/ DeadLetter(w, d)
    \/ Unschedule(w, d) \/ LeaveSession(w, d) \/ DeleteJob(w, d)
    \/ RewriteJob(w, d) \/ Reschedule(w, d)

Sweep(w) ==
    \/ \E job \in recov[w].todo : CheckJob(w, job)
    \/ ReviveJob(w) \/ ReviveOrder(w) \/ ReviveSchedule(w) \/ FinishSweep(w)

Next ==
    \/ \E d \in Ids : EnqueueStep(d) \/ FailEnqueue(d) \/ Elapse(d) \/ DismissDeadLetter(d)
    \/ \E w \in Workers :
          \/ Start(w) \/ Tick(w) \/ FailTick(w) \/ Sweep(w) \/ FailSweep(w) \/ Crash(w)
          \/ \E d \in Ids : Process(w, d) \/ FailProcess(w, d)
          \/ \E d \in Ids, s \in Sessions : Enqueue(w, d, s)
          \/ \E d, e \in Ids : Requeue(w, d, e)
    \/ Lapse

Spec == Init /\ [][Next]_vars

-----------------------------------------------------------------------------
ProcPlaces == {"idle", "deliver", "record", "bury", "unschedule", "leave", "delete",
               "rewrite", "reschedule"}

(* The type invariant: rows, keys and the local state of every call have   *)
(* values the code can give them; no attempt number passes MAX_ATTEMPTS.   *)
TypeOK ==
    /\ seqs \in [Sessions -> Nat]
    /\ rows \in [Ids -> {Nothing} \cup Row]
    /\ dead \in [Ids -> {"no", "listed", "retried"}]
    /\ waiting \subseteq Ids /\ acked \subseteq Ids
    /\ jobs \in [Ids -> {NoJob} \cup 0..(MaxAttempts - 1)]
    /\ scheduled \in [Ids -> {"no", "due", "later"}]
    /\ enq \in [Ids -> [pc : {"new", "row", "write", "join", "schedule", "mark", "done",
                              "failed"},
                        by : Workers \cup {Nothing}, session : Sessions \cup {Nothing},
                        seq : Nat, of : Ids \cup {Nothing}, after : SUBSET Ids]]
    /\ tick \in [Workers -> [pc : {"down", "idle", "read", "drop", "head", "dispatch"},
                             room : 0..MaxConcurrency, due : SUBSET Ids,
                             job : Picked \cup {Nothing}, picks : SUBSET Picked]]
    /\ proc \in [Workers -> [Ids -> [pc : ProcPlaces, attempt : 0..(MaxAttempts - 1),
                                     verdict : {Nothing} \cup Outcomes]]]
    /\ recov \in [Workers -> [pc : {"check", "write", "join", "schedule", "done"},
                              todo : SUBSET Picked, job : Picked \cup {Nothing}]]
    /\ tries \in [Ids -> 0..(MaxAttempts + 1)]
    /\ crashes \in 0..MaxFaults /\ throws \in 0..MaxFaults /\ lapsed \in BOOLEAN

Calm == crashes = 0 /\ throws = 0

(* "at most one in-flight job per session".                                *)
OneInFlight ==
    \A v, w \in Workers : \A d \in Inflight(v), e \in Inflight(w) :
        SameSession(d, e) => d = e /\ v = w

(* "A later event for a session is never delivered until the earlier one   *)
(* has either succeeded or been dead-lettered", whatever crashes or throws *)
(* and however the sweep interferes, where "later" means that the enqueue  *)
(* call of the earlier one had returned.                                   *)
InOrder ==
    [][\A w \in Workers, d \in Ids :
          Deliver(w, d) /\ ~lapsed => \A e \in enq[d].after : Finished(e)]_vars

(* A dead letter that has been retried is over itself: until a crash or an *)
(* exception, the merchant is not sent the event under both ids.           *)
RequeuedIsOver ==
    [][\A w \in Workers, e \in Ids :
          Calm /\ Deliver(w, e) => \A d \in Ids : enq[d].of # e]_vars

(* A row that says 'delivered' is the row of an event the endpoint has     *)
(* acknowledged, whatever crashed, threw or was delivered twice.           *)
DeliveredIsAcked ==
    \A d \in Ids : Stored(d) /\ rows[d].status = "delivered" => d \in acked

(* Until a crash or an exception, every finished delivery is gone from its *)
(* session, so that it does not hold up the events behind it, and an       *)
(* unfinished one is still there.                                          *)
SessionHoldsUnfinished ==
    Calm => \A d \in Ids :
        /\ d \in waiting => Unfinished(d) \/ \E w \in Workers : Active(w, d)
        /\ Unfinished(d) => d \in waiting \/ Enqueueing(d)

(* An attempt is counted for every request: until a crash or an exception, *)
(* the row's attempts and the requests agree, and there are at most        *)
(* MAX_ATTEMPTS of them.                                                   *)
AttemptsCounted ==
    Calm => \A d \in Ids :
        /\ tries[d] <= MaxAttempts
        /\ Stored(d) /\ (\A w \in Workers : proc[w][d].pc # "record")
              => tries[d] = rows[d].attempts

(* When the recovery sweep is over, every unfinished row has a job hash,   *)
(* however many enqueue calls and scheduling passes ran beside it.  (An    *)
(* enqueue call that throws beside it leaves a row for the next sweep.)    *)
SweepLeavesNoBareRow ==
    [][\A w \in Workers : FinishSweep(w) /\ throws = 0 =>
          \A d \in Ids : Unfinished(d) /\ ~Enqueueing(d) => jobs[d] # NoJob]_vars

(* The sweep makes every unfinished delivery runnable again: it            *)
(* "re-enqueues any 'pending'/'failed' row that lost its Redis job to a    *)
(* crash".                                                                 *)
SweepRevivesAll ==
    [][\A w \in Workers : FinishSweep(w) /\ throws = 0 =>
          \A d \in Ids : Unfinished(d) /\ ~Enqueueing(d) => scheduled[d] # "no"]_vars

=============================================================================
