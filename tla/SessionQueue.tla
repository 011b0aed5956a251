---------------------------- MODULE SessionQueue ----------------------------
(***************************************************************************)
(* From a customer's payment to the merchant's endpoint: SessionLifecycle  *)
(* and WebhookQueue, joined where dispatchWebhook (webhook.service.ts)     *)
(* calls enqueue.  The detector and the recovery job wait for that call,   *)
(* and the process that runs them runs a worker of the queue, too: a crash *)
(* stops both.  Checkout requests, which neither wait for the queue nor    *)
(* hold a worker, are in SessionLifecycle alone; retries, calls that throw *)
(* inside the worker, requeued dead letters and expiring keys are in       *)
(* WebhookQueue.  Here MAX_ATTEMPTS is 1: the endpoint accepts an event or *)
(* its delivery is dead-lettered.                                          *)
(*                                                                         *)
(* A definition headed "Variant" is a plausible mistake in the definition  *)
(* that follows it.                                                        *)
(***************************************************************************)
EXTENDS Naturals, Sequences, FiniteSets

CONSTANTS Sessions, Price, Txs, Ops, NoTx, XLM, Detectors, Recoverers, TTL, Stale
CONSTANTS Ids, Workers, NoJob, Nothing, MaxConcurrency, MaxCallers
CONSTANT MaxFaults  \* bound: faults of the handlers, and faults of the queue
CONSTANT Home       \* the process a detector or a recovery run belongs to

ASSUME HomeAssumption == Home \in [Detectors \cup Recoverers -> Workers]
ASSUME CallersAssumption ==
    Detectors \cap Recoverers = {} /\ Nothing \notin Detectors \cup Recoverers
ASSUME PaidAssumption == \A op \in Ops : op.tx \in Txs /\ op.memo \in Sessions

VARIABLES status, age, since, ledger, payments, announced, det, rec, takenOver, faults
VARIABLES seqs, rows, dead, jobs, waiting, scheduled, enq, tick, proc, recov, acked, tries,
          crashes, throws, lapsed
VARIABLES
    hooked,   \* the sessions whose merchant has set a webhook URL and secret before
    event     \* per delivery id: the payment it announces, and who called dispatchWebhook

S == INSTANCE SessionLifecycle WITH Requests <- {}, req <- <<>>
Q == INSTANCE WebhookQueue WITH MaxAttempts <- 1

sessionVars == <<status, age, since, takenOver, ledger, payments, announced, det, rec, faults>>
queueVars   == <<seqs, rows, dead, jobs, waiting, scheduled, enq, tick, proc, recov, acked,
                 tries, crashes, throws, lapsed>>
vars        == <<sessionVars, queueVars, hooked, event>>

NoEvent == [row |-> S!NoRow, by |-> Nothing]

Init ==
    /\ S!Init /\ Q!Init
    /\ hooked \in SUBSET Sessions
    /\ event = [i \in Ids |-> NoEvent]

Runs(c) == Q!Up(Home[c])

(* The caller c is in dispatchWebhook's await of enqueue. *)
Calling(c) == \E i \in Ids : event[i].by = c /\ Q!Enqueueing(i)

(* The faults of the handlers and those of the queue share one bound. *)
MayFail == faults + crashes + throws < MaxFaults

SessionStep == UNCHANGED <<queueVars, hooked, event>>
QueueStep   == UNCHANGED <<sessionVars, hooked, event>>

-----------------------------------------------------------------------------
(* The handlers of SessionLifecycle, up to dispatchWebhook. *)

World ==
    /\ S!Tick \/ (\E op \in Ops : S!Pay(op)) \/ (\E s \in Sessions : S!CreateSession(s))
    /\ SessionStep

Detect(d) ==
    /\ Runs(d)
    /\ S!Finalize(d) \/ \E op \in Ops : S!ClaimSession(d, op)
    /\ SessionStep

Recover(r) ==
    /\ Runs(r)
    /\ rec[r].pc # "notify" /\ S!Recovery(r)
    /\ SessionStep

FailHandler ==
    /\ MayFail
    /\ \/ \E d \in Detectors  : Runs(d) /\ ~Calling(d) /\ S!FailDetector(d)
       \/ \E r \in Recoverers : Runs(r) /\ ~Calling(r) /\ (S!FailRow(r) \/ S!AbortRecovery(r))
    /\ SessionStep

-----------------------------------------------------------------------------
(* dispatchWebhook, called by processPayment and by reconcileStuckSession. *)

(* The payment a caller announces; it has come to dispatchWebhook. *)
RowOf(c) == IF c \in Detectors THEN det[c].row ELSE rec[c].row

AtDispatch(c) ==
    /\ \/ c \in Detectors  /\ det[c].pc = "confirmed"
       \/ c \in Recoverers /\ rec[c].pc = "notify"
    /\ Runs(c) /\ ~Calling(c)

(* The caller has its answer and goes on. *)
Answered(c) ==
    \/ c \in Detectors  /\ S!DispatchWebhook(c)
    \/ c \in Recoverers /\ S!NotifyReconciled(c)

(* The merchant has no webhook: nothing is enqueued. *)
DispatchNothing(c) ==
    /\ AtDispatch(c) /\ RowOf(c)[1] \notin hooked
    /\ Answered(c)
    /\ SessionStep

(* Variant: the event is enqueued before the payment has been recorded. *)
DispatchEarly(c, i) ==
    /\ \/ AtDispatch(c)
       \/ c \in Detectors /\ det[c].pc = "claimed" /\ Runs(c) /\ ~Calling(c)
    /\ RowOf(c)[1] \in hooked
    /\ Q!Enqueue(Home[c], i, RowOf(c)[1])
    /\ event' = [event EXCEPT ![i] = [row |-> RowOf(c), by |-> c]]
    /\ UNCHANGED <<sessionVars, hooked>>

Dispatch(c, i) ==
    /\ AtDispatch(c) /\ RowOf(c)[1] \in hooked
    /\ Q!Enqueue(Home[c], i, RowOf(c)[1])
    /\ event' = [event EXCEPT ![i] = [row |-> RowOf(c), by |-> c]]
    /\ UNCHANGED <<sessionVars, hooked>>

(* enqueue returns, and dispatchWebhook with it. *)
Dispatched(i) ==
    /\ Q!Schedule(i)
    /\ Answered(event[i].by)
    /\ UNCHANGED <<hooked, event>>

(* Variant: the caller tries again when enqueue throws. *)
RetryDispatch(i) ==
    /\ MayFail
    /\ Q!FailEnqueue(i)
    /\ UNCHANGED <<sessionVars, hooked, event>>

(* enqueue throws, and dispatchWebhook with it. *)
FailDispatch(i) ==
    /\ MayFail
    /\ Q!FailEnqueue(i)
    /\ \/ event[i].by \in Detectors  /\ S!FailDetector(event[i].by)
       \/ event[i].by \in Recoverers /\ S!FailRow(event[i].by)
    /\ UNCHANGED <<hooked, event>>

-----------------------------------------------------------------------------
(* The queue's own steps. *)

EnqueueStep(i) ==
    /\ Q!InsertRow(i) \/ Q!WriteJob(i) \/ Q!JoinSession(i)
    /\ QueueStep

Start(w)      == Q!Start(w) /\ QueueStep
Pass(w)       == Q!Tick(w) /\ QueueStep
Sweep(w)      == Q!Sweep(w) /\ QueueStep
Process(w, i) == Q!Process(w, i) /\ QueueStep

(* The process stops, its handlers and its worker. *)
Crash(w) ==
    /\ MayFail
    /\ Q!Crash(w)
    /\ det' = [d \in Detectors  |-> IF Home[d] = w THEN S!IdleDet ELSE det[d]]
    /\ rec' = [r \in Recoverers |-> IF Home[r] = w THEN S!IdleRec ELSE rec[r]]
    /\ UNCHANGED <<status, age, since, takenOver, ledger, payments, announced, faults,
                   hooked, event>>

Callers == Detectors \cup Recoverers

DispatchBy(c) == DispatchNothing(c) \/ \E i \in Ids : Dispatch(c, i)

Call(i) == EnqueueStep(i) \/ Dispatched(i)

Next ==
    \/ World \/ FailHandler
    \/ \E d \in Detectors : Detect(d)
    \/ \E r \in Recoverers : Recover(r)
    \/ \E c \in Callers : DispatchBy(c)
    \/ \E i \in Ids : Call(i) \/ FailDispatch(i)
    \/ \E w \in Workers :
          \/ Start(w) \/ Pass(w) \/ Sweep(w) \/ Crash(w)
          \/ \E i \in Ids : Process(w, i)

Spec == Init /\ [][Next]_vars

(* As in the two modules: time passes, the cron and the poll timer keep    *)
(* firing, the calls that have been made are answered one after the other, *)
(* and a process that is down is started again.                            *)
Fairness ==
    /\ WF_vars(S!Tick /\ SessionStep)
    /\ \A d \in Detectors : WF_vars(Runs(d) /\ S!Finalize(d) /\ SessionStep)
    /\ \A r \in Recoverers : WF_vars(Recover(r))
    /\ WF_vars(\E c \in Callers : DispatchBy(c))
    /\ WF_vars(\E i \in Ids : Call(i))
    /\ \A w \in Workers :
          /\ WF_vars(Start(w) \/ Sweep(w))
          /\ WF_vars(Pass(w))
          /\ WF_vars(\E i \in Ids : Process(w, i))

FairSpec == Spec /\ Fairness

-----------------------------------------------------------------------------
(* The checkout's promise, now for the merchant's endpoint: what it has    *)
(* acknowledged is a payment on record, across the database, the queue and *)
(* every crash between them.                                               *)
Promise == INSTANCE CheckoutPromise WITH
    view <- S!View, recorded <- payments, told <- {event[i].row : i \in acked}

KeepsPromise == Promise!Spec

(* A session's merchant is sent one event per payment, under one delivery  *)
(* id it can use to drop repetitions, although the detector and the        *)
(* recovery job both dispatch: a second id needs a recovery run that took  *)
(* a session over.                                                         *)
OneEventPerSession ==
    \A i, j \in Ids :
        event[i].by # Nothing /\ event[j].by # Nothing /\ i # j
        /\ event[i].row[1] = event[j].row[1]
            => event[i].row[1] \in takenOver

Faulty == faults > 0 \/ ~Q!Calm

Heard(s) == \E i \in Ids : Q!Finished(i) /\ rows[i].session = s

(* A session does not stay in 'processing', although its detector or the   *)
(* recovery run may stop at any statement: see SessionLifecycle.           *)
ProcessingResolved == S!ProcessingResolved

(* The payment of a session whose merchant has a webhook reaches the       *)
(* endpoint, or the dead letters if the endpoint refuses it: nothing but a *)
(* crash or a failing call can come between.                               *)
HeardUnlessFault ==
    \A s \in Sessions :
        status[s] = "processing" /\ s \in hooked ~> Heard(s) \/ Faulty

=============================================================================
