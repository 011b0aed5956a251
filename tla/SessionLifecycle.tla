-------------------------- MODULE SessionLifecycle --------------------------
(***************************************************************************)
(* The checkout sessions of OrbitStream and everyone who writes their      *)
(* status: the merchant API (checkout.service.ts), the payment detector    *)
(* (payment-detector.service.ts) and the recovery job                      *)
(* (payment-recovery.service.ts).  They share two PostgreSQL tables and    *)
(* hand a "payment.confirmed" event to the webhook queue.                  *)
(*                                                                         *)
(* An action is one database statement or transaction: between the awaits  *)
(* of a handler anything else may run.  What a handler has read before an  *)
(* await is kept in its worker record and used after it, as in the code.   *)
(* Which operations a detector sees, and how often, is the subject of      *)
(* PaymentPolling; here a detector may process any operation of the        *)
(* ledger at any time, again and again.                                    *)
(*                                                                         *)
(* A definition headed "Variant" is a plausible mistake in the definition  *)
(* that follows it.  No behaviour of the system uses it: it shows that a   *)
(* property notices the mistake.                                           *)
(***************************************************************************)
EXTENDS Naturals, Sequences, FiniteSets

CONSTANTS
    Sessions,     \* checkout_sessions rows, identified by their memo
    Price,        \* what a session asks for: [amount, asset], an asset being
                  \* [code, issuer]
    Txs,          \* transaction hashes
    Ops,          \* payment operations customers may submit
    NoTx,         \* a recovery row without a transaction
    XLM,          \* the code of the native asset
    Detectors,    \* processPayment calls that may run at once (one per instance)
    Recoverers,   \* recoverStaleSessions runs that may overlap
    Requests,     \* HTTP requests that may be in flight
    TTL,          \* CHECKOUT_SESSION_TTL_MINUTES, in clock ticks
    Stale,        \* STALE_MINUTES, in clock ticks
    MaxFaults     \* bound: crashes and failing calls in one behaviour

ASSUME OpsAssumption ==
    \A op \in Ops : op.tx \in Txs /\ op.memo \in Sessions
ASSUME NoTxAssumption == NoTx \notin Txs
ASSUME ClockAssumption == TTL \in Nat /\ Stale \in Nat
ASSUME FaultsAssumption == MaxFaults \in Nat

VARIABLES
    status,     \* checkout_sessions.status; "none" before the row exists
    age,        \* time since created_at, saturating past both deadlines
    since,      \* time in 'processing' since status_changed_at, saturating
    ledger,     \* the operations on the Stellar ledger, oldest first
    payments,   \* the payments table: <<session, tx>> rows
    announced,  \* <<session, tx>>: payment.confirmed handed to the queue
    det,        \* processPayment, per detector
    rec,        \* recoverStaleSessions, per run
    req,        \* per request: the <<session, status>> it is about to write
    takenOver,  \* history: sessions whose claim a recovery run gave back or completed
    faults      \* crashes and failures so far

db   == <<status, age, since, payments>>
vars == <<status, age, since, takenOver, ledger, payments, announced, det, rec, req,
          faults>>

Statuses == {"none", "pending", "processing", "paid", "expired", "cancelled"}
Terminal == {"paid", "expired", "cancelled"}

Rows    == Sessions \X (Txs \cup {NoTx})
NoRow   == <<>>
AgeCap   == (IF TTL > Stale THEN TTL ELSE Stale) + 1
SinceCap == Stale + 1

IdleDet == [pc |-> "idle", row |-> NoRow]
IdleRec == [pc |-> "idle", todo |-> {}, row |-> NoRow]

(* The checks of claimSession and of findConfirmingPayment: the memo names *)
(* the session, the amount is equal, and so is the asset code, except that *)
(* a session priced in XLM takes any asset.  Issuers are not compared.     *)
Confirms(op, s) ==
    /\ op.memo = s
    /\ op.amount = Price[s].amount
    /\ Price[s].asset.code \in {op.asset.code, XLM}

OnLedger(op)  == \E i \in DOMAIN ledger : ledger[i] = op
HasPayment(s) == \E t \in Txs : <<s, t>> \in payments

Init ==
    /\ status    = [s \in Sessions |-> "none"]
    /\ age       = [s \in Sessions |-> 0]
    /\ since     = [s \in Sessions |-> 0]
    /\ takenOver = {}
    /\ ledger    = <<>>
    /\ payments  = {}
    /\ announced = {}
    /\ det = [d \in Detectors  |-> IdleDet]
    /\ rec = [r \in Recoverers |-> IdleRec]
    /\ req = [q \in Requests   |-> NoRow]
    /\ faults = 0

(* UPDATE checkout_sessions SET status = st, status_changed_at = now() *)
SetStatus(s, st) ==
    /\ status' = [status EXCEPT ![s] = st]
    /\ since'  = [since EXCEPT ![s] = 0]
    /\ UNCHANGED age

(* INSERT INTO payments ... ON CONFLICT (tx_hash, session_id) DO NOTHING *)
InsertPayment(row) == payments' = payments \cup {row}

Fault == faults < MaxFaults /\ faults' = faults + 1

-----------------------------------------------------------------------------
(* The environment: time passes, customers pay. *)

(* Only ages a handler can compare are counted: created_at of a session    *)
(* that may still be pending, status_changed_at of one in 'processing'.    *)
Tick ==
    LET open == {s \in Sessions : status[s] \in {"pending", "processing"}}
        busy == {s \in Sessions : status[s] = "processing"}
    IN /\ age'   = [s \in Sessions |->
                      IF s \in open /\ age[s] < AgeCap THEN age[s] + 1 ELSE age[s]]
       /\ since' = [s \in Sessions |->
                      IF s \in busy /\ since[s] < SinceCap THEN since[s] + 1 ELSE since[s]]
       /\ <<age', since'>> # <<age, since>>
       /\ UNCHANGED <<status, takenOver, ledger, payments, announced, det, rec, req, faults>>

Pay(op) ==
    /\ status[op.memo] # "none"
    /\ ~OnLedger(op)
    /\ ledger' = Append(ledger, op)
    /\ UNCHANGED <<db, takenOver, announced, det, rec, req, faults>>

-----------------------------------------------------------------------------
(* checkout.service.ts *)

CreateSession(s) ==
    /\ status[s] = "none"
    /\ SetStatus(s, "pending")
    /\ UNCHANGED <<takenOver, ledger, payments, announced, det, rec, req, faults>>

(* getSession reads the row; a pending session past expires_at is expired  *)
(* by a second statement that does not look at the status again.           *)
GetSession(q, s) ==
    /\ req[q] = NoRow
    /\ status[s] = "pending" /\ age[s] > TTL
    /\ req' = [req EXCEPT ![q] = <<s, "expired">>]
    /\ UNCHANGED <<db, takenOver, ledger, announced, det, rec, faults>>

(* Variant: cancels whatever it reads. *)
CancelAnySession(q, s) ==
    /\ req[q] = NoRow
    /\ status[s] # "none"
    /\ req' = [req EXCEPT ![q] = <<s, "cancelled">>]
    /\ UNCHANGED <<db, takenOver, ledger, announced, det, rec, faults>>

(* cancelSession throws unless the row it reads is pending, and writes      *)
(* 'cancelled' by a second statement that does not look again.             *)
CancelSession(q, s) ==
    /\ req[q] = NoRow
    /\ status[s] = "pending"
    /\ req' = [req EXCEPT ![q] = <<s, "cancelled">>]
    /\ UNCHANGED <<db, takenOver, ledger, announced, det, rec, faults>>

WriteRequest(q) ==
    /\ req[q] # NoRow
    /\ SetStatus(req[q][1], req[q][2])
    /\ req' = [req EXCEPT ![q] = NoRow]
    /\ UNCHANGED <<takenOver, ledger, payments, announced, det, rec, faults>>

FailRequest(q) ==
    /\ req[q] # NoRow
    /\ Fault
    /\ req' = [req EXCEPT ![q] = NoRow]
    /\ UNCHANGED <<db, takenOver, ledger, announced, det, rec>>

-----------------------------------------------------------------------------
(* payment-detector.service.ts: processPayment *)

(* Variant: the amount and the asset are not compared. *)
ClaimUnchecked(d, op) ==
    LET s == op.memo IN
    /\ det[d].pc = "idle"
    /\ OnLedger(op)
    /\ status[s] = "pending"
    /\ <<s, op.tx>> \notin payments
    /\ SetStatus(s, "processing")
    /\ det' = [det EXCEPT ![d] = [pc |-> "claimed", row |-> <<s, op.tx>>]]
    /\ UNCHANGED <<takenOver, ledger, payments, announced, rec, req, faults>>

(* Variant: only a paid session is refused. *)
ClaimUnlessPaid(d, op) ==
    LET s == op.memo IN
    /\ det[d].pc = "idle"
    /\ OnLedger(op)
    /\ status[s] \notin {"none", "paid"}
    /\ Confirms(op, s)
    /\ <<s, op.tx>> \notin payments
    /\ SetStatus(s, "processing")
    /\ det' = [det EXCEPT ![d] = [pc |-> "claimed", row |-> <<s, op.tx>>]]
    /\ UNCHANGED <<takenOver, ledger, payments, announced, rec, req, faults>>

(* Phase 1, one transaction under SELECT ... FOR UPDATE.  Every other      *)
(* outcome of claimSession returns null and changes nothing.               *)
ClaimSession(d, op) ==
    LET s == op.memo IN
    /\ det[d].pc = "idle"
    /\ OnLedger(op)
    /\ status[s] = "pending"
    /\ Confirms(op, s)
    /\ <<s, op.tx>> \notin payments
    /\ SetStatus(s, "processing")
    /\ det' = [det EXCEPT ![d] = [pc |-> "claimed", row |-> <<s, op.tx>>]]
    /\ UNCHANGED <<takenOver, ledger, payments, announced, rec, req, faults>>

(* Variant: a status the enum of the column does not have. *)
FinalizeUnknownStatus(d) ==
    /\ det[d].pc = "claimed"
    /\ InsertPayment(det[d].row)
    /\ SetStatus(det[d].row[1], "confirmed")
    /\ det' = [det EXCEPT ![d].pc = "confirmed"]
    /\ UNCHANGED <<takenOver, ledger, announced, rec, req, faults>>

(* Phase 2, one transaction: the payment row, and 'paid' whatever the      *)
(* status has become.                                                      *)
Finalize(d) ==
    /\ det[d].pc = "claimed"
    /\ InsertPayment(det[d].row)
    /\ SetStatus(det[d].row[1], "paid")
    /\ det' = [det EXCEPT ![d].pc = "confirmed"]
    /\ UNCHANGED <<takenOver, ledger, announced, rec, req, faults>>

DispatchWebhook(d) ==
    /\ det[d].pc = "confirmed"
    /\ announced' = announced \cup {det[d].row}
    /\ det' = [det EXCEPT ![d] = IdleDet]
    /\ UNCHANGED <<db, takenOver, ledger, rec, req, faults>>

(* The finalize transaction fails and the session is left in 'processing', *)
(* dispatchWebhook throws, or the instance stops.                          *)
FailDetector(d) ==
    /\ det[d].pc # "idle"
    /\ Fault
    /\ det' = [det EXCEPT ![d] = IdleDet]
    /\ UNCHANGED <<db, takenOver, ledger, announced, rec, req>>

-----------------------------------------------------------------------------
(* payment-recovery.service.ts: recoverStaleSessions.  Each of its passes  *)
(* selects its rows once, into todo, and then works on one row at a time.  *)

Begin(r, pass, rows) ==
    rec' = [rec EXCEPT ![r] = [pc |-> pass, todo |-> rows, row |-> NoRow]]

Step(r, pc, row) ==
    rec' = [rec EXCEPT ![r] = [pc |-> pc, todo |-> @.todo \ {row}, row |-> row]]

Back(r, pass) ==
    rec' = [rec EXCEPT ![r] = [@ EXCEPT !.pc = pass, !.row = NoRow]]

BareRows(ss) == {<<s, NoTx>> : s \in ss}

(* Variant: the age of the claim is compared the wrong way round. *)
StartRecoveryOfFresh(r) ==
    /\ rec[r].pc = "idle"
    /\ Begin(r, "stuck", BareRows({s \in Sessions :
                              status[s] = "processing" /\ since[s] < Stale}))
    /\ UNCHANGED <<db, takenOver, ledger, announced, det, req, faults>>

(* Pass 1, recoverStuckProcessing. *)
StartRecovery(r) ==
    /\ rec[r].pc = "idle"
    /\ Begin(r, "stuck", BareRows({s \in Sessions :
                              status[s] = "processing" /\ since[s] > Stale}))
    /\ UNCHANGED <<db, takenOver, ledger, announced, det, req, faults>>

(* The latest payment on Horizon for the row, and its transaction is       *)
(* confirmed: two calls to Horizon, neither of which looks at anything     *)
(* that changes in between.                                                *)
FindConfirmingPayment(r, row) ==
    /\ rec[r].pc = "stuck" /\ row \in rec[r].todo
    /\ \E i \in DOMAIN ledger :
          /\ Confirms(ledger[i], row[1])
          /\ \A j \in DOMAIN ledger : j > i => ~Confirms(ledger[j], row[1])
          /\ rec' = [rec EXCEPT ![r] = [pc |-> "reconcile", todo |-> @.todo \ {row},
                                        row |-> <<row[1], ledger[i].tx>>]]
    /\ UNCHANGED <<db, takenOver, ledger, announced, det, req, faults>>

(* Or there is none, or verifyTransaction answers false, as it does for a  *)
(* network error, or the payment is beyond the 50 latest.  The last needs  *)
(* no failing call, but is kept rare by the same bound.                    *)
NoConfirmingPayment(r, row) ==
    /\ rec[r].pc = "stuck" /\ row \in rec[r].todo
    /\ IF \E op \in Ops : OnLedger(op) /\ Confirms(op, row[1])
       THEN Fault
       ELSE UNCHANGED faults
    /\ Step(r, "revert", row)
    /\ UNCHANGED <<db, takenOver, ledger, announced, det, req>>

(* Variant: the revert does not look at the status. *)
RevertAnyway(r) ==
    /\ rec[r].pc = "revert"
    /\ SetStatus(rec[r].row[1], "pending")
    /\ Back(r, "stuck")
    /\ UNCHANGED <<takenOver, ledger, payments, announced, det, req, faults>>

(* UPDATE ... SET status = 'pending' WHERE id = ... AND status = 'processing' *)
RevertToPending(r) ==
    /\ rec[r].pc = "revert"
    /\ IF status[rec[r].row[1]] = "processing"
       THEN /\ SetStatus(rec[r].row[1], "pending")
            /\ takenOver' = takenOver \cup {rec[r].row[1]}
       ELSE UNCHANGED <<status, age, since, takenOver>>
    /\ Back(r, "stuck")
    /\ UNCHANGED <<ledger, payments, announced, det, req, faults>>

Reconcile(r) ==
    /\ rec[r].pc = "reconcile"
    /\ InsertPayment(rec[r].row)
    /\ SetStatus(rec[r].row[1], "paid")
    /\ takenOver' = takenOver \cup {rec[r].row[1]}
    /\ rec' = [rec EXCEPT ![r].pc = "notify"]
    /\ UNCHANGED <<ledger, announced, det, req, faults>>

NotifyReconciled(r) ==
    /\ rec[r].pc = "notify"
    /\ announced' = announced \cup {rec[r].row}
    /\ Back(r, "stuck")
    /\ UNCHANGED <<db, takenOver, ledger, det, req, faults>>

(* Pass 2, recoverPendingWithPayments: the pending sessions with a payment *)
(* row.  There are none (RecordedIsClosed), so its loop has no action.     *)
StartOrphans(r) ==
    /\ rec[r].pc = "stuck" /\ rec[r].todo = {}
    /\ Begin(r, "orphans", {p \in payments : status[p[1]] = "pending"})
    /\ UNCHANGED <<db, takenOver, ledger, announced, det, req, faults>>

(* Pass 3, recoverStuckPending: created_at is compared with STALE_MINUTES, *)
(* not with expires_at; neither update looks at the status again.          *)
StartStale(r) ==
    /\ rec[r].pc = "orphans" /\ rec[r].todo = {}
    /\ Begin(r, "stale", BareRows({s \in Sessions :
                              status[s] = "pending" /\ age[s] > Stale}))
    /\ UNCHANGED <<db, takenOver, ledger, announced, det, req, faults>>

ReadStale(r, row) ==
    /\ rec[r].pc = "stale" /\ row \in rec[r].todo
    /\ Step(r, IF HasPayment(row[1]) THEN "markPaid" ELSE "markExpired", row)
    /\ UNCHANGED <<db, takenOver, ledger, announced, det, req, faults>>

WriteStale(r) ==
    /\ \/ rec[r].pc = "markPaid"    /\ SetStatus(rec[r].row[1], "paid")
       \/ rec[r].pc = "markExpired" /\ SetStatus(rec[r].row[1], "expired")
    /\ Back(r, "stale")
    /\ UNCHANGED <<takenOver, ledger, payments, announced, det, req, faults>>

(* Pass 4, recoverPaidWithoutPayments, only logs. *)
FinishRecovery(r) ==
    /\ rec[r].pc = "stale" /\ rec[r].todo = {}
    /\ rec' = [rec EXCEPT ![r] = IdleRec]
    /\ UNCHANGED <<db, takenOver, ledger, announced, det, req, faults>>

(* A call of the first pass throws: its row is given up, the loop goes on. *)
FailRow(r) ==
    /\ Fault
    /\ \/ /\ rec[r].pc = "stuck"
          /\ \E row \in rec[r].todo : rec' = [rec EXCEPT ![r].todo = @ \ {row}]
       \/ /\ rec[r].pc \in {"revert", "reconcile", "notify"}
          /\ Back(r, "stuck")
    /\ UNCHANGED <<db, takenOver, ledger, announced, det, req>>

(* The instance stops, or a statement outside the try blocks throws. *)
AbortRecovery(r) ==
    /\ rec[r].pc # "idle"
    /\ Fault
    /\ rec' = [rec EXCEPT ![r] = IdleRec]
    /\ UNCHANGED <<db, takenOver, ledger, announced, det, req>>

-----------------------------------------------------------------------------
Checkout(q) ==
    \/ \E s \in Sessions : GetSession(q, s) \/ CancelSession(q, s)
    \/ WriteRequest(q)

Detector(d) ==
    \/ \E op \in Ops : ClaimSession(d, op)
    \/ Finalize(d)
    \/ DispatchWebhook(d)

RecoverRow(r, row) ==
    \/ FindConfirmingPayment(r, row)
    \/ NoConfirmingPayment(r, row)
    \/ ReadStale(r, row)

Recovery(r) ==
    \/ StartRecovery(r)
    \/ \E row \in rec[r].todo : RecoverRow(r, row)
    \/ RevertToPending(r) \/ Reconcile(r) \/ NotifyReconciled(r)
    \/ StartOrphans(r) \/ StartStale(r) \/ WriteStale(r) \/ FinishRecovery(r)

Next ==
    \/ Tick
    \/ \E op \in Ops : Pay(op)
    \/ \E s \in Sessions : CreateSession(s)
    \/ \E q \in Requests : Checkout(q) \/ FailRequest(q)
    \/ \E d \in Detectors : Detector(d) \/ FailDetector(d)
    \/ \E r \in Recoverers : Recovery(r) \/ FailRow(r) \/ AbortRecovery(r)

Spec == Init /\ [][Next]_vars

(* Time passes, the five-minute cron keeps firing, and a handler that has  *)
(* been started gets the results of its awaits; that a customer pays, that *)
(* a request is made or that a detector is at an operation is not assumed. *)
Fairness ==
    /\ WF_vars(Tick)
    /\ \A d \in Detectors : WF_vars(Finalize(d)) /\ WF_vars(DispatchWebhook(d))
    /\ \A r \in Recoverers : WF_vars(Recovery(r))

FairSpec == Spec /\ Fairness

-----------------------------------------------------------------------------
RecStates == {"idle", "stuck", "revert", "reconcile", "notify", "orphans",
              "stale", "markPaid", "markExpired"}

(* The type invariant: every column, worker record and counter has a value *)
(* the code can give it.                                                   *)
TypeOK ==
    /\ status \in [Sessions -> Statuses]
    /\ age \in [Sessions -> 0..AgeCap]
    /\ since \in [Sessions -> 0..SinceCap]
    /\ ledger \in Seq(Ops)
    /\ takenOver \subseteq Sessions
    /\ payments \subseteq Sessions \X Txs
    /\ announced \subseteq Sessions \X Txs
    /\ det \in [Detectors -> [pc : {"idle", "claimed", "confirmed"},
                              row : (Sessions \X Txs) \cup {NoRow}]]
    /\ rec \in [Recoverers -> [pc : RecStates, todo : SUBSET Rows,
                               row : Rows \cup {NoRow}]]
    /\ req \in [Requests -> (Sessions \X {"expired", "cancelled"}) \cup {NoRow}]
    /\ faults \in 0..MaxFaults

(* A paid session has a payment row, on every path that leads to 'paid':   *)
(* both finalize transactions and the stale pass of the recovery job.      *)
(* recoverPaidWithoutPayments only logs the opposite.                      *)
PaidHasPayment == \A s \in Sessions : status[s] = "paid" => HasPayment(s)

(* A session with a payment row is closed: claims and reverts race with    *)
(* finalize transactions, but each of them re-checks the status, and no    *)
(* payment row is committed without one.  This is why                      *)
(* recoverPendingWithPayments never finds a row.                           *)
RecordedIsClosed == \A s \in Sessions : HasPayment(s) => status[s] \in Terminal

(* payment.confirmed is handed to the webhook queue only for a committed   *)
(* payment row: processPayment returns before dispatchWebhook when its     *)
(* finalize transaction fails, and so does the recovery job.               *)
AnnouncedIsRecorded == announced \subseteq payments

(* A <<session, tx>> row is backed by the ledger. *)
IsReal(p) == \E op \in Ops : OnLedger(op) /\ op.tx = p[2] /\ Confirms(op, p[1])

(* A payment row stands for an operation on the ledger that named its      *)
(* session and paid the asked amount, whoever inserted the row.  Of the    *)
(* asset only the code is the asked one, and not even that for a session   *)
(* priced in XLM: see PaidInAskedAsset.                                    *)
PaymentsAreReal == \A p \in payments : IsReal(p)

(* A session is paid in the asset it asks for ("payment matches memo,      *)
(* amount, and asset", "rejects payment with asset mismatch").             *)
PaidInAskedAsset ==
    \A p \in payments :
        \E op \in Ops : OnLedger(op) /\ op.tx = p[2] /\ op.asset = Price[p[1]].asset

(* What the workers hold between two awaits: a row of the right kind, and, *)
(* in the places where the code relies on it, a payment that is recorded   *)
(* or that the ledger backs.                                               *)
DetectorHolds(d) ==
    /\ det[d].pc # "idle" => det[d].row \in Sessions \X Txs
    /\ det[d].pc = "claimed" => IsReal(det[d].row)
    /\ det[d].pc = "confirmed" => det[d].row \in payments

RecovererHolds(r) ==
    /\ rec[r].pc \in {"revert", "markPaid", "markExpired"} => rec[r].row \in Rows
    /\ rec[r].pc = "reconcile" => rec[r].row \in Sessions \X Txs /\ IsReal(rec[r].row)
    /\ rec[r].pc = "notify" => rec[r].row \in payments
    /\ rec[r].pc = "orphans" => rec[r].todo = {}
    /\ rec[r].pc = "markPaid" => HasPayment(rec[r].row[1])

WorkersHoldEvidence ==
    /\ \A d \in Detectors : DetectorHolds(d)
    /\ \A r \in Recoverers : RecovererHolds(r)

(* A session that is paid, expired or cancelled is never open again: the   *)
(* revert of the recovery job and the claim of the detector re-check the   *)
(* status in the statement that writes it, however old their reads are.    *)
NotReopened ==
    [][\A s \in Sessions : status[s] \in Terminal => status'[s] \in Terminal]_vars

(* The writers that will set a status of s without looking at it again.    *)
InFlight(s) ==
    \/ \E q \in Requests : req[q] # NoRow /\ req[q][1] = s
    \/ \E d \in Detectors : det[d].pc = "claimed" /\ det[d].row[1] = s
    \/ \E r \in Recoverers :
          \/ rec[r].pc \in {"reconcile", "markPaid", "markExpired"} /\ rec[r].row[1] = s
          \/ \E row \in rec[r].todo : row[1] = s

Settled(s) == status[s] \in Terminal /\ ~InFlight(s)

(* Once a session has reached a final status and no handler that read it   *)
(* earlier is still to write, its status never changes: the stale writes   *)
(* of getSession, cancelSession, processPayment and the recovery job are   *)
(* the only way out of 'paid', 'expired' and 'cancelled'.                  *)
SettledIsFinal ==
    [][\A s \in Sessions : Settled(s) => status'[s] = status[s] /\ Settled(s)']_vars

(* A session is confirmed by one payment, however many pay it: the claim   *)
(* of processPayment is exclusive and never given back, unless the         *)
(* recovery job has taken it over from a detector it believes dead.        *)
OnePaymentPerSession ==
    \A s \in Sessions \ takenOver :
        \A p, q \in payments : p[1] = s /\ q[1] = s => p = q

(* At most one detector is between claiming a session and finalizing it    *)
(* ("only one of two simultaneous payments for the same session wins"),    *)
(* unless the recovery job has taken the first claim over.                 *)
ClaimIsExclusive ==
    \A d, e \in Detectors :
        det[d].pc = "claimed" /\ det[e].pc = "claimed" /\ d # e
        /\ det[d].row[1] \notin takenOver
            => det[d].row[1] # det[e].row[1]

(* A session does not stay in 'processing': its detector finalizes it, or  *)
(* a run of the recovery job completes it or gives it back.                *)
ProcessingResolved ==
    \A s \in Sessions : status[s] = "processing" ~> status[s] # "processing"

(* What a checkout promises the merchant: a session is open until it is    *)
(* closed and then stays closed, 'paid' and payment.confirmed rest on a    *)
(* payment row of the session, and payment rows are never withdrawn.       *)
View == [s \in Sessions |-> IF status[s] \in {"pending", "processing"} THEN "open"
                                                                      ELSE status[s]]

Promise == INSTANCE CheckoutPromise WITH
    view <- View, recorded <- payments, told <- announced

KeepsPromise == Promise!Spec

(* The merchant of a paid session is told: payment.confirmed reaches the   *)
(* webhook queue.                                                          *)
PaidIsAnnounced ==
    \A s \in Sessions : status[s] = "paid" ~> \E t \in Txs : <<s, t>> \in announced

=============================================================================
