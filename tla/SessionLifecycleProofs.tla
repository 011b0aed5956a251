----------------------- MODULE SessionLifecycleProofs -----------------------
(* What SessionLifecycle guarantees for any sessions, payments, instances, *)
(* requests, deadlines and number of faults.                               *)
EXTENDS SessionLifecycle, TLAPS

(* A handler that is still to write a status writes that of a row that     *)
(* exists.                                                                 *)
WritersHaveSessions == \A s \in Sessions : InFlight(s) => status[s] # "none"

(* The inductive invariant: what the theorems state, and what the workers  *)
(* hold between two awaits, without which it is not preserved.             *)
Inv ==
    /\ TypeOK
    /\ WorkersHoldEvidence
    /\ PaidHasPayment
    /\ RecordedIsClosed
    /\ AnnouncedIsRecorded
    /\ PaymentsAreReal
    /\ WritersHaveSessions

(* Initially no row exists and no worker has started. *)
LEMMA InitInv == Init => Inv
<1> SUFFICES ASSUME Init PROVE Inv
    OBVIOUS
<1> USE DEF Init, IdleDet, IdleRec
<1>1. TypeOK
    BY ClockAssumption, FaultsAssumption DEF TypeOK, Statuses, RecStates, AgeCap, SinceCap, NoRow
<1>2. WorkersHoldEvidence
    BY DEF WorkersHoldEvidence, DetectorHolds, RecovererHolds
<1>3. PaidHasPayment /\ RecordedIsClosed /\ AnnouncedIsRecorded /\ PaymentsAreReal
    BY DEF PaidHasPayment, RecordedIsClosed, HasPayment, AnnouncedIsRecorded, PaymentsAreReal
<1>4. WritersHaveSessions
    BY DEF WritersHaveSessions, InFlight
<1> QED
    BY <1>1, <1>2, <1>3, <1>4 DEF Inv

RecType == [Recoverers -> [pc : RecStates, todo : SUBSET Rows, row : Rows \cup {NoRow}]]

(* Writing a status keeps the three columns typed. *)
LEMMA SetStatusType ==
    ASSUME TypeOK, NEW s \in Sessions, NEW st \in Statuses, SetStatus(s, st)
    PROVE  /\ status' \in [Sessions -> Statuses]
           /\ age' \in [Sessions -> 0..AgeCap]
           /\ since' \in [Sessions -> 0..SinceCap]
BY ClockAssumption DEF TypeOK, SetStatus, SinceCap

(* The three ways a run of the recovery job moves keep its record typed. *)
LEMMA BeginType ==
    ASSUME rec \in RecType, NEW r \in Recoverers, NEW pass \in RecStates,
           NEW rows \in SUBSET Rows, Begin(r, pass, rows)
    PROVE  rec' \in RecType
BY DEF Begin, RecType

LEMMA StepType ==
    ASSUME rec \in RecType, NEW r \in Recoverers, NEW pc \in RecStates,
           NEW row \in Rows, Step(r, pc, row)
    PROVE  rec' \in RecType
BY DEF Step, RecType

LEMMA BackType ==
    ASSUME rec \in RecType, NEW r \in Recoverers, NEW pass \in RecStates, Back(r, pass)
    PROVE  rec' \in RecType
BY DEF Back, RecType

LEMMA TypeStep == TypeOK /\ WorkersHoldEvidence /\ [Next]_vars => TypeOK'
<1> SUFFICES ASSUME TypeOK, WorkersHoldEvidence, [Next]_vars PROVE TypeOK'
    OBVIOUS
<1> USE DEF db
<1>1. CASE Tick
    <2>1. age' \in [Sessions -> 0..AgeCap]
      BY <1>1, ClockAssumption DEF Tick, TypeOK, AgeCap
    <2>2. since' \in [Sessions -> 0..SinceCap]
      BY <1>1, ClockAssumption DEF Tick, TypeOK, SinceCap
    <2> QED
      BY <1>1, <2>1, <2>2 DEF Tick, TypeOK
<1>2. ASSUME NEW op \in Ops, Pay(op) PROVE TypeOK'
    BY <1>2 DEF Pay, TypeOK
<1>3. ASSUME NEW s \in Sessions, CreateSession(s) PROVE TypeOK'
    BY <1>3, SetStatusType DEF CreateSession, TypeOK, Statuses
<1>4. ASSUME NEW q \in Requests, Checkout(q) \/ FailRequest(q) PROVE TypeOK'
    <2>1. ASSUME NEW s \in Sessions, GetSession(q, s) \/ CancelSession(q, s) PROVE TypeOK'
      <3>1. req' \in [Requests -> (Sessions \X {"expired", "cancelled"}) \cup {NoRow}]
        BY <2>1 DEF GetSession, CancelSession, TypeOK
      <3> QED
        BY <2>1, <3>1 DEF GetSession, CancelSession, TypeOK
    <2>2. CASE WriteRequest(q)
      <3>1. req[q][1] \in Sessions /\ req[q][2] \in Statuses
        BY <2>2 DEF WriteRequest, TypeOK, Statuses
      <3> QED
        BY <2>2, <3>1, SetStatusType DEF WriteRequest, TypeOK
    <2>3. CASE FailRequest(q)
      BY <2>3, FaultsAssumption DEF FailRequest, Fault, TypeOK
    <2> QED
      BY <1>4, <2>1, <2>2, <2>3 DEF Checkout
<1>5. ASSUME NEW d \in Detectors, Detector(d) \/ FailDetector(d) PROVE TypeOK'
    <2>1. ASSUME NEW op \in Ops, ClaimSession(d, op) PROVE TypeOK'
      BY <2>1, OpsAssumption, SetStatusType DEF ClaimSession, TypeOK, Statuses
    <2>2. CASE Finalize(d)
      <3>1. det[d].row \in Sessions \X Txs
        BY <2>2 DEF Finalize, WorkersHoldEvidence, DetectorHolds
      <3> QED
        <4>1. det[d].row[1] \in Sessions /\ "paid" \in Statuses
          BY <3>1 DEF Statuses
        <4>2. /\ status' \in [Sessions -> Statuses]
              /\ age' \in [Sessions -> 0..AgeCap]
              /\ since' \in [Sessions -> 0..SinceCap]
          BY <2>2, <4>1, SetStatusType DEF Finalize
        <4>3. payments' \subseteq Sessions \X Txs
          BY <2>2, <3>1 DEF Finalize, InsertPayment, TypeOK
        <4> QED
          BY <2>2, <4>2, <4>3 DEF Finalize, TypeOK
    <2>3. CASE DispatchWebhook(d)
      BY <2>3 DEF DispatchWebhook, IdleDet, TypeOK, WorkersHoldEvidence, DetectorHolds
    <2>4. CASE FailDetector(d)
      BY <2>4, FaultsAssumption DEF FailDetector, Fault, IdleDet, TypeOK
    <2> QED
      BY <1>5, <2>1, <2>2, <2>3, <2>4 DEF Detector
<1>6. ASSUME NEW r \in Recoverers, Recovery(r) \/ FailRow(r) \/ AbortRecovery(r) PROVE TypeOK'
    <2>a. /\ rec[r].todo \subseteq Rows
          /\ rec[r].pc \in {"revert", "markPaid", "markExpired"} => rec[r].row \in Rows
          /\ rec[r].pc \in {"reconcile", "notify"} => rec[r].row \in Sessions \X Txs
      BY DEF TypeOK, WorkersHoldEvidence, RecovererHolds
    <2>b. rec \in RecType
      BY DEF TypeOK, RecType
    <2>1. CASE StartRecovery(r)
      <3> DEFINE rows == BareRows({s \in Sessions : status[s] = "processing" /\ since[s] > Stale})
      <3>1. rows \in SUBSET Rows
        BY DEF BareRows, Rows
      <3>2. Begin(r, "stuck", rows)
        BY <2>1 DEF StartRecovery
      <3>3. rec' \in RecType
        BY <2>b, <3>1, <3>2, BeginType DEF RecStates
      <3> QED
        BY <2>1, <3>3 DEF StartRecovery, TypeOK, RecType
    <2>2. ASSUME NEW row \in rec[r].todo, FindConfirmingPayment(r, row) PROVE TypeOK'
      <3>1. rec' \in RecType
        BY <2>a, <2>2, OpsAssumption DEF FindConfirmingPayment, TypeOK, RecType, RecStates, Rows
      <3> QED
        BY <2>2, <3>1 DEF FindConfirmingPayment, TypeOK, RecType
    <2>3. ASSUME NEW row \in rec[r].todo, NoConfirmingPayment(r, row) PROVE TypeOK'
      BY <2>b, <2>a, <2>3, StepType, FaultsAssumption DEF NoConfirmingPayment, Fault, TypeOK, RecType, RecStates
    <2>5. ASSUME NEW row \in rec[r].todo, ReadStale(r, row) PROVE TypeOK'
      BY <2>b, <2>a, <2>5, StepType DEF ReadStale, TypeOK, RecType, RecStates
    <2>6. CASE RevertToPending(r)
      <3>1. rec[r].row[1] \in Sessions
        BY <2>a, <2>6 DEF RevertToPending, Rows
      <3> QED
        <4>1. status' \in [Sessions -> Statuses] /\ age' \in [Sessions -> 0..AgeCap]
              /\ since' \in [Sessions -> 0..SinceCap]
          BY <2>6, <3>1, SetStatusType DEF RevertToPending, TypeOK, Statuses
        <4>2. rec' \in RecType
          BY <2>b, <2>6, BackType DEF RevertToPending, RecStates
        <4>3. takenOver' \subseteq Sessions
          BY <2>6, <3>1 DEF RevertToPending, TypeOK
        <4> QED
          BY <2>6, <4>1, <4>2, <4>3 DEF RevertToPending, TypeOK, RecType
    <2>7. CASE Reconcile(r)
      <3>1. rec[r].row \in Sessions \X Txs
        BY <2>a, <2>7 DEF Reconcile
      <3>2. rec' \in RecType
        BY <2>7 DEF Reconcile, TypeOK, RecType, RecStates
      <3> QED
        BY <2>7, <3>1, <3>2, SetStatusType DEF Reconcile, InsertPayment, TypeOK, RecType, Statuses
    <2>8. CASE NotifyReconciled(r)
      BY <2>b, <2>a, <2>8, BackType DEF NotifyReconciled, TypeOK, RecType, RecStates
    <2>9. CASE StartOrphans(r)
      <3>1. {p \in payments : status[p[1]] = "pending"} \in SUBSET Rows
        BY DEF TypeOK, Rows
      <3>2. rec' \in RecType
        BY <2>b, <2>9, <3>1, BeginType DEF StartOrphans, RecStates
      <3> QED
        BY <2>9, <3>2 DEF StartOrphans, TypeOK, RecType
    <2>11. CASE StartStale(r)
      <3> DEFINE rows == BareRows({s \in Sessions : status[s] = "pending" /\ age[s] > Stale})
      <3>1. rows \in SUBSET Rows
        BY DEF BareRows, Rows
      <3>2. Begin(r, "stale", rows)
        BY <2>11 DEF StartStale
      <3>3. rec' \in RecType
        BY <2>b, <3>1, <3>2, BeginType DEF RecStates
      <3> QED
        BY <2>11, <3>3 DEF StartStale, TypeOK, RecType
    <2>12. CASE WriteStale(r)
      <3>1. rec[r].row[1] \in Sessions
        BY <2>a, <2>12 DEF WriteStale, Rows
      <3> QED
        BY <2>b, <2>12, <3>1, BackType, SetStatusType DEF WriteStale, TypeOK, RecType, RecStates, Statuses
    <2>13. CASE FinishRecovery(r)
      BY <2>13 DEF FinishRecovery, IdleRec, TypeOK, RecStates
    <2>14. CASE FailRow(r)
      <3>1. rec' \in RecType
        <4>1. ASSUME NEW row \in rec[r].todo, rec' = [rec EXCEPT ![r].todo = @ \ {row}]
              PROVE  rec' \in RecType
          <5>1. rec[r].todo \ {row} \in SUBSET Rows
            BY <2>a
          <5> QED
            BY <2>b, <4>1, <5>1 DEF RecType
        <4> QED
          BY <2>b, <2>14, <4>1, BackType DEF FailRow, RecStates
      <3> QED
        BY <2>14, <3>1, FaultsAssumption DEF FailRow, Fault, TypeOK, RecType
    <2>15. CASE AbortRecovery(r)
      BY <2>15, FaultsAssumption DEF AbortRecovery, Fault, IdleRec, TypeOK, RecStates
    <2> QED
      BY <1>6, <2>1, <2>2, <2>3, <2>5, <2>6, <2>7, <2>8, <2>9, <2>11, <2>12, <2>13, <2>14,
         <2>15
         DEF Recovery, RecoverRow
<1>7. CASE UNCHANGED vars
    BY <1>7 DEF vars, TypeOK
<1> QED
    BY <1>1, <1>2, <1>3, <1>4, <1>5, <1>6, <1>7 DEF Next

(* Payment rows and ledger entries are only ever added. *)
LEMMA Growth ==
    ASSUME TypeOK, [Next]_vars
    PROVE  payments \subseteq payments' /\ \A p : IsReal(p) => IsReal(p)'
<1>1. payments \subseteq payments'
    BY DEF Next, vars, db, Tick, Pay, CreateSession, Checkout, GetSession, CancelSession,
           WriteRequest, FailRequest, Detector, ClaimSession, Finalize, DispatchWebhook,
           FailDetector, Recovery, RecoverRow, StartRecovery, FindConfirmingPayment,
           NoConfirmingPayment, RevertToPending, Reconcile, NotifyReconciled, StartOrphans,
           StartStale, ReadStale, WriteStale, FinishRecovery,
           FailRow, AbortRecovery, InsertPayment
<1>2. \A op : OnLedger(op) => OnLedger(op)'
    <2>1. CASE UNCHANGED ledger
      BY <2>1 DEF OnLedger
    <2>2. ASSUME NEW new \in Ops, ledger' = Append(ledger, new)
          PROVE  \A op : OnLedger(op) => OnLedger(op)'
      <3>1. ledger \in Seq(Ops)
        BY DEF TypeOK
      <3>2. ASSUME NEW i \in DOMAIN ledger
            PROVE  i \in DOMAIN ledger' /\ ledger'[i] = ledger[i]
        BY <2>2, <3>1
      <3> QED
        BY <3>2 DEF OnLedger
    <2>3. UNCHANGED ledger \/ \E new \in Ops : ledger' = Append(ledger, new)
      BY DEF Next, vars, Tick, Pay, CreateSession, Checkout, GetSession, CancelSession,
             WriteRequest, FailRequest, Detector, ClaimSession, Finalize, DispatchWebhook,
             FailDetector, Recovery, RecoverRow, StartRecovery, FindConfirmingPayment,
             NoConfirmingPayment, RevertToPending, Reconcile, NotifyReconciled, StartOrphans,
             StartStale, ReadStale, WriteStale, FinishRecovery,
             FailRow, AbortRecovery
    <2> QED
      BY <2>1, <2>2, <2>3
<1> QED
    BY <1>1, <1>2 DEF IsReal, Confirms

(* Which step moves which kind of worker. *)
LEMMA RequestMoves ==
    ASSUME [Next]_vars
    PROVE  \/ UNCHANGED req
           \/ \E q \in Requests :
                \/ \E s \in Sessions : GetSession(q, s) \/ CancelSession(q, s)
                \/ req' = [req EXCEPT ![q] = NoRow]
BY DEF Next, vars, Tick, Pay, CreateSession, Checkout, WriteRequest, FailRequest,
         Detector, ClaimSession, Finalize, DispatchWebhook, FailDetector,
         Recovery, RecoverRow, StartRecovery, FindConfirmingPayment,
         NoConfirmingPayment, RevertToPending, Reconcile, NotifyReconciled, StartOrphans,
         StartStale, ReadStale, WriteStale, FinishRecovery,
         FailRow, AbortRecovery

LEMMA DetectorMoves ==
    ASSUME [Next]_vars
    PROVE  UNCHANGED det \/ \E d \in Detectors : Detector(d) \/ FailDetector(d)
BY DEF Next, vars, Tick, Pay, CreateSession, Checkout, GetSession, CancelSession,
         WriteRequest, FailRequest,
         Recovery, RecoverRow, StartRecovery, FindConfirmingPayment,
         NoConfirmingPayment, RevertToPending, Reconcile, NotifyReconciled, StartOrphans,
         StartStale, ReadStale, WriteStale, FinishRecovery,
         FailRow, AbortRecovery

LEMMA RecovererMoves ==
    ASSUME [Next]_vars
    PROVE  \/ UNCHANGED rec
           \/ \E r \in Recoverers : Recovery(r) \/ FailRow(r) \/ AbortRecovery(r)
BY DEF Next, vars, Tick, Pay, CreateSession, Checkout, GetSession, CancelSession,
         WriteRequest, FailRequest, Detector, ClaimSession, Finalize, DispatchWebhook,
         FailDetector

(* A run of the recovery job writes only its own record. *)
LEMMA RecovererMovesAlone ==
    ASSUME TypeOK, NEW r \in Recoverers, Recovery(r) \/ FailRow(r) \/ AbortRecovery(r),
           NEW e \in Recoverers, e # r
    PROVE  rec'[e] = rec[e]
BY DEF Recovery, RecoverRow, StartRecovery, FindConfirmingPayment,
         NoConfirmingPayment, RevertToPending, Reconcile, NotifyReconciled, StartOrphans,
         StartStale, ReadStale, WriteStale, FinishRecovery,
         FailRow, AbortRecovery,
         Begin, Step, Back, TypeOK

(* A worker that does not move keeps what it holds. *)
LEMMA DetectorKeeps ==
    ASSUME NEW d \in Detectors, DetectorHolds(d), det'[d] = det[d],
           payments \subseteq payments', \A p : IsReal(p) => IsReal(p)'
    PROVE  DetectorHolds(d)'
BY DEF DetectorHolds

LEMMA RecovererKeeps ==
    ASSUME NEW r \in Recoverers, RecovererHolds(r), rec'[r] = rec[r],
           payments \subseteq payments', \A p : IsReal(p) => IsReal(p)'
    PROVE  RecovererHolds(r)'
BY DEF RecovererHolds, HasPayment

(* No step leaves a worker with a row the tables or the ledger disown. *)
LEMMA EvidenceStep ==
    TypeOK /\ WorkersHoldEvidence /\ RecordedIsClosed /\ [Next]_vars => WorkersHoldEvidence'
<1> SUFFICES ASSUME TypeOK, WorkersHoldEvidence, RecordedIsClosed, [Next]_vars
             PROVE  WorkersHoldEvidence'
    OBVIOUS
<1>g. payments \subseteq payments' /\ \A p : IsReal(p) => IsReal(p)'
    BY Growth
<1>d. ASSUME UNCHANGED det PROVE \A d \in Detectors : DetectorHolds(d)'
    BY <1>d, <1>g, DetectorKeeps DEF WorkersHoldEvidence
<1>r. ASSUME UNCHANGED rec PROVE \A r \in Recoverers : RecovererHolds(r)'
    BY <1>r, <1>g, RecovererKeeps DEF WorkersHoldEvidence
<1>1. ASSUME UNCHANGED <<det, rec>> PROVE WorkersHoldEvidence'
    BY <1>1, <1>d, <1>r DEF WorkersHoldEvidence
<1>2. ASSUME NEW d \in Detectors, Detector(d) \/ FailDetector(d) PROVE WorkersHoldEvidence'
    <2>1. UNCHANGED rec
      BY <1>2 DEF Detector, ClaimSession, Finalize, DispatchWebhook, FailDetector
    <2>2. ASSUME NEW e \in Detectors, e # d PROVE det'[e] = det[e]
      BY <1>2, <2>2 DEF Detector, ClaimSession, Finalize, DispatchWebhook, FailDetector, TypeOK
    <2>3. DetectorHolds(d)'
      <3>1. ASSUME NEW op \in Ops, ClaimSession(d, op) PROVE DetectorHolds(d)'
        <4>1. det'[d] = [pc |-> "claimed", row |-> <<op.memo, op.tx>>]
          BY <3>1 DEF ClaimSession, TypeOK
        <4>2. IsReal(<<op.memo, op.tx>>)
          BY <3>1 DEF ClaimSession, IsReal
        <4>3. IsReal(<<op.memo, op.tx>>)'
          BY <4>2, <1>g
        <4> QED
          BY <4>1, <4>3, OpsAssumption DEF DetectorHolds
      <3>2. CASE Finalize(d)
        <4>1. det'[d].pc = "confirmed" /\ det'[d].row = det[d].row /\ det[d].row \in payments'
          BY <3>2 DEF Finalize, InsertPayment, TypeOK
        <4>2. det[d].row \in Sessions \X Txs
          BY <3>2 DEF Finalize, WorkersHoldEvidence, DetectorHolds
        <4> QED
          BY <4>1, <4>2 DEF DetectorHolds
      <3>3. CASE DispatchWebhook(d) \/ FailDetector(d)
        BY <3>3 DEF DispatchWebhook, FailDetector, IdleDet, DetectorHolds, TypeOK
      <3> QED
        BY <1>2, <3>1, <3>2, <3>3 DEF Detector
    <2> QED
      BY <1>r, <1>g, <2>1, <2>2, <2>3, DetectorKeeps DEF WorkersHoldEvidence
<1>3. ASSUME NEW r \in Recoverers, Recovery(r) \/ FailRow(r) \/ AbortRecovery(r)
      PROVE  WorkersHoldEvidence'
    <2> USE <1>g
    <2>b. RecovererHolds(r)
      BY DEF WorkersHoldEvidence
    <2>c. ASSUME NEW pass, Back(r, pass)
          PROVE  rec'[r].pc = pass /\ rec'[r].todo = rec[r].todo
      BY <2>c DEF Back, TypeOK
    <2>1. UNCHANGED det
      BY <1>3 DEF Recovery, RecoverRow, StartRecovery, FindConfirmingPayment,
             NoConfirmingPayment, RevertToPending, Reconcile, NotifyReconciled, StartOrphans,
             StartStale, ReadStale, WriteStale, FinishRecovery,
             FailRow, AbortRecovery
    <2>2. ASSUME NEW e \in Recoverers, e # r PROVE rec'[e] = rec[e]
      BY <1>3, <2>2, RecovererMovesAlone
    <2>3. RecovererHolds(r)'
      <3>1. CASE StartRecovery(r) \/ StartStale(r)
        BY <3>1 DEF StartRecovery, StartStale, Begin, RecovererHolds, TypeOK
      <3>2. ASSUME NEW row \in rec[r].todo, FindConfirmingPayment(r, row) PROVE RecovererHolds(r)'
        <4>1. PICK i \in DOMAIN ledger :
                /\ Confirms(ledger[i], row[1])
                /\ rec'[r] = [pc |-> "reconcile", todo |-> rec[r].todo \ {row},
                              row |-> <<row[1], ledger[i].tx>>]
          BY <3>2 DEF FindConfirmingPayment, TypeOK
        <4>2. ledger[i] \in Ops /\ OnLedger(ledger[i])
          BY DEF TypeOK, OnLedger
        <4>3. IsReal(<<row[1], ledger[i].tx>>)
          BY <4>1, <4>2 DEF IsReal
        <4>4. <<row[1], ledger[i].tx>> \in Sessions \X Txs
          BY <4>1, <4>2, OpsAssumption DEF Confirms
        <4> QED
          BY <4>1, <4>3, <4>4 DEF RecovererHolds
      <3>3. ASSUME NEW row \in rec[r].todo, NoConfirmingPayment(r, row) PROVE RecovererHolds(r)'
        BY <3>3 DEF NoConfirmingPayment, Step, RecovererHolds, TypeOK
      <3>5. ASSUME NEW row \in rec[r].todo, ReadStale(r, row) PROVE RecovererHolds(r)'
        <4>1. rec'[r] = [pc |-> IF HasPayment(row[1]) THEN "markPaid" ELSE "markExpired",
                         todo |-> rec[r].todo \ {row}, row |-> row]
          BY <3>5 DEF ReadStale, Step, TypeOK
        <4>2. row \in Rows
          BY DEF TypeOK
        <4>3. HasPayment(row[1]) => HasPayment(row[1])'
          BY DEF HasPayment
        <4>4. CASE HasPayment(row[1])
          <5>1. rec'[r].pc = "markPaid" /\ rec'[r].row = row
            BY <4>1, <4>4
          <5> QED
            BY <4>2, <4>3, <4>4, <5>1 DEF RecovererHolds
        <4>5. CASE ~HasPayment(row[1])
          <5>1. rec'[r].pc = "markExpired" /\ rec'[r].row = row
            BY <4>1, <4>5
          <5> QED
            BY <4>2, <5>1 DEF RecovererHolds
        <4> QED
          BY <4>4, <4>5
      <3>6. CASE RevertToPending(r) \/ NotifyReconciled(r) \/ WriteStale(r)
        <4>1. \E pass \in {"stuck", "stale"} : Back(r, pass)
          BY <3>6 DEF RevertToPending, NotifyReconciled, WriteStale
        <4>2. rec'[r].pc \in {"stuck", "stale"}
          BY <2>c, <4>1
        <4> QED
          BY <4>2 DEF RecovererHolds
      <3>7. CASE Reconcile(r)
        <4>1. rec'[r].pc = "notify" /\ rec'[r].row = rec[r].row /\ rec[r].row \in payments'
          BY <3>7 DEF Reconcile, InsertPayment, TypeOK
        <4> QED
          BY <4>1 DEF RecovererHolds
      <3>8. CASE StartOrphans(r)
        <4>1. ASSUME NEW p \in payments PROVE status[p[1]] # "pending"
          <5>1. p[1] \in Sessions /\ p[2] \in Txs /\ p = <<p[1], p[2]>>
            BY DEF TypeOK
          <5>2. HasPayment(p[1])
            BY <5>1 DEF HasPayment
          <5> QED
            BY <5>1, <5>2 DEF RecordedIsClosed, Terminal
        <4>2. rec'[r].pc = "orphans" /\ rec'[r].todo = {}
          BY <3>8, <4>1 DEF StartOrphans, Begin, TypeOK
        <4> QED
          BY <4>2 DEF RecovererHolds
      <3>10. CASE FinishRecovery(r) \/ AbortRecovery(r)
        BY <3>10 DEF FinishRecovery, AbortRecovery, IdleRec, RecovererHolds, TypeOK
      <3>11. CASE FailRow(r)
        <4>1. rec'[r].pc = "stuck"
          BY <2>c, <3>11 DEF FailRow, TypeOK
        <4> QED
          BY <2>b, <4>1 DEF RecovererHolds
      <3> QED
        BY <1>3, <3>1, <3>2, <3>3, <3>5, <3>6, <3>7, <3>8, <3>10, <3>11
           DEF Recovery, RecoverRow
    <2> QED
      BY <1>d, <2>1, <2>2, <2>3, RecovererKeeps DEF WorkersHoldEvidence
<1>4. CASE \/ Tick \/ UNCHANGED vars
           \/ \E op \in Ops : Pay(op)
           \/ \E s \in Sessions : CreateSession(s)
           \/ \E q \in Requests : Checkout(q) \/ FailRequest(q)
    <2>1. UNCHANGED <<det, rec>>
      BY <1>4 DEF Tick, vars, Pay, CreateSession, Checkout, GetSession, CancelSession,
                  WriteRequest, FailRequest
    <2> QED
      BY <1>1, <2>1
<1> QED
    BY <1>2, <1>3, <1>4 DEF Next

(* Who may change the status of a session, and to what. *)
CheckedWrite(s) ==
    \/ status[s] = "none" /\ status'[s] = "pending"
    \/ status[s] = "pending" /\ status'[s] = "processing"
    \/ status[s] = "processing" /\ status'[s] = "pending" /\ s \in takenOver'

RequestWrite(q, s) == req[q] # NoRow /\ req[q][1] = s /\ status'[s] = req[q][2]

DetectorWrite(d, s) ==
    det[d].pc = "claimed" /\ det[d].row[1] = s /\ status'[s] = "paid" /\ det[d].row \in payments'

RecoveryWrite(r, s) ==
    \/ /\ rec[r].pc = "reconcile" /\ rec[r].row[1] = s
       /\ status'[s] = "paid" /\ rec[r].row \in payments'
    \/ rec[r].pc = "markPaid" /\ rec[r].row[1] = s /\ status'[s] = "paid"
    \/ rec[r].pc = "markExpired" /\ rec[r].row[1] = s /\ status'[s] = "expired"

LEMMA StatusWrites ==
    ASSUME TypeOK, [Next]_vars, NEW s \in Sessions, status'[s] # status[s]
    PROVE  \/ CheckedWrite(s)
           \/ \E q \in Requests : RequestWrite(q, s)
           \/ \E d \in Detectors : DetectorWrite(d, s)
           \/ \E r \in Recoverers : RecoveryWrite(r, s)
<1>s. ASSUME NEW x, NEW st, SetStatus(x, st) PROVE x = s /\ status'[s] = st
    BY <1>s DEF SetStatus, TypeOK
<1>1. ASSUME NEW x \in Sessions, CreateSession(x) PROVE CheckedWrite(s)
    BY <1>1, <1>s DEF CreateSession, CheckedWrite
<1>2. ASSUME NEW q \in Requests, Checkout(q) \/ FailRequest(q) PROVE RequestWrite(q, s)
    BY <1>2, <1>s DEF Checkout, GetSession, CancelSession, WriteRequest, FailRequest, db, RequestWrite
<1>3. ASSUME NEW d \in Detectors, Detector(d) \/ FailDetector(d)
      PROVE  CheckedWrite(s) \/ DetectorWrite(d, s)
    <2>1. ASSUME NEW op \in Ops, ClaimSession(d, op) PROVE CheckedWrite(s)
      BY <2>1, <1>s DEF ClaimSession, CheckedWrite
    <2>2. CASE Finalize(d)
      BY <2>2, <1>s DEF Finalize, InsertPayment, DetectorWrite
    <2> QED
      BY <1>3, <2>1, <2>2 DEF Detector, DispatchWebhook, FailDetector, db
<1>4. ASSUME NEW r \in Recoverers, Recovery(r) \/ FailRow(r) \/ AbortRecovery(r)
      PROVE  CheckedWrite(s) \/ RecoveryWrite(r, s)
    <2>1. CASE RevertToPending(r)
      BY <2>1, <1>s DEF RevertToPending, CheckedWrite
    <2>2. CASE Reconcile(r)
      BY <2>2, <1>s DEF Reconcile, InsertPayment, RecoveryWrite
    <2>4. CASE WriteStale(r)
      BY <2>4, <1>s DEF WriteStale, RecoveryWrite
    <2> QED
      BY <1>4, <2>1, <2>2, <2>4
         DEF Recovery, RecoverRow, StartRecovery, FindConfirmingPayment, NoConfirmingPayment,
             NotifyReconciled, StartOrphans, StartStale, ReadStale,
             FinishRecovery, FailRow, AbortRecovery, db
<1>5. CASE Tick \/ UNCHANGED vars \/ \E op \in Ops : Pay(op)
    BY <1>5 DEF Tick, vars, Pay, db
<1> QED
    BY <1>1, <1>2, <1>3, <1>4, <1>5 DEF Next

(* No write opens a closed session. *)
LEMMA ClosedStep ==
    ASSUME TypeOK, [Next]_vars, NEW s \in Sessions, status[s] \in Terminal
    PROVE  status'[s] \in Terminal
<1> USE DEF Terminal
<1>1. CASE status'[s] = status[s]
    BY <1>1
<1>2. ASSUME NEW q \in Requests, RequestWrite(q, s) PROVE status'[s] \in Terminal
    BY <1>2 DEF RequestWrite, TypeOK
<1>3. CASE status'[s] # status[s]
    BY <1>2, <1>3, StatusWrites DEF CheckedWrite, DetectorWrite, RecoveryWrite
<1> QED
    BY <1>1, <1>3

(* Every write of 'paid' finds the payment row in the table. *)
(* A handler commits itself to a write only after it has read a session    *)
(* that is open: where no writer is in flight, only an open session gets   *)
(* one.                                                                    *)
LEMMA NewWriters ==
    ASSUME TypeOK, [Next]_vars, NEW s \in Sessions, ~InFlight(s), InFlight(s)'
    PROVE  status[s] \in {"pending", "processing"}
<1> SUFFICES ASSUME status[s] \notin {"pending", "processing"} PROVE ~InFlight(s)'
    OBVIOUS
<1>a. status[s] \notin {"pending", "processing"} /\ ~InFlight(s)
    OBVIOUS
<1>2. ASSUME NEW q \in Requests, req'[q] # NoRow PROVE req'[q][1] # s
    <2>1. CASE req'[q] = req[q]
      BY <1>a, <1>2, <2>1 DEF InFlight
    <2>2. ASSUME req'[q] # req[q] PROVE \E x \in Sessions : status[x] = "pending" /\ req'[q][1] = x
      <3>1. PICK x \in Sessions, p \in Requests : GetSession(p, x) \/ CancelSession(p, x)
        BY <1>2, <2>2, RequestMoves DEF TypeOK
      <3> QED
        BY <2>2, <3>1 DEF GetSession, CancelSession, TypeOK
    <2> QED
      BY <1>a, <2>1, <2>2
<1>3. ASSUME NEW d \in Detectors, det'[d].pc = "claimed" PROVE det'[d].row[1] # s
    <2>1. CASE det'[d] = det[d]
      BY <1>a, <1>3, <2>1 DEF InFlight
    <2>2. ASSUME det'[d] # det[d] PROVE \E op \in Ops : ClaimSession(d, op)
      <3>1. PICK e \in Detectors : Detector(e) \/ FailDetector(e)
        BY <2>2, DetectorMoves
      <3>2. ASSUME Finalize(e) PROVE FALSE
        BY <1>3, <2>2, <3>2 DEF Finalize, TypeOK
      <3>3. ASSUME DispatchWebhook(e) \/ FailDetector(e) PROVE FALSE
        BY <1>3, <2>2, <3>3 DEF DispatchWebhook, FailDetector, IdleDet, TypeOK
      <3>4. PICK op \in Ops : ClaimSession(e, op)
        BY <3>1, <3>2, <3>3 DEF Detector
      <3>5. e = d
        BY <2>2, <3>4 DEF ClaimSession, TypeOK
      <3> QED
        BY <3>4, <3>5
    <2>3. ASSUME NEW op \in Ops, ClaimSession(d, op) PROVE det'[d].row[1] # s
      BY <1>a, <2>3 DEF ClaimSession, TypeOK
    <2> QED
      BY <2>1, <2>2, <2>3
<1>4. ASSUME NEW r \in Recoverers
      PROVE  /\ rec'[r].pc \in {"reconcile", "markPaid", "markExpired"} => rec'[r].row[1] # s
             /\ \A row \in rec'[r].todo : row[1] # s
    <2>a. /\ rec[r].pc \in {"reconcile", "markPaid", "markExpired"} => rec[r].row[1] # s
          /\ \A row \in rec[r].todo : row[1] # s
      BY <1>a DEF InFlight
    <2>1. CASE rec'[r] = rec[r]
      BY <2>a, <2>1
    <2>2. CASE StartRecovery(r)
      BY <1>a, <2>2 DEF StartRecovery, Begin, BareRows, TypeOK
    <2>3. ASSUME NEW row \in rec[r].todo, FindConfirmingPayment(r, row)
          PROVE  /\ rec'[r].row[1] = row[1]
                 /\ rec'[r].todo \subseteq rec[r].todo
      BY <2>3 DEF FindConfirmingPayment, TypeOK
    <2>4. ASSUME NEW row \in rec[r].todo,
                 NoConfirmingPayment(r, row) \/ ReadStale(r, row)
          PROVE  /\ rec'[r].row[1] = row[1]
                 /\ rec'[r].todo \subseteq rec[r].todo
      BY <2>4 DEF NoConfirmingPayment, ReadStale, Step, TypeOK
    <2>5. CASE RevertToPending(r) \/ NotifyReconciled(r) \/ WriteStale(r)
      <3>1. \E pass \in {"stuck", "stale"} : Back(r, pass)
        BY <2>5 DEF RevertToPending, NotifyReconciled, WriteStale
      <3>2. rec'[r].todo = rec[r].todo /\ rec'[r].pc \in {"stuck", "stale"}
        BY <3>1 DEF Back, TypeOK
      <3> QED
        BY <2>a, <3>2
    <2>6. CASE Reconcile(r)
      <3>1. rec'[r].todo = rec[r].todo /\ rec'[r].pc = "notify"
        BY <2>6 DEF Reconcile, TypeOK
      <3> QED
        BY <2>a, <3>1
    <2>7. CASE StartOrphans(r)
      BY <1>a, <2>7 DEF StartOrphans, Begin, TypeOK
    <2>8. CASE StartStale(r)
      BY <1>a, <2>8 DEF StartStale, Begin, BareRows, TypeOK
    <2>9. CASE FinishRecovery(r) \/ AbortRecovery(r)
      BY <2>9 DEF FinishRecovery, AbortRecovery, IdleRec, TypeOK
    <2>10. CASE FailRow(r)
      <3>1. ASSUME Back(r, "stuck")
            PROVE  rec'[r].todo = rec[r].todo /\ rec'[r].pc = "stuck"
        BY <3>1 DEF Back, TypeOK
      <3>2. ASSUME NEW row \in rec[r].todo, rec[r].pc = "stuck",
                   rec' = [rec EXCEPT ![r].todo = @ \ {row}]
            PROVE  rec'[r].todo \subseteq rec[r].todo /\ rec'[r].pc = "stuck"
        BY <3>2 DEF TypeOK
      <3> QED
        BY <2>10, <2>a, <3>1, <3>2 DEF FailRow
    <2>11. rec'[r] = rec[r] \/ Recovery(r) \/ FailRow(r) \/ AbortRecovery(r)
      BY RecovererMoves, RecovererMovesAlone
    <2> QED
      BY <2>a, <2>1, <2>2, <2>3, <2>4, <2>5, <2>6, <2>7, <2>8, <2>9, <2>10, <2>11
         DEF Recovery, RecoverRow
<1> QED
    BY <1>2, <1>3, <1>4 DEF InFlight

(* The session of a writer in flight exists. *)
LEMMA ExistStep ==
    ASSUME TypeOK, WritersHaveSessions, [Next]_vars
    PROVE  WritersHaveSessions'
<1> SUFFICES ASSUME NEW s \in Sessions, InFlight(s)' PROVE status'[s] # "none"
    BY DEF WritersHaveSessions
<1>1. status[s] # "none"
    BY NewWriters DEF WritersHaveSessions
<1>2. ASSUME NEW q \in Requests, RequestWrite(q, s) PROVE status'[s] # "none"
    BY <1>2 DEF RequestWrite, TypeOK
<1> QED
    BY <1>1, <1>2, StatusWrites DEF CheckedWrite, DetectorWrite, RecoveryWrite

LEMMA PaidStep == Inv /\ [Next]_vars => PaidHasPayment'
<1> SUFFICES ASSUME Inv, [Next]_vars, NEW s \in Sessions, status'[s] = "paid"
             PROVE  HasPayment(s)'
    BY DEF PaidHasPayment
<1> USE DEF Inv
<1>1. HasPayment(s) => HasPayment(s)'
    BY Growth DEF HasPayment
<1>2. CASE status[s] = "paid"
    BY <1>1, <1>2 DEF PaidHasPayment
<1>3. ASSUME NEW row \in payments', row[1] = s PROVE HasPayment(s)'
    <2>1. TypeOK'
      BY TypeStep
    <2>2. HasPayment(s)'
      <3>1. row[2] \in Txs /\ row = <<s, row[2]>>
        BY <1>3, <2>1 DEF TypeOK
      <3> QED
        BY <1>3, <3>1 DEF HasPayment
    <2> QED
      BY <2>2
<1>4. ASSUME status[s] # "paid" PROVE HasPayment(s)'
    <2>1. CASE CheckedWrite(s)
      BY <2>1 DEF CheckedWrite
    <2>2. ASSUME NEW q \in Requests, RequestWrite(q, s) PROVE FALSE
      BY <2>2 DEF RequestWrite, TypeOK
    <2>3. ASSUME NEW d \in Detectors, DetectorWrite(d, s) PROVE HasPayment(s)'
      BY <2>3, <1>3 DEF DetectorWrite
    <2>4. ASSUME NEW r \in Recoverers, RecoveryWrite(r, s) PROVE HasPayment(s)'
      <3>1. RecovererHolds(r)
        BY DEF WorkersHoldEvidence
      <3>2. payments \subseteq payments'
        BY Growth
      <3> QED
        BY <2>4, <3>1, <3>2, <1>1, <1>3 DEF RecoveryWrite, RecovererHolds
    <2> QED
      BY <1>4, <2>1, <2>2, <2>3, <2>4, StatusWrites
<1> QED
    BY <1>2, <1>4

(* The transaction that inserts a payment row writes 'paid'. *)
LEMMA InsertCloses ==
    ASSUME Inv, [Next]_vars, NEW p \in payments', p \notin payments
    PROVE  status'[p[1]] = "paid"
<1> USE DEF Inv
<1>1. ASSUME NEW row, row[1] \in Sessions, InsertPayment(row), SetStatus(row[1], "paid")
      PROVE  status'[p[1]] = "paid"
    BY <1>1 DEF InsertPayment, SetStatus, TypeOK
<1>2. ASSUME NEW d \in Detectors, Finalize(d) PROVE status'[p[1]] = "paid"
    <2>1. det[d].row[1] \in Sessions
      BY <1>2 DEF Finalize, WorkersHoldEvidence, DetectorHolds
    <2> QED
      BY <1>1, <1>2, <2>1 DEF Finalize
<1>3. ASSUME NEW r \in Recoverers, Reconcile(r) PROVE status'[p[1]] = "paid"
    <2>1. rec[r].row[1] \in Sessions
      BY <1>3 DEF Reconcile, WorkersHoldEvidence, RecovererHolds
    <2> QED
      BY <1>1, <1>3, <2>1 DEF Reconcile
<1>4. (\E d \in Detectors : Finalize(d)) \/ (\E r \in Recoverers : Reconcile(r))
    BY DEF Next, vars, db, Tick, Pay, CreateSession, Checkout, GetSession, CancelSession,
           WriteRequest, FailRequest, Detector, ClaimSession, DispatchWebhook,
           FailDetector, Recovery, RecoverRow, StartRecovery, FindConfirmingPayment,
           NoConfirmingPayment, RevertToPending, NotifyReconciled, StartOrphans,
           StartStale, ReadStale, WriteStale, FinishRecovery, FailRow, AbortRecovery
<1> QED
    BY <1>2, <1>3, <1>4

LEMMA RecordedStep == Inv /\ [Next]_vars => RecordedIsClosed'
<1> SUFFICES ASSUME Inv, [Next]_vars, NEW s \in Sessions, NEW t \in Txs, <<s, t>> \in payments'
             PROVE  status'[s] \in Terminal
    BY DEF RecordedIsClosed, HasPayment
<1>1. CASE <<s, t>> \in payments
    BY <1>1, ClosedStep DEF Inv, RecordedIsClosed, HasPayment
<1>2. CASE <<s, t>> \notin payments
    BY <1>2, InsertCloses DEF Terminal
<1> QED
    BY <1>1, <1>2

(* An event is handed over only by a worker that holds a recorded row, and *)
(* a row is inserted only by one that holds a row the ledger backs.        *)
LEMMA RecordStep == Inv /\ [Next]_vars => AnnouncedIsRecorded' /\ PaymentsAreReal'
<1> SUFFICES ASSUME Inv, [Next]_vars PROVE AnnouncedIsRecorded' /\ PaymentsAreReal'
    OBVIOUS
<1>g. payments \subseteq payments' /\ \A p : IsReal(p) => IsReal(p)'
    BY Growth DEF Inv
<1>1. ASSUME NEW p \in payments', p \notin payments PROVE IsReal(p)
    <2>1. \/ \E d \in Detectors : det[d].pc = "claimed" /\ p = det[d].row
          \/ \E r \in Recoverers : rec[r].pc = "reconcile" /\ p = rec[r].row
      BY <1>1 DEF Next, vars, db, Tick, Pay, CreateSession, Checkout, GetSession, CancelSession,
           WriteRequest, FailRequest, Detector, ClaimSession, Finalize, DispatchWebhook,
           FailDetector, Recovery, RecoverRow, StartRecovery, FindConfirmingPayment,
           NoConfirmingPayment, RevertToPending, Reconcile, NotifyReconciled, StartOrphans,
           StartStale, ReadStale, WriteStale, FinishRecovery,
           FailRow, AbortRecovery, InsertPayment
    <2> QED
      BY <2>1 DEF Inv, WorkersHoldEvidence, DetectorHolds, RecovererHolds
<1>2. ASSUME NEW p \in announced', p \notin announced PROVE p \in payments
    <2>1. \/ \E d \in Detectors : det[d].pc = "confirmed" /\ p = det[d].row
          \/ \E r \in Recoverers : rec[r].pc = "notify" /\ p = rec[r].row
      BY <1>2 DEF Next, vars, db, Tick, Pay, CreateSession, Checkout, GetSession, CancelSession,
           WriteRequest, FailRequest, Detector, ClaimSession, Finalize, DispatchWebhook,
           FailDetector, Recovery, RecoverRow, StartRecovery, FindConfirmingPayment,
           NoConfirmingPayment, RevertToPending, Reconcile, NotifyReconciled, StartOrphans,
           StartStale, ReadStale, WriteStale, FinishRecovery,
           FailRow, AbortRecovery
    <2> QED
      BY <2>1 DEF Inv, WorkersHoldEvidence, DetectorHolds, RecovererHolds
<1>3. AnnouncedIsRecorded'
    BY <1>g, <1>2 DEF Inv, AnnouncedIsRecorded
<1>4. PaymentsAreReal'
    BY <1>g, <1>1 DEF Inv, PaymentsAreReal
<1> QED
    BY <1>3, <1>4

(* Inv holds in every reachable state. *)
THEOREM Invariance == Spec => []Inv
<1>1. Inv /\ [Next]_vars => Inv'
    BY TypeStep, EvidenceStep, PaidStep, RecordedStep, RecordStep, ExistStep DEF Inv
<1> QED
    BY InitInv, <1>1, PTL DEF Spec

(* Every column and worker record stays in its type. *)
THEOREM Typing == Spec => []TypeOK
    BY Invariance, PTL DEF Inv

(* A paid session has a payment row: see PaidHasPayment. *)
THEOREM PaidIsBacked == Spec => []PaidHasPayment
    BY Invariance, PTL DEF Inv

(* payment.confirmed is only ever sent for a recorded payment: see         *)
(* AnnouncedIsRecorded.                                                    *)
THEOREM EventsAreBacked == Spec => []AnnouncedIsRecorded
    BY Invariance, PTL DEF Inv

(* A payment row is backed by a matching operation on the ledger: see      *)
(* PaymentsAreReal.                                                        *)
THEOREM PaymentsAreBacked == Spec => []PaymentsAreReal
    BY Invariance, PTL DEF Inv

(* A session with a payment row is closed: see RecordedIsClosed. *)
THEOREM RecordedStaysClosed == Spec => []RecordedIsClosed
    BY Invariance, PTL DEF Inv

(* A closed session is never opened again: see NotReopened. *)
THEOREM ClosedStaysClosed == Spec => NotReopened
<1>1. TypeOK /\ [Next]_vars
        => [\A s \in Sessions : status[s] \in Terminal => status'[s] \in Terminal]_vars
    BY ClosedStep
<1> QED
    BY Typing, <1>1, PTL DEF Spec, NotReopened

(* A settled session is written by nobody and gets no new writer. *)
LEMMA SettledStep ==
    ASSUME TypeOK, [Next]_vars, NEW s \in Sessions, Settled(s)
    PROVE  status'[s] = status[s] /\ Settled(s)'
<1>a. status[s] \in Terminal /\ ~InFlight(s)
    BY DEF Settled
<1>1. status'[s] = status[s]
    <2>1. ~CheckedWrite(s)
      BY <1>a DEF CheckedWrite, Terminal
    <2>2. \A q \in Requests : ~RequestWrite(q, s)
      BY <1>a DEF RequestWrite, InFlight
    <2>3. \A d \in Detectors : ~DetectorWrite(d, s)
      BY <1>a DEF DetectorWrite, InFlight
    <2>4. \A r \in Recoverers : ~RecoveryWrite(r, s)
      BY <1>a DEF RecoveryWrite, InFlight
    <2> QED
      BY <2>1, <2>2, <2>3, <2>4, StatusWrites
<1>2. ~InFlight(s)'
    BY <1>a, NewWriters DEF Terminal
<1> QED
    BY <1>a, <1>1, <1>2 DEF Settled

(* A settled session is final: see SettledIsFinal. *)
THEOREM SettledForever == Spec => SettledIsFinal
<1>1. TypeOK /\ [Next]_vars
        => [\A s \in Sessions : Settled(s) => status'[s] = status[s] /\ Settled(s)']_vars
    BY SettledStep
<1> QED
    BY Typing, <1>1, PTL DEF Spec, SettledIsFinal

-----------------------------------------------------------------------------
(* A claim no recovery run has taken over: its session is neither pending  *)
(* nor paid for, and it is the only one.                                   *)
Claims(d) == det[d].pc = "claimed" /\ det[d].row[1] \notin takenOver

ClaimInv ==
    /\ \A d \in Detectors : Claims(d) =>
          /\ status[det[d].row[1]] \notin {"none", "pending"}
          /\ \A p \in payments : p[1] # det[d].row[1]
    /\ ClaimIsExclusive
    /\ OnePaymentPerSession

(* Only a claim or a run of the recovery job brings a session that was     *)
(* once claimed back to where it can be claimed.                           *)
LEMMA ClaimStays ==
    ASSUME TypeOK, [Next]_vars, NEW s \in Sessions, s \notin takenOver',
           status[s] \notin {"none", "pending"}
    PROVE  status'[s] \notin {"none", "pending"}
<1>1. ASSUME NEW q \in Requests, RequestWrite(q, s) PROVE status'[s] \in {"expired", "cancelled"}
    BY <1>1 DEF RequestWrite, TypeOK
<1> QED
    BY <1>1, StatusWrites DEF CheckedWrite, DetectorWrite, RecoveryWrite

(* Steps that record no payment but those of a session taken over, and     *)
(* make no claim.                                                          *)
LEMMA OtherStep ==
    ASSUME Inv, ClaimInv, [Next]_vars, takenOver \subseteq takenOver',
           \A p \in payments' : p \in payments \/ p[1] \in takenOver',
           \A d \in Detectors : det'[d].pc = "claimed" => det'[d] = det[d]
    PROVE  ClaimInv'
<1>1. ASSUME NEW d \in Detectors, Claims(d)'
      PROVE  Claims(d) /\ det'[d] = det[d] /\ det[d].row[1] \in Sessions \ takenOver'
    BY <1>1 DEF Claims, Inv, WorkersHoldEvidence, DetectorHolds
<1>2. ASSUME NEW d \in Detectors, Claims(d)'
      PROVE  /\ status'[det'[d].row[1]] \notin {"none", "pending"}
             /\ \A p \in payments' : p[1] # det'[d].row[1]
    BY <1>1, <1>2, ClaimStays DEF ClaimInv, Inv
<1>3. ClaimIsExclusive'
    BY DEF ClaimIsExclusive, ClaimInv
<1>4. OnePaymentPerSession'
    BY DEF OnePaymentPerSession, ClaimInv
<1> QED
    BY <1>2, <1>3, <1>4 DEF ClaimInv

LEMMA ClaimStep ==
    ASSUME Inv, ClaimInv, [Next]_vars
    PROVE  ClaimInv'
<1> USE DEF Inv
<1>1. ASSUME NEW d \in Detectors, NEW op \in Ops, ClaimSession(d, op) PROVE ClaimInv'
    <2>1. /\ det' = [det EXCEPT ![d] = [pc |-> "claimed", row |-> <<op.memo, op.tx>>]]
          /\ UNCHANGED <<payments, takenOver>>
          /\ status[op.memo] = "pending" /\ op.memo \in Sessions
          /\ status' = [status EXCEPT ![op.memo] = "processing"]
      BY <1>1, OpsAssumption DEF ClaimSession, SetStatus
    <2>2. \A e \in Detectors : Claims(e) => det[e].row[1] # op.memo
      BY <2>1 DEF ClaimInv
    <2>3. \A p \in payments : p[1] # op.memo
      <3> SUFFICES ASSUME NEW p \in payments, p[1] = op.memo PROVE FALSE
        OBVIOUS
      <3>1. HasPayment(op.memo)
        <4>1. PICK t \in Txs : p = <<op.memo, t>>
          BY DEF TypeOK
        <4> QED
          BY <4>1 DEF HasPayment
      <3> QED
        BY <2>1, <3>1 DEF RecordedIsClosed, Terminal
    <2>4. \A e \in Detectors : e # d => det'[e] = det[e]
      BY <2>1 DEF TypeOK
    <2>5. det'[d].row[1] = op.memo /\ det'[d].pc = "claimed"
      BY <2>1 DEF TypeOK
    <2>6. ASSUME NEW e \in Detectors, Claims(e)'
          PROVE  /\ status'[det'[e].row[1]] \notin {"none", "pending"}
                 /\ \A p \in payments' : p[1] # det'[e].row[1]
      <3>1. CASE e = d
        BY <2>1, <2>3, <2>5, <3>1 DEF TypeOK
      <3>2. CASE e # d
        <4>1. Claims(e) /\ det'[e] = det[e] /\ det[e].row[1] \in Sessions \ takenOver'
          BY <2>1, <2>4, <2>6, <3>2 DEF Claims, WorkersHoldEvidence, DetectorHolds
        <4> QED
          BY <2>1, <4>1, ClaimStays DEF ClaimInv
      <3> QED
        BY <3>1, <3>2
    <2>7. ClaimIsExclusive'
      BY <2>1, <2>2, <2>4, <2>5 DEF ClaimIsExclusive, ClaimInv, Claims
    <2>8. OnePaymentPerSession'
      BY <2>1 DEF OnePaymentPerSession, ClaimInv
    <2> QED
      BY <2>6, <2>7, <2>8 DEF ClaimInv
<1>2. ASSUME NEW d \in Detectors, Finalize(d) PROVE ClaimInv'
    <2>1. /\ det[d].pc = "claimed" /\ det[d].row \in Sessions \X Txs
          /\ det' = [det EXCEPT ![d].pc = "confirmed"]
          /\ payments' = payments \cup {det[d].row}
          /\ UNCHANGED takenOver
      BY <1>2 DEF Finalize, InsertPayment, WorkersHoldEvidence, DetectorHolds
    <2>2. \A e \in Detectors : det'[e].pc = "claimed" => e # d /\ det'[e] = det[e]
      BY <2>1 DEF TypeOK
    <2>3. ASSUME NEW e \in Detectors, Claims(e)'
          PROVE  /\ status'[det'[e].row[1]] \notin {"none", "pending"}
                 /\ \A p \in payments' : p[1] # det'[e].row[1]
      <3>1. /\ e # d /\ Claims(e) /\ det'[e] = det[e]
            /\ det[e].row[1] \in Sessions \ takenOver'
        BY <2>1, <2>2, <2>3 DEF Claims, WorkersHoldEvidence, DetectorHolds
      <3>2. det[e].row[1] # det[d].row[1]
        BY <2>1, <3>1 DEF ClaimInv, ClaimIsExclusive, Claims
      <3> QED
        BY <2>1, <3>1, <3>2, ClaimStays DEF ClaimInv
    <2>4. OnePaymentPerSession'
      <3>1. det[d].row[1] \notin takenOver => \A p \in payments : p[1] # det[d].row[1]
        BY <2>1 DEF ClaimInv, Claims
      <3> QED
        BY <2>1, <3>1 DEF OnePaymentPerSession, ClaimInv
    <2>5. ClaimIsExclusive'
      BY <2>1, <2>2 DEF ClaimIsExclusive, ClaimInv
    <2> QED
      BY <2>3, <2>4, <2>5 DEF ClaimInv
<1>3. ASSUME NEW d \in Detectors, DispatchWebhook(d) \/ FailDetector(d)
      PROVE  ClaimInv'
    <2>1. /\ UNCHANGED <<payments, takenOver>>
          /\ \A e \in Detectors : det'[e].pc = "claimed" => det'[e] = det[e]
      BY <1>3 DEF DispatchWebhook, FailDetector, IdleDet, db, TypeOK
    <2> QED
      BY <2>1, OtherStep
<1>4. ASSUME NEW r \in Recoverers, Recovery(r) \/ FailRow(r) \/ AbortRecovery(r)
      PROVE  ClaimInv'
    <2>1. UNCHANGED det
      BY <1>4 DEF Recovery, RecoverRow, StartRecovery, FindConfirmingPayment, RevertToPending,
                  NoConfirmingPayment, Reconcile, NotifyReconciled, StartOrphans, StartStale,
                  ReadStale, WriteStale, FinishRecovery, FailRow, AbortRecovery
    <2>2. CASE Reconcile(r)
      BY <2>1, <2>2, OtherStep DEF Reconcile, InsertPayment
    <2>3. CASE RevertToPending(r)
      BY <2>1, <2>3, OtherStep DEF RevertToPending
    <2>4. CASE ~Reconcile(r) /\ ~RevertToPending(r)
      <3>1. UNCHANGED <<payments, takenOver>>
        BY <1>4, <2>4
           DEF Recovery, RecoverRow, StartRecovery, FindConfirmingPayment,
               NoConfirmingPayment, NotifyReconciled, StartOrphans, StartStale,
               ReadStale, WriteStale, FinishRecovery, FailRow, AbortRecovery, db
      <3> QED
        BY <2>1, <3>1, OtherStep
    <2> QED
      BY <2>2, <2>3, <2>4
<1>5. CASE \/ Tick \/ UNCHANGED vars
           \/ \E op \in Ops : Pay(op)
           \/ \E s \in Sessions : CreateSession(s)
           \/ \E q \in Requests : Checkout(q) \/ FailRequest(q)
    <2>1. UNCHANGED <<payments, takenOver, det>>
      BY <1>5 DEF Tick, vars, db, Pay, CreateSession, Checkout, GetSession, CancelSession,
                  WriteRequest, FailRequest
    <2> QED
      BY <2>1, OtherStep
<1> QED
    BY <1>1, <1>2, <1>3, <1>4, <1>5 DEF Next, Detector

(* Two processPayment calls never hold the same session and no session is  *)
(* confirmed twice, unless a recovery run has taken it over.               *)
THEOREM Exclusive == Spec => [](ClaimIsExclusive /\ OnePaymentPerSession)
<1>1. Init => ClaimInv
    BY DEF Init, IdleDet, ClaimInv, Claims, ClaimIsExclusive, OnePaymentPerSession
<1>2. Inv /\ ClaimInv /\ [Next]_vars => ClaimInv'
    BY ClaimStep
<1>3. ClaimInv => ClaimIsExclusive /\ OnePaymentPerSession
    BY DEF ClaimInv
<1> QED
    BY Invariance, <1>1, <1>2, <1>3, PTL DEF Spec

-----------------------------------------------------------------------------
(* The promise is kept: every step of SessionLifecycle is a step of        *)
(* CheckoutPromise, or changes nothing it speaks of.                       *)

(* How a new status shows in the view. *)
LEMMA ViewOf ==
    ASSUME TypeOK, NEW s \in Sessions, NEW st, SetStatus(s, st)
    PROVE  View' = [View EXCEPT ![s] =
               IF st \in {"pending", "processing"} THEN "open" ELSE st]
BY DEF View, SetStatus, TypeOK

LEMMA PromiseStep ==
    ASSUME Inv, [Next]_vars
    PROVE  [Promise!Next]_<<View, payments, announced>>
<1> USE DEF Inv
<1>1. ASSUME NEW s \in Sessions, CreateSession(s) PROVE Promise!Open(s)
    <2>1. View[s] = "none"
      BY <1>1 DEF CreateSession, View
    <2>2. View' = [View EXCEPT ![s] = "open"]
      BY <1>1, ViewOf DEF CreateSession
    <2> QED
      BY <1>1, <2>1, <2>2 DEF CreateSession, Promise!Open
<1>2. ASSUME NEW s \in Sessions, InFlight(s) PROVE View[s] # "none"
    BY <1>2 DEF View, WritersHaveSessions, TypeOK, Statuses
<1>3. ASSUME NEW s \in Sessions, NEW how \in Terminal, InFlight(s), SetStatus(s, how),
             how = "paid" => HasPayment(s), UNCHANGED <<payments, announced>>
      PROVE  Promise!Close(s, how)
    <2>1. View' = [View EXCEPT ![s] = how]
      BY <1>3, ViewOf DEF Terminal
    <2> QED
      BY <1>2, <1>3, <2>1 DEF Promise!Close, Promise!OnRecord, HasPayment
<1>4. ASSUME NEW s \in Sessions, NEW t \in Txs, InFlight(s), SetStatus(s, "paid"),
             InsertPayment(<<s, t>>), UNCHANGED announced
      PROVE  Promise!Confirm(s, t)
    <2>1. View' = [View EXCEPT ![s] = "paid"]
      BY <1>4, ViewOf
    <2> QED
      BY <1>2, <1>4, <2>1 DEF Promise!Confirm, InsertPayment
<1>5. ASSUME NEW row \in payments, announced' = announced \cup {row},
             UNCHANGED <<status, payments>>
      PROVE  \E s \in Sessions, t \in Txs : Promise!Tell(s, t)
    <2>1. PICK s \in Sessions, t \in Txs : row = <<s, t>>
      BY DEF TypeOK
    <2> QED
      BY <1>5, <2>1 DEF Promise!Tell, View
<1>6. ASSUME NEW s \in Sessions, status[s] \in {"pending", "processing"},
             NEW st \in {"pending", "processing"}, SetStatus(s, st)
      PROVE  UNCHANGED View
    <2>1. View' = [View EXCEPT ![s] = "open"]
      BY <1>6, ViewOf
    <2> QED
      BY <1>6, <2>1 DEF View
<1>7. ASSUME NEW q \in Requests, Checkout(q) \/ FailRequest(q)
      PROVE  [Promise!Next]_<<View, payments, announced>>
    <2>1. CASE WriteRequest(q)
      <3>1. PICK s \in Sessions, how \in {"expired", "cancelled"} : req[q] = <<s, how>>
        <4>1. req[q] \in Sessions \X {"expired", "cancelled"}
          BY <2>1 DEF WriteRequest, TypeOK
        <4> QED
          BY <4>1
      <3>2. InFlight(s) /\ SetStatus(s, how) /\ UNCHANGED <<payments, announced>>
        <4>1. req[q] # NoRow /\ req[q][1] = s /\ req[q][2] = how
          BY <2>1, <3>1 DEF WriteRequest
        <4>2. InFlight(s)
          BY <4>1 DEF InFlight
        <4> QED
          BY <2>1, <4>1, <4>2 DEF WriteRequest
      <3>3. Promise!Close(s, how)
        BY <1>3, <3>2 DEF Terminal
      <3> QED
        BY <3>3 DEF Promise!Next
    <2>2. CASE ~WriteRequest(q)
      BY <1>7, <2>2 DEF Checkout, GetSession, CancelSession, FailRequest, db, View
    <2> QED
      BY <2>1, <2>2
<1>8. ASSUME NEW d \in Detectors, Detector(d) \/ FailDetector(d)
      PROVE  [Promise!Next]_<<View, payments, announced>>
    <2>1. ASSUME NEW op \in Ops, ClaimSession(d, op) PROVE UNCHANGED <<View, payments, announced>>
      BY <1>6, <2>1, OpsAssumption DEF ClaimSession
    <2>2. CASE Finalize(d)
      <3>1. PICK s \in Sessions, t \in Txs : det[d].row = <<s, t>>
        BY <2>2 DEF Finalize, WorkersHoldEvidence, DetectorHolds
      <3>2. InFlight(s)
        BY <2>2, <3>1 DEF Finalize, InFlight
      <3>3. Promise!Confirm(s, t)
        BY <1>4, <2>2, <3>1, <3>2 DEF Finalize
      <3> QED
        BY <3>3 DEF Promise!Next
    <2>3. CASE DispatchWebhook(d)
      <3>1. \E s \in Sessions, t \in Txs : Promise!Tell(s, t)
        BY <1>5, <2>3 DEF DispatchWebhook, db, WorkersHoldEvidence, DetectorHolds
      <3> QED
        BY <3>1 DEF Promise!Next
    <2>4. CASE FailDetector(d)
      BY <2>4 DEF FailDetector, db, View
    <2> QED
      BY <1>8, <2>1, <2>2, <2>3, <2>4 DEF Detector
<1>9. ASSUME NEW r \in Recoverers, Recovery(r) \/ FailRow(r) \/ AbortRecovery(r)
      PROVE  [Promise!Next]_<<View, payments, announced>>
    <2>1. CASE RevertToPending(r)
      <3>1. rec[r].row[1] \in Sessions
        BY <2>1 DEF RevertToPending, WorkersHoldEvidence, RecovererHolds, Rows
      <3>2. UNCHANGED <<payments, announced>>
        BY <2>1 DEF RevertToPending
      <3>3. CASE status[rec[r].row[1]] = "processing"
        BY <1>6, <2>1, <3>1, <3>2, <3>3 DEF RevertToPending
      <3>4. CASE status[rec[r].row[1]] # "processing"
        BY <2>1, <3>2, <3>4 DEF RevertToPending, View
      <3> QED
        BY <3>3, <3>4
    <2>2. CASE Reconcile(r)
      <3>1. PICK s \in Sessions, t \in Txs : rec[r].row = <<s, t>>
        BY <2>2 DEF Reconcile, WorkersHoldEvidence, RecovererHolds
      <3>2. InFlight(s)
        BY <2>2, <3>1 DEF Reconcile, InFlight
      <3>3. Promise!Confirm(s, t)
        BY <1>4, <2>2, <3>1, <3>2 DEF Reconcile
      <3> QED
        BY <3>3 DEF Promise!Next
    <2>3. CASE NotifyReconciled(r)
      <3>1. \E s \in Sessions, t \in Txs : Promise!Tell(s, t)
        BY <1>5, <2>3 DEF NotifyReconciled, db, WorkersHoldEvidence, RecovererHolds
      <3> QED
        BY <3>1 DEF Promise!Next
    <2>4. CASE WriteStale(r)
      <3>1. rec[r].pc \in {"markPaid", "markExpired"} /\ rec[r].row[1] \in Sessions
        BY <2>4 DEF WriteStale, WorkersHoldEvidence, RecovererHolds, Rows
      <3>2. InFlight(rec[r].row[1]) /\ UNCHANGED <<payments, announced>>
        BY <2>4, <3>1 DEF WriteStale, InFlight
      <3>3. \E how \in {"paid", "expired"} : Promise!Close(rec[r].row[1], how)
        BY <1>3, <2>4, <3>1, <3>2 DEF WriteStale, Terminal, WorkersHoldEvidence, RecovererHolds
      <3> QED
        BY <3>1, <3>3 DEF Promise!Next
    <2> QED
      BY <1>9, <2>1, <2>2, <2>3, <2>4
         DEF Recovery, RecoverRow, StartRecovery, FindConfirmingPayment, NoConfirmingPayment,
             StartOrphans, StartStale, ReadStale, FinishRecovery, FailRow, AbortRecovery,
             db, View
<1>10. CASE Tick \/ UNCHANGED vars \/ \E op \in Ops : Pay(op)
    BY <1>10 DEF Tick, vars, Pay, db, View
<1> QED
    BY <1>1, <1>7, <1>8, <1>9, <1>10 DEF Next, Promise!Next

(* SessionLifecycle implements CheckoutPromise: see KeepsPromise. *)
THEOREM Implementation == Spec => KeepsPromise
<1>1. Init => Promise!Init
    BY DEF Init, Promise!Init, View
<1>2. Inv /\ [Next]_vars => [Promise!Next]_<<View, payments, announced>>
    BY PromiseStep
<1> QED
    BY Invariance, <1>1, <1>2, PTL DEF Spec, KeepsPromise, Promise!Spec, Promise!promised

=============================================================================
