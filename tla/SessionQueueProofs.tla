-------------------------- MODULE SessionQueueProofs --------------------------
(* From the payment to the merchant's endpoint, for any number of          *)
(* sessions, payments, handlers, processes, deliveries and faults.         *)
EXTENDS SessionQueue, TLAPS

-----------------------------------------------------------------------------
(* The invariant. *)

Payment == Sessions \X Txs

DetType == [pc : {"idle", "claimed", "confirmed"}, row : Payment \cup {S!NoRow}]
RecType == [pc : S!RecStates, todo : SUBSET S!Rows, row : S!Rows \cup {S!NoRow}]

SessionTypes ==
    /\ status \in [Sessions -> S!Statuses]
    /\ ledger \in Seq(Ops)
    /\ takenOver \subseteq Sessions /\ payments \subseteq Payment
    /\ det \in [Detectors -> DetType] /\ rec \in [Recoverers -> RecType]

Exists(s) == status[s] # "none"

DetInv(d) ==
    /\ det[d].pc # "idle" => det[d].row \in Payment /\ Exists(det[d].row[1])
    /\ det[d].pc = "confirmed" => det[d].row \in payments

RecInv(r) ==
    /\ rec[r].pc \in {"revert", "reconcile", "markPaid", "markExpired"} =>
          rec[r].row \in S!Rows /\ Exists(rec[r].row[1])
    /\ rec[r].pc = "reconcile" => rec[r].row \in Payment
    /\ rec[r].pc = "markPaid" => S!HasPayment(rec[r].row[1])
    /\ rec[r].pc = "notify" => rec[r].row \in payments /\ rec[r].row[1] \in takenOver
    /\ \A row \in rec[r].todo : Exists(row[1])

(* What a claim means while no recovery run has taken it over. *)
ClaimInv(d) ==
    det[d].pc = "claimed" /\ det[d].row[1] \notin takenOver =>
        /\ status[det[d].row[1]] \notin {"none", "pending"}
        /\ \A p \in payments : p[1] # det[d].row[1]

(* Two detectors are at work on one session only if a recovery run has     *)
(* taken the session over.                                                 *)
ApartInv(d, e) ==
    det[d].pc # "idle" /\ det[e].pc # "idle" /\ d # e /\ det[d].row[1] = det[e].row[1]
        => det[d].row[1] \in takenOver

SessionInv ==
    /\ SessionTypes
    /\ S!RecordedIsClosed
    /\ \A d \in Detectors : DetInv(d) /\ ClaimInv(d)
    /\ \A d, e \in Detectors : ApartInv(d, e)
    /\ \A r \in Recoverers : RecInv(r)

(* The queue works for deliveries that have been enqueued, and for no other. *)
Known(i) == enq[i].pc # "new"

EnqFields   == {"pc", "by", "session", "seq", "of", "after"}
TickFields  == {"pc", "room", "due", "job", "picks"}
RecovFields == {"pc", "todo", "job"}

(* The variables the handlers index are arrays, and records. *)
Shapes ==
    /\ DOMAIN rows = Ids /\ DOMAIN scheduled = Ids /\ DOMAIN enq = Ids
    /\ DOMAIN tick = Workers /\ DOMAIN proc = Workers /\ DOMAIN recov = Workers
    /\ \A i \in Ids : DOMAIN enq[i] = EnqFields
    /\ \A w \in Workers :
          DOMAIN tick[w] = TickFields /\ DOMAIN proc[w] = Ids /\ DOMAIN recov[w] = RecovFields

TickInv(w) ==
    /\ tick[w].due \subseteq Ids /\ \A i \in tick[w].due : Known(i)
    /\ tick[w].pc \in {"read", "drop", "head"} => tick[w].job[1] \in Ids /\ Known(tick[w].job[1])
    /\ \A job \in tick[w].picks : job[1] \in Ids /\ Known(job[1])

RecovInv(w) ==
    /\ \A job \in recov[w].todo : job[1] \in Ids /\ Known(job[1])
    /\ recov[w].pc \in {"write", "join", "schedule"} =>
          recov[w].job[1] \in Ids /\ Known(recov[w].job[1])

QueueInv ==
    /\ Shapes
    /\ acked \subseteq Ids
    /\ \A i \in Ids : Q!Stored(i) \/ scheduled[i] # "no" \/ i \in acked => Known(i)
    /\ \A w \in Workers : TickInv(w) /\ RecovInv(w)
    /\ \A w \in Workers, i \in Ids : Q!Active(w, i) => Known(i)

(* An event announces a payment on record, and its call of enqueue runs in *)
(* the process of its caller.                                              *)
EventType == [row : Payment \cup {S!NoRow}, by : Callers \cup {Nothing}]

EventOf(i) ==
    /\ Known(i) <=> event[i].by # Nothing
    /\ Known(i) => event[i].row \in payments /\ enq[i].by = Home[event[i].by]

(* While a detector is about to announce its payment, there is no event of *)
(* the session but the one it is waiting for.                              *)
AnnounceInv(d) ==
    det[d].pc = "confirmed" /\ det[d].row[1] \notin takenOver =>
        \A i \in Ids : Known(i) /\ event[i].row[1] = det[d].row[1] =>
            event[i].by = d /\ Q!Enqueueing(i)

EventInv ==
    /\ event \in [Ids -> EventType]
    /\ \A i \in Ids : EventOf(i)
    /\ \A d \in Detectors : AnnounceInv(d)
    /\ OneEventPerSession

Inv == SessionInv /\ QueueInv /\ EventInv

-----------------------------------------------------------------------------
(* The composition takes steps of its components: of the sessions' one     *)
(* step, or a crash, which stops several handlers at once.                 *)
LEMMA SessionSteps ==
    ASSUME [Next]_vars
    PROVE  [S!Next]_(S!vars) \/ \E w \in Workers : Crash(w)
<1>1. CASE World
    BY <1>1 DEF World, S!Next
<1>2. CASE FailHandler
    BY <1>2 DEF FailHandler, S!Next
<1>3. ASSUME NEW d \in Detectors, Detect(d) PROVE S!Next
    BY <1>3 DEF Detect, S!Next, S!Detector
<1>4. ASSUME NEW r \in Recoverers, Recover(r) PROVE S!Next
    BY <1>4 DEF Recover, S!Next
<1>5. ASSUME NEW c, Answered(c) PROVE S!Next
    BY <1>5 DEF Answered, S!Next, S!Detector, S!Recovery
<1>6. ASSUME NEW c \in Callers, DispatchNothing(c) PROVE S!Next
    BY <1>5, <1>6 DEF DispatchNothing
<1>7. ASSUME NEW i \in Ids, Dispatched(i) PROVE S!Next
    BY <1>5, <1>7 DEF Dispatched
<1>8. ASSUME NEW i \in Ids, FailDispatch(i) PROVE S!Next
    BY <1>8 DEF FailDispatch, S!Next
<1>9. ASSUME UNCHANGED sessionVars PROVE UNCHANGED S!vars
    BY <1>9 DEF sessionVars, S!vars
<1> QED
    BY <1>1, <1>2, <1>3, <1>4, <1>6, <1>7, <1>8, <1>9
       DEF Next, vars, DispatchBy, Dispatch, Call, EnqueueStep, Start, Pass, Sweep, Process,
           QueueStep, sessionVars

-----------------------------------------------------------------------------
(* What a step may do to the status of a session and to the payments.      *)

SetTo(s, st) == status' = [status EXCEPT ![s] = st]

Opens(s) == status[s] = "none" /\ SetTo(s, "pending") /\ UNCHANGED <<payments, takenOver>>

Claims(s) == status[s] = "pending" /\ SetTo(s, "processing") /\ UNCHANGED <<payments, takenOver>>

GivesBack(s) ==
    /\ status[s] = "processing" /\ SetTo(s, "pending")
    /\ takenOver' = takenOver \cup {s} /\ UNCHANGED payments

Records(s, t) ==
    /\ Exists(s) /\ SetTo(s, "paid")
    /\ payments' = payments \cup {<<s, t>>}
    /\ takenOver' \in {takenOver, takenOver \cup {s}}

Closes(s, how) ==
    /\ Exists(s) /\ (how = "paid" => S!HasPayment(s)) /\ SetTo(s, how)
    /\ UNCHANGED <<payments, takenOver>>

Write ==
    \E s \in Sessions :
        \/ Opens(s) \/ Claims(s) \/ GivesBack(s)
        \/ \E t \in Txs : Records(s, t)
        \/ \E how \in {"paid", "expired"} : Closes(s, how)

Reads == UNCHANGED <<status, payments, takenOver>>

LEMMA WriteStep ==
    ASSUME SessionInv, [Next]_vars
    PROVE  Write \/ Reads
<1> USE DEF Write, Reads, S!SetStatus, SetTo
<1>1. CASE S!Tick \/ UNCHANGED S!vars \/ \E op \in Ops : S!Pay(op)
    BY <1>1 DEF S!Tick, S!vars, S!Pay, S!db
<1>2. ASSUME NEW s \in Sessions, S!CreateSession(s) PROVE Write
    BY <1>2 DEF S!CreateSession, Opens
<1>3. ASSUME NEW d \in Detectors, S!Detector(d) \/ S!FailDetector(d) PROVE Write \/ Reads
    <2>1. ASSUME NEW op \in Ops, S!ClaimSession(d, op) PROVE Write
        BY <2>1, PaidAssumption DEF S!ClaimSession, Claims
    <2>2. CASE S!Finalize(d)
        <3>1. PICK s \in Sessions, t \in Txs : det[d].row = <<s, t>> /\ Exists(s)
            BY <2>2 DEF S!Finalize, SessionInv, DetInv, Payment
        <3>2. Records(s, t)
            BY <2>2, <3>1 DEF S!Finalize, S!InsertPayment, Records
        <3> QED
            BY <3>2
    <2> QED
        BY <1>3, <2>1, <2>2 DEF S!Detector, S!DispatchWebhook, S!FailDetector, S!db
<1>4. ASSUME NEW r \in Recoverers, S!Recovery(r) \/ S!FailRow(r) \/ S!AbortRecovery(r)
      PROVE  Write \/ Reads
    <2>1. CASE S!RevertToPending(r)
        <3>1. rec[r].row[1] \in Sessions
            BY <2>1 DEF S!RevertToPending, SessionInv, RecInv, S!Rows
        <3> QED
            BY <2>1, <3>1 DEF S!RevertToPending, GivesBack
    <2>2. CASE S!Reconcile(r)
        <3>1. PICK s \in Sessions, t \in Txs : rec[r].row = <<s, t>> /\ Exists(s)
            BY <2>2 DEF S!Reconcile, SessionInv, RecInv, Payment
        <3>2. Records(s, t)
            BY <2>2, <3>1 DEF S!Reconcile, S!InsertPayment, Records
        <3> QED
            BY <3>2
    <2>3. CASE S!WriteStale(r)
        <3>1. rec[r].row[1] \in Sessions /\ Exists(rec[r].row[1])
              /\ (rec[r].pc = "markPaid" => S!HasPayment(rec[r].row[1]))
            BY <2>3 DEF S!WriteStale, SessionInv, RecInv, S!Rows
        <3>2. \E how \in {"paid", "expired"} : Closes(rec[r].row[1], how)
            BY <2>3, <3>1 DEF S!WriteStale, Closes
        <3> QED
            BY <3>1, <3>2
    <2> QED
        BY <1>4, <2>1, <2>2, <2>3
           DEF S!Recovery, S!RecoverRow, S!StartRecovery, S!FindConfirmingPayment,
               S!NoConfirmingPayment, S!NotifyReconciled, S!StartOrphans, S!StartStale,
               S!ReadStale, S!FinishRecovery, S!FailRow, S!AbortRecovery, S!db
<1>5. CASE \E w \in Workers : Crash(w)
    BY <1>5 DEF Crash
<1> QED
    BY <1>1, <1>2, <1>3, <1>4, <1>5, SessionSteps DEF S!Next

(* What every such write leaves: sessions stay, and stay closed, payments  *)
(* stay, and a payment closes its session.                                 *)
LEMMA Writes ==
    ASSUME SessionInv, Write \/ Reads
    PROVE  /\ status' \in [Sessions -> S!Statuses]
           /\ takenOver' \subseteq Sessions /\ payments' \subseteq Payment
           /\ payments \subseteq payments' /\ takenOver \subseteq takenOver'
           /\ \A s \in Sessions : Exists(s) => Exists(s)'
           /\ S!RecordedIsClosed'
           /\ \A s \in Sessions \ takenOver' :
                 status[s] \notin {"none", "pending"} => status'[s] \notin {"none", "pending"}
<1> USE DEF SessionInv, SessionTypes, Exists
<1>1. CASE Reads
    BY <1>1 DEF Reads, S!RecordedIsClosed, S!HasPayment
<1>2. ASSUME NEW s \in Sessions, NEW st \in S!Statuses \ {"none"}, SetTo(s, st)
      PROVE  /\ status' \in [Sessions -> S!Statuses]
             /\ \A x \in Sessions : Exists(x) => Exists(x)'
             /\ status'[s] = st /\ \A x \in Sessions : x # s => status'[x] = status[x]
    BY <1>2 DEF SetTo
<1>3. ASSUME NEW s \in Sessions, Opens(s) \/ Claims(s) \/ GivesBack(s)
      PROVE  ~S!HasPayment(s)
    BY <1>3 DEF Opens, Claims, GivesBack, S!RecordedIsClosed, S!Terminal
<1>4. ASSUME NEW s \in Sessions, ~S!HasPayment(s), UNCHANGED payments,
             \A x \in Sessions : x # s => status'[x] = status[x]
      PROVE  S!RecordedIsClosed'
    BY <1>4 DEF S!RecordedIsClosed, S!HasPayment
<1>5. ASSUME NEW s \in Sessions, status'[s] \in S!Terminal,
             \A p \in payments' : p \in payments \/ p[1] = s,
             \A x \in Sessions : x # s => status'[x] = status[x]
      PROVE  S!RecordedIsClosed'
    BY <1>5 DEF S!RecordedIsClosed, S!HasPayment
<1>6. ASSUME NEW s \in Sessions, Opens(s) \/ Claims(s) \/ GivesBack(s)
      PROVE  \E st \in {"pending", "processing"} : SetTo(s, st)
    BY <1>6 DEF Opens, Claims, GivesBack
<1>7. {"pending", "processing", "paid", "expired"} \subseteq S!Statuses \ {"none"}
    BY DEF S!Statuses
<1>8. ASSUME NEW s \in Sessions, Opens(s) \/ Claims(s) \/ GivesBack(s)
      PROVE  /\ takenOver' \subseteq Sessions /\ payments' = payments
             /\ takenOver \subseteq takenOver'
             /\ \A x \in Sessions \ takenOver' :
                   status[x] \notin {"none", "pending"} => status'[x] \notin {"none", "pending"}
    <2>1. \A x \in Sessions : x # s => status'[x] = status[x]
        BY <1>2, <1>6, <1>7, <1>8
    <2>2. CASE Opens(s) \/ Claims(s)
        BY <2>1, <2>2 DEF Opens, Claims
    <2>3. CASE GivesBack(s)
        BY <2>1, <2>3 DEF GivesBack
    <2> QED
        BY <1>8, <2>2, <2>3
<1>9. ASSUME NEW s \in Sessions, NEW t \in Txs, Records(s, t)
      PROVE  /\ takenOver' \subseteq Sessions /\ payments' \subseteq Payment
             /\ payments \subseteq payments' /\ takenOver \subseteq takenOver'
             /\ SetTo(s, "paid") /\ \A p \in payments' : p \in payments \/ p[1] = s
    BY <1>9 DEF Records, Payment
<1>10. ASSUME NEW s \in Sessions, NEW how \in {"paid", "expired"}, Closes(s, how)
       PROVE  SetTo(s, how) /\ UNCHANGED <<payments, takenOver>>
    BY <1>10 DEF Closes
<1>11. CASE \E s \in Sessions : Opens(s) \/ Claims(s) \/ GivesBack(s)
    <2>1. PICK s \in Sessions : Opens(s) \/ Claims(s) \/ GivesBack(s)
        BY <1>11
    <2>2. PICK st \in {"pending", "processing"} : SetTo(s, st)
        BY <1>6, <2>1
    <2>3. /\ status' \in [Sessions -> S!Statuses]
          /\ \A x \in Sessions : Exists(x) => Exists(x)'
          /\ \A x \in Sessions : x # s => status'[x] = status[x]
        BY <1>2, <1>7, <2>2
    <2>4. S!RecordedIsClosed'
        BY <1>3, <1>4, <1>8, <2>1, <2>3
    <2> QED
        BY <1>8, <2>1, <2>3, <2>4
<1>12. CASE \E s \in Sessions : \/ \E t \in Txs : Records(s, t)
                                \/ \E how \in {"paid", "expired"} : Closes(s, how)
    <2>1. PICK s \in Sessions : \/ \E t \in Txs : Records(s, t)
                                \/ \E how \in {"paid", "expired"} : Closes(s, how)
        BY <1>12
    <2>2. PICK st \in {"paid", "expired"} : SetTo(s, st)
        BY <1>9, <1>10, <2>1
    <2>3. /\ status' \in [Sessions -> S!Statuses]
          /\ \A x \in Sessions : Exists(x) => Exists(x)'
          /\ status'[s] = st /\ \A x \in Sessions : x # s => status'[x] = status[x]
        BY <1>2, <1>7, <2>2
    <2>4. /\ takenOver' \subseteq Sessions /\ payments' \subseteq Payment
          /\ payments \subseteq payments' /\ takenOver \subseteq takenOver'
          /\ \A p \in payments' : p \in payments \/ p[1] = s
        BY <1>9, <1>10, <2>1
    <2>5. S!RecordedIsClosed'
        BY <1>5, <2>3, <2>4 DEF S!Terminal
    <2> QED
        BY <2>3, <2>4, <2>5
<1> QED
    BY <1>1, <1>11, <1>12 DEF Write

-----------------------------------------------------------------------------
(* What a step may do to the detectors: stop them, or let one of them      *)
(* claim a session or confirm the payment it has claimed it for.           *)

DetRest ==
    /\ \A d \in Detectors : det'[d] \in {det[d], S!IdleDet}
    /\ \A p \in payments' : p \in payments \/ p[1] \in takenOver'

DetClaims(d) ==
    \E op \in Ops :
        /\ det[d].pc = "idle" /\ Claims(op.memo)
        /\ det'[d] = [pc |-> "claimed", row |-> <<op.memo, op.tx>>]

DetConfirms(d) ==
    /\ det[d].pc = "claimed" /\ det'[d] = [pc |-> "confirmed", row |-> det[d].row]
    /\ payments' = payments \cup {det[d].row} /\ UNCHANGED takenOver

DetMoves ==
    /\ det' \in [Detectors -> DetType]
    /\ \/ DetRest
       \/ \E d \in Detectors :
             /\ DetClaims(d) \/ DetConfirms(d)
             /\ \A e \in Detectors : e # d => det'[e] = det[e]

LEMMA DetStep ==
    ASSUME SessionInv, [Next]_vars
    PROVE  DetMoves
<1> USE DEF SessionInv, SessionTypes
<1>i. S!IdleDet \in DetType
    BY DEF DetType, S!IdleDet
<1>1. ASSUME UNCHANGED det,
             Reads \/ \E r \in Recoverers : S!Recovery(r)
      PROVE  DetMoves
    <2>1. CASE Reads
        BY <1>1, <2>1 DEF DetMoves, DetRest, Reads
    <2>2. ASSUME NEW r \in Recoverers, S!Recovery(r)
          PROVE  \A p \in payments' : p \in payments \/ p[1] \in takenOver'
        BY <2>2 DEF S!Recovery, S!RecoverRow, S!StartRecovery, S!FindConfirmingPayment,
               S!NoConfirmingPayment, S!NotifyReconciled, S!StartOrphans, S!StartStale,
               S!ReadStale, S!FinishRecovery, S!RevertToPending, S!Reconcile, S!WriteStale,
               S!InsertPayment, S!db
    <2> QED
        BY <1>1, <2>1, <2>2 DEF DetMoves, DetRest
<1>2. CASE S!Tick \/ UNCHANGED S!vars \/ \E op \in Ops : S!Pay(op)
    BY <1>1, <1>2 DEF S!Tick, S!vars, S!Pay, S!db, Reads
<1>3. ASSUME NEW s \in Sessions, S!CreateSession(s) PROVE DetMoves
    BY <1>3 DEF S!CreateSession, DetMoves, DetRest
<1>4. ASSUME NEW d \in Detectors, S!Detector(d) \/ S!FailDetector(d) PROVE DetMoves
    <2>1. ASSUME NEW op \in Ops, S!ClaimSession(d, op) PROVE DetMoves
        <3>1. /\ det' = [det EXCEPT ![d] = [pc |-> "claimed", row |-> <<op.memo, op.tx>>]]
              /\ det[d].pc = "idle" /\ Claims(op.memo)
            BY <2>1 DEF S!ClaimSession, S!SetStatus, Claims, SetTo
        <3>2. [pc |-> "claimed", row |-> <<op.memo, op.tx>>] \in DetType
            BY PaidAssumption DEF DetType, Payment
        <3>3. DetClaims(d)
            BY <3>1 DEF DetClaims
        <3> QED
            BY <3>1, <3>2, <3>3 DEF DetMoves
    <2>2. CASE S!Finalize(d)
        <3>1. /\ det' = [det EXCEPT ![d].pc = "confirmed"] /\ det[d].pc = "claimed"
              /\ payments' = payments \cup {det[d].row} /\ UNCHANGED takenOver
            BY <2>2 DEF S!Finalize, S!InsertPayment
        <3>2. det'[d] = [pc |-> "confirmed", row |-> det[d].row] /\ det'[d] \in DetType
            BY <3>1 DEF DetType
        <3>3. DetConfirms(d)
            BY <3>1, <3>2 DEF DetConfirms
        <3>4. det' \in [Detectors -> DetType] /\ \A e \in Detectors : e # d => det'[e] = det[e]
            BY <3>1, <3>2
        <3> QED
            BY <3>3, <3>4 DEF DetMoves
    <2>3. CASE S!DispatchWebhook(d) \/ S!FailDetector(d)
        <3>1. det' = [det EXCEPT ![d] = S!IdleDet] /\ UNCHANGED <<payments, takenOver>>
            BY <2>3 DEF S!DispatchWebhook, S!FailDetector, S!db
        <3> QED
            BY <1>i, <3>1 DEF DetMoves, DetRest
    <2> QED
        BY <1>4, <2>1, <2>2, <2>3 DEF S!Detector
<1>5. ASSUME NEW r \in Recoverers, S!Recovery(r) \/ S!FailRow(r) \/ S!AbortRecovery(r)
      PROVE  DetMoves
    <2>1. UNCHANGED det
        BY <1>5 DEF S!Recovery, S!RecoverRow, S!StartRecovery, S!FindConfirmingPayment,
               S!NoConfirmingPayment, S!NotifyReconciled, S!StartOrphans, S!StartStale,
               S!ReadStale, S!FinishRecovery, S!RevertToPending, S!Reconcile, S!WriteStale,
               S!FailRow, S!AbortRecovery
    <2>2. S!Recovery(r) \/ Reads
        BY <1>5 DEF S!FailRow, S!AbortRecovery, S!db, Reads
    <2> QED
        BY <1>1, <2>1, <2>2
<1>6. CASE \E w \in Workers : Crash(w)
    <2>1. /\ det' = [d \in Detectors |-> det'[d]] /\ UNCHANGED <<payments, takenOver>>
          /\ \A d \in Detectors : det'[d] \in {det[d], S!IdleDet}
        BY <1>6 DEF Crash
    <2>2. det' \in [Detectors -> DetType]
        BY <1>i, <2>1
    <2> QED
        BY <2>1, <2>2 DEF DetMoves, DetRest
<1> QED
    BY <1>2, <1>3, <1>4, <1>5, <1>6, SessionSteps DEF S!Next

(* Claims stay exclusive, and a confirmed payment is on record. *)
LEMMA DetectorsKeep ==
    ASSUME SessionInv, DetMoves, Write \/ Reads
    PROVE  /\ \A d \in Detectors : DetInv(d)' /\ ClaimInv(d)'
           /\ \A d, e \in Detectors : ApartInv(d, e)'
<1> USE DEF SessionInv, SessionTypes
<1>w. /\ takenOver' \subseteq Sessions /\ payments' \subseteq Payment
      /\ payments \subseteq payments' /\ takenOver \subseteq takenOver'
      /\ \A s \in Sessions : Exists(s) => Exists(s)'
      /\ \A s \in Sessions \ takenOver' :
            status[s] \notin {"none", "pending"} => status'[s] \notin {"none", "pending"}
    BY Writes
<1>p. \A p \in Payment : p[1] \in Sessions
    BY DEF Payment
<1>1. ASSUME NEW d \in Detectors, det'[d] = det[d] PROVE DetInv(d)'
    BY <1>1, <1>w, <1>p DEF DetInv
<1>2. ASSUME NEW d \in Detectors, det'[d] = det[d],
             \A p \in payments' : p \in payments \/ p[1] # det[d].row[1] \/ p[1] \in takenOver'
      PROVE  ClaimInv(d)'
    <2>1. DetInv(d) /\ ClaimInv(d)
        OBVIOUS
    <2>2. det[d].pc = "claimed" => det[d].row[1] \in Sessions
        BY <2>1, <1>p DEF DetInv
    <2> QED
        BY <1>2, <1>w, <2>1, <2>2 DEF ClaimInv
<1>3. ASSUME NEW d \in Detectors, det'[d] = S!IdleDet
      PROVE  DetInv(d)' /\ ClaimInv(d)'
    BY <1>3 DEF S!IdleDet, DetInv, ClaimInv
<1>4. ASSUME NEW d \in Detectors, NEW e \in Detectors,
             det'[d].pc # "idle" => det[d].pc # "idle" /\ det'[d].row = det[d].row,
             det'[e].pc # "idle" => det[e].pc # "idle" /\ det'[e].row = det[e].row
      PROVE  ApartInv(d, e)'
    <2>1. ApartInv(d, e)
        OBVIOUS
    <2> QED
        BY <1>4, <1>w, <2>1 DEF ApartInv
<1>5. CASE DetRest
    <2>1. ASSUME NEW d \in Detectors PROVE DetInv(d)' /\ ClaimInv(d)'
        BY <1>1, <1>2, <1>3, <1>5 DEF DetRest
    <2>2. ASSUME NEW d \in Detectors
          PROVE  det'[d].pc # "idle" => det[d].pc # "idle" /\ det'[d].row = det[d].row
        BY <1>5 DEF DetRest, S!IdleDet
    <2> QED
        BY <2>1, <2>2, <1>4
<1>6. ASSUME NEW d \in Detectors, DetClaims(d), \A e \in Detectors : e # d => det'[e] = det[e]
      PROVE  /\ \A e \in Detectors : DetInv(e)' /\ ClaimInv(e)'
             /\ \A e, f \in Detectors : ApartInv(e, f)'
    <2>1. PICK op \in Ops : /\ Claims(op.memo)
                            /\ det'[d] = [pc |-> "claimed", row |-> <<op.memo, op.tx>>]
        BY <1>6 DEF DetClaims
    <2> DEFINE s == op.memo
    <2>2. /\ s \in Sessions /\ status[s] = "pending" /\ status'[s] = "processing"
          /\ payments' = payments /\ takenOver' = takenOver
        BY <2>1, PaidAssumption DEF Claims, SetTo
    <2>3. \A p \in payments : p[1] # s
        <3> SUFFICES ASSUME NEW p \in payments, p[1] = s PROVE FALSE
            OBVIOUS
        <3>1. PICK t \in Txs : p = <<s, t>>
            BY DEF Payment
        <3> QED
            BY <2>2, <3>1 DEF S!RecordedIsClosed, S!HasPayment, S!Terminal
    <2>4. DetInv(d)'
        BY <2>1, <2>2, PaidAssumption DEF DetInv, Payment, Exists
    <2>5. ClaimInv(d)'
        BY <2>1, <2>2, <2>3 DEF ClaimInv
    <2>6. ASSUME NEW e \in Detectors, e # d PROVE DetInv(e)' /\ ClaimInv(e)'
        BY <1>1, <1>2, <1>6, <2>2, <2>6
    <2>7. ASSUME NEW e \in Detectors, e # d, det[e].pc # "idle", det[e].row[1] = s
          PROVE  s \in takenOver
        <3>1. DetInv(e) /\ ClaimInv(e) /\ det[e].pc \in {"claimed", "confirmed"}
            BY <2>7 DEF DetType
        <3>2. CASE det[e].pc = "claimed"
            BY <2>2, <2>7, <3>1, <3>2 DEF ClaimInv
        <3>3. CASE det[e].pc = "confirmed"
            BY <2>3, <2>7, <3>1, <3>3 DEF DetInv
        <3> QED
            BY <3>1, <3>2, <3>3
    <2>8. ASSUME NEW e \in Detectors, NEW f \in Detectors PROVE ApartInv(e, f)'
        <3>1. CASE e # d /\ f # d
            BY <1>4, <1>6, <3>1
        <3>2. CASE e = d /\ f # d
            BY <1>6, <2>1, <2>2, <2>7, <3>2 DEF ApartInv
        <3>3. CASE e # d /\ f = d
            BY <1>6, <2>1, <2>2, <2>7, <3>3 DEF ApartInv
        <3>4. CASE e = f
            BY <3>4 DEF ApartInv
        <3> QED
            BY <3>1, <3>2, <3>3, <3>4
    <2> QED
        BY <2>4, <2>5, <2>6, <2>8
<1>7. ASSUME NEW d \in Detectors, DetConfirms(d), \A e \in Detectors : e # d => det'[e] = det[e]
      PROVE  /\ \A e \in Detectors : DetInv(e)' /\ ClaimInv(e)'
             /\ \A e, f \in Detectors : ApartInv(e, f)'
    <2>1. /\ det[d].pc = "claimed" /\ det'[d].pc = "confirmed" /\ det'[d].row = det[d].row
          /\ payments' = payments \cup {det[d].row} /\ takenOver' = takenOver
        BY <1>7 DEF DetConfirms
    <2>2. DetInv(d)
        OBVIOUS
    <2>3. DetInv(d)' /\ ClaimInv(d)'
        BY <1>w, <1>p, <2>1, <2>2 DEF DetInv, ClaimInv
    <2>4. ASSUME NEW e \in Detectors, e # d PROVE DetInv(e)' /\ ClaimInv(e)'
        <3>1. DetInv(e)'
            BY <1>1, <1>7, <2>4
        <3>2. CASE det[e].pc # "claimed"
            BY <1>7, <2>4, <3>1, <3>2 DEF ClaimInv
        <3>3. CASE det[e].pc = "claimed"
            <4>1. ApartInv(d, e)
                OBVIOUS
            <4>2. det[d].row[1] # det[e].row[1] \/ det[d].row[1] \in takenOver'
                BY <2>1, <2>4, <3>3, <4>1 DEF ApartInv
            <4> QED
                BY <1>2, <1>7, <2>1, <2>4, <3>1, <4>2
        <3> QED
            BY <3>2, <3>3, <3>1
    <2>5. ASSUME NEW e \in Detectors
          PROVE  det'[e].pc # "idle" => det[e].pc # "idle" /\ det'[e].row = det[e].row
        BY <1>7, <2>1
    <2> QED
        BY <1>4, <2>3, <2>4, <2>5
<1> QED
    BY <1>5, <1>6, <1>7 DEF DetMoves

-----------------------------------------------------------------------------
(* The recovery runs. *)

(* Where a run is, once it has moved. *)
RecAt(r, pc, todo, row) == rec'[r].pc = pc /\ rec'[r].todo = todo /\ rec'[r].row = row

RecTo(r) ==
    rec' \in [Recoverers -> RecType] /\ \A e \in Recoverers : e # r => rec'[e] = rec[e]

LEMMA Moves ==
    ASSUME SessionTypes, NEW r \in Recoverers, NEW pc \in S!RecStates,
           NEW todo \in SUBSET S!Rows, NEW row \in S!Rows \cup {S!NoRow},
           rec' = [rec EXCEPT ![r] = [pc |-> pc, todo |-> todo, row |-> row]]
    PROVE  RecTo(r) /\ RecAt(r, pc, todo, row)
<1>1. [pc |-> pc, todo |-> todo, row |-> row] \in RecType
    BY DEF RecType
<1> QED
    BY <1>1 DEF SessionTypes, RecTo, RecAt

LEMMA BackMoves ==
    ASSUME SessionTypes, NEW r \in Recoverers, NEW pass \in S!RecStates, S!Back(r, pass)
    PROVE  RecTo(r) /\ RecAt(r, pass, rec[r].todo, S!NoRow)
BY DEF S!Back, SessionTypes, RecType, RecTo, RecAt

LEMMA StepMoves ==
    ASSUME SessionTypes, NEW r \in Recoverers, NEW pc \in S!RecStates, NEW row \in rec[r].todo,
           S!Step(r, pc, row)
    PROVE  RecTo(r) /\ RecAt(r, pc, rec[r].todo \ {row}, row)
<1>1. rec[r].todo \subseteq S!Rows
    BY DEF SessionTypes, RecType
<1> QED
    BY <1>1, Moves DEF S!Step

(* A run at rest, in a pass, keeps to the rows it has been given. *)
LEMMA RestKeeps ==
    ASSUME NEW r \in Recoverers, NEW pc, NEW todo, NEW row, RecAt(r, pc, todo, row),
           pc \in {"idle", "stuck", "orphans", "stale"}, \A x \in todo : Exists(x[1])'
    PROVE  RecInv(r)'
BY DEF RecAt, RecInv

LEMMA RecStep ==
    ASSUME SessionInv, [Next]_vars
    PROVE  /\ rec' \in [Recoverers -> RecType]
           /\ \A r \in Recoverers : RecInv(r)'
<1>t. SessionTypes
    BY DEF SessionInv
<1>w. /\ payments \subseteq payments' /\ takenOver \subseteq takenOver'
      /\ \A s \in Sessions : Exists(s) => Exists(s)'
      /\ payments \subseteq Payment
    BY Writes, WriteStep, <1>t DEF SessionTypes
<1>p. \A p \in S!Rows : p[1] \in Sessions
    BY DEF S!Rows
<1>q. Payment \subseteq S!Rows
    BY DEF Payment, S!Rows
<1>h. \A s : S!HasPayment(s) => S!HasPayment(s)'
    BY <1>w DEF S!HasPayment
<1>r. ASSUME NEW r \in Recoverers
      PROVE  /\ rec[r] \in RecType /\ RecInv(r) /\ rec[r].todo \subseteq S!Rows
             /\ \A x \in rec[r].todo : Exists(x[1])'
    <2>1. rec[r] \in RecType /\ RecInv(r)
        BY <1>t DEF SessionInv, SessionTypes
    <2>2. rec[r].todo \subseteq S!Rows
        BY <2>1 DEF RecType
    <2>3. \A x \in rec[r].todo : x[1] \in Sessions /\ Exists(x[1])
        BY <1>p, <2>1, <2>2 DEF RecInv
    <2> QED
        BY <1>w, <2>1, <2>2, <2>3
<1>k. ASSUME NEW r \in Recoverers, rec'[r] = rec[r] PROVE RecInv(r)'
    <2>1. RecInv(r) /\ \A x \in rec[r].todo : Exists(x[1])'
        BY <1>r
    <2>2. rec[r].pc \in {"revert", "reconcile", "markPaid", "markExpired"} =>
             Exists(rec[r].row[1])'
        BY <1>k, <1>w, <1>p, <2>1 DEF RecInv
    <2>3. rec[r].pc = "markPaid" => S!HasPayment(rec[r].row[1])'
        BY <1>k, <1>w, <2>1 DEF RecInv, S!HasPayment
    <2> QED
        BY <1>k, <1>w, <2>1, <2>2, <2>3 DEF RecInv
<1>o. ASSUME NEW r \in Recoverers, RecTo(r), RecInv(r)'
      PROVE  rec' \in [Recoverers -> RecType] /\ \A e \in Recoverers : RecInv(e)'
    BY <1>o, <1>k DEF RecTo
<1>1. ASSUME UNCHANGED rec
      PROVE  rec' \in [Recoverers -> RecType] /\ \A r \in Recoverers : RecInv(r)'
    BY <1>1, <1>k, <1>t DEF SessionTypes
<1>2. ASSUME NEW r \in Recoverers, S!Recovery(r) \/ S!FailRow(r) \/ S!AbortRecovery(r)
      PROVE  RecTo(r) /\ RecInv(r)'
    <2>1. ASSUME NEW pass \in {"stuck", "orphans", "stale"}, NEW new \in SUBSET S!Rows,
                 \A x \in new : Exists(x[1])', S!Begin(r, pass, new)
          PROVE  RecTo(r) /\ RecInv(r)'
        <3>1. RecTo(r) /\ RecAt(r, pass, new, S!NoRow)
            BY <1>t, <2>1, Moves DEF S!Begin, S!RecStates
        <3> QED
            BY <2>1, <3>1, RestKeeps
    <2>2. ASSUME NEW pass \in {"stuck", "stale"}, S!Back(r, pass) PROVE RecTo(r) /\ RecInv(r)'
        <3>1. RecTo(r) /\ RecAt(r, pass, rec[r].todo, S!NoRow)
            BY <1>t, <2>2, BackMoves DEF S!RecStates
        <3> QED
            BY <2>2, <3>1, <1>r, RestKeeps
    <2>3. ASSUME NEW SS \in SUBSET Sessions, \A s \in SS : Exists(s)
          PROVE  S!BareRows(SS) \in SUBSET S!Rows /\ \A x \in S!BareRows(SS) : Exists(x[1])'
        BY <1>w, <2>3 DEF S!BareRows, S!Rows
    <2>4. CASE S!StartRecovery(r)
        <3> DEFINE SS == {s \in Sessions : status[s] = "processing" /\ since[s] > Stale}
        <3>1. SS \in SUBSET Sessions /\ \A s \in SS : Exists(s)
            BY DEF Exists
        <3>2. S!Begin(r, "stuck", S!BareRows(SS))
            BY <2>4 DEF S!StartRecovery
        <3> HIDE DEF SS
        <3> QED
            BY <2>1, <2>3, <3>1, <3>2
    <2>5. CASE S!StartStale(r)
        <3> DEFINE SS == {s \in Sessions : status[s] = "pending" /\ age[s] > Stale}
        <3>1. SS \in SUBSET Sessions /\ \A s \in SS : Exists(s)
            BY DEF Exists
        <3>2. S!Begin(r, "stale", S!BareRows(SS))
            BY <2>5 DEF S!StartStale
        <3> HIDE DEF SS
        <3> QED
            BY <2>1, <2>3, <3>1, <3>2
    <2>6. CASE S!StartOrphans(r)
        <3> DEFINE PP == {p \in payments : status[p[1]] = "pending"}
        <3>1. PP \in SUBSET S!Rows /\ \A x \in PP : x[1] \in Sessions /\ Exists(x[1])
            BY <1>w, <1>p, <1>q DEF Exists
        <3>2. S!Begin(r, "orphans", PP)
            BY <2>6 DEF S!StartOrphans
        <3> HIDE DEF PP
        <3> QED
            BY <1>w, <2>1, <3>1, <3>2
    <2>7. ASSUME NEW row \in rec[r].todo, S!FindConfirmingPayment(r, row)
          PROVE  RecTo(r) /\ RecInv(r)'
        <3>1. PICK k \in DOMAIN ledger :
                 rec' = [rec EXCEPT ![r] = [pc |-> "reconcile", todo |-> rec[r].todo \ {row},
                                            row |-> <<row[1], ledger[k].tx>>]]
            BY <2>7 DEF S!FindConfirmingPayment
        <3>2. row \in S!Rows /\ row[1] \in Sessions /\ Exists(row[1])'
            BY <1>r, <1>p
        <3>3. ledger[k].tx \in Txs
            BY <1>t, PaidAssumption DEF SessionTypes
        <3>4. <<row[1], ledger[k].tx>> \in Payment
            BY <3>2, <3>3 DEF Payment
        <3>5. RecTo(r) /\ RecAt(r, "reconcile", rec[r].todo \ {row}, <<row[1], ledger[k].tx>>)
            <4>1. "reconcile" \in S!RecStates /\ rec[r].todo \ {row} \in SUBSET S!Rows
                  /\ <<row[1], ledger[k].tx>> \in S!Rows
                BY <1>r, <1>q, <3>4 DEF S!RecStates
            <4> QED
                BY <1>t, <3>1, <4>1, Moves
        <3> QED
            BY <1>r, <1>q, <3>2, <3>4, <3>5 DEF RecAt, RecInv
    <2>8. ASSUME NEW row \in rec[r].todo, S!NoConfirmingPayment(r, row)
          PROVE  RecTo(r) /\ RecInv(r)'
        <3>1. RecTo(r) /\ RecAt(r, "revert", rec[r].todo \ {row}, row)
            BY <1>t, <2>8, StepMoves DEF S!NoConfirmingPayment, S!RecStates
        <3> QED
            BY <1>r, <3>1 DEF RecAt, RecInv
    <2>9. ASSUME NEW row \in rec[r].todo, S!ReadStale(r, row)
          PROVE  RecTo(r) /\ RecInv(r)'
        <3>1. CASE S!HasPayment(row[1])
            <4>1. RecTo(r) /\ RecAt(r, "markPaid", rec[r].todo \ {row}, row)
                BY <1>t, <2>9, <3>1, StepMoves DEF S!ReadStale, S!RecStates
            <4>2. S!HasPayment(row[1])'
                BY <1>h, <3>1
            <4> QED
                BY <1>r, <4>1, <4>2 DEF RecAt, RecInv
        <3>2. CASE ~S!HasPayment(row[1])
            <4>1. RecTo(r) /\ RecAt(r, "markExpired", rec[r].todo \ {row}, row)
                BY <1>t, <2>9, <3>2, StepMoves DEF S!ReadStale, S!RecStates
            <4> QED
                BY <1>r, <4>1 DEF RecAt, RecInv
        <3> QED
            BY <3>1, <3>2
    <2>10. CASE S!Reconcile(r)
        <3>1. /\ rec[r].pc = "reconcile" /\ rec' = [rec EXCEPT ![r].pc = "notify"]
              /\ rec[r].row \in payments' /\ rec[r].row[1] \in takenOver'
            BY <2>10 DEF S!Reconcile, S!InsertPayment
        <3>4. RecTo(r) /\ RecAt(r, "notify", rec[r].todo, rec[r].row)
            BY <1>t, <3>1 DEF SessionTypes, RecType, S!RecStates, RecTo, RecAt
        <3> QED
            BY <1>r, <3>1, <3>4 DEF RecAt, RecInv
    <2>11. CASE S!RevertToPending(r) \/ S!NotifyReconciled(r) \/ S!WriteStale(r)
        BY <2>2, <2>11 DEF S!RevertToPending, S!NotifyReconciled, S!WriteStale
    <2>12. CASE S!FinishRecovery(r) \/ S!AbortRecovery(r)
        <3>1. rec' = [rec EXCEPT ![r] = [pc |-> "idle", todo |-> {}, row |-> S!NoRow]]
            BY <2>12 DEF S!FinishRecovery, S!AbortRecovery, S!IdleRec
        <3>2. RecTo(r) /\ RecAt(r, "idle", {}, S!NoRow)
            BY <1>t, <3>1, Moves DEF S!RecStates
        <3> QED
            BY <3>2, RestKeeps
    <2>13. CASE S!FailRow(r)
        <3>1. ASSUME NEW row \in rec[r].todo, rec[r].pc = "stuck",
                     rec' = [rec EXCEPT ![r].todo = @ \ {row}]
              PROVE  RecTo(r) /\ RecInv(r)'
            <4>1. rec[r].todo \ {row} \in SUBSET S!Rows
                BY <1>r
            <4>3. RecTo(r) /\ RecAt(r, rec[r].pc, rec[r].todo \ {row}, rec[r].row)
                BY <1>t, <3>1, <4>1 DEF SessionTypes, RecType, RecTo, RecAt
            <4>4. \A x \in rec[r].todo \ {row} : Exists(x[1])'
                BY <1>r
            <4> QED
                BY <3>1, <4>3, <4>4, RestKeeps
        <3> QED
            BY <2>2, <2>13, <3>1 DEF S!FailRow
    <2> QED
        BY <1>2, <2>4, <2>5, <2>6, <2>7, <2>8, <2>9, <2>10, <2>11, <2>12, <2>13
           DEF S!Recovery, S!RecoverRow
<1>3. CASE \E w \in Workers : Crash(w)
    <2>1. rec' = [r \in Recoverers |-> rec'[r]]
          /\ \A r \in Recoverers : rec'[r] = rec[r] \/ rec'[r] = S!IdleRec
        BY <1>3 DEF Crash
    <2>2. S!IdleRec \in RecType
        BY DEF RecType, S!IdleRec, S!RecStates
    <2>3. rec' \in [Recoverers -> RecType]
        BY <1>r, <2>1, <2>2
    <2>4. ASSUME NEW r \in Recoverers, rec'[r] = S!IdleRec PROVE RecInv(r)'
        BY <2>4 DEF S!IdleRec, RecInv
    <2> QED
        BY <1>k, <2>1, <2>3, <2>4
<1>4. ASSUME NEW d \in Detectors, S!Detector(d) \/ S!FailDetector(d) PROVE UNCHANGED rec
    BY <1>4 DEF S!Detector, S!ClaimSession, S!Finalize, S!DispatchWebhook, S!FailDetector
<1>5. CASE \/ S!Tick \/ UNCHANGED S!vars \/ \E op \in Ops : S!Pay(op)
           \/ \E s \in Sessions : S!CreateSession(s)
    BY <1>5, <1>1 DEF S!Tick, S!vars, S!Pay, S!CreateSession
<1>6. CASE \E r \in Recoverers : S!Recovery(r) \/ S!FailRow(r) \/ S!AbortRecovery(r)
    BY <1>2, <1>6, <1>o
<1> QED
    BY <1>1, <1>3, <1>4, <1>5, <1>6, SessionSteps DEF S!Next

LEMMA LedgerStep ==
    ASSUME SessionInv, [Next]_vars
    PROVE  ledger' \in Seq(Ops)
<1>1. UNCHANGED ledger \/ \E op \in Ops : ledger' = Append(ledger, op)
    <2>1. CASE \E w \in Workers : Crash(w)
        BY <2>1 DEF Crash
    <2>2. CASE [S!Next]_(S!vars)
        BY <2>2 DEF S!Next, S!vars, S!Tick, S!Pay, S!CreateSession, S!Detector, S!ClaimSession,
               S!Finalize, S!DispatchWebhook, S!FailDetector, S!Recovery, S!RecoverRow,
               S!StartRecovery, S!FindConfirmingPayment, S!NoConfirmingPayment,
               S!RevertToPending, S!Reconcile, S!NotifyReconciled, S!StartOrphans, S!StartStale,
               S!ReadStale, S!WriteStale, S!FinishRecovery, S!FailRow, S!AbortRecovery
    <2> QED
        BY <2>1, <2>2, SessionSteps
<1> QED
    BY <1>1 DEF SessionInv, SessionTypes

(* SessionInv holds, whatever the queue does. *)
LEMMA SessionStays ==
    ASSUME SessionInv, [Next]_vars
    PROVE  SessionInv'
<1>1. DetMoves /\ (Write \/ Reads)
    BY DetStep, WriteStep
<1>2. SessionTypes'
    BY <1>1, Writes, RecStep, LedgerStep DEF SessionTypes, DetMoves
<1>3. S!RecordedIsClosed'
    BY <1>1, Writes
<1> QED
    BY <1>1, <1>2, <1>3, DetectorsKeep, RecStep DEF SessionInv

-----------------------------------------------------------------------------
(* The queue.  A delivery becomes known by a call of dispatchWebhook, and  *)
(* its call of enqueue ends with the caller's answer or with a crash.      *)

EnqMoves ==
    /\ DOMAIN enq' = Ids /\ \A i \in Ids : DOMAIN enq'[i] = EnqFields
    /\ \A i \in Ids : Known(i) => Known(i)' /\ enq'[i].by = enq[i].by
    /\ \A i \in Ids : Known(i)' => Known(i) \/ \E c \in Callers : Dispatch(c, i)
    /\ \A i \in Ids : Q!Enqueueing(i) /\ ~Q!Enqueueing(i)' =>
          \/ Dispatched(i) \/ FailDispatch(i)
          \/ \E w \in Workers : Crash(w) /\ enq[i].by = w

(* The steps that leave the calls of enqueue alone. *)
LEMMA EnqRests ==
    ASSUME QueueInv, UNCHANGED enq
    PROVE  EnqMoves
BY DEF QueueInv, Shapes, EnqMoves, Known, Q!Enqueueing

LEMMA EnqGoes ==
    ASSUME QueueInv, NEW i \in Ids, NEW pc, Q!EnqTo(i, pc), Known(i), pc # "new",
           \/ pc \notin {"done", "failed"}
           \/ Dispatched(i) \/ FailDispatch(i)
    PROVE  EnqMoves
<1>1. /\ DOMAIN enq' = Ids /\ DOMAIN enq'[i] = EnqFields /\ enq'[i].pc = pc
      /\ enq'[i].by = enq[i].by
      /\ \A j \in Ids : j # i => enq'[j] = enq[j]
    BY DEF Q!EnqTo, QueueInv, Shapes, EnqFields
<1> QED
    BY <1>1 DEF QueueInv, Shapes, EnqMoves, Known, Q!Enqueueing

LEMMA EnqBegins ==
    ASSUME QueueInv, NEW c \in Callers, NEW i \in Ids, Dispatch(c, i)
    PROVE  /\ EnqMoves
           /\ ~Known(i) /\ Known(i)' /\ Q!Enqueueing(i)' /\ enq'[i].by = Home[c]
           /\ \A j \in Ids : j # i => enq'[j] = enq[j]
<1>1. /\ enq[i].pc = "new"
      /\ enq' = [enq EXCEPT ![i] = enq'[i]]
      /\ enq'[i].pc = "row" /\ enq'[i].by = Home[c] /\ DOMAIN enq'[i] = EnqFields
    BY DEF Dispatch, Q!Enqueue, Q!StartEnqueue, QueueInv, Shapes, EnqFields
<1>2. DOMAIN enq' = Ids /\ \A j \in Ids : j # i => enq'[j] = enq[j]
    BY <1>1 DEF QueueInv, Shapes
<1> QED
    BY <1>1, <1>2 DEF QueueInv, Shapes, EnqMoves, Known, Q!Enqueueing

LEMMA EnqCrash ==
    ASSUME QueueInv, NEW w \in Workers, Crash(w)
    PROVE  EnqMoves
<1>1. enq' = [i \in Ids |-> IF Q!Enqueueing(i) /\ enq[i].by = w
                            THEN [enq[i] EXCEPT !.pc = "failed"] ELSE enq[i]]
    BY DEF Crash, Q!Crash
<1>2. ASSUME NEW i \in Ids
      PROVE  /\ DOMAIN enq'[i] = EnqFields /\ enq'[i].by = enq[i].by
             /\ \/ enq'[i] = enq[i]
                \/ Q!Enqueueing(i) /\ enq[i].by = w /\ enq'[i].pc = "failed"
    BY <1>1 DEF QueueInv, Shapes, EnqFields
<1>3. DOMAIN enq' = Ids
    BY <1>1
<1> QED
    BY <1>2, <1>3 DEF EnqMoves, Known, Q!Enqueueing

LEMMA EnqStep ==
    ASSUME QueueInv, [Next]_vars
    PROVE  EnqMoves
<1>1. ASSUME NEW i \in Ids, EnqueueStep(i) \/ Dispatched(i) \/ FailDispatch(i) PROVE EnqMoves
    <2>1. \E pc : /\ Q!EnqTo(i, pc) /\ Known(i) /\ pc # "new"
                  /\ pc \notin {"done", "failed"} \/ Dispatched(i) \/ FailDispatch(i)
        BY <1>1 DEF EnqueueStep, Dispatched, FailDispatch, Q!InsertRow, Q!WriteJob,
               Q!JoinSession, Q!Schedule, Q!FailEnqueue, Q!Enqueueing, Known
    <2> QED
        BY <2>1, EnqGoes
<1>2. CASE UNCHANGED enq
    BY <1>2, EnqRests
<1>3. ASSUME NEW w \in Workers, Start(w) \/ Pass(w) \/ Sweep(w) \/ \E i \in Ids : Process(w, i)
      PROVE  UNCHANGED enq
    BY <1>3 DEF Start, Pass, Sweep, Process, Q!Start, Q!Tick, Q!TickStart, Q!ReadJob, Q!DropDue,
           Q!CheckHead, Q!Dispatch, Q!Sweep, Q!CheckJob, Q!ReviveJob, Q!ReviveOrder,
           Q!ReviveSchedule, Q!FinishSweep, Q!Process, Q!Deliver, Q!RecordDelivery,
           Q!DeadLetter, Q!Unschedule, Q!LeaveSession, Q!DeleteJob, Q!RewriteJob, Q!Reschedule
<1>4. \/ UNCHANGED enq
      \/ \E i \in Ids : EnqueueStep(i) \/ Dispatched(i) \/ FailDispatch(i)
      \/ \E c \in Callers, i \in Ids : Dispatch(c, i)
      \/ \E w \in Workers : Crash(w)
    BY <1>3 DEF Next, vars, queueVars, World, FailHandler, Detect, Recover, DispatchBy,
           DispatchNothing, SessionStep, Call
<1> QED
    BY <1>1, <1>2, <1>4, EnqBegins, EnqCrash

-----------------------------------------------------------------------------
(* The parts of QueueInv that a step leaves alone stay. *)
LEMMA QueueFrame ==
    ASSUME QueueInv, EnqMoves,
           DOMAIN rows' = Ids, DOMAIN scheduled' = Ids, DOMAIN tick' = Workers,
           DOMAIN proc' = Workers, DOMAIN recov' = Workers,
           \A w \in Workers : DOMAIN proc'[w] = Ids,
           acked' \subseteq Ids, \A i \in Ids : i \in acked' => i \in acked \/ Known(i)',
           \A i \in Ids : Q!Stored(i)' => Q!Stored(i) \/ Known(i)',
           \A i \in Ids : scheduled'[i] # "no" => scheduled[i] # "no" \/ Known(i)',
           \A w \in Workers : \/ tick'[w] = tick[w]
                              \/ DOMAIN tick'[w] = TickFields /\ TickInv(w)',
           \A w \in Workers : \/ recov'[w] = recov[w]
                              \/ DOMAIN recov'[w] = RecovFields /\ RecovInv(w)',
           \A w \in Workers, i \in Ids : Q!Active(w, i)' => Q!Active(w, i) \/ Known(i)'
    PROVE  QueueInv'
<1>k. \A i \in Ids : Known(i) => Known(i)'
    BY DEF EnqMoves
<1>1. Shapes'
    BY DEF QueueInv, Shapes, EnqMoves
<1>2. ASSUME NEW w \in Workers PROVE TickInv(w)'
    <2>1. TickInv(w)
        BY DEF QueueInv
    <2>2. CASE tick'[w] = tick[w]
        BY <1>k, <2>1, <2>2 DEF TickInv
    <2> QED
        BY <2>2
<1>3. ASSUME NEW w \in Workers PROVE RecovInv(w)'
    <2>1. RecovInv(w)
        BY DEF QueueInv
    <2>2. CASE recov'[w] = recov[w]
        BY <1>k, <2>1, <2>2 DEF RecovInv
    <2> QED
        BY <2>2
<1>4. \A i \in Ids : (Q!Stored(i) \/ scheduled[i] # "no" \/ i \in acked => Known(i))'
    BY <1>k DEF QueueInv
<1>5. \A w \in Workers, i \in Ids : (Q!Active(w, i) => Known(i))'
    BY <1>k DEF QueueInv
<1> QED
    BY <1>1, <1>2, <1>3, <1>4, <1>5 DEF QueueInv

(* Steps of enqueue and of the handlers. *)
LEMMA CallKeeps ==
    ASSUME QueueInv, EnqMoves, NEW i \in Ids,
           Q!InsertRow(i) \/ Q!WriteJob(i) \/ Q!JoinSession(i) \/ Q!Schedule(i)
           \/ Q!FailEnqueue(i) \/ \E w, s : Q!Enqueue(w, i, s)
    PROVE  QueueInv'
<1> USE DEF QueueInv, Shapes
<1>1. UNCHANGED <<tick, proc, recov, acked>>
    BY DEF Q!InsertRow, Q!WriteJob, Q!JoinSession, Q!Schedule, Q!FailEnqueue, Q!Enqueue,
           Q!StartEnqueue, Q!history
<1>2. /\ DOMAIN rows' = Ids
      /\ \A j \in Ids : Q!Stored(j)' => Q!Stored(j) \/ Known(j)
    BY DEF Q!InsertRow, Q!WriteJob, Q!JoinSession, Q!Schedule, Q!FailEnqueue, Q!Enqueue,
           Q!StartEnqueue, Q!pg, Q!Stored, Known
<1>3. /\ DOMAIN scheduled' = Ids
      /\ \A j \in Ids : scheduled'[j] # "no" => scheduled[j] # "no" \/ Known(j)
    BY DEF Q!InsertRow, Q!WriteJob, Q!JoinSession, Q!Schedule, Q!FailEnqueue, Q!Enqueue,
           Q!StartEnqueue, Q!redis, Known
<1>4. \A w \in Workers, j \in Ids : Q!Active(w, j)' => Q!Active(w, j)
    BY <1>1 DEF Q!Active
<1>5. \A j \in Ids : Known(j) => Known(j)'
    BY DEF EnqMoves
<1> QED
    BY <1>1, <1>2, <1>3, <1>4, <1>5, QueueFrame

(* The scheduling pass. *)
LEMMA ContinueKeeps ==
    ASSUME QueueInv, NEW w \in Workers, NEW room, NEW due \in SUBSET Ids,
           \A i \in due : Known(i), NEW picks,
           \A job \in picks : job[1] \in Ids /\ Known(job[1]),
           Q!Continue(w, room, due, picks), UNCHANGED enq
    PROVE  /\ DOMAIN tick' = Workers /\ \A v \in Workers : v # w => tick'[v] = tick[v]
           /\ DOMAIN tick'[w] = TickFields /\ TickInv(w)'
<1>1. ASSUME NEW t, tick' = [tick EXCEPT ![w] = t], DOMAIN t = TickFields,
             t.due \subseteq due, t.picks = picks,
             t.pc \in {"read", "drop", "head"} => t.job[1] \in due
      PROVE  /\ DOMAIN tick' = Workers /\ \A v \in Workers : v # w => tick'[v] = tick[v]
             /\ DOMAIN tick'[w] = TickFields /\ TickInv(w)'
    <2>1. DOMAIN tick' = Workers /\ tick'[w] = t /\ \A v \in Workers : v # w => tick'[v] = tick[v]
        BY <1>1 DEF QueueInv, Shapes
    <2> QED
        BY <1>1, <2>1 DEF TickInv, Known
<1> DEFINE At(pc, rest, job) ==
        [pc |-> pc, room |-> room, due |-> rest, job |-> job, picks |-> picks]
<1>2. CASE tick' = [tick EXCEPT ![w] = At("dispatch", {}, Nothing)]
    <2>1. /\ DOMAIN At("dispatch", {}, Nothing) = TickFields
          /\ At("dispatch", {}, Nothing).pc = "dispatch"
          /\ At("dispatch", {}, Nothing).due = {}
          /\ At("dispatch", {}, Nothing).picks = picks
        BY DEF TickFields
    <2> HIDE DEF At
    <2> QED
        BY <1>1, <1>2, <2>1
<1>3. ASSUME NEW d \in due, NEW rest \in SUBSET due,
             tick' = [tick EXCEPT ![w] = At("read", rest, <<d, 0>>)]
      PROVE  /\ DOMAIN tick' = Workers /\ \A v \in Workers : v # w => tick'[v] = tick[v]
             /\ DOMAIN tick'[w] = TickFields /\ TickInv(w)'
    <2>1. /\ DOMAIN At("read", rest, <<d, 0>>) = TickFields
          /\ At("read", rest, <<d, 0>>).job[1] = d
          /\ At("read", rest, <<d, 0>>).due = rest
          /\ At("read", rest, <<d, 0>>).picks = picks
        BY DEF TickFields
    <2> HIDE DEF At
    <2> QED
        BY <1>1, <1>3, <2>1
<1> QED
    BY <1>2, <1>3 DEF Q!Continue, Q!TickTo

LEMMA PassKeeps ==
    ASSUME QueueInv, EnqMoves, NEW w \in Workers, Pass(w)
    PROVE  QueueInv'
<1> USE DEF QueueInv, Shapes
<1>t. TickInv(w) /\ DOMAIN tick[w] = TickFields
    OBVIOUS
<1>e. UNCHANGED <<enq, rows, recov, acked>>
    BY DEF Pass, Q!Tick, Q!TickStart, Q!ReadJob, Q!DropDue, Q!CheckHead, Q!Dispatch, Q!history,
           Q!pg
<1>1. ASSUME DOMAIN tick' = Workers, \A v \in Workers : v # w => tick'[v] = tick[v],
             DOMAIN tick'[w] = TickFields, TickInv(w)',
             DOMAIN scheduled' = Ids,
             \A i \in Ids : scheduled'[i] # "no" => scheduled[i] # "no",
             UNCHANGED proc
      PROVE  QueueInv'
    BY <1>1, <1>e, QueueFrame DEF Q!Stored, Q!Active
<1>2. ASSUME NEW room, NEW due \in SUBSET Ids, \A i \in due : Known(i), NEW picks,
             \A job \in picks : job[1] \in Ids /\ Known(job[1]),
             Q!Continue(w, room, due, picks),
             DOMAIN scheduled' = Ids,
             \A i \in Ids : scheduled'[i] # "no" => scheduled[i] # "no",
             UNCHANGED proc
      PROVE  QueueInv'
    <2>1. /\ DOMAIN tick' = Workers /\ \A v \in Workers : v # w => tick'[v] = tick[v]
          /\ DOMAIN tick'[w] = TickFields /\ TickInv(w)'
        BY <1>2, <1>e, ContinueKeeps
    <2> QED
        BY <1>1, <1>2, <2>1
<1>3. CASE Q!TickStart(w)
    <2> DEFINE due == {d \in Ids : scheduled[d] = "due"}
    <2>1. due \in SUBSET Ids /\ \A i \in due : Known(i)
        OBVIOUS
    <2>2. PICK room, picks : Q!Continue(w, room, due, picks) /\ picks = {}
        BY <1>3 DEF Q!TickStart
    <2>3. /\ UNCHANGED proc /\ DOMAIN scheduled' = Ids
          /\ \A i \in Ids : scheduled'[i] # "no" => scheduled[i] # "no"
        BY <1>3 DEF Q!TickStart, Q!redis
    <2>4. \A job \in picks : job[1] \in Ids /\ Known(job[1])
        BY <2>2
    <2> HIDE DEF due
    <2> QED
        BY <1>2, <2>1, <2>2, <2>3, <2>4
<1>4. CASE Q!ReadJob(w)
    <2>1. UNCHANGED <<scheduled, proc>> /\ tick[w].pc = "read"
        BY <1>4 DEF Q!ReadJob, Q!redis
    <2>2. CASE Q!Continue(w, tick[w].room, tick[w].due, tick[w].picks)
        BY <1>2, <1>t, <2>1, <2>2 DEF TickInv
    <2>3. ASSUME NEW pc, NEW n,
                 tick' = [tick EXCEPT ![w].pc = pc, ![w].job = <<tick[w].job[1], n>>]
          PROVE  QueueInv'
        <3>1. /\ DOMAIN tick' = Workers /\ \A v \in Workers : v # w => tick'[v] = tick[v]
              /\ DOMAIN tick'[w] = TickFields
              /\ tick'[w].due = tick[w].due /\ tick'[w].picks = tick[w].picks
              /\ tick'[w].job[1] = tick[w].job[1]
            BY <2>3, <1>t DEF TickFields
        <3>2. TickInv(w)'
            BY <1>t, <1>e, <2>1, <3>1 DEF TickInv, Known
        <3> QED
            BY <1>1, <2>1, <3>1, <3>2
    <2> QED
        BY <1>4, <2>2, <2>3 DEF Q!ReadJob
<1>5. CASE Q!DropDue(w)
    <2>1. Q!Continue(w, tick[w].room, tick[w].due, tick[w].picks) /\ UNCHANGED proc
        BY <1>5 DEF Q!DropDue
    <2>2. /\ DOMAIN scheduled' = Ids
          /\ \A i \in Ids : scheduled'[i] # "no" => scheduled[i] # "no"
        BY <1>5 DEF Q!DropDue
    <2> QED
        BY <1>2, <1>t, <2>1, <2>2 DEF TickInv
<1>6. CASE Q!CheckHead(w)
    <2> DEFINE job == tick[w].job
               picks == tick[w].picks \cup (IF Q!IsHead(job[1]) THEN {job} ELSE {})
    <2>1. Q!Continue(w, tick[w].room, tick[w].due, picks) /\ UNCHANGED <<scheduled, proc>>
          /\ tick[w].pc = "head"
        BY <1>6 DEF Q!CheckHead, Q!redis
    <2>2. \A x \in picks : x[1] \in Ids /\ Known(x[1])
        BY <1>t, <2>1 DEF TickInv
    <2> HIDE DEF picks
    <2> QED
        BY <1>2, <1>t, <2>1, <2>2 DEF TickInv
<1>7. CASE Q!Dispatch(w)
    <2>1. PICK D \in SUBSET Ids :
             /\ Q!IsPassOf(w, D)
             /\ proc' = [proc EXCEPT ![w] = [d \in Ids |->
                   IF d \in D
                   THEN [pc |-> "deliver", verdict |-> Nothing,
                         attempt |-> CHOOSE n \in 0..1 : <<d, n>> \in tick[w].picks]
                   ELSE proc[w][d]]]
        BY <1>7 DEF Q!Dispatch
    <2>2. UNCHANGED scheduled /\ tick' = [tick EXCEPT ![w] = Q!IdleTick]
        BY <1>7 DEF Q!Dispatch, Q!redis, Q!TickTo
    <2>3. \A d \in D : Known(d)
        BY <1>t, <2>1 DEF Q!IsPassOf, TickInv
    <2>4. /\ DOMAIN proc' = Workers /\ \A v \in Workers : DOMAIN proc'[v] = Ids
          /\ \A v \in Workers : v # w => proc'[v] = proc[v]
          /\ \A d \in Ids \ D : proc'[w][d] = proc[w][d]
        BY <2>1
    <2>5. \A v \in Workers, i \in Ids : Q!Active(v, i)' => Q!Active(v, i) \/ Known(i)
        BY <2>3, <2>4 DEF Q!Active
    <2>6. /\ DOMAIN tick' = Workers /\ \A v \in Workers : v # w => tick'[v] = tick[v]
          /\ DOMAIN tick'[w] = TickFields /\ TickInv(w)'
        BY <2>2 DEF Q!IdleTick, TickFields, TickInv
    <2>7. \A i \in Ids : Known(i) => Known(i)'
        BY DEF EnqMoves
    <2> QED
        BY <1>e, <2>2, <2>4, <2>5, <2>6, <2>7, QueueFrame DEF Q!Stored
<1> QED
    BY <1>3, <1>4, <1>5, <1>6, <1>7 DEF Pass, Q!Tick

(* process(job). *)
LEMMA ProcessKeeps ==
    ASSUME QueueInv, EnqMoves, NEW w \in Workers, NEW i \in Ids, Process(w, i)
    PROVE  QueueInv'
<1> USE DEF QueueInv, Shapes
<1>1. UNCHANGED <<tick, recov, enq>> /\ Q!Active(w, i)
    BY DEF Process, Q!Process, Q!Deliver, Q!RecordDelivery, Q!DeadLetter, Q!Unschedule,
           Q!LeaveSession, Q!DeleteJob, Q!RewriteJob, Q!Reschedule, Q!Active
<1>2. Known(i) /\ \A j \in Ids : Known(j) => Known(j)'
    BY <1>1 DEF EnqMoves
<1>3. /\ DOMAIN proc' = Workers /\ \A v \in Workers : DOMAIN proc'[v] = Ids
      /\ \A v \in Workers, j \in Ids : v # w \/ j # i => proc'[v][j] = proc[v][j]
    <2>1. CASE Q!Deliver(w, i)
        BY <2>1 DEF Q!Deliver
    <2>2. ASSUME NEW pc, Q!ProcTo(w, i, pc) \/ Q!Settle(w, i)
          PROVE  /\ DOMAIN proc' = Workers /\ \A v \in Workers : DOMAIN proc'[v] = Ids
                 /\ \A v \in Workers, j \in Ids : v # w \/ j # i => proc'[v][j] = proc[v][j]
        BY <2>2 DEF Q!ProcTo, Q!Settle
    <2>3. CASE ~Q!Deliver(w, i)
        <3>1. \E pc : Q!ProcTo(w, i, pc) \/ Q!Settle(w, i)
            BY <2>3 DEF Process, Q!Process, Q!RecordDelivery, Q!DeadLetter, Q!Unschedule,
                   Q!LeaveSession, Q!DeleteJob, Q!RewriteJob, Q!Reschedule
        <3> QED
            BY <2>2, <3>1
    <2> QED
        BY <2>1, <2>3
<1>4. DOMAIN rows' = Ids /\ \A j \in Ids : j # i => rows'[j] = rows[j]
    BY DEF Process, Q!Process, Q!Deliver, Q!RecordDelivery, Q!DeadLetter, Q!Unschedule,
           Q!LeaveSession, Q!DeleteJob, Q!RewriteJob, Q!Reschedule, Q!pg
<1>5. DOMAIN scheduled' = Ids /\ \A j \in Ids : j # i => scheduled'[j] = scheduled[j]
    BY DEF Process, Q!Process, Q!Deliver, Q!RecordDelivery, Q!DeadLetter, Q!Unschedule,
           Q!LeaveSession, Q!DeleteJob, Q!RewriteJob, Q!Reschedule, Q!redis
<1>6. acked' \in {acked, acked \cup {i}}
    BY DEF Process, Q!Process, Q!Deliver, Q!RecordDelivery, Q!DeadLetter, Q!Unschedule,
           Q!LeaveSession, Q!DeleteJob, Q!RewriteJob, Q!Reschedule, Q!history
<1> QED
    BY <1>1, <1>2, <1>3, <1>4, <1>5, <1>6, QueueFrame DEF Q!Stored, Q!Active

(* Startup and the recovery sweep. *)
LEMMA StartKeeps ==
    ASSUME QueueInv, EnqMoves, NEW w \in Workers, Start(w)
    PROVE  QueueInv'
<1> USE DEF QueueInv, Shapes
<1>1. UNCHANGED <<rows, scheduled, enq, proc, acked>>
    BY DEF Start, Q!Start, Q!pg, Q!redis, Q!history
<1>2. /\ DOMAIN tick' = Workers /\ tick'[w] = Q!IdleTick
      /\ \A v \in Workers : v # w => tick'[v] = tick[v]
    BY DEF Start, Q!Start, Q!TickTo
<1> DEFINE todo == {<<d, rows[d].attempts>> : d \in {e \in Ids : Q!Unfinished(e)}}
<1>3. /\ DOMAIN recov' = Workers /\ DOMAIN recov'[w] = RecovFields
      /\ recov'[w].pc = "check" /\ recov'[w].todo = todo
      /\ \A v \in Workers : v # w => recov'[v] = recov[v]
    BY DEF Start, Q!Start, RecovFields
<1>4. \A job \in todo : job[1] \in Ids /\ Known(job[1])
    BY DEF Q!Unfinished
<1> HIDE DEF todo
<1>5. RecovInv(w)'
    BY <1>1, <1>3, <1>4 DEF RecovInv, Known
<1>6. DOMAIN tick'[w] = TickFields /\ TickInv(w)'
    BY <1>2 DEF Q!IdleTick, TickFields, TickInv
<1> QED
    BY <1>1, <1>2, <1>3, <1>5, <1>6, QueueFrame DEF Q!Stored, Q!Active

LEMMA SweepKeeps ==
    ASSUME QueueInv, EnqMoves, NEW w \in Workers, Sweep(w)
    PROVE  QueueInv'
<1> USE DEF QueueInv, Shapes
<1>1. UNCHANGED <<rows, enq, tick, proc, acked>>
    BY DEF Sweep, Q!Sweep, Q!CheckJob, Q!ReviveJob, Q!ReviveOrder, Q!ReviveSchedule,
           Q!FinishSweep, Q!pg, Q!history
<1>2. RecovInv(w) /\ DOMAIN recov[w] = RecovFields
    OBVIOUS
<1>3. /\ DOMAIN scheduled' = Ids
      /\ \A i \in Ids : scheduled'[i] # "no" => scheduled[i] # "no" \/ Known(i)
    BY <1>2 DEF Sweep, Q!Sweep, Q!CheckJob, Q!ReviveJob, Q!ReviveOrder, Q!ReviveSchedule,
           Q!FinishSweep, Q!redis, RecovInv
<1>4. ASSUME NEW new, recov' = [recov EXCEPT ![w] = new], DOMAIN new = RecovFields,
             new.todo \subseteq recov[w].todo,
             new.pc \in {"write", "join", "schedule"} =>
                new.job[1] \in Ids /\ Known(new.job[1])
      PROVE  /\ DOMAIN recov' = Workers /\ \A v \in Workers : v # w => recov'[v] = recov[v]
             /\ DOMAIN recov'[w] = RecovFields /\ RecovInv(w)'
    <2>1. /\ DOMAIN recov' = Workers /\ recov'[w] = new
          /\ \A v \in Workers : v # w => recov'[v] = recov[v]
        BY <1>4
    <2> QED
        BY <1>1, <1>2, <1>4, <2>1 DEF RecovInv, Known
<1>5. /\ DOMAIN recov' = Workers /\ \A v \in Workers : v # w => recov'[v] = recov[v]
      /\ DOMAIN recov'[w] = RecovFields /\ RecovInv(w)'
    <2>1. ASSUME NEW job \in recov[w].todo, Q!CheckJob(w, job)
          PROVE  \E new : /\ recov' = [recov EXCEPT ![w] = new] /\ DOMAIN new = RecovFields
                          /\ new.todo \subseteq recov[w].todo /\ new.job = job
        <3> DEFINE new == [recov[w] EXCEPT !.todo = @ \ {job}, !.job = job,
                              !.pc = IF jobs[job[1]] = NoJob THEN "write" ELSE "check"]
        <3>1. recov' = [recov EXCEPT ![w] = new]
            BY <2>1, <1>2 DEF Q!CheckJob, RecovFields
        <3>2. DOMAIN new = RecovFields /\ new.todo \subseteq recov[w].todo /\ new.job = job
            BY <1>2 DEF RecovFields
        <3> QED
            BY <3>1, <3>2
    <2>2. CASE Q!FinishSweep(w)
        <3>1. /\ recov' = [recov EXCEPT ![w] = Q!NoSweep] /\ DOMAIN Q!NoSweep = RecovFields
              /\ Q!NoSweep.todo = {} /\ Q!NoSweep.pc = "done"
            BY <2>2 DEF Q!FinishSweep, Q!NoSweep, RecovFields
        <3> QED
            BY <1>4, <3>1
    <2>3. CASE \E job \in recov[w].todo : Q!CheckJob(w, job)
        <3>1. PICK job \in recov[w].todo : Q!CheckJob(w, job)
            BY <2>3
        <3>2. PICK new : /\ recov' = [recov EXCEPT ![w] = new] /\ DOMAIN new = RecovFields
                         /\ new.todo \subseteq recov[w].todo /\ new.job = job
            BY <2>1, <3>1
        <3> QED
            BY <1>2, <1>4, <3>2 DEF RecovInv
    <2>4. CASE Q!ReviveJob(w) \/ Q!ReviveOrder(w) \/ Q!ReviveSchedule(w)
        <3>1. PICK pc : recov' = [recov EXCEPT ![w].pc = pc]
                        /\ recov[w].pc \in {"write", "join", "schedule"}
            BY <2>4 DEF Q!ReviveJob, Q!ReviveOrder, Q!ReviveSchedule
        <3>2. /\ DOMAIN recov' = Workers /\ \A v \in Workers : v # w => recov'[v] = recov[v]
              /\ DOMAIN recov'[w] = RecovFields
              /\ recov'[w].todo = recov[w].todo /\ recov'[w].job = recov[w].job
            BY <1>2, <3>1 DEF RecovFields
        <3> QED
            BY <1>1, <1>2, <3>1, <3>2 DEF RecovInv, Known
    <2> QED
        BY <2>2, <2>3, <2>4 DEF Sweep, Q!Sweep
<1>6. \A j \in Ids : Known(j) => Known(j)'
    BY <1>1 DEF Known
<1> QED
    BY <1>1, <1>3, <1>5, <1>6, QueueFrame DEF Q!Stored, Q!Active

LEMMA CrashKeeps ==
    ASSUME QueueInv, EnqMoves, NEW w \in Workers, Crash(w)
    PROVE  QueueInv'
<1> USE DEF QueueInv, Shapes
<1>1. UNCHANGED <<rows, scheduled, acked>>
    BY DEF Crash, Q!Crash, Q!pg, Q!redis, Q!history
<1>2. /\ DOMAIN tick' = Workers /\ tick'[w] = [Q!IdleTick EXCEPT !.pc = "down"]
      /\ \A v \in Workers : v # w => tick'[v] = tick[v]
    BY DEF Crash, Q!Crash, Q!TickTo
<1>3. /\ DOMAIN recov' = Workers /\ recov'[w] = Q!NoSweep
      /\ \A v \in Workers : v # w => recov'[v] = recov[v]
    BY DEF Crash, Q!Crash
<1>4. /\ DOMAIN proc' = Workers /\ \A v \in Workers : DOMAIN proc'[v] = Ids
      /\ \A v \in Workers, i \in Ids : proc'[v][i] \in {proc[v][i], Q!IdleProc}
    BY DEF Crash, Q!Crash
<1>5. DOMAIN tick'[w] = TickFields /\ TickInv(w)'
    BY <1>2 DEF Q!IdleTick, TickFields, TickInv
<1>6. DOMAIN recov'[w] = RecovFields /\ RecovInv(w)'
    BY <1>3 DEF Q!NoSweep, RecovFields, RecovInv
<1>7. \A v \in Workers, i \in Ids : Q!Active(v, i)' => Q!Active(v, i)
    BY <1>4 DEF Q!Active, Q!IdleProc
<1> QED
    BY <1>1, <1>2, <1>3, <1>4, <1>5, <1>6, <1>7, QueueFrame DEF Q!Stored

(* QueueInv holds, whatever the handlers do. *)
LEMMA QueueStays ==
    ASSUME QueueInv, [Next]_vars
    PROVE  QueueInv'
<1>e. EnqMoves
    BY EnqStep
<1>1. CASE UNCHANGED queueVars
    <2>1. UNCHANGED <<rows, scheduled, tick, proc, recov, acked>>
        BY <1>1 DEF queueVars
    <2> QED
        BY <1>e, <2>1, QueueFrame DEF QueueInv, Shapes, Q!Stored, Q!Active
<1>2. ASSUME NEW i \in Ids, EnqueueStep(i) \/ Dispatched(i) \/ FailDispatch(i) PROVE QueueInv'
    BY <1>e, <1>2, CallKeeps DEF EnqueueStep, Dispatched, FailDispatch
<1>3. ASSUME NEW c \in Callers, NEW i \in Ids, Dispatch(c, i) PROVE QueueInv'
    BY <1>e, <1>3, CallKeeps DEF Dispatch
<1>4. ASSUME NEW w \in Workers,
             \/ Start(w) \/ Pass(w) \/ Sweep(w) \/ Crash(w)
             \/ \E i \in Ids : Process(w, i)
      PROVE  QueueInv'
    BY <1>e, <1>4, StartKeeps, PassKeeps, SweepKeeps, CrashKeeps, ProcessKeeps
<1>5. \/ UNCHANGED queueVars
      \/ \E i \in Ids : EnqueueStep(i) \/ Dispatched(i) \/ FailDispatch(i)
      \/ \E c \in Callers, i \in Ids : Dispatch(c, i)
      \/ \E w \in Workers : \/ Start(w) \/ Pass(w) \/ Sweep(w) \/ Crash(w)
                            \/ \E i \in Ids : Process(w, i)
    BY DEF Next, vars, World, FailHandler, Detect, Recover, DispatchBy, DispatchNothing,
           SessionStep, Call
<1> QED
    BY <1>1, <1>2, <1>3, <1>4, <1>5

-----------------------------------------------------------------------------
(* The events. *)

(* A caller about to announce a payment has recorded it; and it is either  *)
(* a recovery run, which has taken the session over, or the detector.      *)
LEMMA RowToAnnounce ==
    ASSUME SessionInv, NEW c \in Callers, AtDispatch(c)
    PROVE  /\ RowOf(c) \in payments
           /\ \/ c \in Detectors /\ det[c].pc = "confirmed" /\ RowOf(c) = det[c].row
              \/ RowOf(c)[1] \in takenOver
<1>1. CASE c \in Detectors
    <2>1. c \notin Recoverers /\ DetInv(c)
        BY <1>1, CallersAssumption DEF SessionInv
    <2> QED
        BY <1>1, <2>1 DEF AtDispatch, RowOf, DetInv
<1>2. CASE c \in Recoverers
    <2>1. c \notin Detectors /\ RecInv(c)
        BY <1>2, CallersAssumption DEF SessionInv
    <2> QED
        BY <1>2, <2>1 DEF AtDispatch, RowOf, RecInv
<1> QED
    BY <1>1, <1>2 DEF Callers

(* A new event: the detector has no other, nor has anybody else one of     *)
(* this session, unless a recovery run has taken it over.                  *)
LEMMA EventBegins ==
    ASSUME Inv, NEW c \in Callers, NEW i \in Ids, Dispatch(c, i)
    PROVE  EventInv'
<1> DEFINE row == RowOf(c)
<1>1. /\ row \in payments
      /\ \/ c \in Detectors /\ det[c].pc = "confirmed" /\ row = det[c].row
         \/ row[1] \in takenOver
    BY RowToAnnounce DEF Inv, Dispatch
<1>2. /\ ~Known(i) /\ Known(i)' /\ Q!Enqueueing(i)' /\ enq'[i].by = Home[c]
      /\ \A j \in Ids : j # i => enq'[j] = enq[j]
    BY EnqBegins DEF Inv
<1>3. UNCHANGED <<payments, takenOver, det>> /\ ~Calling(c)
    BY DEF Dispatch, sessionVars, AtDispatch
<1>4. /\ event' \in [Ids -> EventType]
      /\ event'[i].row = row /\ event'[i].by = c
      /\ \A j \in Ids : j # i => event'[j] = event[j]
    <2>1. [row |-> row, by |-> c] \in EventType
        BY <1>1 DEF EventType, Inv, SessionInv, SessionTypes
    <2>2. event' = [event EXCEPT ![i] = [row |-> row, by |-> c]]
        BY DEF Dispatch
    <2> QED
        BY <2>1, <2>2 DEF Inv, EventInv
<1> HIDE DEF row
<1>5. c # Nothing
    BY CallersAssumption DEF Callers
<1>6. ASSUME NEW j \in Ids PROVE EventOf(j)'
    <2>1. EventOf(j)
        BY DEF Inv, EventInv
    <2> QED
        BY <1>1, <1>2, <1>3, <1>4, <1>5, <2>1 DEF EventOf, Known
<1>7. ASSUME NEW d \in Detectors PROVE AnnounceInv(d)'
    <2> SUFFICES ASSUME det[d].pc = "confirmed", det[d].row[1] \notin takenOver,
                        NEW j \in Ids, Known(j)', event'[j].row[1] = det[d].row[1]
                 PROVE  event'[j].by = d /\ Q!Enqueueing(j)'
        BY <1>3 DEF AnnounceInv
    <2>1. CASE j # i
        <3>1. AnnounceInv(d)
            BY DEF Inv, EventInv
        <3> QED
            BY <1>2, <1>4, <2>1, <3>1 DEF AnnounceInv, Known, Q!Enqueueing
    <2>2. CASE j = i
        <3>1. c \in Detectors /\ det[c].pc = "confirmed" /\ det[c].row[1] = det[d].row[1]
            BY <1>1, <1>4, <2>2
        <3>2. ApartInv(c, d)
            BY <3>1 DEF Inv, SessionInv
        <3>3. c = d
            BY <3>1, <3>2 DEF ApartInv
        <3> QED
            BY <1>2, <1>4, <2>2, <3>3
    <2> QED
        BY <2>1, <2>2
<1>8. ASSUME NEW j \in Ids, j # i, event[j].by # Nothing, event[j].row[1] = row[1]
      PROVE  row[1] \in takenOver
    <2> SUFFICES ASSUME row[1] \notin takenOver PROVE FALSE
        OBVIOUS
    <2>1. Known(j)
        BY <1>8 DEF Inv, EventInv, EventOf
    <2>2. c \in Detectors /\ det[c].pc = "confirmed" /\ row = det[c].row
        BY <1>1
    <2>3. AnnounceInv(c)
        BY <2>2 DEF Inv, EventInv
    <2>4. event[j].by = c /\ Q!Enqueueing(j)
        BY <1>8, <2>1, <2>2, <2>3 DEF AnnounceInv
    <2> QED
        BY <1>3, <2>4 DEF Calling
<1>9. OneEventPerSession'
    BY <1>3, <1>4, <1>8 DEF OneEventPerSession, Inv, EventInv
<1> QED
    BY <1>4, <1>6, <1>7, <1>9 DEF EventInv

(* A detector whose call of enqueue ends is no longer about to announce    *)
(* anything.                                                               *)
LEMMA CallEnds ==
    ASSUME Inv, EnqMoves, NEW d \in Detectors, NEW i \in Ids, Known(i),
           event[i].by = d, Q!Enqueueing(i), ~Q!Enqueueing(i)'
    PROVE  det'[d].pc = "idle"
<1> USE DEF Inv, SessionInv, SessionTypes
<1>1. \/ Dispatched(i) \/ FailDispatch(i)
      \/ \E w \in Workers : Crash(w) /\ enq[i].by = w
    BY DEF EnqMoves
<1>2. d \notin Recoverers
    BY CallersAssumption
<1>3. CASE Dispatched(i) \/ FailDispatch(i)
    <2>1. S!DispatchWebhook(d) \/ S!FailDetector(d)
        BY <1>2, <1>3 DEF Dispatched, FailDispatch, Answered
    <2>2. det' = [det EXCEPT ![d] = S!IdleDet]
        BY <2>1 DEF S!DispatchWebhook, S!FailDetector
    <2> QED
        BY <2>2 DEF S!IdleDet
<1>4. CASE \E w \in Workers : Crash(w) /\ enq[i].by = w
    <2>1. enq[i].by = Home[d]
        BY DEF EventInv, EventOf
    <2>2. Crash(Home[d])
        BY <1>4, <2>1
    <2>3. det'[d] = S!IdleDet
        BY <2>2 DEF Crash
    <2> QED
        BY <2>3 DEF S!IdleDet
<1> QED
    BY <1>1, <1>3, <1>4

(* Every other step. *)
LEMMA EventsRest ==
    ASSUME Inv, EnqMoves, DetMoves, Write \/ Reads, UNCHANGED event,
           \A i \in Ids : Known(i)' => Known(i)
    PROVE  EventInv'
<1>w. payments \subseteq payments' /\ takenOver \subseteq takenOver'
    BY Writes DEF Inv
<1>k. \A i \in Ids : Known(i)' <=> Known(i)
    BY DEF EnqMoves
<1>1. ASSUME NEW i \in Ids PROVE EventOf(i)'
    <2>1. EventOf(i) /\ (Known(i) => enq'[i].by = enq[i].by)
        BY DEF Inv, EventInv, EnqMoves
    <2> QED
        BY <1>w, <1>k, <2>1 DEF EventOf
<1>2. ASSUME NEW d \in Detectors, det'[d] = det[d] \/ det'[d].pc # "confirmed"
      PROVE  AnnounceInv(d)'
    <2> SUFFICES ASSUME det'[d].pc = "confirmed", det'[d].row[1] \notin takenOver',
                        NEW i \in Ids, Known(i)', event'[i].row[1] = det'[d].row[1]
                 PROVE  event'[i].by = d /\ Q!Enqueueing(i)'
        BY DEF AnnounceInv
    <2>1. AnnounceInv(d)
        BY DEF Inv, EventInv
    <2>2. event[i].by = d /\ Q!Enqueueing(i) /\ Known(i)
        BY <1>2, <1>w, <1>k, <2>1 DEF AnnounceInv
    <2>3. Q!Enqueueing(i)'
        BY <2>2, CallEnds
    <2> QED
        BY <2>2, <2>3
<1>3. ASSUME NEW d \in Detectors, DetConfirms(d) PROVE AnnounceInv(d)'
    <2>1. /\ det[d].pc = "claimed" /\ det'[d].row = det[d].row /\ takenOver' = takenOver
        BY <1>3 DEF DetConfirms
    <2>2. ClaimInv(d) /\ \A i \in Ids : Known(i) => event[i].row \in payments
        BY DEF Inv, SessionInv, EventInv, EventOf
    <2> QED
        BY <1>k, <2>1, <2>2 DEF AnnounceInv, ClaimInv
<1>4. ASSUME NEW d \in Detectors PROVE AnnounceInv(d)'
    <2>1. \/ det'[d] = det[d] \/ det'[d] = S!IdleDet
          \/ DetClaims(d) \/ DetConfirms(d)
        BY DEF DetMoves, DetRest
    <2>2. DetClaims(d) => det'[d].pc # "confirmed"
        BY DEF DetClaims
    <2>3. det'[d] = S!IdleDet => det'[d].pc # "confirmed"
        BY DEF S!IdleDet
    <2> QED
        BY <1>2, <1>3, <2>1, <2>2, <2>3
<1>5. OneEventPerSession'
    BY <1>w DEF OneEventPerSession, Inv, EventInv
<1> QED
    BY <1>1, <1>4, <1>5 DEF Inv, EventInv

LEMMA EventStays ==
    ASSUME Inv, [Next]_vars
    PROVE  EventInv'
<1>1. EnqMoves /\ DetMoves /\ (Write \/ Reads)
    BY EnqStep, DetStep, WriteStep DEF Inv
<1>2. UNCHANGED event \/ \E c \in Callers, i \in Ids : Dispatch(c, i)
    BY DEF Next, vars, World, FailHandler, Detect, Recover, DispatchBy, DispatchNothing,
           SessionStep, QueueStep, Call, EnqueueStep, Dispatched, FailDispatch, Start, Pass,
           Sweep, Process, Crash
<1>3. CASE \E c \in Callers, i \in Ids : Dispatch(c, i)
    BY <1>3, EventBegins
<1>4. CASE ~\E c \in Callers, i \in Ids : Dispatch(c, i)
    BY <1>1, <1>2, <1>4, EventsRest DEF EnqMoves
<1> QED
    BY <1>3, <1>4

-----------------------------------------------------------------------------
(* The theorems. *)

LEMMA InitInv == Init => Inv
<1> SUFFICES ASSUME Init PROVE Inv
    OBVIOUS
<1> USE DEF Init
<1>1. SessionInv
    <2>1. SessionTypes
        BY DEF S!Init, S!IdleDet, S!IdleRec, S!Statuses, S!RecStates, SessionTypes, DetType,
               RecType
    <2>2. S!RecordedIsClosed
        BY DEF S!Init, S!RecordedIsClosed, S!HasPayment
    <2>3. \A d \in Detectors : det[d].pc = "idle"
        BY DEF S!Init, S!IdleDet
    <2>4. \A r \in Recoverers : RecInv(r)
        BY DEF S!Init, S!IdleRec, RecInv
    <2> QED
        BY <2>1, <2>2, <2>3, <2>4 DEF SessionInv, DetInv, ClaimInv, ApartInv
<1>2. \A i \in Ids : ~Known(i) /\ ~Q!Stored(i) /\ scheduled[i] = "no" /\ event[i] = NoEvent
    BY DEF Q!Init, Q!NewEnq, Q!Stored, Known
<1>3. QueueInv
    <2>1. Shapes
        BY DEF Q!Init, Q!NewEnq, Q!IdleTick, Q!IdleProc, Q!NoSweep, Shapes, EnqFields,
               TickFields, RecovFields
    <2>2. ASSUME NEW w \in Workers PROVE TickInv(w) /\ RecovInv(w)
        BY DEF Q!Init, Q!IdleTick, Q!NoSweep, TickInv, RecovInv
    <2>3. acked = {} /\ \A w \in Workers, i \in Ids : ~Q!Active(w, i)
        BY DEF Q!Init, Q!IdleProc, Q!Active
    <2> QED
        BY <1>2, <2>1, <2>2, <2>3 DEF QueueInv
<1>4. EventInv
    <2>1. event \in [Ids -> EventType]
        BY DEF NoEvent, EventType
    <2>2. \A i \in Ids : ~Known(i) /\ event[i].by = Nothing
        BY <1>2 DEF NoEvent
    <2> QED
        BY <2>1, <2>2 DEF EventInv, EventOf, AnnounceInv, OneEventPerSession
<1> QED
    BY <1>1, <1>3, <1>4 DEF Inv

LEMMA Invariance == Spec => []Inv
<1>1. Inv /\ [Next]_vars => Inv'
    BY SessionStays, QueueStays, EventStays DEF Inv
<1> QED
    BY <1>1, InitInv, PTL DEF Spec

(* However the detectors, the recovery runs, the scheduling passes and the *)
(* crashes interleave, a session that no recovery run has taken over has   *)
(* one event, under one delivery id: see OneEventPerSession.               *)
THEOREM OneEvent == Spec => []OneEventPerSession
<1>1. Inv => OneEventPerSession
    BY DEF Inv, EventInv
<1> QED
    BY <1>1, Invariance, PTL

(* The queue's part of the composition behaves as WebhookQueue says, so    *)
(* that what is proved there of its deliveries holds here.                 *)
THEOREM QueueBehaves == Spec => Q!Spec
<1>1. Init => Q!Init
    BY DEF Init
<1>2. Inv /\ [Next]_vars => [Q!Next]_(Q!vars)
    <2> SUFFICES ASSUME Inv, [Next]_vars PROVE [Q!Next]_(Q!vars)
        OBVIOUS
    <2>1. ASSUME UNCHANGED queueVars PROVE UNCHANGED Q!vars
        BY <2>1 DEF queueVars, Q!vars, Q!pg, Q!redis, Q!history, Q!counts
    <2>2. ASSUME NEW c \in Callers, NEW i \in Ids, Dispatch(c, i) PROVE Q!Next
        <3>1. Home[c] \in Workers
            BY HomeAssumption DEF Callers
        <3>2. RowOf(c)[1] \in Sessions
            BY <2>2, RowToAnnounce DEF Dispatch, Inv, SessionInv, SessionTypes, Payment
        <3> QED
            BY <2>2, <3>1, <3>2 DEF Dispatch, Q!Next
    <2>3. ASSUME NEW i \in Ids, EnqueueStep(i) \/ Dispatched(i) \/ FailDispatch(i) PROVE Q!Next
        BY <2>3 DEF EnqueueStep, Dispatched, FailDispatch, Q!EnqueueStep, Q!Next
    <2>4. ASSUME NEW w \in Workers,
                 \/ Start(w) \/ Pass(w) \/ Sweep(w) \/ Crash(w)
                 \/ \E i \in Ids : Process(w, i)
          PROVE  Q!Next
        BY <2>4 DEF Start, Pass, Sweep, Crash, Process, Q!Next
    <2> QED
        BY <2>1, <2>2, <2>3, <2>4
           DEF Next, vars, World, FailHandler, Detect, Recover, DispatchBy, DispatchNothing,
               SessionStep, Call
<1> QED
    BY <1>1, <1>2, Invariance, PTL DEF Spec, Q!Spec

-----------------------------------------------------------------------------
(* The checkout's promise. *)

Told == {event[i].row : i \in acked}

(* Only the endpoint's answer changes what the merchant has heard. *)
LEMMA TellStep ==
    ASSUME Inv, [Next]_vars
    PROVE  \/ Told' = Told
           \/ /\ UNCHANGED <<status, payments>>
              /\ \E row \in payments : Told' = Told \cup {row}
<1>1. ASSUME NEW w \in Workers, NEW i \in Ids, Process(w, i)
      PROVE  \/ Told' = Told
             \/ /\ UNCHANGED <<status, payments>>
                /\ \E row \in payments : Told' = Told \cup {row}
    <2>1. UNCHANGED <<status, payments, event>> /\ acked' \in {acked, acked \cup {i}}
        BY <1>1 DEF Process, QueueStep, sessionVars, Q!Process, Q!Deliver, Q!RecordDelivery,
               Q!DeadLetter, Q!Unschedule, Q!LeaveSession, Q!DeleteJob, Q!RewriteJob,
               Q!Reschedule, Q!history
    <2>2. Q!Active(w, i)
        BY <1>1 DEF Process, Q!Process, Q!Deliver, Q!RecordDelivery, Q!DeadLetter, Q!Unschedule,
               Q!LeaveSession, Q!DeleteJob, Q!RewriteJob, Q!Reschedule, Q!Active
    <2>3. event[i].row \in payments
        BY <2>2 DEF Inv, QueueInv, EventInv, EventOf
    <2>4. acked' = acked \cup {i} => Told' = Told \cup {event[i].row}
        BY <2>1 DEF Told
    <2>5. acked' = acked => Told' = Told
        BY <2>1 DEF Told
    <2> QED
        BY <2>1, <2>3, <2>4, <2>5
<1>2. ASSUME NEW c \in Callers, NEW i \in Ids, Dispatch(c, i) PROVE Told' = Told
    <2>1. UNCHANGED acked /\ \A j \in Ids : j # i => event'[j] = event[j]
        BY <1>2 DEF Dispatch, Q!Enqueue, Q!StartEnqueue, Q!history, Inv, EventInv
    <2>2. i \notin acked /\ acked \subseteq Ids
        BY <1>2, EnqBegins DEF Inv, QueueInv
    <2> QED
        BY <2>1, <2>2 DEF Told
<1>3. ASSUME UNCHANGED <<acked, event>> PROVE Told' = Told
    BY <1>3 DEF Told
<1>4. \/ UNCHANGED <<acked, event>>
      \/ \E c \in Callers, i \in Ids : Dispatch(c, i)
      \/ \E w \in Workers, i \in Ids : Process(w, i)
    <2>1. ASSUME NEW w \in Workers, Start(w) \/ Pass(w) \/ Sweep(w) \/ Crash(w)
          PROVE  UNCHANGED <<acked, event>>
        BY <2>1 DEF Start, Pass, Sweep, Crash, QueueStep, Q!Start, Q!Tick, Q!TickStart,
               Q!ReadJob, Q!DropDue, Q!CheckHead, Q!Dispatch, Q!Sweep, Q!CheckJob, Q!ReviveJob,
               Q!ReviveOrder, Q!ReviveSchedule, Q!FinishSweep, Q!Crash, Q!history
    <2>2. ASSUME NEW i \in Ids, EnqueueStep(i) \/ Dispatched(i) \/ FailDispatch(i)
          PROVE  UNCHANGED <<acked, event>>
        BY <2>2 DEF EnqueueStep, Dispatched, FailDispatch, QueueStep, Q!InsertRow, Q!WriteJob,
               Q!JoinSession, Q!Schedule, Q!FailEnqueue, Q!history
    <2> QED
        BY <2>1, <2>2 DEF Next, vars, queueVars, World, FailHandler, Detect, Recover,
               DispatchBy, DispatchNothing, SessionStep, Call
<1> QED
    BY <1>1, <1>2, <1>3, <1>4

LEMMA ViewOf ==
    ASSUME SessionTypes, NEW s \in Sessions, NEW st, SetTo(s, st)
    PROVE  S!View' = [S!View EXCEPT ![s] =
               IF st \in {"pending", "processing"} THEN "open" ELSE st]
BY DEF S!View, SetTo, SessionTypes

LEMMA PromiseStep ==
    ASSUME Inv, [Next]_vars
    PROVE  [Promise!Next]_<<S!View, payments, Told>>
<1> USE DEF Inv, SessionInv
<1>1. CASE Told' # Told
    <2>1. PICK row \in payments : Told' = Told \cup {row}
        BY <1>1, TellStep
    <2>2. PICK s \in Sessions, t \in Txs : row = <<s, t>>
        BY DEF SessionTypes, Payment
    <2>3. UNCHANGED <<S!View, payments>>
        BY <1>1, TellStep DEF S!View
    <2>4. Promise!Tell(s, t)
        BY <2>1, <2>2, <2>3 DEF Promise!Tell, Told
    <2> QED
        BY <2>4 DEF Promise!Next
<1>2. ASSUME Told' = Told, NEW s \in Sessions, Opens(s) PROVE Promise!Open(s)
    <2>1. S!View[s] = "none" /\ S!View' = [S!View EXCEPT ![s] = "open"]
        BY <1>2, ViewOf DEF Opens, S!View
    <2> QED
        BY <1>2, <2>1 DEF Opens, Promise!Open, Told
<1>3. ASSUME NEW s \in Sessions, Exists(s) PROVE S!View[s] # "none"
    BY <1>3 DEF Exists, S!View
<1>4. ASSUME NEW s \in Sessions, Claims(s) \/ GivesBack(s) PROVE UNCHANGED <<S!View, payments>>
    <2>1. UNCHANGED payments /\ S!View[s] = "open"
        BY <1>4 DEF Claims, GivesBack, S!View
    <2>2. S!View' = [S!View EXCEPT ![s] = "open"]
        BY <1>4, ViewOf DEF Claims, GivesBack
    <2> QED
        BY <2>1, <2>2 DEF S!View
<1>5. ASSUME Told' = Told, NEW s \in Sessions, NEW t \in Txs, Records(s, t)
      PROVE  Promise!Confirm(s, t)
    <2>1. S!View' = [S!View EXCEPT ![s] = "paid"]
        BY <1>5, ViewOf DEF Records
    <2> QED
        BY <1>3, <1>5, <2>1 DEF Records, Promise!Confirm, Told
<1>6. ASSUME Told' = Told, NEW s \in Sessions, NEW how \in {"paid", "expired"}, Closes(s, how)
      PROVE  Promise!Close(s, how)
    <2>1. S!View' = [S!View EXCEPT ![s] = how]
        BY <1>6, ViewOf DEF Closes
    <2> QED
        BY <1>3, <1>6, <2>1 DEF Closes, Promise!Close, Promise!OnRecord, S!HasPayment, Told
<1>7. CASE Told' = Told /\ Write
    BY <1>2, <1>4, <1>5, <1>6, <1>7 DEF Write, Promise!Next
<1>8. CASE Told' = Told /\ Reads
    BY <1>8 DEF Reads, S!View
<1> QED
    BY <1>1, <1>7, <1>8, WriteStep

(* From the payment to the merchant's endpoint, the program implements     *)
(* CheckoutPromise: what the endpoint has acknowledged is a payment on     *)
(* record, a session is shown as paid only with one, and a closed session  *)
(* is never open again, whatever fails in between: see KeepsPromise.       *)
THEOREM EndToEnd == Spec => KeepsPromise
<1>1. Init => Promise!Init
    BY DEF Init, S!Init, Q!Init, Promise!Init, S!View
<1>2. Inv /\ [Next]_vars => [Promise!Next]_<<S!View, payments, Told>>
    BY PromiseStep
<1> QED
    BY Invariance, <1>1, <1>2, PTL DEF Spec, KeepsPromise, Promise!Spec, Promise!promised, Told

=============================================================================
