--------------------------- MODULE PaymentPolling ---------------------------
(***************************************************************************)
(* How the payment operations of the Stellar ledger reach processPayment:  *)
(* the polling loop of payment-detector.service.ts on several instances,   *)
(* the leader lock, the cursor and the checkpoint log they share in Redis  *)
(* (payment-cursor.service.ts) and the page Horizon returns for a cursor   *)
(* (stellar.service.ts).                                                   *)
(*                                                                         *)
(* Operations are numbered in ledger order by their paging tokens, so the  *)
(* operations of a page are those after the cursor.  What processPayment   *)
(* does with an operation is SessionLifecycle's subject; here it returns,  *)
(* throws, or is never heard of again.  An action is one call awaited by   *)
(* the loop.  No call has a timeout: neither axios.get nor the Redis       *)
(* client is given one.                                                    *)
(*                                                                         *)
(* A definition headed "Variant" is a plausible mistake in the definition  *)
(* that follows it.  No behaviour of the system uses it: it shows that a   *)
(* property notices the mistake.                                           *)
(***************************************************************************)
EXTENDS Naturals

CONSTANTS
    Instances,     \* instances of the service
    NoOne,         \* the lock key is absent
    PersistEvery,  \* PERSIST_EVERY
    PageSize,      \* the limit of a Horizon page
    MaxOps,        \* bound: payment operations on the ledger
    MaxFaults      \* bound: crashes, shutdowns, exceptions, calls never answered
                   \* and expired keys

ASSUME NoOneAssumption == NoOne \notin Instances
ASSUME SizesAssumption == PersistEvery \in Nat \ {0} /\ PageSize \in Nat \ {0}
ASSUME BoundsAssumption == MaxOps \in Nat /\ MaxFaults \in Nat

VARIABLES
    tip,         \* the last operation on the ledger
    processed,   \* operations for which a processPayment call has returned
    lock,        \* Redis: the leader lock, an instance or NoOne
    stored,      \* Redis: the cursor key; 0 if absent
    checkpoint,  \* Redis: the newest entry of the checkpoint log; 0 if absent
    inst,        \* the polling loop of each instance
    faults

shared == <<tip, processed, lock, stored, checkpoint>>
vars   == <<shared, inst, faults>>

(* Tokens start at 1; 0 is the cursor 'now', the token of an absent key.   *)
Now     == 0
Tokens  == 0..MaxOps

(* The operations up to token k. *)
UpTo(k) == 1..k

(* One loop: where it waits, the field cursor, the cursor before the last  *)
(* operation, opsSinceFlush, the end of its page, the field polling, and   *)
(* how far onModuleDestroy has come.                                       *)
DownLoop == [pc |-> "down", cursor |-> Now, prev |-> Now, ops |-> 0, last |-> 0,
             polling |-> FALSE, release |-> "no"]

Init ==
    /\ tip = 0
    /\ processed = {}
    /\ lock = NoOne
    /\ stored = 0
    /\ checkpoint = 0
    /\ inst = [i \in Instances |-> DownLoop]
    /\ faults = 0

At(i, pc)   == inst[i].pc = pc
GoTo(i, pc) == inst' = [inst EXCEPT ![i].pc = pc]

Fault == faults < MaxFaults /\ faults' = faults + 1

-----------------------------------------------------------------------------
(* A customer pays. *)
NewOperation ==
    /\ tip < MaxOps
    /\ tip' = tip + 1
    /\ UNCHANGED <<processed, lock, stored, checkpoint, inst, faults>>

-----------------------------------------------------------------------------
(* onModuleInit: restoreCursor reads the cursor key ...                    *)
Start(i) ==
    /\ At(i, "down")
    /\ inst' = [inst EXCEPT ![i] =
          [DownLoop EXCEPT !.pc = IF stored = 0 THEN "poll" ELSE "restore",
                           !.cursor = IF stored = 0 THEN Now ELSE stored,
                           !.polling = (stored = 0)]]
    /\ UNCHANGED <<shared, faults>>

(* ... and rolls back to the newest checkpoint if the cursor is ahead of it. *)
RestoreCursor(i) ==
    /\ At(i, "restore")
    /\ inst' = [inst EXCEPT ![i].pc = "poll",
                            ![i].cursor = IF checkpoint # 0 /\ @ > checkpoint
                                          THEN checkpoint ELSE @,
                            ![i].polling = TRUE]
    /\ UNCHANGED <<shared, faults>>

-----------------------------------------------------------------------------
(* The head of the loop: renewLock || acquireLock. *)

(* renewLock, first call: GET.  The loop goes on only while polling. *)
RenewLock(i) ==
    /\ At(i, "poll") /\ inst[i].polling
    /\ GoTo(i, IF lock = i THEN "renew" ELSE "acquire")
    /\ UNCHANGED <<shared, faults>>

(* renewLock, second call: EXPIRE.  Whoever holds the key by now, the      *)
(* answer is true.                                                         *)
ExtendLock(i) ==
    /\ At(i, "renew")
    /\ GoTo(i, "fetch")
    /\ UNCHANGED <<shared, faults>>

(* Variant: SET EX without NX. *)
SetLock(i) ==
    /\ At(i, "acquire")
    /\ lock' = i
    /\ GoTo(i, "fetch")
    /\ UNCHANGED <<tip, processed, stored, checkpoint, faults>>

(* acquireLock: SET NX EX. *)
AcquireLock(i) ==
    /\ At(i, "acquire")
    /\ lock' = IF lock = NoOne THEN i ELSE lock
    /\ GoTo(i, IF lock = NoOne THEN "fetch" ELSE "poll")
    /\ UNCHANGED <<tip, processed, stored, checkpoint, faults>>

-----------------------------------------------------------------------------
(* The body of the loop: one page. *)

(* Variant: the cursor 'now' starts behind the last operation. *)
FetchFromNow(i) ==
    LET from == IF inst[i].cursor = Now THEN tip ELSE inst[i].cursor
        end  == IF from + PageSize < tip THEN from + PageSize ELSE tip
    IN /\ At(i, "fetch")
       /\ inst' = [inst EXCEPT ![i].pc = IF end > from THEN "process" ELSE "poll",
                               ![i].cursor = from,
                               ![i].last = end]
       /\ UNCHANGED <<shared, faults>>

(* getPaymentsPage: no cursor parameter for 'now', so Horizon's page then  *)
(* begins with the first operation of the account.                         *)
Fetch(i) ==
    LET from == inst[i].cursor
        end  == IF from + PageSize < tip THEN from + PageSize ELSE tip
    IN /\ At(i, "fetch")
       /\ inst' = [inst EXCEPT ![i].pc = IF end > from THEN "process" ELSE "poll",
                               ![i].last = end]
       /\ UNCHANGED <<shared, faults>>

(* processPayment returns; cursor and opsSinceFlush move on in the same    *)
(* step, as no await separates them.                                       *)
Process(i) ==
    /\ At(i, "process")
    /\ processed' = processed \cup {inst[i].cursor + 1}
    /\ inst' = [inst EXCEPT ![i].pc = "checkpoint",
                            ![i].prev = inst[i].cursor,
                            ![i].cursor = @ + 1,
                            ![i].ops = @ + 1]
    /\ UNCHANGED <<tip, lock, stored, checkpoint, faults>>

NextOperation(i) == IF inst[i].cursor < inst[i].last THEN "process" ELSE "poll"

(* appendCheckpoint.  Only the newest entry of the log is ever read. *)
AppendCheckpoint(i) ==
    /\ At(i, "checkpoint")
    /\ checkpoint' = inst[i].cursor
    /\ GoTo(i, IF inst[i].ops >= PersistEvery THEN "flush" ELSE NextOperation(i))
    /\ UNCHANGED <<tip, processed, lock, stored, faults>>

(* Variant: the cursor after the last operation is stored. *)
UpdateToNext(i) ==
    /\ At(i, "flush")
    /\ stored' = IF stored \in {0, inst[i].prev} THEN inst[i].cursor + 1 ELSE stored
    /\ inst' = [inst EXCEPT ![i].pc = NextOperation(i), ![i].ops = 0]
    /\ UNCHANGED <<tip, processed, lock, checkpoint, faults>>

(* Variant: the cursor is set, whatever is stored. *)
SetCursor(i) ==
    /\ At(i, "flush")
    /\ stored' = inst[i].cursor
    /\ inst' = [inst EXCEPT ![i].pc = NextOperation(i), ![i].ops = 0]
    /\ UNCHANGED <<tip, processed, lock, checkpoint, faults>>

(* updateCursor: compare-and-swap against the cursor before the last       *)
(* operation; opsSinceFlush is reset whether or not it succeeds.           *)
UpdateCursor(i) ==
    /\ At(i, "flush")
    /\ stored' = IF stored \in {0, inst[i].prev} THEN inst[i].cursor ELSE stored
    /\ inst' = [inst EXCEPT ![i].pc = NextOperation(i), ![i].ops = 0]
    /\ UNCHANGED <<tip, processed, lock, checkpoint, faults>>

(* Variant: the loop ends with the page whose processing throws. *)
ThrowAndStop(i) ==
    /\ inst[i].pc \in {"fetch", "process", "checkpoint", "flush"}
    /\ Fault
    /\ inst' = [inst EXCEPT ![i].pc = "poll", ![i].polling = FALSE]
    /\ UNCHANGED shared

(* An awaited call of the body throws: the catch block abandons the page.  *)
(* What had been assigned before the call stays assigned.                  *)
Throw(i) ==
    /\ inst[i].pc \in {"fetch", "process", "checkpoint", "flush"}
    /\ Fault
    /\ GoTo(i, "poll")
    /\ UNCHANGED shared

(* An awaited call of the election throws, outside the try: the loop is    *)
(* over.  Nobody awaits startPolling or handles its rejection, so Node     *)
(* ends the process, unless it was told to go on after such a rejection.   *)
FailElection(i) ==
    /\ inst[i].polling /\ inst[i].pc \in {"poll", "renew", "acquire"}
    /\ Fault
    /\ \/ inst' = [inst EXCEPT ![i] = DownLoop]
       \/ GoTo(i, "stuck")
    /\ UNCHANGED shared

(* A call of the loop or of the shutdown is never answered. *)
Hang(i) ==
    /\ \/ /\ inst[i].polling \/ inst[i].pc # "poll"
          /\ inst[i].pc \notin {"down", "stuck"}
          /\ GoTo(i, "stuck")
       \/ /\ inst[i].release \in {"get", "del"}
          /\ inst' = [inst EXCEPT ![i].release = "stuck"]
    /\ Fault
    /\ UNCHANGED shared

-----------------------------------------------------------------------------
(* Shutdown, crash and expiry. *)

(* onModuleDestroy: polling ends at the next head of the loop, while       *)
(* releaseLock runs beside it: GET, then DEL.                              *)
Destroy(i) ==
    /\ inst[i].polling
    /\ Fault
    /\ inst' = [inst EXCEPT ![i].polling = FALSE, ![i].release = "get"]
    /\ UNCHANGED shared

ReleaseLock(i) ==
    /\ inst[i].release = "get"
    /\ inst' = [inst EXCEPT ![i].release = IF lock = i THEN "del" ELSE "done"]
    /\ UNCHANGED <<shared, faults>>

DeleteLock(i) ==
    /\ inst[i].release = "del"
    /\ lock' = NoOne
    /\ inst' = [inst EXCEPT ![i].release = "done"]
    /\ UNCHANGED <<tip, processed, stored, checkpoint, faults>>

(* The process exits once the shutdown hooks are done, loop or no loop. *)
Exit(i) ==
    /\ inst[i].release = "done"
    /\ inst' = [inst EXCEPT ![i] = DownLoop]
    /\ UNCHANGED <<shared, faults>>

Crash(i) ==
    /\ ~At(i, "down")
    /\ Fault
    /\ inst' = [inst EXCEPT ![i] = DownLoop]
    /\ UNCHANGED shared

(* The loop of the instance will not renew a lock any more. *)
LoopIsOver(i) ==
    \/ inst[i].pc \in {"down", "stuck"}
    \/ At(i, "poll") /\ ~inst[i].polling

(* The lock of an instance that does not renew it runs out. *)
LockExpires ==
    /\ lock # NoOne /\ LoopIsOver(lock)
    /\ lock' = NoOne
    /\ UNCHANGED <<tip, processed, stored, checkpoint, inst, faults>>

(* An iteration takes longer than LOCK_TTL_S. *)
LockOutlived ==
    /\ lock # NoOne /\ ~LoopIsOver(lock)
    /\ Fault
    /\ lock' = NoOne
    /\ UNCHANGED <<tip, processed, stored, checkpoint, inst>>

(* A day passes without a write to the key, or Redis has lost it. *)
KeyExpires ==
    /\ Fault
    /\ \/ stored # 0     /\ stored' = 0     /\ UNCHANGED checkpoint
       \/ checkpoint # 0 /\ checkpoint' = 0 /\ UNCHANGED stored
    /\ UNCHANGED <<tip, processed, lock, inst>>

-----------------------------------------------------------------------------
(* The steps the event loop of an instance takes by itself. *)
Loop(i) ==
    \/ RestoreCursor(i)
    \/ RenewLock(i) \/ ExtendLock(i) \/ AcquireLock(i)
    \/ Fetch(i) \/ Process(i) \/ AppendCheckpoint(i) \/ UpdateCursor(i)

Shutdown(i) == ReleaseLock(i) \/ DeleteLock(i) \/ Exit(i)

Next ==
    \/ NewOperation
    \/ \E i \in Instances :
          \/ Start(i) \/ Loop(i) \/ Shutdown(i)
          \/ Throw(i) \/ FailElection(i) \/ Hang(i)
          \/ Destroy(i) \/ Crash(i)
    \/ LockExpires \/ LockOutlived \/ KeyExpires

Spec == Init /\ [][Next]_vars

(* An instance that is down is started again, and Redis drops a lock that  *)
(* nobody renews.  The loop and the shutdown go on when their calls are    *)
(* answered; the call that never is takes Hang, after which fairness asks  *)
(* nothing of the loop any more.                                           *)
Fairness ==
    /\ \A i \in Instances : WF_vars(Start(i)) /\ WF_vars(Loop(i)) /\ WF_vars(Shutdown(i))
    /\ WF_vars(LockExpires)

FairSpec == Spec /\ Fairness

-----------------------------------------------------------------------------
Places == {"down", "restore", "poll", "renew", "acquire", "fetch", "process",
           "checkpoint", "flush", "stuck"}

(* The type invariant: keys, loops and counters have values the code can   *)
(* give them.                                                              *)
TypeOK ==
    /\ tip \in Tokens
    /\ processed \subseteq UpTo(tip)
    /\ lock \in Instances \cup {NoOne}
    /\ stored \in Tokens
    /\ checkpoint \in Tokens
    /\ inst \in [Instances -> [pc : Places, cursor : Tokens, prev : Tokens, ops : Nat,
                               last : Tokens, polling : BOOLEAN,
                               release : {"no", "get", "del", "done", "stuck"}]]
    /\ faults \in 0..MaxFaults

(* At least once: no cursor, in the memory of an instance or in Redis, is  *)
(* past an operation that processPayment has not returned from, so neither *)
(* the loop nor a restart on any of them skips a payment.                  *)
NothingSkipped ==
    /\ UpTo(stored) \subseteq processed
    /\ UpTo(checkpoint) \subseteq processed
    /\ \A i \in Instances : UpTo(inst[i].cursor) \subseteq processed

(* A page holds no operation the ledger does not have, a loop that is      *)
(* about to process has one left in its page, and one that is about to     *)
(* flush compares with the cursor before the last operation.               *)
LoopsAreInPage ==
    \A i \in Instances :
        /\ inst[i].cursor <= tip /\ inst[i].last <= tip
        /\ At(i, "process") => inst[i].cursor < inst[i].last
        /\ inst[i].pc \in {"checkpoint", "flush"} => inst[i].cursor = inst[i].prev + 1

(* The compare-and-swap: a replica that lags behind never moves the stored *)
(* cursor back ("CAS prevents a stale replica from overwriting a newer     *)
(* cursor").                                                               *)
StoredOnlyAdvances ==
    [][stored # 0 /\ stored' # 0 => stored' >= stored]_vars

Leading(i) == inst[i].pc \in {"fetch", "process", "checkpoint", "flush"}

(* Leader election: at most one instance is working on a page, as long as  *)
(* no lock runs out under its holder and none has crashed or thrown.       *)
OneLeader ==
    faults = 0 => \A i, j \in Instances : Leading(i) /\ Leading(j) => i = j

(* A flush persists the latest cursor, however many have gone before       *)
(* ("persists the latest cursor across multiple flush cycles").            *)
FlushPersists ==
    [][\A i \in Instances : UpdateCursor(i) => stored' = inst[i].cursor]_vars

(* The instance waits for an answer that never comes, or its loop has      *)
(* ended while the process lives on.                                       *)
Stuck(i) == inst[i].pc = "stuck" \/ inst[i].release = "stuck"

(* Every payment operation is processed, whatever crashes, shutdowns and   *)
(* exceptions come before, and although calls may never be answered: a     *)
(* leader that is stuck loses the lock to another instance.  Only when     *)
(* every instance is stuck does the ledger wait.                           *)
EveryOperationProcessed ==
    \A k \in 1..MaxOps : tip >= k ~> k \in processed \/ \A i \in Instances : Stuck(i)

=============================================================================
