------------------------ MODULE PaymentPollingProofs ------------------------
(* What PaymentPolling guarantees for any instances, page size, flush      *)
(* interval, ledger length and number of faults.                           *)
EXTENDS PaymentPolling, TLAPS

(* The inductive invariant. *)
Inv == TypeOK /\ LoopsAreInPage /\ NothingSkipped

(* Initially no loop runs and no key is set. *)
LEMMA InitInv == Init => Inv
BY BoundsAssumption
   DEF Init, Inv, TypeOK, Places, Tokens, Now, DownLoop, LoopsAreInPage, NothingSkipped, UpTo, At

LoopType == [pc : Places, cursor : Tokens, prev : Tokens, ops : Nat, last : Tokens,
             polling : BOOLEAN, release : {"no", "get", "del", "done", "stuck"}]

(* What Inv says of one loop. *)
LoopInv(i) ==
    /\ inst[i] \in LoopType
    /\ inst[i].cursor <= tip /\ inst[i].last <= tip
    /\ At(i, "process") => inst[i].cursor < inst[i].last
    /\ inst[i].pc \in {"checkpoint", "flush"} => inst[i].cursor = inst[i].prev + 1
    /\ UpTo(inst[i].cursor) \subseteq processed

(* What Inv says of the keys and counters, when processed has that value.  *)
KeysInv ==
    /\ tip \in Tokens /\ processed \subseteq UpTo(tip)
    /\ lock \in Instances \cup {NoOne}
    /\ stored \in Tokens /\ UpTo(stored) \subseteq processed
    /\ checkpoint \in Tokens /\ UpTo(checkpoint) \subseteq processed
    /\ faults \in 0..MaxFaults

LEMMA InvParts ==
    Inv <=> /\ KeysInv
            /\ inst \in [Instances -> LoopType]
            /\ \A i \in Instances : LoopInv(i)
BY DEF Inv, TypeOK, LoopsAreInPage, NothingSkipped, KeysInv, LoopInv, LoopType

(* A token up to which everything is processed is on the ledger. *)
LEMMA ProcessedOnLedger ==
    ASSUME KeysInv, NEW k \in Tokens, UpTo(k) \subseteq processed
    PROVE  k <= tip
<1>1. CASE k = 0
    BY <1>1, BoundsAssumption DEF KeysInv, Tokens
<1>2. CASE k # 0
    BY <1>2, BoundsAssumption DEF KeysInv, Tokens, UpTo
<1> QED
    BY <1>1, <1>2

(* A step of one loop touches no other loop. *)
LEMMA OneLoop ==
    ASSUME Inv, NEW i \in Instances, KeysInv', LoopInv(i)',
           tip <= tip', processed \subseteq processed',
           inst' = [inst EXCEPT ![i] = inst'[i]]
    PROVE  Inv'
<1> USE InvParts
<1>1. \A j \in Instances : j # i => inst'[j] = inst[j]
    OBVIOUS
<1>2. \A j \in Instances : j # i => LoopInv(j)'
    BY <1>1, BoundsAssumption DEF LoopInv, LoopType, KeysInv, Tokens, At
<1>3. inst' \in [Instances -> LoopType]
    BY DEF LoopInv
<1> QED
    BY <1>2, <1>3
       DEF Inv, TypeOK, LoopsAreInPage, NothingSkipped, KeysInv, LoopInv, LoopType

(* The loop's own steps. *)
LEMMA LoopStep ==
    ASSUME Inv, NEW i \in Instances, Start(i) \/ Loop(i)
    PROVE  Inv'
<1>a. KeysInv /\ inst \in [Instances -> LoopType] /\ LoopInv(i)
    BY InvParts
<1>n. /\ MaxOps \in Nat /\ MaxFaults \in Nat
      /\ PersistEvery \in Nat \ {0} /\ PageSize \in Nat \ {0}
    BY BoundsAssumption, SizesAssumption
<1>1. CASE Start(i)
    <2>1. inst' = [inst EXCEPT ![i] = inst'[i]]
      BY <1>1, <1>a DEF Start, DownLoop, At, GoTo
    <2>2. stored <= tip
      BY <1>a, ProcessedOnLedger DEF KeysInv
    <2>r. inst'[i] = [pc |-> IF stored = 0 THEN "poll" ELSE "restore",
                      cursor |-> IF stored = 0 THEN Now ELSE stored, prev |-> Now,
                      ops |-> 0, last |-> 0, polling |-> (stored = 0), release |-> "no"]
      BY <1>1, <1>a DEF Start, DownLoop, At, GoTo, LoopInv, LoopType
    <2>u. KeysInv' /\ tip <= tip' /\ processed \subseteq processed'
      BY <1>1, <1>a, <1>n
         DEF Start, DownLoop, At, KeysInv, Tokens, UpTo, LoopInv, LoopType, shared
    <2>l. LoopInv(i)'
      <3>1. /\ inst'[i].cursor = stored /\ inst'[i].last = 0 /\ inst'[i] \in LoopType
            /\ inst'[i].pc \in {"poll", "restore"}
        BY <1>a, <1>n, <2>r DEF LoopType, KeysInv, Places, Tokens, Now
      <3> QED
        BY <1>1, <1>a, <1>n, <2>2, <3>1 DEF Start, shared, LoopInv, KeysInv, Tokens, At
    <2> QED
      BY <2>1, <2>u, <2>l, OneLoop
<1>2. CASE RestoreCursor(i)
    <2>1. inst' = [inst EXCEPT ![i] = inst'[i]]
      BY <1>2, <1>a DEF RestoreCursor, At, GoTo
    <2>2. checkpoint <= tip
      BY <1>a, ProcessedOnLedger DEF KeysInv
    <2>r. inst'[i] = [inst[i] EXCEPT !.pc = "poll",
                                     !.cursor = IF checkpoint # 0 /\ @ > checkpoint
                                                THEN checkpoint ELSE @,
                                     !.polling = TRUE]
      BY <1>2, <1>a DEF RestoreCursor, At, GoTo, LoopInv, LoopType
    <2>u. KeysInv' /\ tip <= tip' /\ processed \subseteq processed'
      BY <1>2, <1>a, <1>n
         DEF RestoreCursor, At, KeysInv, Tokens, UpTo, LoopInv, LoopType, shared
    <2>l. LoopInv(i)'
      BY <1>2, <1>a, <1>n, <2>r, <2>2
         DEF RestoreCursor, LoopInv, LoopType, KeysInv, Places, Tokens, UpTo, Now, At,
             shared
    <2> QED
      BY <2>1, <2>u, <2>l, OneLoop
<1>3. CASE RenewLock(i)
    <2>1. inst' = [inst EXCEPT ![i] = inst'[i]]
      BY <1>3, <1>a DEF RenewLock, At, GoTo
    <2>r. inst'[i] = [inst[i] EXCEPT !.pc = IF lock = i THEN "renew" ELSE "acquire"]
      BY <1>3, <1>a DEF RenewLock, At, GoTo, LoopInv, LoopType
    <2>u. KeysInv' /\ tip <= tip' /\ processed \subseteq processed'
      BY <1>3, <1>a, <1>n
         DEF RenewLock, At, KeysInv, Tokens, UpTo, LoopInv, LoopType, shared
    <2>l. LoopInv(i)'
      BY <1>3, <1>a, <1>n, <2>r
         DEF RenewLock, LoopInv, LoopType, KeysInv, Places, Tokens, UpTo, Now, At,
             shared
    <2> QED
      BY <2>1, <2>u, <2>l, OneLoop
<1>4. CASE ExtendLock(i)
    <2>1. inst' = [inst EXCEPT ![i] = inst'[i]]
      BY <1>4, <1>a DEF ExtendLock, At, GoTo
    <2>r. inst'[i] = [inst[i] EXCEPT !.pc = "fetch"]
      BY <1>4, <1>a DEF ExtendLock, At, GoTo, LoopInv, LoopType
    <2>u. KeysInv' /\ tip <= tip' /\ processed \subseteq processed'
      BY <1>4, <1>a, <1>n
         DEF ExtendLock, At, KeysInv, Tokens, UpTo, LoopInv, LoopType, shared
    <2>l. LoopInv(i)'
      BY <1>4, <1>a, <1>n, <2>r
         DEF ExtendLock, LoopInv, LoopType, KeysInv, Places, Tokens, UpTo, Now, At,
             shared
    <2> QED
      BY <2>1, <2>u, <2>l, OneLoop
<1>5. CASE AcquireLock(i)
    <2>1. inst' = [inst EXCEPT ![i] = inst'[i]]
      BY <1>5, <1>a DEF AcquireLock, At, GoTo
    <2>r. inst'[i] = [inst[i] EXCEPT !.pc = IF lock = NoOne THEN "fetch" ELSE "poll"]
      BY <1>5, <1>a DEF AcquireLock, At, GoTo, LoopInv, LoopType
    <2>u. KeysInv' /\ tip <= tip' /\ processed \subseteq processed'
      BY <1>5, <1>a, <1>n
         DEF AcquireLock, At, KeysInv, Tokens, UpTo, LoopInv, LoopType, shared
    <2>l. LoopInv(i)'
      BY <1>5, <1>a, <1>n, <2>r
         DEF AcquireLock, LoopInv, LoopType, KeysInv, Places, Tokens, UpTo, Now, At,
             shared
    <2> QED
      BY <2>1, <2>u, <2>l, OneLoop
<1>6. CASE Process(i)
    <2>1. inst' = [inst EXCEPT ![i] = inst'[i]]
      BY <1>6, <1>a DEF Process, At, GoTo
    <2>r. inst'[i] = [inst[i] EXCEPT !.pc = "checkpoint", !.prev = inst[i].cursor,
                                      !.cursor = @ + 1, !.ops = @ + 1]
      BY <1>6, <1>a DEF Process, At, GoTo, LoopInv, LoopType
    <2>u. KeysInv' /\ tip <= tip' /\ processed \subseteq processed'
      BY <1>6, <1>a, <1>n
         DEF Process, At, KeysInv, Tokens, UpTo, LoopInv, LoopType, shared
    <2>l. LoopInv(i)'
      BY <1>6, <1>a, <1>n, <2>r
         DEF Process, LoopInv, LoopType, KeysInv, Places, Tokens, UpTo, Now, At, shared
    <2> QED
      BY <2>1, <2>u, <2>l, OneLoop
<1>7. CASE AppendCheckpoint(i)
    <2>1. inst' = [inst EXCEPT ![i] = inst'[i]]
      BY <1>7, <1>a DEF AppendCheckpoint, At, GoTo
    <2>r. inst'[i] = [inst[i] EXCEPT !.pc = IF inst[i].ops >= PersistEvery
                                             THEN "flush" ELSE NextOperation(i)]
      BY <1>7, <1>a DEF AppendCheckpoint, At, GoTo, LoopInv, LoopType
    <2>u. KeysInv' /\ tip <= tip' /\ processed \subseteq processed'
      BY <1>7, <1>a, <1>n
         DEF AppendCheckpoint, At, KeysInv, Tokens, UpTo, LoopInv, LoopType, shared
    <2>l. LoopInv(i)'
      BY <1>7, <1>a, <1>n, <2>r
         DEF AppendCheckpoint, NextOperation, LoopInv, LoopType, KeysInv, Places,
             Tokens, UpTo, Now, At, shared
    <2> QED
      BY <2>1, <2>u, <2>l, OneLoop
<1>8. CASE UpdateCursor(i)
    <2>1. inst' = [inst EXCEPT ![i] = inst'[i]]
      BY <1>8, <1>a DEF UpdateCursor, At, GoTo
    <2>r. inst'[i] = [inst[i] EXCEPT !.pc = NextOperation(i), !.ops = 0]
      BY <1>8, <1>a DEF UpdateCursor, At, GoTo, LoopInv, LoopType
    <2>u. KeysInv' /\ tip <= tip' /\ processed \subseteq processed'
      BY <1>8, <1>a, <1>n
         DEF UpdateCursor, At, KeysInv, Tokens, UpTo, LoopInv, LoopType, shared
    <2>l. LoopInv(i)'
      BY <1>8, <1>a, <1>n, <2>r
         DEF UpdateCursor, NextOperation, LoopInv, LoopType, KeysInv, Places, Tokens,
             UpTo, Now, At, shared
    <2> QED
      BY <2>1, <2>u, <2>l, OneLoop
<1>9. CASE Fetch(i)
    <2> DEFINE from == inst[i].cursor
               end  == IF from + PageSize < tip THEN from + PageSize ELSE tip
    <2>1. inst' = [inst EXCEPT ![i] = inst'[i]] /\ UNCHANGED <<shared, faults>>
      BY <1>9, <1>a DEF Fetch
    <2>2. inst'[i] = [inst[i] EXCEPT !.pc = IF end > from THEN "process" ELSE "poll",
                                     !.last = end]
      BY <1>9, <1>a DEF Fetch
    <2>3. tip \in 0..MaxOps /\ from \in 0..MaxOps /\ from <= tip
      BY <1>a DEF KeysInv, LoopInv, LoopType, Tokens
    <2>4. end \in 0..MaxOps /\ end <= tip
      BY <1>n, <2>3
    <2>5. LoopInv(i)'
      <3> HIDE DEF end, from
      <3>1. inst'[i].pc = (IF end > from THEN "process" ELSE "poll") /\ inst'[i].last = end
        BY <1>a, <2>2 DEF LoopInv, LoopType
      <3>2. inst'[i].cursor = from /\ inst'[i] \in LoopType
        BY <1>a, <2>2, <2>4 DEF LoopInv, LoopType, Places, Tokens, from
      <3>3. UpTo(from) \subseteq processed
        BY <1>a DEF LoopInv, from
      <3> QED
        BY <1>n, <2>1, <2>3, <2>4, <3>1, <3>2, <3>3 DEF LoopInv, At, shared
    <2>6. KeysInv' /\ tip <= tip' /\ processed \subseteq processed'
      BY <1>a, <1>n, <2>1 DEF KeysInv, Tokens, shared
    <2> QED
      BY <2>1, <2>5, <2>6, OneLoop
<1> QED
    BY <1>1, <1>2, <1>3, <1>4, <1>5, <1>6, <1>7, <1>8, <1>9 DEF Loop

(* What stops a loop: shutdown, crashes, exceptions, unanswered calls. *)
Stops(i) ==
    \/ Shutdown(i) \/ Throw(i) \/ FailElection(i) \/ Hang(i)
    \/ Destroy(i) \/ Crash(i)

LEMMA StopStep ==
    ASSUME Inv, NEW i \in Instances, Stops(i)
    PROVE  Inv'
<1>a. KeysInv /\ inst \in [Instances -> LoopType] /\ LoopInv(i)
    BY InvParts
<1>n. MaxOps \in Nat /\ MaxFaults \in Nat
    BY BoundsAssumption
<1>k. KeysInv' /\ tip <= tip' /\ processed \subseteq processed'
    BY <1>a, <1>n
         DEF Stops, Shutdown, ReleaseLock, DeleteLock, Exit, Throw, FailElection, Hang,
             Destroy, Crash, Fault, KeysInv, Tokens, shared
<1>1. CASE inst' = [inst EXCEPT ![i] = DownLoop]
    <2>1. inst'[i] = DownLoop /\ inst' = [inst EXCEPT ![i] = inst'[i]]
      BY <1>a, <1>1
    <2>2. LoopInv(i)'
      BY <1>a, <1>n, <1>k, <2>1
         DEF DownLoop, LoopInv, LoopType, KeysInv, Places, Tokens, UpTo, Now, At
    <2> QED
      BY <1>k, <2>1, <2>2, OneLoop
<1>2. ASSUME inst' = [inst EXCEPT ![i] = inst'[i]], inst'[i] \in LoopType,
             inst'[i].cursor = inst[i].cursor, inst'[i].prev = inst[i].prev,
             inst'[i].last = inst[i].last, inst'[i].pc \in {inst[i].pc, "poll", "stuck"}
      PROVE  Inv'
    <2>1. LoopInv(i)'
      BY <1>2, <1>a, <1>n, <1>k DEF LoopInv, LoopType, KeysInv, Tokens, At
    <2> QED
      BY <1>2, <1>k, <2>1, OneLoop
<1>3. CASE \/ ReleaseLock(i) \/ DeleteLock(i) \/ Throw(i) \/ Destroy(i)
           \/ Hang(i) \/ FailElection(i)
    <2>1. CASE ReleaseLock(i)
      BY <1>2, <1>a, <2>1 DEF ReleaseLock, LoopInv, LoopType
    <2>2. CASE DeleteLock(i)
      BY <1>2, <1>a, <2>2 DEF DeleteLock, LoopInv, LoopType
    <2>3. CASE Throw(i)
      BY <1>2, <1>a, <2>3 DEF Throw, GoTo, LoopInv, LoopType, Places
    <2>4. CASE Destroy(i)
      BY <1>2, <1>a, <2>4 DEF Destroy, LoopInv, LoopType
    <2>5. CASE Hang(i)
      BY <1>2, <1>a, <2>5 DEF Hang, GoTo, LoopInv, LoopType, Places
    <2>6. CASE FailElection(i)
      BY <1>1, <1>2, <1>a, <2>6 DEF FailElection, GoTo, LoopInv, LoopType, Places
    <2> QED
      BY <1>3, <2>1, <2>2, <2>3, <2>4, <2>5, <2>6
<1> QED
    BY <1>1, <1>3 DEF Stops, Shutdown, Exit, Crash

LEMMA EnvironmentStep ==
    ASSUME Inv, NewOperation \/ LockExpires \/ LockOutlived \/ KeyExpires \/ UNCHANGED vars
    PROVE  Inv'
<1>n. MaxOps \in Nat /\ MaxFaults \in Nat
    BY BoundsAssumption
<1>1. CASE NewOperation
    BY <1>1, <1>n
       DEF NewOperation, Inv, TypeOK, LoopsAreInPage, NothingSkipped, Tokens, UpTo, At
<1>2. CASE LockExpires \/ LockOutlived
    BY <1>2, <1>n DEF LockExpires, LockOutlived, Fault, Inv, TypeOK, LoopsAreInPage,
                      NothingSkipped, At
<1>3. CASE KeyExpires
    BY <1>3, <1>n DEF KeyExpires, Fault, Inv, TypeOK, LoopsAreInPage, NothingSkipped, At,
                      Tokens, UpTo
<1>4. CASE UNCHANGED vars
    BY <1>4 DEF vars, shared, Inv, TypeOK, LoopsAreInPage, NothingSkipped, At
<1> QED
    BY <1>1, <1>2, <1>3, <1>4

(* Inv holds in every reachable state. *)
THEOREM Invariance == Spec => []Inv
<1>1. Inv /\ [Next]_vars => Inv'
    BY LoopStep, StopStep, EnvironmentStep DEF Next, Stops
<1> QED
    BY InitInv, <1>1, PTL DEF Spec

(* Keys, loops and counters stay in their types. *)
THEOREM Typing == Spec => []TypeOK
    BY Invariance, PTL DEF Inv

(* No cursor ever passes an unprocessed operation: see NothingSkipped. *)
THEOREM AtLeastOnce == Spec => []NothingSkipped
    BY Invariance, PTL DEF Inv

(* The stored cursor never moves back: see StoredOnlyAdvances. *)
THEOREM CursorAdvances == Spec => StoredOnlyAdvances
<1>1. ASSUME Inv, [Next]_vars, stored # 0, stored' # 0
      PROVE  stored' >= stored
    <2>n. stored \in Nat /\ MaxOps \in Nat
      BY <1>1, BoundsAssumption DEF Inv, TypeOK, Tokens
    <2>1. ASSUME NEW i \in Instances, UpdateCursor(i) PROVE stored' >= stored
      <3>1. inst[i].cursor = inst[i].prev + 1 /\ inst[i].prev \in Nat
        BY <1>1, <2>1, BoundsAssumption
           DEF UpdateCursor, At, Inv, TypeOK, LoopsAreInPage, Tokens
      <3> QED
        BY <1>1, <2>n, <2>1, <3>1 DEF UpdateCursor
    <2>2. CASE stored' = stored
      BY <2>n, <2>2
    <2>3. stored' = stored \/ \E i \in Instances : UpdateCursor(i)
      BY <1>1 DEF Next, vars, shared, NewOperation, Start, Loop, RestoreCursor, RenewLock,
                  ExtendLock, AcquireLock, Fetch, Process, AppendCheckpoint, Shutdown,
                  ReleaseLock, DeleteLock, Exit, Throw, FailElection, Hang, Destroy,
                  Crash, LockExpires, LockOutlived, KeyExpires
    <2> QED
      BY <2>1, <2>2, <2>3
<1>2. Inv /\ [Next]_vars => [stored # 0 /\ stored' # 0 => stored' >= stored]_vars
    BY <1>1
<1> QED
    BY Invariance, <1>2, PTL DEF Spec, StoredOnlyAdvances


-----------------------------------------------------------------------------
(* The leader lock. *)

(* Until the first fault no instance is shutting down, an instance that    *)
(* has found itself the leader holds the lock until it looks again, and    *)
(* the loop of the holder goes on.                                         *)
Elected(i) ==
    /\ inst[i].release = "no"
    /\ inst[i].pc \notin {"down", "restore"} => inst[i].polling
    /\ inst[i].pc \in {"renew", "fetch", "process", "checkpoint", "flush"} => lock = i
    /\ lock = i => inst[i].pc \notin {"down", "restore", "stuck"}

LeaderInv == faults = 0 => \A i \in Instances : Elected(i)

LEMMA LeaderInvImplies == LeaderInv => OneLeader
BY DEF LeaderInv, Elected, OneLeader, Leading

(* A step of the loop writes the record of its instance only, takes the    *)
(* lock only when it is free, and becomes the leader only with the lock.   *)
LEMMA LoopMoves ==
    ASSUME Inv, NEW i \in Instances, Start(i) \/ Loop(i)
    PROVE  /\ \A j \in Instances : j # i => inst'[j] = inst[j]
           /\ inst'[i].release \in {"no", inst[i].release}
           /\ inst'[i].pc \notin {"down", "stuck"}
           /\ inst'[i].pc = "restore" => inst[i].pc = "down" /\ lock' = lock
           /\ \/ inst'[i].polling \/ inst'[i].pc = "restore"
              \/ inst'[i].polling = inst[i].polling /\ inst[i].pc \notin {"down", "restore"}
           /\ lock' = lock \/ (lock = NoOne /\ lock' = i)
           /\ inst'[i].pc \in {"renew", "fetch", "process", "checkpoint", "flush"} =>
                \/ lock' = i
                \/ /\ lock' = lock
                   /\ inst[i].pc \in {"renew", "fetch", "process", "checkpoint", "flush"}
<1>t. inst \in [Instances -> LoopType] /\ inst[i] \in LoopType
    BY InvParts
<1>1. CASE Start(i)
    <2>1. inst' = [inst EXCEPT ![i] = inst'[i]]
        BY <1>t, <1>1 DEF Start, GoTo
    <2>2. /\ inst'[i].release = "no" /\ inst'[i].pc = (IF stored = 0 THEN "poll" ELSE "restore")
          /\ inst'[i].polling = (stored = 0) /\ inst[i].pc = "down"
        BY <1>t, <1>1 DEF Start, At, LoopType, DownLoop
    <2>3. \A j \in Instances : j # i => inst'[j] = inst[j]
        BY <1>t, <2>1
    <2>4. lock' = lock
        BY <1>1 DEF Start, shared, At
    <2> QED
        BY <2>2, <2>3, <2>4
<1>2. CASE RestoreCursor(i)
    <2>1. inst' = [inst EXCEPT ![i] = inst'[i]]
        BY <1>t, <1>2 DEF RestoreCursor, GoTo
    <2>2. inst'[i].release = inst[i].release /\ inst'[i].pc = "poll" /\ inst'[i].polling
        BY <1>t, <1>2 DEF RestoreCursor, GoTo, LoopType, DownLoop
    <2>3. \A j \in Instances : j # i => inst'[j] = inst[j]
        BY <1>t, <2>1
    <2>4. lock' = lock
        BY <1>2 DEF RestoreCursor, shared, At
    <2> QED
        BY <2>2, <2>3, <2>4
<1>3. CASE RenewLock(i)
    <2>1. inst' = [inst EXCEPT ![i] = inst'[i]]
        BY <1>t, <1>3 DEF RenewLock, GoTo
    <2>2. /\ inst'[i].release = inst[i].release /\ inst'[i].pc = (IF lock = i THEN "renew" ELSE "acquire")
          /\ inst'[i].polling = inst[i].polling /\ inst[i].pc \notin {"down", "restore"}
        BY <1>t, <1>3 DEF RenewLock, At, GoTo, LoopType, DownLoop
    <2>3. \A j \in Instances : j # i => inst'[j] = inst[j]
        BY <1>t, <2>1
    <2>4. lock' = lock
        BY <1>3 DEF RenewLock, shared, At
    <2> QED
        BY <2>2, <2>3, <2>4
<1>4. CASE ExtendLock(i)
    <2>1. inst' = [inst EXCEPT ![i] = inst'[i]]
        BY <1>t, <1>4 DEF ExtendLock, GoTo
    <2>2. /\ inst'[i].release = inst[i].release /\ inst'[i].pc = "fetch"
          /\ inst'[i].polling = inst[i].polling /\ inst[i].pc \notin {"down", "restore"}
        BY <1>t, <1>4 DEF ExtendLock, At, GoTo, LoopType, DownLoop
    <2>3. \A j \in Instances : j # i => inst'[j] = inst[j]
        BY <1>t, <2>1
    <2>4. lock' = lock /\ inst[i].pc = "renew"
        BY <1>4 DEF ExtendLock, shared, At
    <2> QED
        BY <2>2, <2>3, <2>4
<1>5. CASE AcquireLock(i)
    <2>1. inst' = [inst EXCEPT ![i] = inst'[i]]
        BY <1>t, <1>5 DEF AcquireLock, GoTo
    <2>2. /\ inst'[i].release = inst[i].release /\ inst'[i].pc = (IF lock = NoOne THEN "fetch" ELSE "poll")
          /\ inst'[i].polling = inst[i].polling /\ inst[i].pc \notin {"down", "restore"}
        BY <1>t, <1>5 DEF AcquireLock, At, GoTo, LoopType, DownLoop
    <2>3. \A j \in Instances : j # i => inst'[j] = inst[j]
        BY <1>t, <2>1
    <2>4. lock' = (IF lock = NoOne THEN i ELSE lock)
        BY <1>5 DEF AcquireLock, shared, At
    <2> QED
        BY <2>2, <2>3, <2>4
<1>6. CASE Fetch(i)
    <2>1. inst' = [inst EXCEPT ![i] = inst'[i]]
        BY <1>t, <1>6 DEF Fetch, GoTo
    <2>2. /\ inst'[i].release = inst[i].release /\ inst'[i].pc \in {"poll", "process", "flush"}
          /\ inst'[i].polling = inst[i].polling /\ inst[i].pc \notin {"down", "restore"}
        BY <1>t, <1>6 DEF Fetch, At, GoTo, LoopType, DownLoop
    <2>3. \A j \in Instances : j # i => inst'[j] = inst[j]
        BY <1>t, <2>1
    <2>4. lock' = lock /\ inst[i].pc = "fetch"
        BY <1>6 DEF Fetch, shared, At
    <2> QED
        BY <2>2, <2>3, <2>4
<1>7. CASE Process(i)
    <2>1. inst' = [inst EXCEPT ![i] = inst'[i]]
        BY <1>t, <1>7 DEF Process, GoTo
    <2>2. /\ inst'[i].release = inst[i].release /\ inst'[i].pc = "checkpoint"
          /\ inst'[i].polling = inst[i].polling /\ inst[i].pc \notin {"down", "restore"}
        BY <1>t, <1>7 DEF Process, At, GoTo, LoopType, DownLoop
    <2>3. \A j \in Instances : j # i => inst'[j] = inst[j]
        BY <1>t, <2>1
    <2>4. lock' = lock /\ inst[i].pc = "process"
        BY <1>7 DEF Process, shared, At
    <2> QED
        BY <2>2, <2>3, <2>4
<1>8. CASE AppendCheckpoint(i)
    <2>1. inst' = [inst EXCEPT ![i] = inst'[i]]
        BY <1>t, <1>8 DEF AppendCheckpoint, GoTo
    <2>2. /\ inst'[i].release = inst[i].release /\ inst'[i].pc \in {"poll", "process", "flush"}
          /\ inst'[i].polling = inst[i].polling /\ inst[i].pc \notin {"down", "restore"}
        BY <1>t, <1>8 DEF AppendCheckpoint, At, GoTo, LoopType, NextOperation, DownLoop
    <2>3. \A j \in Instances : j # i => inst'[j] = inst[j]
        BY <1>t, <2>1
    <2>4. lock' = lock /\ inst[i].pc = "checkpoint"
        BY <1>8 DEF AppendCheckpoint, shared, At
    <2> QED
        BY <2>2, <2>3, <2>4
<1>9. CASE UpdateCursor(i)
    <2>1. inst' = [inst EXCEPT ![i] = inst'[i]]
        BY <1>t, <1>9 DEF UpdateCursor, GoTo
    <2>2. /\ inst'[i].release = inst[i].release /\ inst'[i].pc \in {"poll", "process", "flush"}
          /\ inst'[i].polling = inst[i].polling /\ inst[i].pc \notin {"down", "restore"}
        BY <1>t, <1>9 DEF UpdateCursor, At, GoTo, LoopType, NextOperation, DownLoop
    <2>3. \A j \in Instances : j # i => inst'[j] = inst[j]
        BY <1>t, <2>1
    <2>4. lock' = lock /\ inst[i].pc = "flush"
        BY <1>9 DEF UpdateCursor, shared, At
    <2> QED
        BY <2>2, <2>3, <2>4
<1> QED
    BY <1>1, <1>2, <1>3, <1>4, <1>5, <1>6, <1>7, <1>8, <1>9 DEF Loop

LEMMA LoopElected ==
    ASSUME Inv, NEW i \in Instances, Start(i) \/ Loop(i),
           \A j \in Instances : Elected(j)
    PROVE  \A j \in Instances : Elected(j)'
<1>1. ASSUME NEW j \in Instances, j # i PROVE Elected(j)'
    <2>1. inst'[j] = inst[j] /\ Elected(j)
        BY <1>1, LoopMoves
    <2>2. lock' = lock \/ (lock = NoOne /\ lock' = i)
        BY LoopMoves
    <2> QED
        BY <1>1, <2>1, <2>2, NoOneAssumption DEF Elected
<1>2. Elected(i)'
    BY LoopMoves DEF Elected
<1> QED
    BY <1>1, <1>2

(* LeaderInv holds in every reachable state. *)
LEMMA LeaderStep == Inv /\ LeaderInv /\ [Next]_vars => LeaderInv'
<1> SUFFICES ASSUME Inv, LeaderInv, [Next]_vars, faults' = 0
             PROVE  \A i \in Instances : Elected(i)'
    BY DEF LeaderInv
<1>f. faults \in Nat
    BY BoundsAssumption DEF Inv, TypeOK
<1>1. ASSUME Fault PROVE FALSE
    BY <1>1, <1>f DEF Fault
<1>2. faults = 0 /\ \A i \in Instances : Elected(i)
    <2>1. faults' = faults \/ Fault
        BY DEF Next, NewOperation, Start, Loop, RestoreCursor, RenewLock, ExtendLock,
               AcquireLock, Fetch, Process, AppendCheckpoint, UpdateCursor, Shutdown,
               ReleaseLock, DeleteLock, Exit, Throw, FailElection, Hang, Destroy, Crash,
               LockExpires, LockOutlived, KeyExpires, vars, shared
    <2> QED
        BY <1>1, <2>1 DEF LeaderInv
<1>3. ASSUME NEW i \in Instances, Shutdown(i) PROVE FALSE
    BY <1>2, <1>3 DEF Shutdown, ReleaseLock, DeleteLock, Exit, Elected
<1>4. ASSUME NEW i \in Instances,
             Throw(i) \/ FailElection(i) \/ Hang(i) \/ Destroy(i) \/ Crash(i)
      PROVE  FALSE
    BY <1>1, <1>4 DEF Throw, FailElection, Hang, Destroy, Crash
<1>5. CASE LockExpires
    BY <1>2, <1>5 DEF LockExpires, LoopIsOver, At, Elected, Inv, TypeOK
<1>6. CASE LockOutlived \/ KeyExpires
    BY <1>1, <1>6 DEF LockOutlived, KeyExpires
<1>7. CASE NewOperation \/ UNCHANGED vars
    BY <1>2, <1>7 DEF NewOperation, vars, shared, Elected
<1> QED
    BY <1>2, <1>3, <1>4, <1>5, <1>6, <1>7, LoopElected DEF Next

(* At most one instance works on a page, until a fault: see OneLeader. *)
THEOREM LeaderIsUnique == Spec => []OneLeader
<1>1. Init => LeaderInv
    <2> SUFFICES ASSUME Init, NEW i \in Instances PROVE Elected(i)
        BY DEF LeaderInv
    <2>1. inst[i] = DownLoop /\ lock # i
        BY NoOneAssumption DEF Init
    <2> QED
        BY <2>1 DEF Elected, DownLoop
<1> QED
    BY Invariance, <1>1, LeaderStep, LeaderInvImplies, PTL DEF Spec

=============================================================================
