----------------------- MODULE MerchantAccountsProofs -----------------------
(* Safety of MerchantAccounts for any number of merchants, keys and         *)
(* requests.                                                               *)
EXTENDS MerchantAccounts, TLAPS

Things == Emails \cup Keys \cup Merchants \cup {Nothing}

Entries == {"", "merchant_registered", "insufficient_role", "resource_not_found",
            "access_denied", "webhook_updated", "api_key_generated", "api_key_revoked"}

Notes == Entries \X (Merchants \cup {Nothing}) \X Things

ReqType == [pc : Places, op : {"", "register", "update", "webhook", "generate", "revoke", "api"},
            wallet : Wallets \cup {Nothing}, arg : Things,
            merchant : Merchants \cup {Nothing}, note : Notes, raced : BOOLEAN]

(* The part of TypeOK about the tables and the counters; the merchant of a *)
(* key is registered.                                                      *)
TablesOK ==
    /\ merchants \in [Merchants -> Rows \cup {Nothing}]
    /\ apiKeys \in [Keys -> [merchantId : Merchants, isActive : BOOLEAN] \cup {Nothing}]
    /\ \A k \in Keys : apiKeys[k] # Nothing => merchants[apiKeys[k].merchantId] # Nothing
    /\ begun \in 0..MaxRequests /\ faults \in 0..MaxFaults

Active(k) == apiKeys[k].isActive

(* What an audit entry says is so. *)
NoteTrue(note) ==
    /\ note \in Notes /\ note[2] \in Merchants
    /\ note[1] \in {"api_key_generated", "api_key_revoked"} =>
          note[3] \in Keys /\ Owns(note[2], note[3])
    /\ note[1] = "api_key_revoked" => ~Active(note[3])
    /\ note[1] = "access_denied" => note[3] \in Keys /\ Exists(note[3]) /\ ~Owns(note[2], note[3])

(* What a request knows at each place.  Behind the ownership guard the key *)
(* belongs to the merchant with its wallet; behind the role guard its      *)
(* merchant has the role, unless an operator took it away since.           *)
ReqInv(q) ==
    LET r == req[q] IN
    /\ r.pc = "insert" => r.wallet \in Wallets /\ r.arg \in Emails
    /\ r.op = "update" => r.arg \in Emails \cup {Nothing}
    /\ r.op = "revoke" => r.arg \in Keys
    /\ r.pc \in {"role", "owner", "find", "write"} =>
          r.merchant \in Merchants /\ Holds(r.merchant, r.wallet)
    /\ r.pc = "owner" => r.op = "revoke"
    /\ r.pc = "serve" => r.merchant \in Merchants /\ Registered(r.merchant)
    /\ r.op = "revoke" /\ r.pc \in {"find", "write"} =>
          Exists(r.arg) /\ Holds(apiKeys[r.arg].merchantId, r.wallet)
    /\ r.pc \in {"owner", "find", "write"} =>
          merchants[r.merchant].role \in Writers \/ r.raced
    /\ r.pc = "log" => NoteTrue(r.note)
    /\ r.pc = "log" /\ r.note[1] = "api_key_revoked" => r.note[3] = r.arg

(* Until something fails, no key is made or revoked without an entry. *)
AuditComplete ==
    faults = 0 => \A m \in Merchants, k \in Keys : Owns(m, k) =>
        /\ Noted(<<"api_key_generated", m, k>>)
        /\ ~Active(k) => Noted(<<"api_key_revoked", m, k>>)

Inv ==
    /\ TablesOK
    /\ req \in [Requests -> ReqType]
    /\ UniqueAccounts
    /\ \A q \in Requests : ReqInv(q)
    /\ \A note \in auditLogs : NoteTrue(note)
    /\ \A k \in revoked : k \in Keys /\ Exists(k) /\ ~Active(k)
    /\ AuditComplete

(* The invariants the runs check are parts of it. *)
LEMMA InvImplies == Inv => TypeOK /\ UniqueAccounts /\ AuditAgrees
<1> SUFFICES ASSUME Inv PROVE TypeOK /\ AuditAgrees
    BY DEF Inv
<1>1. TypeOK
    BY DEF Inv, TablesOK, TypeOK, ReqType, ReqInv, NoteTrue, Holds
<1>2. AuditAgrees
    BY DEF Inv, AuditAgrees, AuditComplete, NoteTrue, Active
<1> QED
    BY <1>1, <1>2

(* Initially there is nothing. *)
LEMMA InitInv == Init => Inv
<1> SUFFICES ASSUME Init PROVE Inv
    OBVIOUS
<1> USE DEF Init
<1>1. TablesOK
    BY AccountBoundsAssumption DEF TablesOK
<1>2. IdleReq \in ReqType
    BY DEF IdleReq, NoNote, ReqType, Notes, Entries, Things, Places
<1>3. req \in [Requests -> ReqType]
    BY <1>2
<1>4. \A q \in Requests : ReqInv(q)
    BY DEF ReqInv, IdleReq
<1>5. UniqueAccounts /\ AuditComplete
    BY DEF UniqueAccounts, Registered, AuditComplete, Owns, Exists
<1> QED
    BY <1>1, <1>3, <1>4, <1>5 DEF Inv

-----------------------------------------------------------------------------
(* What no statement takes back: accounts keep their wallet, keys their    *)
(* merchant, and a revoked key stays revoked.                              *)
Grown ==
    /\ \A m \in Merchants : Registered(m) =>
          Registered(m)' /\ merchants'[m].wallet = merchants[m].wallet
    /\ \A k \in Keys : Exists(k) =>
          /\ Exists(k)' /\ apiKeys'[k].merchantId = apiKeys[k].merchantId
          /\ ~Active(k) => ~Active(k)'

RolesKept == \A m \in Merchants : Registered(m) => merchants'[m].role = merchants[m].role

(* An entry that is true stays true. *)
LEMMA NoteStays ==
    ASSUME Inv, Grown, NEW note, NoteTrue(note)
    PROVE  NoteTrue(note)'
BY DEF Inv, Grown, NoteTrue, Owns

(* What a request that does not move knows stays true. *)
LEMMA OthersKeep ==
    ASSUME Inv, Grown, RolesKept, NEW p \in Requests, req'[p] = req[p]
    PROVE  ReqInv(p)'
<1> DEFINE r == req[p]
<1>1. r \in ReqType /\ ReqInv(p)
    BY DEF Inv
<1>2. r.pc = "log" => NoteTrue(req[p].note)'
    BY <1>1, NoteStays DEF ReqInv
<1>3. r.pc \in {"role", "owner", "find", "write"} =>
          /\ r.merchant \in Merchants /\ Holds(r.merchant, r.wallet)'
          /\ merchants'[r.merchant].role = merchants[r.merchant].role
    BY <1>1 DEF ReqInv, Grown, RolesKept, Holds
<1>4. r.op = "revoke" /\ r.pc \in {"find", "write"} =>
          Exists(r.arg)' /\ Holds(apiKeys[r.arg].merchantId, r.wallet)'
    <2> SUFFICES ASSUME r.op = "revoke", r.pc \in {"find", "write"}
                 PROVE  Exists(r.arg)' /\ Holds(apiKeys[r.arg].merchantId, r.wallet)'
        OBVIOUS
    <2>1. r.arg \in Keys /\ Exists(r.arg) /\ Holds(apiKeys[r.arg].merchantId, r.wallet)
        BY <1>1 DEF ReqInv
    <2>2. apiKeys[r.arg].merchantId \in Merchants
        BY <2>1 DEF Inv, TablesOK, Exists
    <2> QED
        BY <2>1, <2>2 DEF Grown, Holds
<1>5. r.pc = "serve" => r.merchant \in Merchants /\ Registered(r.merchant)'
    BY <1>1 DEF ReqInv, Grown
<1> QED
    BY <1>1, <1>2, <1>3, <1>4, <1>5 DEF ReqInv

(* A step of one request: besides the tables, it is enough to look at what *)
(* that request knows next and at what it has answered.                    *)
LEMMA OneRequest ==
    ASSUME Inv, NEW q \in Requests, NEW new \in ReqType, req' = [req EXCEPT ![q] = new],
           TablesOK', Grown, RolesKept, UniqueAccounts', AuditComplete', ReqInv(q)',
           \/ auditLogs' = auditLogs
           \/ req[q].pc = "log" /\ auditLogs' = auditLogs \cup {req[q].note},
           \/ revoked' = revoked
           \/ /\ req[q].pc = "log" /\ req[q].note[1] = "api_key_revoked"
              /\ revoked' = revoked \cup {req[q].arg}
    PROVE  Inv'
<1>1. req' \in [Requests -> ReqType]
    BY DEF Inv
<1>2. ASSUME NEW p \in Requests PROVE ReqInv(p)'
    <2>1. CASE p = q
        BY <2>1
    <2>2. CASE p # q
        BY <2>2, OthersKeep DEF Inv
    <2> QED
        BY <2>1, <2>2
<1>3. ASSUME NEW note \in auditLogs' PROVE NoteTrue(note)'
    <2>1. NoteTrue(note)
        BY <1>3 DEF Inv, ReqInv
    <2> QED
        BY <2>1, NoteStays
<1>4. ASSUME NEW k \in revoked' PROVE k \in Keys /\ Exists(k)' /\ ~Active(k)'
    <2>1. k \in Keys /\ Exists(k) /\ ~Active(k)
        <3>1. CASE k \in revoked
            BY <3>1 DEF Inv
        <3>2. CASE k \notin revoked
            <4>1. req[q].pc = "log" /\ req[q].note[1] = "api_key_revoked" /\ k = req[q].arg
                BY <1>4, <3>2
            <4>2. NoteTrue(req[q].note) /\ req[q].note[3] = k
                BY <4>1 DEF Inv, ReqInv
            <4> QED
                BY <4>1, <4>2 DEF NoteTrue, Owns
        <3> QED
            BY <3>1, <3>2
    <2> QED
        BY <2>1 DEF Grown
<1> QED
    BY <1>1, <1>2, <1>3, <1>4 DEF Inv

(* Entries are not lost by a step that writes no key: the moving request   *)
(* has none to write, or has written it, or something has failed.          *)
LEMMA EntriesKept ==
    ASSUME Inv, NEW q \in Requests, NEW new \in ReqType, req' = [req EXCEPT ![q] = new],
           UNCHANGED apiKeys, auditLogs \subseteq auditLogs', TablesOK',
           \/ faults' = faults /\ (req[q].pc # "log" \/ req[q].note \in auditLogs')
           \/ faults' = faults + 1
    PROVE  AuditComplete'
<1> SUFFICES ASSUME faults' = 0
             PROVE  (\A m \in Merchants, k \in Keys : Owns(m, k) =>
                        /\ Noted(<<"api_key_generated", m, k>>)
                        /\ ~Active(k) => Noted(<<"api_key_revoked", m, k>>))'
    BY DEF AuditComplete
<1>1. faults' = faults /\ (req[q].pc # "log" \/ req[q].note \in auditLogs')
    BY DEF Inv, TablesOK
<1>2. \A note : Noted(note) => Noted(note)'
    BY <1>1 DEF Noted, Pending, Inv
<1> QED
    BY <1>1, <1>2 DEF Inv, AuditComplete, Owns, Exists, Active

-----------------------------------------------------------------------------
(* A step that leaves the tables alone. *)
LEMMA Still ==
    ASSUME Inv, UNCHANGED tables
    PROVE  Grown /\ RolesKept /\ UniqueAccounts'
BY DEF Inv, tables, Grown, RolesKept, UniqueAccounts, Registered, Exists, Active

(* The requests that are about to begin. *)
LEMMA ArriveStep == ASSUME Inv, NEW q \in Requests, Arrive(q) PROVE Inv'
<1>0. IdleReq \in ReqType
    BY DEF IdleReq, NoNote, ReqType, Notes, Entries, Things, Places
<1>1. ASSUME NEW w \in Wallets, NEW e \in Emails, Register(q, w, e) PROVE Inv'
    <2> DEFINE new == [IdleReq EXCEPT !.pc = "insert", !.op = "register", !.wallet = w, !.arg = e]
    <2>1. new \in ReqType /\ new.pc = "insert" /\ new.op = "register" /\ new.wallet = w /\ new.arg = e
        BY <1>0 DEF ReqType, Places, Things, IdleReq
    <2>2. req' = [req EXCEPT ![q] = new] /\ req[q].pc = "idle"
        BY <1>1 DEF Register, Start
    <2>3. TablesOK' /\ UNCHANGED <<tables, auditLogs, revoked, faults>>
        BY <1>1, AccountBoundsAssumption DEF Register, Start, Inv, TablesOK, tables
    <2>4. ReqInv(q)'
        BY <2>1, <2>2 DEF Inv, ReqInv
    <2>5. AuditComplete'
        BY <2>1, <2>2, <2>3, EntriesKept DEF tables
    <2> QED
        BY <2>1, <2>2, <2>3, <2>4, <2>5, Still, OneRequest
<1>2. ASSUME NEW k \in Keys, Authenticate(q, k) PROVE Inv'
    <2> DEFINE new == [IdleReq EXCEPT !.pc = "serve", !.op = "api", !.arg = k,
                                      !.merchant = apiKeys[k].merchantId]
    <2>0. apiKeys[k].merchantId \in Merchants
        BY <1>2 DEF Authenticate, Exists, Inv, TablesOK
    <2>1. new \in ReqType /\ new.pc = "serve" /\ new.op = "api" /\ new.merchant = apiKeys[k].merchantId
        BY <1>0, <2>0 DEF ReqType, Places, Things, IdleReq
    <2>2. req' = [req EXCEPT ![q] = new] /\ req[q].pc = "idle"
        BY <1>2 DEF Authenticate, Start
    <2>3. TablesOK' /\ UNCHANGED <<tables, auditLogs, revoked, faults>>
        BY <1>2, AccountBoundsAssumption DEF Authenticate, Start, Inv, TablesOK, tables
    <2>4. ReqInv(q)'
        BY <2>0, <2>1, <2>2, <2>3, <1>2 DEF Authenticate, Inv, TablesOK, ReqInv, tables, Registered, Exists
    <2>5. AuditComplete'
        BY <2>1, <2>2, <2>3, EntriesKept DEF tables
    <2> QED
        BY <2>1, <2>2, <2>3, <2>4, <2>5, Still, OneRequest
<1>3. ASSUME NEW m \in Merchants, NEW op \in {"update", "revoke", "generate", "webhook"},
             NEW arg \in Things, Begin(q, op, m, arg),
             op = "update" => arg \in Emails \cup {Nothing}, op = "revoke" => arg \in Keys
      PROVE  Inv'
    <2> DEFINE new == [IdleReq EXCEPT !.pc = "role", !.op = op, !.wallet = merchants[m].wallet,
                                      !.merchant = m, !.arg = arg]
    <2>0. Registered(m) /\ merchants[m].wallet \in Wallets
        BY <1>3 DEF Begin, Registered, Inv, TablesOK, Rows
    <2>1. /\ new \in ReqType /\ new.pc = "role" /\ new.op = op /\ new.wallet = merchants[m].wallet
          /\ new.merchant = m /\ new.arg = arg
        BY <1>0, <2>0 DEF ReqType, Places, IdleReq
    <2>2. req' = [req EXCEPT ![q] = new] /\ req[q].pc = "idle"
        BY <1>3 DEF Begin, Start
    <2>3. TablesOK' /\ UNCHANGED <<tables, auditLogs, revoked, faults>>
        BY <1>3, AccountBoundsAssumption DEF Begin, Start, Inv, TablesOK, tables
    <2>4. ReqInv(q)'
        BY <1>3, <2>0, <2>1, <2>2, <2>3 DEF Inv, ReqInv, tables, Registered, Holds
    <2>5. AuditComplete'
        BY <2>1, <2>2, <2>3, EntriesKept DEF tables
    <2> QED
        BY <2>1, <2>2, <2>3, <2>4, <2>5, Still, OneRequest
<1> QED
    BY <1>1, <1>2, <1>3 DEF Arrive, Things

(* The guards. *)
LEMMA GuardStep ==
    ASSUME Inv, NEW q \in Requests,
           CheckRole(q) \/ CheckOwner(q) \/ (\E m \in Merchants : FindByWallet(q, m))
    PROVE  Inv'
<1> DEFINE r == req[q]
<1>1. /\ r \in ReqType /\ ReqInv(q) /\ r.pc \in {"role", "owner", "find"}
      /\ UNCHANGED <<tables, auditLogs, revoked, begun, faults>>
    BY DEF Inv, CheckRole, CheckOwner, FindByWallet
<1>2. /\ r.merchant \in Merchants /\ Holds(r.merchant, r.wallet)
      /\ r.op = "revoke" => r.arg \in Keys
    BY <1>1 DEF ReqInv
<1>3. TablesOK'
    BY <1>1 DEF Inv, TablesOK, tables
<1>4. SUFFICES ASSUME NEW new \in ReqType, req' = [req EXCEPT ![q] = new], ReqInv(q)'
               PROVE  Inv'
    <2>1. ASSUME CheckRole(q)
          PROVE  \E new \in ReqType : req' = [req EXCEPT ![q] = new] /\ ReqInv(q)'
        <3>1. CASE merchants[r.merchant].role \in Writers
            <4> DEFINE new == [r EXCEPT !.pc = IF r.op = "revoke" THEN "owner" ELSE "find"]
            <4>1. new \in ReqType
                BY <1>1 DEF ReqType, Places
            <4>2. req' = [req EXCEPT ![q] = new]
                BY <2>1, <3>1 DEF CheckRole, GoTo
            <4>3. ReqInv(q)'
                BY <1>1, <1>2, <2>1, <3>1, <4>2
                DEF ReqInv, Inv, ReqType, CheckRole, tables, Holds, Registered
            <4> QED
                BY <4>1, <4>2, <4>3
        <3>2. CASE merchants[r.merchant].role \notin Writers
            <4>0. PICK note \in Notes : note = <<"insufficient_role", r.merchant, r.arg>>
                BY <1>1, <1>2 DEF ReqType, Notes, Entries
            <4> DEFINE new == [r EXCEPT !.pc = "log", !.note = note]
            <4>1. new \in ReqType
                BY <1>1 DEF ReqType, Places
            <4>2. req' = [req EXCEPT ![q] = new]
                BY <2>1, <3>2, <4>0 DEF CheckRole, Note
            <4>3. NoteTrue(note)'
                BY <4>0, <1>2 DEF NoteTrue
            <4>4. req'[q] = new /\ new.pc = "log" /\ new.note = note /\ new.op = r.op /\ new.arg = r.arg
                BY <1>1, <4>2 DEF Inv, ReqType
            <4>5. ReqInv(q)'
                BY <1>1, <4>0, <4>3, <4>4 DEF ReqInv
            <4> QED
                BY <4>1, <4>2, <4>5
        <3> QED
            BY <3>1, <3>2
    <2>2. ASSUME CheckOwner(q)
          PROVE  \E new \in ReqType : req' = [req EXCEPT ![q] = new] /\ ReqInv(q)'
        <3>0. r.pc = "owner" /\ r.op = "revoke" /\ r.arg \in Keys
            BY <1>1, <1>2, <2>2 DEF CheckOwner, ReqInv
        <3>1. CASE Owns(r.merchant, r.arg)
            <4> DEFINE new == [r EXCEPT !.pc = "find"]
            <4>1. new \in ReqType
                BY <1>1 DEF ReqType, Places
            <4>2. req' = [req EXCEPT ![q] = new]
                BY <2>2, <3>1 DEF CheckOwner, GoTo, Owns
            <4>3. /\ req'[q] = new /\ new.pc = "find" /\ new.op = r.op /\ new.arg = r.arg
                  /\ new.merchant = r.merchant /\ new.wallet = r.wallet /\ new.raced = r.raced
                BY <1>1, <4>2 DEF Inv, ReqType
            <4>4. ReqInv(q)'
                BY <1>1, <1>2, <3>0, <3>1, <4>3
                DEF ReqInv, tables, Holds, Registered, Owns, Exists
            <4> QED
                BY <4>1, <4>2, <4>4
        <3>2. ASSUME NEW what \in {"resource_not_found", "access_denied"},
                     Note(q, <<what, r.merchant, r.arg>>),
                     what = "access_denied" => Exists(r.arg) /\ ~Owns(r.merchant, r.arg)
              PROVE  \E new \in ReqType : req' = [req EXCEPT ![q] = new] /\ ReqInv(q)'
            <4>0. PICK note \in Notes : note = <<what, r.merchant, r.arg>>
                BY <1>1, <1>2 DEF ReqType, Notes, Entries
            <4> DEFINE new == [r EXCEPT !.pc = "log", !.note = note]
            <4>1. new \in ReqType
                BY <1>1 DEF ReqType, Places
            <4>2. req' = [req EXCEPT ![q] = new]
                BY <3>2, <4>0 DEF Note
            <4>3. NoteTrue(note)'
                BY <1>1, <1>2, <3>0, <3>2, <4>0 DEF NoteTrue, tables, Owns, Exists
            <4>4. req'[q] = new /\ new.pc = "log" /\ new.note = note /\ new.op = r.op /\ new.arg = r.arg
                BY <1>1, <4>2 DEF Inv, ReqType
            <4>5. ReqInv(q)'
                BY <1>1, <3>0, <4>0, <4>3, <4>4 DEF ReqInv
            <4> QED
                BY <4>1, <4>2, <4>5
        <3> QED
            BY <2>2, <3>1, <3>2 DEF CheckOwner, Owns
    <2>3. ASSUME NEW m \in Merchants, FindByWallet(q, m)
          PROVE  \E new \in ReqType : req' = [req EXCEPT ![q] = new] /\ ReqInv(q)'
        <3>1. m = r.merchant
            <4>1. UniqueAccounts
                BY DEF Inv
            <4>2. Holds(m, r.wallet)
                BY <2>3 DEF FindByWallet
            <4> QED
                BY <1>2, <4>1, <4>2 DEF UniqueAccounts, Holds
        <3> DEFINE new == [r EXCEPT !.pc = "write", !.merchant = m]
        <3>2. new \in ReqType
            BY <1>1 DEF ReqType, Places
        <3>3. req' = [req EXCEPT ![q] = new] /\ r.pc = "find"
            BY <2>3 DEF FindByWallet
        <3>4. /\ req'[q] = new /\ new.pc = "write" /\ new.op = r.op /\ new.arg = r.arg
              /\ new.merchant = r.merchant /\ new.wallet = r.wallet /\ new.raced = r.raced
            BY <1>1, <3>1, <3>3 DEF Inv, ReqType
        <3>5. ReqInv(q)'
            BY <1>1, <3>3, <3>4 DEF ReqInv, tables, Holds, Registered, Exists
        <3> QED
            BY <3>2, <3>3, <3>5
    <2> QED
        BY <2>1, <2>2, <2>3
<1>5. AuditComplete'
    BY <1>1, <1>3, <1>4, EntriesKept DEF tables
<1> QED
    BY <1>1, <1>3, <1>4, <1>5, Still, OneRequest

(* The request is over. *)
LEMMA FinishStep ==
    ASSUME Inv, NEW q \in Requests, Finish(q), TablesOK', Grown, RolesKept, UniqueAccounts',
           AuditComplete',
           \/ auditLogs' = auditLogs
           \/ req[q].pc = "log" /\ auditLogs' = auditLogs \cup {req[q].note},
           \/ revoked' = revoked
           \/ /\ req[q].pc = "log" /\ req[q].note[1] = "api_key_revoked"
              /\ revoked' = revoked \cup {req[q].arg}
    PROVE  Inv'
<1>1. IdleReq \in ReqType
    BY DEF IdleReq, NoNote, ReqType, Notes, Entries, Things, Places
<1>2. req' = [req EXCEPT ![q] = IdleReq]
    BY DEF Finish
<1>3. req'[q].pc = "idle" /\ req'[q].op = ""
    BY <1>2 DEF Inv, IdleReq
<1>4. ReqInv(q)'
    BY <1>3 DEF ReqInv
<1> QED
    BY <1>1, <1>2, <1>4, OneRequest

(* What is left to do is the entry of a write. *)
LEMMA NoteStep ==
    ASSUME Inv, NEW q \in Requests, NEW note \in Notes, Note(q, note),
           TablesOK', Grown, RolesKept, UniqueAccounts', AuditComplete',
           NoteTrue(note)', note[1] = "api_key_revoked" => note[3] = req[q].arg,
           UNCHANGED <<auditLogs, revoked>>, req[q].pc = "write" \/ req[q].pc = "insert"
    PROVE  Inv'
<1> DEFINE new == [req[q] EXCEPT !.pc = "log", !.note = note]
<1>1. new \in ReqType
    BY DEF Inv, ReqType, Places
<1>2. req' = [req EXCEPT ![q] = new]
    BY DEF Note
<1>3. /\ req'[q].pc = "log" /\ req'[q].note = note /\ req'[q].op = req[q].op
      /\ req'[q].arg = req[q].arg
    BY <1>2 DEF Inv, ReqType
<1>4. ReqInv(q)'
    BY <1>3 DEF ReqInv, Inv
<1> QED
    BY <1>1, <1>2, <1>4, OneRequest

(* The entries of keys that are not written stay complete. *)
LEMMA OtherEntries ==
    ASSUME Inv, NEW q \in Requests, NEW note \in Notes, Note(q, note), req[q].pc # "log",
           UNCHANGED <<auditLogs, faults>>,
           \A m \in Merchants, k \in Keys : Owns(m, k)' =>
               \/ Owns(m, k) /\ Active(k)' = Active(k)
               \/ Owns(m, k) /\ note = <<"api_key_revoked", m, k>>
               \/ note = <<"api_key_generated", m, k>> /\ Active(k)'
    PROVE  AuditComplete'
<1>1. Pending(note)'
    <2>1. req'[q].pc = "log" /\ req'[q].note = note
        BY DEF Note, Inv, ReqType
    <2> QED
        BY <2>1 DEF Pending
<1>2. \A n : Noted(n) => Noted(n)'
    BY DEF Noted, Pending, Note, Inv
<1> SUFFICES ASSUME faults = 0, NEW m \in Merchants, NEW k \in Keys, Owns(m, k)'
             PROVE  /\ Noted(<<"api_key_generated", m, k>>)'
                    /\ ~Active(k)' => Noted(<<"api_key_revoked", m, k>>)'
    BY DEF AuditComplete
<1>3. Noted(note)'
    BY <1>1 DEF Noted
<1>4. CASE Owns(m, k)
    <2>1. /\ Noted(<<"api_key_generated", m, k>>)
          /\ ~Active(k) => Noted(<<"api_key_revoked", m, k>>)
        BY <1>4 DEF Inv, AuditComplete
    <2>2. CASE Active(k)' = Active(k)
        BY <2>1, <2>2, <1>2
    <2>3. CASE note = <<"api_key_revoked", m, k>>
        BY <2>1, <2>3, <1>2, <1>3
    <2>4. CASE note = <<"api_key_generated", m, k>> /\ Active(k)'
        BY <2>4, <1>3
    <2> QED
        BY <2>2, <2>3, <2>4
<1>5. CASE ~Owns(m, k)
    BY <1>5, <1>3
<1> QED
    BY <1>4, <1>5

(* The statements that write the merchants table. *)
LEMMA MerchantWrite ==
    ASSUME Inv, NEW q \in Requests,
           (\E m \in Merchants : InsertMerchant(q, m)) \/ UpdateProfile(q) \/ SetWebhook(q)
    PROVE  Inv'
<1> DEFINE r == req[q]
<1>0. r \in ReqType /\ ReqInv(q) /\ UNCHANGED <<apiKeys, auditLogs, revoked, begun, faults>>
    BY DEF Inv, InsertMerchant, UpdateProfile, SetWebhook
<1>1. ASSUME NEW m \in Merchants, InsertMerchant(q, m) PROVE Inv'
    <2>1. CASE WalletTaken(r.wallet) \/ EmailTaken(m, r.arg)
        <3>1. Finish(q) /\ UNCHANGED tables /\ TablesOK' /\ r.pc # "log"
            BY <1>0, <1>1, <2>1 DEF InsertMerchant, tables, Inv, TablesOK
        <3>2. AuditComplete'
            <4>1. IdleReq \in ReqType
                BY DEF IdleReq, NoNote, ReqType, Notes, Entries, Things, Places
            <4> QED
                BY <1>0, <3>1, <4>1, EntriesKept DEF Finish
        <3> QED
            BY <1>0, <3>1, <3>2, Still, FinishStep
    <2>2. CASE ~(WalletTaken(r.wallet) \/ EmailTaken(m, r.arg))
        <3> DEFINE row == [wallet |-> r.wallet, email |-> r.arg, role |-> "merchant", hook |-> FALSE]
        <3>1. /\ r.pc = "insert" /\ ~Registered(m) /\ r.wallet \in Wallets /\ r.arg \in Emails
              /\ merchants' = [merchants EXCEPT ![m] = row] /\ Note(q, <<"merchant_registered", m, m>>)
            BY <1>0, <1>1, <2>2 DEF InsertMerchant, ReqInv
        <3>2. PICK note \in Notes : note = <<"merchant_registered", m, m>>
            BY DEF Notes, Entries, Things
        <3>3. row \in Rows /\ row # Nothing
            <4>1. row \in Rows
                BY <3>1 DEF Rows
            <4>2. Nothing \notin Rows
                BY NothingAssumption DEF Rows
            <4> QED
                BY <4>1, <4>2
        <3>4. TablesOK'
            BY <1>0, <3>1, <3>3 DEF Inv, TablesOK
        <3>5. Grown /\ RolesKept
            BY <1>0, <3>1 DEF Inv, TablesOK, Grown, RolesKept, Registered, Exists, Active
        <3>6. UniqueAccounts'
            BY <2>2, <3>1 DEF Inv, TablesOK, UniqueAccounts, Registered, WalletTaken, KnownWallet,
                              Holds, EmailTaken
        <3>7. AuditComplete'
            BY <1>0, <3>1, <3>2, OtherEntries DEF Owns, Exists, Active
        <3>8. NoteTrue(note)'
            BY <3>2 DEF NoteTrue
        <3> QED
            BY <1>0, <3>1, <3>2, <3>4, <3>5, <3>6, <3>7, <3>8, NoteStep
    <2> QED
        BY <2>1, <2>2
<1>2. ASSUME UpdateProfile(q) PROVE Inv'
    <2> DEFINE m == r.merchant
    <2>1. /\ r.pc = "write" /\ r.op = "update" /\ m \in Merchants /\ Registered(m)
          /\ r.arg \in Emails \cup {Nothing} /\ Finish(q)
        BY <1>0, <1>2 DEF UpdateProfile, Handles, ReqInv, Holds
    <2>2. \/ merchants' = merchants
          \/ /\ r.arg \in Emails /\ ~EmailTaken(m, r.arg)
             /\ merchants' = [merchants EXCEPT ![m].email = r.arg]
        BY <1>2, <2>1 DEF UpdateProfile
    <2>3. TablesOK' /\ Grown /\ RolesKept
        <3>1. CASE merchants' = merchants
            BY <1>0, <3>1, Still DEF Inv, TablesOK, tables
        <3>2. CASE r.arg \in Emails /\ merchants' = [merchants EXCEPT ![m].email = r.arg]
            <4>1. merchants[m] \in Rows
                BY <2>1 DEF Inv, TablesOK, Registered
            <4>2. [merchants[m] EXCEPT !.email = r.arg] \in Rows
                BY <3>2, <4>1 DEF Rows
            <4>3. /\ merchants'[m] \in Rows /\ merchants'[m] # Nothing
                  /\ merchants'[m].wallet = merchants[m].wallet
                  /\ merchants'[m].role = merchants[m].role
                BY <2>1, <3>2, <4>1, <4>2, NothingAssumption DEF Inv, TablesOK, Rows
            <4>4. \A n \in Merchants \ {m} : merchants'[n] = merchants[n]
                BY <3>2 DEF Inv, TablesOK
            <4>5. merchants' \in [Merchants -> Rows \cup {Nothing}]
                BY <3>2, <4>2 DEF Inv, TablesOK
            <4> QED
                BY <1>0, <4>3, <4>4, <4>5
                DEF Inv, TablesOK, Grown, RolesKept, Registered, Exists, Active
        <3> QED
            BY <2>2, <3>1, <3>2
    <2>4. UniqueAccounts'
        <3>1. \A n \in Merchants : Registered(n)' => Registered(n) /\ merchants'[n].wallet = merchants[n].wallet
            BY <2>1, <2>2, <2>3 DEF Inv, TablesOK, Registered, Grown
        <3>2. CASE merchants' = merchants
            BY <3>2 DEF Inv, UniqueAccounts, Registered
        <3>3. CASE ~EmailTaken(m, r.arg) /\ merchants' = [merchants EXCEPT ![m].email = r.arg]
            <4>1. \A n \in Merchants \ {m} : merchants'[n] = merchants[n]
                BY <3>3 DEF Inv, TablesOK
            <4>2. merchants'[m].email = r.arg
                BY <2>1, <3>3 DEF Inv, TablesOK, Rows, Registered
            <4>3. \A n \in Merchants \ {m} : Registered(n) => merchants[n].email # r.arg
                BY <3>3 DEF EmailTaken
            <4> QED
                BY <3>1, <4>1, <4>2, <4>3 DEF Inv, UniqueAccounts
        <3> QED
            BY <2>2, <3>2, <3>3
    <2>5. AuditComplete'
        <3>1. IdleReq \in ReqType
            BY DEF IdleReq, NoNote, ReqType, Notes, Entries, Things, Places
        <3> QED
            BY <1>0, <2>1, <2>3, <3>1, EntriesKept DEF Finish
    <2> QED
        BY <1>0, <2>1, <2>3, <2>4, <2>5, FinishStep
<1>3. ASSUME SetWebhook(q) PROVE Inv'
    <2> DEFINE m == r.merchant
    <2>1. /\ r.pc = "write" /\ m \in Merchants /\ Registered(m)
          /\ merchants' = [merchants EXCEPT ![m].hook = TRUE]
          /\ Note(q, <<"webhook_updated", m, m>>)
        BY <1>0, <1>3 DEF SetWebhook, Handles, ReqInv, Holds
    <2>2. PICK note \in Notes : note = <<"webhook_updated", m, m>>
        BY <2>1 DEF Notes, Entries, Things
    <2>3. merchants[m] \in Rows
        BY <2>1 DEF Inv, TablesOK, Registered
    <2>4. [merchants[m] EXCEPT !.hook = TRUE] \in Rows
        BY <2>3 DEF Rows
    <2>5. /\ merchants'[m] \in Rows /\ merchants'[m] # Nothing
          /\ merchants'[m].wallet = merchants[m].wallet /\ merchants'[m].email = merchants[m].email
          /\ merchants'[m].role = merchants[m].role
        BY <2>1, <2>3, <2>4, NothingAssumption DEF Inv, TablesOK, Rows
    <2>6. \A n \in Merchants \ {m} : merchants'[n] = merchants[n]
        BY <2>1 DEF Inv, TablesOK
    <2>7. TablesOK' /\ Grown /\ RolesKept
        <3>1. merchants' \in [Merchants -> Rows \cup {Nothing}]
            BY <2>1, <2>4 DEF Inv, TablesOK
        <3> QED
            BY <1>0, <2>5, <2>6, <3>1 DEF Inv, TablesOK, Grown, RolesKept, Registered, Exists, Active
    <2>8. UniqueAccounts'
        BY <2>1, <2>5, <2>6 DEF Inv, UniqueAccounts, Registered
    <2>9. AuditComplete'
        BY <1>0, <2>1, <2>2, OtherEntries DEF Owns, Exists, Active
    <2>10. NoteTrue(note)'
        BY <2>1, <2>2 DEF NoteTrue
    <2> QED
        BY <1>0, <2>1, <2>2, <2>7, <2>8, <2>9, <2>10, NoteStep
<1> QED
    BY <1>1, <1>2, <1>3

(* A key is made. *)
LEMMA GenerateStep ==
    ASSUME Inv, NEW q \in Requests, NEW k \in Keys, GenerateApiKey(q, k)
    PROVE  Inv'
<1> DEFINE r == req[q]  m == r.merchant  row == [merchantId |-> m, isActive |-> TRUE]
<1>1. /\ r \in ReqType /\ ReqInv(q) /\ r.pc = "write" /\ r.op = "generate" /\ ~Exists(k)
      /\ apiKeys' = [apiKeys EXCEPT ![k] = row] /\ Note(q, <<"api_key_generated", m, k>>)
      /\ UNCHANGED <<merchants, auditLogs, revoked, begun, faults>>
    BY DEF Inv, GenerateApiKey, Handles
<1>2. m \in Merchants /\ Registered(m)
    BY <1>1 DEF ReqInv, Holds
<1>3. PICK note \in Notes : note = <<"api_key_generated", m, k>>
    BY <1>2 DEF Notes, Entries, Things
<1>4. row # Nothing
    <2>1. row \in [merchantId : Merchants, isActive : BOOLEAN]
        BY <1>2
    <2> QED
        BY <2>1, NothingAssumption
<1>5. /\ apiKeys'[k] = row /\ \A l \in Keys \ {k} : apiKeys'[l] = apiKeys[l]
      /\ apiKeys' \in [Keys -> [merchantId : Merchants, isActive : BOOLEAN] \cup {Nothing}]
    BY <1>1, <1>2 DEF Inv, TablesOK
<1>6. TablesOK'
    BY <1>1, <1>2, <1>5 DEF Inv, TablesOK, Registered
<1>7. Grown /\ RolesKept /\ UniqueAccounts'
    BY <1>1, <1>5 DEF Inv, Grown, RolesKept, UniqueAccounts, Registered, Exists, Active
<1>8. ASSUME NEW n \in Merchants, NEW l \in Keys, Owns(n, l)'
      PROVE  \/ Owns(n, l) /\ Active(l)' = Active(l)
             \/ note = <<"api_key_generated", n, l>> /\ Active(l)'
    <2>1. CASE l = k
        <3>1. apiKeys'[k].merchantId = m /\ apiKeys'[k].isActive
            BY <1>5
        <3>2. n = m
            BY <2>1, <3>1, <1>8 DEF Owns
        <3> QED
            BY <2>1, <3>1, <3>2, <1>3 DEF Active
    <2>2. CASE l # k
        BY <2>2, <1>5, <1>8 DEF Owns, Exists, Active
    <2> QED
        BY <2>1, <2>2
<1>9. AuditComplete'
    BY <1>1, <1>3, <1>8, OtherEntries
<1>10. NoteTrue(note)'
    BY <1>2, <1>3, <1>4, <1>5 DEF NoteTrue, Owns, Exists
<1> QED
    BY <1>1, <1>3, <1>6, <1>7, <1>9, <1>10, NoteStep

(* A key is revoked: it is the request's merchant's, as the ownership      *)
(* guard and the controller have found it.                                 *)
LEMMA RevokeStep ==
    ASSUME Inv, NEW q \in Requests, RevokeApiKey(q)
    PROVE  Inv'
<1> DEFINE r == req[q]  m == r.merchant  k == r.arg
<1>1. /\ r \in ReqType /\ ReqInv(q) /\ r.pc = "write" /\ r.op = "revoke"
      /\ UNCHANGED <<merchants, auditLogs, revoked, begun, faults>>
    BY DEF Inv, RevokeApiKey, Handles
<1>2. /\ m \in Merchants /\ Holds(m, r.wallet) /\ k \in Keys /\ Exists(k)
      /\ Holds(apiKeys[k].merchantId, r.wallet)
    BY <1>1 DEF ReqInv
<1>3. apiKeys[k] \in [merchantId : Merchants, isActive : BOOLEAN]
    BY <1>2 DEF Inv, TablesOK, Exists
<1>4. Owns(m, k)
    <2>1. UniqueAccounts
        BY DEF Inv
    <2> QED
        BY <1>2, <1>3, <2>1 DEF UniqueAccounts, Holds, Owns
<1>5. apiKeys' = [apiKeys EXCEPT ![k].isActive = FALSE] /\ Note(q, <<"api_key_revoked", m, k>>)
    BY <1>2, <1>4 DEF RevokeApiKey
<1>6. PICK note \in Notes : note = <<"api_key_revoked", m, k>>
    BY <1>2 DEF Notes, Entries, Things
<1>7. /\ apiKeys'[k] \in [merchantId : Merchants, isActive : BOOLEAN]
      /\ apiKeys'[k].merchantId = apiKeys[k].merchantId /\ ~apiKeys'[k].isActive
      /\ \A l \in Keys \ {k} : apiKeys'[l] = apiKeys[l]
      /\ apiKeys' \in [Keys -> [merchantId : Merchants, isActive : BOOLEAN] \cup {Nothing}]
    BY <1>2, <1>3, <1>5 DEF Inv, TablesOK
<1>8. apiKeys'[k] # Nothing
    BY <1>7, NothingAssumption
<1>9. TablesOK'
    BY <1>1, <1>2, <1>7 DEF Inv, TablesOK, Exists
<1>10. Grown /\ RolesKept /\ UniqueAccounts'
    BY <1>1, <1>7, <1>8 DEF Inv, Grown, RolesKept, UniqueAccounts, Registered, Exists, Active
<1>11. ASSUME NEW n \in Merchants, NEW l \in Keys, Owns(n, l)'
       PROVE  \/ Owns(n, l) /\ Active(l)' = Active(l)
              \/ Owns(n, l) /\ note = <<"api_key_revoked", n, l>>
    <2>1. CASE l = k
        BY <2>1, <1>4, <1>6, <1>7, <1>11 DEF Owns, Exists
    <2>2. CASE l # k
        BY <2>2, <1>7, <1>11 DEF Owns, Exists, Active
    <2> QED
        BY <2>1, <2>2
<1>12. AuditComplete'
    BY <1>1, <1>5, <1>6, <1>11, OtherEntries
<1>13. NoteTrue(note)'
    BY <1>2, <1>4, <1>6, <1>7, <1>8 DEF NoteTrue, Owns, Exists, Active
<1> QED
    BY <1>1, <1>5, <1>6, <1>9, <1>10, <1>12, <1>13, NoteStep

(* The steps that end a request without writing the tables. *)
LEMMA EndStep ==
    ASSUME Inv, NEW q \in Requests,
           LogAudit(q) \/ SkipAudit(q) \/ FailRequest(q) \/ Serve(q)
    PROVE  Inv'
<1>1. /\ Finish(q) /\ UNCHANGED <<tables, begun>>
      /\ \/ auditLogs' = auditLogs /\ faults' = faults /\ req[q].pc # "log"
         \/ /\ auditLogs' = auditLogs \cup {req[q].note} /\ faults' = faults
            /\ req[q].pc = "log"
         \/ auditLogs' = auditLogs /\ faults < MaxFaults /\ faults' = faults + 1
      /\ \/ revoked' = revoked
         \/ /\ req[q].pc = "log" /\ req[q].note[1] = "api_key_revoked"
            /\ revoked' = revoked \cup {req[q].arg}
    BY DEF LogAudit, SkipAudit, FailRequest, Serve, Respond, Fault
<1>2. TablesOK'
    BY <1>1, AccountBoundsAssumption DEF Inv, TablesOK, tables
<1>3. IdleReq \in ReqType
    BY DEF IdleReq, NoNote, ReqType, Notes, Entries, Things, Places
<1>4. AuditComplete'
    BY <1>1, <1>2, <1>3, EntriesKept DEF Finish, tables
<1> QED
    BY <1>1, <1>2, <1>4, Still, FinishStep

(* An operator changes a role: requests behind the guard are marked. *)
LEMMA ChangeRoleStep ==
    ASSUME Inv, NEW m \in Merchants, NEW role \in {"merchant", "viewer"}, ChangeRole(m, role)
    PROVE  Inv'
<1>1. /\ Registered(m) /\ merchants' = [merchants EXCEPT ![m].role = role]
      /\ UNCHANGED <<apiKeys, auditLogs, revoked, begun, faults>>
    BY DEF ChangeRole
<1>2. merchants[m] \in Rows
    BY <1>1 DEF Inv, TablesOK, Registered
<1>3. [merchants[m] EXCEPT !.role = role] \in Rows
    BY <1>2 DEF Rows
<1>4. /\ merchants'[m] # Nothing
      /\ merchants'[m].wallet = merchants[m].wallet /\ merchants'[m].email = merchants[m].email
    BY <1>1, <1>2, <1>3, NothingAssumption DEF Inv, TablesOK, Rows
<1>5. \A n \in Merchants \ {m} : merchants'[n] = merchants[n]
    BY <1>1 DEF Inv, TablesOK
<1>6. TablesOK' /\ Grown
    <2>1. merchants' \in [Merchants -> Rows \cup {Nothing}]
        BY <1>1, <1>3 DEF Inv, TablesOK
    <2> QED
        BY <1>1, <1>4, <1>5, <2>1 DEF Inv, TablesOK, Grown, Registered, Exists, Active
<1>7. UniqueAccounts'
    BY <1>1, <1>4, <1>5 DEF Inv, UniqueAccounts, Registered
<1>8. \A q \in Requests :
          IF req[q].merchant = m /\ req[q].pc \in {"owner", "find", "write"}
          THEN req'[q] = [req[q] EXCEPT !.raced = TRUE] ELSE req'[q] = req[q]
    BY DEF ChangeRole
<1>9. req' \in [Requests -> ReqType]
    BY DEF ChangeRole, Inv, ReqType
<1>10. \A q \in Requests :
          /\ req'[q].pc = req[q].pc /\ req'[q].op = req[q].op /\ req'[q].arg = req[q].arg
          /\ req'[q].wallet = req[q].wallet /\ req'[q].merchant = req[q].merchant
          /\ req'[q].note = req[q].note
    BY <1>8 DEF Inv, ReqType
<1>11. ASSUME NEW q \in Requests PROVE ReqInv(q)'
    <2> DEFINE r == req[q]
    <2>1. r \in ReqType /\ ReqInv(q)
        BY DEF Inv
    <2>2. r.pc = "log" => NoteTrue(req[q].note)'
        BY <2>1, <1>6, <1>10, NoteStays DEF ReqInv
    <2>3. r.pc \in {"role", "owner", "find", "write"} =>
              req[q].merchant \in Merchants /\ Holds(req[q].merchant, req[q].wallet)'
        BY <2>1, <1>6, <1>10 DEF ReqInv, Grown, Holds
    <2>4. r.op = "revoke" /\ r.pc \in {"find", "write"} =>
              Exists(req[q].arg)' /\ Holds(apiKeys[req[q].arg].merchantId, req[q].wallet)'
        <3> SUFFICES ASSUME r.op = "revoke", r.pc \in {"find", "write"}
                     PROVE  Exists(req[q].arg)' /\ Holds(apiKeys[req[q].arg].merchantId, req[q].wallet)'
            OBVIOUS
        <3>1. r.arg \in Keys /\ Exists(r.arg) /\ Holds(apiKeys[r.arg].merchantId, r.wallet)
            BY <2>1 DEF ReqInv
        <3>2. apiKeys[r.arg].merchantId \in Merchants
            BY <3>1 DEF Inv, TablesOK, Exists
        <3> QED
            BY <1>1, <1>6, <1>10, <3>1, <3>2 DEF Grown, Holds
    <2>5. r.pc = "serve" => req[q].merchant \in Merchants /\ Registered(req[q].merchant)'
        BY <2>1, <1>6, <1>10 DEF ReqInv, Grown
    <2>6. r.pc \in {"owner", "find", "write"} =>
              merchants'[r.merchant].role \in Writers \/ req'[q].raced
        <3>1. CASE r.merchant = m
            BY <3>1, <1>8 DEF Inv, ReqType
        <3>2. CASE r.merchant # m
            BY <3>2, <1>5, <1>8, <2>1 DEF ReqInv
        <3> QED
            BY <3>1, <3>2
    <2> QED
        BY <2>1, <2>2, <2>3, <2>4, <2>5, <2>6, <1>10 DEF ReqInv
<1>12. \A note : NoteTrue(note) => NoteTrue(note)'
    BY <1>6, NoteStays
<1>13. AuditComplete'
    <2>1. \A note : Noted(note) => Noted(note)'
        BY <1>1, <1>10 DEF Noted, Pending
    <2> QED
        BY <1>1, <2>1 DEF Inv, AuditComplete, Owns, Exists, Active
<1> QED
    BY <1>1, <1>6, <1>7, <1>9, <1>11, <1>12, <1>13 DEF Inv, Exists, Active

LEMMA NextInv == Inv /\ [Next]_vars => Inv'
<1> SUFFICES ASSUME Inv, [Next]_vars PROVE Inv'
    OBVIOUS
<1>1. ASSUME NEW q \in Requests, Arrive(q) PROVE Inv'
    BY <1>1, ArriveStep
<1>2. ASSUME NEW q \in Requests, Handler(q) PROVE Inv'
    BY <1>2, GuardStep, MerchantWrite, GenerateStep, RevokeStep, EndStep DEF Handler
<1>3. ASSUME NEW m \in Merchants, NEW role \in {"merchant", "viewer"}, ChangeRole(m, role)
      PROVE  Inv'
    BY <1>3, ChangeRoleStep
<1>4. CASE UNCHANGED vars
    <2>1. /\ UNCHANGED <<tables, auditLogs, revoked, begun, faults>>
          /\ UNCHANGED <<merchants, apiKeys, req>>
        BY <1>4 DEF vars, tables
    <2>2. Grown /\ RolesKept /\ UniqueAccounts'
        BY <2>1, Still
    <2>3. \A q \in Requests : ReqInv(q)'
        BY <2>1, <2>2, OthersKeep
    <2>4. \A note \in auditLogs : NoteTrue(note)'
        BY <2>2, NoteStays DEF Inv
    <2>5. AuditComplete'
        BY <2>1 DEF Inv, AuditComplete, Owns, Exists, Active, Noted, Pending
    <2> QED
        BY <2>1, <2>2, <2>3, <2>4, <2>5 DEF Inv, TablesOK, Exists, Active
<1> QED
    BY <1>1, <1>2, <1>3, <1>4 DEF Next

LEMMA Invariance == Spec => []Inv
BY InitInv, NextInv, PTL DEF Spec

-----------------------------------------------------------------------------
(* Rows have the values of their columns, and a request behind the first   *)
(* guard acts for a registered merchant.                                   *)
THEOREM Typing == Spec => []TypeOK
BY InvImplies, Invariance, PTL

(* One account per wallet and per email. *)
THEOREM Unique == Spec => []UniqueAccounts
BY InvImplies, Invariance, PTL

(* The audit log tells the truth, and tells all until something fails. *)
THEOREM AuditIsTrue == Spec => []AuditAgrees
BY InvImplies, Invariance, PTL

-----------------------------------------------------------------------------
(* The statement that changes an existing key is revokeApiKey's. *)
LEMMA KeyWrites ==
    ASSUME Inv, Next, NEW k \in Keys, Exists(k), apiKeys'[k] # apiKeys[k]
    PROVE  \E q \in Requests : RevokeApiKey(q) /\ req[q].arg = k
<1>1. ASSUME NEW q \in Requests, NEW l \in Keys, GenerateApiKey(q, l) PROVE FALSE
    <2>1. ~Exists(l) /\ \A n \in Keys \ {l} : apiKeys'[n] = apiKeys[n]
        BY <1>1 DEF GenerateApiKey, Inv, TablesOK
    <2> QED
        BY <2>1
<1>2. ASSUME NEW q \in Requests, RevokeApiKey(q) PROVE req[q].arg = k
    <2>1. \A n \in Keys \ {req[q].arg} : apiKeys'[n] = apiKeys[n]
        BY <1>2 DEF RevokeApiKey, Inv, TablesOK
    <2> QED
        BY <2>1
<1>3. ASSUME NEW q \in Requests, Arrive(q) PROVE FALSE
    BY <1>3 DEF Arrive, Register, Authenticate, Begin, tables
<1>4. ASSUME NEW m \in Merchants, NEW role \in {"merchant", "viewer"}, ChangeRole(m, role)
      PROVE  FALSE
    BY <1>4 DEF ChangeRole
<1>5. ASSUME NEW q \in Requests, Handler(q), ~RevokeApiKey(q),
             \A l \in Keys : ~GenerateApiKey(q, l)
      PROVE  FALSE
    BY <1>5 DEF Handler, CheckRole, CheckOwner, UpdateProfile, SetWebhook, LogAudit, SkipAudit,
                FailRequest, Serve, InsertMerchant, FindByWallet, tables
<1> QED
    BY <1>1, <1>2, <1>3, <1>4, <1>5 DEF Next

(* A key is deactivated only for the merchant it belongs to. *)
THEOREM OnlyOwnersRevoke == Spec => RevokedByOwner
<1>1. Inv /\ [Next]_vars => [\A k \in Keys : Exists(k) /\ apiKeys'[k] # apiKeys[k] =>
          \E q \in Requests : Handles(q, "revoke") /\ req[q].arg = k
                                /\ Holds(apiKeys[k].merchantId, req[q].wallet)]_vars
    <2> SUFFICES ASSUME Inv, Next, NEW k \in Keys, Exists(k), apiKeys'[k] # apiKeys[k]
                 PROVE  \E q \in Requests : Handles(q, "revoke") /\ req[q].arg = k
                            /\ Holds(apiKeys[k].merchantId, req[q].wallet)
        OBVIOUS
    <2>1. PICK q \in Requests : RevokeApiKey(q) /\ req[q].arg = k
        BY KeyWrites
    <2>2. Handles(q, "revoke") /\ ReqInv(q)
        BY <2>1 DEF RevokeApiKey, Inv
    <2>3. Holds(apiKeys[k].merchantId, req[q].wallet)
        BY <2>1, <2>2 DEF ReqInv, Handles
    <2> QED
        BY <2>1, <2>2, <2>3
<1> QED
    BY <1>1, Invariance, PTL DEF Spec, RevokedByOwner

(* What a merchant changes it has the role to change, unless the role was  *)
(* taken away after the guard.                                             *)
THEOREM OnlyWritersWrite == Spec => WritersHaveTheRole
<1>1. Inv /\ [Next]_vars => [\A q \in Requests : Writes(q) =>
          merchants[req[q].merchant].role \in Writers \/ req[q].raced]_vars
    <2> SUFFICES ASSUME Inv, NEW q \in Requests, Writes(q)
                 PROVE  merchants[req[q].merchant].role \in Writers \/ req[q].raced
        OBVIOUS
    <2>1. req[q].pc = "write" /\ ReqInv(q)
        BY DEF Writes, UpdateProfile, SetWebhook, RevokeApiKey, GenerateApiKey, Handles, Inv
    <2> QED
        BY <2>1 DEF ReqInv
<1> QED
    BY <1>1, Invariance, PTL DEF Spec, WritersHaveTheRole

(* Once its revocation has been answered, a key opens nothing. *)
THEOREM RevokedForGood == Spec => RevocationIsFinal
<1>1. Inv /\ [Next]_vars =>
          [\A q \in Requests, k \in Keys : Authenticate(q, k) => k \notin revoked]_vars
    BY DEF Inv, Authenticate, Active
<1> QED
    BY <1>1, Invariance, PTL DEF Spec, RevocationIsFinal

=============================================================================
