-------------------------- MODULE MerchantAccounts --------------------------
(***************************************************************************)
(* Merchants, their API keys and the audit log (merchants.service.ts,      *)
(* audit.service.ts), with the guards a request passes before it changes   *)
(* them (merchants.controller.ts): JwtStrategy.validate, RolesGuard,       *)
(* ResourceOwnershipGuard, and ApiKeyGuard for the requests of a shop's    *)
(* own server.                                                             *)
(*                                                                         *)
(* An action is one statement with the code up to the next await: each     *)
(* guard reads the database by itself, and the handler writes after them.  *)
(* That a JWT names the wallet it was issued to is AuthChallenge's         *)
(* subject.  A request that is refused before any statement that changes   *)
(* something is left out.                                                  *)
(*                                                                         *)
(* A definition headed "Variant" is a plausible mistake in the definition  *)
(* that follows it.  No behaviour of the system uses it: it shows that a   *)
(* property notices the mistake.                                           *)
(***************************************************************************)
EXTENDS Naturals

CONSTANTS
    Merchants,    \* merchants.id
    Wallets,
    Emails,
    Keys,         \* api_keys.id
    Requests,     \* HTTP requests that may be in flight
    Nothing,      \* no row, no argument
    MaxRequests,  \* bound: requests in one behaviour
    MaxFaults     \* bound: statements that throw and instances that stop

ASSUME NothingAssumption == Nothing \notin [wallet : Wallets, email : Emails,
                                            role : {"merchant", "viewer"}, hook : BOOLEAN]
                            /\ Nothing \notin [merchantId : Merchants, isActive : BOOLEAN]
ASSUME AccountBoundsAssumption == MaxRequests \in Nat /\ MaxFaults \in Nat

VARIABLES
    merchants,  \* the merchants table; hook: webhook_url and webhook_secret are set
    apiKeys,    \* the api_keys table
    auditLogs,  \* the audit_logs table: <<action, merchantId, resourceId>>
    req,        \* per request: what it has read and is about to do
    revoked,    \* history: the keys whose revocation has been answered
    begun,      \* requests so far
    faults

tables == <<merchants, apiKeys>>
vars   == <<tables, auditLogs, req, revoked, begun, faults>>

NoNote == <<"", Nothing, Nothing>>

(* raced: the role of the merchant was changed after the request's guard   *)
(* had read it.                                                            *)
IdleReq == [pc |-> "idle", op |-> "", wallet |-> Nothing, arg |-> Nothing,
            merchant |-> Nothing, note |-> NoNote, raced |-> FALSE]

Registered(m) == merchants[m] # Nothing
Exists(k)     == apiKeys[k] # Nothing
Owns(m, k)    == Exists(k) /\ apiKeys[k].merchantId = m

(* SELECT ... WHERE wallet_address = w *)
Holds(m, w)      == Registered(m) /\ merchants[m].wallet = w
KnownWallet(w)   == \E m \in Merchants : Holds(m, w)

Init ==
    /\ merchants = [m \in Merchants |-> Nothing]
    /\ apiKeys   = [k \in Keys |-> Nothing]
    /\ auditLogs = {}
    /\ req       = [q \in Requests |-> IdleReq]
    /\ revoked   = {}
    /\ begun = 0 /\ faults = 0

Fault == faults < MaxFaults /\ faults' = faults + 1

Start(q, r) ==
    /\ req[q].pc = "idle"
    /\ begun < MaxRequests /\ begun' = begun + 1
    /\ req' = [req EXCEPT ![q] = r]

GoTo(q, pc) == req' = [req EXCEPT ![q].pc = pc]
Finish(q)   == req' = [req EXCEPT ![q] = IdleReq]

(* What is left to do is the audit entry. *)
Note(q, note) == req' = [req EXCEPT ![q].pc = "log", ![q].note = note]

-----------------------------------------------------------------------------
(* register: by anyone, for any wallet.  The guard of the controller, which *)
(* asks for the token of some wallet, is left out.                          *)

Register(q, w, e) ==
    /\ ~KnownWallet(w)
    /\ Start(q, [IdleReq EXCEPT !.pc = "insert", !.op = "register", !.wallet = w, !.arg = e])
    /\ UNCHANGED <<tables, auditLogs, revoked, faults>>

(* Variant: wallet_address is not unique. *)
WalletNotUnique(w) == FALSE

(* The unique columns of merchants. *)
WalletTaken(w)   == KnownWallet(w)
EmailTaken(m, e) == \E n \in Merchants \ {m} : Registered(n) /\ merchants[n].email = e

(* INSERT INTO merchants; a violated constraint throws. *)
InsertMerchant(q, m) ==
    LET r == req[q] IN
    /\ r.pc = "insert"
    /\ ~Registered(m)
    /\ IF WalletTaken(r.wallet) \/ EmailTaken(m, r.arg)
       THEN Finish(q) /\ UNCHANGED merchants
       ELSE /\ merchants' = [merchants EXCEPT ![m] =
                   [wallet |-> r.wallet, email |-> r.arg, role |-> "merchant", hook |-> FALSE]]
            /\ Note(q, <<"merchant_registered", m, m>>)
    /\ UNCHANGED <<apiKeys, auditLogs, revoked, begun, faults>>

-----------------------------------------------------------------------------
(* The guards of the dashboard routes. *)

(* AuthGuard: validate looks up the merchant of the token's wallet, and    *)
(* RolesGuard refuses a request without one.                               *)
Begin(q, op, m, arg) ==
    /\ Registered(m)
    /\ Start(q, [IdleReq EXCEPT !.pc = "role", !.op = op, !.wallet = merchants[m].wallet,
                                !.merchant = m, !.arg = arg])
    /\ UNCHANGED <<tables, auditLogs, revoked, faults>>

Writers == {"admin", "merchant"}

(* Variant: the role is not compared. *)
CheckNoRole(q) ==
    /\ req[q].pc = "role"
    /\ GoTo(q, IF req[q].op = "revoke" THEN "owner" ELSE "find")
    /\ UNCHANGED <<tables, auditLogs, revoked, begun, faults>>

(* RolesGuard *)
CheckRole(q) ==
    LET m == req[q].merchant IN
    /\ req[q].pc = "role"
    /\ IF merchants[m].role \in Writers
       THEN GoTo(q, IF req[q].op = "revoke" THEN "owner" ELSE "find")
       ELSE Note(q, <<"insufficient_role", m, req[q].arg>>)
    /\ UNCHANGED <<tables, auditLogs, revoked, begun, faults>>

(* Variant: the guard of the route is forgotten. *)
CheckNoOwner(q) ==
    /\ req[q].pc = "owner"
    /\ GoTo(q, "find")
    /\ UNCHANGED <<tables, auditLogs, revoked, begun, faults>>

(* ResourceOwnershipGuard *)
CheckOwner(q) ==
    LET m == req[q].merchant  k == req[q].arg IN
    /\ req[q].pc = "owner"
    /\ CASE Owns(m, k)  -> GoTo(q, "find")
         [] ~Exists(k)  -> Note(q, <<"resource_not_found", m, k>>)
         [] OTHER       -> Note(q, <<"access_denied", m, k>>)
    /\ UNCHANGED <<tables, auditLogs, revoked, begun, faults>>

(* The controller looks the merchant up again, by its wallet. *)
FindByWallet(q, m) ==
    /\ req[q].pc = "find"
    /\ Holds(m, req[q].wallet)
    /\ req' = [req EXCEPT ![q].pc = "write", ![q].merchant = m]
    /\ UNCHANGED <<tables, auditLogs, revoked, begun, faults>>

-----------------------------------------------------------------------------
(* The handlers behind them. *)

Handles(q, op) == req[q].pc = "write" /\ req[q].op = op

(* Variant: a field that was not given is written as well. *)
UpdateEveryField(q) ==
    LET m == req[q].merchant IN
    /\ Handles(q, "update")
    /\ merchants' = IF EmailTaken(m, req[q].arg) THEN merchants
                    ELSE [merchants EXCEPT ![m].email = req[q].arg]
    /\ Finish(q)
    /\ UNCHANGED <<apiKeys, auditLogs, revoked, begun, faults>>

(* A unique email again, if one is given; no audit entry. *)
UpdateProfile(q) ==
    LET m == req[q].merchant IN
    /\ Handles(q, "update")
    /\ merchants' = IF req[q].arg = Nothing \/ EmailTaken(m, req[q].arg) THEN merchants
                    ELSE [merchants EXCEPT ![m].email = req[q].arg]
    /\ Finish(q)
    /\ UNCHANGED <<apiKeys, auditLogs, revoked, begun, faults>>

(* The URL and a new secret in one statement. *)
SetWebhook(q) ==
    LET m == req[q].merchant IN
    /\ Handles(q, "webhook")
    /\ merchants' = [merchants EXCEPT ![m].hook = TRUE]
    /\ Note(q, <<"webhook_updated", m, m>>)
    /\ UNCHANGED <<apiKeys, auditLogs, revoked, begun, faults>>

GenerateApiKey(q, k) ==
    LET m == req[q].merchant IN
    /\ Handles(q, "generate")
    /\ ~Exists(k)
    /\ apiKeys' = [apiKeys EXCEPT ![k] = [merchantId |-> m, isActive |-> TRUE]]
    /\ Note(q, <<"api_key_generated", m, k>>)
    /\ UNCHANGED <<merchants, auditLogs, revoked, begun, faults>>

(* Variant: the audit entry comes without the write. *)
RevokeNothing(q) ==
    /\ Handles(q, "revoke")
    /\ Note(q, <<"api_key_revoked", req[q].merchant, req[q].arg>>)
    /\ UNCHANGED <<tables, auditLogs, revoked, begun, faults>>

(* UPDATE by id; only then is the owner compared. *)
RevokeApiKey(q) ==
    LET m == req[q].merchant  k == req[q].arg IN
    /\ Handles(q, "revoke")
    /\ apiKeys' = IF Exists(k) THEN [apiKeys EXCEPT ![k].isActive = FALSE] ELSE apiKeys
    /\ IF Owns(m, k) THEN Note(q, <<"api_key_revoked", m, k>>) ELSE Finish(q)
    /\ UNCHANGED <<merchants, auditLogs, revoked, begun, faults>>

(* The request is answered when its entry has been written or has failed:  *)
(* "Audit logging should never fail the request".                          *)
Respond(q) ==
    /\ revoked' = IF req[q].note[1] = "api_key_revoked" THEN revoked \cup {req[q].arg}
                  ELSE revoked
    /\ Finish(q)

LogAudit(q) ==
    /\ req[q].pc = "log"
    /\ auditLogs' = auditLogs \cup {req[q].note}
    /\ Respond(q)
    /\ UNCHANGED <<tables, begun, faults>>

SkipAudit(q) ==
    /\ req[q].pc = "log"
    /\ Fault
    /\ Respond(q)
    /\ UNCHANGED <<tables, auditLogs, begun>>

(* A statement throws, or the instance stops. *)
FailRequest(q) ==
    /\ req[q].pc # "idle"
    /\ Fault
    /\ Finish(q)
    /\ UNCHANGED <<tables, auditLogs, revoked, begun>>

-----------------------------------------------------------------------------
(* A request with an API key: ApiKeyGuard, validateApiKey.                 *)
Authenticate(q, k) ==
    /\ Exists(k) /\ apiKeys[k].isActive
    /\ Start(q, [IdleReq EXCEPT !.pc = "serve", !.op = "api", !.arg = k,
                                !.merchant = apiKeys[k].merchantId])
    /\ UNCHANGED <<tables, auditLogs, revoked, faults>>

(* What the route does is another component's. *)
Serve(q) ==
    /\ req[q].pc = "serve"
    /\ Finish(q)
    /\ UNCHANGED <<tables, auditLogs, revoked, begun, faults>>

(* No route changes a role: an operator does. *)
ChangeRole(m, role) ==
    /\ Registered(m) /\ merchants[m].role # role
    /\ merchants' = [merchants EXCEPT ![m].role = role]
    /\ req' = [q \in Requests |->
          IF req[q].merchant = m /\ req[q].pc \in {"owner", "find", "write"}
          THEN [req[q] EXCEPT !.raced = TRUE] ELSE req[q]]
    /\ UNCHANGED <<apiKeys, auditLogs, revoked, begun, faults>>

Handler(q) ==
    \/ CheckRole(q) \/ CheckOwner(q)
    \/ UpdateProfile(q) \/ SetWebhook(q) \/ RevokeApiKey(q)
    \/ LogAudit(q) \/ SkipAudit(q) \/ FailRequest(q) \/ Serve(q)
    \/ \E m \in Merchants : InsertMerchant(q, m) \/ FindByWallet(q, m)
    \/ \E k \in Keys : GenerateApiKey(q, k)

Arrive(q) ==
    \/ \E w \in Wallets, e \in Emails : Register(q, w, e)
    \/ \E k \in Keys : Authenticate(q, k)
    \/ \E m \in Merchants :
          \/ \E e \in Emails \cup {Nothing} : Begin(q, "update", m, e)
          \/ \E k \in Keys : Begin(q, "revoke", m, k)
          \/ \E op \in {"generate", "webhook"} : Begin(q, op, m, Nothing)

Next ==
    \/ \E q \in Requests : Arrive(q) \/ Handler(q)
    \/ \E m \in Merchants, role \in {"merchant", "viewer"} : ChangeRole(m, role)

Spec == Init /\ [][Next]_vars

-----------------------------------------------------------------------------
Rows == [wallet : Wallets, email : Emails, role : {"merchant", "viewer"}, hook : BOOLEAN]

Places == {"idle", "insert", "role", "owner", "find", "write", "log", "serve"}

(* The type invariant: rows have the values of their columns, and a request *)
(* past the first guard acts for a merchant that is registered.            *)
TypeOK ==
    /\ merchants \in [Merchants -> Rows \cup {Nothing}]
    /\ apiKeys \in [Keys -> [merchantId : Merchants, isActive : BOOLEAN] \cup {Nothing}]
    /\ \A note \in auditLogs : note[2] \in Merchants
    /\ revoked \subseteq Keys
    /\ \A q \in Requests :
          /\ req[q].pc \in Places
          /\ req[q].pc \in {"role", "owner", "find", "write", "serve"} =>
                req[q].merchant \in Merchants /\ Registered(req[q].merchant)
    /\ begun \in 0..MaxRequests /\ faults \in 0..MaxFaults

(* One account per wallet and per email, although register looks for the   *)
(* wallet in one statement and inserts in the next, and profiles change.   *)
UniqueAccounts ==
    \A m, n \in Merchants : Registered(m) /\ Registered(n) /\ m # n =>
        merchants[m].wallet # merchants[n].wallet /\ merchants[m].email # merchants[n].email

(* A key is deactivated only for the merchant it belongs to: revokeApiKey  *)
(* updates before it compares, so that this rests on the guard in front of *)
(* it, and on the guard and the controller finding the same merchant.      *)
RevokedByOwner ==
    [][\A k \in Keys : Exists(k) /\ apiKeys'[k] # apiKeys[k] =>
          \E q \in Requests :
              Handles(q, "revoke") /\ req[q].arg = k
                  /\ Holds(apiKeys[k].merchantId, req[q].wallet)]_vars

Writes(q) ==
    \/ UpdateProfile(q) \/ SetWebhook(q) \/ RevokeApiKey(q)
    \/ \E k \in Keys : GenerateApiKey(q, k)

(* What a merchant changes it has the role to change, unless its role was  *)
(* taken away between the guard and the write.                             *)
WritersHaveTheRole ==
    [][\A q \in Requests : Writes(q) =>
          merchants[req[q].merchant].role \in Writers \/ req[q].raced]_vars

(* A request is about to write this audit entry. *)
Pending(note) == \E q \in Requests : req[q].pc = "log" /\ req[q].note = note

Noted(note) == note \in auditLogs \/ Pending(note)

(* The audit log and the keys agree, although they are written one after   *)
(* the other: an entry names a key by its owner, and as revoked only when  *)
(* it is; and unless something failed, no key is made or revoked without.  *)
AuditAgrees ==
    /\ \A m \in Merchants, k \in Keys :
          /\ <<"api_key_generated", m, k>> \in auditLogs => Owns(m, k)
          /\ <<"api_key_revoked", m, k>> \in auditLogs => Owns(m, k) /\ ~apiKeys[k].isActive
          /\ <<"access_denied", m, k>> \in auditLogs => Exists(k) /\ ~Owns(m, k)
          /\ faults = 0 /\ Owns(m, k) =>
                /\ Noted(<<"api_key_generated", m, k>>)
                /\ ~apiKeys[k].isActive => Noted(<<"api_key_revoked", m, k>>)

(* Once the revocation of a key has been answered, no request is accepted  *)
(* by it any more.                                                         *)
RevocationIsFinal ==
    [][\A q \in Requests, k \in Keys : Authenticate(q, k) => k \notin revoked]_vars

=============================================================================
