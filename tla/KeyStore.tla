------------------------------- MODULE KeyStore -------------------------------
(***************************************************************************)
(* API keys (vektra-admin): the rows of api_keys, the in-memory copy that  *)
(* every request is authenticated against, the bootstrap key that may make *)
(* one key, and the audit entries written after the answer.                *)
(*                                                                         *)
(* A request is one call of a handler, from its authentication dependency  *)
(* to its answer; an action is what runs between two awaits that let other *)
(* requests in.  Routes that change no key do nothing but Accepts.         *)
(***************************************************************************)
EXTENDS Naturals, FiniteSets

CONSTANTS
    Requests,  \* each is used once (bound on the run's length)
    Boot,      \* VEKTRA_ADMIN_BOOTSTRAP_KEY
    None,
    Faults     \* which failures of the environment occur

ASSUME DistinctAssumption == Boot \notin Requests /\ None \notin Requests \cup {Boot}
ASSUME FaultsAssumption == Faults \subseteq {"crash", "db", "external"}

VARIABLES
    up,        \* the application serves
    row,       \* api_keys
    cache,     \* InMemoryKeyStore._by_hash
    consumed,  \* system_state.bootstrap_consumed
    holder,    \* the transaction that holds that row's lock, or None
    expired,   \* the clock passed the expires_at of these keys
    req,       \* the requests
    todo,      \* audit tasks of a request that was answered
    audit,     \* audit_log: <<request, writer>>
    issued,    \* history: keys whose plaintext was returned
    unnoticed, \* history: keys revoked while the cache was not told
    lost       \* history: requests an audit entry of which was lost

vars == <<up, row, cache, consumed, holder, expired, req, todo, audit,
          issued, unnoticed, lost>>
database == <<row, consumed, holder, expired>>
auditing == <<todo, audit, lost>>

-----------------------------------------------------------------------------
\* A key goes by the request that creates it.
Keys == Requests

\* What api_keys and the cache both hold of a key.
Entry == [state : {"absent", "live", "revoked"}, admin : BOOLEAN, expires : BOOLEAN]
NoEntry == [state |-> "absent", admin |-> FALSE, expires |-> FALSE]

InFlight == {"lock", "verify", "write", "refresh", "select", "commit", "uncache"}
Ended    == {"answered", "declined", "refused", "failed", "killed"}
Writers  == {"event", "middleware"}  \* audit.log_event and AuditMiddleware

TypeOK ==
    /\ up \in BOOLEAN
    /\ row \in [Keys -> Entry]
    /\ cache \in [Keys -> Entry]
    /\ consumed \in BOOLEAN
    /\ holder \in Requests \cup {None}
    /\ expired \subseteq Keys
    /\ req \in [Requests -> [pc : {"idle"} \cup InFlight \cup Ended,
                             op : {"create", "revoke"}, ui : BOOLEAN,
                             tok : Keys \cup {Boot}, key : Keys \cup {None}]]
    /\ todo \in [Requests -> SUBSET Writers]
    /\ audit \subseteq Requests \X Writers
    /\ issued \subseteq Keys
    /\ unnoticed \subseteq Keys
    /\ lost \subseteq Requests

Init ==
    /\ up = TRUE
    /\ row = [k \in Keys |-> NoEntry]
    /\ cache = [k \in Keys |-> NoEntry]
    /\ consumed = FALSE
    /\ holder = None
    /\ expired = {}
    /\ req = [r \in Requests |-> [pc |-> "idle", op |-> "create", ui |-> FALSE,
                                  tok |-> Boot, key |-> None]]
    /\ todo = [r \in Requests |-> {}]
    /\ audit = {}
    /\ issued = {}
    /\ unnoticed = {}
    /\ lost = {}

-----------------------------------------------------------------------------
(* Authentication: require_scope, _require_admin_ui, create_api_key.       *)

Goto(r, pc) == req' = [req EXCEPT ![r].pc = pc]

\* lookup_by_token, after verify_key: the entry is read again.
Accepts(k) ==
    /\ cache[k].state = "live"
    /\ ~(cache[k].expires /\ k \in expired)

\* The bootstrap key opens POST /api-keys only; a token the cache does not
\* know ends at once, the others are verified in a thread.
Begin(r, op, ui, tok) ==
    /\ up
    /\ req[r].pc = "idle"
    /\ IF tok = Boot THEN op = "create" /\ ~ui ELSE tok \in issued
    /\ req' = [req EXCEPT ![r] =
         [pc |-> IF tok = Boot THEN "lock"
                 ELSE IF cache[tok].state = "absent" THEN "refused" ELSE "verify",
          op |-> op, ui |-> ui, tok |-> tok, key |-> None]]
    /\ UNCHANGED <<up, cache, database, auditing, issued, unnoticed>>

\* Mutant of LockBootstrap: a plain SELECT, which waits for nobody.
LockBootstrapUnlocked(r) ==
    /\ req[r].pc = "lock"
    /\ Goto(r, IF consumed THEN "refused" ELSE "write")
    /\ UNCHANGED <<up, row, cache, database, auditing, issued, unnoticed>>

\* SELECT ... FOR UPDATE of the bootstrap row, held until the request's
\* transaction ends.
LockBootstrap(r) ==
    /\ req[r].pc = "lock"
    /\ holder = None
    /\ holder' = IF consumed THEN None ELSE r
    /\ Goto(r, IF consumed THEN "refused" ELSE "write")
    /\ UNCHANGED <<up, row, cache, consumed, expired, auditing, issued, unnoticed>>

\* Creating and revoking need the admin scope.  AuditMiddleware records who
\* left a key id on the request: every route but the API's create, and the
\* admin pages only for administrators.
Verify(r) ==
    LET q == req[r]
        pc == CASE ~Accepts(q.tok)      -> "refused"
                [] ~cache[q.tok].admin  -> "declined"
                [] q.op = "create"      -> "write"
                [] q.op = "revoke"      -> "select"
    IN  /\ q.pc = "verify"
        /\ Goto(r, pc)
        /\ todo' = [todo EXCEPT ![r] =
             IF pc = "declined" /\ q.op = "revoke" /\ ~q.ui THEN {"middleware"} ELSE {}]
        /\ UNCHANGED <<up, cache, database, audit, lost, issued, unnoticed>>

-----------------------------------------------------------------------------
(* Creating a key.                                                         *)

\* The end of a transaction that did not commit.
Rollback(r) == holder' = IF holder = r THEN None ELSE holder

\* The API checks scopes and expiry, after the bootstrap row is locked.
Invalid(r) ==
    /\ req[r].pc = "write" /\ ~req[r].ui
    /\ Goto(r, "refused")
    /\ Rollback(r)
    /\ UNCHANGED <<up, row, cache, consumed, expired, auditing, issued, unnoticed>>

\* INSERT of the key, UPDATE of the bootstrap row, one COMMIT.
Write(r, admin, expires) ==
    /\ req[r].pc = "write"
    /\ req[r].ui => ~expires
    /\ row' = [row EXCEPT ![r] = [state |-> "live", admin |-> admin, expires |-> expires]]
    /\ consumed' = (consumed \/ req[r].tok = Boot)
    /\ Rollback(r)
    /\ Goto(r, "refresh")
    /\ UNCHANGED <<up, cache, expired, auditing, issued, unnoticed>>

\* Mutant of Cache: the entry is made without expires_at.
CacheForever(k) ==
    cache' = [cache EXCEPT ![k] = [row[k] EXCEPT !.state = "live", !.expires = FALSE]]

\* add_key knows nothing of a revocation since the commit.
Cache(k) == cache' = [cache EXCEPT ![k] = [row[k] EXCEPT !.state = "live"]]

\* Mutant of AddKey: the admin page leaves no key id on the request.
AddKeyNoActor(r) ==
    /\ req[r].pc = "refresh"
    /\ Cache(r)
    /\ issued' = issued \cup {r}
    /\ todo' = [todo EXCEPT ![r] = IF req[r].ui THEN {} ELSE {"event"}]
    /\ Goto(r, "answered")
    /\ UNCHANGED <<up, database, audit, lost, unnoticed>>

\* After the refresh: add_key, the audit task, and the answer with the key.
AddKey(r) ==
    /\ req[r].pc = "refresh"
    /\ Cache(r)
    /\ issued' = issued \cup {r}
    /\ todo' = [todo EXCEPT ![r] = IF req[r].ui THEN {"middleware"} ELSE {"event"}]
    /\ Goto(r, "answered")
    /\ UNCHANGED <<up, database, audit, lost, unnoticed>>

-----------------------------------------------------------------------------
(* Revoking a key.                                                         *)

\* Mutant of Select: the audit entry is written ahead of the commit.
SelectLogsFirst(r, k) ==
    /\ req[r].pc = "select"
    /\ IF row[k].state = "live"
       THEN /\ req' = [req EXCEPT ![r].pc = "commit", ![r].key = k]
            /\ todo' = [todo EXCEPT ![r] = {"event"}]
       ELSE /\ Goto(r, "declined")
            /\ todo' = [todo EXCEPT ![r] = {"middleware"}]
    /\ UNCHANGED <<up, cache, database, audit, lost, issued, unnoticed>>

\* 404 without a row, 409 when it is revoked already.
Select(r, k) ==
    /\ req[r].pc = "select"
    /\ IF row[k].state = "live"
       THEN /\ req' = [req EXCEPT ![r].pc = "commit", ![r].key = k]
            /\ UNCHANGED todo
       ELSE /\ Goto(r, "declined")
            /\ todo' = [todo EXCEPT ![r] = {"middleware"}]
    /\ UNCHANGED <<up, cache, database, audit, lost, issued, unnoticed>>

Revoke(r) ==
    /\ req[r].pc = "commit"
    /\ row' = [row EXCEPT ![req[r].key].state = "revoked"]
    /\ Goto(r, "uncache")
    /\ UNCHANGED <<up, cache, consumed, holder, expired, auditing, issued, unnoticed>>

\* revoke_key_by_id: an entry that is not there yet stays out of its reach.
MarkRevoked(k) ==
    /\ cache' = IF cache[k].state = "absent" THEN cache
                ELSE [cache EXCEPT ![k].state = "revoked"]
    /\ unnoticed' = IF cache[k].state = "absent" THEN unnoticed \cup {k} ELSE unnoticed

Uncache(r) ==
    /\ req[r].pc = "uncache"
    /\ MarkRevoked(req[r].key)
    /\ todo' = [todo EXCEPT ![r] =
         IF req[r].ui THEN {"middleware"} ELSE {"event", "middleware"}]
    /\ Goto(r, "answered")
    /\ UNCHANGED <<up, database, audit, lost, issued>>

-----------------------------------------------------------------------------
(* Failures, audit, the clock, restarts.                                   *)

\* A statement raises: 500, the transaction is rolled back, and neither the
\* background task nor AuditMiddleware gets to run.
Fail(r) ==
    /\ "db" \in Faults
    /\ req[r].pc \in {"lock", "write", "refresh", "select", "commit"}
    /\ Goto(r, "failed")
    /\ Rollback(r)
    /\ UNCHANGED <<up, row, cache, consumed, expired, auditing, issued, unnoticed>>

\* The admin pages read all keys again after the change: when that fails,
\* the change stands and the page shows an error.
ReloadFails(r) ==
    /\ "db" \in Faults
    /\ req[r].ui
    /\ \/ /\ req[r].pc = "refresh"
          /\ Cache(r)
          /\ UNCHANGED unnoticed
       \/ /\ req[r].pc = "uncache"
          /\ MarkRevoked(req[r].key)
    /\ Goto(r, "failed")
    /\ UNCHANGED <<up, database, auditing, issued>>

\* log_event after the response, or the middleware's task.
WriteAudit(r, w) ==
    /\ w \in todo[r]
    /\ todo' = [todo EXCEPT ![r] = @ \ {w}]
    /\ audit' = audit \cup {<<r, w>>}
    /\ UNCHANGED <<up, cache, database, req, issued, unnoticed, lost>>

\* Its failure is logged and swallowed.
LoseAudit(r, w) ==
    /\ "db" \in Faults
    /\ w \in todo[r]
    /\ todo' = [todo EXCEPT ![r] = @ \ {w}]
    /\ lost' = lost \cup {r}
    /\ UNCHANGED <<up, cache, database, req, audit, issued, unnoticed>>

Expire(k) ==
    /\ row[k].expires /\ k \notin expired
    /\ expired' = expired \cup {k}
    /\ UNCHANGED <<up, row, cache, consumed, holder, req, auditing, issued, unnoticed>>

\* Somebody else sets revoked_at in the database.
RevokeExternally(k) ==
    /\ "external" \in Faults
    /\ row[k].state = "live"
    /\ row' = [row EXCEPT ![k].state = "revoked"]
    /\ unnoticed' = unnoticed \cup {k}
    /\ UNCHANGED <<up, cache, consumed, holder, expired, req, auditing, issued>>

Crash ==
    /\ "crash" \in Faults
    /\ up
    /\ up' = FALSE
    /\ cache' = [k \in Keys |-> NoEntry]
    /\ holder' = None
    /\ req' = [r \in Requests |->
         IF req[r].pc \in InFlight THEN [req[r] EXCEPT !.pc = "killed"] ELSE req[r]]
    /\ todo' = [r \in Requests |-> {}]
    /\ lost' = lost \cup {r \in Requests : todo[r] # {}}
    /\ unnoticed' = {}
    /\ UNCHANGED <<row, consumed, expired, audit, issued>>

\* Mutant of Start: WHERE expires_at > now() alone, which NULL does not pass.
StartNoNull ==
    /\ ~up
    /\ up' = TRUE
    /\ cache' = [k \in Keys |->
         IF row[k].state = "live" /\ row[k].expires /\ k \notin expired
         THEN row[k] ELSE NoEntry]
    /\ unnoticed' = {}
    /\ UNCHANGED <<database, req, auditing, issued>>

\* load_from_db, before the first request is served.
Start ==
    /\ ~up
    /\ up' = TRUE
    /\ cache' = [k \in Keys |->
         IF row[k].state = "live" /\ ~(row[k].expires /\ k \in expired)
         THEN row[k] ELSE NoEntry]
    /\ unnoticed' = {}
    /\ UNCHANGED <<database, req, auditing, issued>>

-----------------------------------------------------------------------------
\* What a request does by itself, failures included.
Step(r) ==
    \/ LockBootstrap(r) \/ Verify(r) \/ Invalid(r)
    \/ \E admin, expires \in BOOLEAN : Write(r, admin, expires)
    \/ AddKey(r)
    \/ \E k \in Keys : Select(r, k)
    \/ Revoke(r) \/ Uncache(r)
    \/ Fail(r) \/ ReloadFails(r)

Audit(r, w) == WriteAudit(r, w) \/ LoseAudit(r, w)

Next ==
    \/ \E r \in Requests :
         \/ \E op \in {"create", "revoke"}, ui \in BOOLEAN, tok \in Keys \cup {Boot} :
              Begin(r, op, ui, tok)
         \/ Step(r)
         \/ \E w \in Writers : Audit(r, w)
    \/ \E k \in Keys : Expire(k) \/ RevokeExternally(k)
    \/ Crash \/ Start

Spec == Init /\ [][Next]_vars

\* asyncio runs every task that can run, and every statement comes back.
FairSpec ==
    /\ Spec
    /\ \A r \in Requests : WF_vars(Step(r)) /\ \A w \in Writers : WF_vars(Audit(r, w))

-----------------------------------------------------------------------------
(* Properties.                                                             *)

Good(k) == row[k].state = "live" /\ ~(row[k].expires /\ k \in expired)

\* A key that was revoked or has expired opens nothing (auth.py: "or None if
\* invalid/revoked"), however creations, revocations, expiry, failures and
\* restarts interleave: the cache may lag behind the row only while the
\* revoking request has still to reach it, or when it was never told.
RevokedIsRejected ==
    \A k \in Keys : Accepts(k) =>
        \/ Good(k)
        \/ k \in unnoticed
        \/ \E r \in Requests : req[r].pc = "uncache" /\ req[r].key = k

\* A key whose plaintext was handed out works, with the scopes and the expiry
\* of its row, until it is revoked or expires, restarts included.
IssuedWorks ==
    \A k \in issued : up /\ Good(k) => Accepts(k) /\ cache[k] = row[k]

\* REQ-036: of all requests that bring the bootstrap key, however they race,
\* at most one makes a key, and none does after that.
BootstrapOnce ==
    /\ \A r, s \in Requests :
         /\ req[r].tok = Boot /\ row[r].state # "absent"
         /\ req[s].tok = Boot /\ row[s].state # "absent"
         => r = s
    /\ consumed = \E r \in Requests : req[r].tok = Boot /\ row[r].state # "absent"

\* The audit log tells of no change that did not take place, although it is
\* written after the answer by tasks of their own.
AuditIsTrue ==
    \A r \in Requests : <<r, "event">> \in audit =>
        CASE req[r].op = "create" -> row[r].state # "absent" /\ r \in issued
          [] req[r].op = "revoke" -> row[req[r].key].state = "revoked"

\* NFR-007: a request that changed a key and was answered is in the audit log,
\* or a task that will put it there is left, or the process or the write of
\* the entry failed.
NoAuditForgotten ==
    \A r \in Requests : req[r].pc = "answered" =>
        \/ \E w \in Writers : <<r, w>> \in audit \/ w \in todo[r]
        \/ r \in lost

\* The lock on the bootstrap row is in the hands of a request that is about to
\* end its transaction, whatever made others fail, so nobody waits for ever.
LockComesFree == holder # None => up /\ req[holder].pc = "write" /\ ~consumed

\* keystore.py:4, "TTL (60s) is a fallback for external revocation only": a
\* revoked key is rejected in the end, whoever revoked it.
RevocationIsNoticed ==
    \A k \in Keys : row[k].state = "revoked" ~> ~Accepts(k)
=============================================================================
