------------------------------ MODULE ApiKeys ------------------------------
(***************************************************************************)
(* API keys: the table iam.api_keys, the requests that manage it and the   *)
(* authentication of every request by token or API key                     *)
(* (services/iam/api_key.py, endpoints/api_keys.py, api/deps.py).          *)
(*                                                                         *)
(* A request has one transaction.  validate_api_key writes last_used_at of *)
(* the key it accepts; the refresh that follows flushes that UPDATE, so    *)
(* the row of the key stays locked until the transaction ends.  A request  *)
(* that commits, whatever for, commits that last_used_at too: the creation *)
(* of a key does, and so do the handlers of other tables that commit.      *)
(* update and delete flush and nothing commits them: get_db closes the     *)
(* session after the answer.                                               *)
(***************************************************************************)
EXTENDS Integers, FiniteSets

CONSTANTS
    Sessions,      \* concurrent requests
    Users,
    Superusers,    \* users with is_superuser
    ActiveUsers,   \* users with is_active
    Keys,          \* ids of API keys
    Prefixes,      \* values of key_prefix
    Credentials,   \* the pairs of token and API key that requests come with
    Creates,       \* bodies of create requests
    Schemas,       \* the schemas the table may have
    Tables,        \* the contents of the table at the start
    None,
    MaxTime,       \* bound on the clock
    MaxRequests    \* bound on the number of requests

\* What a create request asks: tenant says if it names a tenant, exists if that
\* tenant is there; deadline 0 is no deadline.
Bodies == [scope : {"GLOBAL", "TENANT"}, tenant : BOOLEAN, exists : BOOLEAN,
           active : BOOLEAN, deadline : Nat]

Rows == [owner : Users, prefix : Prefixes, active : BOOLEAN, deadline : Nat,
         lastUsed : Nat]

UnusedRows == [owner : Users, prefix : Prefixes, active : BOOLEAN,
               deadline : Nat, lastUsed : {0}]

\* An invalid token has expired or cannot be decoded.
Tokens == Users \cup {None, "invalid"}
Secrets == Keys \cup {None, "unknown"}

ASSUME ApiKeysAssumption ==
    /\ Superusers \subseteq Users /\ ActiveUsers \subseteq Users
    /\ None \notin Users \cup Keys \cup Bodies \cup [id : Keys, row : Rows] \cup Rows
    /\ "invalid" \notin Users /\ "unknown" \notin Keys \cup {None}
    /\ Credentials \subseteq [token : Tokens, key : Secrets]
    /\ Creates \subseteq Bodies
    /\ Schemas \subseteq {"models", "migrations"}
    /\ Tables \subseteq [Keys -> UnusedRows \cup {None}]
    /\ MaxTime \in Nat /\ MaxRequests \in Nat

VARIABLES
    schema,        \* where the table comes from: models or migrations
    keys,          \* [Keys -> the committed row, or None]
    known,         \* keys whose secret a client has been given
    clock,
    pc,            \* where a session is
    req,           \* its request
    who,           \* the user it acts for
    stamp,         \* the last_used_at that it has written, 0 for none
    held,          \* the rows that its transaction has locked
    new,           \* the row that it is about to insert
    overlap,       \* keys whose last_used_at others committed since its stamp
    uses,          \* every use of a key: <<key, time>>
    deleted,       \* keys whose deletion was answered with 204
    issued         \* number of requests so far

txn == <<who, stamp, held, new, overlap>>
vars == <<schema, keys, known, clock, pc, req, txn, uses, deleted, issued>>

Requests ==
    [op : {"create", "read", "update", "delete", "other"}, token : Tokens,
     key : Secrets, target : Keys \cup {None}, body : Bodies \cup {None}]
NoRequest == [op |-> "read", token |-> None, key |-> None, target |-> None,
              body |-> None]

NewRows == [id : Keys, row : Rows]

Points == {"idle", "key", "touch", "user", "handler", "insert",
           "commit", "reply", "write", "answer"}

\* key_prefix is unique in the table of the models, not in the migrated one.
PrefixesDiffer(table) ==
    schema = "models" =>
        \A k, l \in Keys :
            /\ k # l /\ table[k] # None /\ table[l] # None
            => table[k].prefix # table[l].prefix

Init ==
    /\ schema \in Schemas
    /\ keys \in Tables
    /\ PrefixesDiffer(keys)
    /\ known = {k \in Keys : keys[k] # None}
    /\ clock = 1
    /\ pc = [s \in Sessions |-> "idle"]
    /\ req = [s \in Sessions |-> NoRequest]
    /\ who = [s \in Sessions |-> None]
    /\ stamp = [s \in Sessions |-> 0]
    /\ held = [s \in Sessions |-> {}]
    /\ new = [s \in Sessions |-> None]
    /\ overlap = [s \in Sessions |-> {}]
    /\ uses = {}
    /\ deleted = {}
    /\ issued = 0

-----------------------------------------------------------------------------
(* Requests *)

Goto(s, point) == pc' = [pc EXCEPT ![s] = point]

\* Model bound: every create that is under way can still find a free id.
RoomForOneMore ==
    Cardinality({s \in Sessions : req[s].op = "create" /\ pc[s] # "reply"})
        < Cardinality({k \in Keys : keys[k] = None})

Calls ==
    [op : {"create"}, target : {None}, body : Creates]
        \cup [op : {"read", "other"}, target : {None}, body : {None}]
        \cup [op : {"update", "delete"}, target : Keys, body : {None}]

Begin(s) ==
    /\ pc[s] = "idle"
    /\ issued < MaxRequests
    /\ issued' = issued + 1
    /\ \E cred \in Credentials, call \in Calls :
          /\ cred.key \in known \cup {None, "unknown"}
          /\ call.op = "create" => RoomForOneMore
          /\ req' = [req EXCEPT ![s] =
                    [op |-> call.op, target |-> call.target, body |-> call.body,
                     token |-> cred.token, key |-> cred.key]]
    /\ Goto(s, "key")
    /\ UNCHANGED <<schema, keys, known, clock, txn, uses, deleted>>

\* Defect: the session is not closed, and keeps its locks.
FinishKeepsLocks(s) ==
    /\ Goto(s, "idle")
    /\ req' = [req EXCEPT ![s] = NoRequest]
    /\ who' = [who EXCEPT ![s] = None]
    /\ stamp' = [stamp EXCEPT ![s] = 0]
    /\ new' = [new EXCEPT ![s] = None]
    /\ overlap' = [overlap EXCEPT ![s] = {}]
    /\ UNCHANGED <<schema, keys, clock, held, uses, issued>>

\* The request is answered and get_db closes the session: its locks go, and
\* whatever it has flushed and not committed.
Finish(s) ==
    /\ Goto(s, "idle")
    /\ req' = [req EXCEPT ![s] = NoRequest]
    /\ who' = [who EXCEPT ![s] = None]
    /\ stamp' = [stamp EXCEPT ![s] = 0]
    /\ held' = [held EXCEPT ![s] = {}]
    /\ new' = [new EXCEPT ![s] = None]
    /\ overlap' = [overlap EXCEPT ![s] = {}]
    /\ UNCHANGED <<schema, keys, clock, uses, issued>>

\* An answer that tells the client nothing new: an error, or data read.
End(s) == Finish(s) /\ UNCHANGED <<known, deleted>>

\* A cancelled task, a lost connection, a crash.
Abort(s) == pc[s] # "idle" /\ End(s)

Tick ==
    /\ clock < MaxTime
    /\ clock' = clock + 1
    /\ UNCHANGED <<schema, keys, known, pc, req, txn, uses, deleted, issued>>

-----------------------------------------------------------------------------
(* get_current_active_user *)

\* get_current_user_from_token: 401 for an expired token, 500 for another
\* one that cannot be decoded (there is no jwt.PyJWTError to catch).
TokenUser(s) ==
    /\ pc[s] = "key"
    /\ req[s].token = "invalid"
    /\ End(s)

\* The SELECT of validate_api_key finds the key by its prefix and hash.
Found(k) == k \in Keys /\ keys[k] # None /\ keys[k].active

\* Defect: a key is good through the second after its deadline as well.
InTimeOffByOne(k) ==
    keys[k].deadline = 0 \/ (schema = "migrations" /\ keys[k].deadline + 1 >= clock)

\* The deadline comes back aware of its zone from the table of the models:
\* comparing it with a naive now raises, and the request ends with a 500.
InTime(k) ==
    keys[k].deadline = 0 \/ (schema = "migrations" /\ keys[k].deadline >= clock)

\* get_current_user_from_api_key, which runs whatever the token says.
ValidateKey(s) ==
    LET k == req[s].key IN
    /\ pc[s] = "key"
    /\ req[s].token # "invalid"
    /\ IF k = None
       THEN /\ Goto(s, "user")
            /\ UNCHANGED <<schema, keys, known, clock, req, txn, uses, deleted,
                           issued>>
       ELSE IF Found(k) /\ InTime(k)
       THEN /\ Goto(s, "touch")
            /\ stamp' = [stamp EXCEPT ![s] = clock]
            /\ uses' = uses \cup {<<k, clock>>}
            /\ UNCHANGED <<schema, keys, known, clock, req, who, held, new,
                           overlap, deleted, issued>>
       ELSE End(s)

Locked(s, k) == \E t \in Sessions \ {s} : k \in held[t]

\* Take the lock of row k, once nobody else has it, and go on.
LockAndGoto(s, k, point) ==
    /\ ~ Locked(s, k)
    /\ held' = [held EXCEPT ![s] = @ \cup {k}]
    /\ Goto(s, point)
    /\ UNCHANGED <<schema, keys, known, clock, req, who, stamp, new, overlap,
                   uses, deleted, issued>>

\* The refresh of db_obj.user flushes last_used_at.
TouchKey(s) ==
    /\ pc[s] = "touch"
    /\ LockAndGoto(s, req[s].key, "user")

CredentialUser(s) ==
    IF req[s].token # None THEN req[s].token
    ELSE IF req[s].key # None THEN keys[req[s].key].owner
    ELSE None

\* get_current_user (401 without a user), get_current_active_user (400).
CurrentUser(s) ==
    /\ pc[s] = "user"
    /\ IF CredentialUser(s) \in ActiveUsers
       THEN /\ Goto(s, "handler")
            /\ who' = [who EXCEPT ![s] = CredentialUser(s)]
            /\ UNCHANGED <<schema, keys, known, clock, req, stamp, held, new,
                           overlap, uses, deleted, issued>>
       ELSE End(s)

-----------------------------------------------------------------------------
(* POST /api-keys/ *)

\* 403 when a regular user names a tenant, 400 (ValueError of create_with_user)
\* when the scope needs a tenant that the request does not name.
CreateAllowed(u, body) ==
    /\ ~ body.tenant \/ u \in Superusers
    /\ body.scope = "TENANT" => body.tenant

Pending(k) == \E t \in Sessions : new[t] # None /\ new[t].id = k

\* A fresh id, and a fresh secret with any prefix.
CreateKey(s) ==
    LET body == req[s].body IN
    /\ pc[s] = "handler" /\ req[s].op = "create"
    /\ \/ /\ CreateAllowed(who[s], body)
          /\ \E k \in Keys, p \in Prefixes :
                /\ keys[k] = None /\ ~ Pending(k)
                /\ new' = [new EXCEPT ![s] =
                             [id |-> k,
                              row |-> [owner |-> who[s], prefix |-> p,
                                       active |-> body.active,
                                       deadline |-> body.deadline,
                                       lastUsed |-> 0]]]
          /\ Goto(s, "insert")
          /\ UNCHANGED <<schema, keys, known, clock, req, who, stamp, held,
                         overlap, uses, deleted, issued>>
       \/ ~ CreateAllowed(who[s], body) /\ End(s)

\* Another transaction has inserted the same prefix and has not ended.
PrefixAwaited(s) ==
    /\ schema = "models"
    /\ \E t \in Sessions \ {s} :
          pc[t] = "commit" /\ new[t].row.prefix = new[s].row.prefix

\* The INSERT of the flush.  IntegrityError: the prefix is taken, or the tenant
\* of a tenant's key does not exist; rollback and 500.
InsertKey(s) ==
    /\ pc[s] = "insert"
    /\ ~ PrefixAwaited(s)
    /\ IF /\ PrefixesDiffer([keys EXCEPT ![new[s].id] = new[s].row])
          /\ req[s].body.scope = "TENANT" => req[s].body.exists
       THEN /\ Goto(s, "commit")
            /\ UNCHANGED <<schema, keys, known, clock, req, txn, uses, deleted,
                           issued>>
       ELSE End(s)

IsNew(s, k) == new[s] # None /\ new[s].id = k

\* Defect: last_used_at is rounded up.
CommittedRoundedUp(s) ==
    [k \in Keys |->
        IF IsNew(s, k) THEN new[s].row
        ELSE IF stamp[s] # 0 /\ k = req[s].key
        THEN [keys[k] EXCEPT !.lastUsed = stamp[s] + 1]
        ELSE keys[k]]

\* Defect: the new row is stored without user_id.
CommittedUnowned(s) ==
    [k \in Keys |->
        IF IsNew(s, k) THEN [new[s].row EXCEPT !.owner = None]
        ELSE IF stamp[s] # 0 /\ k = req[s].key
        THEN [keys[k] EXCEPT !.lastUsed = stamp[s]]
        ELSE keys[k]]

\* The table after the COMMIT: the new row, if there is one, and the
\* last_used_at that the authentication of this very request has flushed.
Committed(s) ==
    [k \in Keys |->
        IF IsNew(s, k) THEN new[s].row
        ELSE IF stamp[s] # 0 /\ k = req[s].key
        THEN [keys[k] EXCEPT !.lastUsed = stamp[s]]
        ELSE keys[k]]

\* A COMMIT shows what the session has flushed, and frees its locks.
Commit(s) ==
    /\ keys' = Committed(s)
    /\ held' = [held EXCEPT ![s] = {}]
    /\ stamp' = [stamp EXCEPT ![s] = 0]
    /\ overlap' = [t \in Sessions |->
                      IF t = s THEN {}
                      ELSE IF stamp[s] # 0 /\ stamp[t] # 0
                      THEN overlap[t] \cup {req[s].key}
                      ELSE overlap[t]]
    /\ UNCHANGED <<schema, known, clock, new, uses, deleted, issued>>

CommitKey(s) ==
    /\ pc[s] = "commit"
    /\ Commit(s)
    /\ Goto(s, "reply")
    /\ UNCHANGED <<req, who>>

\* A request for another resource whose handler commits, and its answer.
CommitElsewhere(s) ==
    /\ pc[s] = "handler" /\ req[s].op = "other"
    /\ Commit(s)
    /\ Goto(s, "idle")
    /\ req' = [req EXCEPT ![s] = NoRequest]
    /\ who' = [who EXCEPT ![s] = None]

\* 201 with the only copy of the secret.
ReplyKey(s) ==
    /\ pc[s] = "reply"
    /\ known' = known \cup {new[s].id}
    /\ Finish(s)
    /\ UNCHANGED deleted

-----------------------------------------------------------------------------
(* GET, PUT and DELETE *)

MayUse(u, k) == u \in Superusers \/ keys[k].owner = u

ReadKeys(s) ==
    /\ pc[s] = "handler" /\ req[s].op = "read"
    /\ End(s)

\* Defect: only the existence of the key is checked.
SelectAnyKey(s) ==
    /\ pc[s] = "handler" /\ req[s].op \in {"update", "delete"}
    /\ IF keys[req[s].target] # None
       THEN /\ Goto(s, "write")
            /\ UNCHANGED <<schema, keys, known, clock, req, txn, uses, deleted,
                           issued>>
       ELSE End(s)

\* 404 without a row, 403 for the key of somebody else.
SelectKey(s) ==
    /\ pc[s] = "handler" /\ req[s].op \in {"update", "delete"}
    /\ IF keys[req[s].target] # None /\ MayUse(who[s], req[s].target)
       THEN /\ Goto(s, "write")
            /\ UNCHANGED <<schema, keys, known, clock, req, txn, uses, deleted,
                           issued>>
       ELSE End(s)

\* The flush of CRUDBase.update or CRUDBase.delete.
WriteKey(s) ==
    /\ pc[s] = "write"
    /\ LockAndGoto(s, req[s].target, "answer")

\* 200 or 204, and the rollback of the close.
AnswerKey(s) ==
    /\ pc[s] = "answer"
    /\ deleted' = IF req[s].op = "delete" THEN deleted \cup {req[s].target} ELSE deleted
    /\ Finish(s)
    /\ UNCHANGED known

-----------------------------------------------------------------------------
Handle(s) ==
    \/ TokenUser(s) \/ ValidateKey(s) \/ TouchKey(s) \/ CurrentUser(s)
    \/ CreateKey(s) \/ InsertKey(s) \/ CommitKey(s) \/ ReplyKey(s)
    \/ ReadKeys(s) \/ SelectKey(s) \/ WriteKey(s) \/ AnswerKey(s)
    \/ CommitElsewhere(s)

\* Session a waits for a lock that b has.
Waits(a, b) ==
    /\ a # b
    /\ \/ pc[a] = "touch" /\ req[a].key \in held[b]
       \/ pc[a] = "write" /\ req[a].target \in held[b]
       \/ /\ pc[a] = "insert" /\ pc[b] = "commit" /\ schema = "models"
          /\ new[a].row.prefix = new[b].row.prefix

\* The database cancels one of the sessions that wait for one another.
BreakDeadlock(s) ==
    /\ \E ring \in SUBSET Sessions :
          /\ s \in ring
          /\ \A a \in ring : \E b \in ring : Waits(a, b)
    /\ End(s)

Next ==
    \/ \E s \in Sessions : Begin(s) \/ Handle(s) \/ Abort(s)
    \/ Tick

Spec == Init /\ [][Next]_vars

\* Tasks whose statement has finished are resumed; deadlocks are noticed.
FairSpec ==
    /\ Spec
    /\ \A s \in Sessions : WF_vars(Handle(s))
    /\ WF_vars(\E s \in Sessions : BreakDeadlock(s))

-----------------------------------------------------------------------------
(* Properties *)

\* Types of the table and of the sessions.
TypeOK ==
    /\ schema \in Schemas
    /\ keys \in [Keys -> Rows \cup {None}]
    /\ known \subseteq Keys
    /\ clock \in Nat
    /\ pc \in [Sessions -> Points]
    /\ req \in [Sessions -> Requests]
    /\ who \in [Sessions -> Users \cup {None}]
    /\ stamp \in [Sessions -> Nat]
    /\ held \in [Sessions -> SUBSET Keys]
    /\ new \in [Sessions -> NewRows \cup {None}]
    /\ overlap \in [Sessions -> SUBSET Keys]
    /\ uses \subseteq Keys \X Nat
    /\ deleted \subseteq Keys
    /\ issued \in 0..MaxRequests

\* validate_api_key checks the key once, at the start of the request.  As long
\* as the request runs on that check, the committed row is still active and was
\* in time when it was checked; in the table of the models no key with a
\* deadline gets that far.
AuthenticatedKeyValid ==
    \A s \in Sessions :
        stamp[s] # 0 =>
            LET k == req[s].key IN
            /\ Found(k)
            /\ \/ keys[k].deadline = 0
               \/ schema = "migrations" /\ stamp[s] <= keys[k].deadline

\* last_used_at, where it survives, is a time at which the key was accepted.
LastUsedIsTruthful ==
    \A k \in Keys :
        keys[k] # None /\ keys[k].lastUsed # 0 => <<k, keys[k].lastUsed>> \in uses

\* The time that a request is about to write is older than the committed one
\* only if another request with the same key has committed since it was taken.
RegressOnlyByOverlap ==
    \A s \in Sessions :
        stamp[s] # 0 /\ keys[req[s].key].lastUsed > stamp[s]
            => req[s].key \in overlap[s]

\* A request keeps other requests from a row only if it presented the secret of
\* that key or acts for a user who may manage it.
LocksOnlyOwnKeys ==
    \A s \in Sessions : \A k \in held[s] :
        k = req[s].key \/ (who[s] # None /\ MayUse(who[s], k))

\* The row locks of last_used_at, of updates and of deletions, and the unique
\* prefix, keep no request from ending.
EveryRequestEnds == \A s \in Sessions : (pc[s] # "idle") ~> (pc[s] = "idle")

\* test_delete_api_key: after a 204 the key is not found any more.
DeletedKeyIsGone == \A k \in deleted : keys[k] = None
=============================================================================
