--------------------------- MODULE ApiKeysProofs ---------------------------
(***************************************************************************)
(* Proofs about ApiKeys, for every set of sessions, users, keys and request*)
(* bodies, every initial table, and any bounds on clock and requests.      *)
(***************************************************************************)
EXTENDS ApiKeys, TLAPS

-----------------------------------------------------------------------------
(* The inductive invariant *)

\* Points at which the request has been given a user.
Acting == {"handler", "insert", "commit", "reply", "write", "answer"}

\* Points at which a last_used_at may be waiting for a commit.
Stamped == {"touch", "user"} \cup Acting

\* What the checks of the arguments leave: a create has a body, an update or a
\* delete has a target, and a handler has a user.
CallSound(s) ==
    /\ pc[s] # "idle" /\ req[s].op = "create" => req[s].body \in Bodies
    /\ pc[s] # "idle" /\ req[s].op \in {"update", "delete"} => req[s].target \in Keys
    /\ pc[s] \in {"insert", "commit", "reply"} => req[s].op = "create"
    /\ pc[s] \in {"write", "answer"} => req[s].op \in {"update", "delete"}
    /\ pc[s] \in Acting => who[s] \in Users
    /\ pc[s] \notin Acting => who[s] = None

\* What a time written by validate_api_key rests on.  The last conjunct is the
\* strengthening: no commit may come between without being recorded.
StampSound(s) ==
    /\ pc[s] = "touch" => stamp[s] # 0
    /\ pc[s] \in {"user", "handler"} /\ req[s].key # None => stamp[s] # 0
    /\ stamp[s] # 0 =>
          LET k == req[s].key IN
          /\ pc[s] \in Stamped
          /\ k \in Keys
          /\ Found(k)
          /\ keys[k].deadline = 0
                \/ (schema = "migrations" /\ stamp[s] <= keys[k].deadline)
          /\ stamp[s] <= clock
          /\ <<k, stamp[s]>> \in uses
          /\ keys[k].lastUsed > stamp[s] => k \in overlap[s]

\* A pending row has an id that is free until its own commit.
NewSound(s) ==
    /\ pc[s] \in {"insert", "commit", "reply"} <=> new[s] # None
    /\ pc[s] \in {"insert", "commit"} => keys[new[s].id] = None
    /\ new[s] # None => new[s].row.lastUsed = 0

\* A lock is on a committed row that the request may hold on to.
HeldSound(s) ==
    /\ pc[s] \in {"write", "answer"} =>
          keys[req[s].target] # None /\ MayUse(who[s], req[s].target)
    /\ pc[s] \in {"idle", "key", "touch"} => held[s] = {}
    /\ \A k \in held[s] :
          k = req[s].key
             \/ (pc[s] = "answer" /\ keys[k] # None /\ MayUse(who[s], k))

SessionSound(s) == CallSound(s) /\ StampSound(s) /\ NewSound(s) /\ HeldSound(s)

\* No two pending rows share an id.
IdsDiffer ==
    \A s, t \in Sessions :
        s # t /\ new[s] # None /\ new[t] # None => new[s].id # new[t].id

\* A committed last_used_at is the time of a use, and not in the future.
RowsSound ==
    \A k \in Keys :
        keys[k] # None =>
            /\ keys[k].lastUsed <= clock
            /\ keys[k].lastUsed # 0 => <<k, keys[k].lastUsed>> \in uses

IndInv ==
    /\ TypeOK
    /\ clock > 0
    /\ IdsDiffer
    /\ RowsSound
    /\ \A s \in Sessions : SessionSound(s)

-----------------------------------------------------------------------------
(* Steps *)

\* The other sessions do not move.
OthersRest(s) ==
    \A t \in Sessions \ {s} :
        /\ pc'[t] = pc[t] /\ req'[t] = req[t] /\ who'[t] = who[t]
        /\ stamp'[t] = stamp[t] /\ held'[t] = held[t] /\ new'[t] = new[t]
        /\ overlap'[t] = overlap[t]

\* The placeholder request is a request.
LEMMA NoRequestType == NoRequest \in Requests
  BY DEF NoRequest, Requests, Tokens, Secrets

\* The initial state satisfies the invariant.
LEMMA InitIndInv == Init => IndInv
  <1> SUFFICES ASSUME Init
               PROVE  IndInv
    OBVIOUS
  <1>1. keys \in [Keys -> UnusedRows \cup {None}]
    BY ApiKeysAssumption DEF Init
  <1>2. keys \in [Keys -> Rows \cup {None}]
    BY <1>1 DEF UnusedRows, Rows
  <1>3. \A k \in Keys : keys[k] # None => keys[k].lastUsed = 0
    BY <1>1 DEF UnusedRows
  <1>4. TypeOK
    BY <1>2, NoRequestType, ApiKeysAssumption DEF Init, TypeOK, Points
  <1>5. RowsSound
    BY <1>3 DEF RowsSound, Init
  <1>6. ASSUME NEW s \in Sessions
        PROVE  SessionSound(s)
    BY DEF Init, SessionSound, CallSound, StampSound, NewSound, HeldSound,
           Acting, NoRequest
  <1> QED
    BY <1>4, <1>5, <1>6 DEF IndInv, IdsDiffer, Init

\* A step of one session that leaves the committed table alone keeps the
\* invariant, if it keeps the types and what this session rests on.
LEMMA OwnStepInv ==
    ASSUME IndInv, NEW s \in Sessions, OthersRest(s), TypeOK',
           UNCHANGED <<schema, keys, clock>>, uses \subseteq uses',
           SessionSound(s)',
           new'[s] # None => \/ new'[s] = new[s]
                            \/ \A t \in Sessions : new[t] # None => new[t].id # new'[s].id
    PROVE  IndInv'
  <1>1. ASSUME NEW t \in Sessions, t # s
        PROVE  SessionSound(t)'
    <2>1. SessionSound(t)
      BY DEF IndInv
    <2>2. /\ pc'[t] = pc[t] /\ req'[t] = req[t] /\ who'[t] = who[t]
          /\ stamp'[t] = stamp[t] /\ held'[t] = held[t] /\ new'[t] = new[t]
          /\ overlap'[t] = overlap[t]
      BY <1>1 DEF OthersRest
    <2>3. CallSound(t)' /\ NewSound(t)' /\ HeldSound(t)'
      BY <2>1, <2>2 DEF SessionSound, CallSound, NewSound, HeldSound, MayUse
    <2>4. StampSound(t)'
      BY <2>1, <2>2 DEF SessionSound, StampSound, Found
    <2> QED
      BY <2>3, <2>4 DEF SessionSound
  <1>2. IdsDiffer'
    BY DEF IdsDiffer, IndInv, OthersRest
  <1>3. RowsSound'
    BY DEF RowsSound, IndInv
  <1> QED
    BY <1>1, <1>2, <1>3 DEF IndInv

\* Ending a request keeps the invariant.
LEMMA FinishInv ==
    ASSUME IndInv, NEW s \in Sessions, Finish(s), known' \subseteq Keys,
           deleted' \subseteq Keys
    PROVE  IndInv'
  <1>1. TypeOK'
    BY NoRequestType DEF IndInv, TypeOK, Finish, Goto, Points
  <1>2. SessionSound(s)'
    BY DEF IndInv, TypeOK, Finish, Goto, SessionSound, CallSound, StampSound,
           NewSound, HeldSound, Acting, NoRequest
  <1> QED
    BY <1>1, <1>2, OwnStepInv DEF IndInv, TypeOK, Finish, Goto, OthersRest

\* So does an answer that tells the client nothing new.
LEMMA EndInv ==
    ASSUME IndInv, NEW s \in Sessions, End(s)
    PROVE  IndInv'
  BY FinishInv DEF End, IndInv, TypeOK

\* A step of one session that only moves its program counter, and perhaps sets
\* its user or takes a lock, keeps the invariant if the session is still sound.
LEMMA GotoInv ==
    ASSUME IndInv, NEW s \in Sessions, NEW p \in Points, Goto(s, p),
           UNCHANGED <<schema, keys, known, clock, req, stamp, new, overlap,
                       uses, deleted, issued>>,
           who' \in [Sessions -> Users \cup {None}],
           held' \in [Sessions -> SUBSET Keys],
           \A t \in Sessions \ {s} : who'[t] = who[t] /\ held'[t] = held[t],
           SessionSound(s)'
    PROVE  IndInv'
  <1>1. TypeOK'
    BY DEF IndInv, TypeOK, Goto
  <1> QED
    BY <1>1, OwnStepInv DEF IndInv, TypeOK, Goto, OthersRest

\* A commit keeps the invariant: it alone changes the table, and it tells every
\* session that has a stamp of its own.
LEMMA CommitInv ==
    ASSUME IndInv, NEW s \in Sessions, Commit(s), pc[s] \in {"handler", "commit"},
           \A t \in Sessions \ {s} :
               pc'[t] = pc[t] /\ req'[t] = req[t] /\ who'[t] = who[t],
           pc' \in [Sessions -> Points], req' \in [Sessions -> Requests],
           who' \in [Sessions -> Users \cup {None}], SessionSound(s)'
    PROVE  IndInv'
  <1> DEFINE id == new[s].id
             key == req[s].key
  <1>1. /\ SessionSound(s)
        /\ new[s] # None => /\ new[s] \in NewRows /\ id \in Keys
                            /\ new[s].row \in Rows /\ keys[id] = None
    BY DEF IndInv, TypeOK, SessionSound, NewSound, NewRows
  <1>2. stamp[s] # 0 => key \in Keys /\ keys[key] \in Rows /\ keys[key] # None
    BY <1>1 DEF SessionSound, StampSound, Found, IndInv, TypeOK
  <1>3. \A k \in Keys :
           keys'[k] = IF IsNew(s, k) THEN new[s].row
                      ELSE IF stamp[s] # 0 /\ k = key
                      THEN [keys[k] EXCEPT !.lastUsed = stamp[s]]
                      ELSE keys[k]
    BY DEF Commit, Committed
  <1>4. keys' \in [Keys -> Rows \cup {None}]
    <2>1. stamp[s] # 0 => [keys[key] EXCEPT !.lastUsed = stamp[s]] \in Rows
      BY <1>2 DEF Rows, IndInv, TypeOK
    <2>2. keys' = Committed(s)
      BY DEF Commit
    <2> QED
      BY <1>1, <2>1, <2>2 DEF Committed, IsNew, IndInv, TypeOK
  <1>5. TypeOK'
    <2>1. overlap' \in [Sessions -> SUBSET Keys]
      BY <1>2 DEF Commit, IndInv, TypeOK
    <2> QED
      BY <1>4, <2>1 DEF Commit, IndInv, TypeOK
  <1>6. RowsSound'
    <2> SUFFICES ASSUME NEW k \in Keys, keys'[k] # None
                 PROVE  /\ keys'[k].lastUsed <= clock'
                        /\ keys'[k].lastUsed # 0 => <<k, keys'[k].lastUsed>> \in uses'
      BY DEF RowsSound
    <2>1. UNCHANGED <<clock, uses>>
      BY DEF Commit
    <2>2. CASE IsNew(s, k)
      <3>1. keys'[k] = new[s].row
        BY <1>3, <2>2
      <3>2. keys'[k].lastUsed = 0
        BY <1>1, <2>2, <3>1 DEF SessionSound, NewSound, IsNew
      <3> QED
        BY <2>1, <3>2 DEF IndInv, TypeOK
    <2>3. CASE ~ IsNew(s, k) /\ stamp[s] # 0 /\ k = key
      BY <1>1, <1>2, <1>3, <2>1, <2>3 DEF SessionSound, StampSound, Rows
    <2>4. CASE ~ IsNew(s, k) /\ ~ (stamp[s] # 0 /\ k = key)
      BY <1>3, <2>1, <2>4 DEF IndInv, RowsSound
    <2> QED
      BY <2>2, <2>3, <2>4
  <1>7. ASSUME NEW t \in Sessions, t # s
        PROVE  SessionSound(t)'
    <2>1. SessionSound(t)
      BY DEF IndInv
    <2>2. /\ pc'[t] = pc[t] /\ req'[t] = req[t] /\ who'[t] = who[t]
          /\ stamp'[t] = stamp[t] /\ held'[t] = held[t] /\ new'[t] = new[t]
      BY <1>7 DEF Commit, IndInv, TypeOK
    <2>3. new[t] # None => ~ IsNew(s, new[t].id)
      BY <1>7 DEF IndInv, IdsDiffer, IsNew
    <2>4. \A k \in Keys : keys[k] # None =>
             /\ keys'[k] # None
             /\ keys'[k].owner = keys[k].owner
             /\ keys'[k].active = keys[k].active
             /\ keys'[k].deadline = keys[k].deadline
             /\ keys'[k].lastUsed =
                   IF stamp[s] # 0 /\ k = key THEN stamp[s] ELSE keys[k].lastUsed
      <3> SUFFICES ASSUME NEW k \in Keys, keys[k] # None
                   PROVE  /\ keys'[k] # None
                          /\ keys'[k].owner = keys[k].owner
                          /\ keys'[k].active = keys[k].active
                          /\ keys'[k].deadline = keys[k].deadline
                          /\ keys'[k].lastUsed =
                                IF stamp[s] # 0 /\ k = key THEN stamp[s]
                                ELSE keys[k].lastUsed
        OBVIOUS
      <3>1. keys[k] \in Rows /\ ~ IsNew(s, k)
        BY <1>1 DEF IndInv, TypeOK, IsNew
      <3>2. CASE stamp[s] # 0 /\ k = key
        <4>1. keys'[k] = [keys[k] EXCEPT !.lastUsed = stamp[s]]
          BY <1>3, <3>1, <3>2
        <4>2. keys'[k] \in Rows
          BY <3>1, <4>1 DEF Rows, IndInv, TypeOK
        <4> QED
          BY <3>1, <3>2, <4>1, <4>2, ApiKeysAssumption DEF Rows
      <3>3. CASE ~ (stamp[s] # 0 /\ k = key)
        BY <1>3, <3>1, <3>3
      <3> QED
        BY <3>2, <3>3
    <2>5. CallSound(t)'
      BY <2>1, <2>2 DEF SessionSound, CallSound
    <2>6. NewSound(t)'
      <3>1. pc[t] \in {"insert", "commit"} =>
               keys[new[t].id] = None /\ new[t] # None /\ new[t].id \in Keys
        BY <2>1 DEF SessionSound, NewSound, IndInv, TypeOK, NewRows
      <3>2. pc[t] \in {"insert", "commit"} => keys'[new[t].id] = None
        BY <1>2, <1>3, <2>3, <3>1
      <3> QED
        BY <2>1, <2>2, <3>2 DEF SessionSound, NewSound
    <2>7. HeldSound(t)'
      <3>1. pc[t] \in {"write", "answer"} => req[t].target \in Keys
        BY <2>1 DEF SessionSound, CallSound
      <3>2. held[t] \subseteq Keys
        BY DEF IndInv, TypeOK
      <3> QED
        BY <2>1, <2>2, <2>4, <3>1, <3>2 DEF SessionSound, HeldSound, MayUse
    <2>8. StampSound(t)'
      <3>1. UNCHANGED <<clock, uses, schema>>
        BY DEF Commit
      <3>2. overlap'[t] = IF stamp[s] # 0 /\ stamp[t] # 0
                          THEN overlap[t] \cup {key} ELSE overlap[t]
        BY <1>7 DEF Commit
      <3>3. ASSUME stamp[t] # 0
            PROVE  LET k == req[t].key IN
                   /\ Found(k)'
                   /\ keys'[k].deadline = keys[k].deadline
                   /\ keys'[k].lastUsed > stamp[t] => k \in overlap'[t]
        <4> DEFINE k == req[t].key
        <4>1. /\ k \in Keys /\ keys[k] # None /\ keys[k].active
              /\ keys[k].lastUsed > stamp[t] => k \in overlap[t]
          BY <2>1, <3>3 DEF SessionSound, StampSound, Found
        <4>2. Found(k)' /\ keys'[k].deadline = keys[k].deadline
          BY <2>2, <2>4, <4>1 DEF Found
        <4>3. CASE stamp[s] # 0 /\ k = key
          BY <3>2, <3>3, <4>2, <4>3
        <4>4. CASE ~ (stamp[s] # 0 /\ k = key)
          BY <2>4, <3>2, <4>1, <4>2, <4>4
        <4> QED
          BY <4>3, <4>4
      <3> QED
        BY <2>1, <2>2, <3>1, <3>3 DEF SessionSound, StampSound
    <2> QED
      BY <2>5, <2>6, <2>7, <2>8 DEF SessionSound
  <1>8. IdsDiffer' /\ clock' > 0
    BY DEF Commit, IndInv, IdsDiffer
  <1> QED
    BY <1>5, <1>6, <1>7, <1>8 DEF IndInv

\* The commit of a create, and one that is none of this table's business.
LEMMA CommitStepsInv ==
    ASSUME IndInv, NEW s \in Sessions, CommitKey(s) \/ CommitElsewhere(s)
    PROVE  IndInv'
  <1>0. SessionSound(s) /\ TypeOK
    BY DEF IndInv
  <1>1. CASE CommitKey(s)
    <2>1. SessionSound(s)'
      BY <1>0, <1>1
         DEF SessionSound, CallSound, StampSound, NewSound, HeldSound, CommitKey,
             Commit, Goto, Acting, TypeOK
    <2> QED
      BY <1>0, <1>1, <2>1, CommitInv DEF CommitKey, Goto, Points, TypeOK
  <1>2. CASE CommitElsewhere(s)
    <2>1. SessionSound(s)'
      BY <1>0, <1>2
         DEF SessionSound, CallSound, StampSound, NewSound, HeldSound,
             CommitElsewhere, Commit, Goto, Acting, TypeOK, NoRequest
    <2> QED
      BY <1>0, <1>2, <2>1, CommitInv, NoRequestType
         DEF CommitElsewhere, Goto, Points, TypeOK
  <1> QED
    BY <1>1, <1>2

\* Every step keeps the invariant.
LEMMA NextIndInv == IndInv /\ [Next]_vars => IndInv'
  <1> SUFFICES ASSUME IndInv, [Next]_vars
               PROVE  IndInv'
    OBVIOUS
  <1>0. TypeOK /\ \A s \in Sessions : SessionSound(s)
    BY DEF IndInv
  <1>1. ASSUME NEW s \in Sessions, Begin(s)
        PROVE  IndInv'
    <2>1. PICK cred \in Credentials, call \in Calls :
             req' = [req EXCEPT ![s] =
                      [op |-> call.op, target |-> call.target,
                       body |-> call.body, token |-> cred.token,
                       key |-> cred.key]]
      BY <1>1 DEF Begin
    <2>2. /\ cred.token \in Tokens /\ cred.key \in Secrets
          /\ call.op \in {"create", "read", "update", "delete", "other"}
          /\ call.target \in Keys \cup {None} /\ call.body \in Bodies \cup {None}
          /\ call.op = "create" => call.body \in Bodies
          /\ call.op \in {"update", "delete"} => call.target \in Keys
      BY ApiKeysAssumption DEF Calls
    <2>3. req' \in [Sessions -> Requests]
      BY <1>0, <2>1, <2>2 DEF TypeOK, Requests
    <2>4. TypeOK'
      BY <1>0, <1>1, <2>3, ApiKeysAssumption DEF TypeOK, Begin, Goto, Points, txn
    <2>5. /\ pc[s] = "idle" /\ pc'[s] = "key"
          /\ UNCHANGED <<keys, schema, clock, uses, who, stamp, held, new, overlap>>
      BY <1>0, <1>1 DEF Begin, Goto, txn, TypeOK
    <2>6. CallSound(s)'
      BY <1>0, <2>1, <2>2, <2>5 DEF SessionSound, CallSound, Acting, TypeOK
    <2>7. StampSound(s)' /\ NewSound(s)' /\ HeldSound(s)'
      BY <1>0, <2>5
         DEF SessionSound, StampSound, NewSound, HeldSound, Acting, Stamped
    <2>8. SessionSound(s)'
      BY <2>6, <2>7 DEF SessionSound
    <2>9. OthersRest(s)
      BY <1>0, <1>1, <2>1, <2>5 DEF OthersRest, TypeOK, Begin, Goto
    <2> QED
      BY <2>4, <2>5, <2>8, <2>9, OwnStepInv
  <1>2. ASSUME NEW s \in Sessions, TokenUser(s) \/ ReadKeys(s) \/ Abort(s)
        PROVE  IndInv'
    BY <1>2, EndInv DEF TokenUser, ReadKeys, Abort
  <1>3. ASSUME NEW s \in Sessions, ValidateKey(s)
        PROVE  IndInv'
    <2> DEFINE k == req[s].key
    <2>1. CASE k = None
      <3>1. /\ pc[s] = "key" /\ Goto(s, "user")
            /\ UNCHANGED <<schema, keys, known, clock, req, who, stamp, held,
                           new, overlap, uses, deleted, issued>>
        BY <1>3, <2>1 DEF ValidateKey, txn
      <3>2. SessionSound(s)'
        BY <1>0, <2>1, <3>1
           DEF Goto, TypeOK, SessionSound, CallSound, StampSound, NewSound,
               HeldSound, Acting, Stamped
      <3> QED
        BY <1>0, <3>1, <3>2, GotoInv DEF TypeOK, Points
    <2>2. CASE k # None /\ Found(k) /\ InTime(k)
      <3>1. /\ pc[s] = "key" /\ Goto(s, "touch")
            /\ stamp' = [stamp EXCEPT ![s] = clock]
            /\ uses' = uses \cup {<<k, clock>>}
            /\ UNCHANGED <<schema, keys, known, clock, req, who, held, new,
                           overlap, deleted, issued>>
        BY <1>3, <2>2 DEF ValidateKey
      <3>2. k \in Keys /\ keys[k] # None /\ keys[k] \in Rows
        BY <1>0, <2>2 DEF Found, TypeOK
      <3>3. TypeOK'
        BY <1>0, <3>1, <3>2 DEF TypeOK, Goto, Points
      <3>4. keys[k].lastUsed <= clock /\ clock > 0
        BY <3>2 DEF IndInv, RowsSound
      <3>5. StampSound(s)'
        <4>1. pc'[s] = "touch" /\ stamp'[s] = clock /\ req'[s].key = k
          BY <1>0, <3>1 DEF TypeOK, Goto
        <4>2. Found(k)' /\ <<k, clock>> \in uses'
          BY <2>2, <3>1 DEF Found
        <4>3. keys[k].deadline = 0
                 \/ (schema = "migrations" /\ clock <= keys[k].deadline)
          BY <1>0, <2>2, <3>2 DEF InTime, TypeOK, Rows
        <4>4. ~ (keys[k].lastUsed > clock)
          BY <1>0, <3>2, <3>4 DEF TypeOK, Rows
        <4>5. clock \in Nat
          BY <1>0 DEF TypeOK
        <4> QED
          BY <3>1, <3>2, <3>4, <4>1, <4>2, <4>3, <4>4, <4>5
             DEF StampSound, Stamped
      <3>6. CallSound(s)' /\ NewSound(s)' /\ HeldSound(s)'
        BY <1>0, <3>1
           DEF Goto, TypeOK, SessionSound, CallSound, NewSound, HeldSound, Acting
      <3>7. OthersRest(s)
        BY <1>0, <3>1 DEF OthersRest, TypeOK, Goto
      <3> QED
        BY <3>1, <3>3, <3>5, <3>6, <3>7, OwnStepInv DEF SessionSound
    <2>3. CASE k # None /\ ~ (Found(k) /\ InTime(k))
      BY <1>3, <2>3, EndInv DEF ValidateKey
    <2> QED
      BY <2>1, <2>2, <2>3
  <1>4. ASSUME NEW s \in Sessions, TouchKey(s)
        PROVE  IndInv'
    <2>1. /\ pc[s] = "touch" /\ Goto(s, "user")
          /\ held' = [held EXCEPT ![s] = @ \cup {req[s].key}]
          /\ UNCHANGED <<schema, keys, known, clock, req, who, stamp, new,
                         overlap, uses, deleted, issued>>
      BY <1>4 DEF TouchKey, LockAndGoto
    <2>2. req[s].key \in Keys
      BY <1>0, <2>1 DEF SessionSound, StampSound
    <2>3. CallSound(s)' /\ NewSound(s)' /\ HeldSound(s)'
      BY <1>0, <2>1
         DEF Goto, TypeOK, SessionSound, CallSound, NewSound, HeldSound, Acting
    <2>4. StampSound(s)'
      BY <1>0, <2>1 DEF Goto, TypeOK, SessionSound, StampSound, Found, Stamped
    <2> QED
      BY <1>0, <2>1, <2>2, <2>3, <2>4, GotoInv DEF TypeOK, Points, SessionSound
  <1>5. ASSUME NEW s \in Sessions, CurrentUser(s)
        PROVE  IndInv'
    <2>1. CASE CredentialUser(s) \in ActiveUsers
      <3>1. /\ pc[s] = "user" /\ Goto(s, "handler")
            /\ who' = [who EXCEPT ![s] = CredentialUser(s)]
            /\ UNCHANGED <<schema, keys, known, clock, req, stamp, held, new,
                           overlap, uses, deleted, issued>>
        BY <1>5, <2>1 DEF CurrentUser
      <3>2. CredentialUser(s) \in Users
        BY <2>1, ApiKeysAssumption
      <3>3. CallSound(s)' /\ NewSound(s)' /\ HeldSound(s)'
        BY <1>0, <3>1, <3>2
           DEF Goto, TypeOK, SessionSound, CallSound, NewSound, HeldSound, Acting
      <3>4. StampSound(s)'
        BY <1>0, <3>1
           DEF Goto, TypeOK, SessionSound, StampSound, Found, Stamped, Acting
      <3> QED
        BY <1>0, <3>1, <3>2, <3>3, <3>4, GotoInv DEF TypeOK, Points, SessionSound
    <2>2. CASE CredentialUser(s) \notin ActiveUsers
      BY <1>5, <2>2, EndInv DEF CurrentUser
    <2> QED
      BY <2>1, <2>2
  <1>6. ASSUME NEW s \in Sessions, CreateKey(s)
        PROVE  IndInv'
    <2>1. CASE ~ CreateAllowed(who[s], req[s].body)
      BY <1>6, <2>1, EndInv DEF CreateKey
    <2>2. CASE CreateAllowed(who[s], req[s].body)
      <3>1. PICK k \in Keys, p \in Prefixes :
               /\ keys[k] = None /\ ~ Pending(k)
               /\ new' = [new EXCEPT ![s] =
                            [id |-> k,
                             row |-> [owner |-> who[s], prefix |-> p,
                                      active |-> req[s].body.active,
                                      deadline |-> req[s].body.deadline,
                                      lastUsed |-> 0]]]
        BY <1>6, <2>2 DEF CreateKey
      <3>2. /\ pc[s] = "handler" /\ req[s].op = "create" /\ Goto(s, "insert")
            /\ UNCHANGED <<schema, keys, known, clock, req, who, stamp, held,
                           overlap, uses, deleted, issued>>
        BY <1>6, <2>2 DEF CreateKey
      <3>3. who[s] \in Users /\ req[s].body \in Bodies
        BY <1>0, <3>2 DEF SessionSound, CallSound, Acting
      <3>4. [owner |-> who[s], prefix |-> p, active |-> req[s].body.active,
             deadline |-> req[s].body.deadline, lastUsed |-> 0] \in Rows
        BY <3>3 DEF Rows, Bodies
      <3>5. new'[s] \in NewRows /\ new'[s].id = k /\ new'[s].row.lastUsed = 0
        BY <1>0, <3>1, <3>4 DEF NewRows, TypeOK
      <3>6. TypeOK'
        BY <1>0, <3>1, <3>2, <3>4 DEF TypeOK, Goto, Points, NewRows
      <3>7. new'[s] # None
        BY <3>5, ApiKeysAssumption DEF NewRows
      <3>8. CallSound(s)' /\ NewSound(s)' /\ HeldSound(s)'
        BY <1>0, <3>1, <3>2, <3>5, <3>7
           DEF Goto, TypeOK, SessionSound, CallSound, NewSound, HeldSound, Acting
      <3>9. StampSound(s)'
        BY <1>0, <3>2
           DEF Goto, TypeOK, SessionSound, StampSound, Found, Stamped, Acting
      <3>10. OthersRest(s)
        BY <1>0, <3>1, <3>2 DEF OthersRest, TypeOK, Goto
      <3>11. \A t \in Sessions : new[t] # None => new[t].id # new'[s].id
        BY <3>1, <3>5 DEF Pending
      <3> QED
        BY <3>2, <3>6, <3>8, <3>9, <3>10, <3>11, OwnStepInv DEF SessionSound
    <2> QED
      BY <2>1, <2>2
  <1>7. ASSUME NEW s \in Sessions, InsertKey(s)
        PROVE  IndInv'
    <2>1. CASE ~ End(s)
      <3>1. /\ pc[s] = "insert" /\ Goto(s, "commit")
            /\ UNCHANGED <<schema, keys, known, clock, req, who, stamp, held,
                           new, overlap, uses, deleted, issued>>
        BY <1>7, <2>1 DEF InsertKey, txn
      <3>2. CallSound(s)' /\ NewSound(s)' /\ HeldSound(s)'
        BY <1>0, <3>1
           DEF Goto, TypeOK, SessionSound, CallSound, NewSound, HeldSound, Acting
      <3>3. StampSound(s)'
        BY <1>0, <3>1
           DEF Goto, TypeOK, SessionSound, StampSound, Found, Stamped, Acting
      <3> QED
        BY <1>0, <3>1, <3>2, <3>3, GotoInv DEF TypeOK, Points, SessionSound
    <2> QED
      BY <2>1, EndInv
  <1>8. ASSUME NEW s \in Sessions, ReplyKey(s)
        PROVE  IndInv'
    <2>1. new[s].id \in Keys
      BY <1>0, <1>8 DEF ReplyKey, SessionSound, NewSound, TypeOK, NewRows
    <2> QED
      BY <1>0, <1>8, <2>1, FinishInv DEF ReplyKey, TypeOK
  <1>9. ASSUME NEW s \in Sessions, SelectKey(s)
        PROVE  IndInv'
    <2>1. CASE keys[req[s].target] # None /\ MayUse(who[s], req[s].target)
      <3>1. /\ pc[s] = "handler" /\ req[s].op \in {"update", "delete"}
            /\ Goto(s, "write")
            /\ UNCHANGED <<schema, keys, known, clock, req, who, stamp, held,
                           new, overlap, uses, deleted, issued>>
        BY <1>9, <2>1 DEF SelectKey, txn
      <3>2. CallSound(s)' /\ NewSound(s)' /\ HeldSound(s)'
        BY <1>0, <2>1, <3>1
           DEF Goto, TypeOK, SessionSound, CallSound, NewSound, HeldSound,
               Acting, MayUse
      <3>3. StampSound(s)'
        BY <1>0, <3>1
           DEF Goto, TypeOK, SessionSound, StampSound, Found, Stamped, Acting
      <3> QED
        BY <1>0, <3>1, <3>2, <3>3, GotoInv DEF TypeOK, Points, SessionSound
    <2>2. CASE ~ (keys[req[s].target] # None /\ MayUse(who[s], req[s].target))
      BY <1>9, <2>2, EndInv DEF SelectKey
    <2> QED
      BY <2>1, <2>2
  <1>10. ASSUME NEW s \in Sessions, WriteKey(s)
         PROVE  IndInv'
    <2>1. /\ pc[s] = "write" /\ Goto(s, "answer")
          /\ held' = [held EXCEPT ![s] = @ \cup {req[s].target}]
          /\ UNCHANGED <<schema, keys, known, clock, req, who, stamp, new,
                         overlap, uses, deleted, issued>>
      BY <1>10 DEF WriteKey, LockAndGoto
    <2>2. /\ req[s].target \in Keys /\ keys[req[s].target] # None
          /\ MayUse(who[s], req[s].target)
      BY <1>0, <2>1 DEF SessionSound, CallSound, HeldSound
    <2>3. CallSound(s)' /\ NewSound(s)'
      BY <1>0, <2>1 DEF Goto, TypeOK, SessionSound, CallSound, NewSound, Acting
    <2>4. HeldSound(s)'
      BY <1>0, <2>1, <2>2 DEF Goto, TypeOK, SessionSound, HeldSound, MayUse
    <2>5. StampSound(s)'
      BY <1>0, <2>1
         DEF Goto, TypeOK, SessionSound, StampSound, Found, Stamped, Acting
    <2> QED
      BY <1>0, <2>1, <2>2, <2>3, <2>4, <2>5, GotoInv DEF TypeOK, Points, SessionSound
  <1>11. ASSUME NEW s \in Sessions, AnswerKey(s)
         PROVE  IndInv'
    <2>1. req[s].op = "delete" => req[s].target \in Keys
      BY <1>0, <1>11 DEF AnswerKey, SessionSound, CallSound
    <2> QED
      BY <1>0, <1>11, <2>1, FinishInv DEF AnswerKey, TypeOK
  <1>12. CASE Tick
    <2>1. /\ clock' = clock + 1
          /\ UNCHANGED <<schema, keys, known, pc, req, who, stamp, held, new,
                         overlap, uses, deleted, issued>>
      BY <1>12 DEF Tick, txn
    <2>2. TypeOK'
      BY <1>0, <2>1 DEF TypeOK
    <2>3. RowsSound'
      BY <1>0, <2>1 DEF IndInv, RowsSound, TypeOK, Rows
    <2>4. ASSUME NEW s \in Sessions
          PROVE  SessionSound(s)'
      <3>1. CallSound(s)' /\ NewSound(s)' /\ HeldSound(s)'
        BY <1>0, <2>1 DEF SessionSound, CallSound, NewSound, HeldSound, MayUse
      <3>2. StampSound(s)'
        BY <1>0, <2>1 DEF SessionSound, StampSound, Found, TypeOK
      <3> QED
        BY <3>1, <3>2 DEF SessionSound
    <2> QED
      BY <1>0, <2>1, <2>2, <2>3, <2>4 DEF IndInv, IdsDiffer, TypeOK
  <1>13. CASE UNCHANGED vars
    <2>1. TypeOK' /\ RowsSound' /\ IdsDiffer' /\ clock' > 0
      BY <1>13 DEF vars, txn, IndInv, TypeOK, RowsSound, IdsDiffer
    <2>2. ASSUME NEW s \in Sessions
          PROVE  SessionSound(s)'
      <3>1. CallSound(s)' /\ NewSound(s)' /\ HeldSound(s)'
        BY <1>0, <1>13
           DEF vars, txn, SessionSound, CallSound, NewSound, HeldSound, MayUse
      <3>2. StampSound(s)'
        BY <1>0, <1>13 DEF vars, txn, SessionSound, StampSound, Found
      <3> QED
        BY <3>1, <3>2 DEF SessionSound
    <2> QED
      BY <2>1, <2>2 DEF IndInv
  <1> QED
    BY <1>1, <1>2, <1>3, <1>4, <1>5, <1>6, <1>7, <1>8, <1>9, <1>10, <1>11,
       <1>12, <1>13, CommitStepsInv DEF Next, Handle

-----------------------------------------------------------------------------
(* The theorems *)

\* The inductive invariant holds in every reachable state.
THEOREM IndInvHolds == Spec => []IndInv
  BY InitIndInv, NextIndInv, PTL DEF Spec

\* Rows have an owner and well-typed columns, and a session never works on a
\* key, body or user that is not one.
THEOREM TypeCorrect == Spec => []TypeOK
  <1>1. IndInv => TypeOK
    BY DEF IndInv
  <1> QED
    BY <1>1, IndInvHolds, PTL

\* The one check that validate_api_key makes stays good for the whole request.
THEOREM AuthenticatedKeyValidHolds == Spec => []AuthenticatedKeyValid
  <1>1. IndInv => AuthenticatedKeyValid
    BY DEF IndInv, SessionSound, StampSound, AuthenticatedKeyValid
  <1> QED
    BY <1>1, IndInvHolds, PTL

\* A stored last_used_at is a time at which the key was accepted.
THEOREM LastUsedIsTruthfulHolds == Spec => []LastUsedIsTruthful
  <1>1. IndInv => LastUsedIsTruthful
    BY DEF IndInv, RowsSound, LastUsedIsTruthful
  <1> QED
    BY <1>1, IndInvHolds, PTL

\* last_used_at goes back only by a commit that overlaps the request.
THEOREM RegressOnlyByOverlapHolds == Spec => []RegressOnlyByOverlap
  <1>1. IndInv => RegressOnlyByOverlap
    BY DEF IndInv, SessionSound, StampSound, RegressOnlyByOverlap
  <1> QED
    BY <1>1, IndInvHolds, PTL

\* A request locks no row but that of its own key or of one it may manage.
THEOREM LocksOnlyOwnKeysHolds == Spec => []LocksOnlyOwnKeys
  <1>1. IndInv => LocksOnlyOwnKeys
    <2> SUFFICES ASSUME IndInv, NEW s \in Sessions, NEW k \in held[s],
                        k # req[s].key
                 PROVE  who[s] # None /\ MayUse(who[s], k)
      BY DEF LocksOnlyOwnKeys
    <2>1. SessionSound(s)
      BY DEF IndInv
    <2>2. pc[s] = "answer" /\ MayUse(who[s], k)
      BY <2>1 DEF SessionSound, HeldSound
    <2>3. who[s] \in Users
      BY <2>1, <2>2 DEF SessionSound, CallSound, Acting
    <2> QED
      BY <2>2, <2>3, ApiKeysAssumption
  <1> QED
    BY <1>1, IndInvHolds, PTL
=============================================================================
