---------------------------- MODULE Invitations ----------------------------
(***************************************************************************)
(* The invitation component: InvitationService                             *)
(* (services/iam/invitation.py) and the endpoints in                       *)
(* api/v1/endpoints/invitations.py that change state through it.           *)
(*                                                                         *)
(* Every request runs in a database session of its own (db/session.py).    *)
(* A handler is cut into steps at its awaits, so requests interleave       *)
(* between a SELECT and the UPDATE or INSERT that follows from it.  The    *)
(* database runs at READ COMMITTED: a SELECT sees what is committed, an    *)
(* UPDATE is by primary key and overwrites.  The UPDATE, its row lock and  *)
(* the COMMIT are one step: nobody else can write the row in between.      *)
(* The ORM's identity map is the variable seen: an object that the session *)
(* has loaded keeps its attributes when the same row is selected again.    *)
(***************************************************************************)
EXTENDS Integers, FiniteSets

CONSTANTS
    Sessions,      \* concurrent requests, one database session each
    Invitations,   \* ids (and tokens) that inserts may use; bounds the table
    Invitees,      \* (email, tenant) pairs
    Users,         \* values of user_id
    Days,          \* values of expires_in_days
    None,          \* NULL, for a user, an id, an invitee or a number of days
    Operations,    \* the calls that clients make
    MaxClock       \* bound on the clock

AllOperations == {"create", "verify", "accept_endpoint", "accept", "revoke"}

ASSUME InvitationsAssumption ==
    /\ None \notin Invitations \cup Invitees \cup Users \cup Days
    /\ Days \subseteq Int
    /\ Operations \subseteq AllOperations
    /\ MaxClock \in Nat

\* The connection pool bounds the sessions that are open at a time.
ASSUME SessionsFinite == IsFiniteSet(Sessions)

VARIABLES
    status,        \* iam.invitations.status, "ABSENT" where there is no row
    invitee,       \* iam.invitations.(email, tenant_id)
    expires,       \* iam.invitations.expires_at
    user,          \* iam.invitations.user_id
    clock,         \* datetime.utcnow()
    pc,            \* the await at which a session waits
    call,          \* what the session was asked, and what it computed so far
    seen,          \* status attribute of the object the session has loaded
    reply          \* how the session's last request ended, and what it was about

rows == <<status, invitee, expires, user>>
vars == <<status, invitee, expires, user, clock, pc, call, seen, reply>>

Statuses == {"PENDING", "ACCEPTED", "EXPIRED", "REVOKED"}
Closed == Statuses \ {"PENDING"}
TokenOperations == {"verify", "accept_endpoint", "accept"}
Points == {"idle", "create_select", "create_commit", "select", "loaded",
           "accept_commit", "revoke_commit", "refresh"}
Answers == {"none", "created", "valid", "invalid", "accepted", "revoked",
            "not_found", "error", "aborted"}

(***************************************************************************)
(* A call: its arguments (target, invitee, days, user), the expiry it      *)
(* computed, the clock when it began and, for the properties only, the     *)
(* status its target had when it began.                                    *)
(***************************************************************************)
Calls == [op : AllOperations \cup {"none"}, target : Invitations \cup {None},
          invitee : Invitees \cup {None}, days : Days \cup {None},
          user : Users \cup {None}, expires : Int, began : Nat,
          statusThen : Statuses \cup {"ABSENT"}]

NoCall == [op |-> "none", target |-> None, invitee |-> None, days |-> None,
           user |-> None, expires |-> 0, began |-> 0, statusThen |-> "ABSENT"]

CreateCall(e, d, time) ==
    [op |-> "create", target |-> None, invitee |-> e, days |-> d,
     user |-> None, expires |-> 0, began |-> time, statusThen |-> "ABSENT"]

InvitationCall(op, i, u, time, st) ==
    [op |-> op, target |-> i, invitee |-> None, days |-> None,
     user |-> u, expires |-> 0, began |-> time, statusThen |-> st]

Replies == [answer : Answers, op : AllOperations \cup {"none"},
            target : Invitations \cup {None}, began : Nat,
            statusThen : Statuses \cup {"ABSENT"}]

ReplyTo(c, answer) == [answer |-> answer, op |-> c.op, target |-> c.target,
                       began |-> c.began, statusThen |-> c.statusThen]

Init ==
    /\ status = [i \in Invitations |-> "ABSENT"]
    /\ invitee = [i \in Invitations |-> None]
    /\ expires = [i \in Invitations |-> 0]
    /\ user = [i \in Invitations |-> None]
    /\ clock = 0
    /\ pc = [s \in Sessions |-> "idle"]
    /\ call = [s \in Sessions |-> NoCall]
    /\ seen = [s \in Sessions |-> "ABSENT"]
    /\ reply = [s \in Sessions |-> ReplyTo(NoCall, "none")]

-----------------------------------------------------------------------------
(* Steps common to all handlers *)

Goto(s, point) ==
    /\ pc' = [pc EXCEPT ![s] = point]
    /\ UNCHANGED reply

\* The handler returns or raises; get_db closes the session, and the objects
\* it has loaded are gone.
Finish(s, answer) ==
    /\ pc' = [pc EXCEPT ![s] = "idle"]
    /\ reply' = [reply EXCEPT ![s] = ReplyTo(call[s], answer)]
    /\ call' = [call EXCEPT ![s] = NoCall]
    /\ seen' = [seen EXCEPT ![s] = "ABSENT"]

\* A request arrives at an idle session.
Begin(s, c, point) ==
    /\ pc[s] = "idle"
    /\ c.op \in Operations
    /\ pc' = [pc EXCEPT ![s] = point]
    /\ call' = [call EXCEPT ![s] = c]
    /\ reply' = [reply EXCEPT ![s] = ReplyTo(NoCall, "none")]
    /\ UNCHANGED <<rows, clock, seen>>

\* The flush of one changed status attribute: no UPDATE is sent when the new
\* value is the loaded one, and the UPDATE names the primary key only.
FlushStatus(s, new) ==
    LET i == call[s].target
    IN  status' = IF seen[s] = new THEN status ELSE [status EXCEPT ![i] = new]

\* The request dies before its next step: an exception from the database, a
\* cancelled task, a crash.  get_db rolls back what was not committed.
Abort(s) ==
    /\ pc[s] # "idle"
    /\ Finish(s, "aborted")
    /\ UNCHANGED <<rows, clock>>

\* db.refresh after a commit, then the success response of the handler.
Refresh(s) ==
    /\ pc[s] = "refresh"
    /\ Finish(s, CASE call[s].op = "create" -> "created"
                   [] call[s].op = "accept" -> "accepted"
                   [] OTHER                 -> "revoked")
    /\ UNCHANGED <<rows, clock>>

Tick ==
    /\ clock < MaxClock
    /\ clock' = clock + 1
    /\ UNCHANGED <<rows, pc, call, seen, reply>>

-----------------------------------------------------------------------------
(* create_invitation: select an active invitation, else insert a new one *)

InCreate(s) == pc[s] \in {"create_select", "create_commit"}

\* Model bound: every create that is under way can still find a free id.
RoomForOneMore ==
    Cardinality({s \in Sessions : InCreate(s)})
        < Cardinality({i \in Invitations : status[i] = "ABSENT"})

\* The WHERE clause of the duplicate check, at the time it was built.
Active(i, e, time) ==
    /\ status[i] = "PENDING"
    /\ invitee[i] = e
    /\ expires[i] > time

BeginCreate(s) ==
    /\ RoomForOneMore
    /\ \E e \in Invitees, d \in Days \cup {None} :
          Begin(s, CreateCall(e, d, clock), "create_select")

\* An active invitation exists and is returned; first() picks any of them.
CreateExisting(s) ==
    /\ pc[s] = "create_select"
    /\ \E i \in Invitations : Active(i, call[s].invitee, call[s].began)
    /\ Finish(s, "created")
    /\ UNCHANGED <<rows, clock>>

\* Defect: a missing number of days becomes a NULL deadline.
CreateNoneNullDeadline(s) ==
    /\ pc[s] = "create_select"
    /\ ~ \E i \in Invitations : Active(i, call[s].invitee, call[s].began)
    /\ Goto(s, "create_commit")
    /\ call' = [call EXCEPT ![s].expires =
                   IF call[s].days = None THEN None ELSE clock + call[s].days]
    /\ UNCHANGED <<rows, clock, seen>>

\* Defect: the result of the duplicate check is ignored.
CreateNoneUnchecked(s) ==
    /\ pc[s] = "create_select"
    /\ call[s].days # None
    /\ Goto(s, "create_commit")
    /\ call' = [call EXCEPT ![s].expires = clock + call[s].days]
    /\ UNCHANGED <<rows, clock, seen>>

\* None exists: the expiry date is computed, timedelta(days=None) raises.
CreateNone(s) ==
    /\ pc[s] = "create_select"
    /\ ~ \E i \in Invitations : Active(i, call[s].invitee, call[s].began)
    /\ \/ /\ call[s].days = None
          /\ Finish(s, "error")
       \/ /\ call[s].days # None
          /\ Goto(s, "create_commit")
          /\ call' = [call EXCEPT ![s].expires = clock + call[s].days]
          /\ UNCHANGED seen
    /\ UNCHANGED <<rows, clock>>

CreateCommit(s) ==
    /\ pc[s] = "create_commit"
    /\ \E i \in Invitations :
          /\ status[i] = "ABSENT"
          /\ status' = [status EXCEPT ![i] = "PENDING"]
          /\ invitee' = [invitee EXCEPT ![i] = call[s].invitee]
          /\ expires' = [expires EXCEPT ![i] = call[s].expires]
          /\ call' = [call EXCEPT ![s].target = i]
    /\ Goto(s, "refresh")
    /\ UNCHANGED <<user, clock, seen>>

-----------------------------------------------------------------------------
(* The calls that name an invitation: by its token, or by its id (revoke) *)

BeginOnInvitation(s) ==
    \E op \in AllOperations \ {"create"}, i \in Invitations :
    \E u \in IF op = "accept" THEN Users ELSE {None} :
        Begin(s, InvitationCall(op, i, u, clock, status[i]), "select")

\* get_by_token, and get in the revoke endpoint: the row enters the session.
Load(s) ==
    /\ pc[s] = "select"
    /\ seen' = [seen EXCEPT ![s] = status[call[s].target]]
    /\ Goto(s, "loaded")
    /\ UNCHANGED <<rows, clock, call>>

(***************************************************************************)
(* verify_token after its SELECT: the deadline is looked at before the     *)
(* status, whatever the status is.                                         *)
(***************************************************************************)
PastDeadline(i) == expires[i] < clock

TokenLoaded(s) == pc[s] = "loaded" /\ call[s].op \in TokenOperations

\* Defect: the deadline itself already counts as past.
VerifyExpiresAtDeadline(s) ==
    seen[s] # "ABSENT" /\ expires[call[s].target] <= clock

VerifyExpires(s) == seen[s] # "ABSENT" /\ PastDeadline(call[s].target)

\* Defect: the status is not looked at.
VerifyAcceptsAnyStatus(s) == seen[s] # "ABSENT" /\ ~ VerifyExpires(s)

VerifyAccepts(s) == seen[s] = "PENDING" /\ ~ VerifyExpires(s)

\* No such token, or an invitation that is not pending: None, and a 400.
RejectToken(s) ==
    /\ TokenLoaded(s)
    /\ ~ VerifyExpires(s)
    /\ ~ VerifyAccepts(s)
    /\ Finish(s, "invalid")
    /\ UNCHANGED <<rows, clock>>

\* Defect: the commit of EXPIRED is left to a caller that never commits.
ExpireTokenUncommitted(s) ==
    /\ TokenLoaded(s)
    /\ VerifyExpires(s)
    /\ Finish(s, "invalid")
    /\ UNCHANGED <<rows, clock>>

\* Past the deadline: EXPIRED is stored and committed, then None and a 400.
ExpireToken(s) ==
    /\ TokenLoaded(s)
    /\ VerifyExpires(s)
    /\ FlushStatus(s, "EXPIRED")
    /\ Finish(s, "invalid")
    /\ UNCHANGED <<invitee, expires, user, clock>>

\* POST /verify on a valid token: details are read (same object), 200.
VerifyValid(s) ==
    /\ TokenLoaded(s)
    /\ call[s].op = "verify"
    /\ VerifyAccepts(s)
    /\ Finish(s, "valid")
    /\ UNCHANGED <<rows, clock>>

\* POST /accept on a valid token: UserCreate rejects a payload without names
\* (400); otherwise user_service.create is called without its tenant_id and
\* raises TypeError, which is rolled back and answered with 500.
AcceptEndpoint(s) ==
    /\ TokenLoaded(s)
    /\ call[s].op = "accept_endpoint"
    /\ VerifyAccepts(s)
    /\ \E answer \in {"invalid", "error"} : Finish(s, answer)
    /\ UNCHANGED <<rows, clock>>

\* invitation_service.accept_invitation on a valid token: the attributes are
\* set; the role assignment raises in every case and is swallowed.
AcceptStage(s) ==
    /\ TokenLoaded(s)
    /\ call[s].op = "accept"
    /\ VerifyAccepts(s)
    /\ Goto(s, "accept_commit")
    /\ UNCHANGED <<rows, clock, call, seen>>

\* Defect: user_id is not set.
AcceptCommitWithoutUser(s) ==
    /\ pc[s] = "accept_commit"
    /\ FlushStatus(s, "ACCEPTED")
    /\ Goto(s, "refresh")
    /\ UNCHANGED <<invitee, expires, user, clock, call, seen>>

AcceptCommit(s) ==
    /\ pc[s] = "accept_commit"
    /\ FlushStatus(s, "ACCEPTED")
    /\ user' = [user EXCEPT ![call[s].target] = call[s].user]
    /\ Goto(s, "refresh")
    /\ UNCHANGED <<invitee, expires, clock, call, seen>>

-----------------------------------------------------------------------------
(* revoke_invitation: the endpoint loads the row and checks the permission, *)
(* the service selects it again and gets the object already loaded.         *)

RevokeLoaded(s) == pc[s] = "loaded" /\ call[s].op = "revoke"

RevokeMissing(s) ==
    /\ RevokeLoaded(s)
    /\ seen[s] = "ABSENT"
    /\ Finish(s, "not_found")
    /\ UNCHANGED <<rows, clock>>

\* The 403 is raised inside the try block whose except Exception answers 500.
RevokeDenied(s) ==
    /\ RevokeLoaded(s)
    /\ seen[s] # "ABSENT"
    /\ Finish(s, "error")
    /\ UNCHANGED <<rows, clock>>

\* Already closed: returned as it is, with 200.
RevokeAsIs(s) ==
    /\ RevokeLoaded(s)
    /\ seen[s] \in Closed
    /\ Finish(s, "revoked")
    /\ UNCHANGED <<rows, clock>>

\* Defect: the status check before revoking is missing.
RevokeStageUnchecked(s) ==
    /\ RevokeLoaded(s)
    /\ seen[s] # "ABSENT"
    /\ Goto(s, "revoke_commit")
    /\ UNCHANGED <<rows, clock, call, seen>>

RevokeStage(s) ==
    /\ RevokeLoaded(s)
    /\ seen[s] = "PENDING"
    /\ Goto(s, "revoke_commit")
    /\ UNCHANGED <<rows, clock, call, seen>>

\* Defect: the revocation is acknowledged but not committed.
RevokeCommitLost(s) ==
    /\ pc[s] = "revoke_commit"
    /\ Goto(s, "refresh")
    /\ UNCHANGED <<rows, clock, call, seen>>

RevokeCommit(s) ==
    /\ pc[s] = "revoke_commit"
    /\ FlushStatus(s, "REVOKED")
    /\ Goto(s, "refresh")
    /\ UNCHANGED <<invitee, expires, user, clock, call, seen>>

-----------------------------------------------------------------------------
Handle(s) ==
    \/ CreateExisting(s) \/ CreateNone(s) \/ CreateCommit(s)
    \/ Load(s) \/ RejectToken(s) \/ ExpireToken(s)
    \/ VerifyValid(s) \/ AcceptEndpoint(s) \/ AcceptStage(s) \/ AcceptCommit(s)
    \/ RevokeMissing(s) \/ RevokeDenied(s) \/ RevokeAsIs(s) \/ RevokeStage(s)
    \/ RevokeCommit(s) \/ Refresh(s)

Next ==
    \/ Tick
    \/ \E s \in Sessions :
          BeginCreate(s) \/ BeginOnInvitation(s) \/ Handle(s) \/ Abort(s)

Spec == Init /\ [][Next]_vars

\* The event loop resumes every task whose awaited result has arrived.
FairSpec == Spec /\ \A s \in Sessions : WF_vars(Handle(s))

-----------------------------------------------------------------------------
(* Properties *)

\* The columns of iam.invitations and the state of the sessions have their
\* types; in particular expires_at is never NULL (nullable=False), and a
\* session that works on an invitation knows which one.
TypeOK ==
    /\ status \in [Invitations -> Statuses \cup {"ABSENT"}]
    /\ invitee \in [Invitations -> Invitees \cup {None}]
    /\ expires \in [Invitations -> Int]
    /\ user \in [Invitations -> Users \cup {None}]
    /\ clock \in Nat
    /\ pc \in [Sessions -> Points]
    /\ call \in [Sessions -> Calls]
    /\ seen \in [Sessions -> Statuses \cup {"ABSENT"}]
    /\ reply \in [Sessions -> Replies]
    /\ \A s \in Sessions :
          pc[s] \in {"select", "loaded", "accept_commit", "revoke_commit"} =>
             call[s].target \in Invitations

\* Whatever calls overlap, each row goes through the life that
\* InvitationLifecycle describes: it is never reopened once closed, its
\* deadline never moves, EXPIRED comes after the deadline and ACCEPTED comes
\* with a user (verify_token, accept_invitation, revoke_invitation).
Lifecycle == INSTANCE InvitationLifecycle
                WITH deadline <- expires, holder <- user, now <- clock
LifecycleHolds == Lifecycle!LifecycleSpec

\* The three columns agree in every committed state, although status and
\* user_id are written by different calls with stale copies of the row: a
\* row that was never accepted has no user, an accepted one has, and EXPIRED
\* is never stored while the deadline still lies ahead.
RowsConsistent ==
    \A i \in Invitations :
        /\ status[i] \in {"ABSENT", "PENDING"} => user[i] = None
        /\ status[i] = "ACCEPTED" => user[i] # None
        /\ status[i] = "EXPIRED" => PastDeadline(i)

\* A call that verify_token lets through (a 200 of /verify, an acceptance
\* staged or done), and a revocation that is about to be written, began
\* before the invitation was closed and, for a token, before its deadline.  So
\* a token revoked, expired or used before the call began is always refused
\* (tests/functional/test_invitations.py, test_revoke_invitation).
SuccessMeansWasOpen ==
    \A s \in Sessions :
        /\ reply[s].answer \in {"valid", "accepted"} =>
              /\ reply[s].statusThen \notin Closed
              /\ reply[s].began <= expires[reply[s].target]
        /\ pc[s] = "accept_commit" => call[s].began <= expires[call[s].target]
        /\ pc[s] \in {"accept_commit", "revoke_commit"} =>
              call[s].statusThen \notin Closed

\* After a call was told that the invitation is revoked or accepted, the
\* invitation is closed and stays so, whoever else wrote to the row since.
AcknowledgedIsClosed ==
    \A s \in Sessions :
        reply[s].answer \in {"revoked", "accepted"} =>
            status[reply[s].target] \in Closed

\* How the status of a closed invitation can still change.  It becomes
\* ACCEPTED or REVOKED only by the commit of a session whose call began before
\* the invitation was closed: accept_invitation and revoke_invitation never
\* overwrite an outcome that was there when they began.  It becomes EXPIRED
\* when verify_token meets it past its deadline, overlapping or not: the
\* deadline is looked at before the status, so a later call relabels even an
\* accepted or revoked invitation.  No other step touches it.
RelabelStep ==
    \A i \in Invitations :
        status[i] \in Closed /\ status'[i] # status[i] =>
            \E s \in Sessions :
                /\ call[s].target = i
                /\ \/ /\ pc[s] \in {"accept_commit", "revoke_commit"}
                      /\ call[s].statusThen \notin Closed
                      /\ status'[i] \in {"ACCEPTED", "REVOKED"}
                   \/ /\ TokenLoaded(s)
                      /\ PastDeadline(i)
                      /\ status'[i] = "EXPIRED"
RelabelByOverlapOrDeadline == [][RelabelStep]_vars

\* The duplicate check of create_invitation is not atomic with the insert, so
\* several active invitations for one invitee can exist; but never more than
\* there are concurrent sessions (with one session: never more than one).
ActiveBoundedByConcurrency ==
    \A e \in Invitees :
        Cardinality({i \in Invitations : Active(i, e, clock)})
            <= Cardinality(Sessions)

\* When a token call has loaded an invitation whose deadline has passed, the
\* invitation ends up closed, unless that very request dies.
ExpiryIsRecorded ==
    \A s \in Sessions, i \in Invitations :
        (TokenLoaded(s) /\ call[s].target = i /\ VerifyExpires(s))
            ~> (status[i] \in Closed \/ reply[s].answer = "aborted")

\* The comment in revoke_invitation: an invitation that is not pending any
\* more is returned as it is.
RevokeLeavesClosedAlone ==
    [][\A i \in Invitations :
          status[i] \in {"ACCEPTED", "EXPIRED"} => status'[i] # "REVOKED"]_vars

\* test_accept_invitation_with_role: POST /accept with a valid token does not
\* end in a server error.
AcceptEndpointSucceeds ==
    \A s \in Sessions :
        reply[s].op = "accept_endpoint" => reply[s].answer # "error"
=============================================================================
