------------------------- MODULE InvitationsProofs -------------------------
(***************************************************************************)
(* Proofs about Invitations, for every set of sessions, invitations,       *)
(* invitees, users and days, every set of operations and every clock bound.*)
(***************************************************************************)
EXTENDS Invitations, FiniteSetTheorems, TLAPS

-----------------------------------------------------------------------------
(* Type correctness *)

\* The part of TypeOK about the sessions, which Finish keeps.
SessionTypeOK ==
    /\ pc \in [Sessions -> Points]
    /\ call \in [Sessions -> Calls]
    /\ seen \in [Sessions -> Statuses \cup {"ABSENT"}]
    /\ reply \in [Sessions -> Replies]
    /\ \A s \in Sessions :
          pc[s] \in {"select", "loaded", "accept_commit", "revoke_commit"} =>
             call[s].target \in Invitations

\* The placeholder call and the reply to a call have their types.
LEMMA RecordTypes ==
    /\ NoCall \in Calls
    /\ \A c \in Calls, a \in Answers : ReplyTo(c, a) \in Replies
  BY DEF NoCall, Calls, ReplyTo, Replies, AllOperations

\* Ending a request (get_db closing the session) keeps the session types.
LEMMA FinishType ==
    ASSUME TypeOK, NEW s \in Sessions, NEW a \in Answers, Finish(s, a)
    PROVE  SessionTypeOK'
  <1>1. call[s] \in Calls
    BY DEF TypeOK
  <1>2. ReplyTo(call[s], a) \in Replies
    BY <1>1, RecordTypes
  <1> QED
    BY <1>2, RecordTypes DEF TypeOK, SessionTypeOK, Finish, Points

\* Receiving a well-typed request keeps the session types.
LEMMA BeginType ==
    ASSUME TypeOK, NEW s \in Sessions, NEW c \in Calls, NEW p \in Points,
           Begin(s, c, p), p = "select" => c.target \in Invitations,
           p \in {"select", "create_select"}
    PROVE  TypeOK'
  <1>1. ReplyTo(NoCall, "none") \in Replies
    BY RecordTypes DEF Answers
  <1> QED
    BY <1>1 DEF TypeOK, Begin, rows

\* The initial state is well typed.
LEMMA InitType == Init => TypeOK
  <1>1. ReplyTo(NoCall, "none") \in Replies
    BY RecordTypes DEF Answers
  <1> QED
    BY <1>1, RecordTypes DEF Init, TypeOK, Points

\* Every step of the specification keeps TypeOK.
LEMMA NextType == TypeOK /\ [Next]_vars => TypeOK'
  <1> SUFFICES ASSUME TypeOK, [Next]_vars
               PROVE  TypeOK'
    OBVIOUS
  <1> USE InvitationsAssumption
  <1>1. CASE Tick
    BY <1>1 DEF TypeOK, Tick, rows
  <1>2. ASSUME NEW s \in Sessions, BeginCreate(s)
        PROVE  TypeOK'
    <2>1. PICK e \in Invitees, d \in Days \cup {None} :
             Begin(s, CreateCall(e, d, clock), "create_select")
      BY <1>2 DEF BeginCreate
    <2>2. CreateCall(e, d, clock) \in Calls
      BY DEF CreateCall, Calls, AllOperations, TypeOK
    <2> QED
      BY <2>1, <2>2, BeginType DEF Points, CreateCall
  <1>3. ASSUME NEW s \in Sessions, BeginOnInvitation(s)
        PROVE  TypeOK'
    <2>1. PICK op \in AllOperations \ {"create"}, i \in Invitations :
          \E u \in IF op = "accept" THEN Users ELSE {None} :
             Begin(s, InvitationCall(op, i, u, clock, status[i]), "select")
      BY <1>3 DEF BeginOnInvitation
    <2>2. PICK u \in IF op = "accept" THEN Users ELSE {None} :
             Begin(s, InvitationCall(op, i, u, clock, status[i]), "select")
      BY <2>1
    <2>3. InvitationCall(op, i, u, clock, status[i]) \in Calls
      BY DEF InvitationCall, Calls, AllOperations, TypeOK
    <2> QED
      BY <2>2, <2>3, BeginType DEF Points, InvitationCall
  <1>4. ASSUME NEW s \in Sessions, Handle(s)
        PROVE  TypeOK'
    <2>1. CASE CreateExisting(s)
      BY <2>1, FinishType DEF CreateExisting, TypeOK, SessionTypeOK, rows, Answers
    <2>2. CASE CreateNone(s)
      <3>1. CASE Finish(s, "error")
        BY <2>2, <3>1, FinishType
           DEF CreateNone, TypeOK, SessionTypeOK, rows, Answers
      <3>2. CASE /\ call[s].days # None
                 /\ Goto(s, "create_commit")
                 /\ call' = [call EXCEPT ![s].expires = clock + call[s].days]
                 /\ UNCHANGED seen
        <4>1. call[s] \in Calls /\ clock + call[s].days \in Int
          BY <3>2 DEF TypeOK, Calls
        <4>2. [call[s] EXCEPT !.expires = clock + call[s].days] \in Calls
          BY <4>1 DEF Calls
        <4> QED
          BY <2>2, <3>2, <4>2 DEF CreateNone, Goto, TypeOK, rows, Points
      <3> QED
        BY <2>2, <3>1, <3>2 DEF CreateNone
    <2>3. CASE CreateCommit(s)
      <3>1. PICK i \in Invitations :
               /\ status' = [status EXCEPT ![i] = "PENDING"]
               /\ invitee' = [invitee EXCEPT ![i] = call[s].invitee]
               /\ expires' = [expires EXCEPT ![i] = call[s].expires]
               /\ call' = [call EXCEPT ![s].target = i]
        BY <2>3 DEF CreateCommit
      <3>2. /\ call[s] \in Calls
            /\ call[s].invitee \in Invitees \cup {None}
            /\ call[s].expires \in Int
        BY DEF TypeOK, Calls
      <3>3. [call[s] EXCEPT !.target = i] \in Calls
        BY <3>2 DEF Calls
      <3> QED
        BY <2>3, <3>1, <3>2, <3>3
           DEF CreateCommit, Goto, TypeOK, Statuses, Points
    <2>4. CASE Load(s)
      BY <2>4 DEF Load, Goto, TypeOK, rows, Points
    <2>5. CASE RejectToken(s)
      BY <2>5, FinishType DEF RejectToken, TypeOK, SessionTypeOK, rows, Answers
    <2>6. CASE ExpireToken(s)
      BY <2>6, FinishType
         DEF ExpireToken, FlushStatus, TypeOK, SessionTypeOK, Statuses, Answers
    <2>7. CASE VerifyValid(s)
      BY <2>7, FinishType DEF VerifyValid, TypeOK, SessionTypeOK, rows, Answers
    <2>8. CASE AcceptEndpoint(s)
      BY <2>8, FinishType
         DEF AcceptEndpoint, TypeOK, SessionTypeOK, rows, Answers
    <2>9. CASE AcceptStage(s)
      BY <2>9 DEF AcceptStage, TokenLoaded, Goto, TypeOK, rows, Points
    <2>10. CASE AcceptCommit(s)
      <3>1. call[s].user \in Users \cup {None}
        BY DEF TypeOK, Calls
      <3> QED
        BY <2>10, <3>1
           DEF AcceptCommit, FlushStatus, Goto, TypeOK, Statuses, Points
    <2>11. CASE RevokeMissing(s)
      BY <2>11, FinishType DEF RevokeMissing, TypeOK, SessionTypeOK, rows, Answers
    <2>12. CASE RevokeDenied(s)
      BY <2>12, FinishType DEF RevokeDenied, TypeOK, SessionTypeOK, rows, Answers
    <2>13. CASE RevokeAsIs(s)
      BY <2>13, FinishType DEF RevokeAsIs, TypeOK, SessionTypeOK, rows, Answers
    <2>14. CASE RevokeStage(s)
      BY <2>14 DEF RevokeStage, RevokeLoaded, Goto, TypeOK, rows, Points
    <2>15. CASE RevokeCommit(s)
      BY <2>15 DEF RevokeCommit, FlushStatus, Goto, TypeOK, Statuses, Points
    <2>16. CASE Refresh(s)
      <3>1. \E a \in Answers : Finish(s, a)
        BY <2>16 DEF Refresh, Answers
      <3> QED
        BY <2>16, <3>1, FinishType DEF Refresh, TypeOK, SessionTypeOK, rows
    <2> QED
      BY <1>4, <2>1, <2>2, <2>3, <2>4, <2>5, <2>6, <2>7, <2>8, <2>9, <2>10,
         <2>11, <2>12, <2>13, <2>14, <2>15, <2>16 DEF Handle
  <1>5. ASSUME NEW s \in Sessions, Abort(s)
        PROVE  TypeOK'
    BY <1>5, FinishType DEF Abort, TypeOK, SessionTypeOK, rows, Answers
  <1>6. CASE UNCHANGED vars
    BY <1>6 DEF TypeOK, vars
  <1> QED
    BY <1>1, <1>2, <1>3, <1>4, <1>5, <1>6 DEF Next

\* Every reachable state is well typed: the columns of iam.invitations and the
\* state of the sessions that run its handlers.
THEOREM TypeCorrect == Spec => []TypeOK
  BY InitType, NextType, PTL DEF Spec

-----------------------------------------------------------------------------
(***************************************************************************)
(* The inductive invariant.  RowsConsistent speaks of the table only, and  *)
(* is not inductive: a session writes what follows from the copy of the    *)
(* row it loaded earlier.  SessionSound says what that stale copy is still *)
(* good for (a row loaded closed is closed, a row loaded at all exists),   *)
(* ReplySound what an answer that was given stays good for.                *)
(***************************************************************************)

Working == {"select", "loaded", "accept_commit", "revoke_commit"}

SessionSound(s) ==
    LET c == call[s] IN
    /\ c.began <= clock
    /\ pc[s] = "idle" => seen[s] = "ABSENT"
    /\ pc[s] \in Working =>
          /\ c.statusThen \in Closed => status[c.target] \in Closed
          /\ c.op = "accept" => c.user \in Users
          /\ seen[s] # "ABSENT" => status[c.target] # "ABSENT"
          /\ seen[s] \in Closed => status[c.target] \in Closed
          /\ seen[s] = "PENDING" => c.statusThen \notin Closed
    /\ pc[s] \in {"accept_commit", "revoke_commit"} => seen[s] = "PENDING"
    /\ pc[s] = "accept_commit" => c.op = "accept" /\ c.began <= expires[c.target]
    /\ pc[s] = "revoke_commit" => c.op = "revoke"
    /\ InCreate(s) => c.op = "create"
    /\ pc[s] = "refresh" /\ c.op # "create" =>
          c.target \in Invitations /\ status[c.target] \in Closed
    /\ pc[s] = "refresh" /\ c.op = "accept" =>
          c.statusThen \notin Closed /\ c.began <= expires[c.target]

ReplySound(s) ==
    LET r == reply[s] IN
    /\ r.answer \in {"revoked", "accepted"} =>
          r.target \in Invitations /\ status[r.target] \in Closed
    /\ r.answer \in {"valid", "accepted"} =>
          /\ r.target \in Invitations
          /\ status[r.target] # "ABSENT"
          /\ r.statusThen \notin Closed
          /\ r.began <= expires[r.target]

IndInv ==
    /\ TypeOK
    /\ RowsConsistent
    /\ \A s \in Sessions : SessionSound(s) /\ ReplySound(s)

\* One step never reopens a closed row, removes a row or moves its deadline.
RowForward(i) ==
    /\ status[i] \in Closed => status'[i] \in Closed
    /\ status[i] # "ABSENT" => status'[i] # "ABSENT" /\ expires'[i] = expires[i]

\* Only these steps write to iam.invitations: the commits of create, accept
\* and revoke, and the commit of the expired branch of verify_token.
LEMMA WritersOfRows ==
    ASSUME Next
    PROVE  \/ UNCHANGED rows
           \/ \E s \in Sessions : \/ CreateCommit(s) \/ ExpireToken(s)
                                  \/ AcceptCommit(s) \/ RevokeCommit(s)
  BY DEF Next, Tick, BeginCreate, BeginOnInvitation, Begin, Handle, Abort,
         CreateExisting, CreateNone, Load, RejectToken, VerifyValid,
         AcceptEndpoint, AcceptStage, RevokeMissing, RevokeDenied, RevokeAsIs,
         RevokeStage, Refresh

\* The clock does not go back.
LEMMA ClockForward ==
    ASSUME TypeOK, [Next]_vars
    PROVE  clock' \in Nat /\ clock <= clock'
  <1>1. CASE Tick
    BY <1>1 DEF Tick, TypeOK
  <1>2. CASE UNCHANGED clock
    BY <1>2 DEF TypeOK
  <1> QED
    BY <1>1, <1>2
       DEF Next, vars, BeginCreate, BeginOnInvitation, Begin, Handle, Abort,
           CreateExisting, CreateNone, CreateCommit, Load, RejectToken,
           ExpireToken, VerifyValid, AcceptEndpoint, AcceptStage, AcceptCommit,
           RevokeMissing, RevokeDenied, RevokeAsIs, RevokeStage, RevokeCommit,
           Refresh

\* Under the invariant every step moves every row forward.
LEMMA RowsForward ==
    ASSUME IndInv, [Next]_vars
    PROVE  \A i \in Invitations : RowForward(i)
  <1>1. CASE UNCHANGED rows
    BY <1>1 DEF RowForward, rows
  <1>2. ASSUME NEW s \in Sessions, CreateCommit(s)
        PROVE  \A i \in Invitations : RowForward(i)
    BY <1>2 DEF CreateCommit, RowForward, IndInv, TypeOK, Closed, Statuses
  <1>3. ASSUME NEW s \in Sessions,
               ExpireToken(s) \/ AcceptCommit(s) \/ RevokeCommit(s)
        PROVE  \A i \in Invitations : RowForward(i)
    <2>1. \E new \in Closed : FlushStatus(s, new) /\ UNCHANGED expires
      BY <1>3 DEF ExpireToken, AcceptCommit, RevokeCommit, Closed, Statuses
    <2> QED
      BY <2>1 DEF FlushStatus, RowForward, IndInv, TypeOK, Closed, Statuses
  <1>4. CASE UNCHANGED vars
    BY <1>1, <1>4 DEF vars, rows
  <1> QED
    BY <1>1, <1>2, <1>3, <1>4, WritersOfRows

\* What a session relies on survives the steps of the other sessions.
LEMMA OtherSessions ==
    ASSUME TypeOK, TypeOK', clock <= clock', \A i \in Invitations : RowForward(i),
           NEW t \in Sessions, SessionSound(t), ReplySound(t),
           pc'[t] = pc[t], call'[t] = call[t], seen'[t] = seen[t],
           reply'[t] = reply[t]
    PROVE  SessionSound(t)' /\ ReplySound(t)'
  <1>1. SessionSound(t)'
    <2>1. call[t].began \in Nat
      BY DEF TypeOK, Calls
    <2>2. pc[t] \in Working => call[t].target \in Invitations
      BY DEF TypeOK, Working
    <2> QED
      BY <2>1, <2>2 DEF SessionSound, InCreate, RowForward, Working, TypeOK, Closed, Statuses
  <1>2. ReplySound(t)'
    BY DEF ReplySound, RowForward, TypeOK, Closed, Statuses
  <1> QED
    BY <1>1, <1>2

\* A session that has ended a request relies on nothing.
LEMMA FinishSound ==
    ASSUME TypeOK, TypeOK', NEW s \in Sessions, NEW a, Finish(s, a)
    PROVE  SessionSound(s)'
  BY DEF Finish, TypeOK, SessionSound, InCreate, NoCall, Working

\* A refusal, or a created invitation, promises nothing about later states.
LEMMA FinishNeutral ==
    ASSUME TypeOK, NEW s \in Sessions, NEW a, Finish(s, a),
           a \notin {"valid", "accepted", "revoked"}
    PROVE  ReplySound(s)'
  BY DEF Finish, TypeOK, ReplySound, ReplyTo

\* The session that takes the step: what it relies on, and what it answered,
\* holds afterwards.
LEMMA OwnSession ==
    ASSUME IndInv, TypeOK', Next, NEW s \in Sessions,
           \A i \in Invitations : RowForward(i),
           \/ BeginCreate(s) \/ BeginOnInvitation(s) \/ Handle(s) \/ Abort(s)
    PROVE  SessionSound(s)' /\ ReplySound(s)'
  <1> USE InvitationsAssumption
  <1>1. SessionSound(s) /\ ReplySound(s) /\ TypeOK
    BY DEF IndInv
  <1>2. call[s] \in Calls /\ clock \in Nat
    BY <1>1 DEF TypeOK
  <1>3. CASE BeginCreate(s)
    BY <1>1, <1>2, <1>3
       DEF BeginCreate, Begin, CreateCall, NoCall, ReplyTo, TypeOK, SessionSound,
           ReplySound, Working, rows, InCreate
  <1>4. CASE BeginOnInvitation(s)
    <2>1. PICK op \in AllOperations \ {"create"}, i \in Invitations :
          \E u \in IF op = "accept" THEN Users ELSE {None} :
             Begin(s, InvitationCall(op, i, u, clock, status[i]), "select")
      BY <1>4 DEF BeginOnInvitation
    <2>2. PICK u \in IF op = "accept" THEN Users ELSE {None} :
             Begin(s, InvitationCall(op, i, u, clock, status[i]), "select")
      BY <2>1
    <2> QED
      BY <1>1, <1>2, <2>2
         DEF Begin, InvitationCall, NoCall, ReplyTo, TypeOK, SessionSound, InCreate,
             ReplySound, Working, rows, Closed, Statuses
  <1>5. CASE Abort(s)
    BY <1>1, <1>5, FinishSound, FinishNeutral DEF Abort
  <1>6. CASE CreateExisting(s)
    BY <1>1, <1>6, FinishSound, FinishNeutral DEF CreateExisting
  <1>7. CASE CreateNone(s)
    <2>1. CASE Finish(s, "error")
      BY <1>1, <2>1, FinishSound, FinishNeutral
    <2>2. CASE /\ Goto(s, "create_commit")
               /\ call' = [call EXCEPT ![s].expires = clock + call[s].days]
      BY <1>1, <1>2, <1>7, <2>2
         DEF CreateNone, Goto, TypeOK, SessionSound, InCreate, ReplySound, Calls, Working, rows
    <2> QED
      BY <1>7, <2>1, <2>2 DEF CreateNone
  <1>8. CASE CreateCommit(s)
    <2>1. SessionSound(s)'
      BY <1>1, <1>2, <1>8
         DEF CreateCommit, Goto, TypeOK, SessionSound, InCreate, Calls, Working
    <2>2. ReplySound(s)'
      BY <1>1, <1>8
         DEF CreateCommit, Goto, TypeOK, ReplySound, RowForward, Closed, Statuses
    <2> QED
      BY <2>1, <2>2
  <1>9. CASE Load(s)
    BY <1>1, <1>2, <1>9
       DEF Load, Goto, TypeOK, SessionSound, InCreate, ReplySound, Working, rows, Closed,
           Statuses
  <1>10. CASE RejectToken(s)
    BY <1>1, <1>10, FinishSound, FinishNeutral DEF RejectToken
  <1>11. CASE ExpireToken(s)
    BY <1>1, <1>11, FinishSound, FinishNeutral DEF ExpireToken
  <1>12. CASE VerifyValid(s)
    <2>1. SessionSound(s)'
      BY <1>1, <1>12, FinishSound DEF VerifyValid
    <2>2. call[s].target \in Invitations /\ call[s].began \in Nat
      BY <1>1, <1>2, <1>12 DEF VerifyValid, TokenLoaded, TypeOK, Calls
    <2>3. call[s].began <= expires[call[s].target]
      BY <1>1, <1>2, <1>12, <2>2
         DEF VerifyValid, VerifyAccepts, VerifyExpires, PastDeadline, SessionSound, InCreate,
             TypeOK
    <2> QED
      BY <1>1, <1>12, <2>1, <2>2, <2>3
         DEF VerifyValid, TokenLoaded, VerifyAccepts, Finish, ReplyTo, TypeOK,
             SessionSound, InCreate, ReplySound, Working, rows
  <1>13. CASE AcceptEndpoint(s)
    BY <1>1, <1>13, FinishSound, FinishNeutral DEF AcceptEndpoint
  <1>14. CASE AcceptStage(s)
    <2>1. call[s].target \in Invitations /\ call[s].began \in Nat
      BY <1>1, <1>2, <1>14 DEF AcceptStage, TokenLoaded, TypeOK, Calls
    <2>2. call[s].began <= expires[call[s].target]
      BY <1>1, <1>2, <1>14, <2>1
         DEF AcceptStage, VerifyAccepts, VerifyExpires, PastDeadline, SessionSound, InCreate,
             TypeOK
    <2> QED
      BY <1>1, <1>14, <2>1, <2>2
         DEF AcceptStage, TokenLoaded, VerifyAccepts, Goto, TypeOK, SessionSound, InCreate,
             ReplySound, Working, rows
  <1>15. CASE AcceptCommit(s)
    <2>1. call[s].target \in Invitations
      BY <1>1, <1>15 DEF AcceptCommit, TypeOK
    <2>2. status'[call[s].target] \in Closed
      BY <1>1, <1>15, <2>1
         DEF AcceptCommit, FlushStatus, SessionSound, InCreate, TypeOK, Closed, Statuses
    <2>3. SessionSound(s)'
      BY <1>1, <1>2, <1>15, <2>1, <2>2
         DEF AcceptCommit, Goto, TypeOK, SessionSound, InCreate, Working
    <2>4. ReplySound(s)'
      BY <1>1, <1>15
         DEF AcceptCommit, Goto, TypeOK, ReplySound, RowForward, Closed, Statuses
    <2> QED
      BY <2>3, <2>4
  <1>16. CASE RevokeMissing(s)
    BY <1>1, <1>16, FinishSound, FinishNeutral DEF RevokeMissing
  <1>17. CASE RevokeDenied(s)
    BY <1>1, <1>17, FinishSound, FinishNeutral DEF RevokeDenied
  <1>18. CASE RevokeAsIs(s)
    <2>1. SessionSound(s)'
      BY <1>1, <1>18, FinishSound DEF RevokeAsIs
    <2>2. call[s].target \in Invitations /\ status[call[s].target] \in Closed
      BY <1>1, <1>18 DEF RevokeAsIs, RevokeLoaded, TypeOK, SessionSound, InCreate, Working
    <2> QED
      BY <1>1, <1>18, <2>1, <2>2
         DEF RevokeAsIs, Finish, ReplyTo, TypeOK, ReplySound, rows
  <1>19. CASE RevokeStage(s)
    BY <1>1, <1>2, <1>19
       DEF RevokeStage, RevokeLoaded, Goto, TypeOK, SessionSound, InCreate, ReplySound,
           Working, rows
  <1>20. CASE RevokeCommit(s)
    <2>1. call[s].target \in Invitations
      BY <1>1, <1>20 DEF RevokeCommit, TypeOK
    <2>2. status'[call[s].target] \in Closed
      BY <1>1, <1>20, <2>1
         DEF RevokeCommit, FlushStatus, SessionSound, InCreate, TypeOK, Closed, Statuses
    <2>3. SessionSound(s)'
      BY <1>1, <1>2, <1>20, <2>1, <2>2
         DEF RevokeCommit, Goto, TypeOK, SessionSound, InCreate, Working
    <2>4. ReplySound(s)'
      BY <1>1, <1>20
         DEF RevokeCommit, Goto, TypeOK, ReplySound, RowForward, Closed, Statuses
    <2> QED
      BY <2>3, <2>4
  <1>21. CASE Refresh(s)
    <2>1. SessionSound(s)'
      BY <1>1, <1>21, FinishSound DEF Refresh
    <2>2. ReplySound(s)'
      <3>1. CASE call[s].op = "create"
        BY <1>1, <1>21, <3>1, FinishNeutral DEF Refresh
      <3>2. CASE call[s].op = "accept"
        BY <1>1, <1>21, <3>2
           DEF Refresh, Finish, ReplyTo, TypeOK, SessionSound, InCreate, ReplySound, rows,
               Closed, Statuses
      <3>3. CASE call[s].op \notin {"create", "accept"}
        <4>1. Finish(s, "revoked")
          BY <1>21, <3>3 DEF Refresh
        <4> QED
          BY <1>1, <1>21, <3>3, <4>1
             DEF Refresh, Finish, ReplyTo, TypeOK, SessionSound, InCreate, ReplySound, rows
      <3> QED
        BY <3>1, <3>2, <3>3
    <2> QED
      BY <2>1, <2>2
  <1> QED
    BY <1>3, <1>4, <1>5, <1>6, <1>7, <1>8, <1>9, <1>10, <1>11, <1>12, <1>13,
       <1>14, <1>15, <1>16, <1>17, <1>18, <1>19, <1>20, <1>21 DEF Handle

\* The columns of the table stay consistent under every step.
LEMMA RowsStayConsistent ==
    ASSUME IndInv, TypeOK', [Next]_vars
    PROVE  RowsConsistent'
  <1> USE InvitationsAssumption
  <1>1. TypeOK /\ RowsConsistent
    BY DEF IndInv
  <1>2. clock' \in Nat /\ clock <= clock'
    BY <1>1, ClockForward
  <1>3. CASE UNCHANGED rows
    BY <1>1, <1>2, <1>3 DEF RowsConsistent, PastDeadline, TypeOK, rows
  <1>4. ASSUME NEW s \in Sessions, CreateCommit(s)
        PROVE  RowsConsistent'
    BY <1>1, <1>4
       DEF CreateCommit, RowsConsistent, PastDeadline, TypeOK, Statuses
  <1>5. ASSUME NEW s \in Sessions, ExpireToken(s)
        PROVE  RowsConsistent'
    <2>1. call[s].target \in Invitations
      BY <1>1, <1>5 DEF ExpireToken, TokenLoaded, TypeOK
    <2>2. SessionSound(s) /\ seen[s] # "ABSENT" /\ PastDeadline(call[s].target)
      BY <1>5 DEF IndInv, ExpireToken, VerifyExpires
    <2>3. status[call[s].target] # "ABSENT"
      BY <1>5, <2>2 DEF ExpireToken, TokenLoaded, SessionSound, Working
    <2> QED
      BY <1>1, <1>5, <2>1, <2>2, <2>3
         DEF ExpireToken, FlushStatus, RowsConsistent, PastDeadline, TypeOK, Statuses
  <1>6. ASSUME NEW s \in Sessions, AcceptCommit(s)
        PROVE  RowsConsistent'
    <2>1. call[s].target \in Invitations
      BY <1>1, <1>6 DEF AcceptCommit, TypeOK
    <2>2. call[s].user \in Users /\ seen[s] = "PENDING"
      BY <1>6 DEF IndInv, AcceptCommit, SessionSound, Working
    <2> QED
      BY <1>1, <1>6, <2>1, <2>2
         DEF AcceptCommit, FlushStatus, RowsConsistent, PastDeadline, TypeOK, Statuses
  <1>7. ASSUME NEW s \in Sessions, RevokeCommit(s)
        PROVE  RowsConsistent'
    <2>1. call[s].target \in Invitations
      BY <1>1, <1>7 DEF RevokeCommit, TypeOK
    <2> QED
      BY <1>1, <1>7, <2>1
         DEF RevokeCommit, FlushStatus, RowsConsistent, PastDeadline, TypeOK, Statuses
  <1>8. CASE UNCHANGED vars
    BY <1>3, <1>8 DEF vars, rows
  <1> QED
    BY <1>3, <1>4, <1>5, <1>6, <1>7, <1>8, WritersOfRows

\* A step changes the state of one session only, or of none.
LEMMA OneSessionMoves ==
    ASSUME TypeOK, Next
    PROVE  \/ UNCHANGED <<pc, call, seen, reply>>
           \/ \E s \in Sessions :
                /\ BeginCreate(s) \/ BeginOnInvitation(s) \/ Handle(s) \/ Abort(s)
                /\ \A t \in Sessions \ {s} :
                      /\ pc'[t] = pc[t] /\ call'[t] = call[t]
                      /\ seen'[t] = seen[t] /\ reply'[t] = reply[t]
  <1>1. CASE Tick
    BY <1>1 DEF Tick
  <1>2. ASSUME NEW s \in Sessions,
               BeginCreate(s) \/ BeginOnInvitation(s) \/ Handle(s) \/ Abort(s)
        PROVE  \A t \in Sessions \ {s} :
                  /\ pc'[t] = pc[t] /\ call'[t] = call[t]
                  /\ seen'[t] = seen[t] /\ reply'[t] = reply[t]
    BY <1>2
       DEF TypeOK, BeginCreate, BeginOnInvitation, Begin, Handle, Abort, Finish,
           Goto, CreateExisting, CreateNone, CreateCommit, Load, RejectToken,
           ExpireToken, VerifyValid, AcceptEndpoint, AcceptStage, AcceptCommit,
           RevokeMissing, RevokeDenied, RevokeAsIs, RevokeStage, RevokeCommit,
           Refresh
  <1> QED
    BY <1>1, <1>2 DEF Next

\* The invariant holds when the table is empty and no request is under way.
LEMMA InitIndInv == Init => IndInv
  <1> SUFFICES ASSUME Init
               PROVE  IndInv
    OBVIOUS
  <1>1. TypeOK
    BY InitType
  <1>2. RowsConsistent
    BY DEF Init, RowsConsistent
  <1>3. ASSUME NEW s \in Sessions
        PROVE  SessionSound(s) /\ ReplySound(s)
    BY DEF Init, SessionSound, InCreate, ReplySound, NoCall, ReplyTo, Working
  <1> QED
    BY <1>1, <1>2, <1>3 DEF IndInv

\* Every step of every session, and the clock, keep the invariant.
LEMMA NextIndInv == IndInv /\ [Next]_vars => IndInv'
  <1> SUFFICES ASSUME IndInv, [Next]_vars
               PROVE  IndInv'
    OBVIOUS
  <1>1. TypeOK /\ TypeOK'
    BY NextType DEF IndInv
  <1>2. RowsConsistent'
    BY <1>1, RowsStayConsistent
  <1>3. clock <= clock' /\ \A i \in Invitations : RowForward(i)
    BY <1>1, ClockForward, RowsForward
  <1>4. ASSUME NEW t \in Sessions
        PROVE  SessionSound(t)' /\ ReplySound(t)'
    <2>1. SessionSound(t) /\ ReplySound(t)
      BY DEF IndInv
    <2>2. CASE UNCHANGED <<pc, call, seen, reply>>
      BY <1>1, <1>3, <2>1, <2>2, OtherSessions
    <2>3. ASSUME NEW s \in Sessions, Next,
                 BeginCreate(s) \/ BeginOnInvitation(s) \/ Handle(s) \/ Abort(s),
                 \A x \in Sessions \ {s} :
                    /\ pc'[x] = pc[x] /\ call'[x] = call[x]
                    /\ seen'[x] = seen[x] /\ reply'[x] = reply[x]
          PROVE  SessionSound(t)' /\ ReplySound(t)'
      <3>1. CASE t = s
        BY <1>1, <1>3, <2>3, <3>1, OwnSession
      <3>2. CASE t # s
        BY <1>1, <1>3, <2>1, <2>3, <3>2, OtherSessions
      <3> QED
        BY <3>1, <3>2
    <2>4. CASE UNCHANGED vars
      BY <2>2, <2>4 DEF vars
    <2> QED
      BY <1>1, <2>2, <2>3, <2>4, OneSessionMoves
  <1> QED
    BY <1>1, <1>2, <1>4 DEF IndInv

\* The inductive invariant holds in every reachable state.
THEOREM IndInvHolds == Spec => []IndInv
  BY InitIndInv, NextIndInv, PTL DEF Spec

\* The columns status, user_id and expires_at of every committed row agree, in
\* every interleaving of any number of requests.
THEOREM RowsConsistentHolds == Spec => []RowsConsistent
  <1>1. IndInv => RowsConsistent
    BY DEF IndInv
  <1> QED
    BY <1>1, IndInvHolds, PTL

\* A token that was revoked, accepted or past its deadline when a call began
\* is refused by that call.
THEOREM SuccessMeansWasOpenHolds == Spec => []SuccessMeansWasOpen
  <1>1. IndInv => SuccessMeansWasOpen
    BY DEF IndInv, SuccessMeansWasOpen, SessionSound, ReplySound, Working
  <1> QED
    BY <1>1, IndInvHolds, PTL

\* An acknowledged revocation or acceptance leaves the invitation closed for
\* good.
THEOREM AcknowledgedIsClosedHolds == Spec => []AcknowledgedIsClosed
  <1>1. IndInv => AcknowledgedIsClosed
    BY DEF IndInv, AcknowledgedIsClosed, ReplySound
  <1> QED
    BY <1>1, IndInvHolds, PTL

-----------------------------------------------------------------------------
(* Action properties *)

\* A closed invitation changes its status in two ways only: a session that
\* staged its write while the invitation was still open stores ACCEPTED or
\* REVOKED over it, or verify_token stores EXPIRED past the deadline.
THEOREM RelabelByOverlapOrDeadlineHolds == Spec => RelabelByOverlapOrDeadline
  <1>1. IndInv /\ [Next]_vars => [RelabelStep]_vars
    <2> SUFFICES ASSUME IndInv, Next, NEW i \in Invitations, status[i] \in Closed,
                        status'[i] # status[i]
                 PROVE  \E s \in Sessions :
                           /\ call[s].target = i
                           /\ \/ /\ pc[s] \in {"accept_commit", "revoke_commit"}
                                 /\ call[s].statusThen \notin Closed
                                 /\ status'[i] \in {"ACCEPTED", "REVOKED"}
                              \/ /\ TokenLoaded(s)
                                 /\ PastDeadline(i)
                                 /\ status'[i] = "EXPIRED"
      BY DEF RelabelStep
    <2>1. TypeOK
      BY DEF IndInv
    <2>2. PICK s \in Sessions : \/ CreateCommit(s) \/ ExpireToken(s)
                               \/ AcceptCommit(s) \/ RevokeCommit(s)
      BY WritersOfRows DEF rows
    <2>3. ~ CreateCommit(s)
      BY <2>1 DEF CreateCommit, TypeOK, Closed, Statuses
    <2>4. CASE ExpireToken(s)
      <3>1. call[s].target = i /\ status'[i] = "EXPIRED"
        BY <2>1, <2>4 DEF ExpireToken, FlushStatus, TypeOK
      <3>2. TokenLoaded(s) /\ PastDeadline(i)
        BY <3>1, <2>4 DEF ExpireToken, VerifyExpires
      <3> QED
        BY <3>1, <3>2
    <2>5. CASE AcceptCommit(s) \/ RevokeCommit(s)
      <3>1. /\ pc[s] \in {"accept_commit", "revoke_commit"}
            /\ call[s].target = i
            /\ status'[i] \in {"ACCEPTED", "REVOKED"}
        BY <2>1, <2>5 DEF AcceptCommit, RevokeCommit, FlushStatus, TypeOK
      <3>2. call[s].statusThen \notin Closed
        BY <3>1 DEF IndInv, SessionSound, Working
      <3> QED
        BY <3>1, <3>2
    <2> QED
      BY <2>2, <2>3, <2>4, <2>5
  <1> QED
    BY <1>1, IndInvHolds, PTL DEF Spec, RelabelByOverlapOrDeadline

\* The service implements InvitationLifecycle: every commit of a handler is one
\* of its steps on one row, every other step of a request leaves it alone.
THEOREM LifecycleRefined == Spec => LifecycleHolds
  <1>1. Init => Lifecycle!LifecycleInit
    BY DEF Init, Lifecycle!LifecycleInit
  <1>2. IndInv /\ [Next]_vars =>
           [Lifecycle!LifecycleNext]_(Lifecycle!lifecycleVars)
    <2> SUFFICES ASSUME IndInv, Next
                 PROVE  [Lifecycle!LifecycleNext]_(Lifecycle!lifecycleVars)
      BY DEF vars, Lifecycle!lifecycleVars
    <2> USE InvitationsAssumption
    <2>1. TypeOK
      BY DEF IndInv
    <2>2. CASE Tick
      BY <2>2 DEF Tick, rows, Lifecycle!LifecycleNext, Lifecycle!Advance
    <2>3. ASSUME NEW s \in Sessions, CreateCommit(s)
          PROVE  Lifecycle!LifecycleNext
      <3>1. PICK i \in Invitations :
               /\ status[i] = "ABSENT"
               /\ status' = [status EXCEPT ![i] = "PENDING"]
               /\ expires' = [expires EXCEPT ![i] = call[s].expires]
        BY <2>3 DEF CreateCommit
      <3>2. call[s].expires \in Int
        BY <2>1 DEF TypeOK, Calls
      <3>3. Lifecycle!Issue(i)
        BY <2>1, <2>3, <3>1, <3>2 DEF CreateCommit, TypeOK, Lifecycle!Issue
      <3> QED
        BY <3>3 DEF Lifecycle!LifecycleNext
    <2>4. ASSUME NEW s \in Sessions, ExpireToken(s)
          PROVE  [Lifecycle!LifecycleNext]_(Lifecycle!lifecycleVars)
      <3>1. call[s].target \in Invitations /\ status[call[s].target] # "ABSENT"
        BY <2>4
           DEF IndInv, TypeOK, SessionSound, ExpireToken, TokenLoaded,
               VerifyExpires, Working
      <3>2. Lifecycle!Expire(call[s].target) \/ UNCHANGED status
        BY <2>1, <2>4, <3>1
           DEF ExpireToken, FlushStatus, VerifyExpires, PastDeadline,
               Lifecycle!Expire
      <3> QED
        BY <2>4, <3>1, <3>2
           DEF ExpireToken, Lifecycle!LifecycleNext, Lifecycle!lifecycleVars
    <2>5. ASSUME NEW s \in Sessions, AcceptCommit(s)
          PROVE  Lifecycle!LifecycleNext
      <3>1. /\ call[s].target \in Invitations
            /\ status[call[s].target] # "ABSENT"
            /\ seen[s] = "PENDING"
            /\ call[s].user \in Users
        BY <2>5 DEF IndInv, TypeOK, SessionSound, AcceptCommit, Working
      <3>2. Lifecycle!Accept(call[s].target, call[s].user)
        BY <2>5, <3>1 DEF AcceptCommit, FlushStatus, Lifecycle!Accept
      <3> QED
        BY <3>1, <3>2 DEF Lifecycle!LifecycleNext
    <2>6. ASSUME NEW s \in Sessions, RevokeCommit(s)
          PROVE  Lifecycle!LifecycleNext
      <3>1. /\ call[s].target \in Invitations
            /\ status[call[s].target] # "ABSENT"
            /\ seen[s] = "PENDING"
        BY <2>6 DEF IndInv, TypeOK, SessionSound, RevokeCommit, Working
      <3>2. Lifecycle!Revoke(call[s].target)
        BY <2>6, <3>1 DEF RevokeCommit, FlushStatus, Lifecycle!Revoke
      <3> QED
        BY <3>1, <3>2 DEF Lifecycle!LifecycleNext
    <2>7. CASE UNCHANGED <<rows, clock>>
      BY <2>7 DEF rows, Lifecycle!lifecycleVars
    <2> QED
      BY <2>2, <2>3, <2>4, <2>5, <2>6, <2>7
         DEF Next, BeginCreate, BeginOnInvitation, Begin, Handle, Abort,
             CreateExisting, CreateNone, Load, RejectToken, VerifyValid,
             AcceptEndpoint, AcceptStage, RevokeMissing, RevokeDenied, RevokeAsIs,
             RevokeStage, Refresh
  <1> QED
    BY <1>1, <1>2, IndInvHolds, PTL
       DEF Spec, LifecycleHolds, Lifecycle!LifecycleSpec

-----------------------------------------------------------------------------
(***************************************************************************)
(* How many active invitations one invitee can have.  The bound alone is   *)
(* not inductive: it also has to count the sessions whose duplicate check  *)
(* found nothing and that are about to insert.  A check that finds nothing *)
(* starts the count anew, an insert moves one from the one side to the     *)
(* other, and nothing else adds to either.                                 *)
(***************************************************************************)

Live(e) == {i \in Invitations : Active(i, e, clock)}

Inserting(e) ==
    {s \in Sessions : pc[s] = "create_commit" /\ call[s].invitee = e}

BoundedFor(e) ==
    /\ IsFiniteSet(Live(e))
    /\ Cardinality(Live(e)) + Cardinality(Inserting(e)) <= Cardinality(Sessions)

BoundInv == \A e \in Invitees : BoundedFor(e)

\* Sets of sessions are finite.
LEMMA InsertingFinite ==
    ASSUME NEW e
    PROVE  /\ IsFiniteSet(Inserting(e)) /\ Cardinality(Inserting(e)) \in Nat
           /\ Cardinality(Inserting(e)) <= Cardinality(Sessions)
           /\ Cardinality(Sessions) \in Nat
  <1>1. Inserting(e) \in SUBSET Sessions
    BY DEF Inserting
  <1> QED
    BY <1>1, SessionsFinite, FS_Subset, FS_CardinalityType

\* A step that adds neither an active invitation nor a session about to insert
\* keeps the bound.
LEMMA NothingAdded ==
    ASSUME NEW e, BoundedFor(e),
           Live(e)' \subseteq Live(e), Inserting(e)' \subseteq Inserting(e)
    PROVE  BoundedFor(e)'
  <1>1. /\ IsFiniteSet(Live(e)') /\ Cardinality(Live(e)') <= Cardinality(Live(e))
        /\ Cardinality(Live(e)') \in Nat /\ Cardinality(Live(e)) \in Nat
    BY FS_Subset, FS_CardinalityType DEF BoundedFor
  <1>2. /\ Cardinality(Inserting(e)') <= Cardinality(Inserting(e))
        /\ Cardinality(Inserting(e)') \in Nat
        /\ Cardinality(Inserting(e)) \in Nat /\ Cardinality(Sessions) \in Nat
    BY InsertingFinite, FS_Subset, FS_CardinalityType
  <1>3. Cardinality(Live(e)) + Cardinality(Inserting(e)) <= Cardinality(Sessions)
    BY DEF BoundedFor
  <1>4. Cardinality(Live(e)') + Cardinality(Inserting(e)')
           <= Cardinality(Sessions)
    BY <1>1, <1>2, <1>3
  <1> QED
    BY <1>1, <1>4 DEF BoundedFor

\* No step but an insert makes an invitation active: rows are only closed, and
\* the time only passes.
LEMMA LiveShrinks ==
    ASSUME TypeOK, [Next]_vars, NEW e,
           ~ \E s \in Sessions : CreateCommit(s)
    PROVE  Live(e)' \subseteq Live(e)
  <1>1. clock \in Nat /\ clock' \in Nat /\ clock <= clock'
    BY ClockForward DEF TypeOK
  <1>2. /\ UNCHANGED <<invitee, expires>>
        /\ \A i \in Invitations : status'[i] = "PENDING" => status[i] = "PENDING"
    <2>1. CASE UNCHANGED rows
      BY <2>1 DEF rows
    <2>2. ASSUME NEW s \in Sessions,
                 ExpireToken(s) \/ AcceptCommit(s) \/ RevokeCommit(s)
          PROVE  <1>2
      <3>1. \E new \in Closed : FlushStatus(s, new) /\ UNCHANGED <<invitee, expires>>
        BY <2>2 DEF ExpireToken, AcceptCommit, RevokeCommit, Closed, Statuses
      <3> QED
        BY <3>1 DEF FlushStatus, TypeOK, Closed, Statuses
    <2>3. CASE UNCHANGED vars
      BY <2>3, <2>1 DEF vars, rows
    <2> QED
      BY <2>1, <2>2, <2>3, WritersOfRows
  <1>3. \A i \in Invitations : expires[i] \in Int
    BY DEF TypeOK
  <1>4. \A i \in Invitations : expires[i] > clock' => expires[i] > clock
    BY <1>1, <1>3
  <1> QED
    BY <1>2, <1>4 DEF Live, Active

\* Only a duplicate check that found nothing sets a session about to insert.
LEMMA InsertingShrinks ==
    ASSUME TypeOK, [Next]_vars, NEW e,
           ~ \E s \in Sessions : CreateNone(s)
    PROVE  Inserting(e)' \subseteq Inserting(e)
  <1>1. CASE UNCHANGED <<pc, call>>
    BY <1>1 DEF Inserting
  <1>2. ASSUME NEW s \in Sessions, pc' = [pc EXCEPT ![s] = pc'[s]],
               pc'[s] # "create_commit", \A t \in Sessions \ {s} : call'[t] = call[t]
        PROVE  Inserting(e)' \subseteq Inserting(e)
    BY <1>2 DEF Inserting, TypeOK
  <1>3. ASSUME NEW s \in Sessions,
               BeginCreate(s) \/ BeginOnInvitation(s) \/ Handle(s) \/ Abort(s)
        PROVE  Inserting(e)' \subseteq Inserting(e)
    <2>1. CASE BeginCreate(s) \/ BeginOnInvitation(s)
      BY <1>2, <2>1 DEF BeginCreate, BeginOnInvitation, Begin, TypeOK
    <2>2. CASE \E a : Finish(s, a)
      BY <1>2, <2>2 DEF Finish, TypeOK
    <2>3. CASE CreateCommit(s)
      BY <1>2, <2>3 DEF CreateCommit, Goto, TypeOK
    <2>4. CASE Load(s) \/ AcceptStage(s) \/ AcceptCommit(s) \/ RevokeStage(s)
                 \/ RevokeCommit(s)
      BY <1>2, <2>4
         DEF Load, AcceptStage, AcceptCommit, RevokeStage, RevokeCommit, Goto,
             TypeOK
    <2> QED
      BY <1>3, <2>1, <2>2, <2>3, <2>4
         DEF Handle, Abort, CreateExisting, RejectToken, ExpireToken,
             VerifyValid, AcceptEndpoint, RevokeMissing, RevokeDenied,
             RevokeAsIs, Refresh
  <1>4. CASE Tick \/ UNCHANGED vars
    BY <1>1, <1>4 DEF Tick, vars
  <1> QED
    BY <1>3, <1>4 DEF Next

\* A duplicate check that finds nothing proves that there is no active
\* invitation for its invitee, although it compares with the time at which the
\* call began; so at most all the sessions are about to insert.
LEMMA CheckStartsAnew ==
    ASSUME IndInv, NEW s \in Sessions, CreateNone(s), NEW e \in Invitees,
           BoundedFor(e), Live(e)' \subseteq Live(e)
    PROVE  BoundedFor(e)'
  <1>1. TypeOK /\ SessionSound(s)
    BY DEF IndInv
  <1>2. call[s].began \in Nat /\ clock \in Nat /\ call[s].began <= clock
    BY <1>1 DEF TypeOK, Calls, SessionSound
  <1>3. CASE call[s].invitee = e
    <2>1. Live(e) = {}
      <3>1. \A i \in Invitations : expires[i] \in Int
        BY <1>1 DEF TypeOK
      <3>2. \A i \in Invitations :
               expires[i] > clock => expires[i] > call[s].began
        BY <1>2, <3>1
      <3> QED
        BY <1>3, <3>2 DEF CreateNone, Active, Live
    <2>2. Live(e)' = {}
      BY <2>1
    <2>3. IsFiniteSet(Live(e)') /\ Cardinality(Live(e)') = 0
      BY <2>2, FS_EmptySet
    <2>4. Inserting(e)' \in SUBSET Sessions
      BY DEF Inserting
    <2>5. /\ Cardinality(Inserting(e)') <= Cardinality(Sessions)
          /\ Cardinality(Inserting(e)') \in Nat /\ Cardinality(Sessions) \in Nat
      BY <2>4, SessionsFinite, FS_Subset, FS_CardinalityType
    <2>6. Cardinality(Live(e)') + Cardinality(Inserting(e)')
             <= Cardinality(Sessions)
      BY <2>3, <2>5
    <2> QED
      BY <2>3, <2>6 DEF BoundedFor
  <1>4. CASE call[s].invitee # e
    <2>1. \A t \in Sessions : t # s => pc'[t] = pc[t] /\ call'[t] = call[t]
      BY <1>1 DEF CreateNone, Finish, Goto, TypeOK
    <2>2. pc'[s] = "create_commit" => call'[s].invitee = call[s].invitee
      BY <1>1 DEF CreateNone, Finish, Goto, TypeOK, Calls
    <2>3. Inserting(e)' \subseteq Inserting(e)
      BY <1>4, <2>1, <2>2 DEF Inserting
    <2> QED
      BY <2>3, NothingAdded
  <1> QED
    BY <1>3, <1>4

\* An insert makes one session less and at most one active invitation more.
LEMMA InsertMoves ==
    ASSUME TypeOK, NEW s \in Sessions, CreateCommit(s), NEW e \in Invitees,
           BoundedFor(e)
    PROVE  BoundedFor(e)'
  <1>1. PICK i \in Invitations :
          /\ status' = [status EXCEPT ![i] = "PENDING"]
          /\ invitee' = [invitee EXCEPT ![i] = call[s].invitee]
          /\ expires' = [expires EXCEPT ![i] = call[s].expires]
          /\ call' = [call EXCEPT ![s].target = i]
    BY DEF CreateCommit
  <1>2. pc' = [pc EXCEPT ![s] = "refresh"] /\ clock' = clock
    BY DEF CreateCommit, Goto
  <1>3. \A j \in Invitations : j # i =>
           /\ status'[j] = status[j] /\ invitee'[j] = invitee[j]
           /\ expires'[j] = expires[j]
    BY <1>1 DEF TypeOK
  <1>4. Inserting(e)' = Inserting(e) \ {s}
    <2>1. \A t \in Sessions : t # s => pc'[t] = pc[t] /\ call'[t] = call[t]
      BY <1>1, <1>2 DEF TypeOK
    <2>2. pc'[s] # "create_commit"
      BY <1>2 DEF TypeOK
    <2> QED
      BY <2>1, <2>2 DEF Inserting
  <1>5. CASE call[s].invitee = e
    <2>1. s \in Inserting(e)
      BY <1>5 DEF CreateCommit, Inserting
    <2>2. Live(e)' \subseteq Live(e) \cup {i}
      BY <1>2, <1>3 DEF Live, Active
    <2>3. /\ IsFiniteSet(Live(e) \cup {i}) /\ Cardinality(Live(e)) \in Nat
          /\ Cardinality(Live(e) \cup {i}) <= Cardinality(Live(e)) + 1
      <3>1. IsFiniteSet(Live(e)) /\ Cardinality(Live(e)) \in Nat
        BY FS_CardinalityType DEF BoundedFor
      <3>2. /\ IsFiniteSet(Live(e) \cup {i})
            /\ Cardinality(Live(e) \cup {i}) =
                  IF i \in Live(e) THEN Cardinality(Live(e))
                  ELSE Cardinality(Live(e)) + 1
        BY <3>1, FS_AddElement
      <3> QED
        BY <3>1, <3>2
    <2>4. /\ IsFiniteSet(Live(e)') /\ Cardinality(Live(e)') \in Nat
          /\ Cardinality(Live(e)') <= Cardinality(Live(e) \cup {i})
          /\ Cardinality(Live(e) \cup {i}) \in Nat
      BY <2>2, <2>3, FS_Subset, FS_CardinalityType
    <2>5. /\ Cardinality(Inserting(e)') = Cardinality(Inserting(e)) - 1
          /\ Cardinality(Inserting(e)) \in Nat /\ Cardinality(Sessions) \in Nat
      BY <1>4, <2>1, InsertingFinite, FS_RemoveElement
    <2>6. Cardinality(Live(e)') + Cardinality(Inserting(e)')
             <= Cardinality(Sessions)
      BY <2>3, <2>4, <2>5 DEF BoundedFor
    <2> QED
      BY <2>4, <2>6 DEF BoundedFor
  <1>6. CASE call[s].invitee # e
    <2>1. invitee'[i] # e
      BY <1>1, <1>6 DEF TypeOK
    <2>2. Live(e)' \subseteq Live(e)
      BY <1>2, <1>3, <2>1 DEF Live, Active
    <2> QED
      BY <1>4, <2>2, NothingAdded
  <1> QED
    BY <1>5, <1>6

\* Every step keeps the count of every invitee.
LEMMA NextBound == IndInv /\ BoundInv /\ [Next]_vars => BoundInv'
  <1> SUFFICES ASSUME IndInv, BoundInv, [Next]_vars, NEW e \in Invitees
               PROVE  BoundedFor(e)'
    BY DEF BoundInv
  <1>1. TypeOK /\ BoundedFor(e)
    BY DEF IndInv, BoundInv
  <1>2. ASSUME NEW s \in Sessions, CreateCommit(s)
        PROVE  BoundedFor(e)'
    BY <1>1, <1>2, InsertMoves
  <1>3. ASSUME NEW s \in Sessions, CreateNone(s),
               ~ \E t \in Sessions : CreateCommit(t)
        PROVE  BoundedFor(e)'
    BY <1>1, <1>3, LiveShrinks, CheckStartsAnew
  <1>4. CASE ~ \E s \in Sessions : CreateCommit(s) \/ CreateNone(s)
    BY <1>1, <1>4, LiveShrinks, InsertingShrinks, NothingAdded
  <1> QED
    BY <1>2, <1>3, <1>4

\* The count holds initially: there are no rows and no session inserts.
LEMMA InitBound == Init => BoundInv
  <1> SUFFICES ASSUME Init, NEW e \in Invitees
               PROVE  BoundedFor(e)
    BY DEF BoundInv
  <1>1. Live(e) = {} /\ Inserting(e) = {}
    BY DEF Init, Live, Inserting, Active
  <1>2. Cardinality(Sessions) \in Nat
    BY SessionsFinite, FS_CardinalityType
  <1> QED
    BY <1>1, <1>2, FS_EmptySet DEF BoundedFor

\* However the duplicate checks and the inserts of create_invitation overlap,
\* an invitee never has more active invitations than there are sessions at a
\* time; in particular one session alone never creates a second one.
THEOREM ActiveBoundedByConcurrencyHolds == Spec => []ActiveBoundedByConcurrency
  <1>1. BoundInv => ActiveBoundedByConcurrency
    <2> SUFFICES ASSUME BoundInv, NEW e \in Invitees
                 PROVE  Cardinality(Live(e)) <= Cardinality(Sessions)
      BY DEF ActiveBoundedByConcurrency, Live
    <2>1. BoundedFor(e)
      BY DEF BoundInv
    <2>2. Cardinality(Live(e)) \in Nat
      BY <2>1, FS_CardinalityType DEF BoundedFor
    <2> QED
      BY <2>1, <2>2, InsertingFinite DEF BoundedFor
  <1>2. Spec => []BoundInv
    BY InitBound, NextBound, IndInvHolds, PTL DEF Spec
  <1> QED
    BY <1>1, <1>2, PTL
=============================================================================
