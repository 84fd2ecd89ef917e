----------------------- MODULE RoleAssignmentsProofs -----------------------
(***************************************************************************)
(* Proofs about RoleAssignments, for every set of sessions, tenants, roles,*)
(* users and lists, and every number of requests.                          *)
(***************************************************************************)
EXTENDS RoleAssignments, TLAPS

-----------------------------------------------------------------------------
(* Type correctness *)

Setting == {"set_select", "set_scan", "set_delete", "set_insert", "set_commit"}
Deleting == {"delete_select", "delete_check", "delete_commit"}
Writing == {"set_insert", "set_commit"}

\* TypeOK is not inductive: an INSERT writes the role and the tenant of its
\* call, and a new call starts with none of its list taken.
CallKnown(s) ==
    /\ pc[s] \in Setting \cup Deleting =>
          call[s].role \in Roles /\ call[s].tenant \in Tenants
    /\ pc[s] \notin Writing => taken[s] = 0

TypeInv == TypeOK /\ \A s \in Sessions : CallKnown(s)

\* The placeholder call has the type of a call.
LEMMA NoCallType == NoCall \in Calls /\ NoCall.list = <<>> /\ Len(NoCall.list) = 0
  BY DEF NoCall, Calls

\* Receiving a well-typed request keeps the types.
LEMMA BeginType ==
    ASSUME TypeInv, NEW s \in Sessions, NEW c \in Calls, NEW p \in Points,
           Begin(s, c, p), p \notin Writing,
           p \in Setting \cup Deleting => c.role \in Roles /\ c.tenant \in Tenants
    PROVE  TypeInv'
  <1>1. taken[s] = 0
    BY DEF TypeInv, CallKnown, Begin, Writing
  <1>2. c.list \in Seq(Users) /\ taken[s] <= Len(c.list)
    BY <1>1 DEF Calls
  <1> QED
    BY <1>1, <1>2, RoleAssignmentsAssumption
       DEF TypeInv, TypeOK, CallKnown, Begin, Goto, txn

\* Ending a transaction, by commit or rollback, keeps the types.
LEMMA EndWithType ==
    ASSUME TypeInv, NEW s \in Sessions,
           NEW gone \in SUBSET Rows, NEW new \in SUBSET Rows,
           EndWith(s, gone, new),
           owner' \in [Roles -> Tenants \cup {System, Absent}]
    PROVE  TypeInv'
  <1>1. /\ assigned' \subseteq Rows
        /\ pc' \in [Sessions -> Points]
        /\ call' \in [Sessions -> Calls]
        /\ issued' \in 0..MaxCalls
    BY NoCallType DEF TypeInv, TypeOK, EndWith, Goto, Points
  <1>2. /\ want' \in [Sessions -> SUBSET Rows]
        /\ del' \in [Sessions -> SUBSET Rows]
        /\ ins' \in [Sessions -> SUBSET Rows]
        /\ taken' \in [Sessions -> Nat]
    BY DEF TypeInv, TypeOK, EndWith
  <1>3. late' \in [Sessions -> SUBSET Rows]
    BY DEF TypeInv, TypeOK, EndWith
  <1>4. \A t \in Sessions : taken'[t] <= Len(call'[t].list)
    BY NoCallType DEF TypeInv, TypeOK, EndWith
  <1>5. \A t \in Sessions : CallKnown(t)'
    BY DEF TypeInv, TypeOK, CallKnown, EndWith, Goto, Setting, Deleting,
           Writing
  <1> QED
    BY <1>1, <1>2, <1>3, <1>4, <1>5 DEF TypeInv, TypeOK

\* Closing the session of a request keeps the types.
LEMMA RollbackType ==
    ASSUME TypeInv, NEW s \in Sessions, Rollback(s)
    PROVE  TypeInv'
  BY EndWithType DEF Rollback, TypeInv, TypeOK

\* A step of one session that writes nothing and goes to a point that its call
\* allows keeps the types.
LEMMA GotoType ==
    ASSUME TypeInv, NEW s \in Sessions, NEW p \in Points, Goto(s, p),
           UNCHANGED <<owner, assigned, call, txn, late, issued>>,
           p \in Setting \cup Deleting => pc[s] \in Setting \cup Deleting,
           p \notin Writing => pc[s] \notin Writing
    PROVE  TypeInv'
  BY DEF TypeInv, TypeOK, CallKnown, Goto, txn

\* The two halves of a DELETE keep the types.
LEMMA DeleteType ==
    ASSUME TypeInv, NEW s \in Sessions, NEW p \in Points, NEW r \in SUBSET Rows,
           Scan(s, r, p) \/ DeleteWanted(s, p),
           p \in Setting \cup Deleting => pc[s] \in Setting \cup Deleting,
           pc[s] \notin Writing
    PROVE  TypeInv'
  BY DEF TypeInv, TypeOK, CallKnown, Goto, Scan, DeleteWanted

\* The initial state is well typed.
LEMMA InitType == Init => TypeInv
  BY NoCallType, RoleAssignmentsAssumption
     DEF Init, TypeInv, TypeOK, CallKnown, Points, Setting, Deleting

\* Every step keeps the types.
LEMMA NextType == TypeInv /\ [Next]_vars => TypeInv'
  <1> SUFFICES ASSUME TypeInv, [Next]_vars
               PROVE  TypeInv'
    OBVIOUS
  <1> USE DEF Setting, Deleting, Writing, Points
  <1>1. ASSUME NEW s \in Sessions, BeginSet(s)
        PROVE  TypeInv'
    <2>1. PICK r \in Roles, t \in Tenants, l \in Lists :
             Begin(s, [NoCall EXCEPT !.role = r, !.tenant = t, !.list = l],
                   "set_select")
      BY <1>1 DEF BeginSet
    <2>2. [NoCall EXCEPT !.role = r, !.tenant = t, !.list = l] \in Calls
      BY RoleAssignmentsAssumption DEF NoCall, Calls
    <2> QED
      BY <2>1, <2>2, BeginType DEF NoCall
  <1>2. ASSUME NEW s \in Sessions, BeginDelete(s)
        PROVE  TypeInv'
    <2>1. PICK r \in Roles, t \in Tenants :
             Begin(s, [NoCall EXCEPT !.role = r, !.tenant = t], "delete_select")
      BY <1>2 DEF BeginDelete
    <2>2. [NoCall EXCEPT !.role = r, !.tenant = t] \in Calls
      BY NoCallType DEF NoCall, Calls
    <2> QED
      BY <2>1, <2>2, BeginType DEF NoCall
  <1>3. ASSUME NEW s \in Sessions, BeginRemove(s)
        PROVE  TypeInv'
    <2>1. PICK u \in Users, t \in Tenants :
             Begin(s, [NoCall EXCEPT !.user = u, !.tenant = t], "remove_select")
      BY <1>3 DEF BeginRemove
    <2>2. [NoCall EXCEPT !.user = u, !.tenant = t] \in Calls
      BY NoCallType DEF NoCall, Calls
    <2> QED
      BY <2>1, <2>2, BeginType
  <1>4. ASSUME NEW s \in Sessions, BeginRemoveRole(s)
        PROVE  TypeInv'
    <2>1. PICK u \in Users, t \in Tenants, r \in Roles :
             Begin(s, [NoCall EXCEPT !.user = u, !.tenant = t, !.role = r],
                   "remove_scan")
      BY <1>4 DEF BeginRemoveRole
    <2>2. [NoCall EXCEPT !.user = u, !.tenant = t, !.role = r] \in Calls
      BY NoCallType DEF NoCall, Calls
    <2> QED
      BY <2>1, <2>2, BeginType
  <1>5. ASSUME NEW s \in Sessions, Handle(s)
        PROVE  TypeInv'
    <2>1. CASE SetSelect(s)
      BY <2>1, RollbackType, GotoType DEF SetSelect
    <2>2. CASE SetScan(s)
      <3>1. RowsOf(call[s].role, call[s].tenant) \in SUBSET Rows
        BY DEF RowsOf, TypeInv, TypeOK
      <3> QED
        BY <2>2, <3>1, DeleteType DEF SetScan
    <2>3. CASE SetDelete(s)
      BY <2>3, DeleteType DEF SetDelete
    <2>4. CASE SetInsert(s)
      <3>1. /\ call[s] \in Calls /\ taken[s] \in Nat
            /\ call[s].role \in Roles /\ call[s].tenant \in Tenants
        BY <2>4 DEF SetInsert, TypeInv, TypeOK, CallKnown
      <3>2. call[s].list \in Seq(Users) /\ taken[s] + 1 \in 1..Len(call[s].list)
        BY <2>4, <3>1 DEF SetInsert, Calls
      <3>3. ListRow(s, taken[s] + 1) \in Rows
        BY <3>1, <3>2 DEF ListRow, Row, Rows
      <3>4. ins' \in [Sessions -> SUBSET Rows]
        BY <2>4, <3>3 DEF SetInsert, TypeInv, TypeOK
      <3> QED
        BY <2>4, <3>1, <3>2, <3>4 DEF SetInsert, TypeInv, TypeOK, CallKnown
    <2>5. CASE SetCheck(s)
      BY <2>5, RollbackType, GotoType DEF SetCheck
    <2>6. CASE SetCommit(s)
      <3>1. del[s] \in SUBSET Rows /\ ins[s] \in SUBSET Rows
        BY DEF TypeInv, TypeOK
      <3> QED
        BY <2>6, <3>1, EndWithType DEF SetCommit, TypeInv, TypeOK
    <2>7. CASE DeleteSelect(s)
      BY <2>7, RollbackType, GotoType DEF DeleteSelect
    <2>8. CASE DeleteCheck(s)
      BY <2>8, RollbackType, GotoType DEF DeleteCheck
    <2>9. CASE DeleteCommit(s)
      <3>1. {x \in assigned : x.role = call[s].role} \in SUBSET Rows
        BY DEF TypeInv, TypeOK
      <3>2. owner' \in [Roles -> Tenants \cup {System, Absent}]
        BY <2>9 DEF DeleteCommit, TypeInv, TypeOK
      <3> QED
        BY <2>9, <3>1, <3>2, EndWithType DEF DeleteCommit
    <2>10. CASE RemoveSelect(s)
      BY <2>10, RollbackType, GotoType DEF RemoveSelect
    <2>11. CASE RemoveScan(s)
      <3>1. Memberships(call[s]) \in SUBSET Rows
        BY DEF Memberships, TypeInv, TypeOK
      <3> QED
        BY <2>11, <3>1, DeleteType DEF RemoveScan
    <2>12. CASE RemoveDelete(s)
      BY <2>12, DeleteType DEF RemoveDelete
    <2>13. CASE RemoveClose(s)
      BY <2>13, RollbackType DEF RemoveClose
    <2> QED
      BY <1>5, <2>1, <2>2, <2>3, <2>4, <2>5, <2>6, <2>7, <2>8, <2>9, <2>10,
         <2>11, <2>12, <2>13 DEF Handle
  <1>6. ASSUME NEW s \in Sessions, Abort(s)
        PROVE  TypeInv'
    BY <1>6, RollbackType DEF Abort
  <1>7. CASE UNCHANGED vars
    BY <1>7 DEF vars, TypeInv, TypeOK, CallKnown
  <1> QED
    BY <1>1, <1>2, <1>3, <1>4, <1>5, <1>6, <1>7 DEF Next

\* Every reachable state is well typed: rows of iam.user_tenant_roles name a
\* user, a role and a tenant, in the right columns, and no INSERT runs past the
\* end of its list.
THEOREM TypeCorrect == Spec => []TypeOK
  <1>1. TypeInv => TypeOK
    BY DEF TypeInv
  <1> QED
    BY <1>1, InitType, NextType, PTL DEF Spec

-----------------------------------------------------------------------------
(***************************************************************************)
(* The inductive invariant.  AssignmentsAccessible is checked when a call  *)
(* begins and used when it commits, so SessionSound carries through the    *)
(* statements in between what the session may still rely on: its role has  *)
(* not changed hands (b), its rows are rows of its list (c) whose keys     *)
(* stay valid once checked (d), and every row of its role and tenant that  *)
(* is not its own doing was committed by somebody else since (e, f).       *)
(***************************************************************************)

SessionSound(s) ==
    LET c == call[s] IN
    /\ pc[s] \in Setting \ {"set_select"} => owner[c.role] \in {System, c.tenant, Absent}
    /\ pc[s] \in {"delete_check", "delete_commit"} => owner[c.role] \in {c.tenant, Absent}
    /\ \A x \in ins[s] :
          /\ x.role = c.role /\ x.tenant = c.tenant
          /\ \E k \in 1..Len(c.list) : x = ListRow(s, k)
    /\ pc[s] \notin Writing => ins[s] = {}
    /\ pc[s] = "set_commit" => KeysExist(s) /\ taken[s] = Len(c.list)
    /\ pc[s] = "set_delete" => RowsOf(c.role, c.tenant) \ want[s] \subseteq late[s]
    /\ pc[s] \in Writing => RowsOf(c.role, c.tenant) \ del[s] \subseteq late[s]
    /\ \A k \in 1..taken[s] : ListRow(s, k) \in ins[s] \cup late[s]
    /\ pc[s] = "delete_commit" =>
          {x \in assigned : x.role = c.role} \subseteq late[s]

IndInv ==
    /\ TypeInv
    /\ AssignmentsAccessible
    /\ \A s \in Sessions : SessionSound(s)

\* The invariant holds before the first request.
LEMMA InitIndInv == Init => IndInv
  <1> SUFFICES ASSUME Init
               PROVE  IndInv
    OBVIOUS
  <1>1. TypeInv /\ AssignmentsAccessible
    BY InitType DEF Init, AssignmentsAccessible
  <1>2. ASSUME NEW s \in Sessions
        PROVE  SessionSound(s)
    BY DEF Init, SessionSound, Setting, Deleting, Writing
  <1> QED
    BY <1>1, <1>2 DEF IndInv

\* What a session relies on survives the end of another transaction: the rows
\* that appear or go are late for it, and a role that was deleted is Absent.
LEMMA EndForOthers ==
    ASSUME IndInv, NEW s \in Sessions, NEW gone, NEW new, EndWith(s, gone, new),
           owner' = owner
              \/ \E r \in Roles :
                    /\ owner' = [owner EXCEPT ![r] = Absent]
                    /\ \A a \in Sessions \ {s} :
                          pc[a] = "set_commit" => \A x \in ins[a] : x.role # r,
           NEW t \in Sessions, t # s
    PROVE  SessionSound(t)'
  <1>1. TypeOK /\ SessionSound(t) /\ CallKnown(t)
    BY DEF IndInv, TypeInv
  <1>2. /\ pc'[t] = pc[t] /\ call'[t] = call[t] /\ ins'[t] = ins[t]
        /\ del'[t] = del[t] /\ taken'[t] = taken[t] /\ want'[t] = want[t] \ gone
        /\ late[t] \subseteq late'[t]
        /\ pc[t] \in Snapshotted => late'[t] = late[t] \cup gone \cup new
        /\ assigned' = (assigned \ gone) \cup new
    BY <1>1 DEF EndWith, Goto, TypeOK
  <1>3. ASSUME NEW k
        PROVE  ListRow(t, k)' = ListRow(t, k)
    BY <1>2 DEF ListRow
  <1>4. /\ pc[t] \in Setting \ {"set_select"} =>
              owner'[call[t].role] \in {System, call[t].tenant, Absent}
        /\ pc[t] \in {"delete_check", "delete_commit"} =>
              owner'[call[t].role] \in {call[t].tenant, Absent}
    BY <1>1 DEF SessionSound, CallKnown, TypeOK, Setting, Deleting
  <1>5. pc[t] = "set_commit" => KeysExist(t)'
    BY <1>1, <1>2 DEF SessionSound, CallKnown, KeysExist, TypeOK, Rows
  <1>6. /\ pc[t] = "set_delete" =>
              RowsOf(call[t].role, call[t].tenant)' \ want'[t] \subseteq late'[t]
        /\ pc[t] \in Writing =>
              RowsOf(call[t].role, call[t].tenant)' \ del'[t] \subseteq late'[t]
        /\ pc[t] = "delete_commit" =>
              {x \in assigned' : x.role = call[t].role} \subseteq late'[t]
    BY <1>1, <1>2 DEF SessionSound, RowsOf, Snapshotted, Writing
  <1> QED
    BY <1>1, <1>2, <1>3, <1>4, <1>5, <1>6 DEF SessionSound

\* At the points where a session has no check behind it and nothing written,
\* there is nothing to keep.
Quiet == {"idle", "set_select", "delete_select", "remove_select", "remove_scan",
          "remove_delete", "remove_close"}

\* A session at such a point relies on nothing.
LEMMA QuietSound ==
    ASSUME NEW s \in Sessions, pc'[s] \in Quiet, ins'[s] = {}, taken'[s] = 0
    PROVE  SessionSound(s)'
  <1>1. /\ pc'[s] \notin Setting \ {"set_select"}
        /\ pc'[s] \notin {"delete_check", "delete_commit", "set_commit", "set_delete"}
        /\ pc'[s] \notin Writing
    BY DEF Quiet, Setting, Writing
  <1> QED
    BY <1>1 DEF SessionSound

\* A session that has just ended relies on nothing.
LEMMA EndForSelf ==
    ASSUME TypeOK, NEW s \in Sessions, NEW gone, NEW new, EndWith(s, gone, new)
    PROVE  SessionSound(s)'
  <1>1. pc'[s] = "idle" /\ ins'[s] = {} /\ taken'[s] = 0
    BY DEF EndWith, Goto, TypeOK
  <1> QED
    BY <1>1, QuietSound DEF Quiet

\* A rollback keeps the invariant.
LEMMA RollbackInv ==
    ASSUME IndInv, NEW s \in Sessions, Rollback(s)
    PROVE  IndInv'
  <1>1. TypeInv'
    BY RollbackType DEF IndInv
  <1>2. AssignmentsAccessible'
    BY DEF IndInv, AssignmentsAccessible, Accessible, Rollback, EndWith
  <1>3. \A t \in Sessions : SessionSound(t)'
    BY EndForOthers, EndForSelf DEF IndInv, TypeInv, Rollback
  <1> QED
    BY <1>1, <1>2, <1>3 DEF IndInv

\* A step that touches neither the tables nor the state of other sessions keeps
\* the invariant if its own session stays sound.
LEMMA OwnStepInv ==
    ASSUME IndInv, TypeInv', NEW s \in Sessions, UNCHANGED <<owner, assigned>>,
           \A t \in Sessions \ {s} :
              /\ pc'[t] = pc[t] /\ call'[t] = call[t] /\ want'[t] = want[t]
              /\ del'[t] = del[t] /\ ins'[t] = ins[t] /\ taken'[t] = taken[t]
              /\ late'[t] = late[t],
           SessionSound(s)'
    PROVE  IndInv'
  <1>1. AssignmentsAccessible'
    BY DEF IndInv, AssignmentsAccessible, Accessible
  <1>2. ASSUME NEW t \in Sessions, t # s
        PROVE  SessionSound(t)'
    <2>1. SessionSound(t)
      BY DEF IndInv
    <2> QED
      BY <1>2, <2>1 DEF SessionSound, ListRow, KeysExist, RowsOf
  <1> QED
    BY <1>1, <1>2 DEF IndInv

\* Every step of every session keeps the invariant.
LEMMA NextIndInv == IndInv /\ [Next]_vars => IndInv'
  <1> SUFFICES ASSUME IndInv, [Next]_vars
               PROVE  IndInv'
    OBVIOUS
  <1>1. TypeOK /\ TypeInv' /\ AssignmentsAccessible
    BY NextType DEF IndInv, TypeInv
  <1>2. \A s \in Sessions : SessionSound(s) /\ CallKnown(s)
    BY DEF IndInv, TypeInv
  <1> USE DEF Setting, Deleting, Writing
  <1>3. ASSUME NEW s \in Sessions,
               BeginSet(s) \/ BeginDelete(s) \/ BeginRemove(s) \/ BeginRemoveRole(s)
        PROVE  IndInv'
    <2>1. PICK p \in {"set_select", "delete_select", "remove_select",
                      "remove_scan"} : \E c : Begin(s, c, p)
      BY <1>3 DEF BeginSet, BeginDelete, BeginRemove, BeginRemoveRole
    <2>2. pc'[s] = p /\ ins'[s] = {} /\ taken'[s] = 0
      BY <1>1, <1>2, <2>1 DEF Begin, Goto, txn, TypeOK, SessionSound, CallKnown
    <2>3. SessionSound(s)'
      BY <2>2, QuietSound DEF Quiet
    <2> QED
      BY <1>1, <2>1, <2>3, OwnStepInv DEF Begin, Goto, txn, TypeOK
  <1>4. ASSUME NEW s \in Sessions, SetSelect(s)
        PROVE  IndInv'
    <2>1. CASE Rollback(s)
      BY <2>1, RollbackInv
    <2>2. CASE /\ Accessible(call[s].role, call[s].tenant)
               /\ Goto(s, "set_scan")
               /\ UNCHANGED <<owner, assigned, call, txn, late, issued>>
      <3>1. pc[s] = "set_select" /\ pc'[s] = "set_scan"
        BY <1>1, <1>4, <2>2 DEF SetSelect, Goto, TypeOK
      <3>2. ins'[s] = {} /\ taken'[s] = 0
        BY <1>2, <2>2, <3>1 DEF txn, SessionSound, CallKnown
      <3>3. call'[s] = call[s] /\ owner' = owner /\ assigned' = assigned
        BY <2>2
      <3>4. SessionSound(s)'
        BY <2>2, <3>1, <3>2, <3>3 DEF SessionSound, Accessible
      <3> QED
        BY <1>1, <2>2, <3>4, OwnStepInv DEF Goto, txn, TypeOK
    <2> QED
      BY <1>4, <2>1, <2>2 DEF SetSelect
  <1>5. ASSUME NEW s \in Sessions, SetScan(s)
        PROVE  IndInv'
    <2>1. /\ pc[s] = "set_scan" /\ pc'[s] = "set_delete"
          /\ ins'[s] = {} /\ taken'[s] = 0
          /\ want'[s] = RowsOf(call[s].role, call[s].tenant)
          /\ UNCHANGED <<owner, assigned, call>>
      BY <1>1, <1>2, <1>5 DEF SetScan, Scan, Goto, TypeOK, SessionSound, CallKnown
    <2>2. SessionSound(s)'
      BY <1>2, <2>1 DEF RowsOf, SessionSound
    <2> QED
      BY <1>1, <1>5, <2>2, OwnStepInv DEF SetScan, Scan, Goto, TypeOK
  <1>6. ASSUME NEW s \in Sessions, SetDelete(s)
        PROVE  IndInv'
    <2>1. call[s].list = <<>> => Len(call[s].list) = 0
      OBVIOUS
    <2>2. /\ pc[s] = "set_delete" /\ pc'[s] \in Writing
          /\ pc'[s] = "set_commit" => call[s].list = <<>>
          /\ del'[s] = want[s]
          /\ UNCHANGED <<owner, assigned, call, ins, taken, late>>
      BY <1>1, <1>6 DEF SetDelete, DeleteWanted, Goto, TypeOK
    <2>3. ins[s] = {} /\ taken[s] = 0
      BY <1>2, <2>2 DEF SessionSound, CallKnown
    <2>4. RowsOf(call[s].role, call[s].tenant)' \ del'[s] \subseteq late'[s]
      BY <1>2, <2>2 DEF SessionSound, RowsOf
    <2>5. KeysExist(s)'
      BY <2>2, <2>3 DEF KeysExist
    <2>6. Accessible(call[s].role, call[s].tenant)'
            \/ owner'[call'[s].role] = Absent
      BY <1>2, <2>2 DEF SessionSound, Accessible
    <2>7. SessionSound(s)'
      BY <2>1, <2>2, <2>3, <2>4, <2>5, <2>6 DEF SessionSound, Accessible
    <2> QED
      BY <1>1, <1>6, <2>7, OwnStepInv DEF SetDelete, DeleteWanted, Goto, TypeOK
  <1>7. ASSUME NEW s \in Sessions, SetInsert(s)
        PROVE  IndInv'
    <2> DEFINE x == ListRow(s, taken[s] + 1)
    <2>1. /\ taken[s] \in Nat /\ taken'[s] = taken[s] + 1
          /\ call[s].list \in Seq(Users)
          /\ taken[s] + 1 \in 1..Len(call[s].list)
          /\ pc[s] = "set_insert"
          /\ UNCHANGED <<owner, assigned, pc, call, want, del, late>>
      BY <1>1, <1>7 DEF SetInsert, TypeOK, Calls
    <2>2. x.role = call[s].role /\ x.tenant = call[s].tenant
      BY DEF ListRow, Row
    <2>3. \A k : ListRow(s, k)' = ListRow(s, k)
      BY <2>1 DEF ListRow
    <2>4. \/ ins'[s] = ins[s] /\ x \in assigned \ del[s]
          \/ ins'[s] = ins[s] \cup {x}
      BY <1>1, <1>7 DEF SetInsert, TypeOK
    <2>5. x \in ins'[s] \cup late[s]
      BY <1>2, <2>1, <2>2, <2>4 DEF SessionSound, RowsOf
    <2>6. \A k \in 1..taken'[s] : ListRow(s, k) \in ins'[s] \cup late[s]
      <3>1. \A k \in 1..taken'[s] : k \in 1..taken[s] \/ k = taken[s] + 1
        BY <2>1
      <3> QED
        BY <1>2, <2>4, <2>5, <3>1 DEF SessionSound
    <2>7. \A y \in ins'[s] :
             /\ y.role = call[s].role /\ y.tenant = call[s].tenant
             /\ \E k \in 1..Len(call[s].list) : y = ListRow(s, k)
      BY <1>2, <2>1, <2>2, <2>4 DEF SessionSound
    <2>8. SessionSound(s)'
      BY <1>2, <2>1, <2>3, <2>6, <2>7 DEF SessionSound, RowsOf
    <2> QED
      BY <1>1, <1>7, <2>8, OwnStepInv DEF SetInsert, TypeOK
  <1>8. ASSUME NEW s \in Sessions, SetCheck(s)
        PROVE  IndInv'
    <2>1. CASE Rollback(s)
      BY <2>1, RollbackInv
    <2>2. CASE /\ KeysExist(s)
               /\ Goto(s, "set_commit")
               /\ UNCHANGED <<owner, assigned, call, txn, late, issued>>
      <3>1. /\ pc[s] = "set_insert" /\ pc'[s] = "set_commit"
            /\ taken[s] = Len(call[s].list)
            /\ UNCHANGED <<owner, assigned, call, del, ins, taken, late>>
        BY <1>1, <1>8, <2>2 DEF SetCheck, Goto, txn, TypeOK
      <3>2. KeysExist(s)'
        BY <2>2, <3>1 DEF KeysExist
      <3>3. /\ RowsOf(call[s].role, call[s].tenant)' = RowsOf(call[s].role, call[s].tenant)
            /\ \A k : ListRow(s, k)' = ListRow(s, k)
        BY <3>1 DEF RowsOf, ListRow
      <3>4. SessionSound(s)'
        BY <1>2, <3>1, <3>2, <3>3 DEF SessionSound
      <3> QED
        BY <1>1, <2>2, <3>4, OwnStepInv DEF Goto, txn, TypeOK
    <2> QED
      BY <1>8, <2>1, <2>2 DEF SetCheck
  <1>9. ASSUME NEW s \in Sessions, SetCommit(s)
        PROVE  IndInv'
    <2>1. \A t \in Sessions : SessionSound(t)'
      BY <1>1, <1>9, EndForOthers, EndForSelf DEF SetCommit
    <2>2. \A x \in ins[s] : x.user \in KnownUsers /\ Accessible(x.role, x.tenant)
      BY <1>2, <1>9 DEF SetCommit, SessionSound, KeysExist, Accessible
    <2>3. AssignmentsAccessible'
      BY <1>1, <1>9, <2>2 DEF SetCommit, EndWith, AssignmentsAccessible, Accessible
    <2> QED
      BY <1>1, <2>1, <2>3 DEF IndInv
  <1>10. ASSUME NEW s \in Sessions, DeleteSelect(s)
         PROVE  IndInv'
    <2>1. CASE Rollback(s)
      BY <2>1, RollbackInv
    <2>2. CASE /\ owner[call[s].role] = call[s].tenant
               /\ Goto(s, "delete_check")
               /\ UNCHANGED <<owner, assigned, call, txn, late, issued>>
      <3>1. pc'[s] = "delete_check" /\ ins'[s] = {} /\ taken'[s] = 0
        BY <1>1, <1>2, <1>10, <2>2
           DEF DeleteSelect, Goto, txn, TypeOK, SessionSound, CallKnown
      <3>2. owner'[call'[s].role] = call'[s].tenant
        BY <2>2
      <3>3. SessionSound(s)'
        BY <3>1, <3>2 DEF SessionSound
      <3> QED
        BY <1>1, <2>2, <3>3, OwnStepInv DEF Goto, txn, TypeOK
    <2> QED
      BY <1>10, <2>1, <2>2 DEF DeleteSelect
  <1>11. ASSUME NEW s \in Sessions, DeleteCheck(s)
         PROVE  IndInv'
    <2>1. CASE Rollback(s)
      BY <2>1, RollbackInv
    <2>2. CASE /\ RowsOf(call[s].role, call[s].tenant) = {}
               /\ Goto(s, "delete_commit")
               /\ UNCHANGED <<owner, assigned, call, txn, late, issued>>
      \* A role of the tenant can be assigned in that tenant only.
      <3>1. {x \in assigned : x.role = call[s].role} = {}
        <4>1. /\ call[s].tenant \in Tenants
              /\ owner[call[s].role] \in {call[s].tenant, Absent}
          BY <1>2, <1>11 DEF DeleteCheck, SessionSound, CallKnown
        <4>2. ASSUME NEW x \in assigned, x.role = call[s].role
              PROVE  x.tenant = call[s].tenant
          <5>1. x.tenant \in Tenants
            BY <1>1 DEF TypeOK, Rows
          <5> QED
            BY <1>1, <4>1, <4>2, <5>1, RoleAssignmentsAssumption
               DEF AssignmentsAccessible, Accessible
        <4> QED
          BY <2>2, <4>2 DEF RowsOf
      <3>2. /\ pc[s] = "delete_check" /\ pc'[s] = "delete_commit"
            /\ UNCHANGED <<owner, assigned, call, ins, taken>>
        BY <1>1, <1>11, <2>2 DEF DeleteCheck, Goto, txn, TypeOK
      <3>3. /\ ins'[s] = {} /\ taken'[s] = 0
            /\ owner'[call'[s].role] \in {call'[s].tenant, Absent}
        BY <1>2, <3>2 DEF SessionSound, CallKnown
      <3>4. {x \in assigned' : x.role = call'[s].role} = {}
        BY <3>1, <3>2
      <3>5. SessionSound(s)'
        BY <3>2, <3>3, <3>4 DEF SessionSound
      <3> QED
        BY <1>1, <2>2, <3>5, OwnStepInv DEF Goto, txn, TypeOK
    <2> QED
      BY <1>11, <2>1, <2>2 DEF DeleteCheck
  <1>12. ASSUME NEW s \in Sessions, DeleteCommit(s)
         PROVE  IndInv'
    <2>1. call[s].role \in Roles
      BY <1>2, <1>12 DEF DeleteCommit, CallKnown
    <2>2. \A t \in Sessions \ {s} :
             pc[t] = "set_commit" => \A x \in ins[t] : x.role # call[s].role
      BY <1>12 DEF DeleteCommit
    <2>3. \A t \in Sessions : SessionSound(t)'
      BY <1>1, <1>12, <2>1, <2>2, EndForOthers, EndForSelf DEF DeleteCommit
    <2>4. AssignmentsAccessible'
      BY <1>1, <1>12, <2>1
         DEF DeleteCommit, EndWith, AssignmentsAccessible, Accessible, TypeOK, Rows
    <2> QED
      BY <1>1, <2>3, <2>4 DEF IndInv
  <1>13. ASSUME NEW s \in Sessions, RemoveSelect(s)
         PROVE  IndInv'
    <2>1. CASE Rollback(s)
      BY <2>1, RollbackInv
    <2>2. CASE /\ Goto(s, "remove_scan")
               /\ UNCHANGED <<owner, assigned, call, txn, late, issued>>
      <3>1. pc[s] = "remove_select" /\ pc'[s] = "remove_scan"
        BY <1>1, <1>13, <2>2 DEF RemoveSelect, Goto, TypeOK
      <3>2. ins'[s] = {} /\ taken'[s] = 0
        BY <1>2, <2>2, <3>1 DEF txn, SessionSound, CallKnown
      <3>3. SessionSound(s)'
        BY <3>1, <3>2, QuietSound DEF Quiet
      <3> QED
        BY <1>1, <2>2, <3>3, OwnStepInv DEF Goto, txn, TypeOK
    <2> QED
      BY <1>13, <2>1, <2>2 DEF RemoveSelect
  <1>14. ASSUME NEW s \in Sessions, RemoveScan(s) \/ RemoveDelete(s)
         PROVE  IndInv'
    <2>1. /\ pc[s] \in {"remove_scan", "remove_delete"}
          /\ pc'[s] \in {"remove_delete", "remove_close"}
          /\ UNCHANGED <<ins, taken>>
      BY <1>1, <1>14
         DEF RemoveScan, RemoveDelete, Scan, DeleteWanted, Goto, TypeOK
    <2>2. ins[s] = {} /\ taken[s] = 0
      BY <1>2, <2>1 DEF SessionSound, CallKnown
    <2>3. SessionSound(s)'
      BY <2>1, <2>2, QuietSound DEF Quiet
    <2> QED
      BY <1>1, <1>14, <2>3, OwnStepInv
         DEF RemoveScan, RemoveDelete, Scan, DeleteWanted, Goto, TypeOK
  <1>15. ASSUME NEW s \in Sessions, RemoveClose(s) \/ Abort(s)
         PROVE  IndInv'
    BY <1>15, RollbackInv DEF RemoveClose, Abort
  <1>16. CASE UNCHANGED vars
    <2>1. AssignmentsAccessible'
      BY <1>1, <1>16 DEF vars, AssignmentsAccessible, Accessible
    <2>2. ASSUME NEW s \in Sessions
          PROVE  SessionSound(s)'
      BY <1>2, <1>16 DEF vars, SessionSound, ListRow, KeysExist, RowsOf
    <2> QED
      BY <1>1, <2>1, <2>2 DEF IndInv
  <1> QED
    BY <1>3, <1>4, <1>5, <1>6, <1>7, <1>8, <1>9, <1>10, <1>11, <1>12, <1>13,
       <1>14, <1>15, <1>16 DEF Next, Handle

\* The inductive invariant holds in every reachable state.
THEOREM IndInvHolds == Spec => []IndInv
  BY InitIndInv, NextIndInv, PTL DEF Spec

\* Nobody ever holds a role in a tenant where it cannot be used, although the
\* role is looked up in one statement and the rows are written in others.
THEOREM AssignmentsAccessibleHolds == Spec => []AssignmentsAccessible
  <1>1. IndInv => AssignmentsAccessible
    BY DEF IndInv
  <1> QED
    BY <1>1, IndInvHolds, PTL

\* set_users_for_role commits the list of its request, up to rows that an
\* overlapping call committed after its DELETE had chosen what to remove.
THEOREM DeviationsAreLateHolds == Spec => []DeviationsAreLate
  <1>1. IndInv => DeviationsAreLate
    <2> SUFFICES ASSUME IndInv, NEW s \in Sessions, pc[s] = "set_commit"
                 PROVE  LET asked == {ListRow(s, k) : k \in DOMAIN call[s].list}
                            result == (RowsOf(call[s].role, call[s].tenant)
                                         \ del[s]) \cup ins[s]
                        IN  (result \ asked) \cup (asked \ result) \subseteq late[s]
      BY DEF DeviationsAreLate
    <2>1. SessionSound(s) /\ call[s] \in Calls
      BY DEF IndInv, TypeInv, TypeOK
    <2>2. DOMAIN call[s].list = 1..Len(call[s].list)
      BY <2>1 DEF Calls
    <2>3. taken[s] = Len(call[s].list)
      BY <2>1 DEF SessionSound
    <2> QED
      BY <2>1, <2>2, <2>3 DEF SessionSound, Writing
  <1> QED
    BY <1>1, IndInvHolds, PTL

\* The deletion of a role takes away no assignment, in any tenant, that was
\* there when check_role_assigned looked at the role's own tenant.
THEOREM CascadeIsLateHolds == Spec => []CascadeIsLate
  <1>1. IndInv => CascadeIsLate
    BY DEF IndInv, SessionSound, CascadeIsLate
  <1> QED
    BY <1>1, IndInvHolds, PTL
=============================================================================
