-------------------------- MODULE RoleAssignments --------------------------
(***************************************************************************)
(* Who has which role in which tenant: the table iam.user_tenant_roles and *)
(* the calls that write to it (services/iam/role.py, services/iam/user.py  *)
(* and their endpoints).                                                   *)
(*                                                                         *)
(* Each request has a transaction of its own, at READ COMMITTED.  A step   *)
(* is one SQL statement, or what a statement does before and after it      *)
(* waits for a lock: DELETE chooses its rows from a snapshot (scan) and    *)
(* removes them when it holds all their locks (delete); a multi-row INSERT *)
(* takes its rows one after the other and checks the foreign keys at the   *)
(* end.  What a transaction has written is private until it commits; the   *)
(* keys it has written are locked until it ends.                           *)
(***************************************************************************)
EXTENDS Integers, Sequences

CONSTANTS
    Sessions,      \* concurrent requests
    Tenants,
    Roles,         \* ids of roles that requests name
    Users,         \* ids of users that requests name
    KnownUsers,    \* those of them that have a row in iam.users
    Lists,         \* values of user_ids, in the order of the request
    System,        \* owner of a role with is_system_role
    Absent,        \* owner of an id that no role has
    None,          \* no role, user or tenant
    MaxCalls       \* bound on the number of requests

ASSUME RoleAssignmentsAssumption ==
    /\ System # Absent
    /\ {System, Absent} \cap Tenants = {}
    /\ KnownUsers \subseteq Users
    /\ Lists \subseteq Seq(Users)
    /\ MaxCalls \in Nat

VARIABLES
    owner,         \* [Roles -> tenant_id of the role, System or Absent]
    assigned,      \* the committed rows of iam.user_tenant_roles
    pc,            \* the statement a session is at
    call,          \* what the session was asked
    want,          \* rows that its DELETE has chosen and not yet removed
    del,           \* rows that its transaction has deleted
    ins,           \* rows that its transaction has inserted
    taken,         \* how many users of the list its INSERT has taken
    late,          \* rows that others committed since its first snapshot
    issued         \* number of requests so far

txn == <<want, del, ins, taken>>
vars == <<owner, assigned, pc, call, want, del, ins, taken, late, issued>>

Rows == [user : Users, role : Roles, tenant : Tenants]
Row(u, r, t) == [user |-> u, role |-> r, tenant |-> t]

Points == {"idle", "set_select", "set_scan", "set_delete", "set_insert",
           "set_commit", "delete_select", "delete_check", "delete_commit",
           "remove_select", "remove_scan", "remove_delete", "remove_close"}

Calls == [role : Roles \cup {None}, user : Users \cup {None},
          tenant : Tenants \cup {None}, list : Seq(Users)]
NoCall == [role |-> None, user |-> None, tenant |-> None, list |-> <<>>]

\* After these points a session works with the rows it has seen.
Snapshotted == {"set_delete", "set_insert", "set_commit", "delete_commit",
                "remove_delete", "remove_close"}

Init ==
    /\ owner \in [Roles -> Tenants \cup {System, Absent}]
    /\ assigned = {}
    /\ pc = [s \in Sessions |-> "idle"]
    /\ call = [s \in Sessions |-> NoCall]
    /\ want = [s \in Sessions |-> {}]
    /\ del = [s \in Sessions |-> {}]
    /\ ins = [s \in Sessions |-> {}]
    /\ taken = [s \in Sessions |-> 0]
    /\ late = [s \in Sessions |-> {}]
    /\ issued = 0

-----------------------------------------------------------------------------
(* Requests and transactions *)

Goto(s, point) == pc' = [pc EXCEPT ![s] = point]

Begin(s, c, point) ==
    /\ pc[s] = "idle"
    /\ issued < MaxCalls
    /\ issued' = issued + 1
    /\ Goto(s, point)
    /\ call' = [call EXCEPT ![s] = c]
    /\ UNCHANGED <<owner, assigned, txn, late>>

\* The transaction of s ends and its locks are released.  Its deletions gone
\* and insertions new become visible, and whoever waits for a row that is gone
\* gives that row up, even if the same key was inserted again.
EndWith(s, gone, new) ==
    /\ assigned' = (assigned \ gone) \cup new
    /\ Goto(s, "idle")
    /\ call' = [call EXCEPT ![s] = NoCall]
    /\ want' = [t \in Sessions |-> IF t = s THEN {} ELSE want[t] \ gone]
    /\ del' = [del EXCEPT ![s] = {}]
    /\ ins' = [ins EXCEPT ![s] = {}]
    /\ taken' = [taken EXCEPT ![s] = 0]
    /\ late' = [t \in Sessions |->
                   IF t = s THEN {}
                   ELSE IF pc[t] \in Snapshotted THEN late[t] \cup gone \cup new
                   ELSE late[t]]
    /\ UNCHANGED issued

\* Defect: the session is not closed when a request fails, its locks stay.
RollbackKeepsLocks(s) ==
    /\ Goto(s, "idle")
    /\ call' = [call EXCEPT ![s] = NoCall]
    /\ taken' = [taken EXCEPT ![s] = 0]
    /\ UNCHANGED <<owner, assigned, want, del, ins, late, issued>>

\* get_db closes the session, or rolls it back: nothing that was not committed
\* stays.
Rollback(s) == EndWith(s, {}, {}) /\ UNCHANGED owner

\* The request dies: an exception from the database, a deadlock victim, a
\* cancelled task, a crash.
Abort(s) == pc[s] # "idle" /\ Rollback(s)

Held(s) == del[s] \cup ins[s]

Free(s, rows) == \A t \in Sessions \ {s} : Held(t) \cap rows = {}

\* The scan of a DELETE: the rows it will remove, as they are committed now.
Scan(s, rows, point) ==
    /\ want' = [want EXCEPT ![s] = rows]
    /\ Goto(s, point)
    /\ UNCHANGED <<owner, assigned, call, del, ins, taken, late, issued>>

\* The rest of the DELETE, once nobody else holds one of its rows.
DeleteWanted(s, point) ==
    /\ Free(s, want[s])
    /\ del' = [del EXCEPT ![s] = want[s]]
    /\ want' = [want EXCEPT ![s] = {}]
    /\ Goto(s, point)
    /\ UNCHANGED <<owner, assigned, call, ins, taken, late, issued>>

RowsOf(r, t) == {x \in assigned : x.role = r /\ x.tenant = t}

-----------------------------------------------------------------------------
(* set_users_for_role: delete all assignments, insert the list, commit *)

BeginSet(s) ==
    \E r \in Roles, t \in Tenants, l \in Lists :
        Begin(s, [NoCall EXCEPT !.role = r, !.tenant = t, !.list = l],
              "set_select")

Accessible(r, t) == owner[r] \in {System, t}

\* Defect: the tenant of the role is not looked at.
SetSelectAnyTenant(s) ==
    /\ pc[s] = "set_select"
    /\ IF owner[call[s].role] # Absent
       THEN /\ Goto(s, "set_scan")
            /\ UNCHANGED <<owner, assigned, call, txn, late, issued>>
       ELSE Rollback(s)

SetSelect(s) ==
    /\ pc[s] = "set_select"
    /\ IF Accessible(call[s].role, call[s].tenant)
       THEN /\ Goto(s, "set_scan")
            /\ UNCHANGED <<owner, assigned, call, txn, late, issued>>
       ELSE Rollback(s)

\* Defect: the users of the list are removed in place of all the others.
SetScanListed(s) ==
    /\ pc[s] = "set_scan"
    /\ Scan(s, {x \in RowsOf(call[s].role, call[s].tenant) :
                   \E k \in DOMAIN call[s].list : x.user = call[s].list[k]},
            "set_delete")

SetScan(s) ==
    /\ pc[s] = "set_scan"
    /\ Scan(s, RowsOf(call[s].role, call[s].tenant), "set_delete")

SetDelete(s) ==
    /\ pc[s] = "set_delete"
    /\ DeleteWanted(s, IF call[s].list = <<>> THEN "set_commit" ELSE "set_insert")

\* Defect: the columns of the inserted row are swapped.
ListRowSwapped(s, k) == Row(call[s].role, call[s].list[k], call[s].tenant)

ListRow(s, k) == Row(call[s].list[k], call[s].role, call[s].tenant)

\* One row of INSERT ... ON CONFLICT DO NOTHING, when nobody else holds its
\* key.  A committed row that this transaction has not deleted is a conflict.
SetInsert(s) ==
    /\ pc[s] = "set_insert"
    /\ taken[s] < Len(call[s].list)
    /\ LET x == ListRow(s, taken[s] + 1) IN
       /\ Free(s, {x})
       /\ ins' = IF x \in assigned \ del[s]
                 THEN ins
                 ELSE [ins EXCEPT ![s] = @ \cup {x}]
    /\ taken' = [taken EXCEPT ![s] = @ + 1]
    /\ UNCHANGED <<owner, assigned, pc, call, want, del, late, issued>>

\* The end of the INSERT checks the foreign keys of the inserted rows.  An
\* unknown user, or a role deleted meanwhile, fails: rollback and an error.
KeysExist(s) ==
    \A x \in ins[s] : x.user \in KnownUsers /\ owner[x.role] # Absent

SetCheck(s) ==
    /\ pc[s] = "set_insert"
    /\ taken[s] = Len(call[s].list)
    /\ IF KeysExist(s)
       THEN /\ Goto(s, "set_commit")
            /\ UNCHANGED <<owner, assigned, call, txn, late, issued>>
       ELSE Rollback(s)

SetCommit(s) ==
    /\ pc[s] = "set_commit"
    /\ EndWith(s, del[s], ins[s])
    /\ UNCHANGED owner

-----------------------------------------------------------------------------
(* delete_custom_role: refuse if somebody has the role, else delete it.    *)
(* The operation of the service: its endpoint depends on                   *)
(* require_permission, which has lost its body, and is not served.         *)

BeginDelete(s) ==
    \E r \in Roles, t \in Tenants :
        Begin(s, [NoCall EXCEPT !.role = r, !.tenant = t], "delete_select")

\* Not found, a system role or a role of another tenant: no deletion.
DeleteSelect(s) ==
    /\ pc[s] = "delete_select"
    /\ IF owner[call[s].role] = call[s].tenant
       THEN /\ Goto(s, "delete_check")
            /\ UNCHANGED <<owner, assigned, call, txn, late, issued>>
       ELSE Rollback(s)

\* Defect: the result of check_role_assigned is ignored.
DeleteCheckIgnored(s) ==
    /\ pc[s] = "delete_check"
    /\ Goto(s, "delete_commit")
    /\ UNCHANGED <<owner, assigned, call, txn, late, issued>>

\* check_role_assigned
DeleteCheck(s) ==
    /\ pc[s] = "delete_check"
    /\ IF RowsOf(call[s].role, call[s].tenant) = {}
       THEN /\ Goto(s, "delete_commit")
            /\ UNCHANGED <<owner, assigned, call, txn, late, issued>>
       ELSE Rollback(s)

\* The DELETE waits for inserts that have checked the role's key, and for the
\* rows that its cascade removes; all rows of the role go with it.
DeleteCommit(s) ==
    LET r == call[s].role IN
    /\ pc[s] = "delete_commit"
    /\ \A t \in Sessions \ {s} :
          \A x \in del[t] \cup (IF pc[t] = "set_commit" THEN ins[t] ELSE {}) :
             x.role # r
    /\ owner' = [owner EXCEPT ![r] = Absent]
    /\ EndWith(s, {x \in assigned : x.role = r}, {})

-----------------------------------------------------------------------------
(* A user leaves a tenant (DELETE /users/{user_id}: all rows of the user), *)
(* or loses one role there (remove_role_from_user_in_tenant): the rows are *)
(* deleted, nothing commits, and get_db closes the session after the reply.*)

BeginRemove(s) ==
    \E u \in Users, t \in Tenants :
        Begin(s, [NoCall EXCEPT !.user = u, !.tenant = t], "remove_select")

BeginRemoveRole(s) ==
    \E u \in Users, t \in Tenants, r \in Roles :
        Begin(s, [NoCall EXCEPT !.user = u, !.tenant = t, !.role = r],
              "remove_scan")

Memberships(c) == {x \in assigned : /\ x.user = c.user
                                    /\ x.tenant = c.tenant
                                    /\ c.role \in {None, x.role}}

\* A user who is not in the tenant: 204 as well.
RemoveSelect(s) ==
    /\ pc[s] = "remove_select"
    /\ IF Memberships(call[s]) # {}
       THEN /\ Goto(s, "remove_scan")
            /\ UNCHANGED <<owner, assigned, call, txn, late, issued>>
       ELSE Rollback(s)

RemoveScan(s) ==
    /\ pc[s] = "remove_scan"
    /\ Scan(s, Memberships(call[s]), "remove_delete")

RemoveDelete(s) ==
    /\ pc[s] = "remove_delete"
    /\ DeleteWanted(s, "remove_close")

RemoveClose(s) ==
    /\ pc[s] = "remove_close"
    /\ Rollback(s)

-----------------------------------------------------------------------------
Handle(s) ==
    \/ SetSelect(s) \/ SetScan(s) \/ SetDelete(s) \/ SetInsert(s)
    \/ SetCheck(s) \/ SetCommit(s)
    \/ DeleteSelect(s) \/ DeleteCheck(s) \/ DeleteCommit(s)
    \/ RemoveSelect(s) \/ RemoveScan(s) \/ RemoveDelete(s) \/ RemoveClose(s)

\* The rows whose holders session s waits for.
Awaited(s) ==
    CASE pc[s] \in {"set_delete", "remove_delete"} -> want[s]
      [] pc[s] = "set_insert" /\ taken[s] < Len(call[s].list)
                                       -> {ListRow(s, taken[s] + 1)}
      [] OTHER                         -> {}

\* The database cancels one of the sessions that wait for one another.
BreakDeadlock(s) ==
    /\ \E ring \in SUBSET Sessions :
          /\ s \in ring
          /\ \A a \in ring :
                \E b \in ring \ {a} : Awaited(a) \cap Held(b) # {}
    /\ Rollback(s)

Next ==
    \E s \in Sessions :
        \/ BeginSet(s) \/ BeginDelete(s) \/ BeginRemove(s) \/ BeginRemoveRole(s)
        \/ Handle(s) \/ Abort(s)

Spec == Init /\ [][Next]_vars

\* The event loop resumes tasks whose statement has finished, and the database
\* notices deadlocks.
FairSpec ==
    /\ Spec
    /\ \A s \in Sessions : WF_vars(Handle(s))
    /\ WF_vars(\E s \in Sessions : BreakDeadlock(s))

-----------------------------------------------------------------------------
(* Properties *)

\* Types of the tables and of the transactions.  A session that works on a
\* role and a tenant knows which ones.
TypeOK ==
    /\ owner \in [Roles -> Tenants \cup {System, Absent}]
    /\ assigned \subseteq Rows
    /\ pc \in [Sessions -> Points]
    /\ call \in [Sessions -> Calls]
    /\ want \in [Sessions -> SUBSET Rows]
    /\ del \in [Sessions -> SUBSET Rows]
    /\ ins \in [Sessions -> SUBSET Rows]
    /\ taken \in [Sessions -> Nat]
    /\ late \in [Sessions -> SUBSET Rows]
    /\ issued \in 0..MaxCalls
    /\ \A s \in Sessions : taken[s] <= Len(call[s].list)

\* Nobody holds a role in a tenant where that role cannot be used: every row
\* names an existing user and a role that is a system role or belongs to the
\* tenant of the row (the check of set_users_for_role, which is not repeated
\* when the rows are written, and the foreign keys).
AssignmentsAccessible ==
    \A x \in assigned : x.user \in KnownUsers /\ Accessible(x.role, x.tenant)

\* What set_users_for_role is about to commit: where it differs from the list
\* of the request, an overlapping call has committed that very row since the
\* DELETE was begun.  Without overlap the result is exactly the list.
DeviationsAreLate ==
    \A s \in Sessions :
        pc[s] = "set_commit" =>
            LET r == call[s].role
                t == call[s].tenant
                asked == {ListRow(s, k) : k \in DOMAIN call[s].list}
                result == (RowsOf(r, t) \ del[s]) \cup ins[s]
            IN  (result \ asked) \cup (asked \ result) \subseteq late[s]

\* Deleting a role takes assignments away, but only such as were committed
\* after check_role_assigned had found none: in any tenant, although the check
\* looks at the role's own tenant only.
CascadeIsLate ==
    \A s \in Sessions :
        pc[s] = "delete_commit" =>
            {x \in assigned : x.role = call[s].role} \subseteq late[s]

\* No order of locks keeps a call from ending.
EveryCallEnds == \A s \in Sessions : (pc[s] # "idle") ~> (pc[s] = "idle")

\* The docstring of set_users_for_role: the exact list of users is set.
SetIsExact ==
    [][\A s \in Sessions :
          SetCommit(s) =>
             LET asked == {ListRow(s, k) : k \in DOMAIN call[s].list}
             IN  {x \in assigned' : /\ x.role = call[s].role
                                    /\ x.tenant = call[s].tenant} = asked]_vars
=============================================================================
