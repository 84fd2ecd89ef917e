------------------------ MODULE InvitationLifecycle ------------------------
(***************************************************************************)
(* What the invitation service promises about one row of iam.invitations,  *)
(* whatever the order in which concurrent calls reach the database.  An    *)
(* invitation is issued once; its deadline never moves; it is open until   *)
(* it is closed; a closed invitation may be relabelled by a call that was  *)
(* already under way, but it is never open again; the label EXPIRED is     *)
(* only given after the deadline, the label ACCEPTED only together with    *)
(* the user who accepted.                                                  *)
(***************************************************************************)
EXTENDS Integers

CONSTANTS
    Invitations,   \* identities of invitations (primary key and token)
    Users,         \* users that may accept
    None           \* NULL

VARIABLES
    status,        \* [Invitations -> status column, "ABSENT" before the insert]
    deadline,      \* [Invitations -> expires_at]
    holder,        \* [Invitations -> user_id]
    now            \* the clock

lifecycleVars == <<status, deadline, holder, now>>

LifecycleInit ==
    /\ status = [i \in Invitations |-> "ABSENT"]
    /\ deadline = [i \in Invitations |-> 0]
    /\ holder = [i \in Invitations |-> None]
    /\ now = 0

Issue(i) ==
    /\ status[i] = "ABSENT"
    /\ status' = [status EXCEPT ![i] = "PENDING"]
    /\ deadline'[i] \in Int
    /\ deadline' = [deadline EXCEPT ![i] = deadline'[i]]
    /\ UNCHANGED <<holder, now>>

Accept(i, u) ==
    /\ status[i] # "ABSENT"
    /\ status' = [status EXCEPT ![i] = "ACCEPTED"]
    /\ holder' = [holder EXCEPT ![i] = u]
    /\ UNCHANGED <<deadline, now>>

Revoke(i) ==
    /\ status[i] # "ABSENT"
    /\ status' = [status EXCEPT ![i] = "REVOKED"]
    /\ UNCHANGED <<deadline, holder, now>>

Expire(i) ==
    /\ status[i] # "ABSENT"
    /\ deadline[i] < now
    /\ status' = [status EXCEPT ![i] = "EXPIRED"]
    /\ UNCHANGED <<deadline, holder, now>>

Advance ==
    /\ now' = now + 1
    /\ UNCHANGED <<status, deadline, holder>>

LifecycleNext ==
    \/ Advance
    \/ \E i \in Invitations :
          \/ Issue(i)
          \/ Revoke(i)
          \/ Expire(i)
          \/ \E u \in Users : Accept(i, u)

LifecycleSpec == LifecycleInit /\ [][LifecycleNext]_lifecycleVars
=============================================================================
