------------------------- MODULE TenantAccessProofs -------------------------
(***************************************************************************)
(* Proofs about TenantAccess, for every set of clients, users, tenants,    *)
(* roles and permissions and any bound on the clock: the type invariant,   *)
(* the credentials behind a request, and the refinement of                 *)
(* AccessDecision.                                                         *)
(***************************************************************************)
EXTENDS TenantAccess, FiniteSetTheorems, TLAPS

\* Points at which the tenant of the header is known to exist.
InTenant == {"member", "permission", "denied", "failed"} \cup Listing

\* What is known of a request at each point, and of a token.
ClientSound(c) ==
    /\ pc[c] # "idle" => req[c] \in RequestsOf
    /\ pc[c] = "tenant" \/ pc[c] \in InTenant => who[c] \in Users
    /\ pc[c] \in InTenant => req[c].tenant \in Tenants
    /\ pc[c] \in {"idle", "token"} => who[c] = None
    /\ token[c] # None =>
          /\ token[c].exp = token[c].issued + Lifetime
          /\ token[c].issued <= clock
    /\ who[c] # None =>
          /\ who[c] \in ActiveUsers /\ req[c].key # Refused
          /\ IF SendsToken(c)
             THEN /\ token[c].user = who[c]
                  /\ since[c] - token[c].issued \in 0..Lifetime
             ELSE req[c].key = who[c]

IndInv == TypeOK /\ \A c \in Clients : ClientSound(c)

\* The initial states satisfy the invariant.
LEMMA InitIndInv == Init => IndInv
  BY TenantAccessAssumption
     DEF Init, IndInv, TypeOK, ClientSound, InTenant, Listing, Points, Lists,
         EmptyList

\* The number of members of a tenant is a natural number.
LEMMA MembersCount ==
    ASSUME TypeOK, NEW t
    PROVE  /\ Members(assigned, t) \subseteq Users
           /\ Cardinality(Members(assigned, t)) \in Nat
  <1>1. Members(assigned, t) \subseteq Users
    BY DEF Members, TypeOK, Assignments
  <1>2. IsFiniteSet(Members(assigned, t))
    BY <1>1, FS_Subset, TenantAccessAssumption
  <1> QED
    BY <1>1, <1>2, FS_CardinalityType

\* A step of one client that leaves its token and user alone, and moves within
\* the points its request allows, keeps the invariant.
LEMMA MoveInv ==
    ASSUME IndInv, NEW c \in Clients, NEW p \in Points,
           pc' = [pc EXCEPT ![c] = p],
           UNCHANGED <<assigned, grants, clock, token, req, who, since, changed>>,
           list' \in [Clients -> Lists],
           pc[c] # "idle", p \notin {"idle", "token", "tenant"},
           p \in InTenant => who[c] \in Users /\ req[c].tenant \in Tenants
    PROVE  IndInv'
  <1>1. TypeOK'
    BY DEF IndInv, TypeOK
  <1>2. ASSUME NEW d \in Clients
        PROVE  ClientSound(d)'
    BY <1>2 DEF IndInv, TypeOK, ClientSound, SendsToken, InTenant
  <1> QED
    BY <1>1, <1>2 DEF IndInv

\* Every step keeps the invariant.
LEMMA NextIndInv == IndInv /\ [Next]_vars => IndInv'
  <1> SUFFICES ASSUME IndInv, [Next]_vars
               PROVE  IndInv'
    OBVIOUS
  <1> USE TenantAccessAssumption
  <1>0. TypeOK /\ \A c \in Clients : ClientSound(c)
    BY DEF IndInv
  <1>1. ASSUME NEW c \in Clients, Login(c)
        PROVE  IndInv'
    <2>1. PICK u \in ActiveUsers :
             token' = [token EXCEPT ![c] =
                         [user |-> u, exp |-> clock + Lifetime, issued |-> clock]]
      BY <1>1 DEF Login
    <2>2. /\ pc[c] = "idle" /\ who[c] = None
          /\ UNCHANGED <<assigned, grants, clock, pc, req, who, since, list, changed>>
      BY <1>0, <1>1 DEF Login, ClientSound
    <2>3. TypeOK'
      BY <1>0, <2>1, <2>2 DEF TypeOK, Tokens
    <2>4. ASSUME NEW d \in Clients
          PROVE  ClientSound(d)'
      BY <1>0, <2>1, <2>2 DEF ClientSound, SendsToken, TypeOK, InTenant
    <2> QED
      BY <2>3, <2>4 DEF IndInv
  <1>2. ASSUME NEW c \in Clients, Begin(c)
        PROVE  IndInv'
    <2>1. PICK r \in RequestsOf :
             /\ req' = [req EXCEPT ![c] = r]
             /\ pc' = [pc EXCEPT ![c] =
                         IF r.tenant = "malformed" THEN "rejected" ELSE "token"]
      BY <1>2 DEF Begin
    <2>2. /\ pc[c] = "idle" /\ who[c] = None
          /\ UNCHANGED <<assigned, grants, clock, token, who, since, list, changed>>
      BY <1>0, <1>2 DEF Begin, ClientSound
    <2>3. TypeOK'
      BY <1>0, <2>1, <2>2 DEF TypeOK, Points
    <2>4. ASSUME NEW d \in Clients
          PROVE  ClientSound(d)'
      BY <1>0, <2>1, <2>2 DEF ClientSound, SendsToken, TypeOK, InTenant, Listing
    <2> QED
      BY <2>3, <2>4 DEF IndInv
  <1>3. ASSUME NEW c \in Clients, Authenticate(c)
        PROVE  IndInv'
    <2>1. CASE CredentialsGood(c) /\ CurrentUser(c) \in ActiveUsers
      <3>1. /\ pc[c] = "token" /\ pc' = [pc EXCEPT ![c] = "tenant"]
            /\ who' = [who EXCEPT ![c] = CurrentUser(c)]
            /\ since' = [since EXCEPT ![c] = clock]
            /\ UNCHANGED <<assigned, grants, clock, token, req, list, changed>>
        BY <1>3, <2>1 DEF Authenticate, Goto
      <3>2. SendsToken(c) => /\ token[c] # None /\ token[c] \in Tokens
                             /\ token[c].exp >= clock
        BY <1>0, <2>1 DEF CredentialsGood, SendsToken, TypeOK
      <3>3. TypeOK'
        BY <1>0, <2>1, <3>1 DEF TypeOK, Points
      <3>4. SendsToken(c) => clock - token[c].issued \in 0..Lifetime
        BY <1>0, <3>2 DEF ClientSound, SendsToken, Tokens, TypeOK
      <3>5. ASSUME NEW d \in Clients
            PROVE  ClientSound(d)'
        <4>1. CASE d = c
          BY <1>0, <2>1, <3>1, <3>2, <3>4, <4>1
             DEF ClientSound, SendsToken, TypeOK, InTenant, Listing, CredentialsGood,
                 CurrentUser, SendsToken
        <4>2. CASE d # c
          BY <1>0, <3>1, <4>2
             DEF ClientSound, SendsToken, TypeOK, InTenant, Listing
        <4> QED
          BY <4>1, <4>2
      <3> QED
        BY <3>3, <3>5 DEF IndInv
    <2>2. CASE ~ (CredentialsGood(c) /\ CurrentUser(c) \in ActiveUsers)
      BY <1>0, <1>3, <2>2, MoveInv
         DEF Authenticate, Goto, Stay, TypeOK, Points, InTenant, Listing
    <2> QED
      BY <2>1, <2>2
  <1>4. ASSUME NEW c \in Clients, ActiveTenant(c)
        PROVE  IndInv'
    <2>1. who[c] \in Users /\ pc[c] = "tenant"
      BY <1>0, <1>4 DEF ActiveTenant, ClientSound
    <2>2. PICK p \in {"member", "rejected"} :
             Goto(c, p) /\ Stay /\ (p = "member" => req[c].tenant \in Tenants)
      BY <1>4 DEF ActiveTenant
    <2> QED
      BY <1>0, <2>1, <2>2, MoveInv
         DEF Goto, Stay, TypeOK, Points, InTenant, Listing
  <1>5. ASSUME NEW c \in Clients, MemberCheck(c) \/ PermissionCheck(c)
        PROVE  IndInv'
    <2>1. PICK p \in {"permission", "count", "denied", "failed"} :
             /\ pc[c] \in {"member", "permission"} /\ Goto(c, p) /\ Stay
      BY <1>5 DEF MemberCheck, PermissionCheck, Check
    <2> QED
      BY <1>0, <2>1, MoveInv
         DEF Goto, Stay, TypeOK, Points, InTenant, Listing, ClientSound
  <1>6. ASSUME NEW c \in Clients, CountUsers(c) \/ PageUsers(c) \/ NameRoles(c)
        PROVE  IndInv'
    <2>1. PICK p \in {"page", "names", "reply"}, l \in Lists :
             pc[c] \in Listing /\ Read(c, l, p)
      <3>1. /\ list[c] \in Lists
            /\ Members(assigned, req[c].tenant) \subseteq Users
            /\ Cardinality(Members(assigned, req[c].tenant)) \in Nat
        BY <1>0, MembersCount DEF TypeOK
      <3> QED
        BY <1>6, <3>1
           DEF CountUsers, PageUsers, NameRoles, Lists, Listing, PageOf
    <2> QED
      BY <1>0, <2>1, MoveInv
         DEF Read, TypeOK, Points, InTenant, Listing, ClientSound
  <1>7. ASSUME NEW c \in Clients, Close(c)
        PROVE  IndInv'
    <2>1. TypeOK'
      BY <1>0, <1>7 DEF Close, TypeOK, Points, Lists, EmptyList
    <2>2. ASSUME NEW d \in Clients
          PROVE  ClientSound(d)'
      BY <1>0, <1>7 DEF Close, TypeOK, ClientSound, SendsToken, InTenant, Listing
    <2> QED
      BY <2>1, <2>2 DEF IndInv
  <1>8. CASE Reassign \/ Regrant \/ Tick
    <2>1. TypeOK'
      <3>1. CASE Reassign
        <4>1. PICK r \in Roles, t \in Tenants, users \in SUBSET Users :
                 assigned' = {x \in assigned : x.role # r \/ x.tenant # t}
                               \cup [user : users, role : {r}, tenant : {t}]
          BY <3>1 DEF Reassign
        <4>2. assigned' \subseteq Assignments
          BY <1>0, <4>1 DEF TypeOK, Assignments
        <4>3. changed' \subseteq Clients
          BY <1>0, <3>1 DEF TypeOK, Reassign
        <4> QED
          BY <1>0, <3>1, <4>2, <4>3 DEF TypeOK, Reassign
      <3>2. CASE Regrant
        BY <1>0, <3>2 DEF TypeOK, Regrant
      <3>3. CASE Tick
        BY <1>0, <3>3 DEF TypeOK, Tick
      <3> QED
        BY <1>8, <3>1, <3>2, <3>3
    <2>2. /\ UNCHANGED <<pc, req, who, since, token>>
          /\ clock' \in Nat /\ clock' >= clock
      BY <1>0, <1>8 DEF Reassign, Regrant, Tick, TypeOK
    <2>3. ASSUME NEW d \in Clients
          PROVE  ClientSound(d)'
      <3>1. token[d] # None => token[d].issued \in Nat
        BY <1>0 DEF TypeOK, Tokens
      <3> QED
        BY <1>0, <2>2, <3>1 DEF ClientSound, SendsToken, TypeOK
    <2> QED
      BY <2>1, <2>3 DEF IndInv
  <1>9. CASE UNCHANGED vars
    BY <1>9 DEF vars, IndInv, TypeOK, ClientSound, SendsToken
  <1> QED
    BY <1>1, <1>2, <1>3, <1>4, <1>5, <1>6, <1>7, <1>8, <1>9 DEF Next, Handle

\* The inductive invariant holds in every reachable state.
THEOREM IndInvHolds == Spec => []IndInv
  BY InitIndInv, NextIndInv, PTL DEF Spec

\* Tables and requests are well typed; no count is negative.
THEOREM TypeCorrect == Spec => []TypeOK
  <1>1. IndInv => TypeOK
    BY DEF IndInv
  <1> QED
    BY <1>1, IndInvHolds, PTL

\* Every request beyond authentication acts for the user of its token, on a login
\* at most Lifetime before the check, or without a token for the user of its key.
THEOREM RestsOnCredentialsHolds == Spec => []RestsOnCredentials
  <1>1. IndInv => RestsOnCredentials
    BY DEF IndInv, ClientSound, RestsOnCredentials
  <1> QED
    BY <1>1, IndInvHolds, PTL

-----------------------------------------------------------------------------
(* Refinement *)

\* A step that changes no table changes nobody's permissions.
LEMMA AllowedKept ==
    ASSUME UNCHANGED <<assigned, grants>>
    PROVE  UNCHANGED Allowed
  BY DEF Allowed, Subjects, HasPermission, RolesIn

\* A client that moves changes no question and no answer but its own.
LEMMA OwnQuestion ==
    ASSUME IndInv, NEW c \in Clients, NEW p \in Points,
           pc' = [pc EXCEPT ![c] = p],
           \A d \in Clients \ {c} : req'[d] = req[d] /\ who'[d] = who[d]
    PROVE  /\ Asked' = [Asked EXCEPT ![c] = Asked'[c]]
           /\ Answered' = [Answered EXCEPT ![c] = Answered'[c]]
           /\ Asked'[c] = IF p \in InTenant THEN Subject(c)' ELSE None
           /\ Answered'[c] = IF p \in Listing THEN "granted"
                             ELSE IF p \in {"denied", "failed"} THEN p ELSE "none"
  BY DEF Asked, Answered, InTenant, Subject, IndInv, TypeOK

\* If its own question and answer stay, then all do.
LEMMA SameQuestion ==
    ASSUME IndInv, NEW c \in Clients, NEW p \in Points,
           pc' = [pc EXCEPT ![c] = p],
           \A d \in Clients \ {c} : req'[d] = req[d] /\ who'[d] = who[d],
           Asked'[c] = Asked[c], Answered'[c] = Answered[c]
    PROVE  UNCHANGED <<Asked, Answered>>
  <1>1. [Asked EXCEPT ![c] = Asked[c]] = Asked
    BY DEF Asked
  <1>2. [Answered EXCEPT ![c] = Answered[c]] = Answered
    BY DEF Answered
  <1> QED
    BY <1>1, <1>2, OwnQuestion

\* The permission implies membership, so a denial of the membership check is a
\* denial of the permission at the same instant.
LEMMA PermissionNeedsRole ==
    ASSUME NEW u, NEW t, NEW p, HasPermission(u, t, p)
    PROVE  RolesIn(u, t) # {}
  BY DEF HasPermission

\* The statements of get_current_active_tenant and of the permission check
\* implement one decision, taken at one instant.
THEOREM DecisionRefined == Spec => DecisionHolds
  <1> DEFINE dvars == <<Allowed, Asked, Answered>>
  <1>1. Init => Decision!Init
    BY DEF Init, Decision!Init, Asked, Answered, Allowed, Listing
  <1>2. IndInv /\ IndInv' /\ [Next]_vars => [Decision!Next]_dvars
    <2> SUFFICES ASSUME IndInv, IndInv', [Next]_vars
                 PROVE  [Decision!Next]_dvars
      OBVIOUS
    <2>0. TypeOK /\ \A c \in Clients : ClientSound(c)
      BY DEF IndInv
    <2>1. ASSUME NEW c \in Clients, Login(c)
          PROVE  UNCHANGED dvars
      BY <2>1, AllowedKept DEF Login, Asked, Answered, Subject
    <2>2. ASSUME NEW c \in Clients, Begin(c)
          PROVE  UNCHANGED dvars
      <3>1. PICK p \in {"rejected", "token"} : pc' = [pc EXCEPT ![c] = p]
        BY <2>2 DEF Begin
      <3>2. /\ pc[c] = "idle" /\ UNCHANGED <<assigned, grants, who>>
            /\ \A d \in Clients \ {c} : req'[d] = req[d]
        BY <2>0, <2>2 DEF Begin, TypeOK
      <3>3. Asked'[c] = Asked[c] /\ Answered'[c] = Answered[c]
        BY <2>0, <3>1, <3>2 DEF Asked, Answered, Listing, TypeOK
      <3>4. UNCHANGED Asked /\ UNCHANGED Answered
        BY <3>1, <3>2, <3>3, SameQuestion DEF Points
      <3> QED
        BY <3>2, <3>4, AllowedKept
    <2>3. ASSUME NEW c \in Clients, Authenticate(c)
          PROVE  UNCHANGED dvars
      <3>1. PICK p \in {"rejected", "tenant"} : Goto(c, p)
        BY <2>3 DEF Authenticate
      <3>2. /\ pc[c] = "token" /\ UNCHANGED <<assigned, grants, req>>
            /\ \A d \in Clients \ {c} : who'[d] = who[d]
        BY <2>0, <2>3 DEF Authenticate, Goto, Stay, TypeOK
      <3>3. Asked'[c] = Asked[c] /\ Answered'[c] = Answered[c]
        BY <2>0, <3>1, <3>2 DEF Goto, Asked, Answered, Listing, TypeOK
      <3>4. UNCHANGED Asked /\ UNCHANGED Answered
        BY <3>1, <3>2, <3>3, SameQuestion DEF Goto, Points
      <3> QED
        BY <3>2, <3>4, AllowedKept
    <2>4. ASSUME NEW c \in Clients, ActiveTenant(c)
          PROVE  [Decision!Next]_dvars
      <3>1. PICK p \in {"member", "rejected"} :
               Goto(c, p) /\ Stay /\ (p = "member" => req[c].tenant \in Tenants)
        BY <2>4 DEF ActiveTenant
      <3>2. /\ pc[c] = "tenant" /\ UNCHANGED <<assigned, grants, req, who>>
            /\ UNCHANGED Subject(c)
        BY <2>4, <3>1 DEF ActiveTenant, Goto, Stay, Subject
      <3>3. Asked[c] = None /\ Answered[c] = "none"
        BY <3>2 DEF Asked, Answered, Listing
      <3>4. /\ Asked' = [Asked EXCEPT ![c] = Asked'[c]]
            /\ Answered' = [Answered EXCEPT ![c] = Answered'[c]]
            /\ Answered'[c] = "none"
            /\ Asked'[c] = IF p = "member" THEN Subject(c) ELSE None
        BY <3>1, <3>2, OwnQuestion DEF Goto, Points, Listing, InTenant
      <3>5. UNCHANGED Answered
        BY <3>3, <3>4 DEF Answered
      <3>6. CASE p = "member"
        <4>1. Subject(c) \in Subjects
          BY <2>0, <3>1, <3>2, <3>6
             DEF Subject, Subjects, ClientSound, RequestsOf
        <4>2. Decision!Ask(c, Subject(c))
          BY <3>2, <3>3, <3>4, <3>5, <3>6, AllowedKept DEF Decision!Ask
        <4> QED
          BY <4>1, <4>2 DEF Decision!Next
      <3>7. CASE p = "rejected"
        <4>1. UNCHANGED Asked
          BY <3>3, <3>4, <3>7 DEF Asked
        <4> QED
          BY <3>2, <3>5, <4>1, AllowedKept
      <3> QED
        BY <3>1, <3>6, <3>7
    <2>5. ASSUME NEW c \in Clients, MemberCheck(c) \/ PermissionCheck(c)
          PROVE  [Decision!Next]_dvars
      <3>1. PICK p \in {"permission", "count", "denied", "failed"} :
               /\ pc[c] \in {"member", "permission"} /\ Goto(c, p) /\ Stay
               /\ p = "permission" => pc[c] = "member"
               /\ p = "count" => \/ who[c] \in Superusers
                                 \/ HasPermission(who[c], req[c].tenant, req[c].perm)
               /\ p = "denied" =>
                     /\ who[c] \notin Superusers
                     /\ ~ HasPermission(who[c], req[c].tenant, req[c].perm)
        BY <2>5, PermissionNeedsRole DEF MemberCheck, PermissionCheck, Check
      <3>2. UNCHANGED <<assigned, grants, req, who>> /\ UNCHANGED Subject(c)
        BY <3>1 DEF Goto, Stay, Subject
      <3>3. /\ Asked[c] = Subject(c) /\ Answered[c] = "none"
            /\ Subject(c) \in Subjects /\ Subject(c) # None
        <4>1. pc[c] \in InTenant
          BY <3>1 DEF InTenant
        <4>2. Subject(c) \in Subjects
          BY <2>0, <3>1, <4>1 DEF Subject, Subjects, ClientSound, RequestsOf
        <4> QED
          BY <3>1, <4>2, TenantAccessAssumption
             DEF Asked, Answered, Listing, Subjects
      <3>4. /\ Asked' = [Asked EXCEPT ![c] = Subject(c)]
            /\ Answered' = [Answered EXCEPT ![c] =
                              IF p = "count" THEN "granted"
                              ELSE IF p \in {"denied", "failed"} THEN p ELSE "none"]
        BY <3>1, <3>2, OwnQuestion DEF Goto, Points, Listing, InTenant
      <3>5. UNCHANGED Asked /\ UNCHANGED Allowed
        BY <3>2, <3>3, <3>4, AllowedKept DEF Asked
      <3>6. CASE p = "permission"
        <4>1. UNCHANGED Answered
          BY <3>3, <3>4, <3>6 DEF Answered
        <4> QED
          BY <3>5, <4>1
      <3>7. CASE p = "count"
        <4>1. Asked[c] \in Allowed
          BY <3>1, <3>3, <3>7 DEF Allowed, Subject
        <4>2. Decision!Decide(c)
          BY <3>3, <3>4, <3>5, <3>7, <4>1 DEF Decision!Decide, Decision!Answer
        <4> QED
          BY <4>2 DEF Decision!Next
      <3>8. CASE p = "denied"
        <4>1. Asked[c] \notin Allowed
          BY <3>1, <3>3, <3>8 DEF Allowed, Subject
        <4>2. Decision!Decide(c)
          BY <3>3, <3>4, <3>5, <3>8, <4>1 DEF Decision!Decide, Decision!Answer
        <4> QED
          BY <4>2 DEF Decision!Next
      <3>9. CASE p = "failed"
        <4>1. Decision!Fail(c)
          BY <3>3, <3>4, <3>5, <3>9 DEF Decision!Fail, Decision!Answer
        <4> QED
          BY <4>1 DEF Decision!Next
      <3> QED
        BY <3>1, <3>6, <3>7, <3>8, <3>9
    <2>6. ASSUME NEW c \in Clients, CountUsers(c) \/ PageUsers(c) \/ NameRoles(c)
          PROVE  UNCHANGED dvars
      <3>1. PICK p \in {"page", "names", "reply"} :
               /\ pc[c] \in {"count", "page", "names"}
               /\ pc' = [pc EXCEPT ![c] = p]
               /\ UNCHANGED <<assigned, grants, req, who>>
        BY <2>6 DEF CountUsers, PageUsers, NameRoles, Read
      <3>2. UNCHANGED Subject(c) /\ pc[c] \in Listing /\ p \in Listing
        BY <3>1 DEF Subject, Listing
      <3>3. Asked'[c] = Asked[c] /\ Answered'[c] = Answered[c]
        BY <2>0, <3>1, <3>2 DEF Asked, Answered, TypeOK
      <3>4. UNCHANGED Asked /\ UNCHANGED Answered
        BY <3>1, <3>3, SameQuestion DEF Points, Listing
      <3> QED
        BY <3>1, <3>4, AllowedKept
    <2>7. ASSUME NEW c \in Clients, Close(c)
          PROVE  Decision!Next
      <3>1. /\ pc' = [pc EXCEPT ![c] = "idle"] /\ UNCHANGED <<assigned, grants>>
            /\ \A d \in Clients \ {c} : req'[d] = req[d] /\ who'[d] = who[d]
        BY <2>0, <2>7 DEF Close, TypeOK
      <3>2. /\ Asked' = [Asked EXCEPT ![c] = None]
            /\ Answered' = [Answered EXCEPT ![c] = "none"]
        <4>1. "idle" \in Points /\ "idle" \notin InTenant \cup Listing
          BY DEF Points, InTenant, Listing
        <4> QED
          BY <3>1, <4>1, OwnQuestion
      <3>3. Decision!Forget(c)
        BY <3>1, <3>2, AllowedKept DEF Decision!Forget
      <3> QED
        BY <3>3 DEF Decision!Next
    <2>8. CASE Reassign \/ Regrant
      <3>1. UNCHANGED <<pc, req, who>>
        BY <2>8 DEF Reassign, Regrant
      <3>2. UNCHANGED Asked /\ UNCHANGED Answered
        BY <3>1 DEF Asked, Answered, Subject
      <3>3. Allowed' \in SUBSET Subjects
        BY DEF Allowed, Subjects
      <3> QED
        BY <3>2, <3>3 DEF Decision!Next, Decision!Change
    <2>9. CASE Tick \/ UNCHANGED vars
      BY <2>9, AllowedKept DEF Tick, vars, Asked, Answered, Subject
    <2> QED
      BY <2>1, <2>2, <2>3, <2>4, <2>5, <2>6, <2>7, <2>8, <2>9 DEF Next, Handle
  <1> QED
    BY <1>1, <1>2, IndInvHolds, PTL DEF Spec, DecisionHolds, Decision!Spec

-----------------------------------------------------------------------------
(***************************************************************************)
(* The size of a page.  Sorted by email, the users of a tenant take the    *)
(* places 1, 2, ... up to their number: no place is taken twice, so none   *)
(* is left free.  The users on a page are as many as the places that the   *)
(* page covers.                                                            *)
(***************************************************************************)

UpTo(users, u) == {v \in users : v <= u}
Place(users, u) == Cardinality(UpTo(users, u))

\* Every user has a place between the first and the last.
LEMMA PlaceInRange ==
    ASSUME NEW users \in SUBSET Nat, IsFiniteSet(users), NEW u \in users
    PROVE  /\ IsFiniteSet(UpTo(users, u))
           /\ Place(users, u) \in 1 .. Cardinality(users)
  <1>1. UpTo(users, u) \in SUBSET users /\ u \in UpTo(users, u)
    BY DEF UpTo
  <1>2. /\ IsFiniteSet(UpTo(users, u))
        /\ Cardinality(UpTo(users, u)) <= Cardinality(users)
    BY <1>1, FS_Subset
  <1>3. Cardinality(UpTo(users, u)) \in Nat /\ Cardinality(users) \in Nat
    BY <1>2, FS_CardinalityType
  <1>4. Cardinality(UpTo(users, u)) # 0
    BY <1>1, <1>2, FS_EmptySet
  <1> QED
    BY <1>2, <1>3, <1>4 DEF Place

\* A user who comes later has a later place.
LEMMA PlaceIncreases ==
    ASSUME NEW users \in SUBSET Nat, IsFiniteSet(users),
           NEW u \in users, NEW w \in users, u < w
    PROVE  Place(users, u) # Place(users, w)
  <1>1. UpTo(users, u) \subseteq UpTo(users, w)
    <2> SUFFICES ASSUME NEW v \in users, v <= u
                 PROVE  v <= w
      BY DEF UpTo
    <2> QED
      OBVIOUS
  <1>2. w \in UpTo(users, w) /\ w \notin UpTo(users, u)
    BY DEF UpTo
  <1>3. IsFiniteSet(UpTo(users, w))
    BY PlaceInRange
  <1> QED
    BY <1>1, <1>2, <1>3, FS_Subset DEF Place

\* Every place between the first and the last is taken by one user.
LEMMA PlacesAreTaken ==
    ASSUME NEW users \in SUBSET Nat, IsFiniteSet(users)
    PROVE  /\ \A u, w \in users : Place(users, u) = Place(users, w) => u = w
           /\ \A n \in 1 .. Cardinality(users) : \E u \in users : Place(users, u) = n
  <1> DEFINE place == [u \in users |-> Place(users, u)]
             last == Cardinality(users)
  <1>1. last \in Nat
    BY FS_CardinalityType
  <1>2. \A u, w \in users : Place(users, u) = Place(users, w) => u = w
    <2> SUFFICES ASSUME NEW u \in users, NEW w \in users, u # w
                 PROVE  Place(users, u) # Place(users, w)
      OBVIOUS
    <2>1. u < w \/ w < u
      OBVIOUS
    <2> QED
      BY <2>1, PlaceIncreases
  <1>3. place \in [users -> 1 .. last]
    BY PlaceInRange
  <1>4. place \in Injection(users, 1 .. last)
    BY <1>2, <1>3 DEF Injection, IsInjective
  <1>5. IsFiniteSet(1 .. last) /\ Cardinality(1 .. last) = last
    BY <1>1, FS_Interval
  <1>6. place \in Surjection(users, 1 .. last)
    BY <1>4, <1>5, FS_Injection
  <1>7. \A n \in 1 .. last : \E u \in users : place[u] = n
    BY <1>6 DEF Surjection
  <1> QED
    BY <1>2, <1>7

\* A page has as many users as there are places from its first to its last one.
LEMMA PageSize ==
    ASSUME NEW users \in SUBSET Nat, IsFiniteSet(users),
           NEW lo \in Nat \ {0}, NEW hi \in Nat
    PROVE  Cardinality({u \in users : Place(users, u) \in lo .. hi})
             = Cardinality(lo .. (IF Cardinality(users) < hi
                                  THEN Cardinality(users) ELSE hi))
  <1> DEFINE last == Cardinality(users)
             top == IF last < hi THEN last ELSE hi
             page == {u \in users : Place(users, u) \in lo .. hi}
             place == [u \in page |-> Place(users, u)]
  <1>1. last \in Nat /\ top \in Nat
    BY FS_CardinalityType
  <1>2. \A u \in users : Place(users, u) \in 1 .. last
    BY PlaceInRange
  <1>3. \A n \in lo .. top : n \in lo .. hi /\ n \in 1 .. last
    BY <1>1
  <1>4. place \in [page -> lo .. top]
    <2> SUFFICES ASSUME NEW u \in page
                 PROVE  Place(users, u) \in lo .. top
      OBVIOUS
    <2>1. Place(users, u) \in 1 .. last /\ Place(users, u) \in lo .. hi
      BY <1>2
    <2> QED
      BY <1>1, <2>1
  <1>5. place \in Injection(page, lo .. top)
    BY <1>4, PlacesAreTaken DEF Injection, IsInjective
  <1>6. \A n \in lo .. top : \E u \in page : place[u] = n
    <2> SUFFICES ASSUME NEW n \in lo .. top
                 PROVE  \E u \in page : place[u] = n
      OBVIOUS
    <2>1. PICK u \in users : Place(users, u) = n
      BY <1>3, PlacesAreTaken
    <2> QED
      BY <1>3, <2>1
  <1>7. place \in Surjection(page, lo .. top)
    BY <1>4, <1>6 DEF Surjection
  <1>8. ExistsBijection(page, lo .. top)
    BY <1>5, <1>7 DEF ExistsBijection, Bijection
  <1>9. IsFiniteSet(page)
    BY FS_Subset
  <1> QED
    BY <1>8, <1>9, FS_Bijection

-----------------------------------------------------------------------------
(***************************************************************************)
(* The list of GET /users/.  What each of the three statements has read is *)
(* still what it would read now, as long as no commit changed the members  *)
(* of the tenant since the count.                                          *)
(***************************************************************************)

Counted == {"page", "names", "reply"}

ListSound(c) ==
    LET users == Members(assigned, req[c].tenant) IN
    /\ pc[c] # "reply" => list[c].named = {}
    /\ pc[c] \in Counted /\ c \notin changed => list[c].total = Cardinality(users)
    /\ pc[c] \in Counted \ {"page"} /\ c \notin changed =>
          list[c].items = PageOf(users, req[c].page)
    /\ pc[c] = "reply" /\ c \notin changed => list[c].named = list[c].items

ListInv == \A c \in Clients : ListSound(c)

\* set_users_for_role in one tenant leaves the members of the others alone.
LEMMA OtherTenants ==
    ASSUME NEW r, NEW t, NEW users, NEW other, other # t
    PROVE  Members({x \in assigned : x.role # r \/ x.tenant # t}
                     \cup [user : users, role : {r}, tenant : {t}], other)
             = Members(assigned, other)
  BY DEF Members

\* A step of a client leaves the lists of the other clients alone.
LEMMA OtherLists ==
    ASSUME ListInv, NEW d \in Clients,
           UNCHANGED <<assigned, pc[d], req[d], list[d]>>,
           d \notin changed' => d \notin changed
    PROVE  ListSound(d)'
  BY DEF ListInv, ListSound

\* Every step keeps the lists sound.
LEMMA NextListInv == IndInv /\ ListInv /\ [Next]_vars => ListInv'
  <1> SUFFICES ASSUME IndInv, ListInv, [Next]_vars, NEW d \in Clients
               PROVE  ListSound(d)'
    BY DEF ListInv
  <1>0. TypeOK /\ ListSound(d) /\ list[d] \in Lists
    BY DEF IndInv, ListInv, TypeOK
  <1>1. ASSUME NEW c \in Clients,
               \/ Login(c) \/ Begin(c) \/ Authenticate(c) \/ ActiveTenant(c)
               \/ MemberCheck(c) \/ PermissionCheck(c)
        PROVE  ListSound(d)'
    <2>1. /\ UNCHANGED <<assigned, list, changed>>
          /\ \/ pc[d] = pc'[d] /\ req[d] = req'[d]
             \/ pc[d] # "reply" /\ pc'[d] \notin Counted
      <3>1. CASE Login(c)
        BY <3>1 DEF Login
      <3>2. CASE Begin(c)
        <4>1. /\ pc[c] = "idle" /\ UNCHANGED <<assigned, list, changed>>
              /\ \E r, p : /\ req' = [req EXCEPT ![c] = r] /\ p \notin Counted
                          /\ pc' = [pc EXCEPT ![c] = p]
          BY <3>2 DEF Begin, Counted
        <4> QED
          BY <1>0, <4>1 DEF TypeOK
      <3>3. CASE Authenticate(c) \/ ActiveTenant(c) \/ MemberCheck(c)
                   \/ PermissionCheck(c)
        <4>1. PICK p \in Points \ Counted : Goto(c, p) /\ pc[c] # "reply"
          BY <3>3 DEF Authenticate, ActiveTenant, MemberCheck, PermissionCheck,
                      Check, Counted, Points, Listing
        <4> QED
          BY <1>0, <4>1 DEF Goto, TypeOK
      <3> QED
        BY <1>1, <3>1, <3>2, <3>3
    <2>2. CASE pc[d] = pc'[d] /\ req[d] = req'[d]
      BY <2>1, <2>2, OtherLists
    <2>3. CASE pc[d] # "reply" /\ pc'[d] \notin Counted
      BY <1>0, <2>1, <2>3 DEF ListSound, Counted
    <2> QED
      BY <2>1, <2>2, <2>3
  <1>2. ASSUME NEW c \in Clients, NEW l, NEW p, Read(c, l, p), c # d
        PROVE  ListSound(d)'
    BY <1>0, <1>2, OtherLists DEF Read, TypeOK
  <1>3. CASE CountUsers(d)
    BY <1>0, <1>3 DEF CountUsers, Read, TypeOK, ListSound, Counted, Lists
  <1>4. CASE PageUsers(d)
    BY <1>0, <1>4 DEF PageUsers, Read, TypeOK, ListSound, Counted, Lists
  <1>5. CASE NameRoles(d)
    <2>1. /\ pc[d] = "names" /\ pc' = [pc EXCEPT ![d] = "reply"]
          /\ UNCHANGED <<assigned, req, changed>>
          /\ list' = [list EXCEPT ![d] = [list[d] EXCEPT !.named =
                @ \cup (list[d].items \cap Members(assigned, req[d].tenant))]]
      BY <1>5 DEF NameRoles, Read
    <2>2. d \notin changed => list[d].items \subseteq Members(assigned, req[d].tenant)
      BY <1>0, <2>1 DEF ListSound, Counted, PageOf
    <2>3. list[d].named = {}
      BY <1>0, <2>1 DEF ListSound
    <2>4. /\ list'[d].total = list[d].total /\ list'[d].items = list[d].items
          /\ d \notin changed => list'[d].named = list[d].items
      BY <1>0, <2>1, <2>2, <2>3 DEF TypeOK, Lists
    <2> QED
      BY <1>0, <2>1, <2>4 DEF ListSound, Counted, TypeOK
  <1>6. ASSUME NEW c \in Clients, Close(c)
        PROVE  ListSound(d)'
    <2>1. CASE c = d
      BY <1>0, <1>6, <2>1 DEF Close, TypeOK, ListSound, Counted, EmptyList
    <2>2. CASE c # d
      BY <1>0, <1>6, <2>2, OtherLists DEF Close, TypeOK
    <2> QED
      BY <2>1, <2>2
  <1>7. CASE Reassign
    <2>1. PICK r \in Roles, t \in Tenants, users \in SUBSET Users :
             LET rows == {x \in assigned : x.role # r \/ x.tenant # t}
                           \cup [user : users, role : {r}, tenant : {t}]
             IN
             /\ assigned' = rows
             /\ changed' = changed \cup
                   {c \in Clients : /\ pc[c] \in Listing \ {"count"}
                                    /\ req[c].tenant = t
                                    /\ Members(rows, t) # Members(assigned, t)}
      BY <1>7 DEF Reassign
    <2>2. UNCHANGED <<pc, req, list>>
      BY <1>7 DEF Reassign
    <2>3. pc[d] \in Counted /\ d \notin changed' =>
             /\ d \notin changed
             /\ Members(assigned', req[d].tenant) = Members(assigned, req[d].tenant)
      <3>1. CASE req[d].tenant = t
        BY <2>1, <3>1 DEF Counted, Listing
      <3>2. CASE req[d].tenant # t
        BY <2>1, <3>2, OtherTenants
      <3> QED
        BY <3>1, <3>2
    <2> QED
      BY <1>0, <2>2, <2>3 DEF ListSound, Counted
  <1>8. CASE Regrant \/ Tick \/ UNCHANGED vars
    BY <1>8, OtherLists DEF Regrant, Tick, vars
  <1>9. ASSUME NEW c \in Clients, CountUsers(c) \/ PageUsers(c) \/ NameRoles(c)
        PROVE  ListSound(d)'
    BY <1>2, <1>3, <1>4, <1>5, <1>9 DEF CountUsers, PageUsers, NameRoles
  <1> QED
    BY <1>1, <1>6, <1>7, <1>8, <1>9 DEF Next, Handle

\* In an answer that no commit overtook, the page has as many users as the total
\* and the page number say, none missing and none too many, and every one of
\* them has his role names.
THEOREM PageIsConsistentHolds == Spec => []PageIsConsistent
  <1>1. Init => ListInv
    BY DEF Init, ListInv, ListSound, EmptyList, Counted
  <1>2. Spec => []ListInv
    BY <1>1, NextListInv, IndInvHolds, PTL DEF Spec
  <1>3. IndInv /\ ListInv => PageIsConsistent
    <2> SUFFICES ASSUME IndInv, ListInv, NEW c \in Clients, pc[c] = "reply",
                        c \notin changed
                 PROVE  /\ Cardinality(list[c].items)
                             = Cardinality((req[c].page - 1) * Limit + 1
                                  .. (IF list[c].total < req[c].page * Limit
                                      THEN list[c].total
                                      ELSE req[c].page * Limit))
                        /\ list[c].named = list[c].items
      BY DEF PageIsConsistent
    <2> DEFINE users == Members(assigned, req[c].tenant)
               lo == (req[c].page - 1) * Limit + 1
               hi == req[c].page * Limit
    <2>1. TypeOK /\ ClientSound(c) /\ ListSound(c)
      BY DEF IndInv, ListInv
    <2>2. /\ list[c].total = Cardinality(users)
          /\ list[c].items = PageOf(users, req[c].page)
          /\ list[c].named = list[c].items
      BY <2>1 DEF ListSound, Counted
    <2>3. users \in SUBSET Nat /\ IsFiniteSet(users)
      <3>1. users \in SUBSET Users
        BY <2>1, MembersCount
      <3> QED
        BY <3>1, FS_Subset, TenantAccessAssumption
    <2>4. lo \in Nat \ {0} /\ hi \in Nat
      <3>1. req[c].page \in Nat \ {0}
        BY <2>1, TenantAccessAssumption DEF ClientSound, SendsToken, RequestsOf
      <3>2. req[c].page - 1 \in Nat /\ Limit \in Nat
        BY <3>1, TenantAccessAssumption
      <3>3. ASSUME NEW m \in Nat, NEW n \in Nat
            PROVE  m * n \in Nat
        OBVIOUS
      <3>4. (req[c].page - 1) * Limit \in Nat /\ req[c].page * Limit \in Nat
        BY <3>1, <3>2, <3>3
      <3> QED
        BY <3>4
    <2>5. PageOf(users, req[c].page)
             = {u \in users : Place(users, u) \in lo .. hi}
      BY DEF PageOf, Place, UpTo
    <2>6. Cardinality({u \in users : Place(users, u) \in lo .. hi})
             = Cardinality(lo .. (IF Cardinality(users) < hi
                                  THEN Cardinality(users) ELSE hi))
      BY <2>3, <2>4, PageSize
    <2> QED
      BY <2>2, <2>5, <2>6
  <1> QED
    BY <1>2, <1>3, IndInvHolds, PTL
=============================================================================
