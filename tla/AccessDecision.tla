--------------------------- MODULE AccessDecision ---------------------------
(***************************************************************************)
(* What the permission check of a tenant promises: whatever statements it  *)
(* is made of, a request is granted or denied as the permissions of the    *)
(* user were at one instant between its question and its answer.           *)
(***************************************************************************)
CONSTANTS
    Clients,
    Subjects,      \* triples of a user, a tenant and a permission
    None

VARIABLES
    allowed,       \* the subjects that are allowed now
    asked,         \* [Clients -> the subject in question, or None]
    answer         \* [Clients -> the answer so far]

Answers == {"none", "granted", "denied", "failed"}

Init ==
    /\ allowed \in SUBSET Subjects
    /\ asked = [c \in Clients |-> None]
    /\ answer = [c \in Clients |-> "none"]

Ask(c, x) ==
    /\ asked[c] = None
    /\ asked' = [asked EXCEPT ![c] = x]
    /\ UNCHANGED <<allowed, answer>>

Answer(c, a) ==
    /\ asked[c] # None /\ answer[c] = "none"
    /\ answer' = [answer EXCEPT ![c] = a]
    /\ UNCHANGED <<allowed, asked>>

Decide(c) == Answer(c, IF asked[c] \in allowed THEN "granted" ELSE "denied")

\* A server error is neither yes nor no.
Fail(c) == Answer(c, "failed")

\* The request is over, or has been given up.
Forget(c) ==
    /\ asked' = [asked EXCEPT ![c] = None]
    /\ answer' = [answer EXCEPT ![c] = "none"]
    /\ UNCHANGED allowed

Change ==
    /\ allowed' \in SUBSET Subjects
    /\ UNCHANGED <<asked, answer>>

Next ==
    \/ \E c \in Clients : Decide(c) \/ Fail(c) \/ Forget(c)
    \/ \E c \in Clients, x \in Subjects : Ask(c, x)
    \/ Change

Spec == Init /\ [][Next]_<<allowed, asked, answer>>
=============================================================================
