------------------------------- MODULE Accounts -------------------------------
(***************************************************************************)
(* Accounts of the panel: the owner's changes of roles and deletions (api/ *)
(* admin/users/[userId]/route.ts), signing up (auth.ts) and the            *)
(* manage-owner script.  The pictures are in module Avatars.               *)
(*                                                                         *)
(* A transaction is one step: those of the owner's requests exclude each   *)
(* other by the lock on the owner's row.  An owner's request keeps one     *)
(* connection of the pool from its beginning to its end, and its           *)
(* authorization takes another for a while.                                *)
(***************************************************************************)
EXTENDS Naturals, FiniteSets

CONSTANTS
    User,
    Request,    \* requests under way at once
    PoolSize,   \* connections of getAuthPool
    MaxChanges  \* bound: owner's requests

VARIABLES
    role,     \* of each account; "none": its row in aircheck_access_roles is missing
    hooked,   \* the accounts whose sign-up hook has run
    audit,    \* new_role of the last entry about the account, "" when there is none
    request,
    changes

accounts == <<role, hooked, audit>>
vars == <<role, hooked, audit, request, changes>>

Roles == {"user", "operator", "owner"}
Ready == [at |-> "ready", user |-> CHOOSE u \in User : TRUE, role |-> "user"]

Asked == {"patch", "delete", "patching", "deleting", "cleaning"}

TypeOK ==
    /\ role \in [User -> Roles \cup {"absent", "none"}]
    /\ hooked \subseteq User
    /\ audit \in [User -> Roles \cup {""}]
    /\ request \in [Request -> [at : {"ready"} \cup Asked, user : User, role : Roles]]
    /\ changes \in 0..MaxChanges
    /\ Cardinality({r \in Request : request[r].at \in Asked}) <= PoolSize

Init ==
    /\ role = [u \in User |-> "absent"] /\ hooked = {}
    /\ audit = [u \in User |-> ""]
    /\ request = [r \in Request |-> Ready] /\ changes = 0

Exists(u) == role[u] # "absent"
Fresh(u) == ~Exists(u) /\ u \notin hooked
HasOwner == \E u \in User : role[u] = "owner"
Goes(r, step) == request' = [request EXCEPT ![r].at = step]
Ends(r) == request' = [request EXCEPT ![r] = Ready]

-----------------------------------------------------------------------------
(* Becoming a user, and the owner *)

SignUp(u) ==
    /\ Fresh(u)
    /\ role' = [role EXCEPT ![u] = "none"]
    /\ UNCHANGED <<hooked, audit, request, changes>>

\* Mistake: the row is written whether or not there is one.
HookOverwrites(u) ==
    /\ Exists(u) /\ u \notin hooked
    /\ hooked' = hooked \cup {u}
    /\ role' = [role EXCEPT ![u] = "user"]
    /\ UNCHANGED <<audit, request, changes>>

\* user.create.after: in its own statement, after the account is there.
Hook(u) ==
    /\ Exists(u) /\ u \notin hooked
    /\ hooked' = hooked \cup {u}
    /\ role' = [role EXCEPT ![u] = IF @ = "none" THEN "user" ELSE @]
    /\ UNCHANGED <<audit, request, changes>>

\* manage-owner.mjs bootstrap, of a new account or of one that exists.
Bootstrap(u) ==
    /\ ~HasOwner
    /\ Exists(u) \/ Fresh(u)
    /\ role' = [role EXCEPT ![u] = "owner"]
    /\ audit' = [audit EXCEPT ![u] = "owner"]
    /\ hooked' = IF Exists(u) THEN hooked ELSE hooked \cup {u}
    /\ UNCHANGED <<request, changes>>

-----------------------------------------------------------------------------
(* The owner's requests *)

Unused == PoolSize - Cardinality({r \in Request : request[r].at \in Asked})

\* PATCH and DELETE begin by taking a connection.
Enter(r) ==
    /\ request[r].at = "ready" /\ Unused > 0 /\ changes < MaxChanges
    /\ HasOwner
    /\ \E u \in User, new \in {"user", "operator"} :
        \/ request' = [request EXCEPT ![r] = [Ready EXCEPT !.at = "patch", !.user = u,
                                                           !.role = new]]
        \/ request' = [request EXCEPT ![r] = [Ready EXCEPT !.at = "delete", !.user = u]]
    /\ changes' = changes + 1
    /\ UNCHANGED accounts

\* requireOwner takes a second one to read the session and the role.
Authorize(r) ==
    /\ request[r].at \in {"patch", "delete"} /\ Unused > 0
    /\ Goes(r, IF request[r].at = "patch" THEN "patching" ELSE "deleting")
    /\ UNCHANGED <<accounts, changes>>

\* Mistake: it is waited for without an end.
WaitsOn(r) == FALSE /\ UNCHANGED vars

\* connectionTimeoutMillis passes: 503, and the first connection is released.
TimesOut(r) ==
    /\ request[r].at \in {"patch", "delete"} /\ Unused = 0
    /\ Ends(r)
    /\ UNCHANGED <<accounts, changes>>

\* Refused: a wrong body or session (400, 401, 403), and always when the account is
\* gone or is the owner's (404, 403).
Refuse(r) ==
    /\ request[r].at \in {"patching", "deleting"}
    /\ Ends(r)
    /\ UNCHANGED <<accounts, changes>>

Patch(r) ==
    LET u == request[r].user
    IN /\ request[r].at = "patching"
       /\ role[u] \notin {"absent", "owner"}
       /\ role' = [role EXCEPT ![u] = request[r].role]
       /\ audit' = [audit EXCEPT ![u] = request[r].role]
       /\ Ends(r)
       /\ UNCHANGED <<hooked, changes>>

\* The row of the account takes its role with it; the audit keeps its entries.
Delete(r) ==
    LET u == request[r].user
    IN /\ request[r].at = "deleting"
       /\ role[u] \notin {"absent", "owner"}
       /\ role' = [role EXCEPT ![u] = "absent"]
       /\ hooked' = hooked \cup {u}
       /\ Goes(r, "cleaning")
       /\ UNCHANGED <<audit, changes>>

\* removeUserAvatars, after the transaction; then the connection is released.
Clean(r) ==
    /\ request[r].at = "cleaning"
    /\ Ends(r)
    /\ UNCHANGED <<accounts, changes>>

Next ==
    \/ \E u \in User : SignUp(u) \/ Hook(u) \/ Bootstrap(u)
    \/ \E r \in Request :
        \/ Enter(r) \/ Authorize(r) \/ TimesOut(r) \/ Refuse(r) \/ Patch(r)
        \/ Delete(r) \/ Clean(r)

Spec == Init /\ [][Next]_vars

\* A request under way goes on: the database answers, or the wait for a
\* connection times out.
Step(r) == Authorize(r) \/ TimesOut(r) \/ Refuse(r) \/ Patch(r) \/ Delete(r) \/ Clean(r)
Fairness == \A r \in Request : WF_vars(Step(r))
FairSpec == Spec /\ Fairness

-----------------------------------------------------------------------------
(* Properties *)

\* The audit explains the roles: an account has the role its last entry gave
\* it, whatever its own sign-up hook and other requests do at the same time
\* (auth.ts:66, ON CONFLICT DO NOTHING).
AuditExplainsRoles ==
    \A u \in User : Exists(u) =>
        IF audit[u] = "" THEN role[u] \in {"none", "user"} ELSE role[u] = audit[u]

\* Owner's requests end, although each keeps a connection while it waits for
\* another and together they may hold them all.
AdminEnds == \A r \in Request : []<>(request[r].at \notin Asked)
=============================================================================
