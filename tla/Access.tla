------------------------------- MODULE Access -------------------------------
(***************************************************************************)
(* Users, their roles, and the administration that must not remove the     *)
(* last active ADMIN.                                                      *)
(*                                                                         *)
(* A request to deactivate a user or to take ADMIN away locks the row of   *)
(* that role, counts the active administrators, and only then writes; each *)
(* of these is a step, and others run in between.  What can only add an    *)
(* administrator takes no lock.  Permissions are those of the roles, read  *)
(* when the request begins.                                                *)
(***************************************************************************)
EXTENDS Naturals

CONSTANTS
    Users,
    Roles,
    Admin,      \* the role that is protected
    Grants,     \* role_permissions
    Removals,   \* requests that take something away; each runs once
    None

ASSUME RolesAssumption ==
    /\ Admin \in Roles
    /\ {"users.manage", "users.manage_roles", "damage.review"} \subseteq Grants[Admin]
ASSUME NoneAssumption == None \notin Users \cup Removals

VARIABLES
    known,      \* users
    active,     \* users.is_active
    roles,      \* user_roles
    adminLock,  \* the request that holds the row lock of the role, if any
    removal     \* what each request is about and where it is

accessVars == <<known, active, roles, adminLock, removal>>

Removal == [pc: {"idle", "lock", "check", "write", "done"},
            kind: {"deactivate", "revoke"}, user: Users \cup {None}]

AccessTypeOK ==
    /\ known \in SUBSET Users
    /\ active \in SUBSET known
    /\ roles \in [Users -> SUBSET Roles]
    /\ adminLock \in Removals \cup {None}
    /\ removal \in [Removals -> Removal]

AccessInit ==
    /\ known = {} /\ active = {}
    /\ roles = [u \in Users |-> {}]
    /\ adminLock = None
    /\ removal = [q \in Removals |-> [pc |-> "idle", kind |-> "revoke", user |-> None]]

ActiveAdmins == {u \in active : Admin \in roles[u]}

\* require_permission: a user that is deactivated is refused.
May(u, permission) == u \in active /\ \E r \in roles[u] : permission \in Grants[r]

-----------------------------------------------------------------------------
(* What takes no lock.                                                     *)

\* The first request with a token of Supabase creates its user.
SignIn(u) ==
    /\ u \notin known
    /\ known' = known \cup {u} /\ active' = active \cup {u}
    /\ UNCHANGED <<roles, adminLock, removal>>

\* bootstrap_admin, on the command line.
Bootstrap(u) ==
    /\ known' = known \cup {u} /\ active' = active \cup {u}
    /\ roles' = [roles EXCEPT ![u] = @ \cup {Admin}]
    /\ UNCHANGED <<adminLock, removal>>

\* Mutant: it is not asked whether there is such a user.
ActivateAny(actor, u) ==
    /\ May(actor, "users.manage") /\ u \notin active
    /\ active' = active \cup {u}
    /\ UNCHANGED <<known, roles, adminLock, removal>>

Activate(actor, u) ==
    /\ May(actor, "users.manage") /\ u \in known \ active
    /\ active' = active \cup {u}
    /\ UNCHANGED <<known, roles, adminLock, removal>>

AssignRole(actor, u, r) ==
    /\ May(actor, "users.manage_roles") /\ u \in known /\ r \notin roles[u]
    /\ roles' = [roles EXCEPT ![u] = @ \cup {r}]
    /\ UNCHANGED <<known, active, adminLock, removal>>

RevokeOther(actor, u, r) ==
    /\ May(actor, "users.manage_roles") /\ u \in known /\ r \in roles[u] \ {Admin}
    /\ roles' = [roles EXCEPT ![u] = @ \ {r}]
    /\ UNCHANGED <<known, active, adminLock, removal>>

-----------------------------------------------------------------------------
(* What takes the lock.                                                    *)

Unlocked(q) == IF adminLock = q THEN None ELSE adminLock

Goto(q, pc) == removal' = [removal EXCEPT ![q].pc = pc]

\* set_active: the user is read here, and has to be active.
BeginDeactivate(q, actor, u) ==
    /\ removal[q].pc = "idle"
    /\ May(actor, "users.manage") /\ u \in active
    /\ removal' = [removal EXCEPT ![q] = [pc |-> "lock", kind |-> "deactivate", user |-> u]]
    /\ UNCHANGED <<known, active, roles, adminLock>>

BeginRevoke(q, actor, u) ==
    /\ removal[q].pc = "idle"
    /\ May(actor, "users.manage_roles") /\ u \in known
    /\ removal' = [removal EXCEPT ![q] = [pc |-> "lock", kind |-> "revoke", user |-> u]]
    /\ UNCHANGED <<known, active, roles, adminLock>>

\* Mutant: the row is read, not locked.
ReadAdminRole(q) ==
    /\ removal[q].pc = "lock"
    /\ Goto(q, "check")
    /\ UNCHANGED <<known, active, roles, adminLock>>

LockAdminRole(q) ==
    /\ removal[q].pc = "lock" /\ adminLock = None
    /\ adminLock' = q
    /\ Goto(q, "check")
    /\ UNCHANGED <<known, active, roles>>

IsLastActiveAdmin(u) == ActiveAdmins = {u}

CheckLast(q) ==
    /\ removal[q].pc = "check"
    /\ IF IsLastActiveAdmin(removal[q].user)
       THEN Goto(q, "done") /\ adminLock' = Unlocked(q)
       ELSE Goto(q, "write") /\ UNCHANGED adminLock
    /\ UNCHANGED <<known, active, roles>>

Remove(q) ==
    LET u == removal[q].user
    IN  /\ removal[q].pc = "write"
        /\ IF removal[q].kind = "deactivate"
           THEN active' = active \ {u} /\ UNCHANGED roles
           ELSE roles' = [roles EXCEPT ![u] = @ \ {Admin}] /\ UNCHANGED active
        /\ Goto(q, "done") /\ adminLock' = Unlocked(q)
        /\ UNCHANGED known

\* An error, or the end of the process.
Abandon(q) ==
    /\ removal[q].pc \in {"lock", "check", "write"}
    /\ Goto(q, "done") /\ adminLock' = Unlocked(q)
    /\ UNCHANGED <<known, active, roles>>

-----------------------------------------------------------------------------
AccessNext ==
    \/ \E u \in Users :
          \/ SignIn(u) \/ Bootstrap(u)
          \/ \E actor \in Users :
                \/ Activate(actor, u)
                \/ \E r \in Roles : AssignRole(actor, u, r) \/ RevokeOther(actor, u, r)
                \/ \E q \in Removals : BeginDeactivate(q, actor, u) \/ BeginRevoke(q, actor, u)
    \/ \E q \in Removals : LockAdminRole(q) \/ CheckLast(q) \/ Remove(q) \/ Abandon(q)

\* Once there is an active administrator there always is one, whoever removes
\* whom at the same time, themselves included: is_last_active_admin is asked
\* under the lock of the role.
AdminRemains == [][ActiveAdmins # {} => ActiveAdmins' # {}]_accessVars
=============================================================================
