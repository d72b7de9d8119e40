---------------------------- MODULE StaffAccess ----------------------------
(***************************************************************************)
(* Staff accounts, the tenants they may see and the throttle of the login  *)
(* (routers/users.py, access.py, routers/auth.py, auth_throttle.py,        *)
(* routers/tenants.py).  An edit of a user reads the row and its grants    *)
(* without a lock and writes the columns it changed when it commits; the   *)
(* throttle's rows are locked, one short transaction per step of a login.  *)
(*                                                                         *)
(* Bounds: one account besides the admin that edits it, one source         *)
(* address; the grants of an edit are deleted and inserted in one step.    *)
(***************************************************************************)
EXTENDS Naturals, FiniteSets

CONSTANTS StaffTenants,    \* tenants that may be created
          Logins,          \* concurrent login requests
          Edits,           \* concurrent requests of admins
          FailureLimit,    \* login_failure_limit
          IpLimit          \* login_ip_limit

ASSUME StaffAssumption == FailureLimit \in Nat \ {0} /\ IpLimit \in Nat \ {0} /\ IsFiniteSet(Logins)

VARIABLES
    account,   \* User and its ViewerTenantGrant rows
    tenants,   \* Tenant rows
    edit,      \* per edit: the row and the grants it read
    guard,     \* AuthThrottle rows of the account's name and of the address
    login      \* per login request: how far it is

staffVars == <<account, tenants, edit, guard, login>>

Roles == {"admin", "user", "viewer"}
Account == [role : Roles, active : BOOLEAN, all : BOOLEAN, expires : {"never", "later", "passed"},
            grants : SUBSET StaffTenants]
NoScope == [all |-> FALSE, expires |-> "never", grants |-> {}]
NewViewer == [role |-> "viewer", active |-> TRUE, all |-> FALSE, expires |-> "never", grants |-> {}]

StaffTypeOK ==
    /\ account \in Account
    /\ tenants \in SUBSET StaffTenants /\ account.grants \subseteq tenants
    /\ edit \in [Edits -> [open : BOOLEAN, read : Account]]
    /\ guard \in [failures : Nat, locked : BOOLEAN, attempts : Nat, ipLocked : BOOLEAN, guessed : Nat]
    /\ login \in [Logins -> {"free", "counted", "allowed", "failed", "right"}]

InitStaff ==
    /\ account = NewViewer /\ tenants = {}
    /\ edit = [e \in Edits |-> [open |-> FALSE, read |-> NewViewer]]
    /\ guard = [failures |-> 0, locked |-> FALSE, attempts |-> 0, ipLocked |-> FALSE, guessed |-> 0]
    /\ login = [l \in Logins |-> "free"]

-----------------------------------------------------------------------------
(* Tenants and accounts *)

\* create_tenant.  delete_tenant always refuses.
CreateTenant(t) ==
    /\ t \notin tenants
    /\ tenants' = tenants \cup {t}
    /\ UNCHANGED <<account, edit, guard, login>>

\* normalize_viewer_scope: everything excludes a selection.
ScopeIsValid(all, grants) == ~(all /\ grants # {})

\* The scope that update_user leaves a user of this role with.  A request
\* that names none keeps a viewer's scope and clears that of a new viewer.
ScopeAfter(read, role, named, scope) ==
    IF role # "viewer" THEN NoScope
    ELSE IF named THEN scope
    ELSE IF read.role = "viewer" THEN [all |-> read.all, expires |-> read.expires, grants |-> read.grants]
    ELSE NoScope

\* The columns that a request changed, over the row as it is by now.
Changed(read, now, new) == IF new = read THEN now ELSE new

EditRead(e) ==
    /\ ~edit[e].open
    /\ edit' = [edit EXCEPT ![e] = [open |-> TRUE, read |-> account]]
    /\ UNCHANGED <<account, tenants, guard, login>>

\* update_user.  The grants are only touched when the scope is named, the
\* role changes, or the user is no viewer.
UpdateUser(e) ==
    /\ edit[e].open
    /\ \E role \in Roles, active \in BOOLEAN, named \in BOOLEAN, all \in BOOLEAN,
          grants \in SUBSET tenants, expires \in {"never", "later", "passed"} :
       LET read == edit[e].read
           scope == ScopeAfter(read, role, named, [all |-> all, expires |-> expires, grants |-> grants])
           touched == named \/ role # read.role \/ role # "viewer"
       IN /\ named => role = "viewer" /\ ScopeIsValid(all, grants)
          /\ ~named => ~all /\ grants = {} /\ expires = "never"
          /\ account' = [role |-> Changed(read.role, account.role, role),
                         active |-> Changed(read.active, account.active, active),
                         all |-> Changed(read.all, account.all, scope.all),
                         expires |-> Changed(read.expires, account.expires, scope.expires),
                         grants |-> IF touched THEN scope.grants ELSE account.grants]
    /\ edit' = [edit EXCEPT ![e] = [open |-> FALSE, read |-> NewViewer]]
    /\ UNCHANGED <<tenants, guard, login>>

\* viewer_expires_at passes.
AccessExpires ==
    /\ account.expires = "later"
    /\ account' = [account EXCEPT !.expires = "passed"]
    /\ UNCHANGED <<tenants, edit, guard, login>>

\* is_internal_operator, viewer_is_expired, assert_staff_usable
Internal(u) == u.role \in {"admin", "user"}
ViewerExpired(u) == u.role = "viewer" /\ u.expires = "passed"
Usable(u) == u.active /\ ~ViewerExpired(u)

\* can_access_tenant, which tenant_scope_clause and visible_tenant_ids repeat.
CanAccess(u, t) == t \in tenants /\ (Internal(u) \/ u.all \/ t \in u.grants)

-----------------------------------------------------------------------------
(* Login *)

\* Mutated form: the lockout comes one failure later.
Locks_Late(n) == n > FailureLimit + 1

\* _record_attempt: the attempt over the limit locks.
Locks(n) == n > FailureLimit

\* assert_login_allowed, the row of the address.
CountAttempt(l) ==
    /\ login[l] = "free"
    /\ LET over == guard.attempts + 1 > IpLimit IN
       IF guard.ipLocked THEN UNCHANGED <<guard, login>>
       ELSE /\ guard' = [guard EXCEPT !.attempts = @ + 1, !.ipLocked = over]
            /\ login' = IF over THEN login ELSE [login EXCEPT ![l] = "counted"]
    /\ UNCHANGED <<account, tenants, edit>>

\* assert_login_allowed, the row of the name.
AllowLogin(l) ==
    /\ login[l] = "counted"
    /\ login' = [login EXCEPT ![l] = IF guard.locked THEN "free" ELSE "allowed"]
    /\ UNCHANGED <<account, tenants, edit, guard>>

\* login: a disabled account fails like a wrong password, whose check is
\* counted here; an expired viewer is denied without a failure.
VerifyPassword(l) ==
    /\ login[l] = "allowed"
    /\ \E right \in BOOLEAN :
       /\ login' = [login EXCEPT ![l] = IF ~account.active \/ ~right THEN "failed"
                                        ELSE IF Usable(account) THEN "right" ELSE "free"]
       /\ guard' = [guard EXCEPT !.guessed = IF account.active /\ ~right THEN @ + 1 ELSE @]
    /\ UNCHANGED <<account, tenants, edit>>

\* Bound: counts well over the limit are not told apart.
RecordFailure(l) ==
    /\ login[l] = "failed"
    /\ login' = [login EXCEPT ![l] = "free"]
    /\ guard' = IF guard.locked THEN guard
                ELSE [guard EXCEPT !.failures = IF @ > FailureLimit + 1 THEN @ ELSE @ + 1,
                                   !.locked = Locks(guard.failures + 1)]
    /\ UNCHANGED <<account, tenants, edit>>

RecordSuccess(l) ==
    /\ login[l] = "right"
    /\ login' = [login EXCEPT ![l] = "free"]
    /\ guard' = [guard EXCEPT !.failures = 0, !.locked = FALSE, !.guessed = 0]
    /\ UNCHANGED <<account, tenants, edit>>

\* A window passes (_reset_window at the next attempt) or a lockout ends.
FailureWindowPasses ==
    /\ ~guard.locked /\ guard.failures > 0
    /\ guard' = [guard EXCEPT !.failures = 0, !.guessed = 0]
    /\ UNCHANGED <<account, tenants, edit, login>>

LoginLockEnds ==
    /\ guard.locked
    /\ guard' = [guard EXCEPT !.locked = FALSE, !.guessed = 0]
    /\ UNCHANGED <<account, tenants, edit, login>>

AddressWindowPasses ==
    /\ guard.attempts > 0
    /\ guard' = [guard EXCEPT !.attempts = 0, !.ipLocked = FALSE]
    /\ UNCHANGED <<account, tenants, edit, login>>

NextStaff ==
    \/ \E t \in StaffTenants : CreateTenant(t)
    \/ \E e \in Edits : EditRead(e) \/ UpdateUser(e)
    \/ AccessExpires
    \/ \E l \in Logins : CountAttempt(l) \/ AllowLogin(l) \/ VerifyPassword(l)
                            \/ RecordFailure(l) \/ RecordSuccess(l)
    \/ FailureWindowPasses \/ LoginLockEnds \/ AddressWindowPasses

-----------------------------------------------------------------------------
\* The lockout is checked before a password is verified and its failure is
\* counted after: between two resets at most login_failure_limit wrong
\* passwords are verified, and one more per login request under way.
GuessesAreBounded == guard.guessed <= FailureLimit + Cardinality(Logins)
=============================================================================
