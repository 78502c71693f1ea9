------------------------------- MODULE Policy -------------------------------
(***************************************************************************)
(* Access as a pure function of the identity record (go/internal/policy).  *)
(* Role lists are sorted and free of duplicates in the code; here they are *)
(* sets.  A department, title or capability the code's maps do not mention *)
(* is mapped to the empty set, which is what a Go map lookup yields.       *)
(***************************************************************************)
EXTENDS Subjects

CONSTANTS Role,              \* Teleport roles
          DepartmentRoles,   \* Policy.DepartmentRoles
          TitleRoles,        \* Policy.TitleRoles
          AutoApprovable,    \* Policy.AutoApprovableRoles: held role -> roles
          ScopeRoles         \* Policy.scopeRoles(): capability -> roles

ASSUME PolicyAssumption ==
    /\ DepartmentRoles \in [Department -> SUBSET Role]
    /\ TitleRoles \in [Title -> SUBSET Role]
    /\ AutoApprovable \in [Role -> SUBSET Role]
    /\ ScopeRoles \in [Capability -> SUBSET Role]

\* Mutant of RolesFor: the status is not looked at.
RolesForAnyStatus(emp) == DepartmentRoles[emp.dept] \cup TitleRoles[emp.title]

RolesFor(emp) ==
    IF emp.status = "terminated"
    THEN {}
    ELSE DepartmentRoles[emp.dept] \cup TitleRoles[emp.title]

RolesForAgent(s) ==
    IF s.status = "terminated"
    THEN {}
    ELSE UNION {ScopeRoles[c] : c \in s.scope}

CanAutoApprove(held, requested) ==
    \E h \in held : requested \in AutoApprovable[h]

=============================================================================
