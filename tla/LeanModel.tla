----------------------------- MODULE LeanModel ------------------------------
(***************************************************************************)
(* The functional model in lean/LifecycleGuard, which the repository       *)
(* presents as the formal model of what the engine does: the state of one  *)
(* identity after one event, as a function of the record alone.            *)
(***************************************************************************)
EXTENDS Policy

\* A user's live state: UserState in Basic.lean.
UserState == [roles : SUBSET Role, locked : BOOLEAN]

HasAccess(u) == ~u.locked /\ u.roles # {}

Deprovisioned == [roles |-> {}, locked |-> TRUE]

\* reconcile in Basic.lean; its Status has only these two cases.
LeanReconcile(emp) ==
    CASE emp.status = "terminated" -> Deprovisioned
      [] emp.status = "active"     -> [roles |-> RolesFor(emp), locked |-> FALSE]

=============================================================================
