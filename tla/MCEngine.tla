------------------------------ MODULE MCEngine ------------------------------
(***************************************************************************)
(* The engine on the repository's default policy: one identity, three      *)
(* slots, and a feed that brings every case of Validate and of Reconcile:  *)
(* a joiner, a mover whose record is already terminated, a leaver, and a   *)
(* malformed leaver.  Identities do not interfere (EngineProofs has any    *)
(* number of them), late attempts on the same one do.                      *)
(***************************************************************************)
EXTENDS Engine, DefaultPolicy

CONSTANT ada

Ev(type, h, dept, status) ==
    [type |-> type,
     employee |-> [email |-> h, dept |-> dept, title |-> "none",
                   status |-> status]]

\* No agent reaches this half of the engine.
MCBotUser == <<>>

MCHuman == {ada}

MCFeed ==
    { Ev("joiner", ada, "Engineering", "active"),
      Ev("mover", ada, "SRE", "terminated"),
      Ev("leaver", ada, "SRE", "terminated"),
      Ev("leaver", ada, "SRE", "active") }

=============================================================================
