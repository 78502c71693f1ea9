------------------------------ MODULE Subjects ------------------------------
(***************************************************************************)
(* The records the controller is driven by: HR employees and events        *)
(* (go/internal/hris) and AI-agent subjects and events                     *)
(* (go/internal/subject).  Names, timestamps, the event source and the     *)
(* prior department or scope only reach log text, so they are left out.    *)
(***************************************************************************)

CONSTANTS Human,        \* e-mail addresses of people
          NoEmail,      \* the empty e-mail of a malformed record
          Department,   \* HR departments, those unknown to the policy included
          Title,        \* HR titles, those unknown to the policy included
          Agent,        \* names of AI agents
          Capability    \* capabilities an agent may declare as its scope

ASSUME NoEmailAssumption == NoEmail \notin Human

\* Any other string decodes into the type as well; one value stands for all.
EventType == {"joiner", "mover", "leaver", "other"}
Status    == {"active", "terminated", "other"}

Employee == [email  : Human \cup {NoEmail},
             dept   : Department,
             title  : Title,
             status : Status]

Event == [type : EventType, employee : Employee]

\* Mutant of Validate: a leaver whose record is not terminated passes.
ValidateAnyLeaver(ev) ==
    /\ ev.type \in {"joiner", "mover", "leaver"}
    /\ ev.employee.email # NoEmail

\* What every event must satisfy before it may touch the access plane.
Validate(ev) ==
    /\ ev.type \in {"joiner", "mover", "leaver"}
    /\ ev.employee.email # NoEmail
    /\ ev.type = "leaver" => ev.employee.status = "terminated"

Subject == [kind   : {"human", "agent"},
            name   : Agent,
            scope  : SUBSET Capability,
            status : Status]

AgentEvent == [type : EventType, subject : Subject]

=============================================================================
