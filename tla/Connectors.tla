----------------------------- MODULE Connectors -----------------------------
(***************************************************************************)
(* How vendor messages become HR events: the Rippling and Okta connectors  *)
(* and the validation of the event stream (go/internal/hris).  Names, ids, *)
(* prior departments and timestamps are carried along and never read.      *)
(***************************************************************************)
EXTENDS Subjects, SequencesExt

CONSTANT Unset    \* the empty department or title

ASSUME UnsetAssumption == Unset \in Department \cap Title

\* The Rippling employee resource.
RipplingEmployee ==
    [email : Human \cup {NoEmail}, dept : Department, title : Title,
     employment : {"ACTIVE", "INACTIVE"}]

RipplingEvents ==
    {"employee.created", "employee.rehired", "employee.terminated",
     "employee.updated", "employee.department_changed",
     "employee.manager_changed", "payroll.closed"}

OktaEvents ==
    {"user.lifecycle.activate", "user.lifecycle.create",
     "user.lifecycle.deactivate", "user.lifecycle.suspend",
     "group.user_membership.add", "group.user_membership.remove",
     "user.session.start"}

\* A webhook delivery is a batch; targets are the e-mails an Okta event names.
Message ==
    [from : {"rippling webhook"},
     batch : Seq([event : RipplingEvents, data : RipplingEmployee])]
    \cup [from : {"rippling poll"}, batch : Seq(RipplingEmployee)]
    \cup [from : {"okta hook"}, challenge : BOOLEAN,
          batch : Seq([event : OktaEvents, targets : Seq(Human \cup {NoEmail})])]

-----------------------------------------------------------------------------
\* Mutants of StatusFor: Rippling's own word is passed on; the type decides.
StatusAsIs(type, employment) == employment
StatusForType(type, employment) ==
    IF type = "leaver" THEN "terminated" ELSE "active"

StatusFor(type, employment) ==
    IF type = "leaver" \/ employment = "INACTIVE" THEN "terminated" ELSE "active"

FromRippling(type, e) ==
    [type |-> type,
     employee |-> [email |-> e.email, dept |-> e.dept, title |-> e.title,
                   status |-> StatusFor(type, e.employment)]]

\* mapEvent of Rippling; an event without a type is skipped.
RipplingTypes(event) ==
    CASE event \in {"employee.created", "employee.rehired"} -> {"joiner"}
      [] event = "employee.terminated"                      -> {"leaver"}
      [] event \in {"employee.updated", "employee.department_changed",
                    "employee.manager_changed"}             -> {"mover"}
      [] OTHER                                              -> {}

RipplingParse(batch) ==
    FlattenSeq([n \in DOMAIN batch |->
        SetToSeq({FromRippling(type, batch[n].data) :
                     type \in RipplingTypes(batch[n].event)})])

\* Mutant of RipplingPoll: everybody who changed has moved.
RipplingPollMovers(employees) ==
    [n \in DOMAIN employees |-> FromRippling("mover", employees[n])]

\* Poll, with a transport: those modified since, as movers or leavers.
RipplingPoll(employees) ==
    [n \in DOMAIN employees |->
        FromRippling(IF employees[n].employment = "INACTIVE" THEN "leaver"
                                                            ELSE "mover",
                     employees[n])]

\* mapEvent of Okta: type and status.
OktaTypes(event) ==
    CASE event \in {"user.lifecycle.activate", "user.lifecycle.create"} ->
           {<<"joiner", "active">>}
      [] event \in {"user.lifecycle.deactivate", "user.lifecycle.suspend"} ->
           {<<"leaver", "terminated">>}
      [] event \in {"group.user_membership.add",
                    "group.user_membership.remove"} -> {<<"mover", "active">>}
      [] OTHER -> {}

\* The verification handshake carries no events; the first target is the user,
\* and neither department nor title is known.
OktaParse(hook) ==
    IF hook.challenge THEN <<>>
    ELSE FlattenSeq([n \in DOMAIN hook.batch |->
        LET e == hook.batch[n] IN
        IF e.targets = <<>> THEN <<>>
        ELSE SetToSeq({[type |-> t[1],
                        employee |-> [email |-> Head(e.targets), dept |-> Unset,
                                      title |-> Unset, status |-> t[2]]] :
                          t \in OktaTypes(e.event)})])

\* The events a message contributes.
Canonical(m) ==
    CASE m.from = "rippling webhook" -> RipplingParse(m.batch)
      [] m.from = "rippling poll"    -> RipplingPoll(m.batch)
      [] m.from = "okta hook"        -> OktaParse(m)

\* Mutant of ParseStream: nothing is validated.
ParseStreamUnchecked(events) == {events}

\* One malformed event and the whole stream is refused.
ParseStream(events) ==
    IF \A n \in DOMAIN events : Validate(events[n]) THEN {events} ELSE {}

=============================================================================
