---------------------------- MODULE MCCommandLine ---------------------------
(***************************************************************************)
(* The pipeline on the default policy, with messages of every kind about   *)
(* bob, some about alice, dave and erin, on whom failures are planted, a   *)
(* record without an e-mail, an event nobody maps and a handshake.         *)
(***************************************************************************)
EXTENDS CommandLine, MCAnswers, DefaultPolicy

MCHuman == {"alice", "bob", "carol", "dave", "erin", "frank"}

MCBotUser == [a \in Agent |-> "bot-" \o a]

Rec(h, dept, employment) ==
    [email |-> h, dept |-> dept, title |-> "none", employment |-> employment]

Hook(event, rec) ==
    [from |-> "rippling webhook", batch |-> <<[event |-> event, data |-> rec]>>]

Okta(event, targets) ==
    [from |-> "okta hook", challenge |-> FALSE,
     batch |-> <<[event |-> event, targets |-> targets]>>]

Poll(recs) == [from |-> "rippling poll", batch |-> recs]

MCInbox ==
    { Hook("employee.created", Rec("bob", "SRE", "ACTIVE")),
      Hook("employee.updated", Rec("bob", "SRE", "INACTIVE")),
      Hook("employee.terminated", Rec("bob", "SRE", "ACTIVE")),
      Poll(<<Rec("bob", "Sales", "ACTIVE"), Rec("alice", "IT", "ACTIVE"),
             Rec("dave", "SRE", "ACTIVE")>>),
      Poll(<<Rec("bob", "SRE", "INACTIVE")>>),
      Poll(<<Rec("alice", "SRE", "INACTIVE"), Rec("dave", "SRE", "INACTIVE"),
             Rec("erin", "SRE", "INACTIVE")>>),
      Poll(<<Rec("dave", "SRE", "ACTIVE"), Rec(NoEmail, "Sales", "ACTIVE")>>),
      Okta("group.user_membership.add", <<"bob">>),
      Okta("user.lifecycle.suspend", <<"bob", "alice">>),
      [Okta("user.lifecycle.deactivate", <<"bob">>) EXCEPT !.batch =
          @ \o <<[event |-> "user.session.start", targets |-> <<"bob">>],
                 [event |-> "user.lifecycle.create", targets |-> <<>>],
                 [event |-> "user.lifecycle.create", targets |-> <<"alice">>]>>],
      [Okta("user.lifecycle.create", <<"dave">>) EXCEPT !.challenge = TRUE],
      Hook("payroll.closed", Rec("bob", "SRE", "ACTIVE")) }

=============================================================================
