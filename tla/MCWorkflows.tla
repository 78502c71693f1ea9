---------------------------- MODULE MCWorkflows -----------------------------
(***************************************************************************)
(* The workflows on the repository's default policy, with the two replicas *)
(* of k8s/worker-deployment.yaml and one employee.                         *)
(***************************************************************************)
EXTENDS Workflows, DefaultPolicy, TLC

CONSTANTS ada, nick, w1, w2

Ev(type, dept, status) ==
    [type |-> type,
     employee |-> [email |-> ada, dept |-> dept, title |-> "none",
                   status |-> status]]

\* No agent reaches the workflows.
MCBotUser == <<>>

MCFeed ==
    { Ev("joiner", "SRE", "active"),
      Ev("mover", "Sales", "active"),
      Ev("mover", "SRE", "terminated"),
      Ev("leaver", "SRE", "terminated"),
      Ev("leaver", "SRE", "active") }

\* For the liveness run, which has all three workflows at once.
MCFeedJoiner == {Ev("joiner", "SRE", "active")}

\* On the escalation path of SRE, and on nobody else's; the starter's request
\* for it-admin is on no path at all and only ever waits.
MCRequest == {[user |-> ada, requested |-> "db-readonly"]}

\* The replicas are interchangeable in the safety runs.
MCSymmetry == Permutations({w1, w2})

Text(words, email, named) == [words |-> words, email |-> email, named |-> named]

\* The e-mail of a ticket comes before the name.
MCTickets == {Text({"lock"}, ada, nick)}

=============================================================================
