------------------------------ MODULE MCConsole -----------------------------
(***************************************************************************)
(* The console on the built-in scenarios, with live requests about one     *)
(* person of each: three whom the seed leaves with findings, two without.  *)
(***************************************************************************)
EXTENDS Console, Scenarios, DefaultPolicy, Sequences, TLC

MCBotUser == [a \in Agent |-> "bot-" \o a]

\* Equal to c: TLC keeps its functions as tables, and loads them quickly.
Tabled(c) == [c EXCEPT !.users = <<>> @@ @, !.entitled = <<>> @@ @,
                       !.known = <<>> @@ @, !.bots = <<>> @@ @]

MCSeed ==
    ("baseline"           :> Tabled(SeedOf("baseline"))) @@
    ("clean"              :> Tabled(SeedOf("clean"))) @@
    ("offboarding-crisis" :> Tabled(SeedOf("offboarding-crisis"))) @@
    ("rogue-agent"        :> Tabled(SeedOf("rogue-agent"))) @@
    ("byod-sprawl"        :> Tabled(SeedOf("byod-sprawl")))

MCLive ==
    [id \in DOMAIN MCSeed |->
        CASE id = "baseline"           -> {"dave"}
          [] id = "clean"              -> {"evan"}
          [] id = "offboarding-crisis" -> {"quinn"}
          [] id = "rogue-agent"        -> {"mira"}
          [] id = "byod-sprawl"        -> {"amy"}]

\* Unmanaged and failing is to every detector what unmanaged and passing is.
MCLivePosture == {[managed |-> TRUE, compliant |-> TRUE],
                  [managed |-> TRUE, compliant |-> FALSE],
                  [managed |-> FALSE, compliant |-> TRUE]}

=============================================================================
