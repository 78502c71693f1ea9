----------------------------- MODULE Offboarding ----------------------------
(***************************************************************************)
(* What the controller promises about each identity, with no Teleport, no  *)
(* calls and no retries: access changes only to a role set that some HR    *)
(* record of that identity entitles it to; an identity is severed only if  *)
(* HR terminates it; and once severed it never has access again.           *)
(***************************************************************************)
CONSTANTS Identity,
          Entitlement,   \* [Identity -> the role sets its records entitle it to]
          Leavers        \* the identities HR terminates

VARIABLES access,        \* [Identity -> the roles it can use]
          severed        \* the identities cut off for good

Init ==
    /\ access = [i \in Identity |-> {}]
    /\ severed = {}

Grant(i) ==
    /\ i \notin severed
    /\ \E R \in Entitlement[i] : access' = [access EXCEPT ![i] = R]
    /\ UNCHANGED severed

Sever(i) ==
    /\ i \in Leavers
    /\ severed' = severed \cup {i}
    /\ access' = [access EXCEPT ![i] = {}]

Next == \E i \in Identity : Grant(i) \/ Sever(i)

Spec == Init /\ [][Next]_<<access, severed>>

=============================================================================
