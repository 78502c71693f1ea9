------------------------------ MODULE Inventory -----------------------------
(***************************************************************************)
(* What Device Trust is promised: the inventory as one value.  A           *)
(* registration replaces whatever its owner had by one device at the end   *)
(* of the list; a load replaces the list.                                  *)
(***************************************************************************)
EXTENDS Sequences, Integers

CONSTANTS Owner, Posture,
          Seeds        \* the lists scenarios start from

Entry == [owner : Owner, posture : Posture]

VARIABLE inventory

\* The loop of scenario.go, UpsertDevice: what it has kept, the devices of others,
\* after the first n of the list.
Others(list, o) ==
    LET kept[n \in 0..Len(list)] ==
            IF n = 0 THEN <<>>
            ELSE IF list[n].owner = o THEN kept[n - 1]
            ELSE Append(kept[n - 1], list[n])
    IN  kept

\* The device list after UpsertDevice, as a function of the old one.
Registered(list, o, p) ==
    Append(Others(list, o)[Len(list)], [owner |-> o, posture |-> p])

Init == inventory \in Seeds

Upsert(o, p) == inventory' = Registered(inventory, o, p)

Load == inventory' \in Seeds

Next ==
    \/ Load
    \/ \E o \in Owner, p \in Posture : Upsert(o, p)

Spec == Init /\ [][Next]_inventory

=============================================================================
