----------------------------- MODULE MCWarehouse ----------------------------
(***************************************************************************)
(* Two users; ada's events fall before, within a day of and after her      *)
(* termination, the Leaver path's own lock among them, two at one time;    *)
(* one event names nobody and one is not relevant.                         *)
(***************************************************************************)
EXTENDS Warehouse, TLC

CONSTANTS ada, ben, f1, f2

MCWho == {ada, ben}
MCFile == {f1, f2}

\* The names of the files are only compared.
Symmetry == Permutations(MCFile)

At(uid, time, who, type) ==
    [uid |-> uid, time |-> time, who |-> who, type |-> type]

MCStream == {At(1, 2, ada, "session.start"),
             At(2, 3, ada, "lock.create"),
             At(3, 3, ada, "user.login"),
             At(4, 4, ben, "cert.create"),
             At(5, 3, NoUser, "user.login")}
=============================================================================
