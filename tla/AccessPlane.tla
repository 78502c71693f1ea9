----------------------------- MODULE AccessPlane ----------------------------
(***************************************************************************)
(* The Teleport cluster as the controller sees it: the in-memory Mock of   *)
(* go/internal/teleport.  Each method runs under the Mock's mutex, so a    *)
(* method is one atomic step; here it is an operator from the old value of *)
(* the map it writes to the new one, and the modules that call it decide   *)
(* where a step begins and ends.  There is no method that removes a lock.  *)
(***************************************************************************)
EXTENDS Policy

CONSTANT BotUser    \* [Agent -> the name of its bot user, "bot-" + name]

ASSUME BotUserAssumption ==
    \A a, b \in Agent : BotUser[a] = BotUser[b] => a = b

\* A map lookup `u, ok := m[k]`: ok is the field exists.
User == [exists : BOOLEAN, roles : SUBSET Role]
Bot  == [exists : BOOLEAN, roles : SUBSET Role, locked : BOOLEAN]

NoUser == [exists |-> FALSE, roles |-> {}]
NoBot  == [exists |-> FALSE, roles |-> {}, locked |-> FALSE]

\* The lock target of an agent is its bot user.
LockTarget == Human \cup {BotUser[a] : a \in Agent}

\* Mutant of UpsertUser: the roles held before stay.
UpsertUserMerges(users, h, roles) ==
    [users EXCEPT ![h] = [exists |-> TRUE, roles |-> @.roles \cup roles]]

UpsertUser(users, h, roles) ==
    [users EXCEPT ![h] = [exists |-> TRUE, roles |-> roles]]

DeleteUser(users, h) == [users EXCEPT ![h] = NoUser]

\* CreateLock overwrites a lock on the same target.
CreateLock(locks, target) == locks \cup {target}

UpsertWorkloadIdentity(wis, a) == wis \cup {a}

DeleteWorkloadIdentity(wis, a) == wis \ {a}

\* Mutants of AddBot: the old entry's lock stays; the old entry's roles stay.
AddBotKeepsLock(bots, a, roles) ==
    [bots EXCEPT ![a] = [exists |-> TRUE, roles |-> roles, locked |-> @.locked]]
AddBotMerges(bots, a, roles) ==
    [bots EXCEPT ![a] = [exists |-> TRUE, roles |-> @.roles \cup roles,
                         locked |-> FALSE]]

\* AddBot overwrites the whole entry: the new one carries no locked reason.
AddBot(bots, a, roles) ==
    [bots EXCEPT ![a] = [exists |-> TRUE, roles |-> roles, locked |-> FALSE]]

\* Mutant of RemoveBot: it undoes the lock and leaves the bot.
RemoveBotUnlocks(bots, a) == [bots EXCEPT ![a].locked = FALSE]

RemoveBot(bots, a) == [bots EXCEPT ![a] = NoBot]

\* LockBot marks the bot, creating the entry when there is none; the caller
\* also adds BotUser[a] to the cluster locks, in the same critical section.
LockBot(bots, a) ==
    [bots EXCEPT ![a] = [exists |-> TRUE, roles |-> bots[a].roles,
                         locked |-> TRUE]]

\* IssueSVID(a) succeeds.  The cluster lock on the bot user is not consulted.
CanIssueSVID(bots, wis, a) ==
    /\ bots[a].exists
    /\ ~bots[a].locked
    /\ a \in wis

=============================================================================
