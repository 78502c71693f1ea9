---------------------------- MODULE EngineProofs ----------------------------
(***************************************************************************)
(* What Engine guarantees for every feed, every policy, any number of      *)
(* identities, slots and attempts.  Convergence and the stay-out property  *)
(* are not inductive alone: what is needed besides is where each call      *)
(* stands (CallInv), that nobody else works on the identity of a call that *)
(* is alone (AloneInv), and that settled identities are at rest            *)
(* (SettledInv).                                                           *)
(***************************************************************************)
EXTENDS Engine, TLAPS

CallInv ==
    \A s \in Slot :
        /\ calls[s].pc \in {"upsert", "delete", "done"} => Validate(calls[s].ev)
        /\ calls[s].pc = "upsert" => calls[s].ev.type \in {"joiner", "mover"}
        /\ calls[s].pc = "delete" => calls[s].ev.type = "leaver"
        /\ calls[s].pc \in {"delete", "done"} /\ calls[s].ev.type = "leaver" =>
               Name(s) \in locks

AloneInv ==
    \A s \in alone :
        /\ Busy(s)
        /\ \A t \in Slot \ {s} : Busy(t) => Name(t) # Name(s)
        /\ calls[s].pc = "done" => Converged(Name(s), calls[s].ev)

SettledInv ==
    \A h \in Human : \A ev \in settled[h] :
        /\ Converged(h, ev)
        /\ \A t \in Slot : Busy(t) => Name(t) # h

IInv == TypeOK /\ CallInv /\ AloneInv /\ SettledInv /\ offboarded \subseteq locks

-----------------------------------------------------------------------------
\* The shape of the records the actions write.

LEMMA EventFacts ==
    ASSUME NEW ev \in Feed
    PROVE  /\ ev.type \in EventType
           /\ ev.employee \in Employee
           /\ ev.employee.email \in Human \cup {NoEmail}
           /\ Validate(ev) => ev.employee.email \in Human
BY FeedAssumption DEF Event, Employee, Validate

LEMMA RolesForType ==
    ASSUME NEW emp \in Employee
    PROVE  RolesFor(emp) \in SUBSET Role
BY PolicyAssumption DEF RolesFor, Employee

LEMMA FreshFacts ==
    ASSUME NEW ev \in Feed, NEW n \in 1..MaxAttempts
    PROVE  /\ Idle \in Call /\ Idle.pc = "idle"
           /\ Fresh(ev, n) \in Call
           /\ Fresh(ev, n).pc = "start"
           /\ Fresh(ev, n).ev = ev
           /\ Fresh(ev, n).attempt = n
<1>1. (CHOOSE e \in Feed : TRUE) \in Feed
  BY FeedAssumption
<1>2. 1 \in 1..MaxAttempts
  BY AttemptAssumption
<1>3. Idle \in Call /\ Idle.pc = "idle"
  BY <1>1, <1>2 DEF Idle, Call, Pc
<1>4. QED
  BY <1>1, <1>2, <1>3 DEF Fresh, Idle, Call, Pc

-----------------------------------------------------------------------------
\* What each action preserves, one lemma per action.

(* The invariant holds at the start, and every action preserves it.         *)
LEMMA InitInv == Init => IInv
<1> SUFFICES ASSUME Init PROVE IInv
  OBVIOUS
<1>1. PICK e \in Feed : TRUE
  BY FeedAssumption
<1>2. Idle \in Call /\ Idle.pc = "idle"
  BY <1>1, FreshFacts, AttemptAssumption
<1>3. NoUser \in User
  BY DEF NoUser, User
<1>4. TypeOK
  BY <1>2, <1>3 DEF Init, TypeOK
<1>5. QED
  BY <1>2, <1>4 DEF Init, IInv, CallInv, AloneInv, SettledInv

LEMMA SubmitInv ==
    ASSUME IInv, NEW s \in Slot, NEW ev \in Feed, Submit(s, ev)
    PROVE  IInv'
<1> USE DEF IInv
<1>0. 1 \in 1..MaxAttempts
  BY AttemptAssumption
<1>1. /\ Fresh(ev, 1) \in Call
      /\ Fresh(ev, 1).pc = "start"
      /\ Fresh(ev, 1).ev = ev
  BY <1>0, FreshFacts
<1>2. /\ calls' \in [Slot -> Call]
      /\ calls'[s] = Fresh(ev, 1)
      /\ \A t \in Slot \ {s} : calls'[t] = calls[t]
      /\ calls[s].pc = "idle"
      /\ UNCHANGED <<users, locks, offboarded, abandoned>>
  BY <1>1 DEF Submit, Begin, TypeOK
<1>3. TypeOK'
  BY <1>2 DEF Submit, Begin, Forget, TypeOK
<1>4. CallInv'
  BY <1>1, <1>2 DEF CallInv, Name, Emp
<1>5. AloneInv'
  <2> SUFFICES ASSUME NEW x \in alone'
               PROVE  /\ Busy(x)'
                      /\ \A t \in Slot \ {x} : Busy(t)' => Name(t)' # Name(x)'
                      /\ calls'[x].pc = "done" => Converged(Name(x), calls[x].ev)'
    BY DEF AloneInv
  <2>1. x \in Slot
    BY <1>3 DEF TypeOK
  <2>2. CASE x = s
    <3>1. Rivals(s, ev.employee.email) = {}
      BY <1>2, <2>2 DEF Submit, Begin, AloneInv, Busy
    <3>2. QED
      BY <1>1, <1>2, <2>2, <3>1 DEF Rivals, Busy, Name, Emp
  <2>3. CASE x # s
    <3>1. x \in alone /\ x \notin Rivals(s, ev.employee.email)
      BY <2>3, <2>1 DEF Submit, Begin
    <3>2. Busy(x) /\ Name(x) # ev.employee.email
      BY <2>1, <2>3, <3>1 DEF AloneInv, Rivals, Name, Emp
    <3>3. QED
      BY <1>1, <1>2, <2>1, <2>3, <3>1, <3>2 DEF AloneInv, Busy, Name, Emp, Converged
  <2>4. QED
    BY <2>2, <2>3
<1>6. SettledInv'
  BY <1>1, <1>2 DEF Submit, Begin, Forget, SettledInv, Busy, Name, Emp, Converged
<1>7. QED
  BY <1>2, <1>3, <1>4, <1>5, <1>6

\* The slot's call leaves the slot: what Reject, Complete and GiveUp share.
LEMMA EndFacts ==
    ASSUME TypeOK, AloneInv, NEW s \in Slot, End(s)
    PROVE  /\ calls' \in [Slot -> Call]
           /\ calls'[s].pc = "idle"
           /\ \A t \in Slot \ {s} : calls'[t] = calls[t]
           /\ alone' \subseteq Slot
           /\ \A t \in alone' : t \in alone /\ t # s
<1>1. PICK e \in Feed : TRUE
  BY FeedAssumption
<1>2. Idle \in Call /\ Idle.pc = "idle"
  BY <1>1, FreshFacts, AttemptAssumption
<1>3. QED
  BY <1>2 DEF End, TypeOK

LEMMA RejectInv ==
    ASSUME IInv, NEW s \in Slot, Reject(s)
    PROVE  IInv'
<1> USE DEF IInv
<1>1. /\ calls' \in [Slot -> Call]
      /\ calls'[s].pc = "idle"
      /\ \A t \in Slot \ {s} : calls'[t] = calls[t]
      /\ alone' \subseteq Slot
      /\ \A t \in alone' : t \in alone /\ t # s
  BY EndFacts DEF Reject
<1>2. UNCHANGED <<users, locks, settled, offboarded, abandoned>>
  BY DEF Reject
<1>3. TypeOK'
  BY <1>1, <1>2 DEF TypeOK
<1>4. CallInv'
  BY <1>1, <1>2 DEF CallInv, Name, Emp
<1>5. AloneInv'
  BY <1>1, <1>2 DEF AloneInv, TypeOK, Busy, Name, Emp, Converged
<1>6. SettledInv'
  BY <1>1, <1>2 DEF SettledInv, TypeOK, Busy, Name, Emp, Converged
<1>7. QED
  BY <1>2, <1>3, <1>4, <1>5, <1>6

LEMMA ConvergeReadInv ==
    ASSUME IInv, NEW s \in Slot, ConvergeRead(s)
    PROVE  IInv'
<1> USE DEF IInv
<1>1. /\ UNCHANGED <<users, locks, alone, settled, offboarded, abandoned>>
      /\ \A t \in Slot \ {s} : calls'[t] = calls[t]
      /\ calls[s].pc = "start"
      /\ calls[s].ev \in Feed
      /\ calls'[s].ev = calls[s].ev
      /\ calls'[s].pc \in {"upsert", "done"}
      /\ Validate(calls[s].ev)
      /\ calls[s].ev.type \in {"joiner", "mover"}
      /\ calls'[s].pc = "done" => Converged(Name(s), calls[s].ev)
  BY DEF ConvergeRead, TypeOK, Call, SameRoles, Converged, Emp
<1>2. TypeOK'
  BY <1>1 DEF ConvergeRead, TypeOK, Call, Pc
<1>3. CallInv'
  BY <1>1 DEF CallInv, Name, Emp
<1>4. AloneInv'
  BY <1>1 DEF AloneInv, TypeOK, Busy, Name, Emp, Converged
<1>5. SettledInv'
  BY <1>1 DEF SettledInv, TypeOK, Busy, Name, Emp, Converged
<1>6. QED
  BY <1>1, <1>2, <1>3, <1>4, <1>5

LEMMA ConvergeWriteInv ==
    ASSUME IInv, NEW s \in Slot, ConvergeWrite(s)
    PROVE  IInv'
<1> USE DEF IInv
<1>0. /\ calls[s].ev \in Feed
      /\ calls[s].ev.employee \in Employee
      /\ Name(s) \in Human
      /\ calls[s].ev.type \in {"joiner", "mover"}
  BY EventFacts DEF ConvergeWrite, CallInv, TypeOK, Call, Name, Emp
<1>1. /\ UNCHANGED <<locks, alone, settled, offboarded, abandoned>>
      /\ \A t \in Slot \ {s} : calls'[t] = calls[t]
      /\ calls[s].pc = "upsert"
      /\ calls'[s].ev = calls[s].ev
      /\ calls'[s].pc = "done"
      /\ calls' \in [Slot -> Call]
  BY DEF ConvergeWrite, TypeOK, Call, Pc
<1>2. /\ users' \in [Human -> User]
      /\ users'[Name(s)].exists
      /\ users'[Name(s)].roles = RolesFor(calls[s].ev.employee)
      /\ \A h \in Human : h # Name(s) => users'[h] = users[h]
  BY <1>0, RolesForType DEF ConvergeWrite, UpsertUser, TypeOK, User, Emp
<1>3. TypeOK'
  BY <1>1, <1>2 DEF TypeOK
<1>4. CallInv'
  BY <1>0, <1>1 DEF CallInv, Name, Emp
<1>5. AloneInv'
  <2> SUFFICES ASSUME NEW x \in alone
               PROVE  /\ Busy(x)'
                      /\ \A t \in Slot \ {x} : Busy(t)' => Name(t)' # Name(x)'
                      /\ calls'[x].pc = "done" => Converged(Name(x), calls[x].ev)'
    BY <1>1 DEF AloneInv
  <2>1. CASE x = s
    BY <2>1, <1>0, <1>1, <1>2 DEF AloneInv, TypeOK, Busy, Name, Emp, Converged
  <2>2. CASE x # s
    <3>1. x \in Slot /\ Name(x) # Name(s)
      BY <2>2, <1>1 DEF AloneInv, TypeOK, Busy
    <3>2. calls[x].pc = "done" => Name(x) \in Human
      BY <3>1, EventFacts DEF CallInv, TypeOK, Call, Name, Emp
    <3>3. QED
      BY <2>2, <3>1, <3>2, <1>1, <1>2 DEF AloneInv, Busy, Name, Emp, Converged
  <2>3. QED
    BY <2>1, <2>2
<1>6. SettledInv'
  BY <1>1, <1>2 DEF SettledInv, TypeOK, Busy, Name, Emp, Converged
<1>7. QED
  BY <1>1, <1>3, <1>4, <1>5, <1>6

LEMMA DeprovisionLockInv ==
    ASSUME IInv, NEW s \in Slot, DeprovisionLock(s)
    PROVE  IInv'
<1> USE DEF IInv
<1>0. Name(s) \in Human
  BY EventFacts DEF DeprovisionLock, TypeOK, Call, Name, Emp
<1>1. /\ UNCHANGED <<users, alone, settled, offboarded, abandoned>>
      /\ \A t \in Slot \ {s} : calls'[t] = calls[t]
      /\ calls[s].pc = "start"
      /\ calls'[s].ev = calls[s].ev
      /\ calls'[s].pc = "delete"
      /\ calls' \in [Slot -> Call]
      /\ Validate(calls[s].ev)
      /\ calls[s].ev.type = "leaver"
  BY DEF DeprovisionLock, TypeOK, Call, Pc
<1>2. locks \subseteq locks' /\ Name(s) \in locks' /\ locks' \subseteq Human
  BY <1>0 DEF DeprovisionLock, CreateLock, TypeOK
<1>3. TypeOK'
  BY <1>1, <1>2 DEF TypeOK
<1>4. CallInv'
  BY <1>1, <1>2 DEF CallInv, Name, Emp
<1>5. AloneInv'
  BY <1>1, <1>2 DEF AloneInv, TypeOK, Busy, Name, Emp, Converged
<1>6. SettledInv'
  BY <1>1, <1>2 DEF SettledInv, TypeOK, Busy, Name, Emp, Converged
<1>7. QED
  BY <1>1, <1>2, <1>3, <1>4, <1>5, <1>6

LEMMA DeprovisionDeleteInv ==
    ASSUME IInv, NEW s \in Slot, DeprovisionDelete(s)
    PROVE  IInv'
<1> USE DEF IInv
<1>0. /\ Name(s) \in Human
      /\ calls[s].ev.type = "leaver"
      /\ Name(s) \in locks
  BY EventFacts DEF DeprovisionDelete, CallInv, TypeOK, Call, Name, Emp
<1>1. /\ UNCHANGED <<locks, alone, settled, offboarded, abandoned>>
      /\ \A t \in Slot \ {s} : calls'[t] = calls[t]
      /\ calls[s].pc = "delete"
      /\ calls'[s].ev = calls[s].ev
      /\ calls'[s].pc = "done"
      /\ calls' \in [Slot -> Call]
  BY DEF DeprovisionDelete, TypeOK, Call, Pc
<1>2. /\ users' \in [Human -> User]
      /\ ~users'[Name(s)].exists
      /\ \A h \in Human : h # Name(s) => users'[h] = users[h]
  BY <1>0 DEF DeprovisionDelete, DeleteUser, NoUser, TypeOK, User
<1>3. TypeOK'
  BY <1>1, <1>2 DEF TypeOK
<1>4. CallInv'
  BY <1>0, <1>1 DEF CallInv, Name, Emp
<1>5. AloneInv'
  <2> SUFFICES ASSUME NEW x \in alone
               PROVE  /\ Busy(x)'
                      /\ \A t \in Slot \ {x} : Busy(t)' => Name(t)' # Name(x)'
                      /\ calls'[x].pc = "done" => Converged(Name(x), calls[x].ev)'
    BY <1>1 DEF AloneInv
  <2>1. CASE x = s
    BY <2>1, <1>0, <1>1, <1>2 DEF AloneInv, TypeOK, Busy, Name, Emp, Converged
  <2>2. CASE x # s
    <3>1. x \in Slot /\ Name(x) # Name(s)
      BY <2>2, <1>1 DEF AloneInv, TypeOK, Busy
    <3>2. calls[x].pc = "done" => Name(x) \in Human
      BY <3>1, EventFacts DEF CallInv, TypeOK, Call, Name, Emp
    <3>3. QED
      BY <2>2, <3>1, <3>2, <1>1, <1>2 DEF AloneInv, Busy, Name, Emp, Converged
  <2>3. QED
    BY <2>1, <2>2
<1>6. SettledInv'
  BY <1>1, <1>2 DEF SettledInv, TypeOK, Busy, Name, Emp, Converged
<1>7. QED
  BY <1>1, <1>3, <1>4, <1>5, <1>6

LEMMA CompleteInv ==
    ASSUME IInv, NEW s \in Slot, Complete(s)
    PROVE  IInv'
<1> USE DEF IInv
<1>0. /\ calls[s].pc = "done"
      /\ calls[s].ev \in Feed
      /\ Name(s) \in Human
      /\ calls[s].ev.type = "leaver" => Name(s) \in locks
  BY EventFacts DEF Complete, CallInv, TypeOK, Call, Name, Emp
<1>1. /\ calls' \in [Slot -> Call]
      /\ calls'[s].pc = "idle"
      /\ \A t \in Slot \ {s} : calls'[t] = calls[t]
      /\ alone' \subseteq Slot
      /\ \A t \in alone' : t \in alone /\ t # s
  BY EndFacts DEF Complete
<1>2. UNCHANGED <<users, locks, abandoned>>
  BY DEF Complete
<1>3. /\ settled' \in [Human -> SUBSET Feed]
      /\ s \in alone => settled'[Name(s)] = {calls[s].ev}
      /\ s \notin alone => settled'[Name(s)] = {}
      /\ \A h \in Human : h # Name(s) => settled'[h] = settled[h]
  BY <1>0 DEF Complete, TypeOK
<1>4. offboarded' \subseteq locks'
  BY <1>0, <1>2 DEF Complete
<1>5. TypeOK'
  BY <1>1, <1>2, <1>3, <1>4 DEF TypeOK
<1>6. CallInv'
  BY <1>1, <1>2 DEF CallInv, Name, Emp
<1>7. AloneInv'
  BY <1>1, <1>2 DEF AloneInv, TypeOK, Busy, Name, Emp, Converged
<1>8. SettledInv'
  <2> SUFFICES ASSUME NEW h \in Human, NEW ev \in settled'[h]
               PROVE  /\ Converged(h, ev)'
                      /\ \A t \in Slot : Busy(t)' => Name(t)' # h
    BY DEF SettledInv
  <2>1. CASE h = Name(s)
    <3>1. s \in alone /\ ev = calls[s].ev
      BY <2>1, <1>3
    <3>2. Converged(h, ev)
      BY <2>1, <3>1, <1>0 DEF AloneInv
    <3>3. \A t \in Slot \ {s} : Busy(t) => Name(t) # h
      BY <2>1, <3>1 DEF AloneInv
    <3>4. QED
      BY <3>2, <3>3, <1>1, <1>2 DEF Converged, Busy, Name, Emp
  <2>2. CASE h # Name(s)
    BY <2>2, <1>1, <1>2, <1>3 DEF SettledInv, Converged, Busy, Name, Emp
  <2>3. QED
    BY <2>1, <2>2
<1>9. QED
  BY <1>4, <1>5, <1>6, <1>7, <1>8

LEMMA RetryInv ==
    ASSUME IInv, NEW s \in Slot, Retry(s)
    PROVE  IInv'
<1> USE DEF IInv
<1>0. calls[s].ev \in Feed /\ calls[s].attempt + 1 \in 1..MaxAttempts
  BY AttemptAssumption DEF Retry, TypeOK, Call
<1>1. /\ calls' \in [Slot -> Call]
      /\ calls'[s].pc = "start"
      /\ calls'[s].ev = calls[s].ev
      /\ calls[s].pc # "idle"
      /\ \A t \in Slot \ {s} : calls'[t] = calls[t]
      /\ UNCHANGED <<users, locks, alone, settled, offboarded, abandoned>>
  BY <1>0, FreshFacts DEF Retry, Fails, TypeOK
<1>2. TypeOK'
  BY <1>1 DEF TypeOK
<1>3. CallInv'
  BY <1>1 DEF CallInv, Name, Emp
<1>4. AloneInv'
  BY <1>1 DEF AloneInv, TypeOK, Busy, Name, Emp, Converged
<1>5. SettledInv'
  BY <1>1 DEF SettledInv, TypeOK, Busy, Name, Emp, Converged
<1>6. QED
  BY <1>1, <1>2, <1>3, <1>4, <1>5

LEMMA GiveUpInv ==
    ASSUME IInv, NEW s \in Slot, GiveUp(s)
    PROVE  IInv'
<1> USE DEF IInv
<1>0. Name(s) \in Human
  BY EventFacts DEF GiveUp, Fails, TypeOK, Call, Name, Emp
<1>1. /\ calls' \in [Slot -> Call]
      /\ calls'[s].pc = "idle"
      /\ \A t \in Slot \ {s} : calls'[t] = calls[t]
      /\ alone' \subseteq Slot
      /\ \A t \in alone' : t \in alone /\ t # s
  BY EndFacts DEF GiveUp
<1>2. /\ UNCHANGED <<users, locks, settled, offboarded>>
      /\ abandoned' \subseteq Human
  BY <1>0 DEF GiveUp, TypeOK
<1>3. TypeOK'
  BY <1>1, <1>2 DEF TypeOK
<1>4. CallInv'
  BY <1>1, <1>2 DEF CallInv, Name, Emp
<1>5. AloneInv'
  BY <1>1, <1>2 DEF AloneInv, TypeOK, Busy, Name, Emp, Converged
<1>6. SettledInv'
  BY <1>1, <1>2 DEF SettledInv, TypeOK, Busy, Name, Emp, Converged
<1>7. QED
  BY <1>2, <1>3, <1>4, <1>5, <1>6

LEMMA TimeOutInv ==
    ASSUME IInv, NEW s \in Slot, NEW t \in Slot, TimeOut(s, t)
    PROVE  IInv'
<1> USE DEF IInv
<1> DEFINE h == Name(s)
<1>0. /\ calls[s].ev \in Feed
      /\ calls[s].attempt + 1 \in 1..MaxAttempts
      /\ h \in Human
  BY AttemptAssumption, EventFacts DEF TimeOut, Fails, TypeOK, Call, Name, Emp
<1>1. /\ calls' \in [Slot -> Call]
      /\ calls'[t].pc = "start"
      /\ calls'[t].ev = calls[s].ev
      /\ calls[t].pc = "idle"
      /\ Busy(s)
      /\ s # t
      /\ calls'[s].pc = calls[s].pc
      /\ calls'[s].ev = calls[s].ev
      /\ \A x \in Slot \ {s, t} : calls'[x] = calls[x]
      /\ UNCHANGED <<users, locks, offboarded, abandoned>>
  <2>1. Fresh(calls[s].ev, calls[s].attempt + 1) \in Call
    BY <1>0, FreshFacts
  <2>2. s # t
    BY DEF TimeOut, Fails, Begin
  <2> DEFINE f == Fresh(calls[s].ev, calls[s].attempt + 1)
             o == [calls[s] EXCEPT !.orphan = TRUE]
  <2>3. /\ f.pc = "start" /\ f.ev = calls[s].ev
        /\ o \in Call /\ o.pc = calls[s].pc /\ o.ev = calls[s].ev
    <3>1. f.pc = "start" /\ f.ev = calls[s].ev
      BY DEF Fresh
    <3>2. calls[s] \in Call
      BY DEF TypeOK
    <3>3. QED
      BY <3>1, <3>2 DEF Call
  <2>4. calls' = [calls EXCEPT ![s] = o, ![t] = f]
    BY <2>2 DEF TimeOut
  <2>5. /\ calls[t].pc = "idle"
        /\ Busy(s)
        /\ UNCHANGED <<users, locks, offboarded, abandoned>>
    BY DEF TimeOut, Fails, Begin, Busy
  <2> HIDE DEF f, o
  <2>6. QED
    BY <2>1, <2>2, <2>3, <2>4, <2>5 DEF TypeOK, f
<1>2. /\ settled' \in [Human -> SUBSET Feed]
      /\ settled'[h] = {}
      /\ \A x \in Human : x # h => settled'[x] = settled[x]
  BY <1>0 DEF TimeOut, Begin, Forget, TypeOK, Name, Emp
<1>3. /\ alone' \subseteq Slot
      /\ \A x \in alone' : x \in alone /\ x \notin Rivals(t, h)
  <2>1. s \in Rivals(t, h)
    BY <1>1 DEF Rivals, Name, Emp
  <2>2. QED
    BY <2>1 DEF TimeOut, Begin, TypeOK, Name, Emp
<1>4. TypeOK'
  BY <1>1, <1>2, <1>3 DEF TypeOK
<1>5. CallInv'
  BY <1>1 DEF CallInv, Name, Emp
<1>6. AloneInv'
  <2> SUFFICES ASSUME NEW x \in alone'
               PROVE  /\ Busy(x)'
                      /\ \A y \in Slot \ {x} : Busy(y)' => Name(y)' # Name(x)'
                      /\ calls'[x].pc = "done" => Converged(Name(x), calls[x].ev)'
    BY DEF AloneInv
  <2>1. x \in alone /\ x \in Slot /\ Busy(x) /\ x # t /\ Name(x) # h
    BY <1>1, <1>3 DEF AloneInv, Rivals, Busy, Name, Emp
  <2>2. x # s
    BY <2>1
  <2>3. QED
    BY <2>1, <2>2, <1>1 DEF AloneInv, Busy, Name, Emp, Converged
<1>7. SettledInv'
  BY <1>1, <1>2 DEF SettledInv, TypeOK, Busy, Name, Emp, Converged
<1>8. QED
  BY <1>1, <1>4, <1>5, <1>6, <1>7

LEMMA StutterInv == IInv /\ UNCHANGED vars => IInv'
BY DEF vars, IInv, TypeOK, CallInv, AloneInv, SettledInv, Busy, Name, Emp, Converged

-----------------------------------------------------------------------------
(* The inductive invariant holds of every behaviour.                        *)
THEOREM Invariance == Spec => []IInv
<1>1. Init => IInv
  BY InitInv
<1>2. IInv /\ [Next]_vars => IInv'
  <2> SUFFICES ASSUME IInv, [Next]_vars PROVE IInv'
    OBVIOUS
  <2>1. ASSUME NEW s \in Slot, NEW ev \in Feed, Submit(s, ev) PROVE IInv'
    BY <2>1, SubmitInv
  <2>2. ASSUME NEW s \in Slot, Work(s) PROVE IInv'
    BY <2>2, RejectInv, ConvergeReadInv, ConvergeWriteInv, DeprovisionLockInv,
       DeprovisionDeleteInv, CompleteInv, RetryInv, GiveUpInv DEF Work
  <2>3. ASSUME NEW s \in Slot, NEW t \in Slot, TimeOut(s, t) PROVE IInv'
    BY <2>3, TimeOutInv
  <2>4. CASE UNCHANGED vars
    BY <2>4, StutterInv
  <2>5. QED
    BY <2>1, <2>2, <2>3, <2>4 DEF Next
<1>3. QED
  BY <1>1, <1>2, PTL DEF Spec

(* Every variable keeps its type.                                           *)
THEOREM TypeCorrect == Spec => []TypeOK
<1>1. IInv => TypeOK
  BY DEF IInv
<1>2. QED
  BY <1>1, Invariance, PTL

(* Reconciling an event that nothing else on the identity overlaps leaves   *)
(* the identity as the event says, for every feed, policy, number of slots  *)
(* and number of attempts (engine.go, Reconcile).                           *)
THEOREM Convergence == Spec => []ReconcileConverges
<1>1. IInv => ReconcileConverges
  BY DEF IInv, SettledInv, ReconcileConverges
<1>2. QED
  BY <1>1, Invariance, PTL

(* An identity whose leaver event was reported done has no effective access *)
(* at any later time (engine.go, deprovision).                              *)
THEOREM StaysOut == Spec => []OffboardedStaysOut
<1>1. IInv => OffboardedStaysOut
  BY DEF IInv, OffboardedStaysOut, LiveState, HasAccess
<1>2. QED
  BY <1>1, Invariance, PTL

-----------------------------------------------------------------------------
\* Only three actions write to the access plane.
LEMMA QuietSteps ==
    ASSUME [Next]_vars,
           \A s \in Slot : ~ConvergeWrite(s) /\ ~DeprovisionLock(s)
                                             /\ ~DeprovisionDelete(s)
    PROVE  UNCHANGED <<users, locks>>
BY DEF Next, Work, vars, Submit, Reject, ConvergeRead, Complete, Retry, GiveUp,
       TimeOut

\* What those three do, on the identity the event names.
LEMMA WritingSteps ==
    ASSUME IInv, NEW s \in Slot
    PROVE  /\ ConvergeWrite(s) =>
                 /\ Name(s) \in Human
                 /\ Validate(calls[s].ev)
                 /\ calls[s].ev \in Feed
                 /\ locks' = locks
                 /\ users' = [users EXCEPT ![Name(s)] =
                        [exists |-> TRUE, roles |-> RolesFor(Emp(s))]]
           /\ DeprovisionLock(s) =>
                 /\ Name(s) \in Human
                 /\ Validate(calls[s].ev)
                 /\ calls[s].ev \in Feed
                 /\ calls[s].ev.type = "leaver"
                 /\ locks' = locks \cup {Name(s)}
                 /\ users' = users
           /\ DeprovisionDelete(s) =>
                 /\ Name(s) \in locks
                 /\ locks' = locks
                 /\ users' = [users EXCEPT ![Name(s)] = NoUser]
<1> USE DEF IInv, TypeOK, CallInv, Call
<1>1. ASSUME ConvergeWrite(s)
      PROVE  /\ Name(s) \in Human
             /\ Validate(calls[s].ev)
             /\ calls[s].ev \in Feed
             /\ locks' = locks
             /\ users' = [users EXCEPT ![Name(s)] =
                    [exists |-> TRUE, roles |-> RolesFor(Emp(s))]]
  BY <1>1, EventFacts DEF ConvergeWrite, UpsertUser, Name, Emp
<1>2. ASSUME DeprovisionLock(s)
      PROVE  /\ Name(s) \in Human
             /\ Validate(calls[s].ev)
             /\ calls[s].ev \in Feed
             /\ calls[s].ev.type = "leaver"
             /\ locks' = locks \cup {Name(s)}
             /\ users' = users
  BY <1>2, EventFacts DEF DeprovisionLock, CreateLock, Name, Emp
<1>3. ASSUME DeprovisionDelete(s)
      PROVE  /\ Name(s) \in locks
             /\ locks' = locks
             /\ users' = [users EXCEPT ![Name(s)] = NoUser]
  BY <1>3 DEF DeprovisionDelete, DeleteUser
<1>4. QED
  BY <1>1, <1>2, <1>3

(* No user is deleted whose lock is not in place (engine.go, deprovision:   *)
(* lock, then delete).                                                      *)
THEOREM LockFirst == Spec => LockBeforeDelete
<1> DEFINE A == \A h \in Human :
                    users[h].exists /\ ~users'[h].exists => h \in locks
<1>1. IInv /\ [Next]_vars => [A]_vars
  <2> SUFFICES ASSUME IInv, [Next]_vars, NEW h \in Human,
                      users[h].exists, ~users'[h].exists
               PROVE  h \in locks
    OBVIOUS
  <2> users \in [Human -> User]
    BY DEF IInv, TypeOK
  <2>1. ASSUME NEW s \in Slot, ConvergeWrite(s) PROVE FALSE
    <3>1. users' = [users EXCEPT ![Name(s)] =
                        [exists |-> TRUE, roles |-> RolesFor(Emp(s))]]
      BY <2>1, WritingSteps
    <3>2. QED
      BY <3>1
  <2>2. ASSUME NEW s \in Slot, DeprovisionLock(s) PROVE FALSE
    BY <2>2, WritingSteps
  <2>3. ASSUME NEW s \in Slot, DeprovisionDelete(s) PROVE h \in locks
    <3>1. Name(s) \in locks /\ users' = [users EXCEPT ![Name(s)] = NoUser]
      BY <2>3, WritingSteps
    <3>2. QED
      BY <3>1
  <2>4. QED
    BY <2>1, <2>2, <2>3, QuietSteps
<1>2. QED
  BY <1>1, Invariance, PTL DEF Spec, LockBeforeDelete

(* The engine implements the promise of Offboarding: every step of every    *)
(* interleaving is a grant of an entitlement, a severing, or no change of   *)
(* the access anybody has.                                                  *)
THEOREM Refinement == Spec => ImplementsOffboarding
<1>1. Init => Promise!Init
  BY DEF Init, Promise!Init, Access, NoUser
<1>2. IInv /\ [Next]_vars => [Promise!Next]_<<Access, locks>>
  <2> SUFFICES ASSUME IInv, [Next]_vars
               PROVE  Promise!Next \/ UNCHANGED <<Access, locks>>
    OBVIOUS
  <2> users \in [Human -> User]
    BY DEF IInv, TypeOK
  <2>1. ASSUME NEW s \in Slot, ConvergeWrite(s)
        PROVE  Promise!Next \/ UNCHANGED <<Access, locks>>
    <3> DEFINE h == Name(s)
               R == RolesFor(Emp(s))
    <3>1. /\ h \in Human /\ Validate(calls[s].ev) /\ calls[s].ev \in Feed
          /\ locks' = locks
          /\ users' = [users EXCEPT ![h] = [exists |-> TRUE, roles |-> R]]
      BY <2>1, WritingSteps
    <3>2. R \in {RolesFor(ev.employee) : ev \in Records(h)}
      BY <3>1 DEF Records, Name, Emp
    <3>3. CASE h \in locks
      BY <3>1, <3>3 DEF Access
    <3>4. CASE h \notin locks
      <4>1. Access' = [Access EXCEPT ![h] = R]
        BY <3>1, <3>4 DEF Access
      <4>2. Promise!Grant(h)
        BY <3>1, <3>2, <3>4, <4>1 DEF Promise!Grant
      <4>3. QED
        BY <3>1, <4>2 DEF Promise!Next
    <3>5. QED
      BY <3>3, <3>4
  <2>2. ASSUME NEW s \in Slot, DeprovisionLock(s)
        PROVE  Promise!Next
    <3> DEFINE h == Name(s)
    <3>1. /\ h \in Human /\ Validate(calls[s].ev) /\ calls[s].ev \in Feed
          /\ calls[s].ev.type = "leaver"
          /\ locks' = locks \cup {h}
          /\ users' = users
      BY <2>2, WritingSteps
    <3>2. \E ev \in Records(h) : ev.type = "leaver"
      BY <3>1 DEF Records, Name, Emp
    <3>3. Access' = [Access EXCEPT ![h] = {}]
      BY <3>1 DEF Access
    <3>4. Promise!Sever(h)
      BY <3>1, <3>2, <3>3 DEF Promise!Sever
    <3>5. QED
      BY <3>1, <3>4 DEF Promise!Next
  <2>3. ASSUME NEW s \in Slot, DeprovisionDelete(s)
        PROVE  UNCHANGED <<Access, locks>>
    <3>1. /\ Name(s) \in locks /\ locks' = locks
          /\ users' = [users EXCEPT ![Name(s)] = NoUser]
      BY <2>3, WritingSteps
    <3>2. QED
      BY <3>1 DEF Access
  <2>4. CASE UNCHANGED <<users, locks>>
    BY <2>4 DEF Access
  <2>5. QED
    BY <2>1, <2>2, <2>3, <2>4, QuietSteps
<1>3. QED
  BY <1>1, <1>2, Invariance, PTL DEF Spec, ImplementsOffboarding, Promise!Spec

-----------------------------------------------------------------------------
\* A user holds the roles of one record that the sources delivered.
UsersRecorded ==
    \A h \in Human : users[h].exists =>
        \E ev \in Records(h) : /\ ev.type # "leaver"
                               /\ users[h].roles = RolesFor(ev.employee)

LEMMA UsersRecordedStep ==
    ASSUME IInv, UsersRecorded, [Next]_vars
    PROVE  UsersRecorded'
<1> SUFFICES ASSUME NEW h \in Human, users'[h].exists
             PROVE  \E ev \in Records(h) : /\ ev.type # "leaver"
                                           /\ users'[h].roles = RolesFor(ev.employee)
  BY DEF UsersRecorded, Records
<1> users \in [Human -> User]
  BY DEF IInv, TypeOK
<1>1. CASE users'[h] = users[h]
  BY <1>1 DEF UsersRecorded
<1>2. ASSUME NEW s \in Slot, ConvergeWrite(s), users'[h] # users[h]
      PROVE  \E ev \in Records(h) : /\ ev.type # "leaver"
                                    /\ users'[h].roles = RolesFor(ev.employee)
  <2> DEFINE ev == calls[s].ev
  <2>1. /\ Validate(ev) /\ ev \in Feed
        /\ users' = [users EXCEPT ![Name(s)] =
                        [exists |-> TRUE, roles |-> RolesFor(Emp(s))]]
    BY <1>2, WritingSteps
  <2>2. h = Name(s) /\ users'[h] = [exists |-> TRUE, roles |-> RolesFor(Emp(s))]
    BY <1>2, <2>1
  <2>3. ev \in Records(h) /\ users'[h].roles = RolesFor(ev.employee)
    BY <2>1, <2>2 DEF Records, Name, Emp
  <2>4. ev.type \in {"joiner", "mover"}
    BY <1>2 DEF ConvergeWrite, IInv, CallInv
  <2>5. QED
    BY <2>3, <2>4
<1>3. ASSUME NEW s \in Slot, DeprovisionLock(s) PROVE users'[h] = users[h]
  BY <1>3, WritingSteps
<1>4. ASSUME NEW s \in Slot, DeprovisionDelete(s) PROVE users'[h] = users[h]
  <2>1. users' = [users EXCEPT ![Name(s)] = NoUser]
    BY <1>4, WritingSteps
  <2>2. QED
    BY <2>1 DEF NoUser
<1>5. QED
  BY <1>1, <1>2, <1>3, <1>4, QuietSteps

(* A just-in-time request of a settled identity is approved only along an   *)
(* escalation path from the roles of its HR record, and of any identity     *)
(* only along one from those of a single delivered record (engine.go,       *)
(* EvaluateAccessRequest).                                                  *)
THEOREM JitFollows == Spec => []JitFollowsHr
<1>1. IInv /\ UsersRecorded => JitFollowsHr
  <2> SUFFICES ASSUME IInv, UsersRecorded, NEW h \in Human, NEW r \in Role,
                      AutoApproves(h, r)
               PROVE  /\ \A ev \in settled[h] : Grants(ev, r)
                      /\ \E ev \in Records(h) : Grants(ev, r)
    BY DEF JitFollowsHr
  <2>1. users[h].exists /\ CanAutoApprove(users[h].roles, r)
    BY DEF AutoApproves
  <2>2. \A ev \in settled[h] : Grants(ev, r)
    BY <2>1 DEF IInv, SettledInv, Converged, Grants
  <2>3. \E ev \in Records(h) : Grants(ev, r)
    BY <2>1 DEF UsersRecorded, Grants
  <2>4. QED
    BY <2>2, <2>3
<1>2. Init => UsersRecorded
  BY DEF Init, UsersRecorded, NoUser
<1>3. QED
  BY <1>1, <1>2, UsersRecordedStep, Invariance, PTL DEF Spec

(* Nobody is locked but while a record that says terminated is reconciled,  *)
(* and nobody gains a role but while one that does not is (engine.go,       *)
(* Reconcile, which branches on the type of the event alone).               *)
THEOREM EffectsFollow == Spec => EffectsFollowHrStatus
<1> DEFINE Running(h, S) == \E s \in Slot : /\ Busy(s) /\ Name(s) = h
                                            /\ Emp(s).status \in S
           A == \A h \in Human :
                    /\ h \in locks' \ locks => Running(h, {"terminated"})
                    /\ users'[h].roles \ users[h].roles # {} =>
                           Running(h, {"active", "other"})
<1>1. IInv /\ [Next]_vars => [A]_vars
  <2> SUFFICES ASSUME IInv, [Next]_vars, NEW h \in Human
               PROVE  /\ h \in locks' \ locks => Running(h, {"terminated"})
                      /\ users'[h].roles \ users[h].roles # {} =>
                             Running(h, {"active", "other"})
    OBVIOUS
  <2> users \in [Human -> User]
    BY DEF IInv, TypeOK
  <2>1. ASSUME NEW s \in Slot, ConvergeWrite(s), users'[h].roles \ users[h].roles # {}
        PROVE  Running(h, {"active", "other"})
    <3>1. /\ Busy(s) /\ Emp(s).status \in Status
          /\ users' = [users EXCEPT ![Name(s)] =
                         [exists |-> TRUE, roles |-> RolesFor(Emp(s))]]
      BY <2>1, WritingSteps, EventFacts DEF ConvergeWrite, Busy, Emp, Employee
    <3>2. h = Name(s) /\ RolesFor(Emp(s)) # {}
      BY <2>1, <3>1, WritingSteps
    <3>3. Emp(s).status \in {"active", "other"}
      BY <3>1, <3>2 DEF RolesFor, Status
    <3>4. QED
      BY <3>1, <3>2, <3>3
  <2>2. ASSUME NEW s \in Slot, DeprovisionLock(s), h \in locks' \ locks
        PROVE  Running(h, {"terminated"})
    <3>1. Busy(s) /\ Emp(s).status = "terminated" /\ h = Name(s)
      BY <2>2, WritingSteps DEF DeprovisionLock, Busy, Emp, Validate
    <3>2. QED
      BY <3>1
  <2>3. ASSUME NEW s \in Slot, ConvergeWrite(s) \/ DeprovisionDelete(s)
        PROVE  locks' = locks
    BY <2>3, WritingSteps
  <2>4. ASSUME NEW s \in Slot, DeprovisionLock(s) \/ DeprovisionDelete(s)
        PROVE  ~(users'[h].roles \ users[h].roles # {})
    BY <2>4, WritingSteps DEF NoUser
  <2>5. CASE \A s \in Slot : ~ConvergeWrite(s) /\ ~DeprovisionLock(s)
                                              /\ ~DeprovisionDelete(s)
    BY <2>5, QuietSteps
  <2>6. QED
    BY <2>1, <2>2, <2>3, <2>4, <2>5
<1>2. QED
  BY <1>1, Invariance, PTL DEF Spec, EffectsFollowHrStatus

-----------------------------------------------------------------------------
(* Where the engine and the Lean function agree: a settled leaver is what   *)
(* Lean's reconcile computes, and so is a settled active record, unless an  *)
(* earlier offboarding locked the identity, which no event undoes.          *)
MatchesLean ==
    \A h \in Human : \A ev \in settled[h] :
        \/ ev.type = "leaver"
        \/ ev.employee.status = "active" /\ h \notin locks
        => LiveState(h) = LeanReconcile(ev.employee)

\* What that takes besides IInv: a user that is gone holds nothing, and only
\* valid events settle.
LeanInv ==
    /\ \A h \in Human : ~users[h].exists => users[h].roles = {}
    /\ \A h \in Human : \A ev \in settled[h] : Validate(ev)

LEMMA LeanStep ==
    ASSUME IInv, LeanInv, [Next]_vars
    PROVE  LeanInv'
<1> users \in [Human -> User] /\ settled \in [Human -> SUBSET Feed]
  BY DEF IInv, TypeOK
<1>1. ASSUME NEW h \in Human, ~users'[h].exists PROVE users'[h].roles = {}
  <2>1. CASE \A s \in Slot : ~ConvergeWrite(s) /\ ~DeprovisionLock(s)
                                              /\ ~DeprovisionDelete(s)
    BY <1>1, <2>1, QuietSteps DEF LeanInv
  <2>2. ASSUME NEW s \in Slot, \/ ConvergeWrite(s) \/ DeprovisionLock(s)
                               \/ DeprovisionDelete(s)
        PROVE  users'[h].roles = {}
    BY <1>1, <2>2, WritingSteps DEF LeanInv, NoUser
  <2>3. QED
    BY <2>1, <2>2
<1>2. ASSUME NEW h \in Human, NEW ev \in settled'[h] PROVE Validate(ev)
  <2>1. CASE ev \in settled[h]
    BY <2>1 DEF LeanInv
  <2>2. CASE ev \notin settled[h]
    <3>1. PICK s \in Slot : Complete(s)
      BY <1>2, <2>2 DEF Next, Work, vars, Submit, Begin, Forget, Reject, ConvergeRead,
         ConvergeWrite, DeprovisionLock, DeprovisionDelete, Retry, GiveUp, TimeOut
    <3>2. ev = calls[s].ev /\ calls[s].pc = "done"
      BY <1>2, <2>2, <3>1 DEF Complete
    <3>3. QED
      BY <3>2 DEF IInv, CallInv
  <2>3. QED
    BY <2>1, <2>2
<1>3. QED
  BY <1>1, <1>2 DEF LeanInv

(* For every feed and policy, the state an undisturbed reconcile leaves is  *)
(* the one the Lean model computes from the record (Basic.lean, reconcile), *)
(* except for the two cases it cannot express.                              *)
THEOREM AgreesWithLean == Spec => []MatchesLean
<1>1. Init => LeanInv
  BY DEF Init, LeanInv, NoUser
<1>2. IInv /\ LeanInv => MatchesLean
  <2> SUFFICES ASSUME IInv, LeanInv, NEW h \in Human, NEW ev \in settled[h],
                      \/ ev.type = "leaver"
                      \/ ev.employee.status = "active" /\ h \notin locks
               PROVE  LiveState(h) = LeanReconcile(ev.employee)
    BY DEF MatchesLean
  <2>1. Converged(h, ev) /\ Validate(ev)
    BY DEF IInv, SettledInv, LeanInv
  <2>2. CASE ev.type = "leaver"
    BY <2>1, <2>2 DEF Converged, Validate, LeanInv, LiveState, LeanReconcile,
       Deprovisioned
  <2>3. CASE ev.type # "leaver"
    <3>1. (h \in locks) = FALSE
      BY <2>3
    <3>2. LiveState(h) = [roles |-> RolesFor(ev.employee), locked |-> FALSE]
      BY <2>1, <2>3, <3>1 DEF Converged, LiveState
    <3>3. LeanReconcile(ev.employee)
              = [roles |-> RolesFor(ev.employee), locked |-> FALSE]
      BY <2>3 DEF LeanReconcile
    <3>4. QED
      BY <3>2, <3>3
  <2>4. QED
    BY <2>2, <2>3
<1>3. QED
  BY <1>1, <1>2, LeanStep, Invariance, PTL DEF Spec

=============================================================================
