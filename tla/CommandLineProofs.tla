------------------------- MODULE CommandLineProofs --------------------------
(***************************************************************************)
(* Proofs about CommandLine, for any people, policy, inbox and stream: the *)
(* trace that is written follows the last word of the sources on everybody *)
(* but for what the demonstration plants, and the audit finds just that.   *)
(***************************************************************************)
EXTENDS CommandLine, FiniteSetTheorems, SequenceTheorems, TLAPS

-----------------------------------------------------------------------------
(* The inductive invariant.                                                *)

\* Event i is the last of the first n about h; none of them is about h.
IsLast(es, n, i, h) ==
    /\ es[i].employee.email = h
    /\ \A j \in (i + 1)..n : es[j].employee.email # h

Silent(es, n, h) == \A j \in 1..n : es[j].employee.email # h

\* What c knows of h is what the last of the first n events about h says.
UserFollows(c, es, n, h) ==
    /\ Silent(es, n, h) => c.users[h] = NoUser
    /\ \A i \in 1..n : IsLast(es, n, i, h) =>
           c.users[h] = IF es[i].type = "leaver" THEN NoUser
                        ELSE [exists |-> TRUE, roles |-> RolesFor(es[i].employee)]

RolesFollow(c, es, n, h) ==
    /\ Silent(es, n, h) => c.entitled[h] = {}
    /\ \A i \in 1..n : IsLast(es, n, i, h) =>
           c.entitled[h] = RolesFor(es[i].employee)

ActiveFollows(c, es, n, h) ==
    \A i \in 1..n : IsLast(es, n, i, h) =>
        (h \in c.active <=> es[i].employee.status = "active")

\* One of the first n events takes h off, the last about h or not.
Left(es, n, h) == \E i \in 1..n : es[i].employee.email = h /\ es[i].type = "leaver"

\* Nobody else is locked, but for the bot user the agent leaves behind.
LockFollows(c, es, n, h) ==
    /\ Left(es, n, h) => h \in c.locks
    /\ h \in c.locks => Left(es, n, h) \/ h = BotUser["kyra"]

Follows(c, es, n) ==
    \A h \in Human : /\ UserFollows(c, es, n, h)
                     /\ RolesFollow(c, es, n, h)
                     /\ ActiveFollows(c, es, n, h)
                     /\ LockFollows(c, es, n, h)

\* What no event touches.
Untouched(c) ==
    /\ c.sessions = {}
    /\ c.devices = {}
    /\ c.known = [h \in Human |-> {}]

Laptop(h, managed, overall) ==
    [serial |-> 1, owner |-> h, managed |-> managed, overall |-> overall]

\* The laptops of DemoDevices.
Fleet == {Laptop("alice", TRUE, TRUE), Laptop("bob", TRUE, TRUE),
          Laptop("dave", TRUE, TRUE), Laptop("erin", TRUE, FALSE),
          Laptop("frank", FALSE, FALSE)}

\* The cluster after Inject: what was planted, and what follows the events yet.
Planted(c, es) ==
    /\ \A h \in Human :
          /\ h \notin {"alice", "dave"} => UserFollows(c, es, Len(es), h)
          /\ h # "dave" => RolesFollow(c, es, Len(es), h)
          /\ h \notin {"dave", "erin", "frank"} => ActiveFollows(c, es, Len(es), h)
          /\ LockFollows(c, es, Len(es), h)
    /\ c.users["alice"].exists /\ "it-admin" \in c.users["alice"].roles
    /\ c.users["alice"].roles \subseteq c.entitled["alice"] \cup {"it-admin"}
    /\ c.users["dave"] = [exists |-> TRUE, roles |-> {"k8s-prod"}]
    /\ c.entitled["dave"] = {}
    /\ "dave" \notin c.active /\ {"erin", "frank"} \subseteq c.active
    /\ c.sessions = {[id |-> "sess-7f3a", user |-> "dave", ip |-> "unseen"],
                     [id |-> "sess-9c21", user |-> "erin", ip |-> "usual"],
                     [id |-> "sess-3e88", user |-> "frank", ip |-> "usual"]}
    /\ c.known["dave"] = {"usual"} /\ \A h \in Human \ {"dave"} : c.known[h] = {}
    /\ c.devices = Fleet

\* An event that may be acted on, and of which it is known who is gone.
Sound(ev) ==
    /\ ev \in Event
    /\ Validate(ev)
    /\ ev.employee.status \in {"active", "terminated"}

\* The stream that the first n of the messages r make.
StreamOf(r, n) == FlattenSeq([m \in 1..n |-> Canonical(r[m])])

\* Where the events of a trace come from, when r was received.
Sourced(r, t) ==
    /\ \/ t.read = {} /\ t.events = DemoEvents
       \/ \E n \in 0..Len(r) : t.read = {n} /\ t.events = StreamOf(r, n)
    /\ \A i \in 1..Len(t.events) : Sound(t.events[i])

\* A request is approved on what the last event about the requester says.
JitFollows(t) ==
    \A req \in t.jit : \A i \in 1..Len(t.events) :
        IsLast(t.events, Len(t.events), i, req.user) =>
            CanAutoApprove(RolesFor(t.events[i].employee), req.requested)

\* What holds of the trace t of a run at each of its stages; n events are done.
ReconcilingAt(r, t, n) ==
    /\ Sourced(r, t)
    /\ Untouched(t.cluster)
    /\ Follows(t.cluster, t.events, n)

ReconciledAt(r, t) == ReconcilingAt(r, t, Len(t.events))

SeededAt(r, t) ==
    /\ Sourced(r, t)
    /\ JitFollows(t)
    /\ Planted(t.cluster, t.events)

Audited(r, t) ==
    /\ SeededAt(r, t)
    /\ t.findings = Detect(t.cluster)

Staged(r, pc, n, t) ==
    /\ pc = "reconcile" => ReconcilingAt(r, t, n)
    /\ pc = "requests" => ReconciledAt(r, t)
    /\ pc = "inject" => ReconciledAt(r, t) /\ JitFollows(t)
    /\ pc = "audit" => SeededAt(r, t)
    /\ pc \in {"review", "write"} => Audited(r, t)
    /\ pc = "failed" => t.cluster = Empty

IInv ==
    /\ TypeOK
    /\ Len(received) <= MaxReceived
    /\ program \in [pc : Stages, done : Nat, trace : Trace]
    /\ Staged(received, program.pc, program.done, program.trace)
    /\ \A t \in file : Audited(received, t)

-----------------------------------------------------------------------------
(* Sequences.                                                              *)

\* Induction over the naturals for a set: the least counterexample would map the
\* finite set of those up to it into one of its proper subsets.
LEMMA Induction ==
    ASSUME NEW S, 0 \in S, \A n \in Nat : n \in S => n + 1 \in S
    PROVE  Nat \subseteq S
<1> SUFFICES ASSUME NEW last \in Nat, last \notin S PROVE FALSE
  OBVIOUS
<1> DEFINE T == {n \in 0..last : n \notin S}
           U == T \ {last}
           f == [n \in T |-> n - 1]
<1>1. f \in [T -> U]
  <2>1. ASSUME NEW n \in T PROVE n - 1 \in U
    <3>1. n # 0 /\ n - 1 \in 0..last /\ (n - 1) + 1 = n /\ n - 1 # last
      OBVIOUS
    <3>2. n - 1 \notin S
      BY <3>1
    <3>3. QED
      BY <3>1, <3>2
  <2>2. QED
    BY <2>1
<1>2. \A x, y \in T : x # y => f[x] # f[y]
  OBVIOUS
<1>3. IsFiniteSet(0..last) /\ T \subseteq 0..last /\ last \in T
  BY FS_Interval
<1> HIDE DEF T, f
<1>4. IsFiniteSet(T)
  BY <1>3, FS_Subset
<1>5. IsFiniteSet(U) /\ Cardinality(U) = Cardinality(T) - 1 /\ Cardinality(T) \in Nat
  BY <1>3, <1>4, FS_RemoveElement, FS_CardinalityType
<1>6. Cardinality(U) < Cardinality(T)
  BY <1>5
<1> HIDE DEF U
<1>7. \E x, y \in T : x # y /\ f[x] = f[y]
  BY <1>1, <1>4, <1>5, <1>6, FS_PigeonHole
<1>8. QED
  BY <1>2, <1>7

LEMMA FunctionSeq ==
    ASSUME NEW X, NEW n \in Nat, NEW s \in [1..n -> X]
    PROVE  s \in Seq(X) /\ Len(s) = n
  OBVIOUS

\* A flattened sequence grows by one member at a time.
FlattenRule(ss, f, i) == IF i = 1 THEN ss[i] ELSE f[i - 1] \o ss[i]

LEMMA FlattenRecursion ==
    ASSUME NEW X, NEW ss \in Seq(Seq(X)), Len(ss) # 0
    PROVE  \E f \in [1..Len(ss) -> Seq(X)] :
               /\ FlattenSeq(ss) = f[Len(ss)]
               /\ \A i \in 1..Len(ss) : f[i] = FlattenRule(ss, f, i)
<1> DEFINE Upto(m) == \E f \in [1..m -> Seq(X)] :
                          \A i \in 1..m : f[i] = FlattenRule(ss, f, i)
           S == {m \in Nat : m <= Len(ss) => Upto(m)}
<1>1. Upto(0)
  <2> DEFINE z == [i \in 1..0 |-> <<>>]
  <2>1. z \in [1..0 -> Seq(X)] /\ \A i \in 1..0 : z[i] = FlattenRule(ss, z, i)
    OBVIOUS
  <2> HIDE DEF z
  <2>2. QED
    BY <2>1
<1>2. ASSUME NEW m \in Nat, Upto(m), m + 1 <= Len(ss) PROVE Upto(m + 1)
  <2>1. PICK f \in [1..m -> Seq(X)] : \A i \in 1..m : f[i] = FlattenRule(ss, f, i)
    BY <1>2
  <2> DEFINE g == [i \in 1..(m + 1) |-> IF i <= m THEN f[i]
                                                  ELSE FlattenRule(ss, f, m + 1)]
  <2>2. ss[m + 1] \in Seq(X) /\ (m + 1) - 1 = m
    <3>1. m + 1 \in 1..Len(ss)
      BY <1>2
    <3>2. QED
      BY <3>1
  <2>3. FlattenRule(ss, f, m + 1) \in Seq(X)
    <3>1. CASE m = 0
      BY <2>2, <3>1 DEF FlattenRule
    <3>2. CASE m # 0
      <4>1. f[m] \in Seq(X) /\ m + 1 # 1
        BY <3>2
      <4>2. QED
        BY <2>2, <4>1 DEF FlattenRule
    <3>3. QED
      BY <3>1, <3>2
  <2>4. g \in [1..(m + 1) -> Seq(X)]
    BY <2>3
  <2>5. \A i \in 1..(m + 1) : FlattenRule(ss, g, i) = FlattenRule(ss, f, i)
    <3>1. \A i \in 1..(m + 1) : i # 1 => g[i - 1] = f[i - 1]
      OBVIOUS
    <3> HIDE DEF g
    <3>2. QED
      BY <3>1 DEF FlattenRule
  <2>6. ASSUME NEW i \in 1..(m + 1) PROVE g[i] = FlattenRule(ss, g, i)
    <3>1. g[i] = IF i <= m THEN f[i] ELSE FlattenRule(ss, f, m + 1)
      OBVIOUS
    <3> HIDE DEF g
    <3>2. CASE i <= m
      BY <2>1, <2>5, <3>1, <3>2
    <3>3. CASE ~(i <= m)
      <4>1. i = m + 1
        BY <3>3
      <4>2. QED
        BY <2>5, <3>1, <3>3, <4>1
    <3>4. QED
      BY <3>2, <3>3
  <2> HIDE DEF g
  <2>7. QED
    BY <2>4, <2>6
<1> HIDE DEF Upto
<1>3. Upto(Len(ss))
  <2>1. 0 \in S /\ \A m \in Nat : m \in S => m + 1 \in S
    BY <1>1, <1>2
  <2> HIDE DEF S
  <2>2. Nat \subseteq S
    BY <2>1, Induction
  <2> USE DEF S
  <2>3. QED
    BY <2>2
<1> USE DEF Upto
<1>4. PICK f \in [1..Len(ss) -> Seq(X)] :
               \A i \in 1..Len(ss) : f[i] = FlattenRule(ss, f, i)
  BY <1>3
<1>5. f = [i \in 1..Len(ss) |-> IF i = 1 THEN ss[i] ELSE f[i - 1] \o ss[i]]
  BY <1>4 DEF FlattenRule
<1> DEFINE K == CHOOSE g : g = [i \in 1..Len(ss) |->
                                   IF i = 1 THEN ss[i] ELSE g[i - 1] \o ss[i]]
<1>6. K = [i \in 1..Len(ss) |-> IF i = 1 THEN ss[i] ELSE K[i - 1] \o ss[i]]
  BY <1>5
<1>7. FlattenSeq(ss) = K[Len(ss)]
  BY DEF FlattenSeq
<1> HIDE DEF K
<1>8. \A i \in 1..Len(ss) : K[i] = FlattenRule(ss, K, i)
  BY <1>6 DEF FlattenRule
<1>9. K \in [1..Len(ss) -> Seq(X)]
  <2> DEFINE T == {i \in Nat : i \in 1..Len(ss) => K[i] \in Seq(X)}
  <2>1. 0 \in T
    OBVIOUS
  <2>2. ASSUME NEW i \in Nat, i \in T PROVE i + 1 \in T
    <3> SUFFICES ASSUME i + 1 \in 1..Len(ss) PROVE K[i + 1] \in Seq(X)
      OBVIOUS
    <3>1. ss[i + 1] \in Seq(X) /\ (i + 1) - 1 = i
      OBVIOUS
    <3>2. CASE i = 0
      BY <1>8, <3>1, <3>2 DEF FlattenRule
    <3>3. CASE i # 0
      <4>1. K[i] \in Seq(X) /\ i + 1 # 1
        BY <2>2, <3>3
      <4>2. K[i + 1] = K[i] \o ss[i + 1]
        BY <1>8, <3>1, <4>1 DEF FlattenRule
      <4>3. QED
        BY <3>1, <4>1, <4>2
    <3>4. QED
      BY <3>2, <3>3
  <2> HIDE DEF T
  <2>3. Nat \subseteq T
    BY <2>1, <2>2, Induction
  <2> USE DEF T
  <2>4. \A i \in 1..Len(ss) : K[i] \in Seq(X)
    BY <2>3
  <2>5. QED
    BY <1>6, <2>4
<1>10. QED
  BY <1>7, <1>8, <1>9

\* An event and a word that say the same of the same person.
Saying == [who : Human \cup {NoEmail}, gone : BOOLEAN, news : BOOLEAN,
           roles : SUBSET Role]

Corresponds(ev, w) ==
    /\ ev.employee.email = w.who
    /\ RolesFor(ev.employee) = w.roles
    /\ ev.employee.status \in {"active", "terminated"}
    /\ w.gone <=> ev.employee.status = "terminated"
    /\ w.news <=> ev.type = "leaver"

Matches(es, ws) ==
    /\ es \in Seq(Event)
    /\ ws \in Seq(Saying)
    /\ Len(es) = Len(ws)
    /\ \A i \in 1..Len(es) : Corresponds(es[i], ws[i])

LEMMA ConcatMatches ==
    ASSUME NEW es, NEW ws, NEW fs, NEW vs, Matches(es, ws), Matches(fs, vs)
    PROVE  Matches(es \o fs, ws \o vs)
<1>1. /\ es \in Seq(Event) /\ fs \in Seq(Event) /\ ws \in Seq(Saying) /\ vs \in Seq(Saying)
      /\ Len(es) = Len(ws) /\ Len(fs) = Len(vs)
  BY DEF Matches
<1>2. /\ es \o fs \in Seq(Event) /\ ws \o vs \in Seq(Saying)
      /\ Len(es \o fs) = Len(ws \o vs)
      /\ Len(es \o fs) = Len(es) + Len(fs)
  BY <1>1
<1>3. ASSUME NEW i \in 1..Len(es \o fs) PROVE Corresponds((es \o fs)[i], (ws \o vs)[i])
  <2>1. CASE i <= Len(es)
    <3>1. (es \o fs)[i] = es[i] /\ (ws \o vs)[i] = ws[i] /\ i \in 1..Len(es)
      BY <1>1, <1>2, <2>1
    <3>2. QED
      BY <3>1 DEF Matches
  <2>2. CASE i > Len(es)
    <3>1. /\ (es \o fs)[i] = fs[i - Len(es)] /\ (ws \o vs)[i] = vs[i - Len(es)]
          /\ i - Len(es) \in 1..Len(fs)
      BY <1>1, <1>2, <2>2
    <3>2. QED
      BY <3>1 DEF Matches
  <2>3. QED
    BY <1>1, <2>1, <2>2
<1>4. QED
  BY <1>2, <1>3 DEF Matches

\* Sequences that match member by member match when they are flattened.
LEMMA FlattenMatches ==
    ASSUME NEW n \in Nat, NEW ss, NEW tt,
           ss = [i \in 1..n |-> ss[i]], tt = [i \in 1..n |-> tt[i]],
           \A i \in 1..n : Matches(ss[i], tt[i])
    PROVE  Matches(FlattenSeq(ss), FlattenSeq(tt))
<1>1. /\ ss \in Seq(Seq(Event)) /\ Len(ss) = n
      /\ tt \in Seq(Seq(Saying)) /\ Len(tt) = n
  <2>1. \A i \in 1..n : ss[i] \in Seq(Event) /\ tt[i] \in Seq(Saying)
    BY DEF Matches
  <2>2. ss \in [1..n -> Seq(Event)] /\ tt \in [1..n -> Seq(Saying)]
    BY <2>1
  <2>3. QED
    BY <2>2
<1>2. CASE n = 0
  <2>1. ss = <<>> /\ tt = <<>>
    BY <1>1, <1>2
  <2>2. FlattenSeq(ss) = <<>> /\ FlattenSeq(tt) = <<>>
    BY <2>1 DEF FlattenSeq
  <2>3. /\ <<>> \in Seq(Event) /\ <<>> \in Seq(Saying) /\ Len(<<>>) = 0
        /\ \A i \in 1..0 : FALSE
    OBVIOUS
  <2>4. QED
    BY <2>2, <2>3 DEF Matches
<1>3. CASE n # 0
  <2>0. Len(ss) # 0 /\ Len(tt) # 0
    BY <1>1, <1>3
  <2>1. PICK f \in [1..Len(ss) -> Seq(Event)] :
                 /\ FlattenSeq(ss) = f[Len(ss)]
                 /\ \A i \in 1..Len(ss) : f[i] = FlattenRule(ss, f, i)
    BY <1>1, <2>0, FlattenRecursion
  <2>2. PICK g \in [1..Len(tt) -> Seq(Saying)] :
                 /\ FlattenSeq(tt) = g[Len(tt)]
                 /\ \A i \in 1..Len(tt) : g[i] = FlattenRule(tt, g, i)
    BY <1>1, <2>0, FlattenRecursion
  <2> DEFINE S == {i \in Nat : i \in 1..n => Matches(f[i], g[i])}
  <2>3. 0 \in S
    OBVIOUS
  <2>4. ASSUME NEW i \in Nat, i \in S PROVE i + 1 \in S
    <3> SUFFICES ASSUME i + 1 \in 1..n PROVE Matches(f[i + 1], g[i + 1])
      OBVIOUS
    <3>1. Matches(ss[i + 1], tt[i + 1]) /\ (i + 1) - 1 = i
      OBVIOUS
    <3>2. CASE i = 0
      <4>1. i + 1 = 1 /\ 1 \in 1..Len(ss) /\ 1 \in 1..Len(tt)
        BY <1>1, <3>2
      <4>2. f[1] = ss[1] /\ g[1] = tt[1]
        BY <2>1, <2>2, <4>1 DEF FlattenRule
      <4>3. QED
        BY <3>1, <4>1, <4>2
    <3>3. CASE i # 0
      <4>1. Matches(f[i], g[i]) /\ i + 1 # 1
        BY <2>4, <3>3
      <4>2. f[i + 1] = f[i] \o ss[i + 1] /\ g[i + 1] = g[i] \o tt[i + 1]
        BY <1>1, <2>1, <2>2, <3>1, <4>1 DEF FlattenRule
      <4>3. QED
        BY <3>1, <4>1, <4>2, ConcatMatches
    <3>4. QED
      BY <3>2, <3>3
  <2> HIDE DEF S
  <2>5. Nat \subseteq S
    BY <2>3, <2>4, Induction
  <2> USE DEF S
  <2>6. Matches(f[n], g[n])
    BY <1>3, <2>5
  <2>7. QED
    BY <1>1, <2>1, <2>2, <2>6
<1>4. QED
  BY <1>2, <1>3

\* Flattening undoes the wrapping of each member in a sequence of its own.
LEMMA FlattenSingletons ==
    ASSUME NEW X, NEW s \in Seq(X), NEW ss, ss = [i \in 1..Len(s) |-> <<s[i]>>]
    PROVE  FlattenSeq(ss) = s
<1>1. ss \in Seq(Seq(X)) /\ Len(ss) = Len(s)
  <2>1. \A i \in 1..Len(s) : <<s[i]>> \in Seq(X)
    OBVIOUS
  <2>2. ss \in [1..Len(s) -> Seq(X)]
    BY <2>1
  <2>3. QED
    BY <2>2
<1>2. CASE Len(s) = 0
  <2>1. ss = <<>> /\ s = <<>>
    BY <1>1, <1>2
  <2>2. QED
    BY <2>1 DEF FlattenSeq
<1>3. CASE Len(s) # 0
  <2> DEFINE n == Len(s)
  <2>0. Len(ss) # 0
    BY <1>1, <1>3
  <2>1. PICK f \in [1..Len(ss) -> Seq(X)] :
                 /\ FlattenSeq(ss) = f[Len(ss)]
                 /\ \A i \in 1..Len(ss) : f[i] = FlattenRule(ss, f, i)
    BY <1>1, <2>0, FlattenRecursion
  <2> DEFINE S == {i \in Nat : i \in 1..n => f[i] = SubSeq(s, 1, i)}
  <2>2. 0 \in S
    OBVIOUS
  <2>3. ASSUME NEW i \in Nat, i \in S PROVE i + 1 \in S
    <3> SUFFICES ASSUME i + 1 \in 1..n PROVE f[i + 1] = SubSeq(s, 1, i + 1)
      OBVIOUS
    <3>1. (i + 1) - 1 = i /\ ss[i + 1] = <<s[i + 1]>>
      OBVIOUS
    <3>2. CASE i = 0
      <4>1. i + 1 = 1 /\ 1 \in 1..Len(ss)
        BY <1>1, <3>2
      <4>2. f[1] = ss[1]
        BY <2>1, <4>1 DEF FlattenRule
      <4>3. SubSeq(s, 1, 1) = <<s[1]>>
        <5>1. 1 \in 1..Len(s) /\ 1 \in 1..1
          BY <3>2
        <5>2. SubSeq(s, 1, 1) = <<s[1]>> \o SubSeq(s, 2, 1) /\ SubSeq(s, 2, 1) = <<>>
          BY <5>1, SubSeqRecursiveFirst, SubSeqEmpty
        <5>3. <<s[1]>> \in Seq(X)
          BY <5>1
        <5>4. <<s[1]>> \o <<>> = <<s[1]>>
          BY <5>3, ConcatEmptySeq
        <5>5. QED
          BY <5>2, <5>4
      <4>4. QED
        BY <3>1, <4>1, <4>2, <4>3
    <3>3. CASE i # 0
      <4>1. f[i] = SubSeq(s, 1, i) /\ i + 1 # 1
        BY <2>3, <3>3
      <4>2. i + 1 \in 1..Len(ss)
        BY <1>1
      <4>3. f[i + 1] = f[i] \o ss[i + 1]
        BY <2>1, <3>1, <4>1, <4>2 DEF FlattenRule
      <4>4. SubSeq(s, 1, i + 1) = SubSeq(s, 1, i) \o <<s[i + 1]>>
        BY <3>3
      <4>5. QED
        BY <3>1, <4>1, <4>3, <4>4
    <3>4. QED
      BY <3>2, <3>3
  <2> HIDE DEF S
  <2>4. Nat \subseteq S
    BY <2>2, <2>3, Induction
  <2> USE DEF S
  <2>5. f[n] = SubSeq(s, 1, n)
    BY <1>3, <2>4
  <2>6. SubSeq(s, 1, n) = s
    OBVIOUS
  <2>7. QED
    BY <1>1, <2>1, <2>5, <2>6
<1>4. QED
  BY <1>2, <1>3

LEMMA FlattenNothing ==
    ASSUME NEW n \in Nat, NEW ss, ss = [i \in 1..n |-> <<>>]
    PROVE  FlattenSeq(ss) = <<>>
<1>1. /\ ss \in [1..n -> Seq({})]
      /\ ss \in Seq(Seq({})) /\ Len(ss) = n
  <2>1. ss \in [1..n -> Seq({})]
    OBVIOUS
  <2>2. QED
    BY <2>1, FunctionSeq
<1>2. CASE n = 0
  BY <1>1, <1>2 DEF FlattenSeq
<1>3. CASE n # 0
  <2>1. Len(ss) # 0
    BY <1>1, <1>3
  <2>2. PICK f \in [1..Len(ss) -> Seq({})] : FlattenSeq(ss) = f[Len(ss)]
    BY <1>1, <2>1, FlattenRecursion
  <2>3. f[Len(ss)] \in Seq({})
    BY <1>1, <1>3
  <2>4. \A s \in Seq({}) : s = <<>>
    OBVIOUS
  <2>5. QED
    BY <2>2, <2>3, <2>4
<1>4. QED
  BY <1>2, <1>3

\* The one sequence of the members of an empty set and of a singleton.
LEMMA SetToSeqNone ==
    SetToSeq({}) = <<>>
<1>1. Cardinality({}) = 0
  BY FS_EmptySet
<1>2. \A f \in [1..0 -> {}] : f = <<>>
  OBVIOUS
<1>3. <<>> \in [1..0 -> {}] /\ IsInjective(<<>>)
  BY DEF IsInjective
<1>4. QED
  BY <1>1, <1>2, <1>3 DEF SetToSeq

LEMMA SetToSeqOne ==
    ASSUME NEW x
    PROVE  SetToSeq({x}) = <<x>>
<1>1. Cardinality({x}) = 1
  BY FS_Singleton
<1>2. \A f \in [1..1 -> {x}] : f = <<x>>
  OBVIOUS
<1>3. <<x>> \in [1..1 -> {x}] /\ IsInjective(<<x>>)
  BY DEF IsInjective
<1>4. QED
  BY <1>1, <1>2, <1>3 DEF SetToSeq

-----------------------------------------------------------------------------
(* The words of a message are those of its events.                         *)

\* An event and a word, made of a record.
LEMMA RecordCorresponds ==
    ASSUME NEW type \in {"joiner", "mover", "leaver"}, NEW h \in Human \cup {NoEmail},
           NEW dept \in Department, NEW title \in Title,
           NEW status \in {"active", "terminated"},
           NEW ev, ev = [type |-> type,
                         employee |-> [email |-> h, dept |-> dept, title |-> title,
                                       status |-> status]],
           NEW w \in Saying, w.who = h,
           w.gone <=> status = "terminated",
           w.news <=> type = "leaver",
           w.roles = IF status = "terminated" THEN {}
                     ELSE DepartmentRoles[dept] \cup TitleRoles[title]
    PROVE  ev \in Event /\ Matches(<<ev>>, <<w>>)
<1>1. ev \in Event
  BY DEF Event, EventType, Employee, Status
<1>2. /\ ev.type = type /\ ev.employee.email = h /\ ev.employee.dept = dept
      /\ ev.employee.title = title /\ ev.employee.status = status
  OBVIOUS
<1>3. RolesFor(ev.employee) = w.roles
  BY <1>2 DEF RolesFor
<1>4. Corresponds(ev, w)
  BY <1>2, <1>3 DEF Corresponds
<1>5. <<ev>> \in Seq(Event) /\ <<w>> \in Seq(Saying) /\ Len(<<ev>>) = 1 /\ Len(<<w>>) = 1
  BY <1>1
<1>6. \A i \in 1..1 : <<ev>>[i] = ev /\ <<w>>[i] = w
  OBVIOUS
<1>7. QED
  BY <1>1, <1>4, <1>5, <1>6 DEF Matches

LEMMA NoneMatches == Matches(<<>>, <<>>)
<1>1. /\ <<>> \in Seq(Event) /\ <<>> \in Seq(Saying) /\ Len(<<>>) = 0
      /\ \A i \in 1..0 : FALSE
  OBVIOUS
<1>2. QED
  BY <1>1 DEF Matches

\* What a delivery of Rippling says is what its events do.
LEMMA PollMatches ==
    ASSUME NEW b \in Seq(RipplingEmployee),
           NEW m, m.from = "rippling poll", m.batch = b
    PROVE  Matches(Canonical(m), Words(m))
<1> DEFINE Type(e) == IF e.employment = "INACTIVE" THEN "leaver" ELSE "mover"
           Ev(e) == FromRippling(Type(e), e)
           Wd(e) == Word(e.email, e.employment = "INACTIVE", TRUE, e.dept, e.title)
           s == [n \in 1..Len(b) |-> Ev(b[n])]
           ss == [n \in 1..Len(b) |-> <<s[n]>>]
           tt == [n \in 1..Len(b) |-> <<Wd(b[n])>>]
<1>1. Len(b) \in Nat /\ DOMAIN b = 1..Len(b) /\ b \in [1..Len(b) -> RipplingEmployee]
  BY LenProperties
<1>2. ASSUME NEW e \in RipplingEmployee 
      PROVE  Ev(e) \in Event /\ Matches(<<Ev(e)>>, <<Wd(e)>>)
  <2> DEFINE status == IF e.employment = "INACTIVE" THEN "terminated" ELSE "active"
  <2>1. /\ e.email \in Human \cup {NoEmail} /\ e.dept \in Department /\ e.title \in Title
        /\ e.employment \in {"ACTIVE", "INACTIVE"}
    BY <1>2 DEF RipplingEmployee
  <2>2. /\ Wd(e) \in Saying /\ Wd(e).who = e.email
        /\ Wd(e).gone <=> status = "terminated"
        /\ Wd(e).news <=> Type(e) = "leaver"
        /\ Wd(e).roles = IF status = "terminated" THEN {}
                         ELSE DepartmentRoles[e.dept] \cup TitleRoles[e.title]
    <3>1. Wd(e) \in Saying
      BY <2>1, PolicyAssumption DEF Word, Saying
    <3>2. Wd(e).who = e.email
      BY DEF Word
    <3>3. Wd(e).gone <=> status = "terminated"
      BY DEF Word
    <3>4. Wd(e).news <=> Type(e) = "leaver"
      BY DEF Word
    <3>5. Wd(e).roles = IF status = "terminated" THEN {}
                        ELSE DepartmentRoles[e.dept] \cup TitleRoles[e.title]
      BY DEF Word
    <3>6. QED
      BY <3>1, <3>2, <3>3, <3>4, <3>5
  <2>3. /\ Ev(e) = [type |-> Type(e),
                    employee |-> [email |-> e.email, dept |-> e.dept, title |-> e.title,
                                  status |-> status]]
        /\ Type(e) \in {"joiner", "mover", "leaver"}
        /\ status \in {"active", "terminated"}
    BY DEF FromRippling, StatusFor
  <2> HIDE DEF Type, Ev, Wd, status
  <2>4. QED
    BY <2>1, <2>2, <2>3, RecordCorresponds
<1>3. Canonical(m) = s
  BY <1>1 DEF Canonical, RipplingPoll
<1>4. Words(m) = FlattenSeq(tt)
  BY <1>1 DEF Words
<1> HIDE DEF Ev, Wd
<1>5. \A n \in 1..Len(b) : /\ ss[n] = <<Ev(b[n])>> /\ tt[n] = <<Wd(b[n])>>
                           /\ b[n] \in RipplingEmployee
  BY <1>1
<1>6. s \in Seq(Event) /\ Len(s) = Len(b)
  <2>1. s \in [1..Len(b) -> Event]
    BY <1>2, <1>5
  <2> HIDE DEF s
  <2>2. QED
    BY <1>1, <2>1, FunctionSeq
<1>7. ss = [n \in 1..Len(b) |-> ss[n]] /\ tt = [n \in 1..Len(b) |-> tt[n]]
  OBVIOUS
<1>8. ss = [n \in 1..Len(s) |-> <<s[n]>>]
  BY <1>6
<1> HIDE DEF s, ss, tt
<1>9. FlattenSeq(ss) = s
  BY <1>6, <1>8, FlattenSingletons
<1>10. \A n \in 1..Len(b) : Matches(ss[n], tt[n])
  BY <1>2, <1>5
<1>11. Matches(FlattenSeq(ss), FlattenSeq(tt))
  BY <1>1, <1>7, <1>10, FlattenMatches
<1>12. QED
  BY <1>3, <1>4, <1>9, <1>11

LEMMA WebhookMatches ==
    ASSUME NEW b \in Seq([event : RipplingEvents, data : RipplingEmployee]),
           NEW m, m.from = "rippling webhook", m.batch = b
    PROVE  Matches(Canonical(m), Words(m))
<1> DEFINE Delivery == [event : RipplingEvents, data : RipplingEmployee]
           Evs(w) == {FromRippling(type, w.data) : type \in RipplingTypes(w.event)}
           Gone(w) == "employee.terminated" = w.event \/ w.data.employment = "INACTIVE"
           Wd(w) == Word(w.data.email, Gone(w), w.event = "employee.terminated",
                         w.data.dept, w.data.title)
           Of(w) == IF w.event = "payroll.closed" THEN <<>> ELSE <<Wd(w)>>
           ss == [n \in 1..Len(b) |-> SetToSeq(Evs(b[n]))]
           tt == [n \in 1..Len(b) |-> Of(b[n])]
<1>1. Len(b) \in Nat /\ DOMAIN b = 1..Len(b) /\ b \in [1..Len(b) -> Delivery]
  BY LenProperties
<1>2. ASSUME NEW w \in Delivery PROVE Matches(SetToSeq(Evs(w)), Of(w))
  <2> DEFINE e == w.data
             status == IF Gone(w) THEN "terminated" ELSE "active"
  <2>1. /\ e.email \in Human \cup {NoEmail} /\ e.dept \in Department /\ e.title \in Title
        /\ e.employment \in {"ACTIVE", "INACTIVE"}
        /\ w.event \in RipplingEvents
    BY <1>2 DEF RipplingEmployee
  <2>2. CASE w.event = "payroll.closed"
    <3>1. RipplingTypes(w.event) = {}
      BY <2>2 DEF RipplingTypes
    <3>2. Evs(w) = {}
      BY <3>1
    <3> HIDE DEF Evs
    <3>3. QED
      BY <2>2, <3>2, SetToSeqNone, NoneMatches
  <2>3. CASE w.event # "payroll.closed"
    <3>1. PICK type \in {"joiner", "mover", "leaver"} :
                 /\ RipplingTypes(w.event) = {type}
                 /\ type = "leaver" <=> w.event = "employee.terminated"
      BY <2>1, <2>3 DEF RipplingTypes, RipplingEvents
    <3> DEFINE ev == FromRippling(type, e)
    <3>2. Evs(w) = {ev}
      BY <3>1
    <3>3. /\ ev = [type |-> type,
                   employee |-> [email |-> e.email, dept |-> e.dept, title |-> e.title,
                                 status |-> status]]
          /\ status \in {"active", "terminated"}
      BY <3>1 DEF FromRippling, StatusFor
    <3>4. Wd(w) \in Saying
      BY <2>1, PolicyAssumption DEF Word, Saying
    <3>5. Wd(w).who = e.email
      BY DEF Word
    <3>6. Wd(w).gone <=> status = "terminated"
      BY DEF Word
    <3>7. Wd(w).news <=> type = "leaver"
      BY <3>1 DEF Word
    <3>8. Wd(w).roles = IF status = "terminated" THEN {}
                        ELSE DepartmentRoles[e.dept] \cup TitleRoles[e.title]
      BY DEF Word
    <3>9. Matches(<<ev>>, <<Wd(w)>>)
      <4> HIDE DEF ev, Wd, status
      <4>1. QED
        BY <2>1, <3>3, <3>4, <3>5, <3>6, <3>7, <3>8, RecordCorresponds
    <3> HIDE DEF ev, Wd, Evs
    <3>10. QED
      BY <2>3, <3>2, <3>9, SetToSeqOne
  <2>4. QED
    BY <2>2, <2>3
<1>3. Canonical(m) = FlattenSeq(ss)
  BY <1>1 DEF Canonical, RipplingParse
<1>4. Words(m) = FlattenSeq(tt)
  BY <1>1 DEF Words
<1> HIDE DEF Evs, Of
<1>5. \A n \in 1..Len(b) : /\ ss[n] = SetToSeq(Evs(b[n])) /\ tt[n] = Of(b[n])
                           /\ b[n] \in Delivery
  BY <1>1
<1>6. ss = [n \in 1..Len(b) |-> ss[n]] /\ tt = [n \in 1..Len(b) |-> tt[n]]
  OBVIOUS
<1> HIDE DEF ss, tt
<1>7. \A n \in 1..Len(b) : Matches(ss[n], tt[n])
  BY <1>2, <1>5
<1>8. Matches(FlattenSeq(ss), FlattenSeq(tt))
  BY <1>1, <1>6, <1>7, FlattenMatches
<1>9. QED
  BY <1>3, <1>4, <1>8

LEMMA FirstOfSeq ==
    ASSUME NEW X, NEW s \in Seq(X), s # <<>>
    PROVE  s[1] \in X /\ Head(s) = s[1]
  OBVIOUS

LEMMA HookWord ==
    ASSUME NEW h \in Human \cup {NoEmail}, NEW w
    PROVE  Word(h, w.event \in {"user.lifecycle.deactivate", "user.lifecycle.suspend"},
                TRUE, Unset, Unset) \in Saying
  BY UnsetAssumption, PolicyAssumption DEF Word, Saying

LEMMA HookMatches ==
    ASSUME NEW b \in Seq([event : OktaEvents, targets : Seq(Human \cup {NoEmail})]),
           NEW m, m.from = "okta hook", m.batch = b, m.challenge \in BOOLEAN
    PROVE  Matches(Canonical(m), Words(m))
<1> DEFINE Delivery == [event : OktaEvents, targets : Seq(Human \cup {NoEmail})]
           Ev(w, t) == [type |-> t[1],
                        employee |-> [email |-> Head(w.targets), dept |-> Unset,
                                      title |-> Unset, status |-> t[2]]]
           Evs(w) == {Ev(w, t) : t \in OktaTypes(w.event)}
           Es(w) == IF w.targets = <<>> THEN <<>> ELSE SetToSeq(Evs(w))
           Gone(w) == w.event \in {"user.lifecycle.deactivate", "user.lifecycle.suspend"}
           Wd(w) == Word(w.targets[1], Gone(w), TRUE, Unset, Unset)
           Of(w) == IF \/ m.challenge
                       \/ w.event = "user.session.start"
                       \/ w.targets = <<>>
                    THEN <<>> ELSE <<Wd(w)>>
           ss == [n \in 1..Len(b) |-> Es(b[n])]
           tt == [n \in 1..Len(b) |-> Of(b[n])]
<1>1. Len(b) \in Nat /\ DOMAIN b = 1..Len(b) /\ b \in [1..Len(b) -> Delivery]
  BY LenProperties
<1>2. ASSUME ~m.challenge, NEW w \in Delivery PROVE Matches(Es(w), Of(w))
  <2>1. w.targets \in Seq(Human \cup {NoEmail}) /\ w.event \in OktaEvents
    BY <1>2
  <2>2. CASE w.targets = <<>>
    BY <2>2, NoneMatches
  <2>3. CASE w.targets # <<>> /\ w.event = "user.session.start"
    <3>1. OktaTypes(w.event) = {}
      BY <2>3 DEF OktaTypes
    <3>2. Evs(w) = {}
      BY <3>1
    <3> HIDE DEF Evs
    <3>3. QED
      BY <2>3, <3>2, SetToSeqNone, NoneMatches
  <2>4. CASE w.targets # <<>> /\ w.event # "user.session.start"
    <3> DEFINE h == w.targets[1]
               status == IF Gone(w) THEN "terminated" ELSE "active"
    <3>1. PICK type \in {"joiner", "mover", "leaver"} :
                 /\ OktaTypes(w.event) = {<<type, status>>}
                 /\ type = "leaver" <=> Gone(w)
      BY <2>1, <2>4 DEF OktaTypes, OktaEvents
    <3> DEFINE ev == Ev(w, <<type, status>>)
    <3>2. Evs(w) = {ev}
      <4> HIDE DEF Ev, status
      <4>1. QED
        BY <3>1
    <3>3. h \in Human \cup {NoEmail} /\ Head(w.targets) = h
      BY <2>1, <2>4, FirstOfSeq
    <3>4. /\ ev = [type |-> type,
                   employee |-> [email |-> h, dept |-> Unset, title |-> Unset,
                                 status |-> status]]
          /\ status \in {"active", "terminated"}
      BY <3>3
    <3>5. Unset \in Department /\ Unset \in Title
      BY UnsetAssumption
    <3>6. Wd(w) \in Saying
      <4>1. h \in Human \cup {NoEmail}
        BY <3>3
      <4> HIDE DEF h
      <4>2. Word(h, Gone(w), TRUE, Unset, Unset) \in Saying
        BY <4>1, HookWord
      <4> USE DEF h
      <4>3. QED
        BY <4>2
    <3>7. Wd(w).who = h
      BY DEF Word
    <3>8. Wd(w).gone <=> status = "terminated"
      BY DEF Word
    <3>9. Wd(w).news <=> type = "leaver"
      BY <3>1 DEF Word
    <3>10. Wd(w).roles = IF status = "terminated" THEN {}
                         ELSE DepartmentRoles[Unset] \cup TitleRoles[Unset]
      BY DEF Word
    <3>11. Matches(<<ev>>, <<Wd(w)>>)
      <4> HIDE DEF ev, Wd, status, h
      <4>1. h \in Human \cup {NoEmail}
        BY <3>3
      <4>2. QED
        BY <3>4, <3>5, <3>6, <3>7, <3>8, <3>9, <3>10, <4>1, RecordCorresponds
    <3> HIDE DEF ev, Wd, Evs
    <3>12. QED
      BY <1>2, <2>4, <3>2, <3>11, SetToSeqOne
  <2>5. QED
    BY <2>2, <2>3, <2>4
<1>3. Canonical(m) = IF m.challenge THEN <<>> ELSE FlattenSeq(ss)
  BY <1>1 DEF Canonical, OktaParse
<1>4. Words(m) = FlattenSeq(tt)
  BY <1>1 DEF Words
<1>5. \A w : m.challenge => Of(w) = <<>>
  OBVIOUS
<1> HIDE DEF Es, Of
<1>6. CASE m.challenge
  <2>1. tt = [n \in 1..Len(b) |-> <<>>]
    BY <1>5, <1>6
  <2> HIDE DEF tt
  <2>2. FlattenSeq(tt) = <<>>
    BY <1>1, <2>1, FlattenNothing
  <2>3. QED
    BY <1>3, <1>4, <1>6, <2>2, NoneMatches
<1>7. CASE ~m.challenge
  <2>1. \A n \in 1..Len(b) : /\ ss[n] = Es(b[n]) /\ tt[n] = Of(b[n])
                             /\ b[n] \in Delivery
    BY <1>1
  <2>2. ss = [n \in 1..Len(b) |-> ss[n]] /\ tt = [n \in 1..Len(b) |-> tt[n]]
    OBVIOUS
  <2> HIDE DEF ss, tt
  <2>3. \A n \in 1..Len(b) : Matches(ss[n], tt[n])
    BY <1>2, <1>7, <2>1
  <2>4. Matches(FlattenSeq(ss), FlattenSeq(tt))
    BY <1>1, <2>2, <2>3, FlattenMatches
  <2>5. QED
    BY <1>3, <1>4, <1>7, <2>4
<1>8. QED
  BY <1>6, <1>7

\* Any vendor message, and with it the stream: the words are those of the events.
LEMMA MessageMatches ==
    ASSUME NEW m \in Message
    PROVE  Matches(Canonical(m), Words(m))
<1>1. CASE m.from = "rippling poll"
  <2>1. m.batch \in Seq(RipplingEmployee)
    BY <1>1 DEF Message
  <2>2. QED
    BY <1>1, <2>1, PollMatches
<1>2. CASE m.from = "rippling webhook"
  <2>1. m.batch \in Seq([event : RipplingEvents, data : RipplingEmployee])
    BY <1>2 DEF Message
  <2>2. QED
    BY <1>2, <2>1, WebhookMatches
<1>3. CASE m.from = "okta hook"
  <2>1. /\ m.batch \in Seq([event : OktaEvents, targets : Seq(Human \cup {NoEmail})])
        /\ m.challenge \in BOOLEAN
    BY <1>3 DEF Message
  <2>2. QED
    BY <1>3, <2>1, HookMatches
<1>4. QED
  BY <1>1, <1>2, <1>3 DEF Message

LEMMA StreamMatches ==
    ASSUME received \in Seq(Inbox), NEW n \in 0..Len(received)
    PROVE  Matches(Stream(n), Said(n))
<1> DEFINE ss == [m \in 1..n |-> Canonical(received[m])]
           tt == [m \in 1..n |-> Words(received[m])]
<1>1. n \in Nat /\ \A m \in 1..n : received[m] \in Message
  BY InboxAssumption
<1>2. /\ ss = [m \in 1..n |-> ss[m]] /\ tt = [m \in 1..n |-> tt[m]]
      /\ \A m \in 1..n : ss[m] = Canonical(received[m]) /\ tt[m] = Words(received[m])
  OBVIOUS
<1>3. Stream(n) = FlattenSeq(ss) /\ Said(n) = FlattenSeq(tt)
  BY DEF Stream, Said
<1> HIDE DEF ss, tt
<1>4. \A m \in 1..n : Matches(ss[m], tt[m])
  BY <1>1, <1>2, MessageMatches
<1>5. QED
  BY <1>1, <1>2, <1>3, <1>4, FlattenMatches

\* Somebody of whom there are events has a last one.
LEMMA LastExists ==
    ASSUME NEW es, NEW h, NEW n \in Nat
    PROVE  Silent(es, n, h) \/ \E i \in 1..n : IsLast(es, n, i, h)
<1> DEFINE S == {m \in Nat : Silent(es, m, h) \/ \E i \in 1..m : IsLast(es, m, i, h)}
<1>1. 0 \in S
  BY DEF Silent
<1>2. ASSUME NEW m \in Nat, m \in S PROVE m + 1 \in S
  <2>1. CASE es[m + 1].employee.email = h
    <3>1. IsLast(es, m + 1, m + 1, h) /\ m + 1 \in 1..(m + 1)
      BY <2>1 DEF IsLast
    <3>2. QED
      BY <3>1
  <2>2. CASE es[m + 1].employee.email # h
    <3>1. \A j \in 1..(m + 1) : j \in 1..m \/ j = m + 1
      OBVIOUS
    <3>2. Silent(es, m, h) => Silent(es, m + 1, h)
      BY <2>2, <3>1 DEF Silent
    <3>3. ASSUME NEW i \in 1..m, IsLast(es, m, i, h)
          PROVE  i \in 1..(m + 1) /\ IsLast(es, m + 1, i, h)
      <4>1. \A j \in (i + 1)..(m + 1) : j \in (i + 1)..m \/ j = m + 1
        OBVIOUS
      <4>2. QED
        BY <2>2, <3>3, <4>1 DEF IsLast
    <3>4. QED
      BY <1>2, <3>2, <3>3
  <2>3. QED
    BY <2>1, <2>2
<1> HIDE DEF S
<1>3. Nat \subseteq S
  BY <1>1, <1>2, Induction
<1> USE DEF S
<1>4. QED
  BY <1>3

\* The last word about h is what the last event about h says.
LEMMA LastWordSays ==
    ASSUME received \in Seq(Inbox), NEW n \in 0..Len(received), NEW h,
           NEW es, es = Stream(n)
    PROVE  /\ \A w \in LastWord(h, n) : \E i \in 1..Len(es) :
                  IsLast(es, Len(es), i, h) /\ Corresponds(es[i], w)
           /\ \A i \in 1..Len(es) : IsLast(es, Len(es), i, h) =>
                  \E w \in LastWord(h, n) : Corresponds(es[i], w)
<1> DEFINE ws == Said(n)
           IsLastWord(j) == /\ ws[j].who = h
                            /\ \A k \in (j + 1)..Len(ws) : ws[k].who # h
<1>1. Matches(es, ws)
  BY StreamMatches
<1>2. LastWord(h, n) = {ws[i] : i \in {j \in DOMAIN ws : IsLastWord(j)}}
  BY DEF LastWord
<1> HIDE DEF ws
<1>3. /\ Len(es) = Len(ws) /\ Len(ws) \in Nat /\ DOMAIN ws = 1..Len(ws)
  BY <1>1, LenProperties DEF Matches
<1>4. \A i \in 1..Len(es) : /\ Corresponds(es[i], ws[i])
                            /\ es[i].employee.email = ws[i].who
  BY <1>1 DEF Matches, Corresponds
<1>5. \A i \in 1..Len(es) : IsLast(es, Len(es), i, h) <=> IsLastWord(i)
  <2>1. SUFFICES ASSUME NEW i \in 1..Len(es)
                 PROVE  IsLast(es, Len(es), i, h) <=> IsLastWord(i)
    OBVIOUS
  <2>2. \A j \in (i + 1)..Len(es) : j \in 1..Len(es)
    BY <1>3
  <2>3. QED
    BY <1>3, <1>4, <2>2 DEF IsLast
<1> HIDE DEF IsLastWord
<1>6. QED
  BY <1>2, <1>3, <1>4, <1>5

-----------------------------------------------------------------------------
(* What the steps of a script make of a cluster.                           *)

\* The fields of a cluster.
LEMMA Fields ==
    ASSUME NEW c \in Cluster
    PROVE  /\ c.users \in [Human -> User]
           /\ c.locks \subseteq LockTarget
           /\ c.sessions \subseteq Session
           /\ c.active \subseteq Human
           /\ c.entitled \in [Human -> SUBSET Role]
           /\ c.known \in [Human -> SUBSET Address]
           /\ c.devices \subseteq Device
           /\ c.wis \subseteq Agent
           /\ c.bots \in [Agent -> Bot]
BY DEF Cluster

\* What the operations on people may change in a cluster.
WithPeople(c, U, E, A) == [c EXCEPT !.users = U, !.entitled = E, !.active = A]

LEMMA WithPeopleFields ==
    ASSUME NEW c \in Cluster, NEW U \in [Human -> User],
           NEW E \in [Human -> SUBSET Role], NEW A \in SUBSET Human,
           NEW d, d = WithPeople(c, U, E, A)
    PROVE  /\ d \in Cluster
           /\ d.users = U /\ d.entitled = E /\ d.active = A
           /\ d.locks = c.locks /\ d.sessions = c.sessions
           /\ d.known = c.known /\ d.devices = c.devices
<1>1. d \in Cluster
  BY DEF Cluster, WithPeople
<1>2. QED
  BY DEF Cluster, WithPeople

LEMMA DoSurvives ==
    ASSUME NEW c \in Cluster, NEW h \in Human, NEW R \in SUBSET Role,
           NEW E \in SUBSET Role, NEW step, step.op = "survivor", step.user = h,
           step.roles = R, step.entitled = E
    PROVE  LET d == Do(c, step) IN
           /\ d \in Cluster
           /\ d.users = [c.users EXCEPT ![h] = [exists |-> TRUE, roles |-> R]]
           /\ d.entitled = [c.entitled EXCEPT ![h] = E]
           /\ d.active = MarkActive(c.active, h, step.active)
           /\ d.locks = c.locks /\ d.sessions = c.sessions
           /\ d.known = c.known /\ d.devices = c.devices
<1> DEFINE d == Do(c, step)
           U == [c.users EXCEPT ![h] = [exists |-> TRUE, roles |-> R]]
           F == [c.entitled EXCEPT ![h] = E]
           A == MarkActive(c.active, h, step.active)
<1>1. d = Survivor(c, h, R, E, step.active)
  BY DEF Do
<1> HIDE DEF d
<1>2. d = WithPeople(c, U, F, A)
  BY <1>1 DEF Survivor, UpsertUser, WithPeople
<1>3. U \in [Human -> User] /\ F \in [Human -> SUBSET Role] /\ A \in SUBSET Human
  BY Fields DEF User, MarkActive
<1> HIDE DEF U, F, A
<1>4. /\ d \in Cluster
      /\ d.users = U /\ d.entitled = F /\ d.active = A
      /\ d.locks = c.locks /\ d.sessions = c.sessions
      /\ d.known = c.known /\ d.devices = c.devices
  BY <1>2, <1>3, WithPeopleFields
<1> USE DEF d, U, F, A
<1>5. QED
  BY <1>4

LEMMA DoActive ==
    ASSUME NEW c \in Cluster, NEW h \in Human
    PROVE  LET d == Do(c, Active(h, TRUE)) IN
           /\ d \in Cluster
           /\ d.active = c.active \cup {h}
           /\ d.users = c.users /\ d.entitled = c.entitled
           /\ d.locks = c.locks /\ d.sessions = c.sessions
           /\ d.known = c.known /\ d.devices = c.devices
<1> DEFINE d == Do(c, Active(h, TRUE))
           A == c.active \cup {h}
<1>1. d = [c EXCEPT !.active = A]
  BY DEF Do, Active, SetActive, MarkActive
<1>2. A \subseteq Human
  BY Fields
<1> HIDE DEF d, A
<1>3. d \in Cluster
  BY <1>1, <1>2 DEF Cluster
<1>4. /\ d.active = A
      /\ d.users = c.users /\ d.entitled = c.entitled
      /\ d.locks = c.locks /\ d.sessions = c.sessions
      /\ d.known = c.known /\ d.devices = c.devices
  BY <1>1 DEF Cluster
<1> USE DEF d, A
<1>5. QED
  BY <1>3, <1>4

LEMMA DoSession ==
    ASSUME NEW c \in Cluster, NEW id \in SessionId, NEW h \in Human, NEW ip \in Address,
           NEW d, d = Do(c, HasSession(id, h, ip))
    PROVE  /\ d \in Cluster
           /\ d.sessions = {s \in c.sessions : s.id # id}
                               \cup {[id |-> id, user |-> h, ip |-> ip]}
           /\ d.users = c.users /\ d.entitled = c.entitled
           /\ d.locks = c.locks /\ d.active = c.active
           /\ d.known = c.known /\ d.devices = c.devices
<1> DEFINE S == {s \in c.sessions : s.id # id} \cup {[id |-> id, user |-> h, ip |-> ip]}
<1>1. d = [c EXCEPT !.sessions = S]
  BY DEF Do, HasSession, SeedSession
<1>2. S \subseteq Session
  BY Fields DEF Session
<1> HIDE DEF S
<1>3. d \in Cluster
  BY <1>1, <1>2 DEF Cluster
<1>4. /\ d.sessions = S
      /\ d.users = c.users /\ d.entitled = c.entitled
      /\ d.locks = c.locks /\ d.active = c.active
      /\ d.known = c.known /\ d.devices = c.devices
  BY <1>1 DEF Cluster
<1> USE DEF S
<1>5. QED
  BY <1>3, <1>4

LEMMA DoDevice ==
    ASSUME NEW c \in Cluster, NEW step, step.op = "device", step.user \in Human,
           step.managed \in BOOLEAN, step.compliant \in BOOLEAN
    PROVE  LET d == Do(c, step) IN
           /\ d \in Cluster
           /\ d.devices = c.devices
                  \cup {Laptop(step.user, step.managed, step.compliant)}
           /\ d.users = c.users /\ d.entitled = c.entitled
           /\ d.locks = c.locks /\ d.active = c.active
           /\ d.known = c.known /\ d.sessions = c.sessions
<1> DEFINE d == Do(c, step)
           D == c.devices \cup {Laptop(step.user, step.managed, step.compliant)}
<1>1. d = [c EXCEPT !.devices = D]
  BY DEF Do, Dev, Laptop
<1>2. D \subseteq Device
  <2>1. Laptop(step.user, step.managed, step.compliant) \in Device
    BY DemoAssumption DEF Device, Laptop
  <2>2. QED
    BY <2>1, Fields
<1> HIDE DEF d, D
<1>3. d \in Cluster
  BY <1>1, <1>2 DEF Cluster
<1>4. /\ d.devices = D
      /\ d.users = c.users /\ d.entitled = c.entitled
      /\ d.locks = c.locks /\ d.active = c.active
      /\ d.known = c.known /\ d.sessions = c.sessions
  BY <1>1 DEF Cluster
<1> USE DEF d, D
<1>5. QED
  BY <1>3, <1>4

LEMMA DoSeen ==
    ASSUME NEW c \in Cluster, NEW h \in Human, NEW ip \in Address
    PROVE  LET d == Do(c, Seen(h, ip)) IN
           /\ d \in Cluster
           /\ d.known = [c.known EXCEPT ![h] = c.known[h] \cup {ip}]
           /\ d.users = c.users /\ d.entitled = c.entitled
           /\ d.locks = c.locks /\ d.active = c.active
           /\ d.devices = c.devices /\ d.sessions = c.sessions
<1> DEFINE d == Do(c, Seen(h, ip))
           K == [c.known EXCEPT ![h] = c.known[h] \cup {ip}]
<1>1. d = [c EXCEPT !.known = K]
  BY DEF Do, Seen, BaselineIP
<1>2. K \in [Human -> SUBSET Address]
  BY Fields
<1> HIDE DEF d, K
<1>3. d \in Cluster
  BY <1>1, <1>2 DEF Cluster
<1>4. /\ d.known = K
      /\ d.users = c.users /\ d.entitled = c.entitled
      /\ d.locks = c.locks /\ d.active = c.active
      /\ d.devices = c.devices /\ d.sessions = c.sessions
  BY <1>1 DEF Cluster
<1> USE DEF d, K
<1>5. QED
  BY <1>3, <1>4

LEMMA PlayRecursion ==
    ASSUME NEW c, NEW steps, Len(steps) \in Nat
    PROVE  /\ Played(c, steps)[0] = c
           /\ \A n \in 1..Len(steps) :
                  Played(c, steps)[n] = Do(Played(c, steps)[n - 1], steps[n])
<1> DEFINE Rule(g, n) == IF n = 0 THEN c ELSE Do(g[n - 1], steps[n])
           Upto(m) == \E g : g = [n \in 0..m |-> Rule(g, n)]
           S == {m \in Nat : Upto(m)}
<1>1. Upto(0)
  <2> DEFINE z == [n \in 0..0 |-> c]
  <2>1. z = [n \in 0..0 |-> Rule(z, n)]
    OBVIOUS
  <2> HIDE DEF z, Rule
  <2>2. QED
    BY <2>1
<1>2. ASSUME NEW m \in Nat, Upto(m) PROVE Upto(m + 1)
  <2> HIDE DEF Rule
  <2>1. PICK g : g = [n \in 0..m |-> Rule(g, n)]
    BY <1>2
  <2> DEFINE h == [n \in 0..(m + 1) |-> IF n <= m THEN g[n] ELSE Rule(g, n)]
  <2>2. \A n \in 0..(m + 1) : n # 0 => h[n - 1] = g[n - 1]
    OBVIOUS
  <2>3. \A n \in 0..(m + 1) : Rule(h, n) = Rule(g, n)
    <3> HIDE DEF h
    <3>1. QED
      BY <2>2 DEF Rule
  <2>4. \A n \in 0..m : g[n] = Rule(g, n)
    BY <2>1
  <2>5. \A n \in 0..(m + 1) : h[n] = IF n <= m THEN g[n] ELSE Rule(g, n)
    OBVIOUS
  <2>6. \A n \in 0..(m + 1) : h[n] = Rule(h, n)
    <3> HIDE DEF h
    <3>1. \A n \in 0..(m + 1) : n <= m => n \in 0..m
      OBVIOUS
    <3>2. QED
      BY <2>3, <2>4, <2>5, <3>1
  <2>7. h = [n \in 0..(m + 1) |-> h[n]]
    OBVIOUS
  <2>8. h = [n \in 0..(m + 1) |-> Rule(h, n)]
    <3> HIDE DEF h
    <3>1. QED
      BY <2>6, <2>7
  <2> HIDE DEF h
  <2>9. QED
    BY <2>8
<1> HIDE DEF Upto
<1>3. Upto(Len(steps))
  <2>1. 0 \in S /\ \A m \in Nat : m \in S => m + 1 \in S
    BY <1>1, <1>2
  <2> HIDE DEF S
  <2>2. Nat \subseteq S
    BY <2>1, Induction
  <2> USE DEF S
  <2>3. QED
    BY <2>2
<1> USE DEF Upto
<1>4. PICK g : g = [n \in 0..Len(steps) |-> Rule(g, n)]
  BY <1>3
<1> DEFINE P == Played(c, steps)
<1>5. P = [n \in 0..Len(steps) |-> Rule(P, n)]
  BY <1>4 DEF Played
<1> HIDE DEF P
<1>6. P[0] = c /\ \A n \in 1..Len(steps) : P[n] = Do(P[n - 1], steps[n])
  BY <1>5
<1> USE DEF P
<1>7. QED
  BY <1>6

\* The scripts of the demonstration have three, four and five steps.
LEMMA PlayThree ==
    ASSUME NEW c, NEW s1, NEW s2, NEW s3
    PROVE  Play(c, <<s1, s2, s3>>) = Do(Do(Do(c, s1), s2), s3)
<1> DEFINE steps == <<s1, s2, s3>>
           P == Played(c, steps)
<1>1. Len(steps) = 3 /\ steps[1] = s1 /\ steps[2] = s2 /\ steps[3] = s3
  OBVIOUS
<1>2. P[0] = c /\ \A n \in 1..Len(steps) : P[n] = Do(P[n - 1], steps[n])
  <2> HIDE DEF steps
  <2>1. Len(steps) \in Nat
    BY <1>1
  <2>2. QED
    BY <2>1, PlayRecursion
<1> HIDE DEF P, steps
<1>3. P[1] = Do(c, s1) /\ P[2] = Do(P[1], s2) /\ P[3] = Do(P[2], s3)
  BY <1>1, <1>2
<1> USE DEF P, steps
<1>4. QED
  BY <1>1, <1>3 DEF Play

LEMMA PlayFour ==
    ASSUME NEW c, NEW s1, NEW s2, NEW s3, NEW s4
    PROVE  Play(c, <<s1, s2, s3, s4>>) = Do(Do(Do(Do(c, s1), s2), s3), s4)
<1> DEFINE steps == <<s1, s2, s3, s4>>
           P == Played(c, steps)
<1>1. /\ Len(steps) = 4
      /\ steps[1] = s1 /\ steps[2] = s2 /\ steps[3] = s3 /\ steps[4] = s4
  OBVIOUS
<1>2. P[0] = c /\ \A n \in 1..Len(steps) : P[n] = Do(P[n - 1], steps[n])
  <2> HIDE DEF steps
  <2>1. Len(steps) \in Nat
    BY <1>1
  <2>2. QED
    BY <2>1, PlayRecursion
<1> HIDE DEF P, steps
<1>3. /\ P[1] = Do(c, s1) /\ P[2] = Do(P[1], s2) /\ P[3] = Do(P[2], s3)
      /\ P[4] = Do(P[3], s4)
  BY <1>1, <1>2
<1> USE DEF P, steps
<1>4. QED
  BY <1>1, <1>3 DEF Play

LEMMA PlayFive ==
    ASSUME NEW c, NEW s1, NEW s2, NEW s3, NEW s4, NEW s5
    PROVE  Play(c, <<s1, s2, s3, s4, s5>>) = Do(Do(Do(Do(Do(c, s1), s2), s3), s4), s5)
<1> DEFINE steps == <<s1, s2, s3, s4, s5>>
           P == Played(c, steps)
<1>1. /\ Len(steps) = 5
      /\ steps[1] = s1 /\ steps[2] = s2 /\ steps[3] = s3 /\ steps[4] = s4
      /\ steps[5] = s5
  OBVIOUS
<1>2. P[0] = c /\ \A n \in 1..Len(steps) : P[n] = Do(P[n - 1], steps[n])
  <2> HIDE DEF steps
  <2>1. Len(steps) \in Nat
    BY <1>1
  <2>2. QED
    BY <2>1, PlayRecursion
<1> HIDE DEF P, steps
<1>3. /\ P[1] = Do(c, s1) /\ P[2] = Do(P[1], s2) /\ P[3] = Do(P[2], s3)
      /\ P[4] = Do(P[3], s4) /\ P[5] = Do(P[4], s5)
  BY <1>1, <1>2
<1> USE DEF P, steps
<1>4. QED
  BY <1>1, <1>3 DEF Play

\* An agent's event concerns nobody but the agent, and lifts no lock.
LEMMA AgentEffect ==
    ASSUME NEW c \in Cluster, NEW a \in Agent, NEW scope \in SUBSET Capability,
           NEW type \in {"joiner", "mover", "leaver"},
           NEW d, d = Do(c, Agent_(type, a, scope))
    PROVE  /\ d \in Cluster
           /\ c.locks \subseteq d.locks /\ d.locks \subseteq c.locks \cup {BotUser[a]}
           /\ d.users = c.users /\ d.entitled = c.entitled /\ d.active = c.active
           /\ d.sessions = c.sessions /\ d.known = c.known /\ d.devices = c.devices
<1> DEFINE ev == NewAgentEvent(type, a, scope)
           R == RolesForAgent(ev.subject)
<1>1. ev.type = type /\ ev.subject.name = a
  BY DEF NewAgentEvent
<1>2. R \subseteq Role
  <2>1. ev.subject.scope \subseteq Capability
    BY DEF NewAgentEvent
  <2> HIDE DEF ev
  <2>2. QED
    BY <2>1, PolicyAssumption DEF RolesForAgent
<1>3. d = ApplyAgent(c, ev)
  BY DEF Do, Agent_
<1> HIDE DEF ev, R
<1>4. CASE type = "leaver"
  <2> DEFINE L == c.locks \cup {BotUser[a]}
             B == RemoveBot(LockBot(c.bots, a), a)
             W == c.wis \ {a}
  <2>1. d = [c EXCEPT !.locks = L, !.bots = B, !.wis = W]
    BY <1>1, <1>3, <1>4 DEF ApplyAgent, CreateLock, DeleteWorkloadIdentity
  <2>2. L \subseteq LockTarget /\ W \subseteq Agent
    BY Fields DEF LockTarget
  <2>3. B \in [Agent -> Bot]
    BY Fields DEF RemoveBot, LockBot, NoBot, Bot
  <2>4. c.locks \subseteq L /\ L \subseteq c.locks \cup {BotUser[a]}
    OBVIOUS
  <2> HIDE DEF L, B, W
  <2>5. d \in Cluster
    BY <2>1, <2>2, <2>3 DEF Cluster
  <2>6. /\ d.locks = L
        /\ d.users = c.users /\ d.entitled = c.entitled /\ d.active = c.active
        /\ d.sessions = c.sessions /\ d.known = c.known /\ d.devices = c.devices
    BY <2>1 DEF Cluster
  <2>7. QED
    BY <2>4, <2>5, <2>6
<1>5. CASE type # "leaver"
  <2> DEFINE B == AddBot(c.bots, a, R)
             W == c.wis \cup {a}
  <2>1. d = [c EXCEPT !.wis = W, !.bots = B]
    BY <1>1, <1>3, <1>5 DEF ApplyAgent, UpsertWorkloadIdentity, R
  <2>2. W \subseteq Agent
    BY Fields
  <2>3. B \in [Agent -> Bot]
    BY <1>2, Fields DEF AddBot, Bot
  <2> HIDE DEF B, W
  <2>4. d \in Cluster
    BY <2>1, <2>2, <2>3 DEF Cluster
  <2>5. /\ d.locks = c.locks
        /\ d.users = c.users /\ d.entitled = c.entitled /\ d.active = c.active
        /\ d.sessions = c.sessions /\ d.known = c.known /\ d.devices = c.devices
    BY <2>1 DEF Cluster
  <2>6. QED
    BY <2>4, <2>5
<1>6. QED
  BY <1>4, <1>5

-----------------------------------------------------------------------------
(* The stages of a run.                                                    *)

LEMMA EmptyFollows ==
    ASSUME NEW es
    PROVE  Empty \in Cluster /\ Untouched(Empty) /\ Follows(Empty, es, 0)
<1>1. Empty \in Cluster
  BY DEF Empty, Cluster, User, NoUser, Bot, NoBot
<1>2. Untouched(Empty)
  BY DEF Empty, Untouched
<1>3. \A h \in Human : /\ Empty.users[h] = NoUser /\ Empty.entitled[h] = {}
                      /\ h \notin Empty.locks
  BY DEF Empty
<1>4. Follows(Empty, es, 0)
  <2>1. \A i \in 1..0 : FALSE
    OBVIOUS
  <2>2. QED
    BY <1>3, <2>1 DEF Follows, UserFollows, RolesFollow, ActiveFollows,
                        LockFollows, Left
<1>5. QED
  BY <1>1, <1>2, <1>4

\* The next event is the last about its subject, and nothing changes for others.
LEMMA FollowsNext ==
    ASSUME NEW c \in Cluster, NEW es, NEW n \in Nat, Follows(c, es, n), Untouched(c),
           NEW ev \in Event, ev = es[n + 1], Validate(ev),
           NEW d, d = ApplyHuman(c, ev)
    PROVE  d \in Cluster /\ Untouched(d) /\ Follows(d, es, n + 1)
<1> DEFINE g == ev.employee.email
<1>0. g = ev.employee.email
  OBVIOUS
<1> HIDE DEF g
<1> DEFINE R == RolesFor(ev.employee)
<1>01. R = RolesFor(ev.employee)
  OBVIOUS
<1> HIDE DEF R
<1> DEFINE V == IF ev.type = "leaver" THEN NoUser ELSE [exists |-> TRUE, roles |-> R]
           A == IF ev.employee.status = "active" THEN c.active \cup {g}
                                                 ELSE c.active \ {g}
           L == IF ev.type = "leaver" THEN c.locks \cup {g} ELSE c.locks
<1>02. /\ V = IF ev.type = "leaver" THEN NoUser ELSE [exists |-> TRUE, roles |-> R]
       /\ ev.employee.status = "active" => A = c.active \cup {g}
       /\ ev.employee.status # "active" => A = c.active \ {g}
       /\ L = IF ev.type = "leaver" THEN c.locks \cup {g} ELSE c.locks
  OBVIOUS
<1> HIDE DEF V, A, L
<1>1. /\ g \in Human /\ d \in Cluster
      /\ d.users = [c.users EXCEPT ![g] = V]
      /\ d.entitled = [c.entitled EXCEPT ![g] = R]
      /\ d.active = A
      /\ d.locks = L
      /\ d.sessions = c.sessions /\ d.known = c.known /\ d.devices = c.devices
  <2> DEFINE U == [c.users EXCEPT ![g] = V]
             E == [c.entitled EXCEPT ![g] = R]
             e == [c EXCEPT !.locks = L]
  <2>1. g \in Human
    BY <1>0 DEF Validate, Event, Employee
  <2>2. R \subseteq Role
    BY <1>01, PolicyAssumption DEF RolesFor, Event, Employee
  <2>3. d = [Reconcile(c, ev) EXCEPT !.entitled[g] = R,
                !.active = MarkActive(@, g, ev.employee.status = "active")]
    BY <1>0, <1>01 DEF ApplyHuman
  <2>4. Reconcile(c, ev) = [e EXCEPT !.users = U]
    <3>1. CASE ev.type = "leaver"
      BY <1>0, <1>02, <3>1 DEF Reconcile, CreateLock, DeleteUser, Cluster
    <3>2. CASE ev.type # "leaver"
      BY <1>0, <1>01, <1>02, <3>2 DEF Reconcile, UpsertUser, Cluster
    <3>3. QED
      BY <3>1, <3>2
  <2>5. V \in User
    BY <1>02, <2>2 DEF User, NoUser
  <2>6. U \in [Human -> User] /\ E \in [Human -> SUBSET Role] /\ A \subseteq Human
    BY <1>02, <2>1, <2>2, <2>5, Fields
  <2>7. L \subseteq LockTarget
    BY <1>02, <2>1, Fields DEF LockTarget
  <2>8. e \in Cluster
    BY <2>7 DEF Cluster
  <2>9. /\ e.locks = L /\ e.users = c.users /\ e.entitled = c.entitled
        /\ e.active = c.active
        /\ e.sessions = c.sessions /\ e.known = c.known /\ e.devices = c.devices
    BY DEF Cluster
  <2> HIDE DEF e, U
  <2>10. d = WithPeople(e, U, E, A)
    <3>1. A = MarkActive(c.active, g, ev.employee.status = "active")
      BY <1>02 DEF MarkActive
    <3>2. d = [[e EXCEPT !.users = U] EXCEPT
                  !.entitled[g] = R,
                  !.active = MarkActive(@, g, ev.employee.status = "active")]
      BY <2>3, <2>4
    <3>3. d = [[e EXCEPT !.users = U] EXCEPT !.entitled = E, !.active = A]
      BY <2>8, <2>9, <3>1, <3>2 DEF Cluster
    <3>4. QED
      BY <2>8, <3>3 DEF WithPeople, Cluster
  <2> HIDE DEF E
  <2>11. /\ d \in Cluster
         /\ d.users = U /\ d.entitled = E /\ d.active = A
         /\ d.locks = e.locks /\ d.sessions = e.sessions
         /\ d.known = e.known /\ d.devices = e.devices
    BY <2>6, <2>8, <2>10, WithPeopleFields
  <2>12. /\ d.locks = L /\ d.sessions = c.sessions
         /\ d.known = c.known /\ d.devices = c.devices
    BY <2>9, <2>11
  <2> USE DEF U, E
  <2>13. QED
    BY <2>1, <2>11, <2>12
<1>2. Untouched(d)
  BY <1>1 DEF Untouched
<1>3. c.users \in [Human -> User] /\ c.entitled \in [Human -> SUBSET Role]
  BY Fields
<1>4. ASSUME NEW h \in Human, h = g
      PROVE  /\ UserFollows(d, es, n + 1, h) /\ RolesFollow(d, es, n + 1, h)
             /\ ActiveFollows(d, es, n + 1, h) /\ LockFollows(d, es, n + 1, h)
  <2>1. n + 1 \in 1..(n + 1) /\ es[n + 1].employee.email = h
    BY <1>0, <1>4
  <2>2. ~Silent(es, n + 1, h)
    BY <2>1 DEF Silent
  <2>3. \A i \in 1..(n + 1) : IsLast(es, n + 1, i, h) => i = n + 1
    <3>1. \A i \in 1..(n + 1) : i # n + 1 => n + 1 \in (i + 1)..(n + 1)
      OBVIOUS
    <3>2. QED
      BY <2>1, <3>1 DEF IsLast
  <2>4. d.users[h] = IF ev.type = "leaver" THEN NoUser
                     ELSE [exists |-> TRUE, roles |-> RolesFor(ev.employee)]
    <3>1. d.users[h] = V
      BY <1>1, <1>3, <1>4
    <3>2. QED
      BY <1>01, <1>02, <3>1
  <2>5. d.entitled[h] = RolesFor(ev.employee)
    <3>1. d.entitled[h] = R
      BY <1>1, <1>3, <1>4
    <3>2. QED
      BY <1>01, <3>1
  <2>6. h \in d.active <=> ev.employee.status = "active"
    BY <1>02, <1>1, <1>4
  <2>7. LockFollows(d, es, n + 1, h)
    <3>1. h \in d.locks <=> h \in c.locks \/ ev.type = "leaver"
      BY <1>02, <1>1, <1>4
    <3>2. Left(es, n + 1, h) <=> Left(es, n, h) \/ ev.type = "leaver"
      <4>1. \A i \in 1..(n + 1) : i \in 1..n \/ i = n + 1
        OBVIOUS
      <4>2. \A i \in 1..n : i \in 1..(n + 1)
        OBVIOUS
      <4>3. QED
        BY <2>1, <4>1, <4>2 DEF Left
    <3>3. LockFollows(c, es, n, h)
      BY DEF Follows
    <3>4. QED
      BY <3>1, <3>2, <3>3 DEF LockFollows
  <2>8. QED
    BY <2>2, <2>3, <2>4, <2>5, <2>6, <2>7
       DEF UserFollows, RolesFollow, ActiveFollows
<1>5. ASSUME NEW h \in Human, h # g
      PROVE  /\ UserFollows(d, es, n + 1, h) /\ RolesFollow(d, es, n + 1, h)
             /\ ActiveFollows(d, es, n + 1, h) /\ LockFollows(d, es, n + 1, h)
  <2>1. es[n + 1].employee.email # h
    BY <1>0, <1>5
  <2>2. Silent(es, n + 1, h) => Silent(es, n, h)
    BY DEF Silent
  <2>3. \A i \in 1..(n + 1) : IsLast(es, n + 1, i, h) => i \in 1..n /\ IsLast(es, n, i, h)
    <3>1. \A i \in 1..(n + 1) : i # n + 1 => i \in 1..n
      OBVIOUS
    <3>2. \A i \in 1..n : \A j \in (i + 1)..n : j \in (i + 1)..(n + 1)
      OBVIOUS
    <3>3. QED
      BY <2>1, <3>1, <3>2 DEF IsLast
  <2>4. /\ d.users[h] = c.users[h] /\ d.entitled[h] = c.entitled[h]
        /\ h \in d.active <=> h \in c.active
        /\ h \in c.locks <=> h \in d.locks
    <3>1. d.users[h] = c.users[h] /\ d.entitled[h] = c.entitled[h]
      BY <1>1, <1>3, <1>5
    <3>2. h \in d.active <=> h \in c.active
      BY <1>02, <1>1, <1>5
    <3>3. h \in c.locks <=> h \in d.locks
      BY <1>02, <1>1, <1>5
    <3>4. QED
      BY <3>1, <3>2, <3>3
  <2>5. /\ UserFollows(c, es, n, h) /\ RolesFollow(c, es, n, h)
        /\ ActiveFollows(c, es, n, h) /\ LockFollows(c, es, n, h)
    BY DEF Follows
  <2>6. UserFollows(d, es, n + 1, h) /\ RolesFollow(d, es, n + 1, h)
    BY <2>2, <2>3, <2>4, <2>5 DEF UserFollows, RolesFollow
  <2>7. ActiveFollows(d, es, n + 1, h)
    BY <2>3, <2>4, <2>5 DEF ActiveFollows
  <2>8. LockFollows(d, es, n + 1, h)
    <3>1. \A i \in 1..(n + 1) : i \in 1..n \/ i = n + 1
      OBVIOUS
    <3>2. \A i \in 1..n : i \in 1..(n + 1)
      OBVIOUS
    <3>3. Left(es, n + 1, h) <=> Left(es, n, h)
      BY <2>1, <3>1, <3>2 DEF Left
    <3>4. QED
      BY <2>4, <2>5, <3>3 DEF LockFollows
  <2>9. QED
    BY <2>6, <2>7, <2>8
<1>6. QED
  BY <1>1, <1>2, <1>4, <1>5 DEF Follows

LEMMA FollowsAfterAgents ==
    ASSUME NEW c \in Cluster, NEW es, NEW n \in Nat, Follows(c, es, n), Untouched(c),
           NEW d, d = Play(c, DemoAgents)
    PROVE  d \in Cluster /\ Untouched(d) /\ Follows(d, es, n)
<1> DEFINE s1 == Agent_("joiner", "kyra", {"kyra-memory"})
           s2 == Agent_("mover", "kyra", {"kyra-memory", "kyra-calendar"})
           s3 == Agent_("leaver", "kyra", {})
           c1 == Do(c, s1)
           c2 == Do(c1, s2)
           c3 == Do(c2, s3)
<1>1. d = c3
  BY PlayThree DEF DemoAgents
<1>2. /\ "kyra" \in Agent
      /\ {"kyra-memory"} \in SUBSET Capability
      /\ {"kyra-memory", "kyra-calendar"} \in SUBSET Capability
      /\ {} \in SUBSET Capability
  BY DemoAssumption
<1>3. /\ c1 \in Cluster
      /\ c.locks \subseteq c1.locks /\ c1.locks \subseteq c.locks \cup {BotUser["kyra"]}
      /\ c1.users = c.users /\ c1.entitled = c.entitled /\ c1.active = c.active
      /\ c1.sessions = c.sessions /\ c1.known = c.known /\ c1.devices = c.devices
  BY <1>2, AgentEffect
<1> HIDE DEF c1
<1>4. /\ c2 \in Cluster
      /\ c1.locks \subseteq c2.locks /\ c2.locks \subseteq c1.locks \cup {BotUser["kyra"]}
      /\ c2.users = c1.users /\ c2.entitled = c1.entitled /\ c2.active = c1.active
      /\ c2.sessions = c1.sessions /\ c2.known = c1.known /\ c2.devices = c1.devices
  BY <1>2, <1>3, AgentEffect
<1> HIDE DEF c2
<1>5. /\ c3 \in Cluster
      /\ c2.locks \subseteq c3.locks /\ c3.locks \subseteq c2.locks \cup {BotUser["kyra"]}
      /\ c3.users = c2.users /\ c3.entitled = c2.entitled /\ c3.active = c2.active
      /\ c3.sessions = c2.sessions /\ c3.known = c2.known /\ c3.devices = c2.devices
  BY <1>2, <1>4, AgentEffect
<1> HIDE DEF c3
<1>6. Untouched(d)
  BY <1>1, <1>3, <1>4, <1>5 DEF Untouched
<1>7. /\ c.locks \subseteq d.locks /\ d.locks \subseteq c.locks \cup {BotUser["kyra"]}
      /\ d.users = c.users /\ d.entitled = c.entitled /\ d.active = c.active
  BY <1>1, <1>3, <1>4, <1>5
<1>8. Follows(d, es, n)
  <2>0. \A h \in Human : UserFollows(c, es, n, h) /\ RolesFollow(c, es, n, h)
    BY DEF Follows
  <2>1. ASSUME NEW h \in Human PROVE UserFollows(d, es, n, h) /\ RolesFollow(d, es, n, h)
    <3>1. d.users[h] = c.users[h] /\ d.entitled[h] = c.entitled[h]
      BY <1>7
    <3>2. UserFollows(d, es, n, h)
      BY <2>0, <3>1 DEF UserFollows
    <3>3. RolesFollow(d, es, n, h)
      BY <2>0, <3>1 DEF RolesFollow
    <3>4. QED
      BY <3>2, <3>3
  <2>2. \A h \in Human : ActiveFollows(d, es, n, h) /\ LockFollows(d, es, n, h)
    BY <1>7 DEF Follows, ActiveFollows, LockFollows
  <2>3. QED
    BY <2>1, <2>2 DEF Follows
<1>9. QED
  BY <1>1, <1>5, <1>6, <1>8

\* What the demonstration plants in a cluster that follows the events.
LEMMA AnomaliesPlanted ==
    ASSUME NEW c \in Cluster, c.sessions = {}, NEW d, d = Play(c, Anomalies(c))
    PROVE  /\ d \in Cluster
           /\ \A h \in Human \ {"alice", "dave"} : d.users[h] = c.users[h]
           /\ d.users["alice"] =
                 [exists |-> TRUE, roles |-> c.users["alice"].roles \cup {"it-admin"}]
           /\ d.users["dave"] = [exists |-> TRUE, roles |-> {"k8s-prod"}]
           /\ \A h \in Human \ {"dave"} : d.entitled[h] = c.entitled[h]
           /\ d.entitled["dave"] = {}
           /\ d.active = c.active \ {"dave"}
           /\ d.sessions = {[id |-> "sess-7f3a", user |-> "dave", ip |-> "unseen"]}
           /\ d.locks = c.locks /\ d.known = c.known /\ d.devices = c.devices
<1> DEFINE R == c.users["alice"].roles \cup {"it-admin"}
           E == c.entitled["alice"]
           is == "alice" \in c.active
           s1 == Survives("dave", {"k8s-prod"}, {}, FALSE)
           s2 == HasSession("sess-7f3a", "dave", "unseen")
           s3 == Survives("alice", R, E, is)
           c1 == Do(c, s1)
           c2 == Do(c1, s2)
           c3 == Do(c2, s3)
<1>1. d = c3
  <2>1. Anomalies(c) = <<s1, s2, s3>>
    BY DEF Anomalies
  <2> HIDE DEF s1, s2, s3
  <2>2. QED
    BY <2>1, PlayThree
<1>2. /\ "dave" \in Human /\ "alice" \in Human
      /\ {"k8s-prod"} \in SUBSET Role /\ {} \in SUBSET Role
      /\ "sess-7f3a" \in SessionId /\ "unseen" \in Address
  BY DemoAssumption
<1>3. R \in SUBSET Role /\ E \in SUBSET Role
  <2>1. c.users["alice"] \in User /\ E \in SUBSET Role
    BY <1>2, Fields
  <2>2. QED
    BY <2>1, DemoAssumption DEF User
<1>4. /\ s1.op = "survivor" /\ s1.user = "dave" /\ s1.roles = {"k8s-prod"}
      /\ s1.entitled = {} /\ s1.active = FALSE
      /\ s3.op = "survivor" /\ s3.user = "alice" /\ s3.roles = R
      /\ s3.entitled = E /\ (s3.active <=> is)
  BY DEF Survives
<1> HIDE DEF s1, s3, R, E, is
<1> DEFINE R1 == {"k8s-prod"}
           E1 == {}
<1>40. R1 \in SUBSET Role /\ E1 \in SUBSET Role /\ s1.roles = R1 /\ s1.entitled = E1
  BY <1>2, <1>4
<1> HIDE DEF R1, E1
<1>41. MarkActive(c.active, "dave", s1.active) = c.active \ {"dave"}
  BY <1>4 DEF MarkActive
<1>5. /\ c1 \in Cluster
      /\ c1.users = [c.users EXCEPT !["dave"] = [exists |-> TRUE, roles |-> R1]]
      /\ c1.entitled = [c.entitled EXCEPT !["dave"] = E1]
      /\ c1.active = MarkActive(c.active, "dave", s1.active)
      /\ c1.locks = c.locks /\ c1.sessions = c.sessions
      /\ c1.known = c.known /\ c1.devices = c.devices
  BY <1>2, <1>4, <1>40, DoSurvives
<1> HIDE DEF c1
<1>6. /\ c2 \in Cluster
      /\ c2.sessions = {s \in c1.sessions : s.id # "sess-7f3a"}
                 \cup {[id |-> "sess-7f3a", user |-> "dave", ip |-> "unseen"]}
      /\ c2.users = c1.users /\ c2.entitled = c1.entitled
      /\ c2.locks = c1.locks /\ c2.active = c1.active
      /\ c2.known = c1.known /\ c2.devices = c1.devices
  BY <1>2, <1>5, DoSession
<1> HIDE DEF c2, R, E
<1>61. MarkActive(c2.active, "alice", s3.active) = c.active \ {"dave"}
  <2>1. c2.active = c.active \ {"dave"} /\ "alice" # "dave"
    BY <1>41, <1>5, <1>6
  <2>2. CASE is
    <3>1. "alice" \in c2.active
      BY <2>1, <2>2 DEF is
    <3>2. MarkActive(c2.active, "alice", s3.active) = c2.active \cup {"alice"}
      BY <1>4, <2>2 DEF MarkActive
    <3>3. QED
      BY <2>1, <3>1, <3>2
  <2>3. CASE ~is
    <3>1. "alice" \notin c2.active
      BY <2>1, <2>3 DEF is
    <3>2. MarkActive(c2.active, "alice", s3.active) = c2.active \ {"alice"}
      BY <1>4, <2>3 DEF MarkActive
    <3>3. c2.active \ {"alice"} = c2.active
      BY <3>1
    <3>4. QED
      BY <2>1, <3>2, <3>3
  <2>4. QED
    BY <2>2, <2>3
<1>7. /\ c3 \in Cluster
      /\ c3.users = [c2.users EXCEPT !["alice"] = [exists |-> TRUE, roles |-> R]]
      /\ c3.entitled = [c2.entitled EXCEPT !["alice"] = E]
      /\ c3.active = MarkActive(c2.active, "alice", s3.active)
      /\ c3.locks = c2.locks /\ c3.sessions = c2.sessions
      /\ c3.known = c2.known /\ c3.devices = c2.devices
  BY <1>2, <1>3, <1>4, <1>6, DoSurvives
<1> HIDE DEF c3
<1>8. c.users \in [Human -> User] /\ c.entitled \in [Human -> SUBSET Role]
  BY Fields
<1>9. \A h \in Human \ {"alice", "dave"} : d.users[h] = c.users[h]
  BY <1>1, <1>2, <1>5, <1>6, <1>7, <1>8
<1>10. d.users["alice"] =
           [exists |-> TRUE, roles |-> c.users["alice"].roles \cup {"it-admin"}]
  <2>1. c2.users \in [Human -> User]
    BY <1>6, Fields
  <2>2. d.users["alice"] = [exists |-> TRUE, roles |-> R]
    BY <1>1, <1>2, <1>7, <2>1
  <2>3. QED
    BY <2>2 DEF R
<1>11. d.users["dave"] = [exists |-> TRUE, roles |-> {"k8s-prod"}]
  <2>0. c2.users \in [Human -> User]
    BY <1>6, Fields
  <2>1. d.users["dave"] = [exists |-> TRUE, roles |-> R1]
    <3>1. c2.users["dave"] = [exists |-> TRUE, roles |-> R1]
      BY <1>2, <1>5, <1>6, <1>8
    <3>2. d.users["dave"] = c2.users["dave"]
      BY <1>1, <1>2, <1>7, <2>0
    <3>3. QED
      BY <3>1, <3>2
  <2>2. QED
    BY <2>1 DEF R1
<1>112. d.entitled["dave"] = {}
  <2>1. c2.entitled \in [Human -> SUBSET Role]
    BY <1>6, Fields
  <2>2. d.entitled["dave"] = c2.entitled["dave"]
    BY <1>1, <1>2, <1>7, <2>1
  <2>3. c2.entitled["dave"] = E1
    BY <1>2, <1>5, <1>6, <1>8
  <2>4. QED
    BY <2>2, <2>3 DEF E1
<1>12. \A h \in Human \ {"dave"} : d.entitled[h] = c.entitled[h]
  BY <1>1, <1>2, <1>5, <1>6, <1>7, <1>8 DEF E
<1>13. d.active = c.active \ {"dave"}
  BY <1>1, <1>61, <1>7
<1>14. d.sessions = {[id |-> "sess-7f3a", user |-> "dave", ip |-> "unseen"]}
  BY <1>1, <1>5, <1>6, <1>7
<1>15. d.locks = c.locks /\ d.known = c.known /\ d.devices = c.devices
  BY <1>1, <1>5, <1>6, <1>7
<1>16. QED
  BY <1>1, <1>7, <1>9, <1>10, <1>11, <1>112, <1>12, <1>13, <1>14, <1>15

LEMMA SessionsPlanted ==
    ASSUME NEW c \in Cluster,
           c.sessions = {[id |-> "sess-7f3a", user |-> "dave", ip |-> "unseen"]},
           NEW d, d = Play(c, SeedDeviceSessions)
    PROVE  /\ d \in Cluster
           /\ d.sessions = {[id |-> "sess-7f3a", user |-> "dave", ip |-> "unseen"],
                            [id |-> "sess-9c21", user |-> "erin", ip |-> "usual"],
                            [id |-> "sess-3e88", user |-> "frank", ip |-> "usual"]}
           /\ d.active = c.active \cup {"erin", "frank"}
           /\ d.users = c.users /\ d.entitled = c.entitled /\ d.locks = c.locks
           /\ d.known = c.known /\ d.devices = c.devices
<1> DEFINE s1 == HasSession("sess-9c21", "erin", "usual")
           s2 == HasSession("sess-3e88", "frank", "usual")
           s3 == Active("erin", TRUE)
           s4 == Active("frank", TRUE)
           c1 == Do(c, s1)
           c2 == Do(c1, s2)
           c3 == Do(c2, s3)
           c4 == Do(c3, s4)
<1>1. d = c4
  <2>1. SeedDeviceSessions = <<s1, s2, s3, s4>>
    BY DEF SeedDeviceSessions
  <2> HIDE DEF s1, s2, s3, s4
  <2>2. QED
    BY <2>1, PlayFour
<1>2. /\ "erin" \in Human /\ "frank" \in Human /\ "usual" \in Address
      /\ "sess-9c21" \in SessionId /\ "sess-3e88" \in SessionId
  BY DemoAssumption
<1>3. /\ c1 \in Cluster
      /\ c1.sessions = {s \in c.sessions : s.id # "sess-9c21"}
                 \cup {[id |-> "sess-9c21", user |-> "erin", ip |-> "usual"]}
      /\ c1.users = c.users /\ c1.entitled = c.entitled
      /\ c1.locks = c.locks /\ c1.active = c.active
      /\ c1.known = c.known /\ c1.devices = c.devices
  BY <1>2, DoSession
<1> HIDE DEF c1
<1>4. /\ c2 \in Cluster
      /\ c2.sessions = {s \in c1.sessions : s.id # "sess-3e88"}
                 \cup {[id |-> "sess-3e88", user |-> "frank", ip |-> "usual"]}
      /\ c2.users = c1.users /\ c2.entitled = c1.entitled
      /\ c2.locks = c1.locks /\ c2.active = c1.active
      /\ c2.known = c1.known /\ c2.devices = c1.devices
  BY <1>2, <1>3, DoSession
<1> HIDE DEF c2
<1>5. /\ c3 \in Cluster
      /\ c3.active = c2.active \cup {"erin"}
      /\ c3.users = c2.users /\ c3.entitled = c2.entitled
      /\ c3.locks = c2.locks /\ c3.sessions = c2.sessions
      /\ c3.known = c2.known /\ c3.devices = c2.devices
  BY <1>2, <1>4, DoActive
<1> HIDE DEF c3
<1>6. /\ c4 \in Cluster
      /\ c4.active = c3.active \cup {"frank"}
      /\ c4.users = c3.users /\ c4.entitled = c3.entitled
      /\ c4.locks = c3.locks /\ c4.sessions = c3.sessions
      /\ c4.known = c3.known /\ c4.devices = c3.devices
  BY <1>2, <1>5, DoActive
<1> HIDE DEF c4
<1>7. d.sessions = {[id |-> "sess-7f3a", user |-> "dave", ip |-> "unseen"],
                    [id |-> "sess-9c21", user |-> "erin", ip |-> "usual"],
                    [id |-> "sess-3e88", user |-> "frank", ip |-> "usual"]}
  <2>1. c1.sessions = {[id |-> "sess-7f3a", user |-> "dave", ip |-> "unseen"],
                       [id |-> "sess-9c21", user |-> "erin", ip |-> "usual"]}
    BY <1>3
  <2>2. {s \in c1.sessions : s.id # "sess-3e88"} = c1.sessions
    BY <2>1
  <2>3. QED
    BY <1>1, <1>4, <1>5, <1>6, <2>1, <2>2
<1>8. /\ d.active = c.active \cup {"erin", "frank"}
      /\ d.users = c.users /\ d.entitled = c.entitled /\ d.locks = c.locks
      /\ d.known = c.known /\ d.devices = c.devices
  BY <1>1, <1>3, <1>4, <1>5, <1>6
<1>9. QED
  BY <1>1, <1>6, <1>7, <1>8

LEMMA DevicesPlanted ==
    ASSUME NEW c \in Cluster, c.devices = {}
    PROVE  LET d == Play(c, DemoDevices) IN
           /\ d \in Cluster
           /\ d.devices = Fleet
           /\ d.users = c.users /\ d.entitled = c.entitled /\ d.locks = c.locks
           /\ d.known = c.known /\ d.active = c.active /\ d.sessions = c.sessions
<1> DEFINE d == Play(c, DemoDevices)
           s1 == HasDevice("alice", TRUE, TRUE)
           s2 == HasDevice("bob", TRUE, TRUE)
           s3 == HasDevice("dave", TRUE, TRUE)
           s4 == HasDevice("erin", TRUE, FALSE)
           s5 == HasDevice("frank", FALSE, FALSE)
           c1 == Do(c, s1)
           c2 == Do(c1, s2)
           c3 == Do(c2, s3)
           c4 == Do(c3, s4)
           c5 == Do(c4, s5)
<1>1. d = c5
  <2>1. DemoDevices = <<s1, s2, s3, s4, s5>>
    BY DEF DemoDevices
  <2> HIDE DEF s1, s2, s3, s4, s5
  <2>2. QED
    BY <2>1, PlayFive
<1> HIDE DEF d
<1> DEFINE l1 == Laptop("alice", TRUE, TRUE)
           l2 == Laptop("bob", TRUE, TRUE)
           l3 == Laptop("dave", TRUE, TRUE)
           l4 == Laptop("erin", TRUE, FALSE)
           l5 == Laptop("frank", FALSE, FALSE)
           IsDevice(step, laptop) ==
               /\ step.op = "device" /\ step.user \in Human
               /\ step.managed \in BOOLEAN /\ step.compliant \in BOOLEAN
               /\ Laptop(step.user, step.managed, step.compliant) = laptop
<1>2. IsDevice(s1, l1)
  BY DemoAssumption DEF HasDevice, Laptop
<1>3. IsDevice(s2, l2)
  BY DemoAssumption DEF HasDevice, Laptop
<1>4. IsDevice(s3, l3)
  BY DemoAssumption DEF HasDevice, Laptop
<1>5. IsDevice(s4, l4)
  BY DemoAssumption DEF HasDevice, Laptop
<1>6. IsDevice(s5, l5)
  BY DemoAssumption DEF HasDevice, Laptop
<1> HIDE DEF s1, s2, s3, s4, s5, l1, l2, l3, l4, l5
<1> DEFINE Same(a, b) == /\ b.users = a.users /\ b.entitled = a.entitled
                         /\ b.locks = a.locks /\ b.active = a.active
                         /\ b.known = a.known /\ b.sessions = a.sessions
<1>7. c1 \in Cluster
  BY <1>2, DoDevice
<1>8. c1.devices = c.devices \cup {l1}
  BY <1>2, DoDevice
<1>9. Same(c, c1)
  BY <1>2, DoDevice
<1> HIDE DEF c1
<1>10. c2 \in Cluster
  BY <1>3, <1>7, DoDevice
<1>11. c2.devices = c1.devices \cup {l2}
  BY <1>3, <1>7, DoDevice
<1>12. Same(c1, c2)
  BY <1>3, <1>7, DoDevice
<1> HIDE DEF c2
<1>13. c3 \in Cluster
  BY <1>4, <1>10, DoDevice
<1>14. c3.devices = c2.devices \cup {l3}
  BY <1>4, <1>10, DoDevice
<1>15. Same(c2, c3)
  BY <1>4, <1>10, DoDevice
<1> HIDE DEF c3
<1>16. c4 \in Cluster
  BY <1>5, <1>13, DoDevice
<1>17. c4.devices = c3.devices \cup {l4}
  BY <1>5, <1>13, DoDevice
<1>18. Same(c3, c4)
  BY <1>5, <1>13, DoDevice
<1> HIDE DEF c4
<1>19. c5 \in Cluster
  BY <1>6, <1>16, DoDevice
<1>20. c5.devices = c4.devices \cup {l5}
  BY <1>6, <1>16, DoDevice
<1>21. Same(c4, c5)
  BY <1>6, <1>16, DoDevice
<1> HIDE DEF c5
<1>22. d.devices = {l1, l2, l3, l4, l5}
  BY <1>1, <1>8, <1>11, <1>14, <1>17, <1>20
<1>23. Same(c, d)
  BY <1>1, <1>9, <1>12, <1>15, <1>18, <1>21
<1> USE DEF d, l1, l2, l3, l4, l5
<1>24. Fleet = {l1, l2, l3, l4, l5}
  BY DEF Fleet
<1> HIDE DEF l1, l2, l3, l4, l5
<1>25. QED
  BY <1>1, <1>19, <1>22, <1>23, <1>24

\* What Inject makes of a cluster that follows the events.
LEMMA InjectedPlanted ==
    ASSUME NEW c \in Cluster, NEW es, Len(es) \in Nat, Untouched(c),
           Follows(c, es, Len(es)), NEW d, d = Play(Play(c, Anomalies(c)), SeedDeviceSessions),
           NEW e, e = Do(Play(d, DemoDevices), Seen("dave", "usual"))
    PROVE  e \in Cluster /\ Planted(e, es)
<1> DEFINE a == Play(c, Anomalies(c))
           b == Play(d, DemoDevices)
<1>0. d = Play(a, SeedDeviceSessions) /\ e = Do(b, Seen("dave", "usual"))
  OBVIOUS
<1>1. /\ c.sessions = {} /\ c.devices = {} /\ c.known = [h \in Human |-> {}]
      /\ "dave" \in Human /\ "alice" \in Human /\ "usual" \in Address
  BY DemoAssumption DEF Untouched
<1>2. /\ a \in Cluster
      /\ \A h \in Human \ {"alice", "dave"} : a.users[h] = c.users[h]
      /\ a.users["alice"] =
            [exists |-> TRUE, roles |-> c.users["alice"].roles \cup {"it-admin"}]
      /\ a.users["dave"] = [exists |-> TRUE, roles |-> {"k8s-prod"}]
      /\ \A h \in Human \ {"dave"} : a.entitled[h] = c.entitled[h]
      /\ a.entitled["dave"] = {}
      /\ a.active = c.active \ {"dave"}
      /\ a.sessions = {[id |-> "sess-7f3a", user |-> "dave", ip |-> "unseen"]}
      /\ a.locks = c.locks /\ a.known = c.known /\ a.devices = c.devices
  BY <1>1, AnomaliesPlanted
<1> HIDE DEF a
<1>3. /\ d \in Cluster
      /\ d.sessions = {[id |-> "sess-7f3a", user |-> "dave", ip |-> "unseen"],
                       [id |-> "sess-9c21", user |-> "erin", ip |-> "usual"],
                       [id |-> "sess-3e88", user |-> "frank", ip |-> "usual"]}
      /\ d.active = a.active \cup {"erin", "frank"}
      /\ d.users = a.users /\ d.entitled = a.entitled /\ d.locks = a.locks
      /\ d.known = a.known /\ d.devices = a.devices
  BY <1>0, <1>2, SessionsPlanted
<1>4. /\ b \in Cluster
      /\ b.devices = Fleet
      /\ b.users = d.users /\ b.entitled = d.entitled /\ b.locks = d.locks
      /\ b.known = d.known /\ b.active = d.active /\ b.sessions = d.sessions
  BY <1>1, <1>2, <1>3, DevicesPlanted
<1> HIDE DEF b
<1>5. /\ e \in Cluster
      /\ e.known = [b.known EXCEPT !["dave"] = b.known["dave"] \cup {"usual"}]
      /\ e.users = b.users /\ e.entitled = b.entitled
      /\ e.locks = b.locks /\ e.active = b.active
      /\ e.devices = b.devices /\ e.sessions = b.sessions
  BY <1>0, <1>1, <1>4, DoSeen
<1>6. e.known["dave"] = {"usual"} /\ \A h \in Human \ {"dave"} : e.known[h] = {}
  <2>1. b.known = [h \in Human |-> {}]
    BY <1>1, <1>2, <1>3, <1>4
  <2>2. QED
    BY <1>1, <1>5, <2>1
<1>7. /\ \A h \in Human \ {"alice", "dave"} : e.users[h] = c.users[h]
      /\ \A h \in Human \ {"dave"} : e.entitled[h] = c.entitled[h]
      /\ e.active = (c.active \ {"dave"}) \cup {"erin", "frank"}
      /\ e.locks = c.locks
  BY <1>2, <1>3, <1>4, <1>5
<1>8. ASSUME NEW h \in Human
      PROVE  /\ h \notin {"alice", "dave"} => UserFollows(e, es, Len(es), h)
             /\ h # "dave" => RolesFollow(e, es, Len(es), h)
             /\ h \notin {"dave", "erin", "frank"} => ActiveFollows(e, es, Len(es), h)
             /\ LockFollows(e, es, Len(es), h)
  <2>1. /\ UserFollows(c, es, Len(es), h) /\ RolesFollow(c, es, Len(es), h)
        /\ ActiveFollows(c, es, Len(es), h) /\ LockFollows(c, es, Len(es), h)
    BY DEF Follows
  <2>2. h \notin {"alice", "dave"} => UserFollows(e, es, Len(es), h)
    <3>1. h \notin {"alice", "dave"} => e.users[h] = c.users[h]
      BY <1>7
    <3>2. QED
      BY <2>1, <3>1 DEF UserFollows
  <2>3. h # "dave" => RolesFollow(e, es, Len(es), h)
    <3>1. h # "dave" => e.entitled[h] = c.entitled[h]
      BY <1>7
    <3>2. QED
      BY <2>1, <3>1 DEF RolesFollow
  <2>4. h \notin {"dave", "erin", "frank"} => ActiveFollows(e, es, Len(es), h)
    <3>1. h \notin {"dave", "erin", "frank"} => (h \in e.active <=> h \in c.active)
      BY <1>7
    <3>2. QED
      BY <2>1, <3>1 DEF ActiveFollows
  <2>5. LockFollows(e, es, Len(es), h)
    BY <1>7, <2>1 DEF LockFollows
  <2>6. QED
    BY <2>2, <2>3, <2>4, <2>5
<1>9. /\ e.users["alice"] =
            [exists |-> TRUE, roles |-> c.users["alice"].roles \cup {"it-admin"}]
      /\ e.users["dave"] = [exists |-> TRUE, roles |-> {"k8s-prod"}]
      /\ e.entitled["dave"] = {}
  BY <1>2, <1>3, <1>4, <1>5
<1>90. c.users["alice"].roles \subseteq c.entitled["alice"]
  <2>1. UserFollows(c, es, Len(es), "alice") /\ RolesFollow(c, es, Len(es), "alice")
    BY <1>1 DEF Follows
  <2>2. CASE Silent(es, Len(es), "alice")
    BY <2>1, <2>2 DEF UserFollows, NoUser
  <2>3. ASSUME NEW i \in 1..Len(es), IsLast(es, Len(es), i, "alice")
        PROVE  c.users["alice"].roles \subseteq c.entitled["alice"]
    <3>1. c.entitled["alice"] = RolesFor(es[i].employee)
      BY <2>1, <2>3 DEF RolesFollow
    <3>2. c.users["alice"] = NoUser
          \/ c.users["alice"] = [exists |-> TRUE, roles |-> RolesFor(es[i].employee)]
      BY <2>1, <2>3 DEF UserFollows
    <3>3. QED
      BY <3>1, <3>2 DEF NoUser
  <2>4. QED
    BY <2>2, <2>3, LastExists
<1>91. /\ e.users["alice"].exists /\ "it-admin" \in e.users["alice"].roles
       /\ e.users["alice"].roles \subseteq e.entitled["alice"] \cup {"it-admin"}
  <2>1. e.entitled["alice"] = c.entitled["alice"]
    BY <1>1, <1>7
  <2>2. QED
    BY <1>9, <1>90, <2>1
<1>10. /\ "dave" \notin e.active /\ {"erin", "frank"} \subseteq e.active
       /\ e.sessions = {[id |-> "sess-7f3a", user |-> "dave", ip |-> "unseen"],
                        [id |-> "sess-9c21", user |-> "erin", ip |-> "usual"],
                        [id |-> "sess-3e88", user |-> "frank", ip |-> "usual"]}
       /\ e.devices = Fleet
  BY <1>3, <1>4, <1>5, <1>7
<1>11. Planted(e, es)
  BY <1>6, <1>8, <1>9, <1>91, <1>10 DEF Planted
<1>12. QED
  BY <1>5, <1>11

\* The built-in events may all be acted on.
LEMMA SoundDemo ==
    /\ DemoEvents \in Seq(Event) /\ Len(DemoEvents) = 5
    /\ \A i \in 1..5 :
          /\ Sound(DemoEvents[i])
          /\ DemoEvents[i].type # "leaver" => DemoEvents[i].employee.status = "active"
          /\ DemoEvents[i].type = "leaver" => DemoEvents[i].employee.email # "dave"
    /\ DemoEvents[4] = NewHumanEvent("mover", "alice", "SRE", "none")
    /\ DemoEvents[5].employee.email = "carol"
<1> DEFINE es == DemoEvents
           e1 == NewHumanEvent("joiner", "alice", "Engineering", "none")
           e2 == NewHumanEvent("joiner", "bob", "SRE", "Incident Commander")
           e3 == NewHumanEvent("joiner", "carol", "IT", "Manager")
           e4 == NewHumanEvent("mover", "alice", "SRE", "none")
           e5 == NewHumanEvent("leaver", "carol", "IT", "Manager")
<1>1. \A x \in {e1, e2, e3, e4, e5} : Sound(x)
  <2>1. Sound(e1)
    BY DemoAssumption, NoEmailAssumption
       DEF Sound, NewHumanEvent, Event, Employee, EventType, Status, Validate
  <2>2. Sound(e2)
    BY DemoAssumption, NoEmailAssumption
       DEF Sound, NewHumanEvent, Event, Employee, EventType, Status, Validate
  <2>3. Sound(e3)
    BY DemoAssumption, NoEmailAssumption
       DEF Sound, NewHumanEvent, Event, Employee, EventType, Status, Validate
  <2>4. Sound(e4)
    BY DemoAssumption, NoEmailAssumption
       DEF Sound, NewHumanEvent, Event, Employee, EventType, Status, Validate
  <2>5. Sound(e5)
    BY DemoAssumption, NoEmailAssumption
       DEF Sound, NewHumanEvent, Event, Employee, EventType, Status, Validate
  <2>6. QED
    BY <2>1, <2>2, <2>3, <2>4, <2>5
<1> HIDE DEF e1, e2, e3, e4, e5
<1>2. es = [n \in 1..5 |-> <<e1, e2, e3, e4, e5>>[n]]
  <2>1. DOMAIN DemoHumans = 1..5
    BY DEF DemoHumans
  <2>2. /\ DemoHumans[1].ev = e1 /\ DemoHumans[2].ev = e2 /\ DemoHumans[3].ev = e3
        /\ DemoHumans[4].ev = e4 /\ DemoHumans[5].ev = e5
    BY DEF DemoHumans, Joins, Human_, e1, e2, e3, e4, e5
  <2>3. \A n \in 1..5 : DemoHumans[n].ev = <<e1, e2, e3, e4, e5>>[n]
    BY <2>2
  <2>4. QED
    BY <2>1, <2>3 DEF DemoEvents
<1>3. es \in [1..5 -> {e1, e2, e3, e4, e5}] /\ es[4] = e4 /\ es[5] = e5
  BY <1>2
<1>30. \A x \in {e1, e2, e3, e4, e5} :
          /\ x.type # "leaver" => x.employee.status = "active"
          /\ x.type = "leaver" => x.employee.email # "dave"
  <2>1. e1.employee.status = "active" /\ e1.type # "leaver"
    BY DEF NewHumanEvent, e1
  <2>2. e2.employee.status = "active" /\ e2.type # "leaver"
    BY ZenonT(30) DEF NewHumanEvent, e2
  <2>3. e3.employee.status = "active" /\ e3.type # "leaver"
    BY DEF NewHumanEvent, e3
  <2>4. e4.employee.status = "active" /\ e4.type # "leaver"
    BY DEF NewHumanEvent, e4
  <2>5. e5.type = "leaver" /\ e5.employee.email = "carol"
    BY DEF NewHumanEvent, e5
  <2>6. QED
    BY <2>1, <2>2, <2>3, <2>4, <2>5
<1>31. e5.employee.email = "carol"
  BY DEF NewHumanEvent, e5
<1> HIDE DEF es
<1>4. /\ es \in [1..5 -> Event]
      /\ \A i \in 1..5 :
            /\ Sound(es[i])
            /\ es[i].type # "leaver" => es[i].employee.status = "active"
            /\ es[i].type = "leaver" => es[i].employee.email # "dave"
  BY <1>1, <1>3, <1>30 DEF Sound
<1>5. es \in Seq(Event) /\ Len(es) = 5
  BY <1>4, FunctionSeq
<1> USE DEF es, e4
<1>6. QED
  BY <1>3, <1>31, <1>4, <1>5

-----------------------------------------------------------------------------
(* The invariant is kept.                                                  *)

\* What has been read stays what it was, however many messages follow.
LEMMA SourcedStays ==
    ASSUME NEW r \in Seq(Inbox), NEW m \in Inbox, NEW t, Sourced(r, t)
    PROVE  Sourced(Append(r, m), t)
<1>1. ASSUME NEW n \in 0..Len(r)
      PROVE  n \in 0..Len(Append(r, m)) /\ StreamOf(Append(r, m), n) = StreamOf(r, n)
  <2>1. \A k \in 1..n : Append(r, m)[k] = r[k]
    OBVIOUS
  <2>2. [k \in 1..n |-> Canonical(Append(r, m)[k])] = [k \in 1..n |-> Canonical(r[k])]
    BY <2>1
  <2>3. StreamOf(Append(r, m), n) = StreamOf(r, n)
    BY <2>2 DEF StreamOf
  <2>4. n \in 0..Len(Append(r, m))
    OBVIOUS
  <2>5. QED
    BY <2>3, <2>4
<1>2. QED
  BY <1>1 DEF Sourced

LEMMA StagedStays ==
    ASSUME NEW r \in Seq(Inbox), NEW m \in Inbox, NEW pc, NEW n, NEW t,
           Staged(r, pc, n, t)
    PROVE  Staged(Append(r, m), pc, n, t)
<1>1. Sourced(r, t) => Sourced(Append(r, m), t)
  BY SourcedStays
<1>2. QED
  BY <1>1 DEF Staged, ReconcilingAt, ReconciledAt, SeededAt, Audited

LEMMA AuditedStays ==
    ASSUME NEW r \in Seq(Inbox), NEW m \in Inbox, NEW t, Audited(r, t)
    PROVE  Audited(Append(r, m), t)
BY SourcedStays DEF SeededAt, Audited

\* What the stream is parsed into is the stream, and every event of it is sound.
LEMMA ParsedSound ==
    ASSUME received \in Seq(Inbox), NEW n \in 0..Len(received),
           NEW es \in ParseStream(Stream(n))
    PROVE  /\ es = StreamOf(received, n)
           /\ es \in Seq(Event)
           /\ \A i \in 1..Len(es) : Sound(es[i])
<1>1. /\ es = Stream(n)
      /\ \A i \in DOMAIN es : Validate(es[i])
  BY DEF ParseStream
<1>2. Matches(es, Said(n))
  BY <1>1, StreamMatches
<1>3. es \in Seq(Event)
  BY <1>2 DEF Matches
<1>4. ASSUME NEW i \in 1..Len(es) PROVE Sound(es[i])
  <2>1. es[i] \in Event /\ i \in DOMAIN es
    BY <1>3, ElementOfSeq, LenProperties
  <2>2. es[i].employee.status \in {"active", "terminated"}
    BY <1>2 DEF Matches, Corresponds
  <2>3. QED
    BY <1>1, <2>1, <2>2 DEF Sound
<1>5. QED
  BY <1>1, <1>3, <1>4 DEF Stream, StreamOf

LEMMA DetectTyped ==
    ASSUME NEW c \in Cluster
    PROVE  Detect(c) \subseteq AFinding
<1>1. /\ \A s \in c.sessions : s.user \in Human /\ s.id \in SessionId
      /\ \A h \in Human : c.users[h].roles \subseteq Role
  BY Fields DEF Session, User
<1>2. OffboardedSessions(c) \subseteq AFinding
  <2>1. \A s \in c.sessions :
            Finding("offboarded-active-session", s.user, s.id) \in AFinding
    BY <1>1 DEF Finding, AFinding
  <2>2. QED
    BY <2>1 DEF OffboardedSessions
<1>3. OffboardedSurvivors(c) \subseteq AFinding
  <2>1. \A h \in Human : Finding("offboarded-identity-survives", h, h) \in AFinding
    BY DEF Finding, AFinding
  <2>2. QED
    BY <2>1 DEF OffboardedSurvivors
<1>4. PrivilegeEscalations(c) \subseteq AFinding
  <2>1. \A h \in Human : \A r \in c.users[h].roles :
            Finding("privilege-escalation", h, r) \in AFinding
    BY <1>1 DEF Finding, AFinding
  <2>2. QED
    BY <2>1 DEF PrivilegeEscalations
<1>5. NewGeoAccess(c) \subseteq AFinding
  <2>1. \A s \in c.sessions : Finding("new-geo-access", s.user, s.id) \in AFinding
    BY <1>1 DEF Finding, AFinding
  <2>2. QED
    BY <2>1 DEF NewGeoAccess
<1>6. UntrustedDevices(c) \subseteq AFinding
  <2>1. \A s \in c.sessions :
            /\ Finding("noncompliant-device", s.user, s.id) \in AFinding
            /\ Finding("unmanaged-device", s.user, s.id) \in AFinding
    BY <1>1 DEF Finding, AFinding
  <2>2. QED
    BY <2>1 DEF UntrustedDevices
<1>7. QED
  BY <1>2, <1>3, <1>4, <1>5, <1>6 DEF Detect, IdentityFindings

LEMMA GenerateTyped ==
    ASSUME NEW answer \in Answer
    PROVE  Generate(answer, "2026-Q2") \subseteq AReview
<1> SUFFICES ASSUME NEW call \in Complete(answer), call.decodes
             PROVE  [period |-> IF call.period = "" THEN "2026-Q2" ELSE call.period,
                     recommendations |-> {[r EXCEPT !.approval = TRUE] :
                                              r \in call.recommendations}] \in AReview
  BY DEF Generate
<1>1. call \in Block /\ IsCall(call)
  BY DEF Complete, Answer
<1>2. call.period \in {"", "2026-Q2"} /\ call.recommendations \subseteq Recommendation
  BY <1>1 DEF Block, IsCall
<1>3. \A r \in Recommendation : [r EXCEPT !.approval = TRUE] \in Recommendation
  BY DEF Recommendation
<1>4. {[r EXCEPT !.approval = TRUE] : r \in call.recommendations} \subseteq Recommendation
  BY <1>2, <1>3
<1>5. QED
  BY <1>2, <1>4 DEF AReview

LEMMA InitKeeps == Init => IInv
<1> SUFFICES ASSUME Init PROVE IInv
  OBVIOUS
<1>1. Nothing \in Trace
  <2>1. Empty \in Cluster
    BY EmptyFollows
  <2>2. <<>> \in Seq(Event)
    OBVIOUS
  <2>3. QED
    BY <2>1, <2>2 DEF Nothing, Trace
<1>2. /\ received = <<>> /\ file = {}
      /\ program = [pc |-> "exited", done |-> 0, trace |-> Nothing]
  BY DEF Init
<1>3. Nothing.events = <<>> /\ Len(<<>>) = 0 /\ received \in Seq(Inbox)
  BY <1>2 DEF Nothing
<1>4. /\ program.pc = "exited" /\ program.done = 0 /\ program.trace = Nothing
      /\ program \in [pc : Stages, done : Nat, trace : Trace]
  BY <1>1, <1>2 DEF Stages
<1>5. TypeOK
  BY <1>1, <1>2, <1>3, <1>4 DEF TypeOK, Stages
<1>6. Len(received) <= MaxReceived
  BY <1>2, <1>3, ReceivedAssumption
<1>7. Staged(received, program.pc, program.done, program.trace)
  BY <1>4 DEF Staged
<1>8. QED
  BY <1>2, <1>4, <1>5, <1>6, <1>7 DEF IInv

\* The program goes to a stage with a trace that is as that stage wants it.
LEMMA Advance ==
    ASSUME IInv, NEW stage \in Stages, NEW t \in Trace,
           program' = [pc |-> stage, done |-> 0, trace |-> t],
           received' = received,
           file' \subseteq Trace, \A x \in file' : Audited(received, x),
           Staged(received, stage, 0, t)
    PROVE  IInv'
<1>1. /\ program'.pc = stage /\ program'.done = 0 /\ program'.trace = t
      /\ program' \in [pc : Stages, done : Nat, trace : Trace]
  OBVIOUS
<1>2. t.events \in Seq(Event)
  BY DEF Trace
<1>3. Len(t.events) \in Nat
  BY <1>2, LenProperties
<1>4. TypeOK'
  BY <1>1, <1>3 DEF IInv, TypeOK
<1>5. (Len(received) <= MaxReceived)'
  BY DEF IInv
<1>6. Staged(received', program'.pc, program'.done, program'.trace)
  BY <1>1
<1>7. \A x \in file' : Audited(received', x)
  OBVIOUS
<1>8. QED
  BY <1>1, <1>4, <1>5, <1>6, <1>7 DEF IInv

LEMMA ReceiveKeeps ==
    ASSUME IInv, NEW m \in Inbox, Receive(m)
    PROVE  IInv'
<1>1. /\ received \in Seq(Inbox) /\ Len(received) < MaxReceived
      /\ received' = Append(received, m) /\ program' = program /\ file' = file
  BY DEF IInv, TypeOK, Receive
<1>2. received' \in Seq(Inbox) /\ Len(received') = Len(received) + 1
  BY <1>1
<1>3. (Len(received) <= MaxReceived)'
  BY <1>1, <1>2, ReceivedAssumption, LenProperties
<1>4. TypeOK'
  BY <1>1, <1>2 DEF IInv, TypeOK
<1>5. Staged(received', program.pc, program.done, program.trace)
  BY <1>1, StagedStays DEF IInv
<1>6. \A x \in file : Audited(received', x)
  BY <1>1, AuditedStays DEF IInv
<1>7. QED
  BY <1>1, <1>3, <1>4, <1>5, <1>6 DEF IInv

LEMMA NothingElse ==
    ASSUME IInv
    PROVE  /\ Nothing \in Trace /\ Nothing.cluster = Empty
           /\ \A events \in Seq(Event) : \A n \in 0..MaxReceived :
                 /\ [Nothing EXCEPT !.events = events] \in Trace
                 /\ [Nothing EXCEPT !.events = events, !.read = {n}] \in Trace
           /\ file \subseteq Trace
           /\ \A x \in file : Audited(received, x)
<1>1. Empty \in Cluster
  BY EmptyFollows
<1>2. <<>> \in Seq(Event)
  OBVIOUS
<1>3. QED
  BY <1>1, <1>2 DEF Nothing, Trace, IInv, TypeOK

LEMMA StartDemoKeeps ==
    ASSUME IInv, StartDemo
    PROVE  IInv'
<1> DEFINE t == [Nothing EXCEPT !.events = DemoEvents]
<1>1. /\ program' = [pc |-> "reconcile", done |-> 0, trace |-> t]
      /\ received' = received /\ file' = file
  BY DEF StartDemo, Goes
<1>2. t.read = {} /\ t.events = DemoEvents /\ t.cluster = Empty
  BY DEF Nothing
<1>3. t \in Trace
  <2>1. DemoEvents \in Seq(Event)
    BY SoundDemo
  <2>2. 0 \in 0..MaxReceived
    BY ReceivedAssumption
  <2> HIDE DEF t
  <2>3. t = [Nothing EXCEPT !.events = DemoEvents]
    BY DEF t
  <2>4. QED
    BY <2>1, <2>2, <2>3, NothingElse
<1> HIDE DEF t
<1>4. Sourced(received, t)
  BY <1>2, SoundDemo DEF Sourced
<1>5. ReconcilingAt(received, t, 0)
  BY <1>2, <1>4, EmptyFollows DEF ReconcilingAt
<1>6. Staged(received, "reconcile", 0, t) /\ "reconcile" \in Stages
  BY <1>5 DEF Staged, Stages
<1>7. QED
  BY <1>1, <1>3, <1>6, NothingElse, Advance

LEMMA StartKeeps ==
    ASSUME IInv, Start
    PROVE  IInv'
<1> DEFINE n == Len(received)
<1>1. received \in Seq(Inbox) /\ received' = received /\ file' = file
  BY DEF Start, IInv, TypeOK
<1>2. n \in 0..Len(received) /\ n \in 0..MaxReceived
  BY <1>1, LenProperties, ReceivedAssumption DEF IInv
<1>3. CASE Goes("failed", Nothing)
  <2>1. program' = [pc |-> "failed", done |-> 0, trace |-> Nothing]
    BY <1>3 DEF Goes
  <2>2. Staged(received, "failed", 0, Nothing) /\ "failed" \in Stages
    BY NothingElse DEF Staged, Stages
  <2>3. QED
    BY <1>1, <2>1, <2>2, NothingElse, Advance
<1>4. CASE \E events \in ParseStream(Stream(n)) :
               Goes("reconcile", [Nothing EXCEPT !.events = events, !.read = {n}])
  <2>1. PICK events \in ParseStream(Stream(n)) :
               Goes("reconcile", [Nothing EXCEPT !.events = events, !.read = {n}])
    BY <1>4
  <2> HIDE DEF n
  <2> DEFINE t == [Nothing EXCEPT !.events = events, !.read = {n}]
  <2>2. program' = [pc |-> "reconcile", done |-> 0, trace |-> t]
    BY <2>1 DEF Goes
  <2>3. t.read = {n} /\ t.events = events /\ t.cluster = Empty
    BY DEF Nothing
  <2>4. /\ events = StreamOf(received, n)
        /\ events \in Seq(Event)
        /\ \A i \in 1..Len(events) : Sound(events[i])
    BY <1>1, <1>2, <2>1, ParsedSound
  <2>5. t \in Trace
    BY <1>2, <2>4, NothingElse
  <2> HIDE DEF t
  <2>6. Sourced(received, t)
    BY <1>2, <2>3, <2>4 DEF Sourced
  <2>7. ReconcilingAt(received, t, 0)
    BY <2>3, <2>6, EmptyFollows DEF ReconcilingAt
  <2>8. Staged(received, "reconcile", 0, t) /\ "reconcile" \in Stages
    BY <2>7 DEF Staged, Stages
  <2>9. QED
    BY <1>1, <2>2, <2>5, <2>8, NothingElse, Advance
<1>5. QED
  BY <1>3, <1>4 DEF Start

\* The trace of the run under way, and what its fields hold.
LEMMA Underway ==
    ASSUME IInv, NEW t, t = program.trace
    PROVE  /\ t \in Trace
           /\ t.cluster \in Cluster
           /\ t.events \in Seq(Event) /\ Len(t.events) \in Nat
           /\ program.done \in Nat
           /\ Staged(received, program.pc, program.done, t)
           /\ \A c \in Cluster : [t EXCEPT !.cluster = c] \in Trace
           /\ file \subseteq Trace
           /\ \A x \in file : Audited(received, x)
<1>1. t \in Trace /\ program.done \in Nat
  BY DEF IInv
<1>2. t.cluster \in Cluster /\ t.events \in Seq(Event)
  BY <1>1 DEF Trace
<1>3. Len(t.events) \in Nat
  BY <1>2, LenProperties
<1>4. \A c \in Cluster : [t EXCEPT !.cluster = c] \in Trace
  BY <1>1 DEF Trace
<1>5. QED
  BY <1>1, <1>2, <1>3, <1>4 DEF IInv, TypeOK

LEMMA ReconcileNextKeeps ==
    ASSUME IInv, ReconcileNext
    PROVE  IInv'
<1> DEFINE t == program.trace
           n == program.done
           ev == t.events[n + 1]
           d == ApplyHuman(t.cluster, ev)
           u == [t EXCEPT !.cluster = d]
<1>1. /\ t \in Trace /\ t.cluster \in Cluster
      /\ t.events \in Seq(Event) /\ Len(t.events) \in Nat /\ n \in Nat
      /\ Staged(received, program.pc, n, t)
      /\ \A c \in Cluster : [t EXCEPT !.cluster = c] \in Trace
      /\ \A x \in file : Audited(received, x)
  BY Underway
<1>2. /\ program.pc = "reconcile" /\ n < Len(t.events)
      /\ received' = received /\ file' = file
  BY DEF ReconcileNext, At
<1>3. ReconcilingAt(received, t, n)
  BY <1>1, <1>2 DEF Staged
<1>4. n + 1 \in 1..Len(t.events)
  BY <1>1, <1>2
<1>5. ev \in Event /\ Validate(ev)
  BY <1>3, <1>4 DEF ReconcilingAt, Sourced, Sound
<1>6. program' = [program EXCEPT !.done = @ + 1, !.trace.cluster = ApplyHuman(@, ev)]
  BY <1>5 DEF ReconcileNext
<1>7. /\ program'.pc = "reconcile" /\ program'.done = n + 1 /\ program'.trace = u
      /\ program' = [program EXCEPT !.done = n + 1, !.trace = u]
  BY <1>2, <1>6 DEF IInv
<1>8. d \in Cluster /\ Untouched(d) /\ Follows(d, t.events, n + 1)
  BY <1>1, <1>3, <1>5, FollowsNext DEF ReconcilingAt
<1> HIDE DEF d
<1>9. u \in Trace
  BY <1>1, <1>8
<1>10. u.cluster = d /\ u.events = t.events /\ u.read = t.read
  BY <1>1 DEF Trace
<1> HIDE DEF u
<1>11. Sourced(received, u)
  BY <1>3, <1>10 DEF ReconcilingAt, Sourced
<1>12. ReconcilingAt(received, u, n + 1)
  BY <1>8, <1>10, <1>11 DEF ReconcilingAt
<1>13. Staged(received', program'.pc, program'.done, program'.trace)
  BY <1>2, <1>7, <1>12 DEF Staged
<1>14. program' \in [pc : Stages, done : Nat, trace : Trace]
  <2>1. program \in [pc : Stages, done : Nat, trace : Trace] /\ n + 1 \in Nat
    BY <1>1 DEF IInv
  <2>2. QED
    BY <1>7, <1>9, <2>1
<1>15. TypeOK'
  <2>1. n + 1 \in 0..Len(u.events)
    BY <1>1, <1>4, <1>10
  <2>2. QED
    BY <1>2, <1>7, <1>9, <2>1 DEF IInv, TypeOK
<1>16. QED
  BY <1>1, <1>2, <1>13, <1>14, <1>15 DEF IInv

LEMMA RunAgentDemoKeeps ==
    ASSUME IInv, RunAgentDemo
    PROVE  IInv'
<1> DEFINE t == program.trace
           d == Play(t.cluster, DemoAgents)
           u == [t EXCEPT !.cluster = d]
<1>1. /\ t \in Trace /\ t.cluster \in Cluster
      /\ t.events \in Seq(Event) /\ Len(t.events) \in Nat
      /\ Staged(received, program.pc, program.done, t)
      /\ \A c \in Cluster : [t EXCEPT !.cluster = c] \in Trace
      /\ file \subseteq Trace
      /\ \A x \in file : Audited(received, x)
  BY Underway
<1>2. /\ program.pc = "reconcile" /\ program.done = Len(t.events)
      /\ program' = [pc |-> "requests", done |-> 0, trace |-> u]
      /\ received' = received /\ file' = file
  BY DEF RunAgentDemo, At, Goes
<1>3. ReconcilingAt(received, t, Len(t.events))
  BY <1>1, <1>2 DEF Staged
<1>4. d \in Cluster /\ Untouched(d) /\ Follows(d, t.events, Len(t.events))
  BY <1>1, <1>3, FollowsAfterAgents DEF ReconcilingAt
<1> HIDE DEF d
<1>5. u \in Trace
  BY <1>1, <1>4
<1>6. u.cluster = d /\ u.events = t.events /\ u.read = t.read
  BY <1>1 DEF Trace
<1> HIDE DEF u
<1>7. Sourced(received, u)
  BY <1>3, <1>6 DEF ReconcilingAt, Sourced
<1>8. ReconciledAt(received, u)
  BY <1>4, <1>6, <1>7 DEF ReconciledAt, ReconcilingAt
<1>9. Staged(received, "requests", 0, u) /\ "requests" \in Stages
  BY <1>8 DEF Staged, Stages
<1>10. QED
  BY <1>1, <1>2, <1>5, <1>9, Advance

LEMMA EvaluateKeeps ==
    ASSUME IInv, Evaluate
    PROVE  IInv'
<1> DEFINE t == program.trace
           J == {req \in Requests : AutoApproved(t.cluster, req)}
           u == [t EXCEPT !.jit = J]
<1>1. /\ t \in Trace /\ t.events \in Seq(Event) /\ Len(t.events) \in Nat
      /\ Staged(received, program.pc, program.done, t)
      /\ file \subseteq Trace
      /\ \A x \in file : Audited(received, x)
  BY Underway
<1>2. /\ program.pc = "requests"
      /\ program' = [pc |-> "inject", done |-> 0, trace |-> u]
      /\ received' = received /\ file' = file
  BY DEF Evaluate, At, Goes
<1>3. ReconciledAt(received, t)
  BY <1>1, <1>2 DEF Staged
<1>4. J \subseteq Requests
  OBVIOUS
<1>5. \A req \in J : req \in Requests /\ AutoApproved(t.cluster, req)
  OBVIOUS
<1> HIDE DEF J
<1>6. /\ u \in Trace
      /\ u.cluster = t.cluster /\ u.events = t.events /\ u.read = t.read /\ u.jit = J
  BY <1>1, <1>4 DEF Trace
<1> HIDE DEF u
<1>7. Sourced(received, u)
  BY <1>3, <1>6 DEF ReconciledAt, ReconcilingAt, Sourced
<1>8. ReconciledAt(received, u)
  BY <1>3, <1>6, <1>7 DEF ReconciledAt, ReconcilingAt
<1>9. JitFollows(u)
  <2>1. SUFFICES ASSUME NEW req \in J, NEW i \in 1..Len(t.events),
                        IsLast(t.events, Len(t.events), i, req.user)
                 PROVE  CanAutoApprove(RolesFor(t.events[i].employee), req.requested)
    BY <1>6 DEF JitFollows
  <2>2. req.user \in Human
    <3>1. \A x \in Requests : x.user = "bob" \/ x.user = "alice"
      BY DEF Requests
    <3>2. req \in Requests
      BY <1>5
    <3>3. req.user = "bob" \/ req.user = "alice"
      BY <3>1, <3>2
    <3>4. QED
      BY <3>3, DemoAssumption
  <2>3. UserFollows(t.cluster, t.events, Len(t.events), req.user)
    BY <1>3, <2>2 DEF ReconciledAt, ReconcilingAt, Follows
  <2>4. t.cluster.users[req.user] =
            IF t.events[i].type = "leaver" THEN NoUser
            ELSE [exists |-> TRUE, roles |-> RolesFor(t.events[i].employee)]
    BY <2>1, <2>3 DEF UserFollows
  <2>5. /\ t.cluster.users[req.user].exists
        /\ CanAutoApprove(t.cluster.users[req.user].roles, req.requested)
    BY <1>5 DEF AutoApproved
  <2>6. t.events[i].type # "leaver"
    BY <2>4, <2>5 DEF NoUser
  <2>7. t.cluster.users[req.user].roles = RolesFor(t.events[i].employee)
    BY <2>4, <2>6
  <2>8. QED
    BY <2>5, <2>7
<1>10. Staged(received, "inject", 0, u) /\ "inject" \in Stages
  BY <1>8, <1>9 DEF Staged, Stages
<1>11. QED
  BY <1>1, <1>2, <1>6, <1>10, Advance

LEMMA InjectKeeps ==
    ASSUME IInv, Inject
    PROVE  IInv'
<1> DEFINE t == program.trace
           c == t.cluster
           d == Play(Play(c, Anomalies(c)), SeedDeviceSessions)
           e == Do(Play(d, DemoDevices), Seen("dave", "usual"))
           u == [t EXCEPT !.cluster = e]
<1>1. /\ t \in Trace /\ c \in Cluster
      /\ t.events \in Seq(Event) /\ Len(t.events) \in Nat
      /\ Staged(received, program.pc, program.done, t)
      /\ \A x \in Cluster : [t EXCEPT !.cluster = x] \in Trace
      /\ file \subseteq Trace
      /\ \A x \in file : Audited(received, x)
  BY Underway
<1>2. /\ program.pc = "inject"
      /\ program' = [pc |-> "audit", done |-> 0, trace |-> u]
      /\ received' = received /\ file' = file
  BY DEF Inject, At, Goes
<1>3. ReconciledAt(received, t) /\ JitFollows(t)
  BY <1>1, <1>2 DEF Staged
<1>4. Untouched(c) /\ Follows(c, t.events, Len(t.events))
  BY <1>3 DEF ReconciledAt, ReconcilingAt
<1>5. e \in Cluster /\ Planted(e, t.events)
  BY <1>1, <1>4, InjectedPlanted
<1> HIDE DEF d, e
<1>6. u \in Trace
  BY <1>1, <1>5
<1>7. /\ u.cluster = e /\ u.events = t.events /\ u.read = t.read
      /\ u.jit = t.jit
  BY <1>1 DEF Trace
<1> HIDE DEF u
<1>8. Sourced(received, u)
  BY <1>3, <1>7 DEF ReconciledAt, ReconcilingAt, Sourced
<1>9. JitFollows(u)
  BY <1>3, <1>7 DEF JitFollows
<1>10. SeededAt(received, u)
  BY <1>5, <1>7, <1>8, <1>9 DEF SeededAt
<1>11. Staged(received, "audit", 0, u) /\ "audit" \in Stages
  BY <1>10 DEF Staged, Stages
<1>12. QED
  BY <1>1, <1>2, <1>6, <1>11, Advance

LEMMA AuditKeeps ==
    ASSUME IInv, Audit
    PROVE  IInv'
<1> DEFINE t == program.trace
           F == Detect(t.cluster)
           u == [t EXCEPT !.findings = F]
<1>1. /\ t \in Trace /\ t.cluster \in Cluster
      /\ Staged(received, program.pc, program.done, t)
      /\ file \subseteq Trace
      /\ \A x \in file : Audited(received, x)
  BY Underway
<1>2. /\ program.pc = "audit"
      /\ program' = [pc |-> "review", done |-> 0, trace |-> u]
      /\ received' = received /\ file' = file
  BY DEF Audit, At, Goes
<1>3. SeededAt(received, t)
  BY <1>1, <1>2 DEF Staged
<1>4. F \subseteq AFinding
  BY <1>1, DetectTyped
<1>5. F = Detect(t.cluster)
  OBVIOUS
<1> HIDE DEF F
<1>6. /\ u \in Trace
      /\ u.cluster = t.cluster /\ u.events = t.events /\ u.read = t.read
      /\ u.jit = t.jit /\ u.findings = F
  BY <1>1, <1>4 DEF Trace
<1> HIDE DEF u
<1>7. Sourced(received, u)
  BY <1>3, <1>6 DEF SeededAt, Sourced
<1>8. JitFollows(u)
  BY <1>3, <1>6 DEF SeededAt, JitFollows
<1>9. Planted(u.cluster, u.events)
  BY <1>3, <1>6 DEF SeededAt
<1>10. Audited(received, u)
  BY <1>5, <1>6, <1>7, <1>8, <1>9 DEF Audited, SeededAt
<1>11. Staged(received, "review", 0, u) /\ "review" \in Stages
  BY <1>10 DEF Staged, Stages
<1>12. QED
  BY <1>1, <1>2, <1>6, <1>11, Advance

LEMMA SkipReviewKeeps ==
    ASSUME IInv, SkipReview
    PROVE  IInv'
<1> DEFINE t == program.trace
<1>1. /\ t \in Trace
      /\ Staged(received, program.pc, program.done, t)
      /\ file \subseteq Trace
      /\ \A x \in file : Audited(received, x)
  BY Underway
<1>2. /\ program.pc = "review"
      /\ program' = [pc |-> "write", done |-> 0, trace |-> t]
      /\ received' = received /\ file' = file
  BY DEF SkipReview, At, Goes
<1>3. Staged(received, "write", 0, t) /\ "write" \in Stages
  BY <1>1, <1>2 DEF Staged, Stages
<1>4. QED
  BY <1>1, <1>2, <1>3, Advance

LEMMA ReviewKeeps ==
    ASSUME IInv, NEW answer \in Answers, Review(answer)
    PROVE  IInv'
<1> DEFINE t == program.trace
           G == Generate(answer, "2026-Q2")
           u == [t EXCEPT !.review = G]
<1>1. /\ t \in Trace
      /\ Staged(received, program.pc, program.done, t)
      /\ file \subseteq Trace
      /\ \A x \in file : Audited(received, x)
  BY Underway
<1>2. /\ program.pc = "review"
      /\ program' = [pc |-> "write", done |-> 0, trace |-> u]
      /\ received' = received /\ file' = file
  BY DEF Review, At, Goes
<1>3. Audited(received, t)
  BY <1>1, <1>2 DEF Staged
<1>4. G \subseteq AReview
  BY AnswersAssumption, GenerateTyped
<1> HIDE DEF G
<1>5. /\ u \in Trace
      /\ u.cluster = t.cluster /\ u.events = t.events /\ u.read = t.read
      /\ u.jit = t.jit /\ u.findings = t.findings
  BY <1>1, <1>4 DEF Trace
<1> HIDE DEF u
<1>6. Sourced(received, u)
  BY <1>3, <1>5 DEF Audited, SeededAt, Sourced
<1>7. JitFollows(u)
  BY <1>3, <1>5 DEF Audited, SeededAt, JitFollows
<1>8. Planted(u.cluster, u.events) /\ u.findings = Detect(u.cluster)
  BY <1>3, <1>5 DEF Audited, SeededAt
<1>9. Audited(received, u)
  BY <1>6, <1>7, <1>8 DEF Audited, SeededAt
<1>10. Staged(received, "write", 0, u) /\ "write" \in Stages
  BY <1>9 DEF Staged, Stages
<1>11. QED
  BY <1>1, <1>2, <1>5, <1>10, Advance

\* Whatever becomes of the file, the run is over.
LEMMA ExitKeeps ==
    ASSUME IInv, program' = [pc |-> "exited", done |-> 0, trace |-> Nothing],
           received' = received,
           file' \subseteq Trace, \A x \in file' : Audited(received, x)
    PROVE  IInv'
<1>1. Staged(received, "exited", 0, Nothing) /\ "exited" \in Stages
  BY DEF Staged, Stages
<1>2. Nothing \in Trace
  BY NothingElse
<1>3. QED
  BY <1>1, <1>2, Advance

LEMMA WriteTraceKeeps ==
    ASSUME IInv, WriteTrace
    PROVE  IInv'
<1> DEFINE t == program.trace
<1>1. /\ t \in Trace
      /\ Staged(received, program.pc, program.done, t)
      /\ file \subseteq Trace
      /\ \A x \in file : Audited(received, x)
  BY Underway
<1>2. /\ program.pc = "write"
      /\ program' = [pc |-> "exited", done |-> 0, trace |-> Nothing]
      /\ received' = received
      /\ file' = {t} \/ file' = file
  BY DEF WriteTrace, At, Goes
<1>3. Audited(received, t)
  BY <1>1, <1>2 DEF Staged
<1>4. file' \subseteq Trace /\ \A x \in file' : Audited(received, x)
  BY <1>1, <1>2, <1>3
<1>5. QED
  BY <1>2, <1>4, ExitKeeps

LEMMA WriteFailsKeeps ==
    ASSUME IInv, WriteFails
    PROVE  IInv'
<1>1. /\ program' = [pc |-> "exited", done |-> 0, trace |-> Nothing]
      /\ received' = received /\ file' = {}
  BY DEF WriteFails, Goes
<1>2. QED
  BY <1>1, ExitKeeps

\* The invariant of the pipeline: at every stage of a run the cluster follows the
\* events that are done, and whatever the file holds was audited in full.
THEOREM PipelineInvariant == Spec => []IInv
<1>1. IInv /\ [Next]_vars => IInv'
  <2> SUFFICES ASSUME IInv, [Next]_vars PROVE IInv'
    OBVIOUS
  <2>1. CASE \E m \in Inbox : Receive(m)
    BY <2>1, ReceiveKeeps
  <2>2. CASE StartDemo
    BY <2>2, StartDemoKeeps
  <2>3. CASE Start
    BY <2>3, StartKeeps
  <2>4. CASE ReconcileNext
    BY <2>4, ReconcileNextKeeps
  <2>5. CASE RunAgentDemo
    BY <2>5, RunAgentDemoKeeps
  <2>6. CASE Evaluate
    BY <2>6, EvaluateKeeps
  <2>7. CASE Inject
    BY <2>7, InjectKeeps
  <2>8. CASE Audit
    BY <2>8, AuditKeeps
  <2>9. CASE SkipReview
    BY <2>9, SkipReviewKeeps
  <2>10. CASE \E answer \in Answers : Review(answer)
    BY <2>10, ReviewKeeps
  <2>11. CASE WriteTrace
    BY <2>11, WriteTraceKeeps
  <2>12. CASE WriteFails
    BY <2>12, WriteFailsKeeps
  <2>13. CASE UNCHANGED vars
    BY <2>13 DEF vars, IInv, TypeOK
  <2>14. QED
    BY <2>1, <2>2, <2>3, <2>4, <2>5, <2>6, <2>7, <2>8, <2>9, <2>10, <2>11,
       <2>12, <2>13 DEF Next
<1>2. QED
  BY InitKeeps, <1>1, PTL DEF Spec

\* Messages, stages, counters and traces stay within their types: the loop never
\* counts past the events it was given (main.go, run).
THEOREM TypeCorrect == Spec => []TypeOK
<1>1. IInv => TypeOK
  BY DEF IInv
<1>2. QED
  BY <1>1, PipelineInvariant, PTL

-----------------------------------------------------------------------------
(* What a written trace shows.                                             *)

\* A failed run has reconciled nothing; a written trace is of the whole stream, as
\* it was read, every event of it well formed (hris.go, ParseStream).
LEMMA AuditedSource ==
    ASSUME IInv, NEW t \in file, NEW n \in t.read
    PROVE  /\ n \in 0..Len(received) /\ received \in Seq(Inbox)
           /\ t.events = Stream(n) /\ t.events \in Seq(Event)
           /\ \A i \in 1..Len(t.events) : Sound(t.events[i])
           /\ JitFollows(t) /\ Planted(t.cluster, t.events)
           /\ t.findings = Detect(t.cluster) /\ t.cluster \in Cluster
<1>1. t \in Trace /\ Audited(received, t) /\ received \in Seq(Inbox)
  BY DEF IInv, TypeOK
<1>2. Sourced(received, t)
  BY <1>1 DEF Audited, SeededAt
<1>3. n \in 0..Len(received) /\ t.events = StreamOf(received, n)
  BY <1>2 DEF Sourced
<1>4. t.events \in Seq(Event) /\ t.cluster \in Cluster
  BY <1>1 DEF Trace
<1>5. \A i \in 1..Len(t.events) : Sound(t.events[i])
  BY <1>2 DEF Sourced
<1>6. QED
  BY <1>1, <1>3, <1>4, <1>5 DEF Audited, SeededAt, StreamOf, Stream

THEOREM NothingHalfReconciledHolds == Spec => []NothingHalfReconciled
<1>1. IInv => NothingHalfReconciled
  <2> SUFFICES ASSUME IInv PROVE NothingHalfReconciled
    OBVIOUS
  <2>1. At("failed") => program.trace.cluster = Empty
    BY DEF IInv, Staged, At
  <2>2. ASSUME NEW t \in file, NEW n \in t.read
        PROVE  t.events = Stream(n) /\ \A i \in DOMAIN t.events : Validate(t.events[i])
    <3>1. /\ t.events = Stream(n) /\ t.events \in Seq(Event)
          /\ \A i \in 1..Len(t.events) : Sound(t.events[i])
      BY AuditedSource
    <3>2. DOMAIN t.events = 1..Len(t.events)
      BY <3>1, LenProperties
    <3>3. QED
      BY <3>1, <3>2 DEF Sound
  <2>3. QED
    BY <2>1, <2>2 DEF NothingHalfReconciled
<1>2. QED
  BY <1>1, PipelineInvariant, PTL

\* The event that the last word on h made.
LEMMA LastWordEvent ==
    ASSUME IInv, NEW t \in file, NEW n \in t.read, NEW h, NEW w \in LastWord(h, n)
    PROVE  \E i \in 1..Len(t.events) :
               /\ IsLast(t.events, Len(t.events), i, h)
               /\ Corresponds(t.events[i], w)
               /\ Sound(t.events[i])
<1> DEFINE es == t.events
<1>1. /\ n \in 0..Len(received) /\ received \in Seq(Inbox) /\ es = Stream(n)
      /\ \A i \in 1..Len(es) : Sound(es[i])
  BY AuditedSource
<1> HIDE DEF es
<1>2. PICK i \in 1..Len(es) : IsLast(es, Len(es), i, h) /\ Corresponds(es[i], w)
  BY <1>1, LastWordSays
<1>3. Sound(es[i])
  BY <1>1, <1>2
<1> USE DEF es
<1>4. QED
  BY <1>2, <1>3

\* The last message about somebody decides, whatever came before it, on roles,
\* user and lock, and on the just-in-time request (main.go, run).
THEOREM LastWordDecidesHolds == Spec => []LastWordDecides
<1>1. IInv => LastWordDecides
  <2> SUFFICES ASSUME IInv, NEW t \in file, NEW n \in t.read,
                      NEW h \in Human \ {"alice", "dave"}, NEW w \in LastWord(h, n)
               PROVE  /\ t.cluster.users[h].roles = w.roles
                      /\ w.news => ~t.cluster.users[h].exists /\ h \in t.cluster.locks
                      /\ \A req \in t.jit : req.user = h =>
                                  CanAutoApprove(w.roles, req.requested)
    BY DEF LastWordDecides
  <2> DEFINE es == t.events
             c == t.cluster
  <2>1. PICK i \in 1..Len(es) : /\ IsLast(es, Len(es), i, h)
                                /\ Corresponds(es[i], w)
                                /\ Sound(es[i])
    BY LastWordEvent
  <2>2. JitFollows(t) /\ Planted(c, es)
    BY AuditedSource
  <2>3. UserFollows(c, es, Len(es), h) /\ LockFollows(c, es, Len(es), h)
    BY <2>2 DEF Planted
  <2>4. /\ RolesFor(es[i].employee) = w.roles
        /\ w.news <=> es[i].type = "leaver"
    BY <2>1 DEF Corresponds
  <2>5. es[i].type = "leaver" => w.roles = {}
    BY <2>1, <2>4 DEF Sound, Validate, RolesFor
  <2>6. c.users[h] = IF es[i].type = "leaver" THEN NoUser
                     ELSE [exists |-> TRUE, roles |-> RolesFor(es[i].employee)]
    BY <2>1, <2>3 DEF UserFollows
  <2>7. c.users[h].roles = w.roles
    <3>1. CASE es[i].type = "leaver"
      <4>1. c.users[h] = NoUser /\ w.roles = {}
        BY <2>5, <2>6, <3>1
      <4>2. QED
        BY <4>1 DEF NoUser
    <3>2. CASE es[i].type # "leaver"
      <4>1. c.users[h] = [exists |-> TRUE, roles |-> RolesFor(es[i].employee)]
        BY <2>6, <3>2
      <4>2. QED
        BY <2>4, <4>1
    <3>3. QED
      BY <3>1, <3>2
  <2>8. w.news => ~c.users[h].exists /\ h \in c.locks
    BY <2>1, <2>3, <2>4, <2>6 DEF LockFollows, Left, IsLast, NoUser
  <2>9. \A req \in t.jit : req.user = h => CanAutoApprove(w.roles, req.requested)
    BY <2>1, <2>2, <2>4 DEF JitFollows
  <2>10. QED
    BY <2>7, <2>8, <2>9
<1>2. QED
  BY <1>1, PipelineInvariant, PTL

\* Nobody whom the sources call gone is overlooked: locked, or reported by the
\* audit (audit.go, Detect).
THEOREM GoneIsSeveredOrReportedHolds == Spec => []GoneIsSeveredOrReported
<1>1. IInv => GoneIsSeveredOrReported
  <2> SUFFICES ASSUME IInv, NEW t \in file, NEW n \in t.read,
                      NEW h \in Human \ {"erin", "frank"}, NEW w \in LastWord(h, n),
                      w.gone, h \notin t.cluster.locks
               PROVE  Finding("offboarded-identity-survives", h, h) \in t.findings
    BY DEF GoneIsSeveredOrReported
  <2> DEFINE es == t.events
             c == t.cluster
  <2>1. PICK i \in 1..Len(es) : /\ IsLast(es, Len(es), i, h)
                                /\ Corresponds(es[i], w)
                                /\ Sound(es[i])
    BY LastWordEvent
  <2>2. Planted(c, es) /\ t.findings = Detect(c)
    BY AuditedSource
  <2>3. LockFollows(c, es, Len(es), h)
    BY <2>2 DEF Planted
  <2>4. es[i].type # "leaver"
    BY <2>1, <2>3 DEF LockFollows, Left, IsLast
  <2>5. es[i].employee.status # "active"
    BY <2>1 DEF Corresponds
  <2>6. c.users[h].exists
    <3>1. CASE h \in {"alice", "dave"}
      BY <2>2, <3>1 DEF Planted
    <3>2. CASE h \notin {"alice", "dave"}
      <4>1. UserFollows(c, es, Len(es), h)
        BY <2>2, <3>2 DEF Planted
      <4>2. c.users[h] = [exists |-> TRUE, roles |-> RolesFor(es[i].employee)]
        BY <2>1, <2>4, <4>1 DEF UserFollows
      <4>3. QED
        BY <4>2
    <3>3. QED
      BY <3>1, <3>2
  <2>7. h \notin c.active
    <3>1. CASE h = "dave"
      BY <2>2, <3>1 DEF Planted
    <3>2. CASE h # "dave"
      <4>1. ActiveFollows(c, es, Len(es), h)
        BY <2>2, <3>2 DEF Planted
      <4>2. QED
        BY <2>1, <2>5, <4>1 DEF ActiveFollows
    <3>3. QED
      BY <3>1, <3>2
  <2>8. AtLarge(c, h)
    BY <2>7 DEF AtLarge
  <2>9. Finding("offboarded-identity-survives", h, h) \in OffboardedSurvivors(c)
    BY <2>6, <2>8 DEF OffboardedSurvivors
  <2>10. QED
    BY <2>2, <2>9 DEF Detect, IdentityFindings
<1>2. QED
  BY <1>1, PipelineInvariant, PTL

\* What the detectors read off the laptops of the three who have a session.
LEMMA FleetPosture ==
    /\ Fleet # {}
    /\ PassesPosture(Fleet, "dave")
    /\ ~PassesPosture(Fleet, "erin") /\ IsManaged(Fleet, "erin")
    /\ ~PassesPosture(Fleet, "frank") /\ ~IsManaged(Fleet, "frank")
<1> DEFINE ld == Laptop("dave", TRUE, TRUE)
           le == Laptop("erin", TRUE, FALSE)
           lf == Laptop("frank", FALSE, FALSE)
<1>1. ld \in Fleet /\ le \in Fleet /\ lf \in Fleet
  BY DEF Fleet
<1>2. \A d \in Fleet : /\ d.owner = "dave" => d = ld
                       /\ d.owner = "erin" => d = le
                       /\ d.owner = "frank" => d = lf
  BY DEF Fleet, Laptop
<1>3. /\ ld.owner = "dave" /\ ld.serial = 1 /\ ld.managed /\ ld.overall
      /\ le.owner = "erin" /\ le.serial = 1 /\ le.managed /\ ~le.overall
      /\ lf.owner = "frank" /\ lf.serial = 1 /\ ~lf.managed
  BY DEF Laptop
<1> HIDE DEF ld, le, lf
<1>4. /\ {d \in Fleet : d.owner = "dave"} = {ld}
      /\ {d \in Fleet : d.owner = "erin"} = {le}
      /\ {d \in Fleet : d.owner = "frank"} = {lf}
  BY <1>1, <1>2, <1>3
<1>5. /\ Posture(Fleet, "dave") = {ld}
      /\ Posture(Fleet, "erin") = {le}
      /\ Posture(Fleet, "frank") = {lf}
  BY <1>3, <1>4 DEF Posture
<1>6. QED
  BY <1>1, <1>3, <1>5 DEF PassesPosture, IsManaged, IsCompliant

\* Every detector of identities signs its findings.
LEMMA DetectorNames ==
    ASSUME NEW c
    PROVE  /\ \A f \in OffboardedSessions(c) : f.detector = "offboarded-active-session"
           /\ \A f \in OffboardedSurvivors(c) :
                 f.detector = "offboarded-identity-survives"
           /\ \A f \in PrivilegeEscalations(c) : f.detector = "privilege-escalation"
           /\ \A f \in NewGeoAccess(c) : f.detector = "new-geo-access"
<1>1. \A f \in OffboardedSessions(c) : f.detector = "offboarded-active-session"
  BY DEF OffboardedSessions, Finding
<1>2. \A f \in OffboardedSurvivors(c) : f.detector = "offboarded-identity-survives"
  BY DEF OffboardedSurvivors, Finding
<1>3. ASSUME NEW f \in PrivilegeEscalations(c)
      PROVE  f.detector = "privilege-escalation"
  <2>1. PICK h \in Human : \E r \in c.users[h].roles \ c.entitled[h] :
                               f = Finding("privilege-escalation", h, r)
    BY <1>3 DEF PrivilegeEscalations
  <2>2. QED
    BY <2>1 DEF Finding
<1>4. \A f \in NewGeoAccess(c) : f.detector = "new-geo-access"
  BY DEF NewGeoAccess, Finding
<1>5. QED
  BY <1>1, <1>2, <1>3, <1>4

\* The audit of a planted cluster reports what was planted, but passes over dave's
\* user and session if he is locked.
LEMMA PlantedIsFound ==
    ASSUME NEW c, NEW es, Planted(c, es)
    PROVE  /\ PlantedRest \subseteq Detect(c)
           /\ \A f \in PlantedLeaver : f \in Detect(c) <=> "dave" \notin c.locks
<1> DEFINE sd == [id |-> "sess-7f3a", user |-> "dave", ip |-> "unseen"]
           se == [id |-> "sess-9c21", user |-> "erin", ip |-> "usual"]
           sf == [id |-> "sess-3e88", user |-> "frank", ip |-> "usual"]
<1>1. /\ c.sessions = {sd, se, sf} /\ c.known["dave"] = {"usual"}
      /\ c.devices = Fleet
      /\ c.users["dave"] = [exists |-> TRUE, roles |-> {"k8s-prod"}]
      /\ c.entitled["dave"] = {} /\ "dave" \notin c.active
  BY DEF Planted
<1>2. /\ sd.id = "sess-7f3a" /\ sd.user = "dave" /\ sd.ip = "unseen"
      /\ se.id = "sess-9c21" /\ se.user = "erin"
      /\ sf.id = "sess-3e88" /\ sf.user = "frank"
  OBVIOUS
<1> HIDE DEF sd, se, sf
<1>20. "dave" \in Human
  BY DemoAssumption
<1>3. Finding("new-geo-access", "dave", "sess-7f3a") \in NewGeoAccess(c)
  <2>1. sd \in c.sessions /\ c.known[sd.user] # {} /\ sd.ip \notin c.known[sd.user]
    BY <1>1, <1>2
  <2>2. Finding("new-geo-access", sd.user, sd.id) \in NewGeoAccess(c)
    BY <2>1 DEF NewGeoAccess
  <2>3. QED
    BY <1>2, <2>2
<1>30. Finding("privilege-escalation", "dave", "k8s-prod") \in PrivilegeEscalations(c)
  <2>1. "k8s-prod" \in c.users["dave"].roles \ c.entitled["dave"]
    BY <1>1
  <2>2. QED
    BY <1>20, <2>1 DEF PrivilegeEscalations
<1>4. UntrustedDevices(c) =
          {Finding(IF IsManaged(c.devices, s.user) THEN "noncompliant-device"
                                                   ELSE "unmanaged-device",
                   s.user, s.id) :
              s \in {x \in c.sessions : ~PassesPosture(c.devices, x.user)}}
  BY <1>1, FleetPosture DEF UntrustedDevices
<1>5. Finding("noncompliant-device", "erin", "sess-9c21") \in UntrustedDevices(c)
  <2>1. /\ se \in c.sessions /\ ~PassesPosture(c.devices, se.user)
        /\ (IF IsManaged(c.devices, se.user) THEN "noncompliant-device"
                                             ELSE "unmanaged-device")
               = "noncompliant-device"
    BY <1>1, <1>2, FleetPosture
  <2>2. Finding(IF IsManaged(c.devices, se.user) THEN "noncompliant-device"
                                                 ELSE "unmanaged-device",
                se.user, se.id) \in UntrustedDevices(c)
    BY <1>4, <2>1
  <2>3. QED
    BY <1>2, <2>1, <2>2
<1>6. Finding("unmanaged-device", "frank", "sess-3e88") \in UntrustedDevices(c)
  <2>1. /\ sf \in c.sessions /\ ~PassesPosture(c.devices, sf.user)
        /\ (IF IsManaged(c.devices, sf.user) THEN "noncompliant-device"
                                             ELSE "unmanaged-device")
               = "unmanaged-device"
    BY <1>1, <1>2, FleetPosture
  <2>2. Finding(IF IsManaged(c.devices, sf.user) THEN "noncompliant-device"
                                                 ELSE "unmanaged-device",
                sf.user, sf.id) \in UntrustedDevices(c)
    BY <1>4, <2>1
  <2>3. QED
    BY <1>2, <2>1, <2>2
<1>7. PlantedRest \subseteq Detect(c)
  BY <1>3, <1>30, <1>5, <1>6 DEF Detect, IdentityFindings, PlantedRest
<1>8. Finding("offboarded-identity-survives", "dave", "dave") \in Detect(c)
          <=> "dave" \notin c.locks
  <2> DEFINE f == Finding("offboarded-identity-survives", "dave", "dave")
  <2>1. f.detector = "offboarded-identity-survives" /\ f.user = "dave"
    BY DEF Finding
  <2>2. f \in OffboardedSurvivors(c) <=> "dave" \notin c.locks
    <3>1. f \in OffboardedSurvivors(c) => AtLarge(c, "dave")
      BY <2>1 DEF OffboardedSurvivors, Finding
    <3>2. AtLarge(c, "dave") => f \in OffboardedSurvivors(c)
      BY <1>1, <1>20 DEF OffboardedSurvivors
    <3>3. QED
      BY <1>1, <3>1, <3>2 DEF AtLarge
  <2>3. /\ f \notin OffboardedSessions(c) /\ f \notin PrivilegeEscalations(c)
        /\ f \notin NewGeoAccess(c)
    BY <2>1, DetectorNames
  <2>4. f \notin UntrustedDevices(c)
    BY <1>4, <2>1 DEF Finding
  <2> HIDE DEF f
  <2>5. QED
    BY <2>2, <2>3, <2>4 DEF Detect, IdentityFindings, f
<1>9. Finding("offboarded-active-session", "dave", "sess-7f3a") \in Detect(c)
          <=> "dave" \notin c.locks
  <2> DEFINE f == Finding("offboarded-active-session", "dave", "sess-7f3a")
  <2>1. f.detector = "offboarded-active-session" /\ f.user = "dave"
    BY DEF Finding
  <2>2. f \in OffboardedSessions(c) <=> "dave" \notin c.locks
    <3>1. f \in OffboardedSessions(c) => AtLarge(c, "dave")
      BY <2>1 DEF OffboardedSessions, Finding
    <3>2. AtLarge(c, "dave") => f \in OffboardedSessions(c)
      <4>1. f = Finding("offboarded-active-session", sd.user, sd.id) /\ sd \in c.sessions
        BY <1>1, <1>2
      <4>2. AtLarge(c, "dave") => AtLarge(c, sd.user)
        BY <1>2
      <4>3. QED
        BY <4>1, <4>2 DEF OffboardedSessions
    <3>3. QED
      BY <1>1, <3>1, <3>2 DEF AtLarge
  <2>3. /\ f \notin OffboardedSurvivors(c) /\ f \notin PrivilegeEscalations(c)
        /\ f \notin NewGeoAccess(c)
    BY <2>1, DetectorNames
  <2>4. f \notin UntrustedDevices(c)
    BY <1>4, <2>1 DEF Finding
  <2> HIDE DEF f
  <2>5. QED
    BY <2>2, <2>3, <2>4 DEF Detect, IdentityFindings, f
<1>10. QED
  BY <1>7, <1>8, <1>9 DEF PlantedLeaver

\* Apart from those planted, a finding is about the user of somebody who, by the
\* last event about him, is terminated but not deleted, or about an alice of whom
\* there was no event.
LEMMA FoundIsGone ==
    ASSUME NEW c, NEW es, Planted(c, es), Len(es) \in Nat,
           \A i \in 1..Len(es) : Sound(es[i]),
           NEW f \in Detect(c), f \notin PlantedLeaver \cup PlantedRest \cup {PlantedRole}
    PROVE  \/ f.user = "alice" /\ Silent(es, Len(es), "alice")
           \/ \E i \in 1..Len(es) : /\ IsLast(es, Len(es), i, f.user)
                                    /\ es[i].type # "leaver"
                                    /\ es[i].employee.status = "terminated"
<1> DEFINE sd == [id |-> "sess-7f3a", user |-> "dave", ip |-> "unseen"]
           se == [id |-> "sess-9c21", user |-> "erin", ip |-> "usual"]
           sf == [id |-> "sess-3e88", user |-> "frank", ip |-> "usual"]
<1>1. /\ c.sessions = {sd, se, sf} /\ c.devices = Fleet
      /\ c.known["dave"] = {"usual"} /\ \A h \in Human \ {"dave"} : c.known[h] = {}
      /\ {"erin", "frank"} \subseteq c.active /\ "dave" \notin c.active
      /\ c.users["dave"].roles = {"k8s-prod"} /\ c.entitled["dave"] = {}
      /\ c.users["alice"].roles \subseteq c.entitled["alice"] \cup {"it-admin"}
  BY DEF Planted
<1>2. /\ sd.id = "sess-7f3a" /\ sd.user = "dave"
      /\ se.id = "sess-9c21" /\ se.user = "erin"
      /\ sf.id = "sess-3e88" /\ sf.user = "frank"
      /\ {"dave", "erin", "frank"} \subseteq Human
  BY DemoAssumption
<1> HIDE DEF sd, se, sf
<1>3. f \in PrivilegeEscalations(c) => FALSE
  <2>1. SUFFICES ASSUME f \in PrivilegeEscalations(c) PROVE FALSE
    OBVIOUS
  <2>20. PICK h \in Human : \E r \in c.users[h].roles \ c.entitled[h] :
                                f = Finding("privilege-escalation", h, r)
    BY <2>1 DEF PrivilegeEscalations
  <2>2. PICK r \in c.users[h].roles \ c.entitled[h] :
               f = Finding("privilege-escalation", h, r)
    BY <2>20
  <2>3. CASE h = "dave"
    <3>1. r = "k8s-prod"
      BY <1>1, <2>2, <2>3
    <3>2. QED
      BY <2>2, <2>3, <3>1 DEF PlantedRest
  <2>4. CASE h = "alice"
    <3>1. r = "it-admin"
      BY <1>1, <2>2, <2>4
    <3>2. QED
      BY <2>2, <2>4, <3>1 DEF PlantedRole
  <2>5. CASE h \notin {"alice", "dave"}
    <3>1. UserFollows(c, es, Len(es), h) /\ RolesFollow(c, es, Len(es), h)
      BY <2>5 DEF Planted
    <3>2. CASE Silent(es, Len(es), h)
      BY <2>2, <3>1, <3>2 DEF UserFollows, NoUser
    <3>3. ASSUME NEW i \in 1..Len(es), IsLast(es, Len(es), i, h) PROVE FALSE
      <4>1. c.entitled[h] = RolesFor(es[i].employee)
        BY <3>1, <3>3 DEF RolesFollow
      <4>2. c.users[h] = NoUser
            \/ c.users[h] = [exists |-> TRUE, roles |-> RolesFor(es[i].employee)]
        BY <3>1, <3>3 DEF UserFollows
      <4>3. QED
        BY <2>2, <4>1, <4>2 DEF NoUser
    <3>4. QED
      BY <3>2, <3>3, LastExists
  <2>6. QED
    BY <2>3, <2>4, <2>5
<1>4. f \in OffboardedSessions(c) => FALSE
  <2>1. SUFFICES ASSUME f \in OffboardedSessions(c) PROVE FALSE
    OBVIOUS
  <2>2. PICK s \in c.sessions : /\ s.user \notin c.active
                                /\ f = Finding("offboarded-active-session", s.user, s.id)
    BY <2>1 DEF OffboardedSessions, AtLarge
  <2>3. s = sd
    BY <1>1, <1>2, <2>2
  <2>4. QED
    BY <1>2, <2>2, <2>3 DEF PlantedLeaver
<1>5. f \in NewGeoAccess(c) => FALSE
  <2>1. SUFFICES ASSUME f \in NewGeoAccess(c) PROVE FALSE
    OBVIOUS
  <2>2. PICK s \in c.sessions : /\ c.known[s.user] # {}
                                /\ f = Finding("new-geo-access", s.user, s.id)
    BY <2>1 DEF NewGeoAccess
  <2>3. s = sd
    BY <1>1, <1>2, <2>2
  <2>4. QED
    BY <1>2, <2>2, <2>3 DEF PlantedRest
<1>6. f \in UntrustedDevices(c) => FALSE
  <2>1. SUFFICES ASSUME f \in UntrustedDevices(c) PROVE FALSE
    OBVIOUS
  <2>2. PICK s \in c.sessions :
               /\ ~PassesPosture(Fleet, s.user)
               /\ f = Finding(IF IsManaged(Fleet, s.user) THEN "noncompliant-device"
                                                          ELSE "unmanaged-device",
                              s.user, s.id)
    BY <1>1, <2>1, FleetPosture DEF UntrustedDevices
  <2>3. s = se \/ s = sf
    BY <1>1, <1>2, <2>2, FleetPosture
  <2>4. \/ f = Finding("noncompliant-device", "erin", "sess-9c21")
        \/ f = Finding("unmanaged-device", "frank", "sess-3e88")
    <3>1. CASE s = se
      BY <1>2, <2>2, <3>1, FleetPosture
    <3>2. CASE s = sf
      BY <1>2, <2>2, <3>2, FleetPosture
    <3>3. QED
      BY <2>3, <3>1, <3>2
  <2>5. QED
    BY <2>4 DEF PlantedRest
<1>7. f \in OffboardedSurvivors(c)
  BY <1>3, <1>4, <1>5, <1>6 DEF Detect, IdentityFindings
<1>8. PICK h \in Human : /\ c.users[h].exists /\ h \notin c.active /\ h \notin c.locks
                         /\ f = Finding("offboarded-identity-survives", h, h)
  BY <1>7 DEF OffboardedSurvivors, AtLarge
<1>9. f.user = h /\ h \notin {"dave", "erin", "frank"}
  BY <1>1, <1>8 DEF Finding, PlantedLeaver
<1>10. /\ h # "alice" => UserFollows(c, es, Len(es), h)
       /\ ActiveFollows(c, es, Len(es), h) /\ LockFollows(c, es, Len(es), h)
  BY <1>9 DEF Planted
<1>11. CASE Silent(es, Len(es), h)
  <2>1. h = "alice"
    BY <1>8, <1>10, <1>11 DEF UserFollows, NoUser
  <2>2. QED
    BY <1>9, <1>11, <2>1
<1>12. ASSUME NEW i \in 1..Len(es), IsLast(es, Len(es), i, h)
       PROVE  es[i].type # "leaver" /\ es[i].employee.status = "terminated"
  <2>1. es[i].type # "leaver"
    BY <1>8, <1>10, <1>12 DEF LockFollows, Left, IsLast
  <2>2. es[i].employee.status # "active"
    BY <1>8, <1>10, <1>12 DEF ActiveFollows
  <2>3. QED
    BY <2>1, <2>2 DEF Sound
<1>13. QED
  BY <1>9, <1>11, <1>12, LastExists

\* A leaver event is what the connectors make of the news that somebody is gone.
LEMMA LeftIsDeparted ==
    ASSUME received \in Seq(Inbox), NEW n \in 0..Len(received), NEW h,
           NEW es, es = Stream(n)
    PROVE  Left(es, Len(es), h) <=> Departed(h, n)
<1> DEFINE ws == Said(n)
<1>1. Matches(es, ws)
  BY StreamMatches
<1> HIDE DEF ws
<1>2. Len(es) = Len(ws) /\ DOMAIN ws = 1..Len(ws)
  BY <1>1, LenProperties DEF Matches
<1>3. \A i \in 1..Len(es) : /\ es[i].employee.email = ws[i].who
                            /\ ws[i].news <=> es[i].type = "leaver"
  BY <1>1 DEF Matches, Corresponds
<1>4. Departed(h, n) <=> \E i \in DOMAIN ws : ws[i].who = h /\ ws[i].news
  BY DEF Departed, ws
<1>5. QED
  BY <1>2, <1>3, <1>4 DEF Left

\* The audit finds what was planted, however the stream treated the people concerned,
\* but for dave's user and session if it severed him and for it-admin if it granted
\* it to alice; of the others it names only those who are gone by the last message,
\* or alice if none spoke of her (main.go, injectAnomalies).
THEOREM FindingsAreDeservedHolds == Spec => []FindingsAreDeserved
<1>1. IInv => FindingsAreDeserved
  <2> SUFFICES ASSUME IInv, NEW t \in file
               PROVE  /\ PlantedRest \subseteq t.findings
                      /\ \A f \in PlantedLeaver :
                            f \in t.findings <=> ~\E n \in t.read : Departed("dave", n)
                      /\ \/ PlantedRole \in t.findings
                         \/ \E n \in t.read : \E w \in LastWord("alice", n) :
                               "it-admin" \in w.roles
                      /\ \A f \in t.findings \
                                     (PlantedLeaver \cup PlantedRest \cup {PlantedRole}) :
                            \E n \in t.read :
                                /\ \A w \in LastWord(f.user, n) : w.gone
                                /\ LastWord(f.user, n) = {} => f.user = "alice"
    BY DEF FindingsAreDeserved
  <2> DEFINE es == t.events
             c == t.cluster
  <2>1. t \in Trace /\ Audited(received, t) /\ received \in Seq(Inbox)
    BY DEF IInv, TypeOK
  <2>2. Sourced(received, t) /\ Planted(c, es) /\ t.findings = Detect(c)
    BY <2>1 DEF Audited, SeededAt
  <2>3. es \in Seq(Event) /\ \A i \in 1..Len(es) : Sound(es[i])
    BY <2>1, <2>2 DEF Trace, Sourced
  <2>4. Len(es) \in Nat
    BY <2>3, LenProperties
  \* The events are the built-in ones or those of the messages read.
  <2>5. \/ t.read = {} /\ es = DemoEvents
        \/ \E n \in 0..Len(received) : t.read = {n} /\ es = Stream(n)
    BY <2>2 DEF Sourced, StreamOf, Stream
  <2> HIDE DEF es, c
  <2>6. PlantedRest \subseteq t.findings
    BY <2>2, PlantedIsFound
  <2>7. ASSUME NEW f \in PlantedLeaver
        PROVE  f \in t.findings <=> ~\E n \in t.read : Departed("dave", n)
    <3>1. f \in t.findings <=> "dave" \notin c.locks
      BY <2>2, PlantedIsFound
    <3>2. "dave" \in c.locks <=> Left(es, Len(es), "dave")
      BY <2>2, DemoAssumption DEF Planted, LockFollows
    <3>3. Left(es, Len(es), "dave") <=> \E n \in t.read : Departed("dave", n)
      <4>1. CASE t.read = {} /\ es = DemoEvents
        BY <4>1, SoundDemo DEF Left
      <4>2. ASSUME NEW n \in 0..Len(received), t.read = {n}, es = Stream(n)
            PROVE  Left(es, Len(es), "dave") <=> \E m \in t.read : Departed("dave", m)
        <5>1. Left(es, Len(es), "dave") <=> Departed("dave", n)
          BY <2>1, <4>2, LeftIsDeparted
        <5>2. QED
          BY <4>2, <5>1
      <4>3. QED
        BY <2>5, <4>1, <4>2
    <3>4. QED
      BY <3>1, <3>2, <3>3
  <2>8. \/ PlantedRole \in t.findings
        \/ \E n \in t.read : \E w \in LastWord("alice", n) : "it-admin" \in w.roles
    <3>1. "alice" \in Human
      BY DemoAssumption
    <3>2. "it-admin" \in c.users["alice"].roles /\ RolesFollow(c, es, Len(es), "alice")
      BY <2>2, <3>1 DEF Planted
    <3>3. CASE "it-admin" \notin c.entitled["alice"]
      <4>1. PlantedRole \in PrivilegeEscalations(c)
        BY <3>1, <3>2, <3>3 DEF PrivilegeEscalations, PlantedRole
      <4>2. QED
        BY <2>2, <4>1 DEF Detect, IdentityFindings
    <3>4. CASE "it-admin" \in c.entitled["alice"]
      <4>1. PICK i \in 1..Len(es) : IsLast(es, Len(es), i, "alice")
        BY <2>4, <3>2, <3>4, LastExists DEF RolesFollow
      <4>2. "it-admin" \in RolesFor(es[i].employee)
        BY <3>2, <3>4, <4>1 DEF RolesFollow
      <4>3. es # DemoEvents
        <5>1. SUFFICES ASSUME es = DemoEvents PROVE FALSE
          OBVIOUS
        <5>2. Len(es) = 5 /\ es[5].employee.email = "carol"
          BY <5>1, SoundDemo
        <5>3. es[4] = NewHumanEvent("mover", "alice", "SRE", "none")
          BY <5>1, SoundDemo
        <5>4. es[4].employee.email = "alice"
          BY <5>3 DEF NewHumanEvent
        <5>5. i = 4
          <6>1. i # 5
            BY <4>1, <5>2 DEF IsLast
          <6>2. ~(4 \in (i + 1)..5)
            BY <4>1, <5>2, <5>4 DEF IsLast
          <6>3. QED
            BY <5>2, <6>1, <6>2
        <5>6. RolesFor(es[4].employee) = DepartmentRoles["SRE"] \cup TitleRoles["none"]
          BY <5>3 DEF NewHumanEvent, RolesFor
        <5>7. QED
          BY <4>2, <5>5, <5>6, DemoAssumption
      <4>4. PICK n \in 0..Len(received) : t.read = {n} /\ es = Stream(n)
        BY <2>5, <4>3
      <4>5. \E w \in LastWord("alice", n) : Corresponds(es[i], w)
        BY <2>1, <4>1, <4>4, LastWordSays
      <4>6. QED
        BY <4>2, <4>4, <4>5 DEF Corresponds
    <3>5. QED
      BY <3>3, <3>4
  <2>9. ASSUME NEW f \in t.findings,
               f \notin PlantedLeaver \cup PlantedRest \cup {PlantedRole}
        PROVE  \E n \in t.read : /\ \A w \in LastWord(f.user, n) : w.gone
                                 /\ LastWord(f.user, n) = {} => f.user = "alice"
    <3>1. \/ f.user = "alice" /\ Silent(es, Len(es), "alice")
          \/ \E i \in 1..Len(es) : /\ IsLast(es, Len(es), i, f.user)
                                   /\ es[i].type # "leaver"
                                   /\ es[i].employee.status = "terminated"
      BY <2>2, <2>3, <2>4, <2>9, FoundIsGone
    <3>2. es # DemoEvents
      <4>1. SUFFICES ASSUME es = DemoEvents PROVE FALSE
        OBVIOUS
      <4>2. ~Silent(es, Len(es), "alice")
        <5>1. Len(es) = 5 /\ es[4].employee.email = "alice"
          BY <4>1, SoundDemo DEF NewHumanEvent
        <5>2. QED
          BY <5>1 DEF Silent
      <4>3. QED
        BY <3>1, <4>1, <4>2, SoundDemo
    <3>3. PICK n \in 0..Len(received) : t.read = {n} /\ es = Stream(n)
      BY <2>5, <3>2
    <3>4. ASSUME NEW w \in LastWord(f.user, n)
          PROVE  \E i \in 1..Len(es) : IsLast(es, Len(es), i, f.user)
                                       /\ Corresponds(es[i], w)
      BY <2>1, <3>3, <3>4, LastWordSays
    <3>5. CASE f.user = "alice" /\ Silent(es, Len(es), "alice")
      BY <3>3, <3>4, <3>5 DEF Silent, IsLast
    <3>6. ASSUME NEW i \in 1..Len(es), IsLast(es, Len(es), i, f.user),
                 es[i].employee.status = "terminated"
          PROVE  /\ \A w \in LastWord(f.user, n) : w.gone
                 /\ LastWord(f.user, n) # {}
      <4>1. \A j \in 1..Len(es) : IsLast(es, Len(es), j, f.user) => j = i
        <5>1. ASSUME NEW j \in 1..Len(es), IsLast(es, Len(es), j, f.user), j # i
              PROVE  FALSE
          <6>1. j \in (i + 1)..Len(es) \/ i \in (j + 1)..Len(es)
            BY <2>4, <5>1
          <6>2. es[i].employee.email = f.user /\ es[j].employee.email = f.user
            BY <3>6, <5>1 DEF IsLast
          <6>3. QED
            BY <3>6, <5>1, <6>1, <6>2 DEF IsLast
        <5>2. QED
          BY <5>1
      <4>2. \A w \in LastWord(f.user, n) : Corresponds(es[i], w)
        BY <3>4, <4>1
      <4>3. \E w \in LastWord(f.user, n) : Corresponds(es[i], w)
        BY <2>1, <3>3, <3>6, LastWordSays
      <4>4. QED
        BY <3>6, <4>2, <4>3 DEF Corresponds
    <3>7. QED
      BY <3>1, <3>3, <3>5, <3>6
  <2>10. QED
    BY <2>6, <2>7, <2>8, <2>9
<1>2. QED
  BY <1>1, PipelineInvariant, PTL

=============================================================================
