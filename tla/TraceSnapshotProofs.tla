------------------------ MODULE TraceSnapshotProofs -------------------------
(***************************************************************************)
(* Proofs about TraceSnapshot, for any threads, owners and arrays: that a  *)
(* response is torn only by the registration of an owner who had a device, *)
(* and that the slice implements the inventory.                            *)
(***************************************************************************)
EXTENDS TraceSnapshot, FiniteSetTheorems, TLAPS

-----------------------------------------------------------------------------
(* The inductive invariant.                                                *)

\* What a cell may hold: a device, or what an allocation starts from.
Cell == [owner : Owner \cup {NoOwner}, posture : Posture]

Slice == [array : Array, len : Nat]

Request == [pc : PC, owner : Owner \cup {NoOwner}, posture : Posture,
            i : Nat, k : Nat, todo : SUBSET Field, slice : Slice, n : Nat,
            seen : Seq(Cell), torn : BOOLEAN]

TypeOK ==
    /\ mem \in [Array -> Seq(Cell)]
    /\ devices \in Slice
    /\ mutex \in SUBSET Thread
    /\ threads \in [Thread -> Request]
    /\ list \in Seq(Entry)
    /\ disturbed \in SUBSET Thread
    /\ devices.len <= Len(mem[devices.array])

Inside(t) == threads[t].pc \in {"compact", "append"}

\* Whoever is inside the Runner, alone, is the holder of the mutex.
Exclusive ==
    /\ \A t \in Thread : Inside(t) <=> t \in mutex
    /\ \A t, u \in mutex : t = u

Encoding(t) == threads[t].pc = "encode"

\* A response under way: seen is as long as the rest of the slice, which lies in
\* its array.  Nobody copies a device outside the Runner and the encoder.
Placed ==
    \A t \in Thread :
        /\ Encoding(t) =>
               /\ t \in Followed
               /\ threads[t].n <= threads[t].slice.len
               /\ Len(threads[t].seen) = threads[t].slice.len - threads[t].n
               /\ threads[t].slice.len <= Len(mem[threads[t].slice.array])
               /\ threads[t].todo # {} => threads[t].n < threads[t].slice.len
        /\ ~Encoding(t) /\ ~Inside(t) => threads[t].todo = {}

Undisturbed(t) == Encoding(t) /\ t \notin disturbed

\* What an undisturbed response still has to encode is what Trace returned.
\* Where it shares the array of the list, the list covers its slice, and a
\* compaction has dropped nothing since: it writes each cell onto itself.
Whole ==
    \A t \in Thread : Undisturbed(t) =>
        /\ ~threads[t].torn
        /\ \A j \in 1..Len(threads[t].seen) :
               threads[t].seen[j] = mem[threads[t].slice.array][threads[t].n + j]
        /\ threads[t].slice.array = devices.array =>
               /\ threads[t].slice.len <= devices.len
               /\ \A u \in Thread :
                      threads[u].pc = "compact" => threads[u].k + 1 = threads[u].i

\* The first cells of the list's array hold s.
Holds(s) ==
    \A j \in 1..Len(s) : mem[devices.array][j] = s[j]

\* The cell n holds the fields of d that t has copied, unless it copies none.
Copied(t, n, d) ==
    threads[t].todo # {} =>
        \A f \in Field \ threads[t].todo : mem[devices.array][n][f] = d[f]

\* The compaction, before its cell i: others' devices are in front, and from i on
\* the cells are as they were.
CompactInv(t) ==
    LET r == threads[t]
        front == Device!Others(list, r.owner)[r.i - 1] IN
    /\ r.owner \in Owner
    /\ r.i \in 1..(devices.len + 1)
    /\ devices.len = Len(list)
    /\ r.k < r.i
    /\ Len(front) = r.k
    /\ Holds(front)
    /\ \A j \in r.i..devices.len : mem[devices.array][j] = list[j]
    /\ r.todo # {} => r.i <= devices.len /\ list[r.i].owner # r.owner
    /\ Copied(t, r.k + 1, list[r.i])

\* The compaction is done, and the new device may be half written.
AppendInv(t) ==
    LET r == threads[t]
        front == Device!Others(list, r.owner)[Len(list)] IN
    /\ r.owner \in Owner
    /\ devices.len = Len(front)
    /\ Holds(front)
    /\ r.todo # {} => devices.len < Len(mem[devices.array])
    /\ Copied(t, devices.len + 1, New(t))

\* list is what the slice stands for: outside the Runner it is in the slice,
\* inside it is what the compaction works on.
Stands ==
    /\ Free => devices.len = Len(list) /\ Holds(list)
    /\ \A t \in Thread :
           /\ threads[t].pc = "compact" => CompactInv(t)
           /\ threads[t].pc = "append" => AppendInv(t)

IInv == TypeOK /\ Exclusive /\ Placed /\ Whole /\ Stands

-----------------------------------------------------------------------------
(* Lemmas about the operators.                                             *)

\* Induction over the naturals for a set: the least counterexample would map the
\* finite set of those up to it into one of its proper subsets.
LEMMA Induction ==
    ASSUME NEW S, 0 \in S, \A n \in Nat : n \in S => n + 1 \in S
    PROVE  Nat \subseteq S
<1> SUFFICES ASSUME NEW last \in Nat, last \notin S PROVE FALSE
  OBVIOUS
<1> DEFINE T == {n \in 0..last : n \notin S}
           U == T \ {last}
           f == [n \in T |-> n - 1]
<1>1. f \in [T -> U]
  <2>1. ASSUME NEW n \in T PROVE n - 1 \in U
    <3>1. n # 0 /\ n - 1 \in 0..last /\ (n - 1) + 1 = n /\ n - 1 # last
      OBVIOUS
    <3>2. n - 1 \notin S
      BY <3>1
    <3>3. QED
      BY <3>1, <3>2
  <2>2. QED
    BY <2>1
<1>2. \A x, y \in T : x # y => f[x] # f[y]
  OBVIOUS
<1>3. IsFiniteSet(0..last) /\ T \subseteq 0..last /\ last \in T
  BY FS_Interval
<1> HIDE DEF T, f
<1>4. IsFiniteSet(T)
  BY <1>3, FS_Subset
<1>5. IsFiniteSet(U) /\ Cardinality(U) = Cardinality(T) - 1 /\ Cardinality(T) \in Nat
  BY <1>3, <1>4, FS_RemoveElement, FS_CardinalityType
<1>6. Cardinality(U) < Cardinality(T)
  BY <1>5
<1> HIDE DEF U
<1>7. \E x, y \in T : x # y /\ f[x] = f[y]
  BY <1>1, <1>4, <1>5, <1>6, FS_PigeonHole
<1>8. QED
  BY <1>2, <1>7

\* Inventory!Others is the function its equation describes: with no device read
\* nothing is kept, and each one read is kept unless it is the owner's.
LEMMA OthersRecursion ==
    ASSUME NEW s \in Seq(Entry), NEW o
    PROVE  /\ Device!Others(s, o) \in [0..Len(s) -> Seq(Entry)]
           /\ Device!Others(s, o)[0] = <<>>
           /\ \A n \in 1..Len(s) : Device!Others(s, o)[n] =
                  IF s[n].owner = o THEN Device!Others(s, o)[n - 1]
                  ELSE Append(Device!Others(s, o)[n - 1], s[n])
<1> DEFINE Rule(g, n) == IF n = 0 THEN <<>>
                         ELSE IF s[n].owner = o THEN g[n - 1]
                         ELSE Append(g[n - 1], s[n])
           Upto(m) == \E g \in [0..m -> Seq(Entry)] :
                          \A n \in 0..m : g[n] = Rule(g, n)
           S == {m \in Nat : m <= Len(s) => Upto(m)}
<1>1. Upto(0)
  <2> DEFINE z == [n \in 0..0 |-> <<>>]
  <2>1. z \in [0..0 -> Seq(Entry)]
    OBVIOUS
  <2>2. \A n \in 0..0 : z[n] = Rule(z, n)
    OBVIOUS
  <2> HIDE DEF z, Rule
  <2>3. QED
    BY <2>1, <2>2
<1>2. ASSUME NEW m \in Nat, Upto(m), m + 1 <= Len(s) PROVE Upto(m + 1)
  <2> HIDE DEF Rule
  <2>1. PICK g \in [0..m -> Seq(Entry)] : \A n \in 0..m : g[n] = Rule(g, n)
    BY <1>2
  <2> USE DEF Rule
  <2> DEFINE h == [n \in 0..(m + 1) |-> IF n <= m THEN g[n] ELSE Rule(g, m + 1)]
  <2>2. s[m + 1] \in Entry /\ g[m] \in Seq(Entry) /\ (m + 1) - 1 = m /\ m + 1 # 0
    <3>1. m + 1 \in 1..Len(s)
      BY <1>2
    <3>2. QED
      BY <3>1
  <2>3. Rule(g, m + 1) \in Seq(Entry)
    BY <2>2
  <2>4. h \in [0..(m + 1) -> Seq(Entry)]
    BY <2>3
  <2>5. \A n \in 0..(m + 1) : n # 0 => h[n - 1] = g[n - 1]
    OBVIOUS
  <2>6. \A n \in 0..(m + 1) : Rule(h, n) = Rule(g, n)
    BY <2>5
  <2>7. \A n \in 0..(m + 1) : h[n] = IF n <= m THEN g[n] ELSE Rule(g, m + 1)
    OBVIOUS
  <2>8. ASSUME NEW n \in 0..(m + 1) PROVE h[n] = Rule(h, n)
    <3> HIDE DEF h, Rule
    <3>1. CASE n <= m
      BY <2>1, <2>6, <2>7, <3>1
    <3>2. CASE ~(n <= m)
      <4>1. n = m + 1
        BY <3>2
      <4>2. QED
        BY <2>6, <2>7, <3>2, <4>1
    <3>3. QED
      BY <3>1, <3>2
  <2> HIDE DEF h, Rule
  <2>9. QED
    BY <2>4, <2>8
<1> HIDE DEF Upto
<1>3. Upto(Len(s))
  <2>1. 0 \in S /\ \A m \in Nat : m \in S => m + 1 \in S
    BY <1>1, <1>2
  <2> HIDE DEF S
  <2>2. Nat \subseteq S
    BY <2>1, Induction
  <2> USE DEF S
  <2>3. QED
    BY <2>2
<1> USE DEF Upto
<1>4. PICK g \in [0..Len(s) -> Seq(Entry)] : \A n \in 0..Len(s) : g[n] = Rule(g, n)
  BY <1>3
<1>5. g = [n \in 0..Len(s) |-> Rule(g, n)]
  BY <1>4
<1> DEFINE K == Device!Others(s, o)
<1>6. K = [n \in 0..Len(s) |-> Rule(K, n)]
  BY <1>5 DEF Device!Others
<1> HIDE DEF K
<1>7. \A n \in 0..Len(s) : K[n] = Rule(K, n)
  BY <1>6
<1>8. \A n \in 0..Len(s) : K[n] \in Seq(Entry)
  <2> DEFINE R == {n \in Nat : n <= Len(s) => K[n] \in Seq(Entry)}
  <2>1. 0 \in R
    <3>1. K[0] = <<>> /\ <<>> \in Seq(Entry)
      BY <1>7
    <3>2. QED
      BY <3>1
  <2>2. ASSUME NEW n \in Nat, n \in R PROVE n + 1 \in R
    <3> SUFFICES ASSUME n + 1 <= Len(s) PROVE K[n + 1] \in Seq(Entry)
      OBVIOUS
    <3>1. K[n] \in Seq(Entry) /\ s[n + 1] \in Entry
      BY <2>2
    <3>2. K[n + 1] = Rule(K, n + 1) /\ (n + 1) - 1 = n
      BY <1>7
    <3>3. QED
      BY <3>1, <3>2
  <2> HIDE DEF R
  <2>3. Nat \subseteq R
    BY <2>1, <2>2, Induction
  <2> USE DEF R
  <2>4. QED
    BY <2>3
<1>9. K \in [0..Len(s) -> Seq(Entry)]
  BY <1>6, <1>8
<1>10. K[0] = <<>> /\ \A n \in 1..Len(s) :
          K[n] = IF s[n].owner = o THEN K[n - 1] ELSE Append(K[n - 1], s[n])
  BY <1>7
<1>11. QED
  BY <1>9, <1>10 DEF K

\* A cell is its two fields.
LEMMA CellFields ==
    ASSUME NEW c \in Cell, NEW d \in Cell, \A f \in Field : c[f] = d[f]
    PROVE  c = d
<1>1. c.owner = d.owner /\ c.posture = d.posture
  BY DEF Field
<1>2. c = [owner |-> c.owner, posture |-> c.posture]
      /\ d = [owner |-> d.owner, posture |-> d.posture]
  BY DEF Cell
<1>3. QED
  BY <1>1, <1>2

\* Copying a field changes that field of that cell, and nothing else.
LEMMA WriteEffect ==
    ASSUME TypeOK, NEW t \in Thread, NEW n \in 1..Len(mem[devices.array]),
           NEW d \in Cell, NEW f \in Field, Write(t, n, d, f)
    PROVE  /\ mem' \in [Array -> Seq(Cell)]
           /\ \A a \in Array : Len(mem'[a]) = Len(mem[a])
           /\ \A a \in Array : a # devices.array => mem'[a] = mem[a]
           /\ \A j \in 1..Len(mem[devices.array]) :
                  j # n => mem'[devices.array][j] = mem[devices.array][j]
           /\ mem'[devices.array][n][f] = d[f]
           /\ \A g \in Field \ {f} :
                  mem'[devices.array][n][g] = mem[devices.array][n][g]
<1> DEFINE a == devices.array
           c == [mem[a][n] EXCEPT ![f] = d[f]]
<1>1. a \in Array /\ mem[a] \in Seq(Cell) /\ mem[a][n] \in Cell
  BY DEF TypeOK, Slice
<1>2. c \in Cell /\ c[f] = d[f] /\ \A g \in Field \ {f} : c[g] = mem[a][n][g]
  BY <1>1 DEF Cell, Field
<1>3. mem' = [mem EXCEPT ![a] = [mem[a] EXCEPT ![n] = c]]
  BY DEF Write
<1> HIDE DEF c
<1>4. /\ [mem[a] EXCEPT ![n] = c] \in Seq(Cell)
      /\ Len([mem[a] EXCEPT ![n] = c]) = Len(mem[a])
      /\ \A j \in 1..Len(mem[a]) :
             [mem[a] EXCEPT ![n] = c][j] = IF j = n THEN c ELSE mem[a][j]
  BY <1>1, <1>2
<1>5. /\ mem'[a] = [mem[a] EXCEPT ![n] = c]
      /\ \A b \in Array : b # a => mem'[b] = mem[b]
      /\ mem \in [Array -> Seq(Cell)]
  BY <1>1, <1>3 DEF TypeOK
<1>6. mem' \in [Array -> Seq(Cell)]
  BY <1>1, <1>3, <1>4, <1>5
<1>7. QED
  BY <1>1, <1>2, <1>4, <1>5, <1>6

\* The allocator finds a place that nothing refers to.
LEMMA UnusedIsUnused ==
    ASSUME TypeOK, Placed
    PROVE  Unused \in Array /\ Unused \notin Referred(devices, threads)
<1> DEFINE held == [t \in Followed |-> threads[t].slice.array]
<1>1. held \in [Followed -> Array] /\ devices.array \in Array
  BY ThreadAssumption DEF TypeOK, Request, Slice
<1>2. PICK b \in Array \ {devices.array} : \A t \in Followed : held[t] # b
  BY <1>1, ArrayAssumption
<1>3. b \notin Referred(devices, threads)
  BY <1>2 DEF Referred, Placed, Encoding
<1>4. QED
  BY <1>2, <1>3 DEF Unused

\* An allocation puts its start into the unused array, and leaves alone whatever
\* else is still referred to.
LEMMA AllocateEffect ==
    ASSUME TypeOK, Placed, NEW s \in Seq(Cell), Allocate(s)
    PROVE  /\ mem' \in [Array -> Seq(Cell)]
           /\ \A a \in Referred(devices', threads') \ {Unused} :
                  a \in Array => mem'[a] = mem[a]
           /\ Unused \in Referred(devices', threads') =>
                  /\ Len(s) <= Len(mem'[Unused])
                  /\ \A j \in 1..Len(s) : mem'[Unused][j] = s[j]
<1> DEFINE rest(e) == [n \in 1..e |-> [owner |-> NoOwner, posture |-> Nothing.posture]]
           next(cells) == [mem EXCEPT ![Unused] = cells]
<1>1. PICK e \in 0..(MaxCap - Len(s)) : mem' = Collected(next(s \o rest(e)))
  BY DEF Allocate, Fresh
<1>2. Nothing.posture \in Posture
  BY ThreadAssumption DEF Nothing
<1>3. e \in Nat
  BY ThreadAssumption
<1>4. rest(e) \in Seq(Cell)
  BY <1>2, <1>3 DEF Cell
<1> HIDE DEF rest
<1>5. /\ s \o rest(e) \in Seq(Cell)
      /\ Len(s) <= Len(s \o rest(e))
      /\ \A j \in 1..Len(s) : (s \o rest(e))[j] = s[j]
  BY <1>4
<1> DEFINE cells == s \o rest(e)
<1> HIDE DEF cells
<1>6. Unused \in Array /\ mem \in [Array -> Seq(Cell)]
  BY UnusedIsUnused DEF TypeOK
<1>7. /\ next(cells) \in [Array -> Seq(Cell)]
      /\ next(cells)[Unused] = cells
      /\ \A a \in Array : a # Unused => next(cells)[a] = mem[a]
  BY <1>5, <1>6 DEF cells
<1>8. mem' = Collected(next(cells))
  BY <1>1 DEF cells
<1> HIDE DEF next
<1>9. mem' \in [Array -> Seq(Cell)]
  BY <1>7, <1>8 DEF Collected
<1>10. \A a \in Array : a \in Referred(devices', threads') => mem'[a] = next(cells)[a]
  BY <1>8 DEF Collected
<1>11. QED
  BY <1>5, <1>6, <1>7, <1>9, <1>10 DEF cells

-----------------------------------------------------------------------------
(* What each step does to the invariant.                                   *)

\* A thread outside the Runner that goes on to a state of its own, which keeps
\* the clauses about that thread, keeps the invariant.
LEMMA QuietStep ==
    ASSUME IInv, NEW t \in Thread, NEW r \in Request, Step(t, r),
           UNCHANGED <<mem, devices, mutex, list, disturbed>>,
           ~Inside(t), r.pc \notin {"compact", "append"},
           r.pc # "encode" => r.todo = {},
           r.pc = "encode" =>
               /\ t \in Followed
               /\ r.n <= r.slice.len
               /\ Len(r.seen) = r.slice.len - r.n
               /\ r.slice.len <= Len(mem[r.slice.array])
               /\ r.todo # {} => r.n < r.slice.len,
           r.pc = "encode" /\ t \notin disturbed =>
               /\ ~r.torn
               /\ \A j \in 1..Len(r.seen) : r.seen[j] = mem[r.slice.array][r.n + j]
               /\ r.slice.array = devices.array =>
                      /\ r.slice.len <= devices.len
                      /\ \A u \in Thread : threads[u].pc = "compact" =>
                             threads[u].k + 1 = threads[u].i
    PROVE  IInv'
<1>1. /\ threads' \in [Thread -> Request]
      /\ threads'[t] = r
      /\ \A u \in Thread : u # t => threads'[u] = threads[u]
  BY DEF IInv, TypeOK, Step
<1>2. /\ mem' = mem /\ devices' = devices /\ mutex' = mutex
      /\ list' = list /\ disturbed' = disturbed
  OBVIOUS
<1>3. TypeOK'
  BY <1>1, <1>2 DEF IInv, TypeOK
<1>4. Exclusive'
  BY <1>1, <1>2 DEF IInv, Exclusive, Inside
<1>5. Placed'
  BY <1>1, <1>2 DEF IInv, Placed, Inside, Encoding
<1>6. Whole'
  <2> SUFFICES ASSUME NEW u \in Thread, Undisturbed(u)'
               PROVE  /\ ~threads'[u].torn
                      /\ \A j \in 1..Len(threads'[u].seen) : threads'[u].seen[j] =
                             mem[threads'[u].slice.array][threads'[u].n + j]
                      /\ threads'[u].slice.array = devices.array =>
                             /\ threads'[u].slice.len <= devices.len
                             /\ \A w \in Thread : threads'[w].pc = "compact" =>
                                    threads'[w].k + 1 = threads'[w].i
    BY <1>2 DEF Whole
  <2>1. \A w \in Thread : threads'[w].pc = "compact" => threads'[w] = threads[w]
    BY <1>1
  <2>2. CASE u = t
    BY <1>1, <1>2, <2>1, <2>2 DEF Undisturbed, Encoding
  <2>3. CASE u # t
    BY <1>1, <1>2, <2>1, <2>3 DEF IInv, Whole, Undisturbed, Encoding
  <2>4. QED
    BY <2>2, <2>3
<1>7. Stands'
  <2>1. \A u \in Thread : threads'[u].pc \in {"compact", "append"} =>
            threads'[u] = threads[u]
    BY <1>1
  <2>2. (Free => devices.len = Len(list) /\ Holds(list))'
    BY <1>2 DEF IInv, Stands, Free, Holds
  <2>3. ASSUME NEW u \in Thread, threads'[u].pc = "compact" PROVE CompactInv(u)'
    <3>1. threads'[u] = threads[u] /\ CompactInv(u)
      BY <2>1, <2>3 DEF IInv, Stands
    <3>2. QED
      BY <1>2, <3>1 DEF CompactInv, Holds, Copied
  <2>4. ASSUME NEW u \in Thread, threads'[u].pc = "append" PROVE AppendInv(u)'
    <3>1. threads'[u] = threads[u] /\ AppendInv(u)
      BY <2>1, <2>4 DEF IInv, Stands
    <3>2. QED
      BY <1>2, <3>1 DEF AppendInv, Holds, Copied, New
  <2>5. QED
    BY <2>2, <2>3, <2>4 DEF Stands
<1>8. QED
  BY <1>3, <1>4, <1>5, <1>6, <1>7 DEF IInv

\* What an idle connection holds is a request like any other.
LEMMA NothingIsRequest ==
    ASSUME TypeOK
    PROVE  Nothing \in Request
<1>1. (CHOOSE p \in Posture : TRUE) \in Posture
  BY ThreadAssumption
<1>2. (CHOOSE a \in Array : TRUE) \in Array
  BY DEF TypeOK, Slice
<1>3. <<>> \in Seq(Cell)
  OBVIOUS
<1>4. QED
  BY <1>1, <1>2, <1>3 DEF Nothing, Request, Slice, PC

\* A request that arrives, is refused, or is closed, keeps the invariant.
LEMMA IdleKeepsInv ==
    ASSUME IInv, NEW t \in Thread,
           \/ Get(t) \/ AskLoad(t) \/ Refuse(t) \/ Close(t)
           \/ \E o \in Owner \cup {NoOwner}, p \in Posture : AskDevice(t, o, p)
    PROVE  IInv'
<1>1. threads[t] \in Request /\ Nothing \in Request
  BY NothingIsRequest DEF IInv, TypeOK
<1>2. ~Inside(t) /\ ~Encoding(t) => threads[t].todo = {}
  BY DEF IInv, Placed
<1>3. CASE Get(t)
  <2> DEFINE r == [threads[t] EXCEPT !.pc = "trace"]
  <2>1. r \in Request /\ r.pc = "trace" /\ r.todo = threads[t].todo
    BY <1>1 DEF Request, PC
  <2>2. ~Inside(t) /\ ~Encoding(t) /\ Step(t, r)
    BY <1>3 DEF Get, Goes, Inside, Encoding
  <2> HIDE DEF r
  <2>3. QED
    BY <1>2, <1>3, <2>1, <2>2, QuietStep DEF Get
<1>4. CASE AskLoad(t)
  <2> DEFINE r == [threads[t] EXCEPT !.pc = "load"]
  <2>1. r \in Request /\ r.pc = "load" /\ r.todo = threads[t].todo
    BY <1>1 DEF Request, PC
  <2>2. ~Inside(t) /\ ~Encoding(t) /\ Step(t, r)
    BY <1>4 DEF AskLoad, Goes, Inside, Encoding
  <2> HIDE DEF r
  <2>3. QED
    BY <1>2, <1>4, <2>1, <2>2, QuietStep DEF AskLoad
<1>5. CASE Refuse(t)
  <2> DEFINE r == [Nothing EXCEPT !.pc = "refused"]
  <2>1. r \in Request /\ r.pc = "refused" /\ r.todo = {}
    BY <1>1 DEF Request, PC, Nothing
  <2>2. ~Inside(t) /\ ~Encoding(t) /\ Step(t, r)
    BY <1>5 DEF Refuse, Inside, Encoding
  <2> HIDE DEF r
  <2>3. QED
    BY <1>5, <2>1, <2>2, QuietStep DEF Refuse
<1>6. CASE Close(t)
  <2>1. Nothing.pc = "idle" /\ Nothing.todo = {}
    BY DEF Nothing
  <2>2. ~Inside(t) /\ ~Encoding(t) /\ Step(t, Nothing)
    BY <1>6 DEF Close, Inside, Encoding
  <2>3. QED
    BY <1>1, <1>6, <2>1, <2>2, QuietStep DEF Close
<1>7. ASSUME NEW o \in Owner \cup {NoOwner}, NEW p \in Posture, AskDevice(t, o, p)
      PROVE  IInv'
  <2> DEFINE r == [threads[t] EXCEPT !.pc = "device", !.owner = o, !.posture = p]
  <2>1. r \in Request /\ r.pc = "device" /\ r.todo = threads[t].todo
    BY <1>1 DEF Request, PC
  <2>2. ~Inside(t) /\ ~Encoding(t) /\ Step(t, r)
    BY <1>7 DEF AskDevice, Inside, Encoding
  <2> HIDE DEF r
  <2>3. QED
    BY <1>2, <1>7, <2>1, <2>2, QuietStep DEF AskDevice
<1>8. QED
  BY <1>3, <1>4, <1>5, <1>6, <1>7

\* What Trace returns is in the cells of the slice.
LEMMA ContentsOf ==
    ASSUME TypeOK
    PROVE  /\ Contents(mem, devices) \in Seq(Cell)
           /\ Len(Contents(mem, devices)) = devices.len
           /\ \A j \in 1..devices.len :
                  Contents(mem, devices)[j] = mem[devices.array][j]
<1>1. mem[devices.array] \in Seq(Cell) /\ devices.len \in Nat
      /\ devices.len <= Len(mem[devices.array])
  BY DEF TypeOK, Slice
<1>2. QED
  BY <1>1 DEF Contents

\* A response that begins sees the list outside any compaction.
LEMMA TakeTraceKeepsInv ==
    ASSUME IInv, NEW t \in Thread, TakeTrace(t)
    PROVE  IInv'
<1>1. Nothing \in Request /\ ~Inside(t)
  BY NothingIsRequest DEF IInv, TakeTrace, Inside
<1>2. CASE t \in Followed
  <2> DEFINE r == [Nothing EXCEPT !.pc = "encode", !.slice = devices,
                                  !.seen = Contents(mem, devices)]
  <2>1. Contents(mem, devices) \in Seq(Cell) /\ devices \in Slice
    BY ContentsOf DEF IInv, TypeOK
  <2>2. /\ r \in Request /\ r.pc = "encode" /\ r.slice = devices
        /\ r.seen = Contents(mem, devices) /\ r.n = 0 /\ r.todo = {} /\ ~r.torn
    BY <1>1, <2>1 DEF Request, PC, Nothing
  <2>3. Step(t, r)
    BY <1>2 DEF TakeTrace
  <2>4. \A u \in Thread : threads[u].pc # "compact"
    BY DEF TakeTrace, Free, IInv, Exclusive, Inside
  <2>5. /\ devices.len \in Nat /\ devices.len <= Len(mem[devices.array])
        /\ Len(r.seen) = devices.len
        /\ \A j \in 1..Len(r.seen) : r.seen[j] = mem[devices.array][j]
    BY <2>2, ContentsOf DEF IInv, TypeOK, Slice
  <2> HIDE DEF r
  <2>6. /\ r.n <= r.slice.len
        /\ Len(r.seen) = r.slice.len - r.n
        /\ r.slice.len <= Len(mem[r.slice.array])
        /\ \A j \in 1..Len(r.seen) : r.seen[j] = mem[r.slice.array][r.n + j]
    BY <2>2, <2>5
  <2>7. r.slice.len <= devices.len
    BY <2>2, <2>5
  <2>8. UNCHANGED <<mem, devices, mutex, list, disturbed>>
    BY DEF TakeTrace
  <2>9. r.pc \notin {"compact", "append"} /\ (r.pc # "encode" => r.todo = {})
    BY <2>2
  <2>10. QED
    BY <1>1, <1>2, <2>2, <2>3, <2>4, <2>6, <2>7, <2>8, <2>9, QuietStep
<1>3. CASE t \notin Followed
  <2> DEFINE r == [Nothing EXCEPT !.pc = "sent"]
  <2>1. r \in Request /\ r.pc = "sent" /\ r.todo = {}
    BY <1>1 DEF Request, PC, Nothing
  <2>2. Step(t, r)
    BY <1>3 DEF TakeTrace
  <2> HIDE DEF r
  <2>3. QED
    BY <1>1, <2>1, <2>2, QuietStep DEF TakeTrace
<1>4. QED
  BY <1>2, <1>3

\* A step of an encoder compares the next field with what was seen.
LEMMA EncodeKeepsInv ==
    ASSUME IInv, NEW t \in Thread, EncodeOwner(t) \/ EncodePosture(t)
    PROVE  IInv'
<1> DEFINE q == threads[t]
<1>1. q \in Request /\ q.pc = "encode" /\ ~Inside(t) /\ Encoding(t)
  BY DEF IInv, TypeOK, EncodeOwner, EncodePosture, Inside, Encoding
<1>2. /\ t \in Followed /\ q.n <= q.slice.len
      /\ Len(q.seen) = q.slice.len - q.n
      /\ q.slice.len <= Len(mem[q.slice.array])
      /\ q.todo # {} => q.n < q.slice.len
  BY <1>1 DEF IInv, Placed
<1>3. /\ q.n \in Nat /\ q.slice.len \in Nat /\ q.seen \in Seq(Cell)
      /\ q.torn \in BOOLEAN
  BY <1>1 DEF Request, Slice
<1>4. q.n < q.slice.len /\ Len(q.seen) > 0
  BY <1>2, <1>3 DEF EncodeOwner, EncodePosture
<1>5. t \notin disturbed =>
         /\ ~q.torn
         /\ \A j \in 1..Len(q.seen) : q.seen[j] = mem[q.slice.array][q.n + j]
         /\ q.slice.array = devices.array =>
                /\ q.slice.len <= devices.len
                /\ \A u \in Thread : threads[u].pc = "compact" =>
                       threads[u].k + 1 = threads[u].i
  BY <1>1 DEF IInv, Whole, Undisturbed
<1>6. t \notin disturbed => q.seen[1] = mem[q.slice.array][q.n + 1]
  BY <1>3, <1>4, <1>5
<1>7. CASE EncodeOwner(t)
  <2> DEFINE b == q.torn \/ mem[q.slice.array][q.n + 1].owner # q.seen[1].owner
             r == [q EXCEPT !.todo = {"posture"}, !.torn = b]
  <2>1. b \in BOOLEAN /\ (t \notin disturbed => ~b)
    BY <1>3, <1>5, <1>6
  <2>2. Step(t, r)
    BY <1>7 DEF EncodeOwner
  <2> HIDE DEF b
  <2>3. /\ r \in Request /\ r.pc = "encode" /\ r.slice = q.slice /\ r.n = q.n
        /\ r.seen = q.seen /\ r.torn = b
    BY <1>1, <2>1 DEF Request, Field
  <2> HIDE DEF r
  <2>4. QED
    BY <1>1, <1>2, <1>4, <1>5, <1>7, <2>1, <2>2, <2>3, QuietStep DEF EncodeOwner
<1>8. CASE EncodePosture(t)
  <2> DEFINE b == q.torn \/ mem[q.slice.array][q.n + 1].posture # q.seen[1].posture
             r == [q EXCEPT !.todo = {}, !.n = q.n + 1, !.seen = Tail(q.seen), !.torn = b]
  <2>1. b \in BOOLEAN /\ (t \notin disturbed => ~b)
    BY <1>3, <1>5, <1>6
  <2>2. Step(t, r)
    BY <1>8 DEF EncodePosture
  <2>3. /\ Tail(q.seen) \in Seq(Cell) /\ Len(Tail(q.seen)) = Len(q.seen) - 1
        /\ \A j \in 1..(Len(q.seen) - 1) : Tail(q.seen)[j] = q.seen[j + 1]
    BY <1>3, <1>4
  <2> HIDE DEF b
  <2>4. /\ r \in Request /\ r.pc = "encode" /\ r.slice = q.slice /\ r.n = q.n + 1
        /\ r.seen = Tail(q.seen) /\ r.torn = b /\ r.todo = {}
    <3>1. q.n + 1 \in Nat /\ Tail(q.seen) \in Seq(Cell) /\ b \in BOOLEAN
      BY <1>3, <2>1, <2>3
    <3>2. QED
      BY <1>1, <3>1 DEF Request
  <2> HIDE DEF r
  <2>5. /\ r.n <= r.slice.len
        /\ Len(r.seen) = r.slice.len - r.n
        /\ r.slice.len <= Len(mem[r.slice.array])
    <3>1. Len(q.seen) - 1 = q.slice.len - (q.n + 1) /\ q.n + 1 <= q.slice.len
      BY <1>2, <1>3, <1>4
    <3>2. QED
      BY <1>2, <2>3, <2>4, <3>1
  <2>6. t \notin disturbed =>
            \A j \in 1..Len(r.seen) : r.seen[j] = mem[r.slice.array][r.n + j]
    <3> SUFFICES ASSUME t \notin disturbed, NEW j \in 1..(Len(q.seen) - 1)
                 PROVE  Tail(q.seen)[j] = mem[q.slice.array][(q.n + 1) + j]
      BY <2>3, <2>4
    <3>1. q.seen[j + 1] = mem[q.slice.array][q.n + (j + 1)]
      BY <1>3, <1>5
    <3>2. q.n + (j + 1) = (q.n + 1) + j
      BY <1>3
    <3>3. QED
      BY <2>3, <3>1, <3>2
  <2>7. QED
    BY <1>1, <1>2, <1>5, <1>8, <2>1, <2>2, <2>4, <2>5, <2>6, QuietStep DEF EncodePosture
<1>9. QED
  BY <1>7, <1>8

\* What a step of one thread makes of the threads.
LEMMA StepThreads ==
    ASSUME TypeOK, NEW t \in Thread, NEW r \in Request, Step(t, r)
    PROVE  /\ threads' \in [Thread -> Request]
           /\ threads'[t] = r
           /\ \A u \in Thread : u # t => threads'[u] = threads[u]
  BY DEF TypeOK, Step

\* Outside the Runner nobody is in the middle of a compaction or an append.
LEMMA FreeIsQuiet ==
    ASSUME Exclusive, Free
    PROVE  \A u \in Thread : ~Inside(u)
  BY DEF Exclusive, Free

\* The compaction starts with nothing kept, and the list in place.
LEMMA EnterKeepsInv ==
    ASSUME IInv, NEW t \in Thread, Enter(t)
    PROVE  IInv'
<1> DEFINE r == [threads[t] EXCEPT !.pc = "compact", !.i = 1, !.k = 0]
<1>1. /\ mem' = mem /\ devices' = devices /\ mutex' = {t}
      /\ list' = list /\ disturbed' = disturbed
  BY DEF Enter
<1>2. threads[t] \in Request /\ threads[t].owner \in Owner /\ Step(t, r)
  BY DEF IInv, TypeOK, Enter, Request
<1>3. ~Encoding(t) /\ \A u \in Thread : ~Inside(u)
  BY FreeIsQuiet DEF IInv, Enter, Encoding
<1>4. threads[t].todo = {}
  BY <1>3 DEF IInv, Placed
<1>5. /\ r \in Request /\ r.pc = "compact" /\ r.i = 1 /\ r.k = 0 /\ r.todo = {}
      /\ r.owner \in Owner
  BY <1>2, <1>4 DEF Request, PC
<1> HIDE DEF r
<1>6. /\ threads' \in [Thread -> Request]
      /\ threads'[t] = r
      /\ \A u \in Thread : u # t => threads'[u] = threads[u]
  BY <1>2, <1>5, StepThreads DEF IInv
<1>7. TypeOK'
  BY <1>1, <1>6 DEF IInv, TypeOK
<1>8. Exclusive'
  BY <1>1, <1>3, <1>5, <1>6 DEF Exclusive, Inside
<1>9. Placed'
  BY <1>1, <1>3, <1>5, <1>6 DEF IInv, Placed, Inside, Encoding
<1>10. Whole'
  <2>1. \A u \in Thread : Undisturbed(u)' => u # t /\ Undisturbed(u)
    BY <1>1, <1>5, <1>6 DEF Undisturbed, Encoding
  <2>2. \A u \in Thread : threads'[u].pc = "compact" =>
            threads'[u].k + 1 = threads'[u].i
    BY <1>3, <1>5, <1>6 DEF Inside
  <2>3. QED
    BY <1>1, <1>6, <2>1, <2>2 DEF IInv, Whole
<1>11. Stands'
  <2>1. devices.len = Len(list) /\ Holds(list) /\ list \in Seq(Entry)
        /\ devices.len \in Nat
    BY DEF IInv, Stands, Enter, TypeOK, Slice
  <2>2. Device!Others(list, r.owner)[0] = <<>>
    BY <2>1, OthersRecursion
  <2>3. CompactInv(t)'
    <3>1. \A j \in 1..devices.len : mem[devices.array][j] = list[j]
      BY <2>1 DEF Holds
    <3>2. Device!Others(list, r.owner)[r.i - 1] = <<>>
      BY <1>5, <2>2
    <3>3. QED
      BY <1>1, <1>5, <1>6, <2>1, <3>1, <3>2 DEF CompactInv, Holds, Copied
  <2>4. \A u \in Thread : Inside(u)' => u = t
    BY <1>3, <1>6 DEF Inside
  <2>5. ~Free'
    BY <1>1 DEF Free
  <2>6. QED
    BY <1>5, <1>6, <2>3, <2>4, <2>5 DEF Stands, Inside
<1>12. QED
  BY <1>7, <1>8, <1>9, <1>10, <1>11 DEF IInv

\* Dropping a device: those after it will move, so every response on that array
\* counts as disturbed from now on.
LEMMA DropKeepsInv ==
    ASSUME IInv, NEW t \in Thread, Drop(t)
    PROVE  IInv'
<1> DEFINE q == threads[t]
           r == [q EXCEPT !.i = q.i + 1]
<1>1. /\ mem' = mem /\ devices' = devices /\ mutex' = mutex /\ list' = list
      /\ disturbed' = disturbed \cup
             {u \in Thread : Encoding(u) /\ threads[u].slice.array = devices.array}
  BY DEF Drop, Encoding
<1>2. q \in Request /\ q.pc = "compact" /\ q.todo = {} /\ q.i \in Nat /\ Step(t, r)
  BY DEF IInv, TypeOK, Drop, Compacting, Request
<1>3. /\ r \in Request /\ r.pc = "compact" /\ r.i = q.i + 1 /\ r.k = q.k /\ r.todo = {}
      /\ r.owner = q.owner
  BY <1>2 DEF Request
<1> HIDE DEF r
<1>4. /\ threads' \in [Thread -> Request]
      /\ threads'[t] = r
      /\ \A u \in Thread : u # t => threads'[u] = threads[u]
  BY <1>2, <1>3, StepThreads DEF IInv
<1>5. TypeOK'
  BY <1>1, <1>4 DEF IInv, TypeOK
<1>6. Exclusive'
  BY <1>1, <1>2, <1>3, <1>4 DEF IInv, Exclusive, Inside
<1>7. Placed'
  BY <1>1, <1>2, <1>3, <1>4 DEF IInv, Placed, Inside, Encoding
<1>8. Whole'
  <2>1. \A u \in Thread : Undisturbed(u)' =>
            u # t /\ Undisturbed(u) /\ threads[u].slice.array # devices.array
    BY <1>1, <1>3, <1>4 DEF Undisturbed, Encoding
  <2>2. QED
    BY <1>1, <1>4, <2>1 DEF IInv, Whole
<1>9. Stands'
  <2>1. CompactInv(t)
    BY <1>2 DEF IInv, Stands
  <2>2. q.i \in 1..devices.len /\ devices.len = Len(list) /\ devices.len \in Nat
        /\ list \in Seq(Entry) /\ q.k \in Nat
    BY <1>2, <2>1 DEF Drop, Compacting, CompactInv, IInv, TypeOK, Slice, Request
  <2>3. list[q.i].owner = q.owner
    <3>1. mem[devices.array][q.i] = list[q.i]
      BY <2>1, <2>2 DEF CompactInv
    <3>2. QED
      BY <3>1 DEF Drop, Reading
  <2>4. Device!Others(list, q.owner)[q.i] = Device!Others(list, q.owner)[q.i - 1]
    BY <2>2, <2>3, OthersRecursion
  <2>5. CompactInv(t)'
    <3>1. r.i - 1 = q.i /\ r.i \in 1..(devices.len + 1) /\ r.k < r.i
      BY <1>2, <1>3, <2>1, <2>2 DEF CompactInv
    <3>2. \A j \in r.i..devices.len : mem[devices.array][j] = list[j]
      BY <1>2, <1>3, <2>1, <2>2 DEF CompactInv
    <3>3. Len(Device!Others(list, r.owner)[r.i - 1]) = r.k
          /\ Holds(Device!Others(list, r.owner)[r.i - 1]) /\ r.owner \in Owner
      BY <1>3, <2>1, <2>4, <3>1 DEF CompactInv
    <3>4. QED
      BY <1>1, <1>3, <1>4, <2>2, <3>1, <3>2, <3>3 DEF CompactInv, Holds, Copied
  <2>6. \A u \in Thread : Inside(u)' => u = t
    BY <1>2, <1>4 DEF Inside, IInv, Exclusive
  <2>7. ~Free'
    BY <1>1, <1>2 DEF Free, Inside, IInv, Exclusive
  <2>8. QED
    BY <1>3, <1>4, <2>5, <2>6, <2>7 DEF Stands, Inside
<1>10. QED
  BY <1>5, <1>6, <1>7, <1>8, <1>9 DEF IInv

\* An answer that is sent frees its array, if nothing else refers to it.
LEMMA SendKeepsInv ==
    ASSUME IInv, NEW t \in Thread, Send(t)
    PROVE  IInv'
<1> DEFINE r == [Nothing EXCEPT !.pc = "sent"]
<1>1. /\ mem' = Collected(mem) /\ devices' = devices /\ mutex' = mutex
      /\ list' = list /\ disturbed' = disturbed \ {t}
      /\ threads[t].pc = "encode"
  BY DEF Send, Encoded
<1>2. r \in Request /\ r.pc = "sent" /\ r.todo = {} /\ Step(t, r)
  BY NothingIsRequest DEF Send, Nothing, Request, PC, IInv
<1> HIDE DEF r
<1>3. /\ threads' \in [Thread -> Request]
      /\ threads'[t] = r
      /\ \A u \in Thread : u # t => threads'[u] = threads[u]
  BY <1>2, StepThreads DEF IInv
<1>4. /\ devices.array \in Array
      /\ \A u \in Thread : threads[u].slice.array \in Array
  BY DEF IInv, TypeOK, Request, Slice
<1>5. /\ mem' \in [Array -> Seq(Cell)]
      /\ mem'[devices.array] = mem[devices.array]
      /\ \A u \in Thread : Encoding(u)' =>
             /\ u # t /\ Encoding(u)
             /\ mem'[threads[u].slice.array] = mem[threads[u].slice.array]
  <2>1. \A a \in Array : a \in Referred(devices', threads') => mem'[a] = mem[a]
    BY <1>1 DEF Collected
  <2>2. mem' \in [Array -> Seq(Cell)]
    BY <1>1 DEF Collected, IInv, TypeOK
  <2>3. devices.array \in Referred(devices', threads')
    BY <1>1 DEF Referred
  <2>4. ASSUME NEW u \in Thread, Encoding(u)'
        PROVE  u # t /\ Encoding(u) /\ threads[u].slice.array \in Referred(devices', threads')
    <3>1. u # t /\ threads'[u] = threads[u]
      BY <1>2, <1>3, <2>4 DEF Encoding
    <3>2. QED
      BY <2>4, <3>1 DEF Encoding, Referred
  <2>5. QED
    BY <1>4, <2>1, <2>2, <2>3, <2>4
<1>6. TypeOK'
  BY <1>1, <1>3, <1>5 DEF IInv, TypeOK
<1>7. Exclusive'
  BY <1>1, <1>2, <1>3 DEF IInv, Exclusive, Inside
<1>8. Placed'
  <2>1. ASSUME NEW u \in Thread, Encoding(u)'
        PROVE  /\ u \in Followed
               /\ threads'[u].n <= threads'[u].slice.len
               /\ Len(threads'[u].seen) = threads'[u].slice.len - threads'[u].n
               /\ threads'[u].slice.len <= Len(mem'[threads'[u].slice.array])
               /\ threads'[u].todo # {} => threads'[u].n < threads'[u].slice.len
    BY <1>3, <1>5, <2>1 DEF IInv, Placed
  <2>2. ASSUME NEW u \in Thread, ~Encoding(u)', ~Inside(u)'
        PROVE  threads'[u].todo = {}
    BY <1>2, <1>3, <2>2 DEF IInv, Placed, Encoding, Inside
  <2>3. QED
    BY <2>1, <2>2 DEF Placed
<1>9. Whole'
  <2>1. ASSUME NEW u \in Thread, Undisturbed(u)'
        PROVE  /\ Undisturbed(u) /\ threads'[u] = threads[u]
               /\ mem'[threads[u].slice.array] = mem[threads[u].slice.array]
    BY <1>1, <1>3, <1>5, <2>1 DEF Undisturbed
  <2>2. \A u \in Thread : threads'[u].pc = "compact" => threads'[u] = threads[u]
    BY <1>2, <1>3
  <2>3. QED
    BY <1>1, <2>1, <2>2 DEF IInv, Whole
<1>10. Stands'
  <2>1. (Free => devices.len = Len(list) /\ Holds(list))'
    BY <1>1, <1>5 DEF IInv, Stands, Free, Holds
  <2>2. \A u \in Thread : Inside(u)' => u # t /\ threads'[u] = threads[u]
    BY <1>2, <1>3 DEF Inside
  <2>3. ASSUME NEW u \in Thread, threads'[u].pc = "compact" PROVE CompactInv(u)'
    <3>1. threads'[u] = threads[u] /\ CompactInv(u)
      BY <2>2, <2>3 DEF IInv, Stands, Inside
    <3>2. QED
      BY <1>1, <1>5, <3>1 DEF CompactInv, Holds, Copied
  <2>4. ASSUME NEW u \in Thread, threads'[u].pc = "append" PROVE AppendInv(u)'
    <3>1. threads'[u] = threads[u] /\ AppendInv(u)
      BY <2>2, <2>4 DEF IInv, Stands, Inside
    <3>2. QED
      BY <1>1, <1>5, <3>1 DEF AppendInv, Holds, Copied, New
  <2>5. QED
    BY <2>1, <2>3, <2>4 DEF Stands
<1>11. QED
  BY <1>6, <1>7, <1>8, <1>9, <1>10 DEF IInv

\* The compaction ends: every cell of the list was read.
LEMMA KeptKeepsInv ==
    ASSUME IInv, NEW t \in Thread, Kept(t)
    PROVE  IInv'
<1> DEFINE q == threads[t]
           r == [q EXCEPT !.pc = "append"]
<1>1. /\ mem' = mem /\ mutex' = mutex /\ list' = list /\ disturbed' = disturbed
      /\ devices' = [devices EXCEPT !.len = q.k]
      /\ q.pc = "compact" /\ q.i > devices.len /\ Step(t, r)
  BY DEF Kept, Goes
<1>2. q \in Request /\ q.i \in Nat /\ q.k \in Nat
  BY DEF IInv, TypeOK, Request
<1>3. r \in Request /\ r = [q EXCEPT !.pc = "append"] /\ r.pc = "append"
      /\ r.owner = q.owner /\ r.todo = q.todo
  BY <1>2 DEF Request, PC
<1> HIDE DEF r
<1>4. /\ threads' \in [Thread -> Request]
      /\ threads'[t] = r
      /\ \A u \in Thread : u # t => threads'[u] = threads[u]
  BY <1>1, <1>3, StepThreads DEF IInv
<1>5. /\ devices \in Slice /\ devices.len \in Nat
      /\ devices' \in Slice /\ devices'.len = q.k /\ devices'.array = devices.array
  BY <1>1, <1>2 DEF IInv, TypeOK, Slice
<1>6. CompactInv(t)
  BY <1>1 DEF IInv, Stands
<1>7. /\ q.owner \in Owner /\ q.i = devices.len + 1 /\ devices.len = Len(list)
      /\ q.k <= devices.len /\ q.todo = {}
  BY <1>1, <1>2, <1>5, <1>6 DEF CompactInv
<1>8. TypeOK'
  <2>1. q.k <= Len(mem[devices.array])
    BY <1>2, <1>5, <1>7 DEF IInv, TypeOK
  <2>2. QED
    BY <1>1, <1>4, <1>5, <2>1 DEF IInv, TypeOK
<1>9. Exclusive'
  BY <1>1, <1>3, <1>4 DEF IInv, Exclusive, Inside
<1>10. Placed'
  BY <1>1, <1>3, <1>4 DEF IInv, Placed, Inside, Encoding
<1>11. Whole'
  <2>1. ASSUME NEW u \in Thread, Undisturbed(u)'
        PROVE  Undisturbed(u) /\ threads'[u] = threads[u] /\ u # t
    BY <1>1, <1>3, <1>4, <2>1 DEF Undisturbed, Encoding
  <2>2. ASSUME NEW u \in Thread PROVE threads'[u].pc # "compact"
    <3>1. Inside(t) /\ (Inside(u) => u = t)
      BY <1>1 DEF IInv, Exclusive, Inside
    <3>2. QED
      BY <1>3, <1>4, <3>1 DEF Inside
  <2>3. ASSUME NEW u \in Thread, Undisturbed(u), threads[u].slice.array = devices.array
        PROVE  threads[u].slice.len <= q.k
    <3>1. threads[u].slice.len <= devices.len /\ q.k + 1 = q.i
      BY <1>1, <2>3 DEF IInv, Whole
    <3>2. QED
      BY <1>2, <1>5, <1>7, <3>1
  <2>4. QED
    BY <1>1, <1>5, <2>1, <2>2, <2>3 DEF IInv, Whole
<1>12. Stands'
  <2>1. AppendInv(t)'
    <3>1. q.i - 1 = Len(list)
      BY <1>2, <1>5, <1>7
    <3>2. Len(Device!Others(list, r.owner)[Len(list)]) = q.k
          /\ Holds(Device!Others(list, r.owner)[Len(list)])
      BY <1>3, <1>6, <3>1 DEF CompactInv
    <3>3. QED
      BY <1>1, <1>3, <1>4, <1>5, <1>7, <3>2 DEF AppendInv, Holds, Copied
  <2>2. \A u \in Thread : Inside(u)' => u = t
    BY <1>1, <1>4 DEF Inside, IInv, Exclusive
  <2>3. ~Free'
    BY <1>1 DEF Free, Inside, IInv, Exclusive
  <2>4. QED
    BY <1>3, <1>4, <2>1, <2>2, <2>3 DEF Stands, Inside
<1>13. QED
  BY <1>8, <1>9, <1>10, <1>11, <1>12 DEF IInv

\* What is left to copy of a cell, whether or not its copy has begun.
LEMMA LeftFields ==
    ASSUME TypeOK, NEW t \in Thread, NEW f \in Left(t)
    PROVE  /\ f \in Field
           /\ Left(t) \ {f} \in SUBSET Field
           /\ \A g \in Field : g \notin Left(t) =>
                  threads[t].todo # {} /\ g \in Field \ threads[t].todo
           /\ Last(t, f) => \A g \in Field \ {f} : g \notin Left(t)
           /\ ~Last(t, f) => Left(t) \ {f} # {}
  BY DEF TypeOK, Request, Left, Last

\* Keeping a device copies a cell to the front of those read, field by field.  The
\* cells still to be read stay what they were, and so does everything in the way
\* of a response, as long as nothing was dropped.
LEMMA KeepKeepsInv ==
    ASSUME IInv, NEW t \in Thread, Keep(t)
    PROVE  IInv'
<1> DEFINE q == threads[t]
           a == devices.array
           c == q.k + 1
           d == mem[a][q.i]
<1>1. PICK f \in Field :
          /\ Write(t, c, d, f)
          /\ Step(t, IF Last(t, f)
                     THEN [q EXCEPT !.todo = {}, !.i = q.i + 1, !.k = q.k + 1]
                     ELSE [q EXCEPT !.todo = Left(t) \ {f}])
  BY DEF Keep, Reading
<1> DEFINE r == IF Last(t, f)
                THEN [q EXCEPT !.todo = {}, !.i = q.i + 1, !.k = q.k + 1]
                ELSE [q EXCEPT !.todo = Left(t) \ {f}]
<1>2. /\ devices' = devices /\ mutex' = mutex /\ list' = list
      /\ disturbed' = disturbed /\ q.pc = "compact" /\ q.i <= devices.len
  BY DEF Keep, Compacting
<1>3. /\ q \in Request /\ q.i \in Nat /\ q.k \in Nat /\ devices.len \in Nat
      /\ a \in Array /\ mem[a] \in Seq(Cell) /\ devices.len <= Len(mem[a])
      /\ list \in Seq(Entry) /\ q.todo \in SUBSET Field
  BY DEF IInv, TypeOK, Request, Slice
<1>4. CompactInv(t)
  BY <1>2 DEF IInv, Stands
<1>5. /\ q.i \in 1..devices.len /\ devices.len = Len(list)
      /\ q.i \in 1..Len(mem[a]) /\ c \in 1..q.i /\ c \in 1..Len(mem[a]) /\ d \in Cell
      /\ c = q.k + 1 /\ d = mem[a][q.i]
  <2>1. q.i >= 1 /\ q.k < q.i /\ devices.len = Len(list)
    BY <1>3, <1>4 DEF CompactInv
  <2>2. q.i \in 1..Len(mem[a])
    BY <1>2, <1>3, <2>1
  <2>3. d \in Cell
    BY <1>3, <2>2
  <2>4. QED
    BY <1>2, <1>3, <2>1, <2>2, <2>3
<1>6. d = list[q.i] /\ list[q.i].owner # q.owner
  <2>1. d = list[q.i]
    <3>1. q.i \in q.i..devices.len
      BY <1>3, <1>5
    <3>2. QED
      BY <1>4, <1>5, <3>1 DEF CompactInv
  <2>2. QED
    BY <1>4, <2>1 DEF CompactInv, Keep, Reading
<1>7. f \in Left(t)
  BY <1>1 DEF Write
<1> DEFINE Effect ==
           /\ mem' \in [Array -> Seq(Cell)]
           /\ \A b \in Array : Len(mem'[b]) = Len(mem[b])
           /\ \A b \in Array : b # a => mem'[b] = mem[b]
           /\ \A j \in 1..Len(mem[a]) : j # c => mem'[a][j] = mem[a][j]
           /\ mem'[a][c][f] = d[f]
           /\ \A g \in Field \ {f} : mem'[a][c][g] = mem[a][c][g]
<1> HIDE DEF c, d
<1>8. Effect
  <2>1. /\ TypeOK /\ Write(t, c, d, f) /\ c \in 1..Len(mem[devices.array])
        /\ d \in Cell /\ f \in Field /\ t \in Thread
    BY <1>1, <1>5 DEF IInv
  <2>2. mem' \in [Array -> Seq(Cell)]
    BY <2>1, WriteEffect
  <2>3. \A b \in Array : Len(mem'[b]) = Len(mem[b])
    BY <2>1, WriteEffect
  <2>4. \A b \in Array : b # a => mem'[b] = mem[b]
    BY <2>1, WriteEffect
  <2>5. \A j \in 1..Len(mem[a]) : j # c => mem'[a][j] = mem[a][j]
    BY <2>1, WriteEffect
  <2>6. mem'[a][c][f] = d[f]
    BY <2>1, WriteEffect
  <2>7. \A g \in Field \ {f} : mem'[a][c][g] = mem[a][c][g]
    BY <2>1, WriteEffect
  <2>8. QED
    BY <2>2, <2>3, <2>4, <2>5, <2>6, <2>7
<1>9. mem'[a][c] \in Cell
  BY <1>3, <1>5, <1>8
<1>10. c = q.i => mem'[a][c] = mem[a][c]
  <2> SUFFICES ASSUME c = q.i PROVE \A g \in Field : mem'[a][c][g] = mem[a][c][g]
    BY <1>5, <1>9, CellFields
  <2>1. QED
    BY <1>5, <1>8
<1>11. \A j \in q.i..devices.len : mem'[a][j] = mem[a][j]
  <2> TAKE j \in q.i..devices.len
  <2>1. j \in 1..Len(mem[a]) /\ (j = c => c = q.i)
    BY <1>3, <1>5
  <2>2. QED
    BY <1>8, <1>10, <2>1
<1>12. c = q.i => mem'[a] = mem[a]
  <2> SUFFICES ASSUME c = q.i PROVE \A j \in 1..Len(mem[a]) : mem'[a][j] = mem[a][j]
    <3>1. mem'[a] \in Seq(Cell) /\ Len(mem'[a]) = Len(mem[a])
      BY <1>3, <1>8
    <3> HIDE DEF Effect
    <3>2. QED
      BY <1>3, <3>1
  <2>1. QED
    BY <1>8, <1>10
<1>13. r \in Request /\ r.pc = "compact" /\ r.owner = q.owner
       /\ (Last(t, f) => r.todo = {} /\ r.i = q.i + 1 /\ r.k = q.k + 1)
       /\ (~Last(t, f) => r.todo = Left(t) \ {f} /\ r.i = q.i /\ r.k = q.k)
  <2>1. Left(t) \ {f} \in SUBSET Field
    BY <1>7, LeftFields DEF IInv
  <2>2. CASE Last(t, f)
    <3>1. q.i + 1 \in Nat /\ q.k + 1 \in Nat
      BY <1>3
    <3>2. QED
      BY <1>2, <1>3, <2>2, <3>1 DEF Request
  <2>3. CASE ~Last(t, f)
    BY <1>2, <1>3, <2>1, <2>3 DEF Request
  <2>4. QED
    BY <2>2, <2>3
<1>14. Step(t, r)
  BY <1>1
<1> HIDE DEF r, Effect
<1>15. /\ threads' \in [Thread -> Request]
       /\ threads'[t] = r
       /\ \A u \in Thread : u # t => threads'[u] = threads[u]
  BY <1>13, <1>14, StepThreads DEF IInv
<1>16. TypeOK'
  BY <1>2, <1>8, <1>15 DEF IInv, TypeOK, Effect, Slice
<1>17. Exclusive'
  BY <1>2, <1>13, <1>15 DEF IInv, Exclusive, Inside
<1>18. Placed'
  <2>1. \A u \in Thread : threads[u].slice.array \in Array
    BY DEF IInv, TypeOK, Request, Slice
  <2>2. ASSUME NEW u \in Thread, u # t
        PROVE  Len(mem'[threads[u].slice.array]) = Len(mem[threads[u].slice.array])
    BY <1>8, <2>1 DEF Effect
  <2>3. QED
    BY <1>2, <1>13, <1>15, <2>2 DEF IInv, Placed, Inside, Encoding
<1>19. Whole'
  <2>1. ASSUME NEW u \in Thread, Undisturbed(u)'
        PROVE  /\ Undisturbed(u) /\ threads'[u] = threads[u]
               /\ mem'[threads[u].slice.array] = mem[threads[u].slice.array]
    <3>1. u # t /\ threads'[u] = threads[u] /\ Undisturbed(u)
      BY <1>2, <1>13, <1>15, <2>1 DEF Undisturbed, Encoding
    <3>2. CASE threads[u].slice.array = a
      <4>1. c = q.i
        BY <1>2, <1>5, <3>1, <3>2 DEF IInv, Whole
      <4>2. QED
        BY <1>12, <3>1, <3>2, <4>1
    <3>3. CASE threads[u].slice.array # a
      <4>1. threads[u].slice.array \in Array
        BY DEF IInv, TypeOK, Request, Slice
      <4>2. QED
        BY <1>8, <3>1, <3>3, <4>1 DEF Effect
    <3>4. QED
      BY <3>2, <3>3
  <2>2. ASSUME NEW u \in Thread, Undisturbed(u), threads[u].slice.array = a,
               NEW w \in Thread, threads'[w].pc = "compact"
        PROVE  threads'[w].k + 1 = threads'[w].i
    <3>1. c = q.i
      BY <1>2, <1>5, <2>2 DEF IInv, Whole
    <3>2. w = t
      BY <1>2, <1>15, <2>2 DEF IInv, Exclusive, Inside
    <3>3. r.k + 1 = r.i
      BY <1>3, <1>5, <1>13, <3>1
    <3>4. QED
      BY <1>15, <3>2, <3>3
  <2>3. QED
    BY <1>2, <2>1, <2>2 DEF IInv, Whole
<1>20. Stands'
  <2> DEFINE front == Device!Others(list, q.owner)[q.i - 1]
  <2>1. /\ q.owner \in Owner /\ Len(front) = q.k
        /\ \A j \in 1..q.k : mem[a][j] = front[j]
        /\ \A j \in q.i..devices.len : mem[a][j] = list[j]
        /\ q.todo # {} => \A g \in Field \ q.todo : mem[a][c][g] = list[q.i][g]
    BY <1>4, <1>5 DEF CompactInv, Holds, Copied
  <2> HIDE DEF front
  <2>2. \A j \in 1..q.k : mem'[a][j] = front[j]
    <3> TAKE j \in 1..q.k
    <3>1. j \in 1..Len(mem[a]) /\ j # c
      BY <1>3, <1>5
    <3>2. QED
      BY <1>8, <2>1, <3>1 DEF Effect
  <2>3. \A j \in q.i..devices.len : mem'[a][j] = list[j]
    BY <1>11, <2>1
  <2>4. \A g \in Field : g \notin Left(t) \/ g = f => mem'[a][c][g] = list[q.i][g]
    <3>1. mem'[a][c][f] = list[q.i][f]
      BY <1>6, <1>8 DEF Effect
    <3>2. ASSUME NEW g \in Field, g \notin Left(t)
          PROVE  mem'[a][c][g] = list[q.i][g]
      <4>1. q.todo # {} /\ g \in Field \ q.todo /\ g # f
        BY <1>7, <3>2, LeftFields DEF IInv
      <4>2. QED
        BY <1>8, <2>1, <4>1 DEF Effect
    <3>3. QED
      BY <3>1, <3>2
  <2>5. ASSUME Last(t, f) PROVE CompactInv(t)'
    <3>1. \A g \in Field : mem'[a][c][g] = list[q.i][g]
      BY <1>7, <2>4, <2>5, LeftFields DEF IInv
    <3>2. list[q.i] \in Cell
      BY <1>5, <1>6
    <3>3. mem'[a][c] = list[q.i]
      BY <1>9, <3>1, <3>2, CellFields
    <3> DEFINE front2 == Device!Others(list, q.owner)[q.i]
    <3>4. front2 = Append(front, list[q.i]) /\ front \in Seq(Entry)
          /\ list[q.i] \in Entry
      <4>1. q.i \in 1..Len(list)
        BY <1>5
      <4>2. Device!Others(list, q.owner) \in [0..Len(list) -> Seq(Entry)]
        BY <1>3, OthersRecursion
      <4>4. Device!Others(list, q.owner)[q.i] =
               IF list[q.i].owner = q.owner THEN Device!Others(list, q.owner)[q.i - 1]
               ELSE Append(Device!Others(list, q.owner)[q.i - 1], list[q.i])
        BY <1>3, <4>1, OthersRecursion
      <4>5. front2 = Append(front, list[q.i])
        BY <1>6, <4>4 DEF front
      <4>3. q.i - 1 \in 0..Len(list)
        BY <1>3, <4>1
      <4>6. QED
        BY <1>3, <4>1, <4>2, <4>3, <4>5 DEF front
    <3>5. /\ Len(front2) = q.k + 1
          /\ \A j \in 1..q.k : front2[j] = front[j]
          /\ front2[q.k + 1] = list[q.i]
      BY <2>1, <3>4
    <3>6. \A j \in 1..Len(front2) : mem'[a][j] = front2[j]
      <4> HIDE DEF front2
      <4> TAKE j \in 1..Len(front2)
      <4>1. j \in 1..q.k \/ j = c
        BY <1>3, <1>5, <3>5
      <4>2. QED
        BY <1>5, <2>2, <3>3, <3>5, <4>1
    <3>7. r.i - 1 = q.i /\ r.i \in 1..(devices.len + 1) /\ r.k < r.i
      <4>1. r.i = q.i + 1 /\ r.k = q.k + 1
        BY <1>13, <2>5
      <4>2. QED
        BY <1>3, <1>5, <4>1
    <3>8. \A j \in r.i..devices.len : mem'[a][j] = list[j]
      BY <1>3, <1>13, <2>3, <2>5
    <3> HIDE DEF front2
    <3>9. r.owner \in Owner /\ Device!Others(list, r.owner)[r.i - 1] = front2
          /\ Len(front2) = r.k /\ r.todo = {}
      BY <1>13, <2>1, <2>5, <3>5, <3>7 DEF front2
    <3>10. QED
      BY <1>2, <1>5, <1>15, <3>6, <3>7, <3>8, <3>9 DEF CompactInv, Holds, Copied
  <2>6. ASSUME ~Last(t, f) PROVE CompactInv(t)'
    <3>1. \A g \in Field \ r.todo : mem'[a][c][g] = list[q.i][g]
      BY <1>13, <2>4, <2>6
    <3>2. r.i = q.i /\ r.k = q.k /\ r.owner = q.owner /\ r.i <= devices.len
      BY <1>2, <1>13, <2>6
    <3>3. r.i \in 1..(devices.len + 1) /\ r.k < r.i
      BY <1>3, <1>5, <3>2
    <3>4. Device!Others(list, r.owner)[r.i - 1] = front
      BY <3>2 DEF front
    <3>5. QED
      BY <1>2, <1>5, <1>6, <1>15, <2>1, <2>2, <2>3, <3>1, <3>2, <3>3, <3>4
         DEF CompactInv, Holds, Copied
  <2>7. \A u \in Thread : Inside(u)' => u = t
    BY <1>2, <1>15 DEF Inside, IInv, Exclusive
  <2>8. ~Free'
    BY <1>2 DEF Free, Inside, IInv, Exclusive
  <2>9. QED
    BY <1>13, <1>15, <2>5, <2>6, <2>7, <2>8 DEF Stands, Inside
<1>21. QED
  BY <1>16, <1>17, <1>18, <1>19, <1>20 DEF IInv

\* A list that moves to a new array leaves every response where it is, and is no
\* longer in the way of any.
LEMMA MoveEffect ==
    ASSUME IInv, NEW t \in Thread, NEW r \in Request, Step(t, r), ~Encoding(t),
           r.pc \notin {"encode", "compact", "append"}, r.todo = {},
           NEW s \in Seq(Cell), Allocate(s),
           devices' = [array |-> Unused, len |-> Len(s)], disturbed' = disturbed
    PROVE  /\ mem' \in [Array -> Seq(Cell)]
           /\ devices' \in Slice
           /\ devices'.len = Len(s)
           /\ devices'.len <= Len(mem'[devices'.array])
           /\ \A j \in 1..Len(s) : mem'[devices'.array][j] = s[j]
           /\ Placed'
           /\ Whole'
<1>1. TypeOK /\ Placed
  BY DEF IInv
<1>2. Unused \in Array /\ Unused \notin Referred(devices, threads)
  BY <1>1, UnusedIsUnused
<1>3. /\ threads' \in [Thread -> Request]
      /\ threads'[t] = r
      /\ \A u \in Thread : u # t => threads'[u] = threads[u]
  BY <1>1, StepThreads
<1>4. devices' \in Slice /\ devices'.array = Unused /\ devices'.len = Len(s)
  BY <1>2 DEF Slice
<1>5. mem' \in [Array -> Seq(Cell)]
  BY <1>1, AllocateEffect
<1>6. Unused \in Referred(devices', threads')
  BY <1>4 DEF Referred
<1>7. Len(s) <= Len(mem'[Unused]) /\ \A j \in 1..Len(s) : mem'[Unused][j] = s[j]
  BY <1>1, <1>6, AllocateEffect
<1>8. ASSUME NEW u \in Thread, Encoding(u)'
      PROVE  /\ u # t /\ Encoding(u) /\ threads'[u] = threads[u]
             /\ threads[u].slice.array # Unused
             /\ mem'[threads[u].slice.array] = mem[threads[u].slice.array]
  <2>1. u # t /\ Encoding(u) /\ threads'[u] = threads[u]
    BY <1>3, <1>8 DEF Encoding
  <2>2. threads[u].slice.array # Unused
    BY <1>2, <2>1 DEF Referred, Encoding
  <2>3. threads[u].slice.array \in Referred(devices', threads')
    BY <2>1 DEF Referred, Encoding
  <2>4. threads[u].slice.array \in Array
    BY <1>1 DEF TypeOK, Request, Slice
  <2>5. mem'[threads[u].slice.array] = mem[threads[u].slice.array]
    BY <1>1, <2>2, <2>3, <2>4, AllocateEffect
  <2>6. QED
    BY <2>1, <2>2, <2>5
<1>9. Placed'
  <2>1. ASSUME NEW u \in Thread, Encoding(u)'
        PROVE  /\ u \in Followed
               /\ threads'[u].n <= threads'[u].slice.len
               /\ Len(threads'[u].seen) = threads'[u].slice.len - threads'[u].n
               /\ threads'[u].slice.len <= Len(mem'[threads'[u].slice.array])
               /\ threads'[u].todo # {} => threads'[u].n < threads'[u].slice.len
    BY <1>1, <1>8, <2>1 DEF Placed
  <2>2. ASSUME NEW u \in Thread, ~Encoding(u)', ~Inside(u)'
        PROVE  threads'[u].todo = {}
    BY <1>1, <1>3, <2>2 DEF Placed, Encoding, Inside
  <2>3. QED
    BY <2>1, <2>2 DEF Placed
<1>10. Whole'
  <2>1. ASSUME NEW u \in Thread, Undisturbed(u)'
        PROVE  /\ Undisturbed(u) /\ threads'[u] = threads[u]
               /\ mem'[threads[u].slice.array] = mem[threads[u].slice.array]
               /\ threads'[u].slice.array # devices'.array
    BY <1>4, <1>8, <2>1 DEF Undisturbed
  <2>2. QED
    BY <2>1 DEF IInv, Whole
<1>11. QED
  BY <1>4, <1>5, <1>7, <1>9, <1>10

\* A load puts the new list into an array of its own.
LEMMA LoadKeepsInv ==
    ASSUME IInv, NEW t \in Thread, LoadLocked(t)
    PROVE  IInv' /\ list' \in Seeds
<1> DEFINE r == [threads[t] EXCEPT !.pc = "trace"]
<1>1. mutex' = mutex /\ disturbed' = disturbed /\ Free /\ Step(t, r)
      /\ threads[t].pc = "load"
  BY DEF LoadLocked, Goes
<1>2. PICK s \in Seeds : /\ devices' = [array |-> Unused, len |-> Len(s)]
                         /\ list' = s
                         /\ Allocate(s)
  BY DEF LoadLocked
<1>3. s \in Seq(Entry) /\ s \in Seq(Cell)
  <2>1. Entry \subseteq Cell /\ s \in Seq(Entry)
    BY ThreadAssumption DEF Entry, Cell
  <2>2. QED
    BY <2>1
<1>4. ~Encoding(t) /\ ~Inside(t) /\ threads[t] \in Request
  BY <1>1 DEF Encoding, Inside, IInv, TypeOK
<1>5. r \in Request /\ r.pc = "trace" /\ r.todo = {}
  <2>1. threads[t].todo = {}
    BY <1>4 DEF IInv, Placed
  <2>2. QED
    BY <1>4, <2>1 DEF Request, PC
<1> HIDE DEF r
<1>6. /\ mem' \in [Array -> Seq(Cell)]
      /\ devices' \in Slice
      /\ devices'.len = Len(s)
      /\ devices'.len <= Len(mem'[devices'.array])
      /\ \A j \in 1..Len(s) : mem'[devices'.array][j] = s[j]
      /\ Placed'
      /\ Whole'
  <2>1. r.pc \notin {"encode", "compact", "append"}
    BY <1>5
  <2>2. QED
    BY <1>1, <1>2, <1>3, <1>4, <1>5, <2>1, MoveEffect
<1>7. /\ threads' \in [Thread -> Request]
      /\ threads'[t] = r
      /\ \A u \in Thread : u # t => threads'[u] = threads[u]
  BY <1>1, <1>5, StepThreads DEF IInv
<1>8. TypeOK'
  BY <1>1, <1>2, <1>3, <1>6, <1>7 DEF IInv, TypeOK
<1>9. Exclusive'
  BY <1>1, <1>4, <1>5, <1>7 DEF IInv, Exclusive, Inside
<1>10. Stands'
  <2>1. \A u \in Thread : ~Inside(u)'
    BY <1>1, <1>5, <1>7, FreeIsQuiet DEF Inside, IInv
  <2>2. devices'.len = Len(list') /\ Holds(list)'
    BY <1>2, <1>6 DEF Holds
  <2>3. QED
    BY <2>1, <2>2 DEF Stands, Inside
<1>11. QED
  BY <1>2, <1>6, <1>8, <1>9, <1>10 DEF IInv

\* Leaving the Runner, the list is the compacted cells and the new device.
LEMMA LeaveEffect ==
    ASSUME IInv, NEW t \in Thread, threads[t].pc = "append", Leave(t)
    PROVE  /\ list' \in Seq(Entry)
           /\ Len(list') = devices.len + 1
           /\ \A j \in 1..devices.len : list'[j] = mem[devices.array][j]
           /\ list'[devices.len + 1] = New(t)
           /\ New(t) \in Entry
           /\ threads[t].owner \in Owner /\ threads[t].posture \in Posture
<1>1. AppendInv(t) /\ list \in Seq(Entry) /\ threads[t] \in Request
      /\ devices.len \in Nat
  BY DEF IInv, Stands, TypeOK, Slice
<1> DEFINE front == Device!Others(list, threads[t].owner)[Len(list)]
<1>2. front \in Seq(Entry)
  <2>1. Len(list) \in 0..Len(list)
    BY <1>1
  <2>2. Device!Others(list, threads[t].owner) \in [0..Len(list) -> Seq(Entry)]
    BY <1>1, OthersRecursion
  <2>3. QED
    BY <2>1, <2>2
<1>3. list' = Append(front, New(t))
  BY DEF Leave, Device!Registered, New
<1>4. threads[t].owner \in Owner /\ threads[t].posture \in Posture /\ New(t) \in Entry
  BY <1>1 DEF AppendInv, New, Entry, Request
<1>5. Len(front) = devices.len
      /\ \A j \in 1..devices.len : mem[devices.array][j] = front[j]
  BY <1>1 DEF AppendInv, Holds
<1> HIDE DEF front
<1>6. QED
  BY <1>1, <1>2, <1>3, <1>4, <1>5

\* Growing moves the list with its new device to a larger array.
LEMMA GrowKeepsInv ==
    ASSUME IInv, NEW t \in Thread, Grow(t)
    PROVE  IInv'
<1> DEFINE r == [Nothing EXCEPT !.pc = "trace"]
           s == Append(Contents(mem, devices), New(t))
<1>1. /\ threads[t].pc = "append" /\ Leave(t) /\ mutex' = {} /\ disturbed' = disturbed
      /\ devices' = [array |-> Unused, len |-> devices.len + 1] /\ Allocate(s)
      /\ Step(t, r)
  BY DEF Grow, Leave
<1>2. r \in Request /\ r.pc = "trace" /\ r.todo = {}
  BY NothingIsRequest DEF Nothing, Request, PC, IInv
<1> HIDE DEF r
<1>3. /\ list' \in Seq(Entry)
      /\ Len(list') = devices.len + 1
      /\ \A j \in 1..devices.len : list'[j] = mem[devices.array][j]
      /\ list'[devices.len + 1] = New(t)
      /\ New(t) \in Cell /\ devices.len \in Nat
  <2>1. devices.len \in Nat /\ Entry \subseteq Cell
    BY DEF IInv, TypeOK, Slice, Entry, Cell
  <2>2. QED
    BY <1>1, <2>1, LeaveEffect
<1>4. /\ s \in Seq(Cell) /\ Len(s) = devices.len + 1
      /\ \A j \in 1..devices.len : s[j] = mem[devices.array][j]
      /\ s[devices.len + 1] = New(t)
  BY <1>3, ContentsOf DEF IInv
<1> HIDE DEF s
<1>5. \A j \in 1..Len(s) : s[j] = list'[j]
  <2> TAKE j \in 1..Len(s)
  <2>1. j \in 1..devices.len \/ j = devices.len + 1
    BY <1>3, <1>4
  <2>2. QED
    BY <1>3, <1>4, <2>1
<1>6. /\ mem' \in [Array -> Seq(Cell)]
      /\ devices' \in Slice
      /\ devices'.len = Len(s)
      /\ devices'.len <= Len(mem'[devices'.array])
      /\ \A j \in 1..Len(s) : mem'[devices'.array][j] = s[j]
      /\ Placed'
      /\ Whole'
  <2>1. r.pc \notin {"encode", "compact", "append"} /\ ~Encoding(t)
    BY <1>1, <1>2 DEF Encoding
  <2>2. devices' = [array |-> Unused, len |-> Len(s)]
    BY <1>1, <1>4
  <2>3. QED
    BY <1>1, <1>2, <1>4, <2>1, <2>2, MoveEffect
<1>7. /\ threads' \in [Thread -> Request]
      /\ threads'[t] = r
      /\ \A u \in Thread : u # t => threads'[u] = threads[u]
  BY <1>1, <1>2, StepThreads DEF IInv
<1>8. \A u \in Thread : ~Inside(u)'
  BY <1>1, <1>2, <1>7 DEF IInv, Exclusive, Inside
<1>9. TypeOK'
  BY <1>1, <1>3, <1>6, <1>7 DEF IInv, TypeOK
<1>10. Exclusive'
  BY <1>1, <1>8 DEF Exclusive
<1>11. Stands'
  <2>1. devices'.len = Len(list') /\ Holds(list)'
    BY <1>3, <1>4, <1>5, <1>6 DEF Holds
  <2>2. QED
    BY <1>8, <2>1 DEF Stands, Inside
<1>12. QED
  BY <1>6, <1>9, <1>10, <1>11 DEF IInv

\* Putting the new device writes past the end of the list, so past every slice
\* that an undisturbed response has of its array.
LEMMA PutKeepsInv ==
    ASSUME IInv, NEW t \in Thread, Put(t)
    PROVE  IInv'
<1> DEFINE q == threads[t]
           a == devices.array
           c == devices.len + 1
           d == New(t)
<1>1. PICK f \in Field :
          /\ Write(t, c, d, f)
          /\ IF Last(t, f)
             THEN Leave(t) /\ devices' = [devices EXCEPT !.len = c]
             ELSE /\ Step(t, [q EXCEPT !.todo = Left(t) \ {f}])
                  /\ UNCHANGED <<devices, mutex, list>>
  BY DEF Put
<1>2. disturbed' = disturbed /\ q.pc = "append" /\ devices.len < Len(mem[a])
  BY DEF Put
<1>3. /\ q \in Request /\ devices.len \in Nat /\ devices \in Slice
      /\ a \in Array /\ mem[a] \in Seq(Cell)
      /\ list \in Seq(Entry) /\ q.todo \in SUBSET Field
  BY DEF IInv, TypeOK, Request, Slice
<1>4. AppendInv(t)
  BY <1>2 DEF IInv, Stands
<1>5. c \in 1..Len(mem[a]) /\ d \in Cell /\ c = devices.len + 1
  <2>1. d \in Cell
    BY <1>3, <1>4 DEF AppendInv, New, Cell, Request
  <2>2. QED
    BY <1>2, <1>3, <2>1
<1>6. f \in Left(t)
  BY <1>1 DEF Write
<1> HIDE DEF d
<1> DEFINE Effect ==
           /\ mem' \in [Array -> Seq(Cell)]
           /\ \A b \in Array : Len(mem'[b]) = Len(mem[b])
           /\ \A b \in Array : b # a => mem'[b] = mem[b]
           /\ \A j \in 1..Len(mem[a]) : j # c => mem'[a][j] = mem[a][j]
           /\ mem'[a][c][f] = d[f]
           /\ \A g \in Field \ {f} : mem'[a][c][g] = mem[a][c][g]
<1>7. Effect
  <2>1. /\ TypeOK /\ Write(t, c, d, f) /\ c \in 1..Len(mem[devices.array])
        /\ d \in Cell /\ f \in Field /\ t \in Thread
    BY <1>1, <1>5 DEF IInv
  <2>2. mem' \in [Array -> Seq(Cell)]
    BY <2>1, WriteEffect
  <2>3. \A b \in Array : Len(mem'[b]) = Len(mem[b])
    BY <2>1, WriteEffect
  <2>4. \A b \in Array : b # a => mem'[b] = mem[b]
    BY <2>1, WriteEffect
  <2>5. \A j \in 1..Len(mem[a]) : j # c => mem'[a][j] = mem[a][j]
    BY <2>1, WriteEffect
  <2>6. mem'[a][c][f] = d[f]
    BY <2>1, WriteEffect
  <2>7. \A g \in Field \ {f} : mem'[a][c][g] = mem[a][c][g]
    BY <2>1, WriteEffect
  <2>8. QED
    BY <2>2, <2>3, <2>4, <2>5, <2>6, <2>7
<1> HIDE DEF Effect, c
<1>8. \A j \in 1..devices.len : mem'[a][j] = mem[a][j]
  <2> TAKE j \in 1..devices.len
  <2>1. j \in 1..Len(mem[a]) /\ j # c
    BY <1>2, <1>3, <1>5
  <2>2. QED
    BY <1>7, <2>1 DEF Effect
<1>9. \A g \in Field : g \notin Left(t) \/ g = f => mem'[a][c][g] = d[g]
  <2>1. ASSUME NEW g \in Field, g \notin Left(t)
        PROVE  mem'[a][c][g] = d[g]
    <3>1. q.todo # {} /\ g \in Field \ q.todo /\ g # f
      BY <1>6, <2>1, LeftFields DEF IInv
    <3>2. mem[a][c][g] = d[g]
      BY <1>4, <1>5, <3>1 DEF AppendInv, Copied, d
    <3>3. QED
      BY <1>7, <3>1, <3>2 DEF Effect
  <2>2. QED
    BY <1>7, <2>1 DEF Effect
<1>10. PICK r \in Request :
          /\ Step(t, r) /\ r.pc \in {"append", "trace"}
          /\ ~Last(t, f) => /\ r.pc = "append" /\ r.todo = Left(t) \ {f}
                            /\ r.owner = q.owner /\ r.posture = q.posture
          /\ Last(t, f) => r.pc = "trace" /\ r.todo = {}
  <2>1. CASE Last(t, f)
    <3> DEFINE r == [Nothing EXCEPT !.pc = "trace"]
    <3>1. r \in Request /\ r.pc = "trace" /\ r.todo = {}
      BY NothingIsRequest DEF Nothing, Request, PC, IInv
    <3>2. Step(t, r)
      BY <1>1, <2>1 DEF Leave
    <3> HIDE DEF r
    <3>3. QED
      BY <2>1, <3>1, <3>2
  <2>2. CASE ~Last(t, f)
    <3> DEFINE r == [q EXCEPT !.todo = Left(t) \ {f}]
    <3>1. Left(t) \ {f} \in SUBSET Field
      BY <1>6, LeftFields DEF IInv
    <3>2. /\ r \in Request /\ r.pc = "append" /\ r.todo = Left(t) \ {f}
          /\ r.owner = q.owner /\ r.posture = q.posture
      BY <1>2, <1>3, <3>1 DEF Request
    <3>3. Step(t, r)
      BY <1>1, <2>2
    <3> HIDE DEF r
    <3>4. QED
      BY <2>2, <3>2, <3>3
  <2>3. QED
    BY <2>1, <2>2
<1>11. /\ threads' \in [Thread -> Request]
       /\ threads'[t] = r
       /\ \A u \in Thread : u # t => threads'[u] = threads[u]
  BY <1>10, StepThreads DEF IInv
<1>12. Last(t, f) => /\ mutex' = {} /\ devices'.len = c
                     /\ list' \in Seq(Entry) /\ Len(list') = devices.len + 1
                     /\ \A j \in 1..devices.len : list'[j] = mem[a][j]
                     /\ list'[devices.len + 1] = d
                     /\ d \in Entry
  <2> SUFFICES ASSUME Last(t, f)
               PROVE  /\ mutex' = {} /\ devices'.len = c
                      /\ list' \in Seq(Entry) /\ Len(list') = devices.len + 1
                      /\ \A j \in 1..devices.len : list'[j] = mem[a][j]
                      /\ list'[devices.len + 1] = d
                      /\ d \in Entry
    OBVIOUS
  <2>1. Leave(t) /\ devices' = [devices EXCEPT !.len = c]
    BY <1>1
  <2>2. mutex' = {} /\ devices'.len = c
    BY <1>3, <1>5, <2>1 DEF Leave, Slice
  <2>3. QED
    BY <1>2, <2>1, <2>2, LeaveEffect DEF d
<1>13. ~Last(t, f) => devices' = devices /\ mutex' = mutex /\ list' = list
  BY <1>1
<1>14. /\ devices' \in Slice /\ devices'.array = a
       /\ devices'.len \in {devices.len, c} /\ devices'.len <= Len(mem'[a])
  <2>1. Len(mem'[a]) = Len(mem[a])
    BY <1>3, <1>7 DEF Effect
  <2>2. CASE Last(t, f)
    <3>1. devices' = [devices EXCEPT !.len = c] /\ c \in Nat
      BY <1>1, <1>3, <1>5, <2>2
    <3>2. QED
      BY <1>3, <1>5, <2>1, <3>1 DEF Slice
  <2>3. CASE ~Last(t, f)
    BY <1>2, <1>3, <1>13, <2>1, <2>3
  <2>4. QED
    BY <2>2, <2>3
<1>15. TypeOK'
  <2>1. mutex' \in SUBSET Thread /\ list' \in Seq(Entry)
    BY <1>12, <1>13 DEF IInv, TypeOK
  <2>2. QED
    BY <1>2, <1>7, <1>11, <1>14, <2>1 DEF IInv, TypeOK, Effect
<1>16. \A u \in Thread : Inside(u) <=> u = t
  BY <1>2 DEF IInv, Exclusive, Inside
<1>17. Exclusive'
  <2>1. CASE Last(t, f)
    BY <1>10, <1>11, <1>12, <1>16, <2>1 DEF Exclusive, Inside
  <2>2. CASE ~Last(t, f)
    BY <1>10, <1>11, <1>13, <1>16, <2>2 DEF IInv, Exclusive, Inside
  <2>3. QED
    BY <2>1, <2>2
<1>18. \A u \in Thread : threads[u].slice.array \in Array
           /\ Len(mem'[threads[u].slice.array]) = Len(mem[threads[u].slice.array])
  <2>1. \A u \in Thread : threads[u].slice.array \in Array
    BY DEF IInv, TypeOK, Request, Slice
  <2>2. QED
    BY <1>7, <2>1 DEF Effect
<1>19. Placed'
  <2>1. ASSUME NEW u \in Thread, u # t
        PROVE  threads'[u] = threads[u]
    BY <1>11, <2>1
  <2>2. ~Encoding(t)' /\ (~Inside(t)' => threads'[t].todo = {})
    BY <1>10, <1>11 DEF Encoding, Inside
  <2>3. QED
    BY <1>18, <2>1, <2>2 DEF IInv, Placed, Inside, Encoding
<1>20. Whole'
  <2>1. ASSUME NEW u \in Thread, Undisturbed(u)'
        PROVE  Undisturbed(u) /\ threads'[u] = threads[u]
    BY <1>2, <1>10, <1>11, <2>1 DEF Undisturbed, Encoding
  <2>2. ASSUME NEW u \in Thread, Undisturbed(u), NEW j \in 1..Len(threads[u].seen)
        PROVE  mem'[threads[u].slice.array][threads[u].n + j] =
                   mem[threads[u].slice.array][threads[u].n + j]
    <3>1. CASE threads[u].slice.array # a
      BY <1>7, <1>18, <3>1 DEF Effect
    <3>2. CASE threads[u].slice.array = a
      <4>1. threads[u].slice.len <= devices.len
        BY <2>2, <3>2 DEF IInv, Whole
      <4>2. /\ Len(threads[u].seen) = threads[u].slice.len - threads[u].n
            /\ threads[u].n \in Nat /\ threads[u].slice.len \in Nat
        BY <2>2 DEF IInv, Placed, Undisturbed, TypeOK, Request, Slice
      <4>3. threads[u].n + j \in 1..devices.len
        BY <1>3, <4>1, <4>2
      <4>4. QED
        BY <1>8, <3>2, <4>3
    <3>3. QED
      BY <3>1, <3>2
  <2>3. \A u \in Thread : threads'[u].pc # "compact"
    BY <1>10, <1>11, <1>16 DEF Inside
  <2>4. ASSUME NEW u \in Thread, Undisturbed(u), threads[u].slice.array = a
        PROVE  threads[u].slice.len <= devices'.len
    <3>1. threads[u].slice.len <= devices.len /\ threads[u].slice.len \in Nat
      BY <2>4 DEF IInv, Whole, TypeOK, Request, Slice
    <3>2. QED
      BY <1>3, <1>5, <1>14, <3>1
  <2>5. QED
    BY <1>14, <2>1, <2>2, <2>3, <2>4 DEF IInv, Whole
<1>21. Stands'
  <2>1. CASE Last(t, f)
    <3>1. \A g \in Field : mem'[a][c][g] = d[g]
      BY <1>6, <1>9, <2>1, LeftFields DEF IInv
    <3>2. mem'[a] \in Seq(Cell) /\ Len(mem'[a]) = Len(mem[a])
      BY <1>3, <1>7 DEF Effect
    <3>3. mem'[a][c] \in Cell
      BY <1>5, <3>2
    <3>4. mem'[a][c] = d
      BY <1>5, <3>1, <3>3, CellFields
    <3>5. \A j \in 1..Len(list') : mem'[a][j] = list'[j]
      <4> TAKE j \in 1..Len(list')
      <4>1. j \in 1..devices.len \/ j = devices.len + 1
        BY <1>3, <1>12, <2>1
      <4>2. QED
        BY <1>5, <1>8, <1>12, <2>1, <3>4, <4>1
    <3>6. devices'.len = Len(list') /\ Holds(list)'
      BY <1>5, <1>12, <1>14, <2>1, <3>5 DEF Holds
    <3>7. \A u \in Thread : ~Inside(u)'
      BY <1>10, <1>11, <1>16, <2>1 DEF Inside
    <3>8. QED
      BY <3>6, <3>7 DEF Stands, Inside
  <2>2. CASE ~Last(t, f)
    <3> DEFINE front == Device!Others(list, q.owner)[Len(list)]
    <3>1. /\ q.owner \in Owner /\ devices.len = Len(front)
          /\ \A j \in 1..devices.len : mem[a][j] = front[j]
      BY <1>4 DEF AppendInv, Holds
    <3>2. /\ threads'[t].owner = q.owner /\ threads'[t].posture = q.posture
          /\ threads'[t].todo = Left(t) \ {f} /\ list' = list /\ devices' = devices
      BY <1>10, <1>11, <1>13, <2>2
    <3> HIDE DEF front
    <3>3. \A j \in 1..Len(front) : mem'[a][j] = front[j]
      BY <1>8, <3>1
    <3>4. \A g \in Field \ threads'[t].todo : mem'[a][c][g] = d[g]
      BY <1>9, <3>2
    <3>5. New(t)' = d
      BY <3>2 DEF New, d
    <3>6. devices.len < Len(mem'[a])
      BY <1>2, <1>3, <1>7 DEF Effect
    <3>7. Device!Others(list', threads'[t].owner)[Len(list')] = front
      BY <3>2 DEF front
    <3>8. AppendInv(t)'
      BY <1>5, <3>1, <3>2, <3>3, <3>4, <3>5, <3>6, <3>7 DEF AppendInv, Holds, Copied
    <3>9. threads'[t].pc = "append"
      BY <1>10, <1>11, <2>2
    <3>10. \A u \in Thread : Inside(u)' => u = t
      BY <1>11, <1>16 DEF Inside
    <3>11. ~Free'
      BY <1>13, <1>16, <2>2 DEF Free, IInv, Exclusive
    <3>12. QED
      BY <3>8, <3>9, <3>10, <3>11 DEF Stands, Inside
  <2>3. QED
    BY <2>1, <2>2
<1>22. QED
  BY <1>15, <1>17, <1>19, <1>20, <1>21 DEF IInv

-----------------------------------------------------------------------------
(* The invariant, and what follows from it.                                *)

LEMMA InitInv == Init => IInv
<1> SUFFICES ASSUME Init PROVE IInv
  OBVIOUS
<1>1. PICK a \in Array, s \in Seeds :
          \E cells \in Fresh(s) :
              /\ mem = [b \in Array |-> IF b = a THEN cells ELSE <<>>]
              /\ devices = [array |-> a, len |-> Len(s)]
              /\ list = s
              /\ mutex = {}
              /\ threads = [t \in Thread |-> Nothing]
              /\ disturbed = {}
  BY DEF Init
<1> DEFINE rest(e) == [n \in 1..e |-> [owner |-> NoOwner, posture |-> Nothing.posture]]
<1>2. PICK e \in 0..(MaxCap - Len(s)) :
          /\ mem = [b \in Array |-> IF b = a THEN s \o rest(e) ELSE <<>>]
          /\ devices = [array |-> a, len |-> Len(s)]
          /\ list = s
          /\ mutex = {}
          /\ threads = [t \in Thread |-> Nothing]
          /\ disturbed = {}
  BY <1>1 DEF Fresh
<1>3. /\ (CHOOSE p \in Posture : TRUE) \in Posture
      /\ (CHOOSE b \in Array : TRUE) \in Array
  BY ThreadAssumption
<1>4. Nothing \in Request /\ Nothing.pc = "idle" /\ Nothing.todo = {}
  <2>1. <<>> \in Seq(Cell)
    OBVIOUS
  <2>2. QED
    BY <1>3, <2>1 DEF Nothing, Request, Slice, PC
<1>5. Nothing.posture \in Posture /\ e \in Nat
  BY <1>3, ThreadAssumption DEF Nothing
<1>6. rest(e) \in Seq(Cell)
  BY <1>5 DEF Cell
<1> HIDE DEF rest
<1>7. Entry \subseteq Cell /\ s \in Seq(Entry)
  BY ThreadAssumption DEF Entry, Cell
<1>8. s \in Seq(Cell)
  BY <1>7
<1>9. /\ s \o rest(e) \in Seq(Cell)
      /\ Len(s) <= Len(s \o rest(e))
      /\ \A j \in 1..Len(s) : (s \o rest(e))[j] = s[j]
  BY <1>6, <1>8
<1> DEFINE cells == s \o rest(e)
<1> HIDE DEF cells
<1>10. /\ mem = [b \in Array |-> IF b = a THEN cells ELSE <<>>]
       /\ cells \in Seq(Cell) /\ Len(s) <= Len(cells)
       /\ \A j \in 1..Len(s) : cells[j] = s[j]
  BY <1>2, <1>9 DEF cells
<1>11. /\ mem \in [Array -> Seq(Cell)]
       /\ mem[devices.array] = cells
       /\ devices \in Slice /\ devices.len = Len(s)
  <2>1. <<>> \in Seq(Cell)
    OBVIOUS
  <2>2. QED
    <3>1. mem[a] = cells /\ devices.array = a /\ Len(s) \in Nat
      BY <1>2, <1>7, <1>10
    <3>2. mem \in [Array -> Seq(Cell)]
      BY <1>10, <2>1
    <3>3. QED
      BY <1>2, <3>1, <3>2 DEF Slice
<1>12. TypeOK
  BY <1>2, <1>4, <1>7, <1>10, <1>11 DEF TypeOK
<1>13. Exclusive /\ Placed /\ Whole
  BY <1>2, <1>4 DEF Exclusive, Placed, Whole, Inside, Encoding, Undisturbed
<1>14. Stands
  BY <1>2, <1>4, <1>10, <1>11 DEF Stands, Holds
<1>15. QED
  BY <1>12, <1>13, <1>14 DEF IInv

LEMMA NextInv == IInv /\ [Next]_vars => IInv'
<1> SUFFICES ASSUME IInv, [Next]_vars PROVE IInv'
  OBVIOUS
<1>1. CASE UNCHANGED vars
  <2>1. UNCHANGED <<mem, devices, mutex, threads, list, disturbed>>
    BY <1>1 DEF vars
  <2>2. TypeOK' /\ Exclusive' /\ Placed'
    BY <2>1 DEF IInv, TypeOK, Exclusive, Placed, Inside, Encoding
  <2>3. Whole'
    BY <2>1 DEF IInv, Whole, Undisturbed, Encoding
  <2>4. Stands'
    BY <2>1 DEF IInv, Stands, Free, Holds, CompactInv, AppendInv, Copied, New
  <2>5. QED
    BY <2>2, <2>3, <2>4 DEF IInv
<1>2. ASSUME NEW t \in Thread,
             \/ Get(t) \/ AskLoad(t)
             \/ \E o \in Owner \cup {NoOwner}, p \in Posture : AskDevice(t, o, p)
      PROVE  IInv'
  BY <1>2, IdleKeepsInv
<1>3. ASSUME NEW t \in Thread, Serve(t) PROVE IInv'
  <2>1. CASE LoadLocked(t)
    BY <2>1, LoadKeepsInv
  <2>2. CASE Refuse(t) \/ Close(t)
    BY <2>2, IdleKeepsInv
  <2>3. CASE Enter(t)
    BY <2>3, EnterKeepsInv
  <2>4. CASE Drop(t)
    BY <2>4, DropKeepsInv
  <2>5. CASE Keep(t)
    BY <2>5, KeepKeepsInv
  <2>6. CASE Kept(t)
    BY <2>6, KeptKeepsInv
  <2>7. CASE Put(t)
    BY <2>7, PutKeepsInv
  <2>8. CASE Grow(t)
    BY <2>8, GrowKeepsInv
  <2>9. CASE TakeTrace(t)
    BY <2>9, TakeTraceKeepsInv
  <2>10. CASE EncodeOwner(t) \/ EncodePosture(t)
    BY <2>10, EncodeKeepsInv
  <2>11. CASE Send(t)
    BY <2>11, SendKeepsInv
  <2>12. QED
    BY <1>3, <2>1, <2>2, <2>3, <2>4, <2>5, <2>6, <2>7, <2>8, <2>9, <2>10, <2>11 DEF Serve
<1>4. QED
  BY <1>1, <1>2, <1>3 DEF Next

\* The slice, the mutex, the requests and the history agree in every state.
THEOREM SliceInvariant == Spec => []IInv
  BY InitInv, NextInv, PTL DEF Spec

\* Runner.Trace and writeJSON against UpsertDevice: a response that was encoded
\* is what Trace returned, unless the registration of an owner who already had a
\* device ran while it was under way.
THEOREM TornOnlyByReRegistrationHolds == Spec => []TornOnlyByReRegistration
<1>1. IInv => TornOnlyByReRegistration
  BY DEF IInv, Whole, Undisturbed, Encoding, Encoded, TornOnlyByReRegistration
<1>2. QED
  BY <1>1, SliceInvariant, PTL

\* What the slice stands for is the history, whoever is inside the Runner.
LEMMA StandsForList ==
    IInv => (IF Free THEN Contents(mem, devices) ELSE list) = list
<1> SUFFICES ASSUME IInv, Free PROVE Contents(mem, devices) = list
  OBVIOUS
<1>1. /\ Contents(mem, devices) \in Seq(Cell)
      /\ Len(Contents(mem, devices)) = devices.len
      /\ \A j \in 1..devices.len :
             Contents(mem, devices)[j] = mem[devices.array][j]
  BY ContentsOf DEF IInv
<1>2. list \in Seq(Entry) /\ devices.len = Len(list)
      /\ \A j \in 1..Len(list) : mem[devices.array][j] = list[j]
  BY DEF IInv, TypeOK, Stands, Holds
<1> DEFINE contents == Contents(mem, devices)
<1> HIDE DEF contents
<1>3. /\ contents \in Seq(Cell) /\ Len(contents) = Len(list)
      /\ \A j \in 1..Len(list) : contents[j] = list[j]
  BY <1>1, <1>2 DEF contents
<1>4. contents = list
  BY <1>2, <1>3
<1>5. QED
  BY <1>4 DEF contents

\* The list changes by a load, or by a registration as the thread leaves.
LEMMA ListStep ==
    ASSUME IInv, [Next]_vars
    PROVE  \/ list' = list
           \/ list' \in Seeds
           \/ \E o \in Owner, p \in Posture : list' = Device!Registered(list, o, p)
<1>1. ASSUME NEW t \in Thread, LoadLocked(t) PROVE list' \in Seeds
  BY <1>1, LoadKeepsInv
<1>2. ASSUME NEW t \in Thread, threads[t].pc = "append", Leave(t)
      PROVE  \E o \in Owner, p \in Posture : list' = Device!Registered(list, o, p)
  <2>1. threads[t].owner \in Owner /\ threads[t].posture \in Posture
    BY <1>2, LeaveEffect
  <2>2. QED
    BY <1>2, <2>1 DEF Leave
<1>3. ASSUME NEW t \in Thread, Put(t)
      PROVE  list' = list \/ (threads[t].pc = "append" /\ Leave(t))
  BY <1>3 DEF Put
<1>4. ASSUME NEW t \in Thread, Grow(t) PROVE threads[t].pc = "append" /\ Leave(t)
  BY <1>4 DEF Grow
<1>5. ASSUME NEW t \in Thread,
             \/ Refuse(t) \/ Enter(t) \/ Drop(t) \/ Keep(t) \/ Kept(t) \/ TakeTrace(t)
             \/ EncodeOwner(t) \/ EncodePosture(t) \/ Send(t) \/ Close(t)
             \/ Get(t) \/ AskLoad(t)
             \/ \E o \in Owner \cup {NoOwner}, p \in Posture : AskDevice(t, o, p)
      PROVE  list' = list
  BY <1>5 DEF Refuse, Enter, Drop, Keep, Kept, TakeTrace, EncodeOwner, EncodePosture,
              Send, Close, Get, AskLoad, AskDevice
<1>6. CASE UNCHANGED vars
  BY <1>6 DEF vars
<1>7. CASE Next
  <2>1. PICK t \in Thread :
            \/ Get(t) \/ AskLoad(t)
            \/ \E o \in Owner \cup {NoOwner}, p \in Posture : AskDevice(t, o, p)
            \/ Serve(t)
    BY <1>7 DEF Next
  <2>2. CASE LoadLocked(t)
    BY <1>1, <2>2
  <2>3. CASE Put(t)
    BY <1>2, <1>3, <2>3
  <2>4. CASE Grow(t)
    BY <1>2, <1>4, <2>4
  <2>5. CASE ~LoadLocked(t) /\ ~Put(t) /\ ~Grow(t)
    BY <1>5, <2>1, <2>5 DEF Serve
  <2>6. QED
    BY <2>2, <2>3, <2>4, <2>5
<1>8. QED
  BY <1>6, <1>7

\* UpsertDevice in place, and the allocations of Load and append, implement the
\* inventory as one value: outside the Runner the slice is what its registrations
\* and loads make of it, one after the other.
THEOREM ImplementsInventoryHolds == Spec => ImplementsInventory
<1>1. Init => Device!Init
  <2> SUFFICES ASSUME Init PROVE Device!Init
    OBVIOUS
  <2>1. list \in Seeds
    BY DEF Init
  <2>2. IInv
    BY InitInv
  <2>3. QED
    BY <2>1, <2>2, StandsForList DEF Device!Init
<1>2. IInv' => ((IF Free THEN Contents(mem, devices) ELSE list) = list)'
  BY StandsForList, PTL
<1>3. IInv /\ IInv' /\ [Next]_vars =>
          [Device!Next]_(IF Free THEN Contents(mem, devices) ELSE list)
  <2> SUFFICES ASSUME IInv, IInv', [Next]_vars
               PROVE  [Device!Next]_(IF Free THEN Contents(mem, devices) ELSE list)
    OBVIOUS
  <2>1. (IF Free THEN Contents(mem, devices) ELSE list) = list
    BY StandsForList
  <2>2. (IF Free THEN Contents(mem, devices) ELSE list)' = list'
    BY <1>2
  <2>3. CASE list' = list
    BY <2>1, <2>2, <2>3
  <2>4. CASE list' \in Seeds
    BY <2>2, <2>4 DEF Device!Next, Device!Load
  <2>5. CASE \E o \in Owner, p \in Posture : list' = Device!Registered(list, o, p)
    BY <2>1, <2>2, <2>5 DEF Device!Next, Device!Upsert
  <2>6. QED
    BY <2>3, <2>4, <2>5, ListStep
<1>4. QED
  BY <1>1, <1>3, SliceInvariant, PTL DEF Spec, ImplementsInventory, Device!Spec

=============================================================================
