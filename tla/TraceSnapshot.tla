---------------------------- MODULE TraceSnapshot ---------------------------
(***************************************************************************)
(* The device list of the console at the grain of its memory.  The Runner  *)
(* keeps a slice; UpsertDevice compacts it in place under the mutex; Trace *)
(* hands out the slice itself, and the handler encodes it, field by field, *)
(* after the mutex was released (cmd/server, writeJSON).  So a response    *)
(* may be encoded while another request rewrites the array under it.       *)
(*                                                                         *)
(* A device is two fields, its owner and its posture: enough to tell a     *)
(* value that mixes two devices from one that does not.                    *)
(***************************************************************************)
EXTENDS Sequences, Naturals

CONSTANTS Owner, Posture, Seeds,
          NoOwner,     \* the empty address of a malformed request
          Thread,      \* requests served at once
          Followed,    \* those whose response is looked at
          Array,       \* allocations
          MaxCap       \* the largest capacity an allocation may have

Entry == [owner : Owner, posture : Posture]
Field == {"owner", "posture"}

ASSUME ThreadAssumption ==
    /\ NoOwner \notin Owner
    /\ Posture # {}
    /\ Followed \subseteq Thread
    /\ MaxCap \in Nat
    /\ Seeds \subseteq Seq(Entry) /\ <<>> \in Seeds
    /\ \A s \in Seeds : Len(s) <= MaxCap

\* The allocator never runs out of places: whatever arrays the list and the
\* responses under way refer to, there is one more.
ASSUME ArrayAssumption ==
    \A held \in [Followed -> Array], a \in Array :
        \E b \in Array \ {a} : \A t \in Followed : held[t] # b

VARIABLES
    mem,        \* [Array -> its cells; their number is the capacity]
    devices,    \* Runner.devices: array and length
    mutex,      \* the threads inside the Runner: none or one
    threads,    \* [Thread -> the request it serves]
    list,       \* history: the list the mutex protected when last released
    disturbed   \* history: responses whose array lost a device meanwhile

vars == <<mem, devices, mutex, threads, list, disturbed>>

-----------------------------------------------------------------------------
\* A thread: from the request to the answer.  In "compact" and "append" it holds
\* the mutex and i is the cell it reads, k the number of cells kept; todo is the
\* fields it has not yet copied of a cell under way.  In "encode", slice is what
\* Trace returned and n the devices encoded so far; seen is history, what the
\* rest of slice held when Trace returned it, and so is torn: some field that was
\* encoded was another by then.
Nothing == [pc |-> "idle", owner |-> NoOwner, posture |-> CHOOSE p \in Posture : TRUE,
            i |-> 0, k |-> 0, todo |-> {},
            slice |-> [array |-> CHOOSE a \in Array : TRUE, len |-> 0],
            n |-> 0, seen |-> <<>>, torn |-> FALSE]

PC == {"idle", "load", "device", "compact", "append", "trace", "encode",
       "sent", "refused"}

Contents(m, s) == SubSeq(m[s.array], 1, s.len)

\* The arrays something still refers to; the others are garbage.
Referred(d, ths) ==
    {d.array} \cup {ths[t].slice.array : t \in {u \in Thread : ths[u].pc = "encode"}}

\* Any place that nothing refers to is as good as another.
Unused == CHOOSE a \in Array : a \notin Referred(devices, threads)

\* The garbage is collected as soon as it is some.
Collected(m) ==
    [a \in Array |-> IF a \in Referred(devices', threads') THEN m[a] ELSE <<>>]

\* The arrays make and append return when they start with s: how much room they
\* have is the allocator's choice, and the rest is not written yet.
Fresh(s) ==
    {s \o [n \in 1..extra |-> [owner |-> NoOwner, posture |-> Nothing.posture]] :
        extra \in 0..(MaxCap - Len(s))}

Allocate(s) ==
    \E cells \in Fresh(s) : mem' = Collected([mem EXCEPT ![Unused] = cells])

Step(t, r) == threads' = [threads EXCEPT ![t] = r]

Goes(t, pc) == Step(t, [threads[t] EXCEPT !.pc = pc])

Free == mutex = {}

\* What the slice stands for: while a thread works on it, what it was before.
Device == INSTANCE Inventory WITH
    inventory <- IF Free THEN Contents(mem, devices) ELSE list

Left(t) == IF threads[t].todo = {} THEN Field ELSE threads[t].todo

-----------------------------------------------------------------------------
Init ==
    \E a \in Array, s \in Seeds : \E cells \in Fresh(s) :
        /\ mem = [b \in Array |-> IF b = a THEN cells ELSE <<>>]
        /\ devices = [array |-> a, len |-> Len(s)]
        /\ list = s
        /\ mutex = {}
        /\ threads = [t \in Thread |-> Nothing]
        /\ disturbed = {}

\* Requests arrive: GET /api/trace and every handler that leaves the devices
\* alone, a scenario load or reset, a device registration.
Get(t) ==
    /\ threads[t].pc = "idle"
    /\ Goes(t, "trace")
    /\ UNCHANGED <<mem, devices, mutex, list, disturbed>>

AskLoad(t) ==
    /\ threads[t].pc = "idle"
    /\ Goes(t, "load")
    /\ UNCHANGED <<mem, devices, mutex, list, disturbed>>

AskDevice(t, o, p) ==
    /\ threads[t].pc = "idle"
    /\ Step(t, [threads[t] EXCEPT !.pc = "device", !.owner = o, !.posture = p])
    /\ UNCHANGED <<mem, devices, mutex, list, disturbed>>

\* Mutant of LoadLocked: reset keeps the array, as in r.devices[:0].
LoadReuses(t) ==
    /\ threads[t].pc = "load"
    /\ Free
    /\ \E s \in {x \in Seeds : Len(x) <= Len(mem[devices.array])} :
          /\ mem' = [mem EXCEPT ![devices.array] =
                        [n \in DOMAIN @ |-> IF n <= Len(s) THEN s[n] ELSE @[n]]]
          /\ devices' = [devices EXCEPT !.len = Len(s)]
          /\ list' = s
    /\ Goes(t, "trace")
    /\ UNCHANGED <<mutex, disturbed>>

\* Load or Seed: the new list grows from nil, so in an array nobody else has.
LoadLocked(t) ==
    /\ threads[t].pc = "load"
    /\ Free
    /\ Goes(t, "trace")
    /\ \E s \in Seeds :
          /\ devices' = [array |-> Unused, len |-> Len(s)]
          /\ list' = s
          /\ Allocate(s)
    /\ UNCHANGED <<mutex, disturbed>>

\* UpsertDevice on a request without an owner: an error, and no trace.
Refuse(t) ==
    /\ threads[t].pc = "device"
    /\ Free
    /\ threads[t].owner = NoOwner
    /\ Step(t, [Nothing EXCEPT !.pc = "refused"])
    /\ UNCHANGED <<mem, devices, mutex, list, disturbed>>

\* UpsertDevice enters its critical section, kept := r.devices[:0].
Enter(t) ==
    /\ threads[t].pc = "device"
    /\ Free
    /\ threads[t].owner # NoOwner
    /\ mutex' = {t}
    /\ Step(t, [threads[t] EXCEPT !.pc = "compact", !.i = 1, !.k = 0])
    /\ UNCHANGED <<mem, devices, list, disturbed>>

Reading(t) == mem[devices.array][threads[t].i]

Compacting(t) ==
    /\ threads[t].pc = "compact"
    /\ threads[t].i <= devices.len

\* Mutant of Drop: the device after the dropped one is skipped as well.
DropSkips(t) ==
    /\ Compacting(t)
    /\ Reading(t).owner = threads[t].owner
    /\ threads[t].todo = {}
    /\ Step(t, [threads[t] EXCEPT !.i = @ + 2])
    /\ disturbed' = disturbed \cup
           {u \in Thread : /\ threads[u].pc = "encode"
                           /\ threads[u].slice.array = devices.array}
    /\ UNCHANGED <<mem, devices, mutex, list>>

\* A device of the owner is dropped: what follows will move.
Drop(t) ==
    /\ Compacting(t)
    /\ Reading(t).owner = threads[t].owner
    /\ threads[t].todo = {}
    /\ Step(t, [threads[t] EXCEPT !.i = @ + 1])
    /\ disturbed' = disturbed \cup
           {u \in Thread : /\ threads[u].pc = "encode"
                           /\ threads[u].slice.array = devices.array}
    /\ UNCHANGED <<mem, devices, mutex, list>>

\* One field of the cell n becomes that of d; the compiler may copy them in any
\* order.  Last tells the field that completes the cell.
Write(t, n, d, f) ==
    /\ f \in Left(t)
    /\ mem' = [mem EXCEPT ![devices.array][n][f] = d[f]]

Last(t, f) == Left(t) = {f}

\* kept = append(kept, d).
Keep(t) ==
    /\ Compacting(t)
    /\ threads[t].todo # {} \/ Reading(t).owner # threads[t].owner
    /\ \E f \in Field :
          /\ Write(t, threads[t].k + 1, Reading(t), f)
          /\ Step(t, IF Last(t, f)
                     THEN [threads[t] EXCEPT !.todo = {}, !.i = @ + 1, !.k = @ + 1]
                     ELSE [threads[t] EXCEPT !.todo = Left(t) \ {f}])
    /\ UNCHANGED <<devices, mutex, list, disturbed>>

\* r.devices = kept.
Kept(t) ==
    /\ threads[t].pc = "compact"
    /\ threads[t].i > devices.len
    /\ devices' = [devices EXCEPT !.len = threads[t].k]
    /\ Goes(t, "append")
    /\ UNCHANGED <<mem, mutex, list, disturbed>>

Leave(t) ==
    /\ mutex' = {}
    /\ list' = Device!Registered(list, threads[t].owner, threads[t].posture)
    /\ Step(t, [Nothing EXCEPT !.pc = "trace"])

New(t) == [owner |-> threads[t].owner, posture |-> threads[t].posture]

\* dev, when the array has room.
Put(t) ==
    /\ threads[t].pc = "append"
    /\ devices.len < Len(mem[devices.array])
    /\ \E f \in Field :
          /\ Write(t, devices.len + 1, New(t), f)
          /\ IF Last(t, f)
             THEN Leave(t) /\ devices' = [devices EXCEPT !.len = @ + 1]
             ELSE /\ Step(t, [threads[t] EXCEPT !.todo = Left(t) \ {f}])
                  /\ UNCHANGED <<devices, mutex, list>>
    /\ UNCHANGED disturbed

\* dev, when it has none.
Grow(t) ==
    /\ threads[t].pc = "append"
    /\ devices.len = Len(mem[devices.array])
    /\ Leave(t)
    /\ devices' = [array |-> Unused, len |-> devices.len + 1]
    /\ Allocate(Append(Contents(mem, devices), New(t)))
    /\ UNCHANGED disturbed

\* Trace: the slice, not a copy of it.  A response that is not followed is sent
\* at once: encoding it would read and change nothing.
TakeTrace(t) ==
    /\ threads[t].pc = "trace"
    /\ Free
    /\ Step(t, IF t \in Followed
               THEN [Nothing EXCEPT !.pc = "encode", !.slice = devices,
                                    !.seen = Contents(mem, devices)]
               ELSE [Nothing EXCEPT !.pc = "sent"])
    /\ UNCHANGED <<mem, devices, mutex, list, disturbed>>

\* writeJSON: the encoder reads the next device from the array, field by field.
EncodeOwner(t) ==
    LET r == threads[t] IN
    /\ r.pc = "encode"
    /\ r.todo = {}
    /\ r.n < r.slice.len
    /\ Step(t, [r EXCEPT !.todo = {"posture"},
           !.torn = @ \/ mem[r.slice.array][r.n + 1].owner # r.seen[1].owner])
    /\ UNCHANGED <<mem, devices, mutex, list, disturbed>>

EncodePosture(t) ==
    LET r == threads[t] IN
    /\ r.pc = "encode"
    /\ r.todo # {}
    /\ Step(t, [r EXCEPT !.todo = {}, !.n = @ + 1, !.seen = Tail(@),
           !.torn = @ \/ mem[r.slice.array][r.n + 1].posture # r.seen[1].posture])
    /\ UNCHANGED <<mem, devices, mutex, list, disturbed>>

Encoded(t) == LET r == threads[t] IN
    r.pc = "encode" /\ r.todo = {} /\ r.n = r.slice.len

Send(t) ==
    /\ Encoded(t)
    /\ Step(t, [Nothing EXCEPT !.pc = "sent"])
    /\ disturbed' = disturbed \ {t}
    /\ UNCHANGED <<devices, mutex, list>>
    /\ mem' = Collected(mem)

\* The connection takes its next request.
Close(t) ==
    /\ threads[t].pc \in {"sent", "refused"}
    /\ Step(t, Nothing)
    /\ UNCHANGED <<mem, devices, mutex, list, disturbed>>

Serve(t) ==
    \/ LoadLocked(t) \/ Refuse(t) \/ Enter(t)
    \/ Drop(t) \/ Keep(t) \/ Kept(t) \/ Put(t) \/ Grow(t)
    \/ TakeTrace(t) \/ EncodeOwner(t) \/ EncodePosture(t) \/ Send(t) \/ Close(t)

Next ==
    \E t \in Thread :
        \/ Get(t)
        \/ AskLoad(t)
        \/ \E o \in Owner \cup {NoOwner}, p \in Posture : AskDevice(t, o, p)
        \/ Serve(t)

Spec == Init /\ [][Next]_vars

-----------------------------------------------------------------------------
(* A registration of somebody who has no device yet, a load and a trace     *)
(* never disturb a response under way: a response that differs from what    *)
(* Trace saw was overtaken by the registration of an owner who had one.     *)
TornOnlyByReRegistration ==
    \A t \in Thread : Encoded(t) /\ t \notin disturbed => ~threads[t].torn

(* scenario.go, Trace: it "snapshots the whole run".  What it says of the   *)
(* devices of every response.                                               *)
TraceIsSnapshot ==
    \A t \in Thread : Encoded(t) => ~threads[t].torn

(* The slice, compacted in place and grown into other arrays, implements    *)
(* the inventory whenever the mutex is free.                                *)
ImplementsInventory == Device!Spec

=============================================================================
