--------------------------- MODULE ReviewDeskProofs -------------------------
(***************************************************************************)
(* What the copilot shows, for any answers of the model and any number of  *)
(* requests at once.  Needed besides: a review that is shown is what       *)
(* Generate made of the one answer that came.                              *)
(***************************************************************************)
EXTENDS ReviewDesk, TLAPS

ShownInv ==
    \A t \in Thread : requests[t].kind = "review" /\ requests[t].pc = "ok" =>
        \E a \in Answers : /\ requests[t].answer = {a}
                           /\ requests[t].body = Generate(a, "2026-Q2")

\* A request has its four fields, whatever its body is.
Fields == {"pc", "kind", "answer", "body"}

Shaped == /\ DOMAIN requests = Thread
          /\ \A t \in Thread : DOMAIN requests[t] = Fields

IInv == TypeOK /\ Shaped /\ ShownInv

-----------------------------------------------------------------------------
\* What Generate makes of an answer is safe, whatever the model returned.
LEMMA GenerateIsSafe ==
    ASSUME NEW a \in Answer, NEW review \in Generate(a, "2026-Q2")
    PROVE  /\ review.period # ""
           /\ \A r \in review.recommendations : r.approval
           /\ Arrived(a) /\ a.stop \notin {"max_tokens", "refusal"}
<1>1. PICK input \in Complete(a) :
          review = [period |-> IF input.period = "" THEN "2026-Q2" ELSE input.period,
                    recommendations |-> {[r EXCEPT !.approval = TRUE] :
                                             r \in input.recommendations}]
  BY DEF Generate
<1>2. PICK m \in DOMAIN a.blocks :
          /\ input = a.blocks[m] /\ IsCall(a.blocks[m])
          /\ Arrived(a) /\ a.stop \notin {"refusal", "max_tokens"}
  BY DEF Complete
<1>3. input \in Block
  BY <1>2 DEF Answer
<1>4. input.recommendations \subseteq Recommendation
  BY <1>2, <1>3 DEF Block, IsCall
<1>5. \A r \in Recommendation : [r EXCEPT !.approval = TRUE].approval
  BY DEF Recommendation
<1>6. QED
  BY <1>1, <1>2, <1>4, <1>5

\* A request that goes on as r keeps the invariant if r keeps it.
LEMMA GoesInv ==
    ASSUME IInv, NEW t \in Thread, NEW r, Goes(t, r),
           DOMAIN r = Fields,
           r.pc \in PC, r.kind \in Kind, r.answer \subseteq Answers,
           r.kind = "review" /\ r.pc = "ok" =>
               \E a \in Answers : r.answer = {a} /\ r.body = Generate(a, "2026-Q2")
    PROVE  IInv'
<1>1. /\ requests' = [requests EXCEPT ![t] = r]
      /\ key' = key
  BY DEF Goes
<1>2. /\ requests'[t] = r
      /\ DOMAIN requests' = Thread
      /\ \A u \in Thread \ {t} : requests'[u] = requests[u]
  BY <1>1 DEF IInv, Shaped
<1>3. TypeOK'
  BY <1>1, <1>2 DEF IInv, TypeOK
<1>4. Shaped'
  BY <1>2 DEF IInv, Shaped
<1>5. ShownInv'
  BY <1>2 DEF IInv, ShownInv
<1>6. QED
  BY <1>3, <1>4, <1>5 DEF IInv

(* The inductive invariant holds of every behaviour.                        *)
THEOREM Invariance == Spec => []IInv
<1>0. /\ DOMAIN Free = Fields
      /\ Free.pc = "free" /\ Free.kind = "ask" /\ Free.answer = {}
  BY DEF Free, Fields
<1>1. Init => IInv
  <2> SUFFICES ASSUME Init PROVE IInv
    OBVIOUS
  <2>1. \A t \in Thread : requests[t] = Free
    BY DEF Init
  <2>2. TypeOK /\ ShownInv
    BY <1>0, <2>1 DEF Init, TypeOK, ShownInv, PC, Kind
  <2>3. Shaped
    BY <1>0, <2>1 DEF Init, Shaped
  <2>4. QED
    BY <2>2, <2>3 DEF IInv
<1>2. IInv /\ [Next]_vars => IInv'
  <2> SUFFICES ASSUME IInv, [Next]_vars PROVE IInv'
    OBVIOUS
  <2>0. \A t \in Thread : /\ DOMAIN requests[t] = Fields
                           /\ requests[t].kind \in Kind
                           /\ requests[t].answer \subseteq Answers
    BY DEF IInv, Shaped, TypeOK
  <2>1. ASSUME NEW t \in Thread, NEW kind \in Kind, Arrive(t, kind) PROVE IInv'
    <3> DEFINE r == [Free EXCEPT !.pc = "asked", !.kind = kind]
    <3>1. /\ DOMAIN r = Fields
          /\ r.pc = "asked" /\ r.kind = kind /\ r.answer = {}
      BY <1>0 DEF Fields
    <3>2. Goes(t, r)
      BY <2>1 DEF Arrive
    <3> HIDE DEF r
    <3>3. QED
      BY <3>1, <3>2, GoesInv DEF PC
  <2>2. ASSUME NEW t \in Thread,
               NEW pc \in {"disabled", "waiting", "bad gateway"},
               Goes(t, [requests[t] EXCEPT !.pc = pc])
        PROVE  IInv'
    <3> DEFINE r == [requests[t] EXCEPT !.pc = pc]
    <3>1. /\ DOMAIN r = Fields
          /\ r.pc = pc /\ r.kind = requests[t].kind
          /\ r.answer = requests[t].answer
      BY <2>0 DEF Fields
    <3>2. Goes(t, r)
      BY <2>2
    <3> HIDE DEF r
    <3>3. QED
      BY <2>0, <3>1, <3>2, GoesInv DEF PC
  <2>3. ASSUME NEW t \in Thread, Disabled(t) \/ Consult(t) \/ Deadline(t)
        PROVE  IInv'
    BY <2>2, <2>3 DEF Disabled, Consult, Deadline
  <2>4. ASSUME NEW t \in Thread, NEW a \in Answers, Reply(t, a) PROVE IInv'
    <3> DEFINE body == Outcome(requests[t].kind, a)
               pc == IF body = {} THEN "bad gateway" ELSE "ok"
               r == [requests[t] EXCEPT !.pc = pc, !.answer = {a}, !.body = body]
    <3>1. Goes(t, r)
      BY <2>4 DEF Reply
    <3>2. requests[t].kind = "review" => body = Generate(a, "2026-Q2")
      BY DEF Outcome
    <3> HIDE DEF body
    <3>3. /\ DOMAIN r = Fields
          /\ r.pc = pc /\ r.kind = requests[t].kind
          /\ r.answer = {a} /\ r.body = body
      BY <2>0 DEF Fields
    <3>4. pc \in PC
      BY DEF PC
    <3> HIDE DEF r, pc
    <3>5. QED
      BY <2>0, <3>1, <3>2, <3>3, <3>4, GoesInv
  <2>5. ASSUME NEW t \in Thread, Close(t) PROVE IInv'
    BY <1>0, <2>5, GoesInv DEF Close, PC, Kind
  <2>6. CASE UNCHANGED vars
    BY <2>6 DEF vars, IInv, TypeOK, Shaped, ShownInv
  <2>7. QED
    BY <2>1, <2>3, <2>4, <2>5, <2>6 DEF Next, Handle
<1>3. QED
  BY <1>1, <1>2, PTL DEF Spec

(* No review is ever shown in which an action does without a human, or that *)
(* comes of an answer cut off, refused or failed (copilot.go, Generate).    *)
THEOREM ReviewsSafe == Spec => []ReviewsAreSafe
<1>1. IInv => ReviewsAreSafe
  <2> SUFFICES ASSUME IInv, NEW t \in Thread, NEW review \in Published(t)
               PROVE  /\ review.period # ""
                      /\ \A r \in review.recommendations : r.approval
                      /\ \A a \in requests[t].answer :
                            Arrived(a) /\ a.stop \notin {"max_tokens", "refusal"}
    BY DEF ReviewsAreSafe
  <2>1. requests[t].kind = "review" /\ requests[t].pc = "ok"
    BY DEF Published
  <2>2. PICK a \in Answers : /\ requests[t].answer = {a}
                             /\ requests[t].body = Generate(a, "2026-Q2")
    BY <2>1 DEF IInv, ShownInv
  <2>3. a \in Answer /\ review \in Generate(a, "2026-Q2")
    BY <2>1, <2>2, DeskAssumption DEF Published
  <2>4. QED
    BY <2>2, <2>3, GenerateIsSafe
<1>2. QED
  BY <1>1, Invariance, PTL

=============================================================================
