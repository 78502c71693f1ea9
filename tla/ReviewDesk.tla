------------------------------ MODULE ReviewDesk ----------------------------
(***************************************************************************)
(* The copilot's two endpoints of the console (cmd/server, review and ask) *)
(* with requests served at once.  A handler takes a trace, sends it to the *)
(* language model without holding any lock, and waits for the answer, its  *)
(* own deadline or the caller's departure.  What the trace shows is the    *)
(* subject of Console; here only what becomes of the answer matters.       *)
(***************************************************************************)
EXTENDS Copilot

CONSTANTS Thread,     \* requests served at once
          Answers     \* what the language model may come back with

ASSUME DeskAssumption == Answers \subseteq Answer

VARIABLES
    key,         \* an API key is set: the environment of the process
    requests     \* [Thread -> the request it serves]

vars == <<key, requests>>

-----------------------------------------------------------------------------
Kind == {"review", "ask"}

\* answer is history: what the model came back with; body is what of it the
\* caller is sent.
Free == [pc |-> "free", kind |-> "ask", answer |-> {}, body |-> {}]

PC == {"free", "asked", "waiting", "disabled", "ok", "bad gateway"}

Goes(t, r) == requests' = [requests EXCEPT ![t] = r] /\ UNCHANGED key

Init ==
    /\ key \in BOOLEAN
    /\ requests = [t \in Thread |-> Free]

Arrive(t, kind) ==
    /\ requests[t].pc = "free"
    /\ Goes(t, [Free EXCEPT !.pc = "asked", !.kind = kind])

\* NewClient finds no key: a plain answer that says so.
Disabled(t) ==
    /\ requests[t].pc = "asked"
    /\ ~key
    /\ Goes(t, [requests[t] EXCEPT !.pc = "disabled"])

\* Trace and BuildEvidence, once there is a client.
Consult(t) ==
    /\ requests[t].pc = "asked"
    /\ key
    /\ Goes(t, [requests[t] EXCEPT !.pc = "waiting"])

\* What the caller is sent: the review or the text, or an error.
Outcome(kind, a) ==
    IF kind = "review" THEN Generate(a, "2026-Q2") ELSE Chat(a)

Reply(t, a) ==
    LET body == Outcome(requests[t].kind, a) IN
    /\ requests[t].pc = "waiting"
    /\ Goes(t, [requests[t] EXCEPT !.pc = IF body = {} THEN "bad gateway" ELSE "ok",
                                   !.answer = {a}, !.body = body])

\* Mutant of Deadline: a question waits for as long as it takes.
DeadlineOfReviews(t) ==
    /\ requests[t].pc = "waiting"
    /\ requests[t].kind = "review"
    /\ Goes(t, [requests[t] EXCEPT !.pc = "bad gateway"])

\* The context of 90 s, or of 60 s for a question, is over, or the caller left.
Deadline(t) ==
    /\ requests[t].pc = "waiting"
    /\ Goes(t, [requests[t] EXCEPT !.pc = "bad gateway"])

Close(t) ==
    /\ requests[t].pc \in {"disabled", "ok", "bad gateway"}
    /\ Goes(t, Free)

Handle(t) == Disabled(t) \/ Consult(t) \/ Deadline(t)

Next ==
    \E t \in Thread :
        \/ \E kind \in Kind : Arrive(t, kind)
        \/ Handle(t)
        \/ \E a \in Answers : Reply(t, a)
        \/ Close(t)

Spec == Init /\ [][Next]_vars

\* A handler runs on and its deadline passes; nothing makes the model answer.
FairSpec == Spec /\ \A t \in Thread : WF_vars(Handle(t))

-----------------------------------------------------------------------------
TypeOK ==
    /\ key \in BOOLEAN
    /\ \A t \in Thread :
          /\ requests[t].pc \in PC /\ requests[t].kind \in Kind
          /\ requests[t].answer \subseteq Answers

Published(t) ==
    IF requests[t].kind = "review" /\ requests[t].pc = "ok"
    THEN requests[t].body ELSE {}

(* Whatever the model answers, nobody is shown a review in which some       *)
(* recommendation does without a human, or that comes of an answer that was *)
(* cut off, refused or failed (copilot.go, Generate: "enforces the safety   *)
(* invariant ... regardless of what the model returns").                    *)
ReviewsAreSafe ==
    \A t \in Thread : \A review \in Published(t) :
        /\ review.period # ""
        /\ \A r \in review.recommendations : r.approval
        /\ \A a \in requests[t].answer :
              Arrived(a) /\ a.stop \notin {"max_tokens", "refusal"}

(* A request gets an answer although the model may never give one.          *)
RequestsAreAnswered ==
    \A t \in Thread :
        requests[t].pc = "asked" ~>
            requests[t].pc \in {"disabled", "ok", "bad gateway"}

=============================================================================
