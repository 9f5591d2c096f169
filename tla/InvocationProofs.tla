-------------------------- MODULE InvocationProofs --------------------------
(***************************************************************************)
(* What the steps that all handlers share keep true, whatever requests Rs  *)
(* and documents Ds the handlers deal in.                                  *)
(***************************************************************************)
EXTENDS Invocations, TLAPS

USE MaxAttemptsAssumption

WorkersTyped(Rs, Ds) ==
  /\ pc  \in [Workers -> Places]
  /\ req \in [Workers -> Rs \cup {None}]
  /\ doc \in [Workers -> Ds \cup {None}]
  /\ tries \in [Workers -> 0 .. MaxAttempts - 1]
  /\ code  \in [Workers -> Codes \cup {None}]
  /\ \A w \in Workers :
       /\ pc[w] # "idle" => req[w] \in Rs
       /\ pc[w] = "put" => doc[w] \in Ds

\* No invocation is under way at first.
LEMMA WorkersInitTyped ==
  ASSUME NEW Rs, NEW Ds, WorkersInit
  PROVE  WorkersTyped(Rs, Ds)
  BY DEF WorkersInit, WorkersTyped, Places

\* A request is taken up.
LEMMA BeginTyped ==
  ASSUME NEW Rs, NEW Ds, WorkersTyped(Rs, Ds), NEW w \in Workers, NEW r \in Rs,
         Begin(w, r)
  PROVE  WorkersTyped(Rs, Ds)'
  BY DEF WorkersTyped, Begin, Places

\* A handler answers, or goes on to store what it made.
LEMMA AnswerTyped ==
  ASSUME NEW Rs, NEW Ds, WorkersTyped(Rs, Ds), NEW w \in Workers, pc[w] # "idle",
         NEW c \in Codes, Answer(w, c)
  PROVE  WorkersTyped(Rs, Ds)'
  BY DEF WorkersTyped, Answer, Places

LEMMA GoPutTyped ==
  ASSUME NEW Rs, NEW Ds, WorkersTyped(Rs, Ds), NEW w \in Workers, pc[w] # "idle",
         NEW d \in Ds, GoPut(w, d)
  PROVE  WorkersTyped(Rs, Ds)'
  BY DEF WorkersTyped, GoPut, Places

\* A store call is not answered.
LEMMA UnansweredTyped ==
  ASSUME NEW Rs, NEW Ds, WorkersTyped(Rs, Ds), NEW w \in Workers, pc[w] # "idle",
         Unanswered(w)
  PROVE  WorkersTyped(Rs, Ds)'
<1>1. CASE Answer(w, 500)
  BY <1>1, AnswerTyped DEF Codes
<1>2. CASE /\ tries[w] + 1 < MaxAttempts
           /\ tries' = [tries EXCEPT ![w] = @ + 1]
           /\ UNCHANGED <<pc, req, doc, code>>
  <2>1. tries[w] \in Nat /\ tries[w] + 1 \in 0 .. MaxAttempts - 1
    BY <1>2 DEF WorkersTyped
  <2> QED
    BY <1>2, <2>1 DEF WorkersTyped
<1> QED
  BY <1>1, <1>2 DEF Unanswered

\* The slot is free again.
LEMMA RecycleTyped ==
  ASSUME NEW Rs, NEW Ds, WorkersTyped(Rs, Ds), NEW w \in Workers, Recycle(w)
  PROVE  WorkersTyped(Rs, Ds)'
  BY DEF WorkersTyped, Recycle, Places
=============================================================================
