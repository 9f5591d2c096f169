---------------------------- MODULE Invocations -----------------------------
(***************************************************************************)
(* A Lambda invocation as every handler of internal/api uses it: it serves *)
(* one request, makes its store calls one after the other, answers once,   *)
(* and keeps nothing for the next request.  It may be killed at any time.  *)
(* The AWS SDK repeats a store call that was not answered, whether or not  *)
(* the call took effect, and gives up after MaxAttempts.                   *)
(***************************************************************************)
EXTENDS Table, Naturals

CONSTANTS Workers,        \* invocation slots
          MaxAttempts,    \* attempts the SDK's retryer makes at one call
          Disturbances    \* what may go wrong in this instance

ASSUME MaxAttemptsAssumption  == MaxAttempts \in Nat \ {0}
ASSUME DisturbancesAssumption ==
  Disturbances \subseteq {"crash", "store", "push", "letsroll", "roles", "issuer"}

Places == {"idle", "verify", "gate", "handler", "put", "push", "done"}
Codes  == {200, 201, 204, 400, 401, 403, 404, 409, 422, 500, 502}

ASSUME NoCodeAssumption == None \notin Codes

VARIABLES
  pc,        \* worker -> where its handler is
  req,       \* worker -> the request it serves
  doc,       \* worker -> the document it is about to store, or has stored
  tries,     \* worker -> failed attempts at the current store call
  code,      \* worker -> the answer it gave
  wrote      \* worker -> has an attempt of this request reached the table?
             \*           (history: no action reads it)

workerVars == <<pc, req, doc, tries, code, wrote>>

WorkersInit == /\ pc    = [w \in Workers |-> "idle"]
               /\ req   = [w \in Workers |-> None]
               /\ doc   = [w \in Workers |-> None]
               /\ tries = [w \in Workers |-> 0]
               /\ code  = [w \in Workers |-> None]
               /\ wrote = [w \in Workers |-> FALSE]

At(w, place, op) == pc[w] = place /\ req[w].op = op

\* The URL's key.
KeyOf(r) == <<r.camp, r.id>>

\* A request is taken up, to be handled or to be refused outright.
Begin(w, r) == /\ pc[w] = "idle"
               /\ pc'  = [pc EXCEPT ![w] = "handler"]
               /\ req' = [req EXCEPT ![w] = r]
               /\ UNCHANGED <<doc, tries, code>>

Refuse(w, r, c) == /\ pc[w] = "idle"
                   /\ pc'   = [pc EXCEPT ![w] = "done"]
                   /\ req'  = [req EXCEPT ![w] = r]
                   /\ code' = [code EXCEPT ![w] = c]
                   /\ UNCHANGED <<doc, tries>>

\* writeJSON / WriteHeader: the handler is over.
Answer(w, c) == /\ pc'    = [pc EXCEPT ![w] = "done"]
                /\ code'  = [code EXCEPT ![w] = c]
                /\ doc'   = [doc EXCEPT ![w] = None]
                /\ tries' = [tries EXCEPT ![w] = 0]
                /\ UNCHANGED req

\* loadEncounter, loadChapter: the store fails, or answers "no item", or
\* answers one of the documents a read may see.
NotLoaded(w) ==
  \/ "store" \in Disturbances /\ Answer(w, 500)
  \/ None \in GetItem(KeyOf(req[w])) /\ Answer(w, 404)

\* Mutant: a lookup by the item's id alone.
LoadableById(w) == UNION {GetItem(<<c, req[w].id>>) : c \in Campaigns} \ {None}

Loadable(w) == GetItem(KeyOf(req[w])) \ {None}

\* The handler has made d and goes on to store it.
GoPut(w, d) == /\ pc'  = [pc EXCEPT ![w] = "put"]
               /\ doc' = [doc EXCEPT ![w] = d]
               /\ UNCHANGED <<req, tries, code>>

\* An attempt at the store call takes effect.  Put takes the key from the
\* document, Delete from the URL.
PutLands(w) == /\ PutItem(doc[w].key, doc[w])
               /\ wrote' = [wrote EXCEPT ![w] = TRUE]
               /\ UNCHANGED replica

DeleteLands(w) == /\ DeleteItem(KeyOf(req[w]))
                  /\ wrote' = [wrote EXCEPT ![w] = TRUE]
                  /\ UNCHANGED replica

\* Mutant: one attempt too many.
UnansweredOnceMore(w) ==
  /\ "store" \in Disturbances
  /\ \/ /\ tries[w] + 1 <= MaxAttempts
        /\ tries' = [tries EXCEPT ![w] = @ + 1]
        /\ UNCHANGED <<pc, req, doc, code>>
     \/ /\ tries[w] + 1 > MaxAttempts
        /\ Answer(w, 500)

\* Mutant: attempts start over and over.
UnansweredForever(w) ==
  /\ "store" \in Disturbances
  /\ tries' = [tries EXCEPT ![w] = (@ + 1) % MaxAttempts]
  /\ UNCHANGED <<pc, req, doc, code>>

\* No answer to this attempt: one more, or a 500.
Unanswered(w) ==
  /\ "store" \in Disturbances
  /\ \/ /\ tries[w] + 1 < MaxAttempts
        /\ tries' = [tries EXCEPT ![w] = @ + 1]
        /\ UNCHANGED <<pc, req, doc, code>>
     \/ /\ tries[w] + 1 >= MaxAttempts
        /\ Answer(w, 500)

Recycle(w) == /\ pc'    = [pc EXCEPT ![w] = "idle"]
              /\ req'   = [req EXCEPT ![w] = None]
              /\ doc'   = [doc EXCEPT ![w] = None]
              /\ tries' = [tries EXCEPT ![w] = 0]
              /\ code'  = [code EXCEPT ![w] = None]
              /\ wrote' = [wrote EXCEPT ![w] = FALSE]
              /\ UNCHANGED tableVars

\* The client has its answer; the slot takes the next request.
Finish(w) == pc[w] = "done" /\ Recycle(w)

\* The invocation is killed (time limit, out of memory): no answer, and the
\* calls it had not made yet are never made.
Crash(w) == /\ "crash" \in Disturbances
            /\ pc[w] \notin {"idle", "done"}
            /\ Recycle(w)

\* One invocation slot, and no replica that lags: what some properties need.
Serial == ~Lag /\ \A v, w \in Workers : v = w
=============================================================================
