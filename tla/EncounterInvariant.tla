------------------------- MODULE EncounterInvariant -------------------------
(***************************************************************************)
(* Why the safety properties of the encounter endpoints hold: what is true *)
(* of every document ever stored, of every document a handler holds, of    *)
(* every request that passed the gate, and of every answer.                *)
(***************************************************************************)
EXTENDS EncounterProps

\* A document as the handlers mean it to be: stamped exactly when it is
\* released, and released complete unless that was forced.
WellFormed(d) ==
  /\ d.status = "released" <=> d.released_at
  /\ d.status = "released" => d.forced \/ d.body \notin Gappy

Holding(w) == pc[w] \in {"put", "push"}

\* What was ever stored under a key belongs there and is well formed, and the
\* table and its replica hold nothing else.
HistoryOK ==
  \A k \in Key :
    /\ \A d \in versions[k] : d.key = k /\ WellFormed(d)
    /\ table[k]   \in versions[k] \cup {None}
    /\ replica[k] \in versions[k] \cup {None}

\* A handler holds a document only while it stores or pushes it; the document
\* is well formed and is the one its URL names; a release holds a released
\* one, and has stored it by the time it pushes.
InFlightOK ==
  \A w \in Workers :
    /\ doc[w] # None => Holding(w)
    /\ Holding(w) => doc[w].key = KeyOf(req[w]) /\ WellFormed(doc[w])
    /\ At(w, "put", "release") => doc[w].status = "released"
    /\ pc[w] = "push" => doc[w] \in ReleasedVersions(KeyOf(req[w]))

\* Each document is sound, wherever it is, and the party only ever got loot
\* that was committed first.
DocumentsSound == HistoryOK /\ InFlightOK /\ PushAfterCommit

\* A request that is being handled came from a caller who was GM.
GateSound ==
  /\ \A m \in Users \X Campaigns : role[m] = "gm" => m \in gms
  /\ \A w \in Workers : pc[w] \in {"handler", "put", "push"} => Member(req[w]) \in gms
  /\ AuthorsWereGMs

\* Up to its first store call a request has written nothing (a delete repeats
\* its only call from the handler); by the time it pushes it has.
BookkeepingSound ==
  /\ \A w \in Workers :
       /\ pc[w] = "idle" => ~wrote[w]
       /\ pc[w] = "handler" /\ req[w].op # "delete" => ~wrote[w]
       /\ pc[w] = "push" => wrote[w]
  /\ AnswersAreHonest

Sound == DocumentsSound /\ GateSound /\ BookkeepingSound

Creating(w) == pc[w] # "idle" /\ req[w].op = "create"

\* Why Lineage is implemented: the document a handler is about to store may be
\* written there and then, however long ago it was read.  That rests on fresh
\* ids: where nothing was stored yet only a create has anything to store, and
\* no other create runs under its id.
DescentOK ==
  /\ \A w \in Workers : pc[w] = "put" =>
       /\ doc[w] \in L!Writable(KeyOf(req[w]))
       /\ versions[KeyOf(req[w])] = {} => Creating(w)
  /\ \A w \in Workers : At(w, "handler", "create") => versions[KeyOf(req[w])] = {}
  /\ \A v, w \in Workers : v # w /\ Creating(v) /\ Creating(w) => req[v].id # req[w].id
=============================================================================
