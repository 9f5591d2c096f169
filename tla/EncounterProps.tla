--------------------------- MODULE EncounterProps ---------------------------
(***************************************************************************)
(* What is claimed of the encounter endpoints.                             *)
(***************************************************************************)
EXTENDS Encounters

\* Every variable holds values of its kind, and a worker has a request and a
\* document exactly where its handler needs them.
TypeOK ==
  /\ table   \in [Key -> Doc \cup {None}]
  /\ replica \in [Key -> Doc \cup {None}]
  /\ pc  \in [Workers -> Places]
  /\ req \in [Workers -> Requests \cup {None}]
  /\ doc \in [Workers -> Doc \cup {None}]
  /\ tries \in [Workers -> 0 .. MaxAttempts - 1]
  /\ code  \in [Workers -> Codes \cup {None}]
  /\ role  \in [Users \X Campaigns -> Roles]
  /\ party \in [Key -> SUBSET {Loot[b] : b \in Bodies}]
  /\ wrote \in [Workers -> BOOLEAN]
  /\ versions \in [Key -> SUBSET Doc]
  /\ gms \subseteq Users \X Campaigns
  /\ authors \subseteq Users \X Campaigns
  /\ \A w \in Workers :
       /\ pc[w] # "idle" => req[w] \in Requests
       /\ pc[w] \in {"put", "push"} => doc[w] \in Doc
       /\ pc[w] = "done" => code[w] \in Codes

-----------------------------------------------------------------------------
(* Documents.                                                              *)

Stored == {d \in {table[k] : k \in Key} : d # None}

\* Store.Put takes the key from the document and requireGM looked at the URL
\* (encounters.go:35, store.go:97): the document a handler is about to store
\* always belongs to the campaign and the id of its request's URL.
WritesGoToTheURL == \A w \in Workers : doc[w] # None => doc[w].key = KeyOf(req[w])

\* ReleasedAt is set exactly on released documents, although an update copies
\* it unseen from what it read while releases commit (encounters.go:162-167).
StampIffReleased ==
  \A d \in Stored : d.status = "released" <=> d.released_at

\* A stored released document has no gaps unless its release was forced, even
\* when an edit was under way as the gate looked (encounters.go:197-210).
ReleasedIsComplete ==
  \A d \in Stored : d.status = "released" => d.forced \/ d.body \notin Gappy

-----------------------------------------------------------------------------
(* Answers.                                                                *)

Mutations == {"create", "update", "delete", "release"}

\* A success answer to a mutation means that it reached the table, and a
\* refusal (a 4xx, or the 502 of an unreachable lets-roll) that it did not,
\* across retried attempts.  A 500 means neither.
AnswersAreHonest ==
  \A w \in Workers : pc[w] = "done" =>
    /\ code[w] \in {200, 201, 204} /\ req[w].op \in Mutations => wrote[w]
    /\ code[w] \in {400, 403, 404, 409, 422, 502} => ~wrote[w]

\* A campaign is only ever changed for callers who were its GM at some time,
\* although the gate and the write are separate calls and the write's key does
\* not come from the URL the gate looked at.
AuthorsWereGMs == authors \subseteq gms

-----------------------------------------------------------------------------
(* The loot handed to the party.                                           *)

ReleasedVersions(k) == {d \in versions[k] : d.status = "released"}

\* Loot is pushed only for a release that was stored under the same key, with
\* the body that release stored (encounters.go:214-217).
PushAfterCommit ==
  \A k \in Key : party[k] \subseteq {Loot[d.body] : d \in ReleasedVersions(k)}

\* While nothing runs concurrently and reads are current, what the party got
\* for a key that still holds an encounter is the loot of the released
\* document stored there.
PartyMatchesRecord ==
  \A k \in Key : party[k] # {} /\ table[k] # None =>
    table[k].status = "released" /\ party[k] = {Loot[table[k].body]}

\* Nothing but a delete takes a released document away, or changes its body
\* (the update handler's "encounter is released and can no longer be edited").
Frozen(d, e) == e # None => e.status = "released" /\ e.body = d.body

ReleasedImmutable ==
  [][\A k \in Key : table[k] # None /\ table[k].status = "released"
                      => Frozen(table[k], table'[k])]_vars

\* What was deleted does not come back.
DeletedStaysDeleted ==
  [][\A k \in Key : versions[k] # {} /\ table[k] = None => table'[k] = None]_vars

-----------------------------------------------------------------------------
(* Abstract specifications.                                                *)

L == INSTANCE Lineage
RefinesLineage == L!Spec

C == INSTANCE Lifecycle WITH used <- {k \in Key : versions[k] # {}}
RefinesLifecycle == C!Spec

-----------------------------------------------------------------------------
(* Progress.                                                               *)

\* An admitted request is answered, unless its invocation is killed.
EveryRequestAnswered ==
  \A w \in Workers : pc[w] = "handler" ~> pc[w] \in {"done", "idle"}

\* While nothing is killed and pushes succeed, the loot of a release that is
\* about to be stored reaches the party, or its client is told of a failure:
\* no race and no repeated call loses it in silence (encounters.go:210-227).
LootDelivered ==
  \A w \in Workers, k \in Key, b \in Bodies :
    (/\ At(w, "put", "release")
     /\ KeyOf(req[w]) = k
     /\ doc[w].body = b)
      ~> \/ Loot[b] \in party[k]
         \/ pc[w] = "done" /\ code[w] = 500
=============================================================================
