------------------------------ MODULE Chapters ------------------------------
(***************************************************************************)
(* The chapter endpoints of internal/api/chapters.go, behind the same gate *)
(* as the encounters (modelled in Encounters) and over the same store.     *)
(* A chapter holds what its requests set; a request leaves some fields out *)
(* and means different things by that: order and map_positions are kept,   *)
(* the party fields are cleared.                                           *)
(***************************************************************************)
EXTENDS Invocations

CONSTANTS Names,      \* chapter names
          Orders,     \* positions in the sidebar
          Parties,    \* expected party level and size
          Maps,       \* layouts of the chapter map
          Omitted,    \* a field the request does not mention
          NoOrder,    \* the zero value of Order
          Malformed,  \* a body decodeBody or Validate turns down
          Bodies      \* the bodies the clients of this instance send

ASSUME OrdersAssumption  == NoOrder \in Orders
ASSUME OmittedAssumption == Omitted \notin Orders \cup Maps
\* A party or a layout that is not set is None (a nil field).
Chapter == [key : Key, name : Names, order : Orders,
            party : Parties \cup {None}, map : Maps \cup {None}]

\* Leaving the party out and sending null are the same nil pointer.
ChapterInput == [name : Names, order : Orders \cup {Omitted},
                 party : Parties \cup {None}, map : Maps \cup {Omitted}]

ASSUME BodiesAssumption == /\ Malformed \notin ChapterInput
                           /\ Bodies \subseteq ChapterInput \cup {Malformed}

Requests ==
  [op : {"create", "update"}, camp : Campaigns, id : Ids, body : Bodies]
  \cup [op : {"delete"}, camp : Campaigns, id : Ids, body : {None}]

VARIABLE versions   \* history: key -> every chapter ever stored there

vars == <<tableVars, workerVars, versions>>

Init == /\ TableInit
        /\ WorkersInit
        /\ versions = [k \in Key |-> {}]

LocalOnly == UNCHANGED <<tableVars, wrote, versions>>

\* A new id is one nothing was or is being created under.
Fresh(i) == /\ \A c \in Campaigns : versions[<<c, i>>] = {}
            /\ \A w \in Workers : pc[w] # "idle" => req[w].id # i

Admit(w, r) == /\ r.op = "create" => Fresh(r.id)
               /\ Begin(w, r)
               /\ LocalOnly

Supplied(value, default) == IF value = Omitted THEN default ELSE value

\* Mutant: an order that was not sent is not defaulted.
NewChapterUndefaulted(k, in) ==
  [key |-> k, name |-> in.name, order |-> in.order,
   party |-> in.party, map |-> Supplied(in.map, None)]

NewChapter(k, in) ==
  [key |-> k, name |-> in.name, order |-> Supplied(in.order, NoOrder),
   party |-> in.party, map |-> Supplied(in.map, None)]

\* Mutant: an update that clears the party keeps it.
UpdatedChapterSticky(ch, in) ==
  [ch EXCEPT !.name  = in.name,
             !.order = Supplied(in.order, @),
             !.party = IF in.party = None THEN @ ELSE in.party,
             !.map   = Supplied(in.map, @)]

UpdatedChapter(ch, in) ==
  [ch EXCEPT !.name  = in.name,
             !.order = Supplied(in.order, @),
             !.party = in.party,
             !.map   = Supplied(in.map, @)]

CreateChapter(w) ==
  /\ At(w, "handler", "create")
  /\ \/ req[w].body = Malformed /\ Answer(w, 400)
     \/ /\ req[w].body # Malformed
        /\ GoPut(w, NewChapter(KeyOf(req[w]), req[w].body))
  /\ LocalOnly

\* The chapter is loaded before the body is decoded.
UpdateChapter(w) ==
  /\ At(w, "handler", "update")
  /\ \/ NotLoaded(w)
     \/ Loadable(w) # {} /\ req[w].body = Malformed /\ Answer(w, 400)
     \/ /\ req[w].body # Malformed
        /\ \E ch \in Loadable(w) : GoPut(w, UpdatedChapter(ch, req[w].body))
  /\ LocalOnly

StorePut(w) ==
  /\ PutLands(w)
  /\ versions' = [versions EXCEPT ![doc[w].key] = @ \cup {doc[w]}]

StoreDelete(w) == DeleteLands(w) /\ UNCHANGED versions

PutAcknowledged(w) ==
  /\ pc[w] = "put"
  /\ StorePut(w)
  /\ Answer(w, IF req[w].op = "create" THEN 201 ELSE 200)

\* Mutant: the error of PutChapter is dropped.
PutUnansweredIgnored(w) ==
  /\ pc[w] = "put"
  /\ "store" \in Disturbances
  /\ StorePut(w) \/ LocalOnly
  /\ Answer(w, IF req[w].op = "create" THEN 201 ELSE 200)

PutUnanswered(w) == /\ pc[w] = "put"
                    /\ StorePut(w) \/ LocalOnly
                    /\ Unanswered(w)

\* Encounters that refer to the chapter are left alone.
DeleteChapter(w) ==
  /\ At(w, "handler", "delete")
  /\ \/ StoreDelete(w) /\ Answer(w, 204)
     \/ (StoreDelete(w) \/ LocalOnly) /\ Unanswered(w)

Finished(w) == Finish(w) /\ UNCHANGED versions
Killed(w)   == Crash(w)  /\ UNCHANGED versions

ReplicaCatchesUp(k) == Replicate(k) /\ UNCHANGED <<workerVars, versions>>

Step(w) == \/ CreateChapter(w)
           \/ UpdateChapter(w)
           \/ PutAcknowledged(w)
           \/ PutUnanswered(w)
           \/ DeleteChapter(w)
           \/ Finished(w)

Next == \/ \E w \in Workers : \/ \E r \in Requests : Admit(w, r)
                              \/ Step(w)
                              \/ Killed(w)
        \/ \E k \in Key : ReplicaCatchesUp(k)

Spec == Init /\ [][Next]_vars
FairSpec == Spec /\ \A w \in Workers : WF_vars(Step(w))

-----------------------------------------------------------------------------

TypeOK ==
  /\ table   \in [Key -> Chapter \cup {None}]
  /\ replica \in [Key -> Chapter \cup {None}]
  /\ pc  \in [Workers -> Places]
  /\ req \in [Workers -> Requests \cup {None}]
  /\ doc \in [Workers -> Chapter \cup {None}]
  /\ tries \in [Workers -> 0 .. MaxAttempts - 1]
  /\ code  \in [Workers -> Codes \cup {None}]
  /\ wrote \in [Workers -> BOOLEAN]
  /\ versions \in [Key -> SUBSET Chapter]
=============================================================================
