----------------------------- MODULE Encounters -----------------------------
(***************************************************************************)
(* The encounter endpoints of internal/api/encounters.go.                  *)
(*                                                                         *)
(* A request is gated by requireGM; then its handler reads the table,      *)
(* decides, writes the table and, for a release, calls party-treasure.     *)
(* Each of those calls is a step of its own, so requests interleave        *)
(* between them.  There is no lock, no version check and no condition on   *)
(* the writes in the code, and none here.                                  *)
(***************************************************************************)
EXTENDS Invocations, EncounterDocs

CONSTANTS Users,          \* callers with a valid bearer token
          Sent,           \* the requests the clients of this instance send
          Malformed,      \* a body decodeBody or Validate turns down
          PushConfigured  \* PARTY_TREASURE_URL is set

ASSUME MalformedAssumption      == Malformed \notin Bodies
ASSUME PushConfiguredAssumption == PushConfigured \in BOOLEAN

Inputs == Bodies \cup {Malformed}

\* The requests a client can send.  A create carries the id newID will draw:
\* when a random id is drawn makes no difference to what it is.
Shape(op, body, status, force) ==
  [op : {op}, user : Users, camp : Campaigns, id : Ids,
   body : body, status : status, force : force]

Requests == UNION {
  Shape("create",  Inputs, {""}, {FALSE}),
  Shape("get",     {None}, {""}, {FALSE}),
  Shape("update",  Inputs, {"", "draft", "run", "released"}, {FALSE}),
  Shape("delete",  {None}, {""}, {FALSE}),
  Shape("release", {None}, {""}, BOOLEAN)}

ASSUME SentAssumption == Sent \subseteq Requests

Roles == {"gm", "player", "stranger"}

VARIABLES
  role,      \* <<user, campaign>> -> what lets-roll would answer now
  party,     \* key -> the loot party-treasure was sent under that key
  \* The rest is history, read by no action but the draw of a fresh id:
  versions,  \* key -> every document ever stored there
  gms,       \* the <<user, campaign>> pairs that were ever GM
  authors    \* the <<user, campaign>> pairs whose request changed the campaign

historyVars == <<versions, gms, authors>>
vars == <<tableVars, workerVars, role, party, historyVars>>

Init == /\ TableInit
        /\ WorkersInit
        /\ role \in [Users \X Campaigns -> Roles]
        /\ party = [k \in Key |-> {}]
        /\ versions = [k \in Key |-> {}]
        /\ gms = {m \in Users \X Campaigns : role[m] = "gm"}
        /\ authors = {}

\* Nothing outside the worker changes.
LocalOnly == UNCHANGED <<tableVars, wrote, role, party, historyVars>>

-----------------------------------------------------------------------------
(* requireGM: lets-roll is asked, as the caller, once and before anything  *)
(* else.  What it answers is what held when the request arrived.           *)

\* The caller's membership of the URL's campaign.
Member(r) == <<r.user, r.camp>>

\* Mutant: only what is stored is told apart.
FreshStoredOnly(i) == \A c \in Campaigns : versions[<<c, i>>] = {}

\* newID draws 16 random bytes: an id nothing was or is being created under.
Fresh(i) == /\ \A c \in Campaigns : versions[<<c, i>>] = {}
            /\ \A w \in Workers : pc[w] # "idle" => req[w].id # i

Sendable(r) == r \in Sent /\ (r.op = "create" => Fresh(r.id))

\* Mutant: the gate fails open.
LetsRollFailsOpen(w, r) == /\ "letsroll" \in Disturbances
                           /\ Sendable(r)
                           /\ Begin(w, r)
                           /\ LocalOnly

\* A lets-roll failure is a 502, never a silent allow.
LetsRollFails(w, r) == /\ "letsroll" \in Disturbances
                       /\ Sendable(r)
                       /\ Refuse(w, r, 502)
                       /\ LocalOnly

\* lets-roll knows no such game, or shows it to a member who is not its GM.
NotGM(w, r) == /\ Sendable(r)
               /\ role[Member(r)] # "gm"
               /\ Refuse(w, r, 403)
               /\ LocalOnly

\* Mutant: membership is enough.
AdmitMember(w, r) == /\ Sendable(r)
                     /\ role[Member(r)] # "stranger"
                     /\ Begin(w, r)
                     /\ LocalOnly

Admit(w, r) == /\ Sendable(r)
               /\ role[Member(r)] = "gm"
               /\ Begin(w, r)
               /\ LocalOnly

-----------------------------------------------------------------------------
(* The handlers up to their first write.                                   *)

CreateEncounter(w) ==
  /\ At(w, "handler", "create")
  /\ \/ /\ req[w].body = Malformed
        /\ Answer(w, 400)
     \/ /\ req[w].body # Malformed
        /\ GoPut(w, NewDoc(KeyOf(req[w]), req[w].body))
  /\ LocalOnly

GetEncounter(w) ==
  /\ At(w, "handler", "get")
  /\ NotLoaded(w) \/ (Loadable(w) # {} /\ Answer(w, 200))
  /\ LocalOnly

\* Mutant: no released check.
UpdateFoundUnchecked(w, d) ==
  LET r == req[w] IN
  \/ (r.body = Malformed \/ r.status = "released") /\ Answer(w, 400)
  \/ /\ r.body # Malformed
     /\ r.status # "released"
     /\ GoPut(w, EditedDoc(d, r.body, r.status))

\* Mutant: an update may set any status.
UpdateFoundAnyStatus(w, d) ==
  LET r == req[w] IN
  \/ d.status = "released" /\ Answer(w, 409)
  \/ d.status # "released" /\ r.body = Malformed /\ Answer(w, 400)
  \/ /\ d.status # "released"
     /\ r.body # Malformed
     /\ GoPut(w, EditedDoc(d, r.body, r.status))

\* The released check comes before the body is even decoded.
UpdateFound(w, d) ==
  LET r == req[w] IN
  \/ d.status = "released" /\ Answer(w, 409)
  \/ /\ d.status # "released"
     /\ r.body = Malformed \/ r.status = "released"
     /\ Answer(w, 400)
  \/ /\ d.status # "released"
     /\ r.body # Malformed
     /\ r.status # "released"
     /\ GoPut(w, EditedDoc(d, r.body, r.status))

UpdateEncounter(w) ==
  /\ At(w, "handler", "update")
  /\ NotLoaded(w) \/ \E d \in Loadable(w) : UpdateFound(w, d)
  /\ LocalOnly

\* Mutant: no completeness gate.
ReleaseFoundUngated(w, d) ==
  \/ d.status = "released" /\ Answer(w, 409)
  \/ d.status # "released" /\ GoPut(w, ReleasedDoc(d, req[w].force))

\* The completeness gate applies unless the caller forces the release.
ReleaseFound(w, d) ==
  \/ d.status = "released" /\ Answer(w, 409)
  \/ /\ d.status # "released"
     /\ ~req[w].force
     /\ d.body \in Gappy
     /\ Answer(w, 422)
  \/ /\ d.status # "released"
     /\ req[w].force \/ d.body \notin Gappy
     /\ GoPut(w, ReleasedDoc(d, req[w].force))

\* Mutant: the loot is pushed before the release is stored.
ReleaseEncounterPushFirst(w) ==
  /\ At(w, "handler", "release")
  /\ \E d \in Loadable(w) :
       /\ d.status # "released"
       /\ GoPut(w, ReleasedDoc(d, req[w].force))
       /\ party' = [party EXCEPT ![d.key] = @ \cup {Loot[d.body]}]
  /\ UNCHANGED <<tableVars, wrote, role, historyVars>>

ReleaseEncounter(w) ==
  /\ At(w, "handler", "release")
  /\ NotLoaded(w) \/ \E d \in Loadable(w) : ReleaseFound(w, d)
  /\ LocalOnly

-----------------------------------------------------------------------------
(* The writes, and the push.                                               *)

\* What history keeps of w's attempt at writing to campaign c.
Record(w, c, written) ==
  /\ versions' = written
  /\ authors'  = authors \cup {<<req[w].user, c>>}
  /\ UNCHANGED <<role, party, gms>>

StorePut(w) ==
  /\ PutLands(w)
  /\ Record(w, doc[w].key[1], [versions EXCEPT ![doc[w].key] = @ \cup {doc[w]}])

StoreDelete(w) == DeleteLands(w) /\ Record(w, req[w].camp, versions)

\* Mutant: a release never pushes.
PutReturnedQuiet(w) == Answer(w, IF req[w].op = "create" THEN 201 ELSE 200)

\* Store.Put returned: a create and an update answer; a release goes on to the
\* push, when there is one configured.
PutReturned(w) ==
  \/ req[w].op = "create" /\ Answer(w, 201)
  \/ req[w].op = "update" /\ Answer(w, 200)
  \/ req[w].op = "release" /\ ~PushConfigured /\ Answer(w, 200)
  \/ /\ req[w].op = "release"
     /\ PushConfigured
     /\ pc'    = [pc EXCEPT ![w] = "push"]
     /\ tries' = [tries EXCEPT ![w] = 0]
     /\ UNCHANGED <<req, doc, code>>

PutAcknowledged(w) == pc[w] = "put" /\ StorePut(w) /\ PutReturned(w)

\* Mutant: the error of Store.Put is dropped.
PutUnansweredIgnored(w) == /\ pc[w] = "put"
                           /\ "store" \in Disturbances
                           /\ StorePut(w) \/ LocalOnly
                           /\ PutReturned(w)

PutUnanswered(w) == /\ pc[w] = "put"
                    /\ StorePut(w) \/ LocalOnly
                    /\ Unanswered(w)

DeleteEncounter(w) ==
  /\ At(w, "handler", "delete")
  /\ \/ StoreDelete(w) /\ Answer(w, 204)
     \/ (StoreDelete(w) \/ LocalOnly) /\ Unanswered(w)

\* What the client's one POST comes to: party-treasure has the loot, whether or
\* not its answer arrives, or the push failed on the way (credentials, signature,
\* connection, a status other than 2xx).
PushOutcome(w) ==
  \/ party' = [party EXCEPT ![doc[w].key] = @ \cup {Loot[doc[w].body]}]
  \/ "push" \in Disturbances /\ UNCHANGED party

\* The push is best effort: whatever becomes of it, the release is a 200.
PushRelease(w) ==
  /\ pc[w] = "push"
  /\ PushOutcome(w)
  /\ Answer(w, 200)
  /\ UNCHANGED <<tableVars, wrote, role, historyVars>>

-----------------------------------------------------------------------------
(* Around the handlers.                                                    *)

\* Memberships change in lets-roll at any time.
ChangeRole(m, x) == /\ "roles" \in Disturbances
                    /\ role[m] # x
                    /\ role' = [role EXCEPT ![m] = x]
                    /\ gms'  = IF x = "gm" THEN gms \cup {m} ELSE gms
                    /\ UNCHANGED <<tableVars, workerVars, party, versions, authors>>

ReplicaCatchesUp(k) ==
  Replicate(k) /\ UNCHANGED <<workerVars, role, party, historyVars>>

Arrival(w) ==
  \E r \in Sent : LetsRollFails(w, r) \/ NotGM(w, r) \/ Admit(w, r)

Finished(w) == Finish(w) /\ UNCHANGED <<role, party, historyVars>>
Killed(w)   == Crash(w)  /\ UNCHANGED <<role, party, historyVars>>

\* What a running invocation does next, unless it is killed.
Step(w) == \/ CreateEncounter(w)
           \/ GetEncounter(w)
           \/ UpdateEncounter(w)
           \/ ReleaseEncounter(w)
           \/ PutAcknowledged(w)
           \/ PutUnanswered(w)
           \/ DeleteEncounter(w)
           \/ PushRelease(w)
           \/ Finished(w)

Next == \/ \E w \in Workers : Arrival(w) \/ Step(w) \/ Killed(w)
        \/ \E m \in Users \X Campaigns, x \in Roles : ChangeRole(m, x)
        \/ \E k \in Key : ReplicaCatchesUp(k)

Spec == Init /\ [][Next]_vars

\* A running invocation runs on; nobody has to send a request.
FairSpec == Spec /\ \A w \in Workers : WF_vars(Step(w))
=============================================================================
