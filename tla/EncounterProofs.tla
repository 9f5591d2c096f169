-------------------------- MODULE EncounterProofs ---------------------------
(***************************************************************************)
(* Theorems about the encounter endpoints: type correctness and safety,    *)
(* proved from the invariant of EncounterInvariant for any sets of         *)
(* campaigns, ids, bodies, users and workers, any set of requests sent,    *)
(* any number of attempts, and any of the disturbances; then that they     *)
(* implement Lineage, whatever runs concurrently, is stale, fails or is    *)
(* repeated; and last, what holds besides with one invocation at a time    *)
(* and current reads, crashes, unanswered store calls and failed pushes    *)
(* included: they implement Lifecycle, and the party has the loot of what  *)
(* is on record.                                                           *)
(***************************************************************************)
EXTENDS EncounterInvariant, TLAPS

USE BodiesAssumption, NoneAssumption, MalformedAssumption, SentAssumption,
    MaxAttemptsAssumption

-----------------------------------------------------------------------------
(* What the helpers return.                                                *)

\* A request's fields are of their kinds; an input body that is not turned
\* down is a body, and only an update asks for a status.
LEMMA RequestFields ==
  ASSUME NEW r \in Requests
  PROVE  /\ r.user \in Users
         /\ r.camp \in Campaigns
         /\ r.id \in Ids
         /\ KeyOf(r) \in Key
         /\ Member(r) \in Users \X Campaigns
         /\ r.op \in {"create", "get", "update", "delete", "release"}
         /\ r.op \in {"create", "update"} /\ r.body # Malformed => r.body \in Bodies
         /\ r.op = "update" => r.status \in {"", "draft", "run", "released"}
         /\ r.op = "release" => r.force \in BOOLEAN
<1>1. \/ r \in Shape("create", Inputs, {""}, {FALSE})
      \/ r \in Shape("get", {None}, {""}, {FALSE})
      \/ r \in Shape("update", Inputs, {"", "draft", "run", "released"}, {FALSE})
      \/ r \in Shape("delete", {None}, {""}, {FALSE})
      \/ r \in Shape("release", {None}, {""}, BOOLEAN)
  BY DEF Requests
<1>2. /\ r.user \in Users
      /\ r.camp \in Campaigns
      /\ r.id \in Ids
      /\ r.op \in {"create", "get", "update", "delete", "release"}
  BY <1>1 DEF Shape
<1>3. /\ r.op \in {"create", "update"} => r.body \in Inputs
      /\ r.op = "update" => r.status \in {"", "draft", "run", "released"}
      /\ r.op = "release" => r.force \in BOOLEAN
  BY <1>1 DEF Shape
<1> QED
  BY <1>2, <1>3 DEF Inputs, KeyOf, Member, Key

\* The three ways of making a document make documents.
LEMMA DocsAreDocs ==
  /\ \A k \in Key, b \in Bodies : NewDoc(k, b) \in Doc
  /\ \A d \in Doc, b \in Bodies, s \in {"", "draft", "run"} : EditedDoc(d, b, s) \in Doc
  /\ \A d \in Doc, f \in BOOLEAN : ReleasedDoc(d, f) \in Doc
  BY DEF NewDoc, EditedDoc, ReleasedDoc, Doc, Statuses

-----------------------------------------------------------------------------
(* Type correctness.                                                       *)

\* The initial states are well typed.
LEMMA InitTypeOK == Init => TypeOK
  BY DEF Init, TypeOK, TableInit, WorkersInit, Places

\* What TypeOK says of the workers, and of everything else.
WorkersOK ==
  /\ pc  \in [Workers -> Places]
  /\ req \in [Workers -> Requests \cup {None}]
  /\ doc \in [Workers -> Doc \cup {None}]
  /\ tries \in [Workers -> 0 .. MaxAttempts - 1]
  /\ code  \in [Workers -> Codes \cup {None}]
  /\ \A w \in Workers :
       /\ pc[w] # "idle" => req[w] \in Requests
       /\ pc[w] \in {"put", "push"} => doc[w] \in Doc
       /\ pc[w] = "done" => code[w] \in Codes

OutsideOK ==
  /\ table   \in [Key -> Doc \cup {None}]
  /\ replica \in [Key -> Doc \cup {None}]
  /\ role  \in [Users \X Campaigns -> Roles]
  /\ party \in [Key -> SUBSET {Loot[b] : b \in Bodies}]
  /\ wrote \in [Workers -> BOOLEAN]
  /\ versions \in [Key -> SUBSET Doc]
  /\ gms \subseteq Users \X Campaigns
  /\ authors \subseteq Users \X Campaigns

LEMMA TypeOKSplit == /\ TypeOK  <=> WorkersOK /\ OutsideOK
                     /\ TypeOK' <=> WorkersOK' /\ OutsideOK'
  BY DEF TypeOK, WorkersOK, OutsideOK

\* The shared steps keep the workers well typed.
LEMMA AnswerOK ==
  ASSUME WorkersOK, NEW w \in Workers, pc[w] # "idle", NEW c \in Codes, Answer(w, c)
  PROVE  WorkersOK'
  BY DEF WorkersOK, Answer, Places

LEMMA GoPutOK ==
  ASSUME WorkersOK, NEW w \in Workers, pc[w] # "idle", NEW d \in Doc, GoPut(w, d)
  PROVE  WorkersOK'
  BY DEF WorkersOK, GoPut, Places

LEMMA UnansweredOK ==
  ASSUME WorkersOK, NEW w \in Workers, pc[w] # "idle", Unanswered(w)
  PROVE  WorkersOK'
<1>1. CASE Answer(w, 500)
  BY <1>1, AnswerOK DEF Codes
<1>2. CASE /\ tries[w] + 1 < MaxAttempts
           /\ tries' = [tries EXCEPT ![w] = @ + 1]
           /\ UNCHANGED <<pc, req, doc, code>>
  <2>1. tries[w] \in Nat /\ tries[w] + 1 \in 0 .. MaxAttempts - 1
    BY <1>2 DEF WorkersOK
  <2> QED
    BY <1>2, <2>1 DEF WorkersOK
<1> QED
  BY <1>1, <1>2 DEF Unanswered

LEMMA RecycleOK ==
  ASSUME TypeOK, NEW w \in Workers, Recycle(w), UNCHANGED <<role, party, historyVars>>
  PROVE  TypeOK'
  BY DEF TypeOK, Recycle, Places, tableVars, historyVars

\* A store call that takes effect stores a document, or removes one.
LEMMA StorePutOK ==
  ASSUME TypeOK, NEW w \in Workers, pc[w] = "put", StorePut(w)
  PROVE  OutsideOK'
<1>1. doc[w] \in Doc /\ doc[w].key \in Key /\ doc[w].key[1] \in Campaigns
  BY DEF TypeOK, Doc, Key
<1>2. req[w].user \in Users
  BY RequestFields DEF TypeOK
<1> QED
  BY <1>1, <1>2 DEF TypeOK, OutsideOK, StorePut, PutLands, PutItem, Record

LEMMA StoreDeleteOK ==
  ASSUME TypeOK, NEW w \in Workers, pc[w] = "handler", StoreDelete(w)
  PROVE  OutsideOK'
<1>1. req[w].user \in Users /\ req[w].camp \in Campaigns /\ KeyOf(req[w]) \in Key
  BY RequestFields DEF TypeOK
<1> QED
  BY <1>1 DEF TypeOK, OutsideOK, StoreDelete, DeleteLands, DeleteItem, Record

LEMMA LocalOnlyOK == ASSUME OutsideOK, LocalOnly PROVE OutsideOK'
  BY DEF OutsideOK, LocalOnly, tableVars, historyVars

\* What a read may return is a document, when it is anything.
LEMMA LoadableIsDoc ==
  ASSUME TypeOK, NEW w \in Workers, pc[w] # "idle"
  PROVE  Loadable(w) \subseteq Doc
<1>1. KeyOf(req[w]) \in Key
  BY RequestFields DEF TypeOK
<1> QED
  BY <1>1 DEF TypeOK, Loadable, GetItem

LEMMA NotLoadedOK ==
  ASSUME WorkersOK, NEW w \in Workers, pc[w] # "idle", NotLoaded(w)
  PROVE  WorkersOK'
  BY AnswerOK DEF NotLoaded, Codes

\* Every step keeps every variable well typed.
LEMMA NextTypeOK == TypeOK /\ [Next]_vars => TypeOK'
<1> SUFFICES ASSUME TypeOK, Next PROVE TypeOK'
  BY DEF TypeOK, vars, tableVars, workerVars, historyVars
<1> USE TypeOKSplit
<1>1. ASSUME NEW w \in Workers, Arrival(w) PROVE TypeOK'
  <2>1. PICK r \in Sent : LetsRollFails(w, r) \/ NotGM(w, r) \/ Admit(w, r)
    BY <1>1 DEF Arrival
  <2>2. r \in Requests
    OBVIOUS
  <2>3. LocalOnly
    BY <2>1 DEF LetsRollFails, NotGM, Admit
  <2>4. CASE Begin(w, r)
    <3>1. WorkersOK'
      BY <2>2, <2>4 DEF WorkersOK, Begin, Places
    <3> QED
      BY <2>3, <3>1, LocalOnlyOK
  <2>5. CASE \E c \in {403, 502} : Refuse(w, r, c)
    <3>1. WorkersOK'
      BY <2>2, <2>5 DEF WorkersOK, Refuse, Places, Codes
    <3> QED
      BY <2>3, <3>1, LocalOnlyOK
  <2> QED
    BY <2>1, <2>4, <2>5 DEF LetsRollFails, NotGM, Admit
<1>2. ASSUME NEW w \in Workers, CreateEncounter(w) PROVE TypeOK'
  <2>1. pc[w] # "idle" /\ req[w] \in Requests /\ req[w].op = "create"
    BY <1>2 DEF CreateEncounter, At, TypeOK
  <2>2. CASE Answer(w, 400)
    BY <1>2, <2>1, <2>2, AnswerOK, LocalOnlyOK DEF CreateEncounter, Codes
  <2>3. CASE req[w].body # Malformed /\ GoPut(w, NewDoc(KeyOf(req[w]), req[w].body))
    BY <1>2, <2>1, <2>3, RequestFields, DocsAreDocs, GoPutOK, LocalOnlyOK
    DEF CreateEncounter
  <2> QED
    BY <1>2, <2>2, <2>3 DEF CreateEncounter
<1>3. ASSUME NEW w \in Workers, GetEncounter(w) PROVE TypeOK'
  <2>1. pc[w] # "idle"
    BY <1>3 DEF GetEncounter, At
  <2> QED
    BY <1>3, <2>1, NotLoadedOK, AnswerOK, LocalOnlyOK DEF GetEncounter, Codes
<1>4. ASSUME NEW w \in Workers, UpdateEncounter(w) PROVE TypeOK'
  <2>1. pc[w] # "idle" /\ req[w] \in Requests /\ req[w].op = "update"
    BY <1>4 DEF UpdateEncounter, At, TypeOK
  <2>2. OutsideOK'
    BY <1>4, LocalOnlyOK DEF UpdateEncounter
  <2>3. CASE NotLoaded(w)
    BY <2>1, <2>2, <2>3, NotLoadedOK
  <2>4. ASSUME NEW d \in Loadable(w), UpdateFound(w, d) PROVE TypeOK'
    <3>1. d \in Doc
      BY <2>1, LoadableIsDoc
    <3>2. CASE Answer(w, 409) \/ Answer(w, 400)
      BY <2>1, <2>2, <3>2, AnswerOK DEF Codes
    <3>3. CASE /\ req[w].body # Malformed
               /\ req[w].status # "released"
               /\ GoPut(w, EditedDoc(d, req[w].body, req[w].status))
      <4>1. EditedDoc(d, req[w].body, req[w].status) \in Doc
        BY <2>1, <3>1, <3>3, RequestFields, DocsAreDocs
      <4> QED
        BY <2>1, <2>2, <3>3, <4>1, GoPutOK
    <3> QED
      BY <2>4, <3>2, <3>3 DEF UpdateFound
  <2> QED
    BY <1>4, <2>3, <2>4 DEF UpdateEncounter
<1>5. ASSUME NEW w \in Workers, ReleaseEncounter(w) PROVE TypeOK'
  <2>1. pc[w] # "idle" /\ req[w] \in Requests /\ req[w].op = "release"
    BY <1>5 DEF ReleaseEncounter, At, TypeOK
  <2>2. OutsideOK'
    BY <1>5, LocalOnlyOK DEF ReleaseEncounter
  <2>3. CASE NotLoaded(w)
    BY <2>1, <2>2, <2>3, NotLoadedOK
  <2>4. ASSUME NEW d \in Loadable(w), ReleaseFound(w, d) PROVE TypeOK'
    <3>1. d \in Doc /\ req[w].force \in BOOLEAN
      BY <2>1, LoadableIsDoc, RequestFields
    <3>2. CASE Answer(w, 409) \/ Answer(w, 422)
      BY <2>1, <2>2, <3>2, AnswerOK DEF Codes
    <3>3. CASE GoPut(w, ReleasedDoc(d, req[w].force))
      BY <2>1, <2>2, <3>1, <3>3, DocsAreDocs, GoPutOK
    <3> QED
      BY <2>4, <3>2, <3>3 DEF ReleaseFound
  <2> QED
    BY <1>5, <2>3, <2>4 DEF ReleaseEncounter
<1>6. ASSUME NEW w \in Workers, PutAcknowledged(w) PROVE TypeOK'
  <2>1. pc[w] = "put" /\ StorePut(w) /\ PutReturned(w)
    BY <1>6 DEF PutAcknowledged
  <2>2. CASE Answer(w, 200) \/ Answer(w, 201)
    BY <2>1, <2>2, StorePutOK, AnswerOK DEF Codes
  <2>3. CASE /\ pc'    = [pc EXCEPT ![w] = "push"]
             /\ tries' = [tries EXCEPT ![w] = 0]
             /\ UNCHANGED <<req, doc, code>>
    <3>1. WorkersOK'
      BY <2>1, <2>3 DEF WorkersOK, Places
    <3> QED
      BY <2>1, <3>1, StorePutOK
  <2> QED
    BY <2>1, <2>2, <2>3 DEF PutReturned
<1>7. ASSUME NEW w \in Workers, PutUnanswered(w) PROVE TypeOK'
  BY <1>7, StorePutOK, LocalOnlyOK, UnansweredOK DEF PutUnanswered
<1>8. ASSUME NEW w \in Workers, DeleteEncounter(w) PROVE TypeOK'
  <2>1. pc[w] = "handler"
    BY <1>8 DEF DeleteEncounter, At
  <2>2. OutsideOK'
    BY <1>8, <2>1, StoreDeleteOK, LocalOnlyOK DEF DeleteEncounter
  <2> QED
    BY <1>8, <2>1, <2>2, AnswerOK, UnansweredOK DEF DeleteEncounter, Codes
<1>9. ASSUME NEW w \in Workers, PushRelease(w) PROVE TypeOK'
  <2>1. pc[w] = "push" /\ Answer(w, 200)
    BY <1>9 DEF PushRelease, PushOutcome
  <2>2. doc[w].key \in Key /\ doc[w].body \in Bodies
    BY <2>1 DEF TypeOK, Doc
  <2>3. OutsideOK'
    BY <1>9, <2>2 DEF OutsideOK, PushRelease, PushOutcome, tableVars, historyVars
  <2> QED
    BY <2>1, <2>3, AnswerOK DEF Codes
<1>10. ASSUME NEW w \in Workers, Finished(w) \/ Killed(w) PROVE TypeOK'
  BY <1>10, RecycleOK DEF Finished, Killed, Finish, Crash
<1>11. ASSUME NEW m \in Users \X Campaigns, NEW x \in Roles, ChangeRole(m, x)
       PROVE  TypeOK'
  BY <1>11 DEF TypeOK, ChangeRole, tableVars, workerVars
<1>12. ASSUME NEW k \in Key, ReplicaCatchesUp(k) PROVE TypeOK'
  BY <1>12 DEF TypeOK, ReplicaCatchesUp, Replicate, workerVars, historyVars
<1> QED
  BY <1>1, <1>2, <1>3, <1>4, <1>5, <1>6, <1>7, <1>8, <1>9, <1>10, <1>11, <1>12
  DEF Next, Step

\* Every variable always holds values of its kind.
THEOREM TypeCorrect == Spec => []TypeOK
  BY InitTypeOK, NextTypeOK, PTL DEF Spec

-----------------------------------------------------------------------------
(* Documents.  First what the steps the actions share do to them.          *)

Grows == \A k \in Key : versions[k] \subseteq versions'[k]

\* Steps that leave the store and the party alone leave their history alone.
LEMMA LocalKeepsHistory ==
  ASSUME HistoryOK, PushAfterCommit, UNCHANGED <<tableVars, party, versions>>
  PROVE  HistoryOK' /\ PushAfterCommit' /\ Grows
  BY DEF HistoryOK, PushAfterCommit, ReleasedVersions, WellFormed, Grows, tableVars

\* A put that takes effect adds a sound document under its URL's key.
LEMMA PutKeepsHistory ==
  ASSUME TypeOK, DocumentsSound, NEW w \in Workers, pc[w] = "put", StorePut(w)
  PROVE  /\ HistoryOK' /\ PushAfterCommit' /\ Grows
         /\ doc[w] \in versions'[KeyOf(req[w])]
<1> DEFINE k == doc[w].key
<1>1. doc[w] \in Doc /\ k \in Key /\ k = KeyOf(req[w]) /\ WellFormed(doc[w])
  BY DEF TypeOK, DocumentsSound, InFlightOK, Holding, Doc
<1>2. /\ table' = [table EXCEPT ![k] = doc[w]]
      /\ versions' = [versions EXCEPT ![k] = @ \cup {doc[w]}]
      /\ UNCHANGED <<replica, party>>
  BY DEF StorePut, PutLands, PutItem, Record
<1>3. Grows /\ doc[w] \in versions'[k]
  BY <1>1, <1>2 DEF TypeOK, Grows
<1>4. HistoryOK'
  BY <1>1, <1>2 DEF TypeOK, DocumentsSound, HistoryOK, WellFormed
<1>5. PushAfterCommit'
  BY <1>2, <1>3 DEF DocumentsSound, PushAfterCommit, ReleasedVersions, Grows
<1> QED
  BY <1>1, <1>3, <1>4, <1>5

\* A delete that takes effect leaves history alone.
LEMMA DeleteKeepsHistory ==
  ASSUME TypeOK, DocumentsSound, NEW w \in Workers, StoreDelete(w)
  PROVE  HistoryOK' /\ PushAfterCommit' /\ Grows
<1>1. /\ table' = [table EXCEPT ![KeyOf(req[w])] = None]
      /\ UNCHANGED <<replica, party, versions>>
  BY DEF StoreDelete, DeleteLands, DeleteItem, Record
<1>2. HistoryOK'
  BY <1>1 DEF TypeOK, DocumentsSound, HistoryOK, WellFormed
<1> QED
  BY <1>1, <1>2 DEF DocumentsSound, PushAfterCommit, ReleasedVersions, Grows

\* A request taken up or answered holds no document.
LEMMA TakenUpInFlight ==
  ASSUME TypeOK, InFlightOK, Grows, NEW w \in Workers, NEW r \in Requests,
         Begin(w, r) \/ \E c \in Codes : Refuse(w, r, c)
  PROVE  InFlightOK'
<1>1. doc' = doc /\ doc[w] = None /\ pc'[w] \in {"handler", "done"}
  BY DEF TypeOK, InFlightOK, Holding, Begin, Refuse
<1>2. \A v \in Workers \ {w} : pc'[v] = pc[v] /\ req'[v] = req[v]
  BY DEF TypeOK, Begin, Refuse
<1>3. \A v \in Workers : pc[v] = "push" => KeyOf(req[v]) \in Key
  BY RequestFields DEF TypeOK
<1> QED
  BY <1>1, <1>2, <1>3
  DEF InFlightOK, Holding, At, KeyOf, WellFormed, ReleasedVersions, Grows

LEMMA AnswerInFlight ==
  ASSUME TypeOK, InFlightOK, Grows, NEW w \in Workers, NEW c, Answer(w, c)
  PROVE  InFlightOK'
<1>1. doc'[w] = None /\ pc'[w] = "done" /\ req' = req
  BY DEF TypeOK, Answer
<1>2. \A v \in Workers \ {w} : pc'[v] = pc[v] /\ doc'[v] = doc[v]
  BY DEF TypeOK, Answer
<1>3. \A v \in Workers : pc[v] = "push" => KeyOf(req[v]) \in Key
  BY RequestFields DEF TypeOK
<1> QED
  BY <1>1, <1>2, <1>3
  DEF InFlightOK, Holding, At, KeyOf, WellFormed, ReleasedVersions, Grows

\* A handler goes on with a sound document.
LEMMA GoPutInFlight ==
  ASSUME TypeOK, InFlightOK, Grows, NEW w \in Workers, NEW d \in Doc, GoPut(w, d),
         d.key = KeyOf(req[w]), WellFormed(d),
         req[w].op = "release" => d.status = "released"
  PROVE  InFlightOK'
<1>1. doc'[w] = d /\ pc'[w] = "put" /\ req' = req
  BY DEF TypeOK, GoPut
<1>2. \A v \in Workers \ {w} : pc'[v] = pc[v] /\ doc'[v] = doc[v]
  BY DEF TypeOK, GoPut
<1>3. \A v \in Workers : pc[v] = "push" => KeyOf(req[v]) \in Key
  BY RequestFields DEF TypeOK
<1> QED
  BY <1>1, <1>2, <1>3
  DEF InFlightOK, Holding, At, KeyOf, WellFormed, ReleasedVersions, Grows

\* An attempt without an answer is repeated with the same document, or given up.
LEMMA UnansweredInFlight ==
  ASSUME TypeOK, InFlightOK, Grows, NEW w \in Workers, Unanswered(w)
  PROVE  InFlightOK'
<1>1. CASE Answer(w, 500)
  BY <1>1, AnswerInFlight
<1>2. CASE UNCHANGED <<pc, req, doc, code>>
  <2>1. \A v \in Workers : pc[v] = "push" => KeyOf(req[v]) \in Key
    BY RequestFields DEF TypeOK
  <2> QED
    BY <1>2, <2>1
    DEF InFlightOK, Holding, At, KeyOf, WellFormed, ReleasedVersions, Grows
<1> QED
  BY <1>1, <1>2 DEF Unanswered

\* What a handler reads is a sound document with the key of its URL.
LEMMA LoadableIsSound ==
  ASSUME TypeOK, HistoryOK, NEW w \in Workers, pc[w] # "idle", NEW d \in Loadable(w)
  PROVE  d \in Doc /\ d.key = KeyOf(req[w]) /\ WellFormed(d)
<1>1. KeyOf(req[w]) \in Key
  BY RequestFields DEF TypeOK
<1>2. d \in versions[KeyOf(req[w])]
  BY <1>1 DEF HistoryOK, Loadable, GetItem
<1> QED
  BY <1>1, <1>2 DEF TypeOK, HistoryOK

\* Every step keeps all documents sound.
LEMMA NextDocumentsSound ==
  TypeOK /\ DocumentsSound /\ [Next]_vars => DocumentsSound'
<1> SUFFICES ASSUME TypeOK, DocumentsSound, [Next]_vars
             PROVE  DocumentsSound'
  OBVIOUS
<1> USE DEF DocumentsSound
<1>1. CASE UNCHANGED vars
  BY <1>1, LocalKeepsHistory
  DEF vars, tableVars, workerVars, historyVars, InFlightOK, Holding, At, KeyOf,
      WellFormed, ReleasedVersions
<1>2. ASSUME LocalOnly PROVE HistoryOK' /\ PushAfterCommit' /\ Grows
  BY <1>2, LocalKeepsHistory DEF LocalOnly, tableVars, historyVars
<1>3. ASSUME NEW w \in Workers, Arrival(w) PROVE DocumentsSound'
  <2>1. PICK r \in Sent : LetsRollFails(w, r) \/ NotGM(w, r) \/ Admit(w, r)
    BY <1>3 DEF Arrival
  <2>2. r \in Requests /\ 403 \in Codes /\ 502 \in Codes
    BY SentAssumption DEF Codes
  <2>3. LocalOnly /\ (Begin(w, r) \/ Refuse(w, r, 403) \/ Refuse(w, r, 502))
    BY <2>1 DEF LetsRollFails, NotGM, Admit
  <2> QED
    BY <1>2, <2>2, <2>3, TakenUpInFlight
<1>4. ASSUME NEW w \in Workers, CreateEncounter(w) PROVE DocumentsSound'
  <2>1. LocalOnly /\ pc[w] = "handler" /\ req[w] \in Requests /\ req[w].op = "create"
    BY <1>4 DEF CreateEncounter, At, TypeOK
  <2>2. CASE Answer(w, 400)
    BY <1>2, <2>1, <2>2, AnswerInFlight
  <2>3. CASE req[w].body # Malformed /\ GoPut(w, NewDoc(KeyOf(req[w]), req[w].body))
    <3> DEFINE d == NewDoc(KeyOf(req[w]), req[w].body)
    <3>1. d \in Doc
      BY <2>1, <2>3, RequestFields, DocsAreDocs
    <3>2. d.key = KeyOf(req[w]) /\ WellFormed(d)
      BY DEF NewDoc, WellFormed
    <3> QED
      BY <1>2, <2>1, <2>3, <3>1, <3>2, GoPutInFlight
  <2> QED
    BY <1>4, <2>2, <2>3 DEF CreateEncounter
<1>5. ASSUME NEW w \in Workers, GetEncounter(w) PROVE DocumentsSound'
  BY <1>2, <1>5, AnswerInFlight DEF GetEncounter, NotLoaded
<1>6. ASSUME NEW w \in Workers, UpdateEncounter(w) PROVE DocumentsSound'
  <2>1. LocalOnly /\ pc[w] = "handler" /\ req[w] \in Requests /\ req[w].op = "update"
    BY <1>6 DEF UpdateEncounter, At, TypeOK
  <2>2. CASE NotLoaded(w)
    BY <1>2, <2>1, <2>2, AnswerInFlight DEF NotLoaded
  <2>3. ASSUME NEW d \in Loadable(w), UpdateFound(w, d) PROVE DocumentsSound'
    <3>1. d \in Doc /\ d.key = KeyOf(req[w]) /\ WellFormed(d)
      BY <2>1, LoadableIsSound
    <3>2. CASE Answer(w, 409) \/ Answer(w, 400)
      BY <1>2, <2>1, <3>2, AnswerInFlight
    <3>3. CASE /\ d.status # "released"
               /\ req[w].body # Malformed
               /\ req[w].status # "released"
               /\ GoPut(w, EditedDoc(d, req[w].body, req[w].status))
      <4> DEFINE e == EditedDoc(d, req[w].body, req[w].status)
      <4>1. req[w].body \in Bodies /\ req[w].status \in {"", "draft", "run"}
        BY <2>1, <3>3, RequestFields
      <4>2. e \in Doc
        BY <3>1, <4>1, DocsAreDocs
      <4>3. e.key = KeyOf(req[w]) /\ WellFormed(e)
        BY <3>1, <3>3, <4>1 DEF EditedDoc, WellFormed, Doc
      <4> QED
        BY <1>2, <2>1, <3>3, <4>2, <4>3, GoPutInFlight
    <3> QED
      BY <2>3, <3>2, <3>3 DEF UpdateFound
  <2> QED
    BY <1>6, <2>2, <2>3 DEF UpdateEncounter
<1>7. ASSUME NEW w \in Workers, ReleaseEncounter(w) PROVE DocumentsSound'
  <2>1. LocalOnly /\ pc[w] = "handler" /\ req[w] \in Requests /\ req[w].op = "release"
    BY <1>7 DEF ReleaseEncounter, At, TypeOK
  <2>2. CASE NotLoaded(w)
    BY <1>2, <2>1, <2>2, AnswerInFlight DEF NotLoaded
  <2>3. ASSUME NEW d \in Loadable(w), ReleaseFound(w, d) PROVE DocumentsSound'
    <3>1. d \in Doc /\ d.key = KeyOf(req[w]) /\ WellFormed(d)
      BY <2>1, LoadableIsSound
    <3>2. CASE Answer(w, 409) \/ Answer(w, 422)
      BY <1>2, <2>1, <3>2, AnswerInFlight
    <3>3. CASE /\ req[w].force \/ d.body \notin Gappy
               /\ GoPut(w, ReleasedDoc(d, req[w].force))
      <4> DEFINE e == ReleasedDoc(d, req[w].force)
      <4>1. req[w].force \in BOOLEAN
        BY <2>1, RequestFields
      <4>2. e \in Doc
        BY <3>1, <4>1, DocsAreDocs
      <4>3. e.key = KeyOf(req[w]) /\ WellFormed(e) /\ e.status = "released"
        BY <3>1, <3>3, <4>1 DEF ReleasedDoc, WellFormed, Doc
      <4> QED
        BY <1>2, <2>1, <3>3, <4>2, <4>3, GoPutInFlight
    <3> QED
      BY <2>3, <3>2, <3>3 DEF ReleaseFound
  <2> QED
    BY <1>7, <2>2, <2>3 DEF ReleaseEncounter
<1>8. ASSUME NEW w \in Workers, PutAcknowledged(w) PROVE DocumentsSound'
  <2>1. pc[w] = "put" /\ StorePut(w) /\ PutReturned(w)
    BY <1>8 DEF PutAcknowledged
  <2>2. HistoryOK' /\ PushAfterCommit' /\ Grows /\ doc[w] \in versions'[KeyOf(req[w])]
    BY <2>1, PutKeepsHistory
  <2>3. CASE \E c \in {200, 201} : Answer(w, c)
    BY <2>2, <2>3, AnswerInFlight
  <2>4. CASE /\ req[w].op = "release"
             /\ pc' = [pc EXCEPT ![w] = "push"]
             /\ UNCHANGED <<req, doc>>
    <3>1. \A v \in Workers : pc[v] = "push" => KeyOf(req[v]) \in Key
      BY RequestFields DEF TypeOK
    <3>2. doc[w] \in ReleasedVersions(KeyOf(req[w]))'
      BY <2>1, <2>2, <2>4 DEF InFlightOK, At, ReleasedVersions, KeyOf
    <3>3. pc'[w] = "push" /\ \A v \in Workers \ {w} : pc'[v] = pc[v]
      BY <2>4 DEF TypeOK
    <3>4. InFlightOK'
      BY <2>1, <2>2, <2>4, <3>1, <3>2, <3>3
      DEF InFlightOK, Holding, At, KeyOf, WellFormed, ReleasedVersions, Grows
    <3> QED
      BY <2>2, <3>4
  <2> QED
    BY <2>1, <2>3, <2>4 DEF PutReturned
<1>9. ASSUME NEW w \in Workers, PutUnanswered(w) PROVE DocumentsSound'
  BY <1>2, <1>9, PutKeepsHistory, UnansweredInFlight DEF PutUnanswered
<1>10. ASSUME NEW w \in Workers, DeleteEncounter(w) PROVE DocumentsSound'
  BY <1>2, <1>10, DeleteKeepsHistory, AnswerInFlight, UnansweredInFlight
  DEF DeleteEncounter
<1>11. ASSUME NEW w \in Workers, PushRelease(w) PROVE DocumentsSound'
  <2>1. pc[w] = "push" /\ Answer(w, 200) /\ UNCHANGED <<tableVars, versions>>
    BY <1>11 DEF PushRelease, PushOutcome, historyVars
  <2>2. HistoryOK' /\ Grows
    BY <2>1 DEF HistoryOK, WellFormed, Grows, tableVars
  <2>3. doc[w] \in Doc /\ doc[w].key = KeyOf(req[w])
        /\ doc[w] \in ReleasedVersions(doc[w].key)
    BY <2>1 DEF TypeOK, InFlightOK, Holding
  <2>4. \A k \in Key : party'[k] \subseteq
                         party[k] \cup (IF k = doc[w].key THEN {Loot[doc[w].body]} ELSE {})
    BY <1>11 DEF PushRelease, PushOutcome, TypeOK
  <2>5. PushAfterCommit'
    BY <2>1, <2>3, <2>4 DEF PushAfterCommit, ReleasedVersions
  <2> QED
    BY <2>1, <2>2, <2>5, AnswerInFlight
<1>12. ASSUME NEW w \in Workers, Finished(w) \/ Killed(w) PROVE DocumentsSound'
  <2>1. Recycle(w) /\ UNCHANGED <<tableVars, party, versions>>
    BY <1>12 DEF Finished, Killed, Finish, Crash, Recycle, historyVars
  <2>2. HistoryOK' /\ PushAfterCommit' /\ Grows
    BY <2>1, LocalKeepsHistory
  <2>3. pc'[w] = "idle" /\ doc'[w] = None
    BY <2>1 DEF TypeOK, Recycle
  <2>4. \A v \in Workers \ {w} : pc'[v] = pc[v] /\ doc'[v] = doc[v] /\ req'[v] = req[v]
    BY <2>1 DEF TypeOK, Recycle
  <2>5. InFlightOK'
    BY <2>1, <2>3, <2>4 DEF InFlightOK, Holding, At, KeyOf, WellFormed, ReleasedVersions
  <2> QED
    BY <2>2, <2>5
<1>13. ASSUME NEW m \in Users \X Campaigns, NEW x \in Roles, ChangeRole(m, x)
       PROVE  DocumentsSound'
  BY <1>13, LocalKeepsHistory
  DEF ChangeRole, tableVars, workerVars, InFlightOK, Holding, At, KeyOf,
      WellFormed, ReleasedVersions
<1>14. ASSUME NEW k \in Key, ReplicaCatchesUp(k) PROVE DocumentsSound'
  <2>1. /\ replica' = [replica EXCEPT ![k] = table[k]]
        /\ UNCHANGED <<table, workerVars, party, versions>>
    BY <1>14 DEF ReplicaCatchesUp, Replicate, historyVars
  <2>2. HistoryOK' /\ PushAfterCommit'
    BY <2>1 DEF TypeOK, HistoryOK, PushAfterCommit, ReleasedVersions, WellFormed
  <2>3. InFlightOK'
    BY <2>1 DEF workerVars, InFlightOK, Holding, At, KeyOf, WellFormed, ReleasedVersions
  <2> QED
    BY <2>2, <2>3
<1> QED
  BY <1>1, <1>3, <1>4, <1>5, <1>6, <1>7, <1>8, <1>9, <1>10, <1>11, <1>12, <1>13, <1>14
  DEF Next, Step

-----------------------------------------------------------------------------
(* The gate.                                                               *)

Running(w) == pc[w] \in {"handler", "put", "push"}

\* The steps of a running request keep the request, or end it.
LEMMA StepsKeepRequests ==
  ASSUME TypeOK, NEW w \in Workers,
         \/ \E c \in Codes : Answer(w, c)
         \/ \E d \in Doc : GoPut(w, d)
         \/ Unanswered(w)
         \/ PutReturned(w)
         \/ Recycle(w),
         Running(w) \/ Recycle(w)
  PROVE  \A v \in Workers : Running(v)' => Running(v) /\ req'[v] = req[v]
<1>1. CASE \E c \in Codes : Answer(w, c)
  BY <1>1 DEF TypeOK, Running, Answer
<1>2. CASE \E d \in Doc : GoPut(w, d)
  BY <1>2 DEF TypeOK, Running, GoPut, Recycle
<1>3. CASE Unanswered(w)
  BY <1>3 DEF TypeOK, Running, Unanswered, Answer, Recycle
<1>4. CASE PutReturned(w)
  BY <1>4 DEF TypeOK, Running, PutReturned, Answer, Recycle
<1>5. CASE Recycle(w)
  BY <1>5 DEF TypeOK, Running, Recycle
<1> QED
  BY <1>1, <1>2, <1>3, <1>4, <1>5

\* What keeps the gate sound: requests in hand are kept or ended, roles stay,
\* and the authors stay or gain the caller of a request in hand.
LEMMA GateKept ==
  ASSUME GateSound, NEW w \in Workers, UNCHANGED <<role, gms>>,
         \A v \in Workers : Running(v)' => Running(v) /\ req'[v] = req[v],
         \/ UNCHANGED authors
         \/ Running(w) /\ authors' = authors \cup {Member(req[w])}
  PROVE  GateSound'
  BY DEF GateSound, AuthorsWereGMs, Running, Member

\* Every step keeps the gate sound.
LEMMA NextGateSound ==
  TypeOK /\ DocumentsSound /\ GateSound /\ [Next]_vars => GateSound'
<1> SUFFICES ASSUME TypeOK, DocumentsSound, GateSound, [Next]_vars
             PROVE  GateSound'
  OBVIOUS
<1>1. CASE UNCHANGED vars
  BY <1>1 DEF vars, workerVars, historyVars, GateSound, AuthorsWereGMs, Member
<1>2. ASSUME LocalOnly PROVE UNCHANGED <<role, gms, authors>>
  BY <1>2 DEF LocalOnly, historyVars
<1>3. ASSUME NEW w \in Workers, Arrival(w) PROVE GateSound'
  <2>1. PICK r \in Sent : LetsRollFails(w, r) \/ NotGM(w, r) \/ Admit(w, r)
    BY <1>3 DEF Arrival
  <2>2. r \in Requests /\ LocalOnly
    BY <2>1, SentAssumption DEF LetsRollFails, NotGM, Admit
  <2>3. CASE Admit(w, r)
    <3>1. Member(r) \in gms
      BY <2>2, <2>3, RequestFields DEF Admit, GateSound
    <3>2. /\ req'[w] = r
          /\ \A v \in Workers \ {w} : pc'[v] = pc[v] /\ req'[v] = req[v]
      BY <2>3 DEF TypeOK, Admit, Begin
    <3> QED
      BY <1>2, <2>2, <3>1, <3>2 DEF GateSound, AuthorsWereGMs, Member
  <2>4. CASE \E c \in {403, 502} : Refuse(w, r, c)
    <3>1. /\ pc'[w] = "done"
          /\ \A v \in Workers \ {w} : pc'[v] = pc[v] /\ req'[v] = req[v]
      BY <2>4 DEF TypeOK, Refuse
    <3> QED
      BY <1>2, <2>2, <3>1 DEF GateSound, AuthorsWereGMs, Member
  <2> QED
    BY <2>1, <2>3, <2>4 DEF LetsRollFails, NotGM
<1>4. ASSUME NEW w \in Workers, CreateEncounter(w) PROVE GateSound'
  <2>1. LocalOnly /\ Running(w) /\ req[w] \in Requests /\ req[w].op = "create"
    BY <1>4 DEF CreateEncounter, At, TypeOK, Running
  <2>2. req[w].body # Malformed => NewDoc(KeyOf(req[w]), req[w].body) \in Doc
    BY <2>1, RequestFields, DocsAreDocs
  <2>3. 400 \in Codes
    BY DEF Codes
  <2>4. \A v \in Workers : Running(v)' => Running(v) /\ req'[v] = req[v]
    BY <1>4, <2>1, <2>2, <2>3, StepsKeepRequests DEF CreateEncounter
  <2> QED
    BY <1>2, <2>1, <2>4, GateKept
<1>5. ASSUME NEW w \in Workers, GetEncounter(w) PROVE GateSound'
  <2>1. LocalOnly /\ Running(w) /\ \E c \in Codes : Answer(w, c)
    BY <1>5 DEF GetEncounter, NotLoaded, At, Running, Codes
  <2>2. \A v \in Workers : Running(v)' => Running(v) /\ req'[v] = req[v]
    BY <2>1, StepsKeepRequests
  <2> QED
    BY <1>2, <2>1, <2>2, GateKept
<1>6. ASSUME NEW w \in Workers, UpdateEncounter(w) PROVE GateSound'
  <2>1. LocalOnly /\ Running(w) /\ req[w] \in Requests /\ req[w].op = "update"
    BY <1>6 DEF UpdateEncounter, At, TypeOK, Running
  <2>2. (\E c \in Codes : Answer(w, c)) \/ (\E d \in Doc : GoPut(w, d))
    <3>1. CASE NotLoaded(w)
      BY <3>1 DEF NotLoaded, Codes
    <3>2. ASSUME NEW d \in Loadable(w), UpdateFound(w, d)
          PROVE  (\E c \in Codes : Answer(w, c)) \/ (\E e \in Doc : GoPut(w, e))
      <4>1. d \in Doc
        BY <2>1, LoadableIsDoc DEF Running
      <4>2. /\ req[w].body # Malformed /\ req[w].status # "released"
            => EditedDoc(d, req[w].body, req[w].status) \in Doc
        BY <2>1, <4>1, RequestFields, DocsAreDocs
      <4> QED
        BY <3>2, <4>2 DEF UpdateFound, Codes
    <3> QED
      BY <1>6, <3>1, <3>2 DEF UpdateEncounter
  <2>3. \A v \in Workers : Running(v)' => Running(v) /\ req'[v] = req[v]
    BY <2>1, <2>2, StepsKeepRequests
  <2> QED
    BY <1>2, <2>1, <2>3, GateKept
<1>7. ASSUME NEW w \in Workers, ReleaseEncounter(w) PROVE GateSound'
  <2>1. LocalOnly /\ Running(w) /\ req[w] \in Requests /\ req[w].op = "release"
    BY <1>7 DEF ReleaseEncounter, At, TypeOK, Running
  <2>2. (\E c \in Codes : Answer(w, c)) \/ (\E d \in Doc : GoPut(w, d))
    <3>1. CASE NotLoaded(w)
      BY <3>1 DEF NotLoaded, Codes
    <3>2. ASSUME NEW d \in Loadable(w), ReleaseFound(w, d)
          PROVE  (\E c \in Codes : Answer(w, c)) \/ (\E e \in Doc : GoPut(w, e))
      <4>1. ReleasedDoc(d, req[w].force) \in Doc
        BY <2>1, LoadableIsDoc, RequestFields, DocsAreDocs DEF Running
      <4> QED
        BY <3>2, <4>1 DEF ReleaseFound, Codes
    <3> QED
      BY <1>7, <3>1, <3>2 DEF ReleaseEncounter
  <2>3. \A v \in Workers : Running(v)' => Running(v) /\ req'[v] = req[v]
    BY <2>1, <2>2, StepsKeepRequests
  <2> QED
    BY <1>2, <2>1, <2>3, GateKept
<1>8. ASSUME NEW w \in Workers, pc[w] = "put", StorePut(w)
      PROVE  /\ UNCHANGED <<role, gms>>
             /\ authors' = authors \cup {Member(req[w])}
  <2>1. doc[w].key = KeyOf(req[w])
    BY <1>8 DEF DocumentsSound, InFlightOK, Holding
  <2> QED
    BY <1>8, <2>1 DEF StorePut, Record, KeyOf, Member
<1>9. ASSUME NEW w \in Workers, PutAcknowledged(w) \/ PutUnanswered(w) PROVE GateSound'
  <2>1. pc[w] = "put" /\ Running(w) /\ (PutReturned(w) \/ Unanswered(w))
    BY <1>9 DEF PutAcknowledged, PutUnanswered, Running
  <2>2. \A v \in Workers : Running(v)' => Running(v) /\ req'[v] = req[v]
    BY <2>1, StepsKeepRequests
  <2> QED
    BY <1>2, <1>8, <1>9, <2>1, <2>2, GateKept DEF PutAcknowledged, PutUnanswered
<1>10. ASSUME NEW w \in Workers, DeleteEncounter(w) PROVE GateSound'
  <2>1. Running(w) /\ ((\E c \in Codes : Answer(w, c)) \/ Unanswered(w))
    BY <1>10 DEF DeleteEncounter, At, Running, Codes
  <2>2. \A v \in Workers : Running(v)' => Running(v) /\ req'[v] = req[v]
    BY <2>1, StepsKeepRequests
  <2>3. StoreDelete(w) => /\ UNCHANGED <<role, gms>>
                          /\ authors' = authors \cup {Member(req[w])}
    BY DEF StoreDelete, Record, Member
  <2> QED
    BY <1>2, <1>10, <2>1, <2>2, <2>3, GateKept DEF DeleteEncounter
<1>11. ASSUME NEW w \in Workers, PushRelease(w) PROVE GateSound'
  <2>1. Running(w) /\ (\E c \in Codes : Answer(w, c)) /\ UNCHANGED <<role, gms, authors>>
    BY <1>11 DEF PushRelease, Running, Codes, historyVars
  <2>2. \A v \in Workers : Running(v)' => Running(v) /\ req'[v] = req[v]
    BY <2>1, StepsKeepRequests
  <2> QED
    BY <2>1, <2>2, GateKept
<1>12. ASSUME NEW w \in Workers, Finished(w) \/ Killed(w) PROVE GateSound'
  <2>1. Recycle(w) /\ UNCHANGED <<role, gms, authors>>
    BY <1>12 DEF Finished, Killed, Finish, Crash, historyVars
  <2>2. \A v \in Workers : Running(v)' => Running(v) /\ req'[v] = req[v]
    BY <2>1, StepsKeepRequests
  <2> QED
    BY <2>1, <2>2, GateKept
<1>13. ASSUME NEW m \in Users \X Campaigns, NEW x \in Roles, ChangeRole(m, x)
       PROVE  GateSound'
  <2>1. /\ role' = [role EXCEPT ![m] = x]
        /\ gms'  = IF x = "gm" THEN gms \cup {m} ELSE gms
        /\ UNCHANGED <<workerVars, authors>>
    BY <1>13 DEF ChangeRole
  <2> QED
    BY <2>1 DEF TypeOK, GateSound, AuthorsWereGMs, Member, workerVars
<1>14. ASSUME NEW k \in Key, ReplicaCatchesUp(k) PROVE GateSound'
  BY <1>14 DEF ReplicaCatchesUp, workerVars, historyVars, GateSound, AuthorsWereGMs, Member
<1> QED
  BY <1>1, <1>3, <1>4, <1>5, <1>6, <1>7, <1>9, <1>10, <1>11, <1>12, <1>13, <1>14
  DEF Next, Step

-----------------------------------------------------------------------------
(* Answers.                                                                *)

\* The other workers' part of the bookkeeping is not disturbed.
LEMMA BookkeepingKept ==
  ASSUME BookkeepingSound, NEW w \in Workers,
         \A v \in Workers \ {w} : /\ pc'[v] = pc[v] /\ req'[v] = req[v]
                                  /\ code'[v] = code[v] /\ wrote'[v] = wrote[v],
         pc'[w] = "idle" => ~wrote'[w],
         pc'[w] = "handler" /\ req'[w].op # "delete" => ~wrote'[w],
         pc'[w] = "push" => wrote'[w],
         pc'[w] = "done" =>
           /\ code'[w] \in {200, 201, 204} /\ req'[w].op \in Mutations => wrote'[w]
           /\ code'[w] \in {400, 403, 404, 409, 422, 502} => ~wrote'[w]
  PROVE  BookkeepingSound'
  BY DEF BookkeepingSound, AnswersAreHonest, Mutations

\* An answer that tells the truth about what was written.
LEMMA HonestAnswer ==
  ASSUME TypeOK, BookkeepingSound, NEW w \in Workers, NEW c, Answer(w, c),
         \A v \in Workers \ {w} : wrote'[v] = wrote[v],
         c \in {200, 201, 204} /\ req[w].op \in Mutations => wrote'[w],
         c \in {400, 403, 404, 409, 422, 502} => ~wrote'[w]
  PROVE  BookkeepingSound'
<1>1. pc'[w] = "done" /\ code'[w] = c /\ req' = req
  BY DEF TypeOK, Answer
<1>2. \A v \in Workers \ {w} : pc'[v] = pc[v] /\ code'[v] = code[v]
  BY DEF TypeOK, Answer
<1> QED
  BY <1>1, <1>2, BookkeepingKept

\* A 500 is always honest.
LEMMA UnansweredHonest ==
  ASSUME TypeOK, BookkeepingSound, NEW w \in Workers, Unanswered(w),
         At(w, "handler", "delete") \/ pc[w] = "put",
         \A v \in Workers \ {w} : wrote'[v] = wrote[v]
  PROVE  BookkeepingSound'
<1>1. CASE Answer(w, 500)
  BY <1>1, HonestAnswer
<1>2. CASE UNCHANGED <<pc, req, doc, code>>
  BY <1>2, BookkeepingKept DEF At
<1> QED
  BY <1>1, <1>2 DEF Unanswered

\* Every step keeps the answers honest.
LEMMA NextBookkeepingSound ==
  TypeOK /\ BookkeepingSound /\ [Next]_vars => BookkeepingSound'
<1> SUFFICES ASSUME TypeOK, BookkeepingSound, [Next]_vars
             PROVE  BookkeepingSound'
  OBVIOUS
<1>1. CASE UNCHANGED vars
  BY <1>1 DEF vars, workerVars, BookkeepingSound, AnswersAreHonest
<1>2. ASSUME LocalOnly PROVE wrote' = wrote
  BY <1>2 DEF LocalOnly
<1>3. ASSUME NEW w \in Workers, Arrival(w) PROVE BookkeepingSound'
  <2>1. PICK r \in Sent : LetsRollFails(w, r) \/ NotGM(w, r) \/ Admit(w, r)
    BY <1>3 DEF Arrival
  <2>2. wrote' = wrote /\ pc[w] = "idle" /\ ~wrote[w]
    BY <1>2, <2>1 DEF LetsRollFails, NotGM, Admit, Begin, Refuse, BookkeepingSound
  <2>3. CASE Begin(w, r)
    <3>1. /\ pc'[w] = "handler"
          /\ \A v \in Workers \ {w} : pc'[v] = pc[v] /\ req'[v] = req[v]
          /\ code' = code
      BY <2>3 DEF TypeOK, Begin
    <3> QED
      BY <2>2, <3>1, BookkeepingKept
  <2>4. ASSUME NEW c \in {403, 502}, Refuse(w, r, c) PROVE BookkeepingSound'
    <3>1. /\ pc'[w] = "done" /\ code'[w] = c
          /\ \A v \in Workers \ {w} : /\ pc'[v] = pc[v] /\ req'[v] = req[v]
                                      /\ code'[v] = code[v]
      BY <2>4 DEF TypeOK, Refuse
    <3> QED
      BY <2>2, <3>1, BookkeepingKept
  <2> QED
    BY <2>1, <2>3, <2>4 DEF LetsRollFails, NotGM, Admit
<1>4. ASSUME NEW w \in Workers, NEW d, pc[w] = "handler", wrote' = wrote, GoPut(w, d)
      PROVE  BookkeepingSound'
  <2>1. /\ pc'[w] = "put"
        /\ \A v \in Workers \ {w} : pc'[v] = pc[v]
        /\ req' = req /\ code' = code
    BY <1>4 DEF TypeOK, GoPut
  <2> QED
    BY <1>4, <2>1, BookkeepingKept
\* Before its first write a request may be refused, and a get answered.
<1>5. ASSUME NEW w \in Workers, NEW c \in Codes, pc[w] = "handler",
             req[w].op # "delete", wrote' = wrote, Answer(w, c),
             c \in {200, 201, 204} => req[w].op = "get"
      PROVE  BookkeepingSound'
  <2>1. ~wrote[w]
    BY <1>5 DEF BookkeepingSound
  <2> QED
    BY <1>5, <2>1, HonestAnswer DEF Mutations
<1>6. ASSUME NEW w \in Workers, CreateEncounter(w) PROVE BookkeepingSound'
  BY <1>2, <1>4, <1>5, <1>6 DEF CreateEncounter, At, Codes
<1>7. ASSUME NEW w \in Workers, GetEncounter(w) PROVE BookkeepingSound'
  BY <1>2, <1>5, <1>7 DEF GetEncounter, NotLoaded, At, Codes
<1>8. ASSUME NEW w \in Workers, UpdateEncounter(w) PROVE BookkeepingSound'
  BY <1>2, <1>4, <1>5, <1>8 DEF UpdateEncounter, UpdateFound, NotLoaded, At, Codes
<1>9. ASSUME NEW w \in Workers, ReleaseEncounter(w) PROVE BookkeepingSound'
  BY <1>2, <1>4, <1>5, <1>9 DEF ReleaseEncounter, ReleaseFound, NotLoaded, At, Codes
<1>10. ASSUME NEW w \in Workers, StorePut(w) \/ StoreDelete(w)
       PROVE  wrote'[w] /\ \A v \in Workers \ {w} : wrote'[v] = wrote[v]
  BY <1>10 DEF TypeOK, StorePut, PutLands, StoreDelete, DeleteLands
<1>11. ASSUME NEW w \in Workers, PutAcknowledged(w) PROVE BookkeepingSound'
  <2>1. pc[w] = "put" /\ StorePut(w) /\ PutReturned(w)
    BY <1>11 DEF PutAcknowledged
  <2>2. ASSUME NEW c \in {200, 201}, Answer(w, c) PROVE BookkeepingSound'
    BY <1>10, <2>1, <2>2, HonestAnswer
  <2>3. CASE pc' = [pc EXCEPT ![w] = "push"] /\ UNCHANGED <<req, doc, code>>
    <3>1. pc'[w] = "push" /\ \A v \in Workers \ {w} : pc'[v] = pc[v]
      BY <2>3 DEF TypeOK
    <3> QED
      BY <1>10, <2>1, <2>3, <3>1, BookkeepingKept
  <2> QED
    BY <2>1, <2>2, <2>3 DEF PutReturned
<1>12. ASSUME NEW w \in Workers, PutUnanswered(w) PROVE BookkeepingSound'
  BY <1>2, <1>10, <1>12, UnansweredHonest DEF PutUnanswered
<1>13. ASSUME NEW w \in Workers, DeleteEncounter(w) PROVE BookkeepingSound'
  BY <1>2, <1>10, <1>13, UnansweredHonest, HonestAnswer DEF DeleteEncounter
<1>14. ASSUME NEW w \in Workers, PushRelease(w) PROVE BookkeepingSound'
  BY <1>14, HonestAnswer DEF PushRelease, BookkeepingSound
<1>15. ASSUME NEW w \in Workers, Finished(w) \/ Killed(w) PROVE BookkeepingSound'
  <2>1. Recycle(w)
    BY <1>15 DEF Finished, Killed, Finish, Crash
  <2>2. /\ pc'[w] = "idle" /\ ~wrote'[w]
        /\ \A v \in Workers \ {w} : /\ pc'[v] = pc[v] /\ req'[v] = req[v]
                                    /\ code'[v] = code[v] /\ wrote'[v] = wrote[v]
    BY <2>1 DEF TypeOK, Recycle
  <2> QED
    BY <2>2, BookkeepingKept
<1>16. ASSUME NEW m \in Users \X Campaigns, NEW x \in Roles, ChangeRole(m, x)
       PROVE  BookkeepingSound'
  BY <1>16 DEF ChangeRole, workerVars, BookkeepingSound, AnswersAreHonest
<1>17. ASSUME NEW k \in Key, ReplicaCatchesUp(k) PROVE BookkeepingSound'
  BY <1>17 DEF ReplicaCatchesUp, workerVars, BookkeepingSound, AnswersAreHonest
<1> QED
  BY <1>1, <1>3, <1>6, <1>7, <1>8, <1>9, <1>11, <1>12, <1>13, <1>14, <1>15, <1>16,
     <1>17
  DEF Next, Step

-----------------------------------------------------------------------------
(* The theorems.                                                           *)

\* It all holds to begin with.
LEMMA InitSound == Init => Sound
  BY DEF Init, TableInit, WorkersInit, Sound, DocumentsSound, HistoryOK, InFlightOK,
         Holding, At, PushAfterCommit, GateSound, AuthorsWereGMs, BookkeepingSound,
         AnswersAreHonest

\* The reasons above hold in every reachable state.
THEOREM AlwaysSound == Spec => [](TypeOK /\ Sound)
<1>1. Init => TypeOK /\ Sound
  BY InitTypeOK, InitSound
<1>2. TypeOK /\ Sound /\ [Next]_vars => (TypeOK /\ Sound)'
  BY NextTypeOK, NextDocumentsSound, NextGateSound, NextBookkeepingSound DEF Sound
<1> QED
  BY <1>1, <1>2, PTL DEF Spec

\* The release stamp is set on released documents and on no others, whatever
\* updates and releases run at once.
THEOREM StampCorrect == Spec => []StampIffReleased
<1>1. TypeOK /\ Sound => StampIffReleased
  BY DEF TypeOK, Sound, DocumentsSound, HistoryOK, WellFormed, StampIffReleased, Stored
<1> QED
  BY <1>1, AlwaysSound, PTL

\* No document with gaps is stored as released unless that was forced.
THEOREM GateHolds == Spec => []ReleasedIsComplete
<1>1. TypeOK /\ Sound => ReleasedIsComplete
  BY DEF TypeOK, Sound, DocumentsSound, HistoryOK, WellFormed, ReleasedIsComplete, Stored
<1> QED
  BY <1>1, AlwaysSound, PTL

\* A handler only stores under the campaign and id of its URL.
THEOREM WritesStayInTheURL == Spec => []WritesGoToTheURL
<1>1. Sound => WritesGoToTheURL
  BY DEF Sound, DocumentsSound, InFlightOK, WritesGoToTheURL
<1> QED
  BY <1>1, AlwaysSound, PTL

\* The party only gets loot whose release is committed.
THEOREM CommitBeforePush == Spec => []PushAfterCommit
<1>1. Sound => PushAfterCommit
  BY DEF Sound, DocumentsSound
<1> QED
  BY <1>1, AlwaysSound, PTL

\* A campaign is only ever changed for callers who were its GM.
THEOREM OnlyGMsWrite == Spec => []AuthorsWereGMs
<1>1. Sound => AuthorsWereGMs
  BY DEF Sound, GateSound
<1> QED
  BY <1>1, AlwaysSound, PTL

\* A success reached the table and a refusal did not.
THEOREM HonestAnswers == Spec => []AnswersAreHonest
<1>1. Sound => AnswersAreHonest
  BY DEF Sound, BookkeepingSound
<1> QED
  BY <1>1, AlwaysSound, PTL

-----------------------------------------------------------------------------
(* What Lineage allows to be written.                                      *)

\* A document is made from one that was stored, or made new where nothing was.
LEMMA WritableDocs ==
  ASSUME NEW k \in Key
  PROVE  /\ \A b \in Bodies : versions[k] = {} => NewDoc(k, b) \in L!Writable(k)
         /\ \A d \in versions[k] :
              /\ d \in L!Writable(k)
              /\ d.status # "released" =>
                   /\ \A b \in Bodies, s \in EditStatuses :
                        EditedDoc(d, b, s) \in L!Writable(k)
                   /\ \A f \in BOOLEAN : f \/ d.body \notin Gappy =>
                        ReleasedDoc(d, f) \in L!Writable(k)
<1>1. ASSUME NEW b \in Bodies, versions[k] = {}
      PROVE  NewDoc(k, b) \in L!Writable(k)
  BY <1>1 DEF L!Writable, L!NewDoc, NewDoc
<1>2. ASSUME NEW d \in versions[k]
      PROVE  \A e \in L!Successors(d) : e \in L!Writable(k)
  BY <1>2 DEF L!Writable
<1>3. ASSUME NEW d, d.status # "released", NEW b \in Bodies, NEW s \in EditStatuses
      PROVE  EditedDoc(d, b, s) \in L!Successors(d)
  <2>1. EditedDoc(d, b, s) = L!EditedDoc(d, b, s)
    BY DEF L!EditedDoc, EditedDoc
  <2>2. s \in L!EditStatuses
    BY DEF L!EditStatuses, EditStatuses
  <2>3. L!EditedDoc(d, b, s) \in L!EditsOf(d)
    BY <1>3, <2>2 DEF L!EditsOf
  <2> QED
    BY <2>1, <2>3 DEF L!Successors
<1>4. ASSUME NEW d, d.status # "released", NEW f \in BOOLEAN, f \/ d.body \notin Gappy
      PROVE  ReleasedDoc(d, f) \in L!Successors(d)
  BY <1>4 DEF L!Successors, L!ReleasesOf, L!ReleasedDoc, ReleasedDoc
<1>5. \A d : d \in L!Successors(d)
  BY DEF L!Successors
<1> QED
  BY <1>1, <1>2, <1>3, <1>4, <1>5

\* Where something was stored, more history only allows more.
LEMMA WritableGrows ==
  ASSUME NEW k \in Key, versions[k] \subseteq versions'[k],
         versions[k] = {} => versions'[k] = {}
  PROVE  L!Writable(k) \subseteq L!Writable(k)'
  BY DEF L!Writable

-----------------------------------------------------------------------------
(* The steps the actions share.                                            *)

\* What the workers are about to store stays writable while history stays.
LEMMA DescentKept ==
  ASSUME TypeOK, DescentOK, NEW w \in Workers, UNCHANGED versions,
         \A v \in Workers \ {w} : /\ pc'[v] = pc[v] /\ req'[v] = req[v]
                                  /\ doc'[v] = doc[v],
         pc'[w] # "idle" => pc[w] # "idle" /\ req'[w] = req[w],
         pc'[w] = "handler" => pc[w] = "handler",
         pc'[w] = "put" => \/ pc[w] = "put" /\ doc'[w] = doc[w]
                           \/ /\ doc'[w] \in L!Writable(KeyOf(req[w]))
                              /\ versions[KeyOf(req[w])] = {} => Creating(w)
  PROVE  DescentOK'
<1>1. \A k : L!Writable(k)' = L!Writable(k)
  BY DEF L!Writable
<1>2. \A v \in Workers : Creating(v)' => Creating(v) /\ req'[v] = req[v]
  BY DEF Creating
<1>3. ASSUME NEW v \in Workers, pc'[v] = "put"
      PROVE  /\ doc'[v] \in L!Writable(KeyOf(req'[v]))
             /\ versions[KeyOf(req'[v])] = {} => Creating(v)'
  BY <1>3 DEF DescentOK, Creating
<1>4. \A v \in Workers : At(v, "handler", "create")' => versions'[KeyOf(req'[v])] = {}
  BY DEF DescentOK, At
<1>5. \A u, v \in Workers : u # v /\ Creating(u)' /\ Creating(v)' => req'[u].id # req'[v].id
  BY <1>2 DEF DescentOK
<1> QED
  BY <1>1, <1>3, <1>4, <1>5 DEF DescentOK

\* An answer, and the end of an invocation, leave nothing to store.
LEMMA EndKeepsDescent ==
  ASSUME TypeOK, DescentOK, NEW w \in Workers, UNCHANGED versions,
         Recycle(w) \/ (pc[w] # "idle" /\ \E c : Answer(w, c))
  PROVE  DescentOK'
<1>1. /\ pc'[w] \in {"idle", "done"}
      /\ pc'[w] # "idle" => pc[w] # "idle" /\ req'[w] = req[w]
      /\ \A v \in Workers \ {w} : /\ pc'[v] = pc[v] /\ req'[v] = req[v]
                                  /\ doc'[v] = doc[v]
  BY DEF TypeOK, Recycle, Answer
<1> QED
  BY <1>1, DescentKept

\* A handler goes on to store what may be written.
LEMMA GoPutKeepsDescent ==
  ASSUME TypeOK, DescentOK, NEW w \in Workers, UNCHANGED versions, pc[w] # "idle",
         NEW d, GoPut(w, d), d \in L!Writable(KeyOf(req[w])),
         versions[KeyOf(req[w])] = {} => Creating(w)
  PROVE  DescentOK'
<1>1. /\ pc'[w] = "put" /\ doc'[w] = d /\ req' = req
      /\ \A v \in Workers \ {w} : pc'[v] = pc[v] /\ doc'[v] = doc[v]
  BY DEF TypeOK, GoPut
<1> QED
  BY <1>1, DescentKept

\* A store call that is answered, or is not, keeps what is left to store.
LEMMA CallKeepsDescent ==
  ASSUME TypeOK, DescentOK, NEW w \in Workers, UNCHANGED versions,
         pc[w] = "put" \/ At(w, "handler", "delete"),
         Unanswered(w) \/ (pc[w] = "put" /\ PutReturned(w))
  PROVE  DescentOK'
<1>1. CASE \E c : Answer(w, c)
  BY <1>1, EndKeepsDescent DEF At
<1>2. CASE UNCHANGED <<pc, req, doc>>
  BY <1>2, DescentKept DEF At
<1>3. CASE pc' = [pc EXCEPT ![w] = "push"] /\ UNCHANGED <<req, doc>>
  <2>1. pc'[w] = "push" /\ \A v \in Workers \ {w} : pc'[v] = pc[v]
    BY <1>3 DEF TypeOK
  <2> QED
    BY <1>3, <2>1, DescentKept DEF At
<1> QED
  BY <1>1, <1>2, <1>3 DEF Unanswered, PutReturned

\* A put that takes effect: it may, and what others are about to store stays
\* writable, since the first document under a key comes from its only create.
LEMMA PutKeepsDescent ==
  ASSUME TypeOK, DocumentsSound, DescentOK, NEW w \in Workers, pc[w] = "put",
         StorePut(w), Unanswered(w) \/ PutReturned(w)
  PROVE  DescentOK' /\ \E k \in Key : L!Write(k)
<1>1. PICK k \in Key : k = KeyOf(req[w]) /\ k = doc[w].key
  BY RequestFields DEF TypeOK, DocumentsSound, InFlightOK, Holding
<1>2. /\ table' = [table EXCEPT ![k] = doc[w]]
      /\ versions' = [versions EXCEPT ![k] = @ \cup {doc[w]}]
  BY <1>1 DEF StorePut, PutLands, PutItem, Record
<1>3. L!Write(k)
  BY <1>1, <1>2 DEF DescentOK, L!Write
<1>4. /\ \A v \in Workers \ {w} : /\ pc'[v] = pc[v] /\ req'[v] = req[v]
                                  /\ doc'[v] = doc[v]
      /\ pc'[w] \in {"put", "push", "done"}
      /\ pc'[w] = "put" => doc'[w] = doc[w]
      /\ req'[w] = req[w]
  BY DEF TypeOK, Unanswered, PutReturned, Answer
\* Another create, and all it has to store, is about another key.
<1>5. \A v \in Workers \ {w} : Creating(v) /\ versions[k] = {} => KeyOf(req[v]) # k
  BY <1>1 DEF DescentOK, KeyOf
<1>6. ASSUME NEW v \in Workers, pc'[v] = "put"
      PROVE  /\ doc'[v] \in L!Writable(KeyOf(req[v]))'
             /\ versions'[KeyOf(req'[v])] = {} => Creating(v)'
  <2>1. PICK m \in Key : m = KeyOf(req[v]) /\ m = KeyOf(req'[v])
    BY <1>4, <1>6, RequestFields DEF TypeOK, KeyOf
  <2>2. CASE v = w
    <3>1. doc[w] \in versions'[m]
      BY <1>1, <1>2, <2>1, <2>2 DEF TypeOK
    <3>2. doc[w] \in L!Writable(m)'
      BY <3>1 DEF L!Writable, L!Successors
    <3> QED
      BY <1>4, <1>6, <2>1, <2>2, <3>1, <3>2
  <2>3. CASE v # w
    <3>1. /\ doc[v] \in L!Writable(m)
          /\ versions[m] = {} => Creating(v)
      BY <1>4, <1>6, <2>1, <2>3 DEF DescentOK
    <3>2. /\ versions[m] \subseteq versions'[m]
          /\ versions[m] = {} => versions'[m] = {}
      BY <1>2, <1>5, <2>1, <2>3, <3>1 DEF TypeOK
    <3>3. doc[v] \in L!Writable(m)'
      BY <3>1, <3>2, WritableGrows
    <3> QED
      BY <1>4, <2>1, <2>3, <3>1, <3>2, <3>3 DEF Creating
  <2> QED
    BY <2>2, <2>3
<1>7. ASSUME NEW v \in Workers, At(v, "handler", "create")'
      PROVE  versions'[KeyOf(req'[v])] = {}
  <2>1. v # w /\ At(v, "handler", "create") /\ req'[v] = req[v]
    BY <1>4, <1>7 DEF At
  <2>2. versions[KeyOf(req[v])] = {} /\ Creating(v) /\ KeyOf(req[v]) \in Key
    BY <2>1, RequestFields DEF DescentOK, At, Creating, TypeOK
  <2>3. versions'[KeyOf(req[v])] = {}
    BY <1>2, <1>5, <2>1, <2>2 DEF TypeOK
  <2> QED
    BY <2>1, <2>3
<1>8. \A u, v \in Workers : u # v /\ Creating(u)' /\ Creating(v)' => req'[u].id # req'[v].id
  BY <1>4 DEF DescentOK, Creating
<1> QED
  BY <1>3, <1>6, <1>7, <1>8 DEF DescentOK

\* A request taken up for a create has an id of its own, and nothing is stored
\* under it yet.
LEMMA ArrivalKeepsDescent ==
  ASSUME TypeOK, DescentOK, NEW w \in Workers, NEW r \in Requests, Sendable(r),
         UNCHANGED versions, Begin(w, r) \/ \E c : Refuse(w, r, c)
  PROVE  DescentOK'
<1>1. /\ pc'[w] \in {"handler", "done"} /\ req'[w] = r
      /\ \A v \in Workers \ {w} : pc'[v] = pc[v] /\ req'[v] = req[v]
      /\ doc' = doc
  BY DEF TypeOK, Begin, Refuse
<1>2. r.op = "create" => /\ versions[KeyOf(r)] = {}
                         /\ \A v \in Workers : pc[v] # "idle" => req[v].id # r.id
  BY RequestFields DEF Sendable, Fresh, KeyOf
<1>3. \A k : L!Writable(k)' = L!Writable(k)
  BY DEF L!Writable
<1>4. \A v \in Workers : pc'[v] = "put" =>
        /\ doc'[v] \in L!Writable(KeyOf(req'[v]))
        /\ versions[KeyOf(req'[v])] = {} => Creating(v)'
  BY <1>1 DEF DescentOK, Creating
<1>5. \A v \in Workers : At(v, "handler", "create")' => versions'[KeyOf(req'[v])] = {}
  BY <1>1, <1>2 DEF DescentOK, At
<1>6. \A u, v \in Workers : u # v /\ Creating(u)' /\ Creating(v)' => req'[u].id # req'[v].id
  BY <1>1, <1>2 DEF DescentOK, Creating
<1> QED
  BY <1>3, <1>4, <1>5, <1>6 DEF DescentOK

\* What a handler reads was stored under its URL's key.
LEMMA LoadableWasStored ==
  ASSUME TypeOK, HistoryOK, NEW w \in Workers, pc[w] # "idle", NEW d \in Loadable(w)
  PROVE  KeyOf(req[w]) \in Key /\ d \in versions[KeyOf(req[w])]
<1>1. KeyOf(req[w]) \in Key
  BY RequestFields DEF TypeOK
<1> QED
  BY <1>1 DEF HistoryOK, Loadable, GetItem

-----------------------------------------------------------------------------
(* The refinement.                                                         *)

Descended == TypeOK /\ DocumentsSound /\ DescentOK

\* Every step keeps what is in flight writable, and is one of Lineage or none.
LEMMA NextDescent ==
  Descended /\ [Next]_vars => DescentOK' /\ [L!Next]_<<table, versions>>
<1> SUFFICES ASSUME TypeOK, DocumentsSound, DescentOK, [Next]_vars
             PROVE  DescentOK' /\ [L!Next]_<<table, versions>>
  BY DEF Descended
<1> DEFINE Good == DescentOK' /\ [L!Next]_<<table, versions>>
<1>1. ASSUME UNCHANGED <<table, versions>>, DescentOK' PROVE Good
  BY <1>1
<1>2. ASSUME LocalOnly PROVE UNCHANGED <<table, versions>>
  BY <1>2 DEF LocalOnly, tableVars, historyVars
<1>3. ASSUME NEW w \in Workers, Arrival(w) PROVE Good
  <2>1. PICK r \in Sent : LetsRollFails(w, r) \/ NotGM(w, r) \/ Admit(w, r)
    BY <1>3 DEF Arrival
  <2>2. /\ r \in Requests /\ Sendable(r) /\ LocalOnly
        /\ Begin(w, r) \/ \E c : Refuse(w, r, c)
    BY <2>1, SentAssumption DEF LetsRollFails, NotGM, Admit
  <2> QED
    BY <1>1, <1>2, <2>2, ArrivalKeepsDescent
<1>4. ASSUME NEW w \in Workers, pc[w] # "idle", NEW c, Answer(w, c),
             UNCHANGED <<table, versions>>
      PROVE  Good
  BY <1>4, EndKeepsDescent
<1>5. ASSUME NEW w \in Workers, pc[w] # "idle", NEW d, GoPut(w, d), LocalOnly,
             d \in L!Writable(KeyOf(req[w])),
             versions[KeyOf(req[w])] = {} => req[w].op = "create"
      PROVE  Good
  BY <1>2, <1>5, GoPutKeepsDescent DEF Creating
<1>6. ASSUME NEW w \in Workers, CreateEncounter(w) PROVE Good
  <2>1. LocalOnly /\ pc[w] = "handler" /\ req[w] \in Requests /\ req[w].op = "create"
    BY <1>6 DEF CreateEncounter, At, TypeOK
  <2>2. CASE Answer(w, 400)
    BY <1>2, <1>4, <2>1, <2>2
  <2>3. CASE req[w].body # Malformed /\ GoPut(w, NewDoc(KeyOf(req[w]), req[w].body))
    <3>1. req[w].body \in Bodies /\ KeyOf(req[w]) \in Key
      BY <2>1, <2>3, RequestFields
    <3>2. versions[KeyOf(req[w])] = {}
      BY <2>1 DEF DescentOK, At
    <3>3. PICK k \in Key : k = KeyOf(req[w])
      BY <3>1
    <3>4. NewDoc(k, req[w].body) \in L!Writable(k)
      BY <3>1, <3>2, <3>3, WritableDocs
    <3> QED
      BY <1>5, <2>1, <2>3, <3>3, <3>4
  <2> QED
    BY <1>6, <2>2, <2>3 DEF CreateEncounter
<1>7. ASSUME NEW w \in Workers, GetEncounter(w) PROVE Good
  BY <1>2, <1>4, <1>7 DEF GetEncounter, NotLoaded, At
<1>8. ASSUME NEW w \in Workers, UpdateEncounter(w) PROVE Good
  <2>1. LocalOnly /\ pc[w] = "handler" /\ req[w] \in Requests /\ req[w].op = "update"
    BY <1>8 DEF UpdateEncounter, At, TypeOK
  <2>2. CASE NotLoaded(w)
    BY <1>2, <1>4, <2>1, <2>2 DEF NotLoaded
  <2>3. ASSUME NEW d \in Loadable(w), UpdateFound(w, d) PROVE Good
    <3>1. PICK k \in Key : k = KeyOf(req[w]) /\ d \in versions[k]
      BY <2>1, LoadableWasStored DEF DocumentsSound
    <3>2. CASE \E c : Answer(w, c)
      BY <1>2, <1>4, <2>1, <3>2
    <3>3. CASE /\ d.status # "released"
               /\ req[w].body # Malformed
               /\ req[w].status # "released"
               /\ GoPut(w, EditedDoc(d, req[w].body, req[w].status))
      <4>1. req[w].body \in Bodies /\ req[w].status \in EditStatuses
        BY <2>1, <3>3, RequestFields DEF EditStatuses
      <4>2. EditedDoc(d, req[w].body, req[w].status) \in L!Writable(k)
        BY <3>1, <3>3, <4>1, WritableDocs
      <4> QED
        BY <1>5, <2>1, <3>1, <3>3, <4>2
    <3> QED
      BY <2>3, <3>2, <3>3 DEF UpdateFound
  <2> QED
    BY <1>8, <2>2, <2>3 DEF UpdateEncounter
<1>9. ASSUME NEW w \in Workers, ReleaseEncounter(w) PROVE Good
  <2>1. LocalOnly /\ pc[w] = "handler" /\ req[w] \in Requests /\ req[w].op = "release"
    BY <1>9 DEF ReleaseEncounter, At, TypeOK
  <2>2. CASE NotLoaded(w)
    BY <1>2, <1>4, <2>1, <2>2 DEF NotLoaded
  <2>3. ASSUME NEW d \in Loadable(w), ReleaseFound(w, d) PROVE Good
    <3>1. PICK k \in Key : k = KeyOf(req[w]) /\ d \in versions[k]
      BY <2>1, LoadableWasStored DEF DocumentsSound
    <3>2. CASE \E c : Answer(w, c)
      BY <1>2, <1>4, <2>1, <3>2
    <3>3. CASE /\ d.status # "released"
               /\ req[w].force \/ d.body \notin Gappy
               /\ GoPut(w, ReleasedDoc(d, req[w].force))
      <4>1. req[w].force \in BOOLEAN
        BY <2>1, RequestFields
      <4>2. ReleasedDoc(d, req[w].force) \in L!Writable(k)
        BY <3>1, <3>3, <4>1, WritableDocs
      <4> QED
        BY <1>5, <2>1, <3>1, <3>3, <4>2
    <3> QED
      BY <2>3, <3>2, <3>3 DEF ReleaseFound
  <2> QED
    BY <1>9, <2>2, <2>3 DEF ReleaseEncounter
<1>10. ASSUME NEW w \in Workers, PutAcknowledged(w) \/ PutUnanswered(w) PROVE Good
  <2>1. CASE pc[w] = "put" /\ StorePut(w) /\ (PutReturned(w) \/ Unanswered(w))
    BY <2>1, PutKeepsDescent DEF L!Next, L!Key, Key
  <2>2. CASE pc[w] = "put" /\ LocalOnly /\ Unanswered(w)
    BY <1>2, <2>2, CallKeepsDescent
  <2> QED
    BY <1>10, <2>1, <2>2 DEF PutAcknowledged, PutUnanswered
<1>11. ASSUME NEW w \in Workers, DeleteEncounter(w) PROVE Good
  <2>1. At(w, "handler", "delete") /\ KeyOf(req[w]) \in Key
    BY <1>11, RequestFields DEF DeleteEncounter, At, TypeOK
  <2>2. StoreDelete(w) => UNCHANGED versions /\ L!Next
    BY <2>1 DEF StoreDelete, DeleteLands, DeleteItem, Record, L!Next, L!Remove,
              L!Key, Key
  <2>3. UNCHANGED versions => DescentOK'
    BY <1>11, <2>1, EndKeepsDescent, CallKeepsDescent DEF DeleteEncounter, At
  <2> QED
    BY <1>2, <1>11, <2>2, <2>3 DEF DeleteEncounter
<1>12. ASSUME NEW w \in Workers, PushRelease(w) PROVE Good
  BY <1>4, <1>12 DEF PushRelease, tableVars, historyVars
<1>13. ASSUME NEW w \in Workers, Finished(w) \/ Killed(w) PROVE Good
  <2>1. Recycle(w) /\ UNCHANGED <<table, versions>>
    BY <1>13 DEF Finished, Killed, Finish, Crash, Recycle, tableVars, historyVars
  <2> QED
    BY <2>1, EndKeepsDescent
<1>14. ASSUME UNCHANGED <<pc, req, doc, table, versions>> PROVE Good
  <2>1. \A k : L!Writable(k)' = L!Writable(k)
    BY <1>14 DEF L!Writable
  <2> QED
    BY <1>14, <2>1 DEF DescentOK, Creating, At
<1>15. CASE UNCHANGED vars
  BY <1>14, <1>15 DEF vars, tableVars, workerVars, historyVars
<1>16. ASSUME NEW m \in Users \X Campaigns, NEW x \in Roles, ChangeRole(m, x) PROVE Good
  BY <1>14, <1>16 DEF ChangeRole, tableVars, workerVars
<1>17. ASSUME NEW k \in Key, ReplicaCatchesUp(k) PROVE Good
  BY <1>14, <1>17 DEF ReplicaCatchesUp, Replicate, workerVars, historyVars
<1> QED
  BY <1>3, <1>6, <1>7, <1>8, <1>9, <1>10, <1>11, <1>12, <1>13, <1>15, <1>16, <1>17
  DEF Next, Step

\* What a handler is about to store may be stored there and then, and no two
\* creates run under one id: the reads it rests on may be as old as they like.
THEOREM DescentHolds == Spec => []DescentOK
<1>1. Init => DescentOK
  BY DEF Init, TableInit, WorkersInit, DescentOK, Creating, At
<1>2. TypeOK /\ Sound /\ DescentOK /\ [Next]_vars => DescentOK'
  BY NextDescent DEF Descended, Sound
<1> QED
  BY <1>1, <1>2, AlwaysSound, PTL DEF Spec

\* The encounter endpoints implement Lineage: whatever races, is stale, fails
\* or is repeated, a stored document is new, or was stored before, or is one
\* legal edit or release of one that was.
THEOREM ImplementsLineage == Spec => RefinesLineage
<1>1. Init => DescentOK /\ L!Init
  BY DEF Init, TableInit, WorkersInit, DescentOK, Creating, At, L!Init, L!Key, Key
<1>2. TypeOK /\ Sound /\ DescentOK /\ [Next]_vars
        => DescentOK' /\ [L!Next]_<<table, versions>>
  BY NextDescent DEF Descended, Sound
<1> QED
  BY <1>1, <1>2, AlwaysSound, PTL DEF Spec, RefinesLineage, L!Spec

-----------------------------------------------------------------------------
(* One invocation at a time, and current reads.                            *)

\* What may be stored under k now: what is there already, an edit or the
\* release of it, or a new document where there never was one.
Applicable(k) ==
  {d \in Doc : \/ table[k] # None /\ d \in {table[k]} \cup EditsOf(table[k])
                                                      \cup ReleasesOf(table[k])
               \/ versions[k] = {} /\ \E b \in Bodies : d = NewDoc(k, b)}

\* Why Lifecycle is implemented, with Serial: what a handler read is still
\* there when it stores what it made of it, and what it pushes is on record.
CurrentOK ==
  /\ \A w \in Workers : /\ pc[w] = "put"  => doc[w] \in Applicable(KeyOf(req[w]))
                        /\ pc[w] = "push" => table[KeyOf(req[w])] = doc[w]
  /\ PartyMatchesRecord

\* Lifecycle speaks of the documents of the handlers.
LEMMA SameDocuments ==
  /\ C!Key = Key
  /\ \A k, b : C!NewDoc(k, b) = NewDoc(k, b)
  /\ \A d : C!EditsOf(d) = EditsOf(d)
  /\ \A d : C!ReleasesOf(d) = ReleasesOf(d)
<1>1. C!Key = Key
  BY DEF C!Key, Key
<1>2. \A k, b : C!NewDoc(k, b) = NewDoc(k, b)
  BY DEF C!NewDoc, NewDoc
<1>3. \A d, b, s : C!EditedDoc(d, b, s) = EditedDoc(d, b, s)
  BY DEF C!EditedDoc, EditedDoc
<1>4. C!EditStatuses = EditStatuses
  BY DEF C!EditStatuses, EditStatuses
<1>5. \A d : C!EditsOf(d) = EditsOf(d)
  BY <1>3, <1>4 DEF C!EditsOf, EditsOf
<1>6. \A d, f : C!ReleasedDoc(d, f) = ReleasedDoc(d, f)
  BY DEF C!ReleasedDoc, ReleasedDoc
<1>7. \A d : C!ReleasesOf(d) = ReleasesOf(d)
  BY <1>6 DEF C!ReleasesOf, ReleasesOf
<1> QED
  BY <1>1, <1>2, <1>5, <1>7

-----------------------------------------------------------------------------
(* The steps.                                                              *)

Known == TypeOK /\ DocumentsSound /\ DescentOK /\ CurrentOK

Used == {k \in Key : versions[k] # {}}

Good == CurrentOK' /\ [C!Next]_<<table, Used>>

\* A step of the only worker that leaves the store and the party alone.
LEMMA WorkerStep ==
  ASSUME Serial, Known, NEW w \in Workers, UNCHANGED <<table, party, versions>>,
         pc'[w] = "put"  => doc'[w] \in Applicable(KeyOf(req'[w])),
         pc'[w] = "push" => table[KeyOf(req'[w])] = doc'[w]
  PROVE  Good
<1>1. \A k : Applicable(k)' = Applicable(k)
  BY DEF Applicable
<1>2. \A v \in Workers : v = w
  BY DEF Serial
<1>3. PartyMatchesRecord'
  BY DEF Known, CurrentOK, PartyMatchesRecord
<1>4. CurrentOK'
  BY <1>1, <1>2, <1>3 DEF CurrentOK
<1>5. UNCHANGED <<table, Used>>
  BY DEF Used
<1> QED
  BY <1>4, <1>5 DEF Good

\* An answer, a recycled slot and a request taken up hold nothing to store.
LEMMA NothingToStore ==
  ASSUME Serial, Known, NEW w \in Workers, UNCHANGED <<table, party, versions>>,
         pc'[w] \notin {"put", "push"}
  PROVE  Good
BY WorkerStep

\* What a handler reads is what is there.
LEMMA ReadIsCurrent ==
  ASSUME Serial, Known, NEW w \in Workers, pc[w] # "idle", NEW d \in Loadable(w)
  PROVE  /\ KeyOf(req[w]) \in Key /\ d \in Doc
         /\ d = table[KeyOf(req[w])] /\ d # None
<1>1. KeyOf(req[w]) \in Key
  BY RequestFields DEF Known, TypeOK
<1> QED
  BY <1>1 DEF Known, TypeOK, Serial, Loadable, GetItem

\* A put takes effect: it is a create, an edit, a release, or a repetition.
LEMMA PutIsLegal ==
  ASSUME Serial, Known, NEW w \in Workers, pc[w] = "put", StorePut(w),
         PutReturned(w) \/ Unanswered(w)
  PROVE  Good
<1>1. PICK k \in Key : k = KeyOf(req[w]) /\ k = doc[w].key
  BY RequestFields DEF Known, TypeOK, DocumentsSound, InFlightOK, Holding
<1>2. /\ table' = [table EXCEPT ![k] = doc[w]]
      /\ versions' = [versions EXCEPT ![k] = @ \cup {doc[w]}]
      /\ party' = party
  BY <1>1 DEF StorePut, PutLands, PutItem, Record
<1>3. /\ table \in [Key -> Doc \cup {None}]
      /\ versions \in [Key -> SUBSET Doc]
      /\ party \in [Key -> SUBSET {Loot[b] : b \in Bodies}]
      /\ doc[w] \in Doc /\ doc[w] # None
  BY NoneAssumption DEF Known, TypeOK
<1>4. /\ table'[k] = doc[w]
      /\ versions'[k] = versions[k] \cup {doc[w]}
      /\ \A j \in Key \ {k} : table'[j] = table[j] /\ versions'[j] = versions[j]
  BY <1>2, <1>3
<1>5. doc[w] \in Applicable(k)
  BY <1>1 DEF Known, CurrentOK
<1>6. Used' = Used \cup {k}
  BY <1>4 DEF Used
<1>7. table[k] # None => k \in Used
  BY DEF Known, DocumentsSound, HistoryOK, Used
<1>8. [C!Next]_<<table, Used>>
  <2>1. CASE table[k] # None /\ doc[w] = table[k]
    <3>1. table' = table
      BY <1>2, <1>3, <2>1
    <3>2. Used' = Used
      BY <1>6, <1>7, <2>1
    <3> QED
      BY <3>1, <3>2
  <2>2. CASE table[k] # None /\ doc[w] \in EditsOf(table[k])
    <3>1. C!Edit(k)
      BY <1>2, <1>6, <1>7, <2>2, SameDocuments DEF C!Edit, Used
    <3> QED
      BY <3>1, SameDocuments DEF C!Next
  <2>3. CASE table[k] # None /\ doc[w] \in ReleasesOf(table[k])
    <3>1. C!Release(k)
      BY <1>2, <1>6, <1>7, <2>3, SameDocuments DEF C!Release, Used
    <3> QED
      BY <3>1, SameDocuments DEF C!Next
  <2>4. CASE versions[k] = {} /\ \E b \in Bodies : doc[w] = NewDoc(k, b)
    <3>1. C!Create(k)
      BY <1>2, <1>6, <2>4, SameDocuments DEF C!Create, Used
    <3> QED
      BY <3>1, SameDocuments DEF C!Next
  <2> QED
    BY <1>5, <2>1, <2>2, <2>3, <2>4 DEF Applicable
\* The loot the party has is that of a release; what replaces a released
\* document is that document, and where nothing was stored nothing was pushed.
<1>9. PartyMatchesRecord'
  <2>1. ASSUME NEW j \in Key, party[j] # {}, table'[j] # None
        PROVE  table'[j].status = "released" /\ party[j] = {Loot[table'[j].body]}
    <3>1. CASE j # k
      BY <1>4, <2>1, <3>1 DEF Known, CurrentOK, PartyMatchesRecord
    <3>2. CASE j = k
      <4>1. versions[k] # {}
        BY <2>1, <3>2 DEF Known, DocumentsSound, PushAfterCommit, ReleasedVersions
      <4>2. table[k] # None
        BY <1>5, <4>1 DEF Applicable
      <4>3. table[k].status = "released" /\ party[k] = {Loot[table[k].body]}
        BY <2>1, <3>2, <4>2 DEF Known, CurrentOK, PartyMatchesRecord
      <4>4. doc[w] = table[k]
        BY <1>5, <4>1, <4>3 DEF Applicable, EditsOf, ReleasesOf
      <4> QED
        BY <1>4, <3>2, <4>3, <4>4
    <3> QED
      BY <3>1, <3>2
  <2> QED
    BY <1>2, <2>1 DEF PartyMatchesRecord
<1>10. /\ pc'[w] \in {"put", "push", "done"} /\ req'[w] = req[w]
       /\ pc'[w] # "done" => doc'[w] = doc[w]
  BY DEF Known, TypeOK, Unanswered, PutReturned, Answer
<1>11. doc[w] \in Applicable(k)'
  BY <1>3, <1>4 DEF Applicable
<1>12. CurrentOK'
  <2>1. \A v \in Workers : v = w
    BY DEF Serial
  <2> QED
    BY <1>1, <1>4, <1>9, <1>10, <1>11, <2>1 DEF CurrentOK
<1> QED
  BY <1>8, <1>12 DEF Good

\* A delete takes effect, or finds nothing.
LEMMA DeleteIsLegal ==
  ASSUME Serial, Known, NEW w \in Workers, At(w, "handler", "delete"),
         StoreDelete(w), (\E c : Answer(w, c)) \/ Unanswered(w)
  PROVE  Good
<1>1. PICK k \in Key : k = KeyOf(req[w])
  BY RequestFields DEF Known, TypeOK, At
<1>2. table' = [table EXCEPT ![k] = None] /\ UNCHANGED <<versions, party>>
  BY <1>1 DEF StoreDelete, DeleteLands, DeleteItem, Record
<1>3. table \in [Key -> Doc \cup {None}]
  BY DEF Known, TypeOK
<1>4. [C!Next]_<<table, Used>>
  <2>1. CASE table[k] = None
    BY <1>2, <1>3, <2>1 DEF Used
  <2>2. CASE table[k] # None
    <3>1. C!Remove(k)
      BY <1>2, <2>2 DEF C!Remove
    <3> QED
      BY <3>1, SameDocuments DEF C!Next
  <2> QED
    BY <2>1, <2>2
<1>5. PartyMatchesRecord'
  BY <1>2, <1>3 DEF Known, CurrentOK, PartyMatchesRecord
<1>6. pc'[w] \in {"handler", "done"}
  BY DEF Known, TypeOK, At, Answer, Unanswered
<1>7. CurrentOK'
  BY <1>5, <1>6 DEF CurrentOK, Serial
<1> QED
  BY <1>4, <1>7 DEF Good

\* A push reaches the party or is lost: the party has the loot on record.
LEMMA PushIsOnRecord ==
  ASSUME Serial, Known, NEW w \in Workers, PushRelease(w)
  PROVE  Good
<1>1. PICK k \in Key : k = KeyOf(req[w]) /\ k = doc[w].key
  BY RequestFields DEF PushRelease, Known, TypeOK, DocumentsSound, InFlightOK, Holding
<1>2. table[k] = doc[w] /\ doc[w] \in Doc /\ doc[w].status = "released"
  BY <1>1 DEF PushRelease, Known, CurrentOK, TypeOK, DocumentsSound, InFlightOK,
              ReleasedVersions
<1>3. UNCHANGED <<table, versions>> /\ pc'[w] = "done"
  BY DEF PushRelease, tableVars, historyVars, Answer, Known, TypeOK
<1>4. \/ party' = [party EXCEPT ![k] = @ \cup {Loot[table[k].body]}]
      \/ party' = party
  BY <1>1, <1>2 DEF PushRelease, PushOutcome
<1>5. PartyMatchesRecord'
  <2>1. party \in [Key -> SUBSET {Loot[b] : b \in Bodies}]
    BY DEF Known, TypeOK
  <2>2. party[k] = {} \/ party[k] = {Loot[table[k].body]}
    BY <1>2, NoneAssumption DEF Known, CurrentOK, PartyMatchesRecord
  <2>3. /\ party'[k] \in {{}, {Loot[table[k].body]}}
        /\ \A j \in Key \ {k} : party'[j] = party[j]
    BY <1>4, <2>1, <2>2
  <2> QED
    BY <1>2, <1>3, <2>3 DEF Known, CurrentOK, PartyMatchesRecord
<1>6. CurrentOK'
  BY <1>3, <1>5 DEF CurrentOK, Serial
<1>7. UNCHANGED <<table, Used>>
  BY <1>3 DEF Used
<1> QED
  BY <1>6, <1>7 DEF Good

-----------------------------------------------------------------------------
(* The refinement.                                                         *)

LEMMA NextIsLegal ==
  ASSUME Serial, Known, [Next]_vars
  PROVE  Good
<1>1. ASSUME LocalOnly PROVE UNCHANGED <<table, party, versions>>
  BY <1>1 DEF LocalOnly, tableVars, historyVars
<1>2. ASSUME NEW w \in Workers, NEW c, Answer(w, c), UNCHANGED <<table, party, versions>>
      PROVE  Good
  <2>1. pc'[w] = "done"
    BY <1>2 DEF Answer, Known, TypeOK
  <2> QED
    BY <1>2, <2>1, NothingToStore
<1>3. ASSUME NEW w \in Workers, Arrival(w) PROVE Good
  <2>1. PICK r \in Sent : LetsRollFails(w, r) \/ NotGM(w, r) \/ Admit(w, r)
    BY <1>3 DEF Arrival
  <2>2. LocalOnly /\ (Begin(w, r) \/ \E c : Refuse(w, r, c))
    BY <2>1 DEF LetsRollFails, NotGM, Admit
  <2>3. pc'[w] \in {"handler", "done"}
    BY <2>2 DEF Begin, Refuse, Known, TypeOK
  <2> QED
    BY <1>1, <2>2, <2>3, NothingToStore
<1>4. ASSUME NEW w \in Workers, NEW d \in Applicable(KeyOf(req[w])), GoPut(w, d), LocalOnly
      PROVE  Good
  <2>1. pc'[w] = "put" /\ doc'[w] = d /\ req' = req
    BY <1>4 DEF GoPut, Known, TypeOK
  <2> QED
    BY <1>1, <1>4, <2>1, WorkerStep
<1>5. ASSUME NEW w \in Workers, CreateEncounter(w) PROVE Good
  <2>1. LocalOnly /\ req[w] \in Requests /\ At(w, "handler", "create")
    BY <1>5 DEF CreateEncounter, At, Known, TypeOK
  <2>2. CASE Answer(w, 400)
    BY <1>1, <1>2, <2>1, <2>2
  <2>3. CASE req[w].body # Malformed /\ GoPut(w, NewDoc(KeyOf(req[w]), req[w].body))
    <3>1. PICK k \in Key : k = KeyOf(req[w])
      BY <2>1, RequestFields
    <3>2. req[w].body \in Bodies
      BY <2>1, <2>3, RequestFields DEF At
    <3>3. versions[k] = {}
      BY <2>1, <3>1 DEF Known, DescentOK
    <3>4. NewDoc(k, req[w].body) \in Applicable(k)
      BY <3>2, <3>3, DocsAreDocs DEF Applicable
    <3> QED
      BY <1>4, <2>1, <2>3, <3>1, <3>4
  <2> QED
    BY <1>5, <2>2, <2>3 DEF CreateEncounter
<1>6. ASSUME NEW w \in Workers, GetEncounter(w) PROVE Good
  BY <1>1, <1>2, <1>6 DEF GetEncounter, NotLoaded
<1>7. ASSUME NEW w \in Workers, UpdateEncounter(w) PROVE Good
  <2>1. LocalOnly /\ req[w] \in Requests /\ pc[w] # "idle" /\ req[w].op = "update"
    BY <1>7 DEF UpdateEncounter, At, Known, TypeOK
  <2>2. CASE NotLoaded(w)
    BY <1>1, <1>2, <2>1, <2>2 DEF NotLoaded
  <2>3. ASSUME NEW d \in Loadable(w), UpdateFound(w, d) PROVE Good
    <3>1. PICK k \in Key : k = KeyOf(req[w]) /\ d = table[k] /\ d # None /\ d \in Doc
      BY <2>1, ReadIsCurrent
    <3>2. CASE \E c : Answer(w, c)
      BY <1>1, <1>2, <2>1, <3>2
    <3>3. CASE /\ d.status # "released"
               /\ req[w].body # Malformed
               /\ req[w].status # "released"
               /\ GoPut(w, EditedDoc(d, req[w].body, req[w].status))
      <4>1. req[w].body \in Bodies /\ req[w].status \in EditStatuses
        BY <2>1, <3>3, RequestFields DEF EditStatuses
      <4>2. EditedDoc(d, req[w].body, req[w].status) \in EditsOf(d)
        BY <3>3, <4>1 DEF EditsOf
      <4>3. EditedDoc(d, req[w].body, req[w].status) \in Doc
        BY <3>1, <3>3, <4>1, DocsAreDocs DEF EditStatuses
      <4>4. EditedDoc(d, req[w].body, req[w].status) \in Applicable(k)
        BY <3>1, <4>2, <4>3 DEF Applicable
      <4> QED
        BY <1>4, <2>1, <3>1, <3>3, <4>4
    <3> QED
      BY <2>3, <3>2, <3>3 DEF UpdateFound
  <2> QED
    BY <1>7, <2>2, <2>3 DEF UpdateEncounter
<1>8. ASSUME NEW w \in Workers, ReleaseEncounter(w) PROVE Good
  <2>1. LocalOnly /\ req[w] \in Requests /\ pc[w] # "idle" /\ req[w].op = "release"
    BY <1>8 DEF ReleaseEncounter, At, Known, TypeOK
  <2>2. CASE NotLoaded(w)
    BY <1>1, <1>2, <2>1, <2>2 DEF NotLoaded
  <2>3. ASSUME NEW d \in Loadable(w), ReleaseFound(w, d) PROVE Good
    <3>1. PICK k \in Key : k = KeyOf(req[w]) /\ d = table[k] /\ d # None /\ d \in Doc
      BY <2>1, ReadIsCurrent
    <3>2. CASE \E c : Answer(w, c)
      BY <1>1, <1>2, <2>1, <3>2
    <3>3. CASE /\ d.status # "released"
               /\ req[w].force \/ d.body \notin Gappy
               /\ GoPut(w, ReleasedDoc(d, req[w].force))
      <4>1. req[w].force \in BOOLEAN
        BY <2>1, RequestFields
      <4>2. ReleasedDoc(d, req[w].force) \in ReleasesOf(d)
        BY <3>3, <4>1 DEF ReleasesOf
      <4>3. ReleasedDoc(d, req[w].force) \in Applicable(k)
        BY <3>1, <4>1, <4>2, DocsAreDocs DEF Applicable
      <4> QED
        BY <1>4, <2>1, <3>1, <3>3, <4>3
    <3> QED
      BY <2>3, <3>2, <3>3 DEF ReleaseFound
  <2> QED
    BY <1>8, <2>2, <2>3 DEF ReleaseEncounter
<1>9. ASSUME NEW w \in Workers, Unanswered(w), UNCHANGED <<table, party, versions>>,
             pc[w] = "put" \/ At(w, "handler", "delete")
      PROVE  Good
  <2>1. CASE Answer(w, 500)
    BY <1>2, <1>9, <2>1
  <2>2. CASE UNCHANGED <<pc, req, doc>>
    <3>1. pc'[w] # "push"
      BY <1>9, <2>2 DEF At
    <3>2. pc'[w] = "put" => doc'[w] \in Applicable(KeyOf(req'[w]))
      BY <2>2 DEF Known, CurrentOK
    <3> QED
      BY <1>9, <3>1, <3>2, WorkerStep
  <2> QED
    BY <1>9, <2>1, <2>2 DEF Unanswered
<1>10. ASSUME NEW w \in Workers, PutAcknowledged(w) \/ PutUnanswered(w) PROVE Good
  BY <1>1, <1>9, <1>10, PutIsLegal DEF PutAcknowledged, PutUnanswered
<1>11. ASSUME NEW w \in Workers, DeleteEncounter(w) PROVE Good
  BY <1>1, <1>9, <1>11, DeleteIsLegal DEF DeleteEncounter
<1>12. ASSUME NEW w \in Workers, Finished(w) \/ Killed(w) PROVE Good
  <2>1. pc'[w] = "idle" /\ UNCHANGED <<table, party, versions>>
    BY <1>12 DEF Finished, Killed, Finish, Crash, Recycle, tableVars, historyVars,
                 Known, TypeOK
  <2> QED
    BY <2>1, NothingToStore
<1>13. ASSUME UNCHANGED <<pc, req, doc, table, party, versions>> PROVE Good
  <2>1. \A k : Applicable(k)' = Applicable(k)
    BY <1>13 DEF Applicable
  <2>2. CurrentOK'
    BY <1>13, <2>1 DEF Known, CurrentOK, PartyMatchesRecord
  <2>3. UNCHANGED <<table, Used>>
    BY <1>13 DEF Used
  <2> QED
    BY <2>2, <2>3 DEF Good
<1>14. CASE UNCHANGED vars
  BY <1>13, <1>14 DEF vars, tableVars, workerVars, historyVars
<1>15. ASSUME NEW m \in Users \X Campaigns, NEW x \in Roles, ChangeRole(m, x) PROVE Good
  BY <1>13, <1>15 DEF ChangeRole, tableVars, workerVars
<1>16. ASSUME NEW k \in Key, ReplicaCatchesUp(k) PROVE Good
  BY <1>13, <1>16 DEF ReplicaCatchesUp, Replicate, workerVars, historyVars
<1> QED
  BY <1>3, <1>5, <1>6, <1>7, <1>8, <1>10, <1>11, <1>12, <1>14, <1>15, <1>16,
     PushIsOnRecord
  DEF Next, Step

LEMMA InitCurrent == Init => CurrentOK /\ C!Init
<1> SUFFICES ASSUME Init PROVE CurrentOK /\ C!Init
  OBVIOUS
<1>1. CurrentOK
  BY DEF Init, WorkersInit, CurrentOK, PartyMatchesRecord
<1>2. C!Init
  BY SameDocuments DEF Init, TableInit, C!Init
<1> QED
  BY <1>1, <1>2

\* While requests are handled one at a time and reads are current, an
\* encounter lives as documented, whatever is killed, unanswered or repeated:
\* created once, edited while unreleased, released at most once, then frozen,
\* and deleted for good.
THEOREM SerialLifecycle == ASSUME Serial PROVE Spec => RefinesLifecycle
<1>1. Init => CurrentOK /\ C!Init
  BY InitCurrent
<1>2. TypeOK /\ Sound /\ DescentOK /\ CurrentOK /\ [Next]_vars
        => CurrentOK' /\ [C!Next]_<<table, Used>>
  BY NextIsLegal DEF Known, Sound, Good
<1> QED
  BY <1>1, <1>2, AlwaysSound, DescentHolds, PTL DEF Spec, RefinesLifecycle, C!Spec, Used

\* And the party then has the loot of the release on record, or none yet.
THEOREM SerialParty == ASSUME Serial PROVE Spec => []PartyMatchesRecord
<1>1. Init => CurrentOK
  BY InitCurrent
<1>2. TypeOK /\ Sound /\ DescentOK /\ CurrentOK /\ [Next]_vars => CurrentOK'
  BY NextIsLegal DEF Known, Sound, Good
<1>3. CurrentOK => PartyMatchesRecord
  BY DEF CurrentOK
<1> QED
  BY <1>1, <1>2, <1>3, AlwaysSound, DescentHolds, PTL DEF Spec

-----------------------------------------------------------------------------
(* What the races of the violation runs break, and nothing else does.      *)

\* A step of Lifecycle takes a released document away or leaves it, and puts
\* nothing where something was deleted.
LEMMA LegalStep ==
  ASSUME TypeOK, HistoryOK, [C!Next]_<<table, Used>>, NEW k \in Key
  PROVE  /\ table[k] # None /\ table[k].status = "released"
              => Frozen(table[k], table'[k])
         /\ versions[k] # {} /\ table[k] = None => table'[k] = None
<1>1. table \in [Key -> Doc \cup {None}]
  BY DEF TypeOK
<1>2. CASE UNCHANGED table
  BY <1>2 DEF Frozen
<1>3. ASSUME NEW j \in Key, C!Create(j) \/ C!Edit(j) \/ C!Release(j) \/ C!Remove(j)
      PROVE  /\ table[k] # None /\ table[k].status = "released"
                  => Frozen(table[k], table'[k])
             /\ versions[k] # {} /\ table[k] = None => table'[k] = None
  <2>1. CASE j # k
    <3>1. table'[k] = table[k]
      BY <1>1, <1>3, <2>1 DEF C!Create, C!Edit, C!Release, C!Remove
    <3> QED
      BY <3>1 DEF Frozen
  <2>2. CASE j = k /\ C!Create(j)
    BY <2>2 DEF C!Create, HistoryOK
  <2>3. CASE j = k /\ C!Edit(j)
    BY <2>3, SameDocuments DEF C!Edit, EditsOf
  <2>4. CASE j = k /\ C!Release(j)
    BY <2>4, SameDocuments DEF C!Release, ReleasesOf
  <2>5. CASE j = k /\ C!Remove(j)
    BY <1>1, <2>5 DEF C!Remove, Frozen
  <2> QED
    BY <1>3, <2>1, <2>2, <2>3, <2>4, <2>5
<1> QED
  BY <1>2, <1>3, SameDocuments DEF C!Next

\* With one invocation at a time and current reads nothing but a delete
\* touches a released encounter: MCEncounters_unreleased needs a race or a
\* stale read, and no crash or repeated call leads there.
THEOREM SerialImmutable == ASSUME Serial PROVE Spec => ReleasedImmutable
<1>1. Init => CurrentOK
  BY InitCurrent
<1>2. TypeOK /\ Sound /\ DescentOK /\ CurrentOK /\ [Next]_vars
        => /\ CurrentOK'
           /\ [\A k \in Key : table[k] # None /\ table[k].status = "released"
                                => Frozen(table[k], table'[k])]_vars
  BY NextIsLegal, LegalStep DEF Known, Sound, DocumentsSound, Good
<1> QED
  BY <1>1, <1>2, AlwaysSound, DescentHolds, PTL DEF Spec, ReleasedImmutable

\* And what was deleted stays deleted.
THEOREM SerialDeletes == ASSUME Serial PROVE Spec => DeletedStaysDeleted
<1>1. Init => CurrentOK
  BY InitCurrent
<1>2. TypeOK /\ Sound /\ DescentOK /\ CurrentOK /\ [Next]_vars
        => /\ CurrentOK'
           /\ [\A k \in Key : versions[k] # {} /\ table[k] = None => table'[k] = None]_vars
  BY NextIsLegal, LegalStep DEF Known, Sound, DocumentsSound, Good
<1> QED
  BY <1>1, <1>2, AlwaysSound, DescentHolds, PTL DEF Spec, DeletedStaysDeleted
=============================================================================
