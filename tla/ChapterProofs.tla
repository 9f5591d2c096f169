--------------------------- MODULE ChapterProofs ----------------------------
(***************************************************************************)
(* Theorems about the chapter endpoints, for any campaigns, ids, bodies    *)
(* and workers, any number of attempts and any of the disturbances.        *)
(***************************************************************************)
EXTENDS ChapterProps, InvocationProofs

USE OrdersAssumption, OmittedAssumption, BodiesAssumption, MaxAttemptsAssumption

-----------------------------------------------------------------------------
(* Requests and chapters.                                                  *)

LEMMA RequestFields ==
  ASSUME NEW r \in Requests
  PROVE  /\ r.op \in {"create", "update", "delete"}
         /\ r.id \in Ids
         /\ KeyOf(r) \in Key
         /\ r.op \in {"create", "update"} /\ r.body # Malformed
              => r.body \in ChapterInput
  BY DEF Requests, KeyOf, Key

\* The two ways of making a chapter make chapters, and are the two ways the
\* properties speak of.
LEMMA Made ==
  ASSUME NEW in \in ChapterInput
  PROVE  /\ \A k \in Key : NewChapter(k, in) \in Chapter /\ BirthOf(k, in, NewChapter(k, in))
         /\ \A ch \in Chapter : /\ UpdatedChapter(ch, in) \in Chapter
                                /\ MergeOf(ch, in, UpdatedChapter(ch, in))
<1>1. \A k \in Key : NewChapter(k, in) \in Chapter
  BY DEF NewChapter, Chapter, ChapterInput, Supplied
<1>2. \A k \in Key : BirthOf(k, in, NewChapter(k, in))
  BY DEF NewChapter, BirthOf, MergeOf, ChapterInput, Supplied
<1>3. \A ch \in Chapter : UpdatedChapter(ch, in) \in Chapter
  BY DEF UpdatedChapter, Chapter, ChapterInput, Supplied
<1>4. \A ch \in Chapter : MergeOf(ch, in, UpdatedChapter(ch, in))
  BY DEF UpdatedChapter, MergeOf, Chapter, ChapterInput, Supplied
<1> QED
  BY <1>1, <1>2, <1>3, <1>4

-----------------------------------------------------------------------------
(* The invariant.                                                          *)

TableOK == /\ table   \in [Key -> Chapter \cup {None}]
           /\ replica \in [Key -> Chapter \cup {None}]
           /\ wrote \in [Workers -> BOOLEAN]
           /\ versions \in [Key -> SUBSET Chapter]

Typed == WorkersTyped(Requests, Chapter) /\ TableOK

\* The table and its replica hold only what was stored under the key.
HistoryOK == \A k \in Key : /\ \A ch \in versions[k] : ch.key = k
                            /\ table[k]   \in versions[k] \cup {None}
                            /\ replica[k] \in versions[k] \cup {None}

\* What a create is about to store, it was the first to store under its key
\* or is the first to; what an update is about to store is one merge away from
\* a chapter the key has held.
OriginOK(w) ==
  LET k == KeyOf(req[w]) IN
  /\ doc[w].key = k
  /\ req[w].op \in {"create", "update"}
  /\ IF req[w].op = "create"
     THEN /\ BirthOf(k, req[w].body, doc[w])
          /\ versions[k] = {} \/ doc[w] \in versions[k]
     ELSE \E ch \in versions[k] : MergeOf(ch, req[w].body, doc[w])

Creating(w) == pc[w] # "idle" /\ req[w].op = "create"

\* Ids are fresh: nobody else stores under a key while its create is at work.
FreshOK ==
  /\ \A w \in Workers : At(w, "handler", "create") => versions[KeyOf(req[w])] = {}
  /\ \A v, w \in Workers : v # w /\ Creating(v) /\ Creating(w) => req[v].id # req[w].id

OriginsOK == \A w \in Workers : pc[w] = "put" => OriginOK(w)

\* Up to its first store call a request has written nothing.
BookkeepingOK ==
  /\ \A w \in Workers :
       /\ pc[w] = "idle" => ~wrote[w]
       /\ pc[w] = "handler" /\ req[w].op # "delete" => ~wrote[w]
  /\ AnswersAreHonest

Sound == HistoryOK /\ OriginsOK /\ FreshOK /\ BookkeepingOK

LEMMA InitSound == Init => Typed /\ Sound
<1> SUFFICES ASSUME Init PROVE Typed /\ Sound
  OBVIOUS
<1>1. WorkersTyped(Requests, Chapter)
  BY WorkersInitTyped DEF Init
<1>2. TableOK /\ HistoryOK
  BY DEF Init, TableInit, WorkersInit, TableOK, HistoryOK
<1>3. OriginsOK /\ FreshOK /\ BookkeepingOK
  BY DEF Init, WorkersInit, OriginsOK, FreshOK, Creating, At, BookkeepingOK,
         AnswersAreHonest
<1> QED
  BY <1>1, <1>2, <1>3 DEF Typed, Sound

-----------------------------------------------------------------------------
(* Type correctness.                                                       *)

LEMMA LocalTyped == ASSUME TableOK, LocalOnly PROVE TableOK'
  BY DEF TableOK, LocalOnly, tableVars

\* A store call that takes effect stores a chapter, or removes one.
LEMMA StoreTyped ==
  ASSUME Typed, NEW w \in Workers,
         \/ pc[w] = "put" /\ StorePut(w)
         \/ pc[w] = "handler" /\ StoreDelete(w)
  PROVE  TableOK'
<1>1. CASE pc[w] = "put" /\ StorePut(w)
  <2>1. doc[w] \in Chapter /\ doc[w].key \in Key
    BY <1>1 DEF Typed, WorkersTyped, Chapter
  <2> QED
    BY <1>1, <2>1 DEF Typed, TableOK, StorePut, PutLands, PutItem
<1>2. CASE pc[w] = "handler" /\ StoreDelete(w)
  <2>1. KeyOf(req[w]) \in Key
    BY <1>2, RequestFields DEF Typed, WorkersTyped
  <2> QED
    BY <1>2, <2>1 DEF Typed, TableOK, StoreDelete, DeleteLands, DeleteItem
<1> QED
  BY <1>1, <1>2

\* What a read may return is a chapter, when it is anything.
LEMMA LoadableIsChapter ==
  ASSUME Typed, NEW w \in Workers, pc[w] # "idle"
  PROVE  Loadable(w) \subseteq Chapter
<1>1. KeyOf(req[w]) \in Key
  BY RequestFields DEF Typed, WorkersTyped
<1> QED
  BY <1>1 DEF Typed, TableOK, Loadable, GetItem

LEMMA NextTyped == Typed /\ [Next]_vars => Typed'
<1> SUFFICES ASSUME Typed, [Next]_vars PROVE Typed'
  OBVIOUS
<1>1. WorkersTyped(Requests, Chapter) /\ TableOK
  BY DEF Typed
<1>2. ASSUME NEW w \in Workers, NEW r \in Requests, Admit(w, r) PROVE Typed'
  BY <1>1, <1>2, BeginTyped, LocalTyped DEF Admit, Typed
<1>3. ASSUME NEW w \in Workers, CreateChapter(w) PROVE Typed'
  <2>1. pc[w] # "idle" /\ req[w] \in Requests /\ req[w].op = "create" /\ TableOK'
    BY <1>1, <1>3, LocalTyped DEF CreateChapter, At, WorkersTyped
  <2>2. CASE Answer(w, 400)
    BY <1>1, <2>1, <2>2, AnswerTyped DEF Typed, Codes
  <2>3. CASE req[w].body # Malformed /\ GoPut(w, NewChapter(KeyOf(req[w]), req[w].body))
    BY <1>1, <2>1, <2>3, RequestFields, Made, GoPutTyped DEF Typed
  <2> QED
    BY <1>3, <2>2, <2>3 DEF CreateChapter
<1>4. ASSUME NEW w \in Workers, UpdateChapter(w) PROVE Typed'
  <2>1. pc[w] # "idle" /\ req[w] \in Requests /\ req[w].op = "update" /\ TableOK'
    BY <1>1, <1>4, LocalTyped DEF UpdateChapter, At, WorkersTyped
  <2>2. CASE Answer(w, 400) \/ Answer(w, 404) \/ Answer(w, 500)
    BY <1>1, <2>1, <2>2, AnswerTyped DEF Typed, Codes
  <2>3. ASSUME NEW ch \in Loadable(w), req[w].body # Malformed,
               GoPut(w, UpdatedChapter(ch, req[w].body))
        PROVE  Typed'
    BY <1>1, <2>1, <2>3, RequestFields, Made, LoadableIsChapter, GoPutTyped DEF Typed
  <2> QED
    BY <1>4, <2>2, <2>3 DEF UpdateChapter, NotLoaded
<1>5. ASSUME NEW w \in Workers, PutAcknowledged(w) PROVE Typed'
  <2>1. pc[w] # "idle" /\ TableOK'
    BY <1>5, StoreTyped DEF PutAcknowledged
  <2>2. \E c \in Codes : Answer(w, c)
    BY <1>5 DEF PutAcknowledged, Codes
  <2> QED
    BY <1>1, <2>1, <2>2, AnswerTyped DEF Typed
<1>6. ASSUME NEW w \in Workers, PutUnanswered(w) PROVE Typed'
  <2>1. pc[w] # "idle" /\ Unanswered(w)
    BY <1>6 DEF PutUnanswered
  <2>2. TableOK'
    BY <1>1, <1>6, StoreTyped, LocalTyped DEF PutUnanswered
  <2> QED
    BY <1>1, <2>1, <2>2, UnansweredTyped DEF Typed
<1>7. ASSUME NEW w \in Workers, DeleteChapter(w) PROVE Typed'
  <2>1. pc[w] = "handler" /\ TableOK'
    BY <1>1, <1>7, StoreTyped, LocalTyped DEF DeleteChapter, At
  <2> QED
    BY <1>1, <1>7, <2>1, AnswerTyped, UnansweredTyped DEF DeleteChapter, Typed, Codes
<1>8. ASSUME NEW w \in Workers, Finished(w) \/ Killed(w) PROVE Typed'
  <2>1. Recycle(w) /\ UNCHANGED versions
    BY <1>8 DEF Finished, Killed, Finish, Crash
  <2>2. TableOK'
    BY <1>1, <2>1 DEF TableOK, Recycle, tableVars
  <2> QED
    BY <1>1, <2>1, <2>2, RecycleTyped DEF Typed
<1>9. ASSUME NEW k \in Key, ReplicaCatchesUp(k) PROVE Typed'
  BY <1>9 DEF Typed, TableOK, WorkersTyped, ReplicaCatchesUp, Replicate, workerVars
<1>10. CASE UNCHANGED vars
  BY <1>10 DEF Typed, TableOK, WorkersTyped, vars, tableVars, workerVars
<1> QED
  BY <1>2, <1>3, <1>4, <1>5, <1>6, <1>7, <1>8, <1>9, <1>10 DEF Next, Step

\* Every variable always holds values of its kind.
THEOREM ChaptersTypeCorrect == Spec => []TypeOK
<1>1. Init => Typed
  BY InitSound
<1>2. Typed => TypeOK
  BY DEF Typed, TableOK, WorkersTyped, TypeOK
<1> QED
  BY <1>1, <1>2, NextTyped, PTL DEF Spec

-----------------------------------------------------------------------------
(* Where the documents come from.                                          *)

\* A handler that ends, or repeats its call, disturbs nothing.
LEMMA EndKeepsOrigins ==
  ASSUME Typed, OriginsOK, FreshOK, UNCHANGED versions, NEW w \in Workers,
         \/ Recycle(w)
         \/ UNCHANGED <<pc, req, doc>>
         \/ pc[w] # "idle" /\ \E c : Answer(w, c)
  PROVE  OriginsOK' /\ FreshOK'
<1>1. \A v \in Workers :
        /\ pc'[v] = "put" => pc[v] = "put" /\ UNCHANGED <<req[v], doc[v]>>
        /\ pc'[v] = "handler" => pc[v] = "handler" /\ UNCHANGED req[v]
        /\ pc'[v] # "idle" => pc[v] # "idle" /\ UNCHANGED req[v]
  BY DEF Recycle, Answer, Typed, WorkersTyped
<1>2. OriginsOK'
  BY <1>1 DEF OriginsOK, OriginOK, KeyOf
<1>3. FreshOK'
  BY <1>1 DEF FreshOK, Creating, At, KeyOf
<1> QED
  BY <1>2, <1>3

\* A handler that goes on to store what it made disturbs nothing else.
LEMMA GoPutKeepsOrigins ==
  ASSUME Typed, OriginsOK, FreshOK, UNCHANGED versions, NEW w \in Workers,
         pc[w] = "handler", NEW ch \in Chapter, GoPut(w, ch), OriginOK(w)'
  PROVE  OriginsOK' /\ FreshOK'
<1>1. \A v \in Workers : v # w => UNCHANGED <<pc[v], req[v], doc[v]>>
  BY DEF GoPut, Typed, WorkersTyped
<1>2. pc'[w] = "put" /\ req'[w] = req[w]
  BY DEF GoPut, Typed, WorkersTyped
<1>3. OriginsOK'
  BY <1>1 DEF OriginsOK, OriginOK, KeyOf
<1>4. FreshOK'
  BY <1>1, <1>2 DEF FreshOK, Creating, At, KeyOf
<1> QED
  BY <1>3, <1>4

\* Nobody but its own create stores where nothing was stored yet; so a store
\* disturbs no other handler.
LEMMA StoreKeepsOrigins ==
  ASSUME Typed, OriginsOK, FreshOK, NEW w \in Workers, pc[w] = "put", StorePut(w),
         \/ UNCHANGED <<pc, req, doc>>
         \/ \E c : Answer(w, c)
  PROVE  OriginsOK' /\ FreshOK'
<1>1. PICK k \in Key : k = KeyOf(req[w])
  BY RequestFields DEF Typed, WorkersTyped
<1>2. /\ doc[w].key = k
      /\ req[w].op = "create" \/ versions[k] # {}
      /\ versions' = [versions EXCEPT ![k] = @ \cup {doc[w]}]
  BY <1>1 DEF OriginsOK, OriginOK, StorePut
<1>3. \A v \in Workers :
        /\ pc'[v] # "idle" => pc[v] # "idle" /\ UNCHANGED req[v] /\ req[v] \in Requests
        /\ pc'[v] = "put" => pc[v] = "put" /\ UNCHANGED doc[v]
        /\ pc'[v] = "handler" => pc[v] = "handler"
  BY DEF Answer, Typed, WorkersTyped
<1>4. \A v \in Workers : v # w /\ Creating(v) /\ versions[KeyOf(req[v])] = {}
                           => KeyOf(req[v]) # k
  BY <1>1, <1>2 DEF FreshOK, Creating, KeyOf
<1>5. ASSUME NEW v \in Workers, pc'[v] = "put" PROVE OriginOK(v)'
  <2>1. PICK j \in Key : j = KeyOf(req[v]) /\ j = KeyOf(req'[v])
    BY <1>3, <1>5, RequestFields DEF KeyOf
  <2>2. OriginOK(v) /\ req'[v] = req[v] /\ doc'[v] = doc[v] /\ pc[v] = "put"
    BY <1>3, <1>5 DEF OriginsOK
  <2>3. versions[j] \subseteq versions'[j] /\ (j # k => versions'[j] = versions[j])
        /\ doc[w] \in versions'[k]
    BY <1>2 DEF Typed, TableOK
  <2>4. req[v].op = "create" => versions'[j] = {} \/ doc[v] \in versions'[j]
    BY <1>1, <1>4, <2>1, <2>2, <2>3 DEF OriginOK, Creating
  <2> QED
    BY <2>1, <2>2, <2>3, <2>4 DEF OriginOK
<1>6. ASSUME NEW v \in Workers, At(v, "handler", "create")'
      PROVE  versions'[KeyOf(req'[v])] = {}
  <2>1. PICK j \in Key : j = KeyOf(req[v]) /\ j = KeyOf(req'[v])
    BY <1>3, <1>6, RequestFields DEF KeyOf, At
  <2>2. v # w /\ Creating(v) /\ versions[j] = {}
    BY <1>3, <1>6, <2>1 DEF At, FreshOK, Creating
  <2> QED
    BY <1>2, <1>4, <2>1, <2>2 DEF Typed, TableOK
<1> QED
  BY <1>3, <1>5, <1>6 DEF OriginsOK, FreshOK, Creating

\* What was read of a key was stored there.
LEMMA LoadableWasStored ==
  ASSUME Typed, HistoryOK, NEW w \in Workers, pc[w] # "idle"
  PROVE  Loadable(w) \subseteq versions[KeyOf(req[w])]
<1>1. PICK k \in Key : k = KeyOf(req[w])
  BY RequestFields DEF Typed, WorkersTyped
<1> QED
  BY <1>1 DEF HistoryOK, Loadable, GetItem

\* Every step keeps the origin of every chapter a handler holds.
LEMMA NextOrigins ==
  Typed /\ HistoryOK /\ OriginsOK /\ FreshOK /\ [Next]_vars => OriginsOK' /\ FreshOK'
<1> SUFFICES ASSUME Typed, HistoryOK, OriginsOK, FreshOK, [Next]_vars
             PROVE  OriginsOK' /\ FreshOK'
  OBVIOUS
<1>1. ASSUME NEW w \in Workers, NEW r \in Requests, Admit(w, r) PROVE OriginsOK' /\ FreshOK'
  <2>1. /\ UNCHANGED <<versions, doc>>
        /\ pc' = [pc EXCEPT ![w] = "handler"]
        /\ req' = [req EXCEPT ![w] = r]
        /\ r.op = "create" => Fresh(r.id)
    BY <1>1 DEF Admit, Begin, LocalOnly
  <2>2. OriginsOK'
    BY <2>1 DEF OriginsOK, OriginOK, KeyOf, Typed, WorkersTyped
  <2>3. r.op = "create" => versions[KeyOf(r)] = {}
    BY <2>1 DEF Fresh, KeyOf, Requests
  <2>4. FreshOK'
    BY <2>1, <2>3 DEF FreshOK, Fresh, Creating, At, KeyOf, Typed, WorkersTyped
  <2> QED
    BY <2>2, <2>4
<1>2. ASSUME NEW w \in Workers, CreateChapter(w) PROVE OriginsOK' /\ FreshOK'
  <2>1. /\ pc[w] = "handler" /\ req[w] \in Requests /\ req[w].op = "create"
        /\ UNCHANGED versions
    BY <1>2 DEF CreateChapter, At, Typed, WorkersTyped, LocalOnly
  <2>2. CASE Answer(w, 400)
    BY <2>1, <2>2, EndKeepsOrigins
  <2>3. CASE req[w].body # Malformed /\ GoPut(w, NewChapter(KeyOf(req[w]), req[w].body))
    <3>1. PICK k \in Key : k = KeyOf(req[w]) /\ k = KeyOf(req'[w])
      BY <2>1, <2>3, RequestFields DEF GoPut
    <3>2. PICK ch \in Chapter : /\ ch = NewChapter(k, req[w].body)
                                /\ ch.key = k
                                /\ BirthOf(k, req[w].body, ch)
      BY <2>1, <2>3, <3>1, RequestFields, Made DEF BirthOf, MergeOf
    <3>3. doc'[w] = ch /\ req'[w] = req[w] /\ versions'[k] = {}
      BY <2>1, <2>3, <3>1, <3>2 DEF GoPut, Typed, WorkersTyped, FreshOK, At
    <3>4. OriginOK(w)'
      BY <2>1, <3>1, <3>2, <3>3 DEF OriginOK
    <3> QED
      BY <2>1, <2>3, <3>1, <3>2, <3>4, GoPutKeepsOrigins
  <2> QED
    BY <1>2, <2>2, <2>3 DEF CreateChapter
<1>3. ASSUME NEW w \in Workers, UpdateChapter(w) PROVE OriginsOK' /\ FreshOK'
  <2>1. /\ pc[w] = "handler" /\ req[w] \in Requests /\ req[w].op = "update"
        /\ UNCHANGED versions
    BY <1>3 DEF UpdateChapter, At, Typed, WorkersTyped, LocalOnly
  <2>2. CASE \E c : Answer(w, c)
    BY <2>1, <2>2, EndKeepsOrigins
  <2>3. ASSUME NEW read \in Loadable(w), req[w].body # Malformed,
               GoPut(w, UpdatedChapter(read, req[w].body))
        PROVE  OriginsOK' /\ FreshOK'
    <3>1. PICK k \in Key : k = KeyOf(req[w]) /\ k = KeyOf(req'[w])
      BY <2>1, <2>3, RequestFields DEF GoPut
    <3>2. read \in Chapter /\ read \in versions[k] /\ read.key = k
      BY <2>1, <3>1, LoadableIsChapter, LoadableWasStored DEF HistoryOK
    <3>3. PICK ch \in Chapter : /\ ch = UpdatedChapter(read, req[w].body)
                                /\ ch.key = k
                                /\ MergeOf(read, req[w].body, ch)
      BY <2>1, <2>3, <3>2, RequestFields, Made DEF MergeOf
    <3>4. doc'[w] = ch /\ req'[w] = req[w] /\ read \in versions'[k]
      BY <2>1, <2>3, <3>2, <3>3 DEF GoPut, Typed, WorkersTyped
    <3>5. OriginOK(w)'
      BY <2>1, <3>1, <3>3, <3>4 DEF OriginOK
    <3> QED
      BY <2>1, <2>3, <3>3, <3>5, GoPutKeepsOrigins
  <2> QED
    BY <1>3, <2>2, <2>3 DEF UpdateChapter, NotLoaded
<1>4. ASSUME NEW w \in Workers, PutAcknowledged(w) \/ PutUnanswered(w)
      PROVE  OriginsOK' /\ FreshOK'
  <2>1. /\ pc[w] = "put" /\ pc[w] # "idle"
        /\ StorePut(w) \/ UNCHANGED versions
        /\ (\E c : Answer(w, c)) \/ UNCHANGED <<pc, req, doc>>
    BY <1>4 DEF PutAcknowledged, PutUnanswered, Unanswered, LocalOnly
  <2> QED
    BY <2>1, StoreKeepsOrigins, EndKeepsOrigins
<1>5. ASSUME NEW w \in Workers, DeleteChapter(w) PROVE OriginsOK' /\ FreshOK'
  <2>1. /\ pc[w] # "idle" /\ UNCHANGED versions
        /\ (\E c : Answer(w, c)) \/ UNCHANGED <<pc, req, doc>>
    BY <1>5 DEF DeleteChapter, At, StoreDelete, LocalOnly, Unanswered
  <2> QED
    BY <2>1, EndKeepsOrigins
<1>6. ASSUME NEW w \in Workers, Finished(w) \/ Killed(w) PROVE OriginsOK' /\ FreshOK'
  BY <1>6, EndKeepsOrigins DEF Finished, Killed, Finish, Crash
<1>7. CASE UNCHANGED <<pc, req, doc, versions>>
  BY <1>7 DEF OriginsOK, OriginOK, FreshOK, Creating, At
<1> QED
  BY <1>1, <1>2, <1>3, <1>4, <1>5, <1>6, <1>7
  DEF Next, Step, vars, workerVars, ReplicaCatchesUp

\* Every step keeps the history of the table.
LEMMA NextHistory == Typed /\ HistoryOK /\ OriginsOK /\ [Next]_vars => HistoryOK'
<1> SUFFICES ASSUME Typed, HistoryOK, OriginsOK, [Next]_vars PROVE HistoryOK'
  OBVIOUS
<1>1. ASSUME NEW w \in Workers, pc[w] = "put", StorePut(w) PROVE HistoryOK'
  <2>1. doc[w].key \in Key
    BY <1>1 DEF Typed, WorkersTyped, Chapter
  <2> QED
    BY <1>1, <2>1 DEF HistoryOK, StorePut, PutLands, PutItem, Typed, TableOK
<1>2. ASSUME NEW w \in Workers, pc[w] = "handler", StoreDelete(w) PROVE HistoryOK'
  BY <1>2, RequestFields
  DEF HistoryOK, StoreDelete, DeleteLands, DeleteItem, Typed, WorkersTyped, TableOK
<1>3. ASSUME NEW k \in Key, ReplicaCatchesUp(k) PROVE HistoryOK'
  BY <1>3 DEF HistoryOK, ReplicaCatchesUp, Replicate, Typed, TableOK
<1>4. CASE UNCHANGED <<tableVars, versions>>
  BY <1>4 DEF HistoryOK, tableVars
<1> QED
  BY <1>1, <1>2, <1>3, <1>4
  DEF Next, Step, vars, LocalOnly, Admit, CreateChapter, UpdateChapter, PutAcknowledged,
      PutUnanswered, DeleteChapter, At, Finished, Killed, Finish, Crash, Recycle

-----------------------------------------------------------------------------
(* Bookkeeping.                                                            *)

\* An answer is honest when a success has written and a refusal has not.
LEMMA HonestAnswer ==
  ASSUME Typed, BookkeepingOK, NEW w \in Workers, pc[w] # "idle", NEW c, Answer(w, c),
         \A v \in Workers : v # w => UNCHANGED wrote[v],
         c \in {200, 201, 204} => wrote'[w],
         c \in {400, 404} => ~wrote'[w]
  PROVE  BookkeepingOK'
<1>1. \A v \in Workers :
        /\ v # w => UNCHANGED <<pc[v], req[v], code[v], wrote[v]>>
        /\ v = w => pc'[v] = "done" /\ code'[v] = c
  BY DEF Answer, Typed, WorkersTyped
<1> QED
  BY <1>1 DEF BookkeepingOK, AnswersAreHonest

LEMMA NextBookkeeping == Typed /\ OriginsOK /\ BookkeepingOK /\ [Next]_vars => BookkeepingOK'
<1> SUFFICES ASSUME Typed, OriginsOK, BookkeepingOK, [Next]_vars PROVE BookkeepingOK'
  OBVIOUS
<1>1. ASSUME NEW w \in Workers, NEW r \in Requests, Admit(w, r) PROVE BookkeepingOK'
  <2>1. \A v \in Workers :
          /\ v # w => UNCHANGED <<pc[v], req[v]>>
          /\ v = w => pc[v] = "idle" /\ pc'[v] = "handler"
          /\ UNCHANGED <<wrote[v], code[v]>>
    BY <1>1 DEF Admit, Begin, LocalOnly, Typed, WorkersTyped
  <2> QED
    BY <2>1 DEF BookkeepingOK, AnswersAreHonest
<1>2. ASSUME NEW w \in Workers, CreateChapter(w) \/ UpdateChapter(w) PROVE BookkeepingOK'
  <2>1. pc[w] = "handler" /\ req[w].op # "delete" /\ UNCHANGED wrote /\ ~wrote[w]
    BY <1>2 DEF CreateChapter, UpdateChapter, At, LocalOnly, BookkeepingOK
  <2>2. CASE Answer(w, 400) \/ Answer(w, 404) \/ Answer(w, 500)
    BY <2>1, <2>2, HonestAnswer
  <2>3. ASSUME NEW ch, GoPut(w, ch) PROVE BookkeepingOK'
    <3>1. \A v \in Workers : /\ v # w => UNCHANGED <<pc[v], req[v], code[v]>>
                             /\ v = w => pc'[v] = "put"
      BY <2>3 DEF GoPut, Typed, WorkersTyped
    <3> QED
      BY <2>1, <3>1 DEF BookkeepingOK, AnswersAreHonest
  <2> QED
    BY <1>2, <2>2, <2>3 DEF CreateChapter, UpdateChapter, NotLoaded
<1>3. ASSUME NEW w \in Workers, UNCHANGED <<pc, req, code>>,
             pc[w] = "put" \/ At(w, "handler", "delete"),
             \A v \in Workers : v # w => UNCHANGED wrote[v]
      PROVE  BookkeepingOK'
  BY <1>3 DEF BookkeepingOK, AnswersAreHonest, At
<1>4. ASSUME NEW w \in Workers, PutAcknowledged(w) \/ PutUnanswered(w) PROVE BookkeepingOK'
  <2>1. /\ pc[w] = "put"
        /\ \A v \in Workers : v # w => UNCHANGED wrote[v]
        /\ PutAcknowledged(w) => wrote'[w]
    BY <1>4 DEF PutAcknowledged, PutUnanswered, StorePut, PutLands, LocalOnly, Typed, TableOK
  <2>2. CASE PutAcknowledged(w)
    <3>1. PICK c \in {200, 201} : Answer(w, c)
      BY <2>2 DEF PutAcknowledged
    <3> QED
      BY <2>1, <2>2, <3>1, HonestAnswer
  <2>3. CASE PutUnanswered(w)
    BY <1>3, <2>1, <2>3, HonestAnswer DEF PutUnanswered, Unanswered
  <2> QED
    BY <1>4, <2>2, <2>3
<1>5. ASSUME NEW w \in Workers, DeleteChapter(w) PROVE BookkeepingOK'
  <2>1. /\ At(w, "handler", "delete")
        /\ pc[w] # "idle"
        /\ \A v \in Workers : v # w => UNCHANGED wrote[v]
        /\ StoreDelete(w) => wrote'[w]
    BY <1>5 DEF DeleteChapter, StoreDelete, DeleteLands, LocalOnly, Typed, TableOK, At
  <2>2. CASE StoreDelete(w) /\ Answer(w, 204)
    BY <2>1, <2>2, HonestAnswer
  <2>3. CASE Unanswered(w)
    BY <1>3, <2>1, <2>3, HonestAnswer DEF Unanswered
  <2> QED
    BY <1>5, <2>2, <2>3 DEF DeleteChapter
<1>6. ASSUME NEW w \in Workers, Recycle(w) PROVE BookkeepingOK'
  <2>1. \A v \in Workers :
          /\ v # w => UNCHANGED <<pc[v], req[v], code[v], wrote[v]>>
          /\ v = w => pc'[v] = "idle" /\ ~wrote'[v]
    BY <1>6 DEF Recycle, Typed, WorkersTyped, TableOK
  <2> QED
    BY <2>1 DEF BookkeepingOK, AnswersAreHonest
<1>7. CASE UNCHANGED <<pc, req, code, wrote>>
  BY <1>7 DEF BookkeepingOK, AnswersAreHonest
<1> QED
  BY <1>1, <1>2, <1>4, <1>5, <1>6, <1>7
  DEF Next, Step, Finished, Killed, Finish, Crash, ReplicaCatchesUp, vars, workerVars

-----------------------------------------------------------------------------
(* The theorems.                                                           *)

\* Every chapter and every answer is sound in every reachable state.
LEMMA AlwaysSound == Spec => [](Typed /\ Sound)
<1>1. Typed /\ Sound /\ [Next]_vars => (Typed /\ Sound)'
  BY NextTyped, NextHistory, NextOrigins, NextBookkeeping DEF Sound
<1> QED
  BY <1>1, InitSound, PTL DEF Spec

\* A success means the write reached the table, a refusal that it did not, for
\* any number of attempts.
THEOREM ChapterAnswersHonest == Spec => []AnswersAreHonest
<1>1. Sound => AnswersAreHonest
  BY DEF Sound, BookkeepingOK
<1> QED
  BY <1>1, AlwaysSound, PTL

\* A chapter that was never stored before is one merge away from nothing or
\* from a chapter its key has held.
Merged(k) ==
  \E w \in Workers :
    /\ pc[w] = "put"
    /\ KeyOf(req[w]) = k
    /\ IF versions[k] = {} THEN BirthOf(k, req[w].body, table'[k])
       ELSE \E ch \in versions[k] : MergeOf(ch, req[w].body, table'[k])

THEOREM ChapterWritesAreMerges == Spec => WritesAreMerges
<1>1. ASSUME Typed, Sound, [Next]_vars, NEW k \in Key,
             table'[k] \notin versions[k] \cup {None}
      PROVE  Merged(k)
  <2>1. ASSUME NEW w \in Workers, pc[w] = "put", StorePut(w) PROVE Merged(k)
    <3>1. doc[w].key \in Key /\ OriginOK(w)
      BY <1>1, <2>1 DEF Typed, WorkersTyped, Chapter, Sound, OriginsOK
    <3>2. table'[k] = doc[w] /\ doc[w].key = k
      BY <1>1, <2>1, <3>1
      DEF StorePut, PutLands, PutItem, Typed, TableOK, Sound, HistoryOK
    <3>3. doc[w] \notin versions[k]
      BY <1>1, <3>2
    <3> QED
      BY <2>1, <3>1, <3>2, <3>3 DEF OriginOK, Merged
  <2>2. ASSUME NEW w \in Workers, StoreDelete(w) PROVE FALSE
    BY <1>1, <2>2 DEF StoreDelete, DeleteLands, DeleteItem, Typed, TableOK, Sound, HistoryOK
  <2>3. ASSUME UNCHANGED table PROVE FALSE
    BY <1>1, <2>3 DEF Sound, HistoryOK
  <2> QED
    BY <1>1, <2>1, <2>2, <2>3
    DEF Next, Step, vars, tableVars, LocalOnly, Admit, CreateChapter, UpdateChapter,
        PutAcknowledged, PutUnanswered, DeleteChapter, Finished, Killed, Finish, Crash,
        Recycle, ReplicaCatchesUp, Replicate
<1>2. Typed /\ Sound /\ [Next]_vars
        => [\A k \in Key : table'[k] \notin versions[k] \cup {None} => Merged(k)]_vars
  BY <1>1
<1>3. Typed /\ Sound /\ [Next]_vars =>
        [\A k \in Key : table'[k] \notin versions[k] \cup {None} =>
           \E w \in Workers :
             /\ pc[w] = "put"
             /\ KeyOf(req[w]) = k
             /\ IF versions[k] = {} THEN BirthOf(k, req[w].body, table'[k])
                ELSE \E ch \in versions[k] : MergeOf(ch, req[w].body, table'[k])]_vars
  BY <1>2 DEF Merged
<1> QED
  BY <1>3, AlwaysSound, PTL DEF Spec, WritesAreMerges

-----------------------------------------------------------------------------
(* One invocation at a time, and current reads.                            *)

\* What is about to be stored has the layout that is there, or the one sent.
LayoutOK(w) ==
  LET k == KeyOf(req[w]) IN
  pc[w] = "put" /\ table[k] # None
    => doc[w].map \in {table[k].map, req[w].body.map}

LayoutsOK == \A w \in Workers : LayoutOK(w)

\* A create finds nothing there, and an update keeps what it found or stores
\* what it was sent.
LEMMA MadeLayout ==
  ASSUME Serial, Typed, Sound, NEW w \in Workers, CreateChapter(w) \/ UpdateChapter(w)
  PROVE  LayoutOK(w)'
<1>1. PICK k \in Key : k = KeyOf(req[w])
  BY RequestFields DEF Typed, WorkersTyped, CreateChapter, UpdateChapter, At
<1>2. req[w] \in Requests /\ table' = table
  BY DEF CreateChapter, UpdateChapter, At, LocalOnly, tableVars, Typed, WorkersTyped
<1>3. ASSUME NEW c, Answer(w, c) PROVE LayoutOK(w)'
  BY <1>3 DEF Answer, LayoutOK, Typed, WorkersTyped
<1>4. ASSUME NEW ch, GoPut(w, ch), table[k] # None => ch.map \in {table[k].map, req[w].body.map}
      PROVE  LayoutOK(w)'
  <2>1. doc'[w] = ch /\ req' = req /\ k = KeyOf(req'[w])
    BY <1>1, <1>4 DEF GoPut, Typed, WorkersTyped
  <2> QED
    BY <1>2, <1>4, <2>1 DEF LayoutOK
<1>5. CASE CreateChapter(w)
  <2>1. table[k] = None
    BY <1>1, <1>5 DEF CreateChapter, Sound, FreshOK, HistoryOK
  <2> QED
    BY <1>3, <1>4, <1>5, <2>1 DEF CreateChapter
<1>6. CASE UpdateChapter(w)
  <2>1. ASSUME NEW ch \in Loadable(w), req[w].body # Malformed,
               GoPut(w, UpdatedChapter(ch, req[w].body))
        PROVE  LayoutOK(w)'
    <3>1. ch \in Chapter /\ ch = table[k]
      BY <1>1, <1>6, <2>1, LoadableIsChapter DEF Loadable, GetItem, Serial, UpdateChapter, At
    <3>2. req[w].body \in ChapterInput
      BY <1>2, <1>6, <2>1, RequestFields DEF UpdateChapter, At
    <3>3. UpdatedChapter(ch, req[w].body).map \in {table[k].map, req[w].body.map}
      BY <3>1, <3>2, Made DEF MergeOf
    <3> QED
      BY <1>4, <2>1, <3>3
  <2> QED
    BY <1>3, <1>6, <2>1 DEF UpdateChapter, NotLoaded
<1> QED
  BY <1>5, <1>6

LEMMA NextLayouts ==
  Serial /\ Typed /\ Sound /\ LayoutsOK /\ [Next]_vars => LayoutsOK'
<1> SUFFICES ASSUME Serial, Typed, Sound, LayoutsOK, [Next]_vars PROVE LayoutsOK'
  OBVIOUS
<1>1. \A v, w \in Workers : v = w
  BY DEF Serial
<1>2. ASSUME NEW w \in Workers, pc'[w] # "put" PROVE LayoutsOK'
  BY <1>1, <1>2 DEF LayoutsOK, LayoutOK
<1>3. CASE UNCHANGED <<pc, req, doc, table>>
  BY <1>3 DEF LayoutsOK, LayoutOK
<1>4. ASSUME NEW w \in Workers, NEW r \in Requests, Admit(w, r) PROVE LayoutsOK'
  BY <1>2, <1>4 DEF Admit, Begin, Typed, WorkersTyped
<1>5. ASSUME NEW w \in Workers, CreateChapter(w) \/ UpdateChapter(w) PROVE LayoutsOK'
  BY <1>1, <1>5, MadeLayout DEF LayoutsOK
<1>6. ASSUME NEW w \in Workers, NEW c, Answer(w, c) PROVE LayoutsOK'
  BY <1>2, <1>6 DEF Answer, Typed, WorkersTyped
<1>7. ASSUME NEW w \in Workers, PutAcknowledged(w) \/ PutUnanswered(w) PROVE LayoutsOK'
  <2>1. CASE \E c : Answer(w, c)
    BY <1>6, <2>1
  <2>2. CASE LocalOnly /\ UNCHANGED <<pc, req, doc>>
    BY <1>3, <2>2 DEF LocalOnly, tableVars
  <2>3. CASE StorePut(w) /\ UNCHANGED <<pc, req, doc>>
    <3>1. PICK k \in Key : k = KeyOf(req[w]) /\ doc[w].key = k
      BY <1>7, RequestFields
      DEF PutAcknowledged, PutUnanswered, Typed, WorkersTyped, Sound, OriginsOK, OriginOK
    <3>2. table'[k] = doc[w] /\ k = KeyOf(req'[w])
      BY <2>3, <3>1 DEF StorePut, PutLands, PutItem, Typed, TableOK
    <3> QED
      BY <1>1, <2>3, <3>2 DEF LayoutsOK, LayoutOK
  <2> QED
    BY <1>7, <2>1, <2>2, <2>3 DEF PutAcknowledged, PutUnanswered, Unanswered
<1>8. ASSUME NEW w \in Workers, DeleteChapter(w) PROVE LayoutsOK'
  <2>1. CASE \E c : Answer(w, c)
    BY <1>6, <2>1
  <2>2. CASE UNCHANGED pc
    BY <1>2, <1>8, <2>2 DEF DeleteChapter, At
  <2> QED
    BY <1>8, <2>1, <2>2 DEF DeleteChapter, Unanswered
<1>9. ASSUME NEW w \in Workers, Finished(w) \/ Killed(w) PROVE LayoutsOK'
  BY <1>2, <1>9 DEF Finished, Killed, Finish, Crash, Recycle, Typed, WorkersTyped
<1>10. ASSUME NEW k \in Key, ReplicaCatchesUp(k) PROVE LayoutsOK'
  BY <1>3, <1>10 DEF ReplicaCatchesUp, Replicate, workerVars
<1> QED
  BY <1>3, <1>4, <1>5, <1>7, <1>8, <1>9, <1>10
  DEF Next, Step, vars, tableVars, workerVars

\* The table's layout of k changes only to the one its client sends.
Dragged(k) ==
  table[k] # None /\ table'[k] # None /\ Layout(table'[k]) # Layout(table[k])
    => \E w \in Workers : /\ pc[w] = "put"
                          /\ KeyOf(req[w]) = k
                          /\ req[w].body.map = Layout(table'[k])

LEMMA LayoutStep ==
  ASSUME Typed, Sound, LayoutsOK, [Next]_vars, NEW k \in Key
  PROVE  Dragged(k)
<1>1. ASSUME NEW w \in Workers, pc[w] = "put", StorePut(w) PROVE Dragged(k)
  <2>1. PICK j \in Key : j = KeyOf(req[w]) /\ doc[w].key = j
    BY <1>1, RequestFields DEF Typed, WorkersTyped, Sound, OriginsOK, OriginOK
  <2>2. table' = [table EXCEPT ![j] = doc[w]] /\ table \in [Key -> Chapter \cup {None}]
    BY <1>1, <2>1 DEF StorePut, PutLands, PutItem, Typed, TableOK
  <2>3. CASE j # k
    BY <2>2, <2>3 DEF Dragged
  <2>4. CASE j = k
    BY <1>1, <2>1, <2>2, <2>4 DEF LayoutsOK, LayoutOK, Dragged, Layout
  <2> QED
    BY <2>3, <2>4
<1>2. ASSUME NEW w \in Workers, StoreDelete(w) PROVE Dragged(k)
  BY <1>2 DEF StoreDelete, DeleteLands, DeleteItem, Typed, TableOK, Dragged
<1>3. ASSUME UNCHANGED table PROVE Dragged(k)
  BY <1>3 DEF Dragged
<1> QED
  BY <1>1, <1>2, <1>3
  DEF Next, Step, vars, tableVars, LocalOnly, Admit, CreateChapter, UpdateChapter,
      PutAcknowledged, PutUnanswered, DeleteChapter, Finished, Killed, Finish, Crash,
      Recycle, ReplicaCatchesUp, Replicate

\* With one invocation at a time and current reads a layout only moves by the
\* save that sent it: MCChapters_layout needs a race or a stale read, and no
\* crash or repeated call leads there.
THEOREM SerialLayout == ASSUME Serial PROVE Spec => LayoutOnlyMovesBySave
<1>1. Init => LayoutsOK
  BY DEF Init, WorkersInit, LayoutsOK, LayoutOK
<1>2. Typed /\ Sound /\ LayoutsOK /\ [Next]_vars => LayoutsOK'
  BY NextLayouts
<1>3. Typed /\ Sound /\ LayoutsOK /\ [Next]_vars
        => [\A k \in Key : /\ table[k] # None
                           /\ table'[k] # None
                           /\ Layout(table'[k]) # Layout(table[k])
              => \E w \in Workers : /\ pc[w] = "put"
                                    /\ KeyOf(req[w]) = k
                                    /\ req[w].body.map = Layout(table'[k])]_vars
  BY LayoutStep DEF Dragged
<1> QED
  BY <1>1, <1>2, <1>3, AlwaysSound, PTL DEF Spec, LayoutOnlyMovesBySave
=============================================================================
