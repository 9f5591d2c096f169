------------------------------ MODULE ApiProofs ------------------------------
(***************************************************************************)
(* Why settings only change for a campaign's GM with a genuine token, as   *)
(* somebody sent them, and why an outage of the issuer does not matter to  *)
(* a process that has its keys: what each place of the chain may rely on.  *)
(***************************************************************************)
EXTENDS ApiProps, InvocationProofs

USE SettingsAssumption, IssuerAssumption, TimesAssumption,
    TokensAssumption, ProcessAssumption, SentAssumption

-----------------------------------------------------------------------------
(* Types.                                                                  *)

StoreTyped ==
  /\ table   \in [Key -> CampaignSettings \cup {None}]
  /\ replica \in [Key -> CampaignSettings \cup {None}]
  /\ wrote \in [Workers -> BOOLEAN]

IssuerTyped ==
  /\ published \in SUBSET IssuerKeys
  /\ editions  \subseteq SUBSET IssuerKeys
  /\ reachable \in BOOLEAN
  /\ now  \in 0 .. Horizon

ProcessTyped ==
  /\ life \in [Workers -> Lives]
  /\ keys \in [Workers -> (SUBSET IssuerKeys) \cup {None}]
  /\ \A w \in Workers :
       /\ pc[w] # "idle" => life[w] = "up"
       /\ pc[w] = "gate" => Presented(req[w]) \in Tokens

Typed == /\ WorkersTyped(Requests, CampaignSettings)
         /\ StoreTyped
         /\ IssuerTyped
         /\ ProcessTyped

LEMMA TypedIsTypeOK == Typed <=> TypeOK
  BY DEF Typed, TypeOK, WorkersTyped, StoreTyped, IssuerTyped, ProcessTyped

\* What a request holds.
LEMMA RequestFields ==
  ASSUME NEW r \in Requests
  PROVE  /\ r.camp \in Campaigns
         /\ r.authorization \in Tokens \cup {None}
         /\ r.x_access_token \in Tokens \cup {None}
         /\ Presented(r) \in Tokens \cup {None}
         /\ r.op \in {"getSettings", "putSettings"} => KeyOf(r) \in Key
         /\ r.op = "putSettings" => r.body \in PartyInputs \cup {Malformed}
<1>1. /\ r.camp \in Campaigns
      /\ r.authorization \in Tokens \cup {None}
      /\ r.x_access_token \in Tokens \cup {None}
      /\ r.op \in {"getSettings", "putSettings"} => r.id = SettingsId
      /\ r.op = "putSettings" => r.body \in PartyInputs \cup {Malformed}
  BY DEF Requests, Request
<1> QED
  BY <1>1 DEF Presented, KeyOf, Key

LEMMA InitTyped == Init => Typed
<1>1. Init => WorkersTyped(Requests, CampaignSettings)
  BY WorkersInitTyped DEF Init
<1>2. Init => StoreTyped
  BY DEF Init, TableInit, WorkersInit, StoreTyped
<1>3. Init => IssuerTyped
  BY DEF Init, KeyCacheInit, IssuerTyped
<1>4. Init => ProcessTyped
  BY DEF Init, WorkersInit, KeyCacheInit, ProcessTyped, Lives
<1> QED
  BY <1>1, <1>2, <1>3, <1>4 DEF Typed

\* The middleware lets a request through.
LEMMA PassTyped ==
  ASSUME NEW Rs, NEW Ds, WorkersTyped(Rs, Ds), NEW w \in Workers, pc[w] # "idle",
         NEW place \in {"gate", "handler"}, Pass(w, place)
  PROVE  WorkersTyped(Rs, Ds)'
  BY DEF WorkersTyped, Pass, Places

\* A step within a process that is up keeps the processes typed.
LEMMA StepInProcess ==
  ASSUME Typed, NEW w \in Workers, UNCHANGED life, life[w] = "up",
         keys' \in [Workers -> (SUBSET IssuerKeys) \cup {None}],
         \A v \in Workers : v # w => UNCHANGED <<pc[v], req[v]>>,
         pc'[w] = "gate" => Presented(req'[w]) \in Tokens
  PROVE  ProcessTyped'
<1>1. ASSUME NEW v \in Workers
      PROVE  /\ pc'[v] # "idle" => life'[v] = "up"
             /\ pc'[v] = "gate" => Presented(req'[v]) \in Tokens
  <2>1. CASE v = w
    BY <2>1
  <2>2. CASE v # w
    BY <2>2 DEF Typed, ProcessTyped
  <2> QED
    BY <2>1, <2>2
<1> QED
  BY <1>1 DEF Typed, ProcessTyped, Presented

\* An answer, from anywhere in the chain.
LEMMA AnswerKeepsProcess ==
  ASSUME Typed, NEW w \in Workers, pc[w] # "idle", NEW c, Answer(w, c), UNCHANGED life,
         keys' \in [Workers -> (SUBSET IssuerKeys) \cup {None}]
  PROVE  ProcessTyped'
<1>1. life[w] = "up" /\ pc'[w] = "done"
  BY DEF Typed, ProcessTyped, WorkersTyped, Answer
<1>2. \A v \in Workers : v # w => UNCHANGED <<pc[v], req[v]>>
  BY DEF Answer, Typed, WorkersTyped
<1> QED
  BY <1>1, <1>2, StepInProcess
LEMMA ReceiveTyped ==
  ASSUME Typed, NEW w \in Workers, NEW r \in Sent, Receive(w, r)
  PROVE  Typed'
<1>1. r \in Requests /\ life[w] = "up" /\ UNCHANGED <<tableVars, wrote, issuerVars, cacheVars>>
  BY DEF Receive, HandlerOnly
<1>2. WorkersTyped(Requests, CampaignSettings)'
  BY <1>1 DEF Typed, WorkersTyped, Receive, Places
<1>3. /\ pc'[w] # "gate"
      /\ \A v \in Workers : v # w => UNCHANGED <<pc[v], req[v]>>
  BY DEF Receive, Typed, WorkersTyped
<1>4. ProcessTyped'
  BY <1>1, <1>3, StepInProcess DEF cacheVars, Typed, ProcessTyped
<1> QED
  BY <1>1, <1>2, <1>4 DEF Typed, StoreTyped, IssuerTyped, tableVars, issuerVars

LEMMA MiddlewareTyped ==
  ASSUME Typed, NEW w \in Workers, Middleware(w)
  PROVE  Typed'
<1>1. /\ pc[w] = "verify" /\ Verify(w, AfterToken(w))
      /\ UNCHANGED <<tableVars, wrote, issuerVars, life>>
      /\ life[w] = "up" /\ req[w] \in Requests
      /\ AfterToken(w) \in {"gate", "handler"}
  BY DEF Middleware, AfterToken, Typed, WorkersTyped, ProcessTyped
<1>2. /\ keys' \in [Workers -> (SUBSET IssuerKeys) \cup {None}]
      /\ \/ Answer(w, 401)
         \/ Presented(req[w]) # None /\ Pass(w, AfterToken(w))
  BY <1>1 DEF Verify, Judge, Typed, ProcessTyped, IssuerTyped
<1>3. WorkersTyped(Requests, CampaignSettings)' /\ ProcessTyped'
  <2>1. CASE Answer(w, 401)
    BY <1>1, <1>2, <2>1, AnswerTyped, AnswerKeepsProcess DEF Typed, Codes
  <2>2. CASE Presented(req[w]) # None /\ Pass(w, AfterToken(w))
    <3>1. Presented(req[w]) \in Tokens
      BY <1>1, <2>2, RequestFields
    <3>2. /\ req' = req
          /\ \A v \in Workers : v # w => pc'[v] = pc[v]
      BY <2>2 DEF Pass, Typed, WorkersTyped
    <3>3. Presented(req'[w]) \in Tokens
      BY <3>1, <3>2
    <3> QED
      BY <1>1, <1>2, <2>2, <3>2, <3>3, PassTyped, StepInProcess DEF Typed
  <2> QED
    BY <1>2, <2>1, <2>2
<1> QED
  BY <1>1, <1>3 DEF Typed, StoreTyped, IssuerTyped, tableVars, issuerVars

\* A handler's own step: it answers, lets through, or goes on to the store.
LEMMA HandlerTyped ==
  ASSUME Typed, NEW w \in Workers, pc[w] # "idle", HandlerOnly,
         \/ \E c \in Codes : Answer(w, c)
         \/ Pass(w, "handler")
         \/ \E d \in CampaignSettings : GoPut(w, d)
  PROVE  Typed'
<1>1. UNCHANGED <<life, keys>> /\ life[w] = "up"
  BY DEF HandlerOnly, cacheVars, Typed, ProcessTyped
<1>2. WorkersTyped(Requests, CampaignSettings)'
  BY AnswerTyped, PassTyped, GoPutTyped DEF Typed
<1>3. /\ pc'[w] # "gate"
      /\ \A v \in Workers : v # w => UNCHANGED <<pc[v], req[v]>>
  BY DEF Answer, Pass, GoPut, Typed, WorkersTyped
<1>4. ProcessTyped'
  BY <1>1, <1>3, StepInProcess DEF Typed, ProcessTyped
<1> QED
  BY <1>2, <1>4 DEF Typed, StoreTyped, IssuerTyped, HandlerOnly, tableVars, issuerVars

\* The settings that a put is about to store are of their kind.
LEMMA DecidedTyped ==
  ASSUME Typed, NEW w \in Workers, SettingsDecided(w)
  PROVE  \/ \E c \in Codes : Answer(w, c)
         \/ /\ [key |-> KeyOf(req[w]), party |-> req[w].body] \in CampaignSettings
            /\ GoPut(w, [key |-> KeyOf(req[w]), party |-> req[w].body])
<1>1. req[w] \in Requests /\ req[w].op = "putSettings" /\ PutSettings(w)
  BY DEF SettingsDecided, At, Typed, WorkersTyped
<1>2. CASE Answer(w, 400)
  BY <1>2 DEF Codes
<1>3. CASE Valid(req[w].body) /\ GoPut(w, [key |-> KeyOf(req[w]), party |-> req[w].body])
  <2>1. KeyOf(req[w]) \in Key /\ req[w].body \in PartyInputs
    BY <1>1, <1>3, RequestFields DEF Valid
  <2> QED
    BY <1>3, <2>1 DEF CampaignSettings
<1> QED
  BY <1>1, <1>2, <1>3 DEF PutSettings

\* A put takes effect, or does not.
LEMMA PutTyped ==
  ASSUME Typed, NEW w \in Workers, PutAcknowledged(w) \/ PutUnanswered(w)
  PROVE  Typed'
<1>1. pc[w] = "put" /\ doc[w] \in CampaignSettings /\ UNCHANGED <<issuerVars, cacheVars>>
  BY DEF PutAcknowledged, PutUnanswered, Typed, WorkersTyped
<1>2. StoreTyped'
  <2>1. CASE PutLands(w)
    BY <1>1, <2>1 DEF PutLands, PutItem, Typed, StoreTyped
  <2>2. CASE UNCHANGED <<tableVars, wrote>>
    BY <2>2 DEF tableVars, Typed, StoreTyped
  <2> QED
    BY <2>1, <2>2 DEF PutAcknowledged, PutUnanswered
<1>3. WorkersTyped(Requests, CampaignSettings)'
  BY <1>1, AnswerTyped, UnansweredTyped DEF PutAcknowledged, PutUnanswered, Typed, Codes
<1>4. /\ pc'[w] # "gate"
      /\ \A v \in Workers : v # w => UNCHANGED <<pc[v], req[v]>>
  BY <1>1 DEF PutAcknowledged, PutUnanswered, Unanswered, Answer, Typed, WorkersTyped
<1>5. ProcessTyped'
  BY <1>1, <1>4, StepInProcess DEF cacheVars, Typed, ProcessTyped
<1> QED
  BY <1>1, <1>2, <1>3, <1>5 DEF Typed, IssuerTyped, issuerVars
\* A process boots, refreshes its keys, or is killed.
LEMMA ProcessStepTyped ==
  ASSUME Typed, NEW w \in Workers, Booting(w) \/ RefreshKeys(w)
  PROVE  Typed'
<1>1. /\ UNCHANGED <<tableVars, workerVars, issuerVars>>
      /\ life' \in [Workers -> Lives]
      /\ \A v \in Workers : life[v] = "up" => life'[v] = "up"
  BY DEF Booting, ColdStart, Discover, Warm, Restart, Live, RefreshKeys, Refresh, Typed,
         ProcessTyped, Lives
<1>2. keys' \in [Workers -> (SUBSET IssuerKeys) \cup {None}]
  BY DEF Booting, ColdStart, Discover, Warm, Restart, RefreshKeys, Refresh, Typed,
         ProcessTyped, IssuerTyped
<1>3. ProcessTyped'
  BY <1>1, <1>2 DEF workerVars, Typed, ProcessTyped, Presented
<1> QED
  BY <1>1, <1>3 DEF Typed, WorkersTyped, StoreTyped, IssuerTyped, tableVars, workerVars,
                    issuerVars

LEMMA RecycledTyped ==
  ASSUME Typed, NEW w \in Workers, Finished(w) \/ Killed(w)
  PROVE  Typed'
<1>1. Recycle(w) /\ UNCHANGED issuerVars
  BY DEF Finished, Finish, Killed, Crash
<1>2. WorkersTyped(Requests, CampaignSettings)' /\ StoreTyped' /\ IssuerTyped'
  BY <1>1, RecycleTyped DEF Typed, Recycle, StoreTyped, IssuerTyped, tableVars, issuerVars
<1>3. /\ pc'[w] = "idle"
      /\ \A v \in Workers : v # w => UNCHANGED <<pc[v], req[v], life[v]>>
      /\ life' \in [Workers -> Lives]
      /\ keys' \in [Workers -> (SUBSET IssuerKeys) \cup {None}]
  BY <1>1 DEF Recycle, Finished, Killed, cacheVars, Typed, WorkersTyped, ProcessTyped, Lives
<1>4. ASSUME NEW v \in Workers
      PROVE  /\ pc'[v] # "idle" => life'[v] = "up"
             /\ pc'[v] = "gate" => Presented(req'[v]) \in Tokens
  BY <1>3 DEF Typed, ProcessTyped, Presented
<1>5. ProcessTyped'
  BY <1>3, <1>4 DEF ProcessTyped, Presented
<1> QED
  BY <1>2, <1>5 DEF Typed

LEMMA IssuerStepTyped ==
  ASSUME Typed, Issuer
  PROVE  Typed'
<1>1. IssuerTyped'
  <2>1. ASSUME NEW set \in SUBSET IssuerKeys, Publish(set) PROVE IssuerTyped'
    BY <2>1 DEF Publish, Typed, IssuerTyped
  <2>2. CASE OutageBeginsOrEnds
    BY <2>2 DEF OutageBeginsOrEnds, Typed, IssuerTyped
  <2>3. CASE Tick
    <3>1. now + 1 \in 0 .. Horizon
      BY <2>3 DEF Tick, Typed, IssuerTyped
    <3> QED
      BY <2>3, <3>1 DEF Tick, Typed, IssuerTyped
  <2> QED
    BY <2>1, <2>2, <2>3 DEF Issuer
<1> QED
  BY <1>1 DEF Issuer, Typed, WorkersTyped, StoreTyped, ProcessTyped, Presented, tableVars,
              workerVars, cacheVars

LEMMA NextTyped == ASSUME Typed, [Next]_vars PROVE Typed'
<1>1. ASSUME NEW w \in Workers, RequireGM(w) PROVE Typed'
  BY <1>1, HandlerTyped DEF RequireGM, Codes
<1>2. ASSUME NEW w \in Workers, Health(w) \/ Me(w) \/ SettingsRead(w) PROVE Typed'
  BY <1>2, HandlerTyped DEF Health, Me, SettingsRead, GetSettings, At, Codes
<1>3. ASSUME NEW w \in Workers, SettingsDecided(w) PROVE Typed'
  <2>1. pc[w] # "idle" /\ HandlerOnly
    BY <1>3 DEF SettingsDecided, At
  <2> QED
    BY <1>3, <2>1, DecidedTyped, HandlerTyped
<1>4. CASE UNCHANGED vars
  BY <1>4 DEF vars, tableVars, workerVars, issuerVars, cacheVars, Typed, WorkersTyped,
              StoreTyped, IssuerTyped, ProcessTyped, Presented
<1> QED
  BY <1>1, <1>2, <1>3, <1>4, ReceiveTyped, MiddlewareTyped, PutTyped, ProcessStepTyped,
     RecycledTyped, IssuerStepTyped DEF Next, Step

THEOREM AlwaysTyped == Spec => []Typed
  BY InitTyped, NextTyped, PTL DEF Spec

\* Every variable always holds values of its kind, and a worker has a process,
\* a token and a document where its request needs them.
THEOREM ApiTypeCorrect == Spec => []TypeOK
  BY TypedIsTypeOK, AlwaysTyped, PTL

-----------------------------------------------------------------------------
(* Keys.                                                                   *)

\* The issuer's key set is one of its editions, and so is every copy.
CacheOK == /\ published \in editions
           /\ \A w \in Workers : keys[w] # None => keys[w] \in editions

\* Editions are only added.
LEMMA EditionsGrow == ASSUME [Next]_vars PROVE editions \subseteq editions'
  BY DEF Next, Step, vars, issuerVars, HandlerOnly, Receive, Middleware, RequireGM, Health, Me,
         SettingsRead, SettingsDecided, PutAcknowledged, PutUnanswered, Booting, RefreshKeys,
         Finished, Killed, Issuer, Publish, OutageBeginsOrEnds, Tick

LEMMA NextCache == ASSUME Typed, CacheOK, [Next]_vars PROVE CacheOK'
<1>1. editions \subseteq editions'
  BY EditionsGrow
<1>2. CASE UNCHANGED keys /\ UNCHANGED published
  BY <1>1, <1>2 DEF CacheOK
<1>3. ASSUME NEW w \in Workers, UNCHANGED published,
             \/ keys' = [keys EXCEPT ![w] = None]
             \/ keys' = [keys EXCEPT ![w] = published]
             \/ keys' = [keys EXCEPT ![w] = IF reachable THEN published ELSE None]
      PROVE  CacheOK'
  BY <1>1, <1>3 DEF CacheOK, Typed, ProcessTyped
<1>4. ASSUME NEW w \in Workers, Middleware(w) PROVE CacheOK'
  BY <1>2, <1>3, <1>4 DEF Middleware, Verify, issuerVars
<1>5. ASSUME NEW w \in Workers, Booting(w) \/ RefreshKeys(w) \/ Killed(w) PROVE CacheOK'
  BY <1>2, <1>3, <1>5 DEF Booting, ColdStart, Discover, Warm, Restart, RefreshKeys, Refresh,
                          Killed, issuerVars
<1>6. CASE Issuer
  <2>1. UNCHANGED keys /\ published' \in editions'
    BY <1>6 DEF Issuer, cacheVars, Publish, OutageBeginsOrEnds, Tick, CacheOK
  <2> QED
    BY <1>1, <2>1 DEF CacheOK
<1>7. ASSUME NEW w \in Workers, \E r \in Sent : Receive(w, r) PROVE CacheOK'
  BY <1>2, <1>7 DEF Receive, HandlerOnly, issuerVars, cacheVars
<1>8. ASSUME NEW w \in Workers, Step(w), ~Middleware(w) PROVE CacheOK'
  BY <1>2, <1>8 DEF Step, RequireGM, Health, Me, SettingsRead, SettingsDecided,
                    PutAcknowledged, PutUnanswered, Finished, HandlerOnly, issuerVars, cacheVars
<1>9. CASE UNCHANGED vars
  BY <1>2, <1>9 DEF vars, issuerVars, cacheVars
<1> QED
  BY <1>4, <1>5, <1>6, <1>7, <1>8, <1>9 DEF Next

THEOREM AlwaysCacheOK == Spec => []CacheOK
<1>1. Init => CacheOK
  BY DEF Init, KeyCacheInit, CacheOK
<1> QED
  BY <1>1, NextCache, AlwaysTyped, PTL DEF Spec

-----------------------------------------------------------------------------
(* The chain.                                                              *)

Vetted(w) == Presented(req[w]) \in Tokens /\ Genuine(Presented(req[w]))

IsGM(w) == <<Presented(req[w]).sub, req[w].camp>> \in GMs

SettingsOps == {"getSettings", "putSettings"}

\* What a worker may rely on where it is: past the token, past the gate, and
\* with a document in its hands; and that it has not answered before.
Relies(w) ==
  /\ pc[w] # "done" => code[w] = None
  /\ pc[w] # "idle" => req[w] \in Sent
  /\ pc[w] = "gate" => Vetted(w)
  /\ pc[w] \in {"handler", "put"} /\ req[w].op \in SettingsOps => Vetted(w) /\ IsGM(w)
  /\ pc[w] = "put" => /\ req[w].op = "putSettings"
                      /\ doc[w] = [key |-> KeyOf(req[w]), party |-> req[w].body]

ChainOK == \A w \in Workers : Relies(w)

\* What a worker relies on is not taken away by another one or by the issuer.
LEMMA OnlyOneMoves ==
  ASSUME ChainOK, NEW w \in Workers, editions \subseteq editions', Relies(w)',
         \A v \in Workers : v # w => UNCHANGED <<pc[v], req[v], doc[v], code[v]>>
  PROVE  ChainOK'
<1>1. ASSUME NEW v \in Workers, v # w PROVE Relies(v)'
  <2>1. Relies(v) /\ UNCHANGED <<pc[v], req[v], doc[v], code[v]>>
    BY <1>1 DEF ChainOK
  <2>2. UNCHANGED <<Presented(req[v]), KeyOf(req[v])>>
    BY <2>1 DEF Presented, KeyOf
  <2>3. /\ Vetted(v) => Vetted(v)'
        /\ IsGM(v) => IsGM(v)'
    BY <2>1, <2>2 DEF Vetted, IsGM, Genuine
  <2> QED
    BY <2>1, <2>2, <2>3 DEF Relies
<1> QED
  BY <1>1 DEF ChainOK

LEMMA NobodyMoves ==
  ASSUME ChainOK, editions \subseteq editions', UNCHANGED <<pc, req, doc, code>>
  PROVE  ChainOK'
<1>1. ASSUME NEW v \in Workers PROVE Relies(v)'
  <2>1. Relies(v)
    BY DEF ChainOK
  <2> QED
    BY <2>1 DEF Relies, Vetted, IsGM, Genuine, Presented, KeyOf
<1> QED
  BY <1>1 DEF ChainOK

\* An answer leaves nothing to rely on.
LEMMA AnswerKeepsChain ==
  ASSUME Typed, ChainOK, NEW w \in Workers, pc[w] # "idle", NEW c, Answer(w, c),
         editions \subseteq editions'
  PROVE  ChainOK'
<1>1. /\ pc'[w] = "done" /\ req'[w] = req[w]
      /\ \A v \in Workers : v # w => UNCHANGED <<pc[v], req[v], doc[v], code[v]>>
  BY DEF Answer, Typed, WorkersTyped
<1>2. req[w] \in Sent
  BY DEF ChainOK, Relies
<1>3. Relies(w)'
  BY <1>1, <1>2 DEF Relies
<1> QED
  BY <1>1, <1>3, OnlyOneMoves

\* What a copy of the keys accepts is genuine.
LEMMA AcceptedIsGenuine ==
  ASSUME NEW set \in editions, NEW t, Accepts(set, t)
  PROVE  Genuine(t)
  BY DEF Accepts, Genuine

\* A request gets past the token only if the token is genuine.
LEMMA MiddlewareKeepsChain ==
  ASSUME Typed, CacheOK, ChainOK, NEW w \in Workers, Middleware(w)
  PROVE  ChainOK'
<1>1. /\ pc[w] = "verify" /\ Verify(w, AfterToken(w)) /\ UNCHANGED editions
      /\ req[w] \in Requests /\ Relies(w)
      /\ published \in editions
      /\ keys[w] # None => keys[w] \in editions
  BY DEF Middleware, issuerVars, Typed, WorkersTyped, ChainOK, CacheOK
<1>2. CASE Answer(w, 401)
  BY <1>1, <1>2, AnswerKeepsChain
<1>3. ASSUME NEW set \in editions, Presented(req[w]) # None, Accepts(set, Presented(req[w])),
             Pass(w, AfterToken(w))
      PROVE  ChainOK'
  <2>1. Vetted(w)
    BY <1>1, <1>3, RequestFields, AcceptedIsGenuine DEF Vetted
  <2>2. /\ pc'[w] = AfterToken(w) /\ UNCHANGED <<req, doc, code>>
        /\ \A v \in Workers : v # w => UNCHANGED pc[v]
    BY <1>3 DEF Pass, Typed, WorkersTyped
  <2>3. Vetted(w)'
    BY <1>1, <2>1, <2>2 DEF Vetted, Genuine, Presented
  <2>4. AfterToken(w) = "gate" \/ (AfterToken(w) = "handler" /\ req[w].op = "me")
    BY DEF AfterToken
  <2>5. Relies(w)'
    BY <1>1, <2>2, <2>3, <2>4 DEF Relies, SettingsOps
  <2> QED
    BY <1>1, <2>2, <2>5, OnlyOneMoves
<1> QED
  BY <1>1, <1>2, <1>3 DEF Verify, Judge

\* And past the gate only if its caller is the campaign's GM.
LEMMA GateKeepsChain ==
  ASSUME Typed, ChainOK, NEW w \in Workers, RequireGM(w)
  PROVE  ChainOK'
<1>1. pc[w] = "gate" /\ Relies(w) /\ UNCHANGED editions
  BY DEF RequireGM, ChainOK, HandlerOnly, issuerVars
<1>2. CASE \E c : Answer(w, c)
  BY <1>1, <1>2, AnswerKeepsChain
<1>3. CASE <<Presented(req[w]).sub, req[w].camp>> \in GMs /\ Pass(w, "handler")
  <2>1. /\ pc'[w] = "handler" /\ UNCHANGED <<req, doc, code>>
        /\ \A v \in Workers : v # w => UNCHANGED pc[v]
    BY <1>3 DEF Pass, Typed, WorkersTyped
  <2>2. Vetted(w)' /\ IsGM(w)'
    BY <1>1, <1>3, <2>1 DEF Relies, Vetted, IsGM, Genuine, Presented
  <2>3. Relies(w)'
    BY <1>1, <2>1, <2>2 DEF Relies
  <2> QED
    BY <1>1, <2>1, <2>3, OnlyOneMoves
<1> QED
  BY <1>2, <1>3 DEF RequireGM

LEMMA DecidedKeepsChain ==
  ASSUME Typed, ChainOK, NEW w \in Workers, SettingsDecided(w)
  PROVE  ChainOK'
<1>1. /\ pc[w] = "handler" /\ req[w].op = "putSettings" /\ Relies(w) /\ UNCHANGED editions
  BY DEF SettingsDecided, At, ChainOK, HandlerOnly, issuerVars
<1>2. CASE \E c \in Codes : Answer(w, c)
  BY <1>1, <1>2, AnswerKeepsChain
<1>3. CASE GoPut(w, [key |-> KeyOf(req[w]), party |-> req[w].body])
  <2>1. /\ pc'[w] = "put" /\ UNCHANGED <<req, code>>
        /\ doc'[w] = [key |-> KeyOf(req[w]), party |-> req[w].body]
        /\ \A v \in Workers : v # w => UNCHANGED <<pc[v], doc[v]>>
    BY <1>3 DEF GoPut, Typed, WorkersTyped
  <2>2. Vetted(w)' /\ IsGM(w)' /\ KeyOf(req[w])' = KeyOf(req[w])
    BY <1>1, <2>1 DEF Relies, SettingsOps, Vetted, IsGM, Genuine, Presented, KeyOf
  <2>3. Relies(w)'
    BY <1>1, <2>1, <2>2 DEF Relies
  <2> QED
    BY <1>1, <2>1, <2>3, OnlyOneMoves
<1> QED
  BY <1>2, <1>3, DecidedTyped
LEMMA NextChain == ASSUME Typed, CacheOK, ChainOK, [Next]_vars PROVE ChainOK'
<1>1. editions \subseteq editions'
  BY EditionsGrow
<1>2. ASSUME NEW w \in Workers, NEW r \in Sent, Receive(w, r) PROVE ChainOK'
  <2>1. /\ pc'[w] = IF r.op = "health" THEN "handler" ELSE "verify"
        /\ req'[w] = r /\ UNCHANGED code /\ code[w] = None
        /\ \A v \in Workers : v # w => UNCHANGED <<pc[v], req[v], doc[v], code[v]>>
    BY <1>2 DEF Receive, Typed, WorkersTyped, ChainOK, Relies
  <2>2. Relies(w)'
    BY <2>1 DEF Relies, SettingsOps
  <2> QED
    BY <1>1, <2>1, <2>2, OnlyOneMoves
<1>3. ASSUME NEW w \in Workers, Health(w) \/ Me(w) \/ SettingsRead(w) PROVE ChainOK'
  BY <1>1, <1>3, AnswerKeepsChain DEF Health, Me, SettingsRead, GetSettings, At
<1>4. ASSUME NEW w \in Workers, PutAcknowledged(w) \/ PutUnanswered(w) PROVE ChainOK'
  <2>1. pc[w] = "put"
    BY <1>4 DEF PutAcknowledged, PutUnanswered
  <2>2. \/ \E c : Answer(w, c)
        \/ UNCHANGED <<pc, req, doc, code>>
    BY <1>4 DEF PutAcknowledged, PutUnanswered, Unanswered
  <2> QED
    BY <1>1, <2>1, <2>2, AnswerKeepsChain, NobodyMoves
<1>5. ASSUME NEW w \in Workers, Finished(w) \/ Killed(w) PROVE ChainOK'
  <2>1. Recycle(w)
    BY <1>5 DEF Finished, Finish, Killed, Crash
  <2>2. /\ pc'[w] = "idle" /\ code'[w] = None
        /\ \A v \in Workers : v # w => UNCHANGED <<pc[v], req[v], doc[v], code[v]>>
    BY <2>1 DEF Recycle, Typed, WorkersTyped
  <2>3. Relies(w)'
    BY <2>2 DEF Relies
  <2> QED
    BY <1>1, <2>2, <2>3, OnlyOneMoves
<1>6. ASSUME NEW w \in Workers, Booting(w) \/ RefreshKeys(w) PROVE ChainOK'
  BY <1>1, <1>6, NobodyMoves DEF Booting, RefreshKeys, workerVars
<1>7. CASE Issuer
  BY <1>1, <1>7, NobodyMoves DEF Issuer, workerVars
<1>8. CASE UNCHANGED vars
  BY <1>1, <1>8, NobodyMoves DEF vars, workerVars
<1> QED
  BY <1>2, <1>3, <1>4, <1>5, <1>6, <1>7, <1>8, MiddlewareKeepsChain, GateKeepsChain,
     DecidedKeepsChain DEF Next, Step

THEOREM AlwaysChainOK == Spec => []ChainOK
<1>1. Init => ChainOK
  BY DEF Init, WorkersInit, ChainOK, Relies
<1> QED
  BY <1>1, NextChain, AlwaysTyped, AlwaysCacheOK, PTL DEF Spec

-----------------------------------------------------------------------------
(* Answers.                                                                *)

\* What makes the answers honest: nothing is written before the handler has
\* decided, and nobody is turned down after it.
HonestOK == /\ \A w \in Workers : pc[w] \notin {"put", "done"} => ~wrote[w]
            /\ AnswersAreHonest

\* A worker goes on to its next place, and what it wrote is as it should be
\* there.
LEMMA HonestMove ==
  ASSUME HonestOK, NEW w \in Workers,
         \A v \in Workers : v # w => UNCHANGED <<pc[v], req[v], code[v], wrote[v]>>,
         pc'[w] \notin {"put", "done"} => ~wrote'[w],
         pc'[w] = "done" => /\ code'[w] = 200 /\ req'[w].op = "putSettings" => wrote'[w]
                            /\ code'[w] \in {400, 401, 403, 502} => ~wrote'[w]
  PROVE  HonestOK'
  BY DEF HonestOK, AnswersAreHonest

LEMMA HonestStays ==
  ASSUME HonestOK, UNCHANGED <<pc, req, code, wrote>>
  PROVE  HonestOK'
  BY DEF HonestOK, AnswersAreHonest

\* A step before the store: an answer, unless it says that settings were put,
\* or a place further on.
LEMMA HonestBeforeStore ==
  ASSUME Typed, HonestOK, NEW w \in Workers, pc[w] \in {"verify", "gate", "handler"},
         UNCHANGED wrote,
         \/ \E c : Answer(w, c) /\ (c = 200 => req[w].op # "putSettings")
         \/ \E place \in {"gate", "handler"} : Pass(w, place)
         \/ \E d : GoPut(w, d)
  PROVE  HonestOK'
<1>1. ~wrote'[w]
  BY DEF HonestOK
<1>2. \A v \in Workers : v # w => UNCHANGED <<pc[v], req[v], code[v], wrote[v]>>
  BY DEF Answer, Pass, GoPut, Typed, WorkersTyped
<1>3. pc'[w] = "done" => ~(code'[w] = 200 /\ req'[w].op = "putSettings")
  BY DEF Answer, Pass, GoPut, Typed, WorkersTyped
<1> QED
  BY <1>1, <1>2, <1>3, HonestMove

\* An attempt at the store: acknowledged, it was made; given up, who knows.
LEMMA HonestPut ==
  ASSUME Typed, HonestOK, NEW w \in Workers, PutAcknowledged(w) \/ PutUnanswered(w)
  PROVE  HonestOK'
<1>1. /\ pc[w] = "put"
      /\ \A v \in Workers : v # w => UNCHANGED wrote[v]
      /\ PutAcknowledged(w) => wrote'[w]
  BY DEF PutAcknowledged, PutUnanswered, PutLands, Typed, StoreTyped
<1>2. ASSUME NEW c \in {200, 500}, Answer(w, c), c = 200 => wrote'[w] PROVE HonestOK'
  <2>1. \A v \in Workers : v # w => UNCHANGED <<pc[v], req[v], code[v]>>
    BY <1>2 DEF Answer, Typed, WorkersTyped
  <2>2. pc'[w] = "done" /\ code'[w] = c
    BY <1>2 DEF Answer, Typed, WorkersTyped
  <2> QED
    BY <1>1, <1>2, <2>1, <2>2, HonestMove
<1>3. CASE UNCHANGED <<pc, req, code>>
  BY <1>1, <1>3, HonestMove
<1> QED
  BY <1>1, <1>2, <1>3 DEF PutAcknowledged, PutUnanswered, Unanswered

LEMMA NextHonest == ASSUME Typed, HonestOK, [Next]_vars PROVE HonestOK'
<1>1. ASSUME NEW w \in Workers, NEW r \in Sent, Receive(w, r) PROVE HonestOK'
  <2>1. /\ pc[w] = "idle" /\ pc'[w] \in {"handler", "verify"} /\ UNCHANGED wrote
        /\ \A v \in Workers : v # w => UNCHANGED <<pc[v], req[v], code[v]>>
    BY <1>1 DEF Receive, HandlerOnly, Typed, WorkersTyped
  <2>2. ~wrote'[w]
    BY <2>1 DEF HonestOK
  <2> QED
    BY <2>1, <2>2, HonestMove
<1>2. ASSUME NEW w \in Workers, Middleware(w) PROVE HonestOK'
  BY <1>2, HonestBeforeStore DEF Middleware, Verify, Judge, AfterToken
<1>3. ASSUME NEW w \in Workers, RequireGM(w) PROVE HonestOK'
  BY <1>3, HonestBeforeStore DEF RequireGM, HandlerOnly
<1>4. ASSUME NEW w \in Workers, Health(w) \/ Me(w) \/ SettingsRead(w) PROVE HonestOK'
  BY <1>4, HonestBeforeStore DEF Health, Me, SettingsRead, GetSettings, At, HandlerOnly
<1>5. ASSUME NEW w \in Workers, SettingsDecided(w) PROVE HonestOK'
  BY <1>5, HonestBeforeStore DEF SettingsDecided, PutSettings, At, HandlerOnly
<1>6. ASSUME NEW w \in Workers, Finished(w) \/ Killed(w) PROVE HonestOK'
  <2>1. Recycle(w)
    BY <1>6 DEF Finished, Finish, Killed, Crash
  <2>2. /\ pc'[w] = "idle" /\ ~wrote'[w]
        /\ \A v \in Workers : v # w => UNCHANGED <<pc[v], req[v], code[v], wrote[v]>>
    BY <2>1 DEF Recycle, Typed, WorkersTyped, StoreTyped
  <2> QED
    BY <2>2, HonestMove
<1>7. CASE UNCHANGED workerVars
  BY <1>7, HonestStays DEF workerVars
<1> QED
  BY <1>1, <1>2, <1>3, <1>4, <1>5, <1>6, <1>7, HonestPut
     DEF Next, Step, Booting, RefreshKeys, Issuer, vars

\* A put answered 200 took effect, and one that the token's check, the gate or
\* the settings' rules turned down did not, for any number of attempts.
THEOREM ChainAnswersHonest == Spec => []AnswersAreHonest
<1>1. Init => HonestOK
  BY DEF Init, WorkersInit, HonestOK, AnswersAreHonest
<1>2. HonestOK => AnswersAreHonest
  BY DEF HonestOK
<1> QED
  BY <1>1, <1>2, NextHonest, AlwaysTyped, PTL DEF Spec

-----------------------------------------------------------------------------
(* What follows.                                                           *)

\* The table changes only where a put takes effect, and then to what the put's
\* request says.
LEMMA OnlyPutsWrite ==
  ASSUME Typed, ChainOK, [Next]_vars
  PROVE  \/ UNCHANGED table
         \/ \E w \in Workers :
              /\ pc[w] = "put"
              /\ req[w] \in Sent /\ req[w].op = "putSettings"
              /\ Vetted(w) /\ IsGM(w)
              /\ table' = [table EXCEPT ![KeyOf(req[w])] =
                             [key |-> KeyOf(req[w]), party |-> req[w].body]]
<1>1. ASSUME NEW w \in Workers, pc[w] = "put", PutLands(w)
      PROVE  /\ req[w] \in Sent /\ req[w].op = "putSettings"
             /\ Vetted(w) /\ IsGM(w)
             /\ table' = [table EXCEPT ![KeyOf(req[w])] =
                            [key |-> KeyOf(req[w]), party |-> req[w].body]]
  <2>1. /\ req[w] \in Sent /\ req[w].op = "putSettings"
        /\ Vetted(w) /\ IsGM(w)
        /\ doc[w] = [key |-> KeyOf(req[w]), party |-> req[w].body]
    BY <1>1 DEF ChainOK, Relies, SettingsOps
  <2> QED
    BY <1>1, <2>1 DEF PutLands, PutItem
<1>2. ASSUME NEW w \in Workers, PutAcknowledged(w) \/ PutUnanswered(w)
      PROVE  pc[w] = "put" /\ (PutLands(w) \/ UNCHANGED table)
  BY <1>2 DEF PutAcknowledged, PutUnanswered, tableVars
<1>3. \/ UNCHANGED table
      \/ \E w \in Workers : PutAcknowledged(w) \/ PutUnanswered(w)
  BY DEF Next, Step, vars, tableVars, HandlerOnly, Receive, Middleware, RequireGM, Health, Me,
         SettingsRead, SettingsDecided, Booting, RefreshKeys, Finished, Killed, Finish, Crash,
         Recycle, Issuer
<1> QED
  BY <1>1, <1>2, <1>3

\* What is stored as settings is one body somebody sent for that campaign, as
\* it was sent and within the rules, however puts race, fail and are repeated.
THEOREM SettingsAreAsSent == Spec => []StoredAsSent
<1>1. Init => StoredAsSent
  BY DEF Init, TableInit, StoredAsSent
<1>2. ASSUME Typed, ChainOK, StoredAsSent, [Next]_vars, Typed' PROVE StoredAsSent'
  <2>1. ASSUME NEW k \in Key, table'[k] # None PROVE Sane(table'[k].party)
    <3>1. table'[k] \in CampaignSettings
      BY <1>2, <2>1 DEF Typed, StoreTyped
    <3> QED
      BY <3>1 DEF CampaignSettings, Valid, ValidParty, Sane
  <2>2. ASSUME NEW k \in Key, table'[k] # None
        PROVE  \E r \in Sent : /\ r.op = "putSettings"
                              /\ KeyOf(r) = k
                              /\ r.body = table'[k].party
    <3>1. CASE table'[k] = table[k]
      BY <1>2, <2>2, <3>1 DEF StoredAsSent
    <3>2. CASE table'[k] # table[k]
      <4>1. PICK w \in Workers :
              /\ req[w] \in Sent /\ req[w].op = "putSettings"
              /\ table' = [table EXCEPT ![KeyOf(req[w])] =
                             [key |-> KeyOf(req[w]), party |-> req[w].body]]
        BY <1>2, <3>2, OnlyPutsWrite
      <4>2. k = KeyOf(req[w]) /\ table'[k] = [key |-> k, party |-> req[w].body]
        BY <1>2, <3>2, <4>1 DEF Typed, StoreTyped
      <4> QED
        BY <4>1, <4>2
    <3> QED
      BY <3>1, <3>2
  <2> QED
    BY <2>1, <2>2 DEF StoredAsSent, KeyOf, Sane
<1>3. Typed /\ ChainOK /\ StoredAsSent /\ [Next]_vars /\ Typed' => StoredAsSent'
  BY <1>2
<1> QED
  BY <1>1, <1>3, AlwaysTyped, AlwaysChainOK, PTL DEF Spec

\* Settings only change for the GM of that campaign with a genuine token.
Sanctioned(k) ==
  \E w \in Workers : LET token == Presented(req[w]) IN
    /\ pc[w] = "put"
    /\ KeyOf(req[w]) = k
    /\ token \in Tokens
    /\ Genuine(token)
    /\ <<token.sub, k[1]>> \in GMs

THEOREM OnlyVettedWrites == Spec => NobodyWritesUnvetted
<1>1. ASSUME Typed, ChainOK, [Next]_vars, NEW k \in Key, table'[k] # table[k]
      PROVE  Sanctioned(k)
  <2>1. PICK w \in Workers :
          /\ pc[w] = "put" /\ Vetted(w) /\ IsGM(w)
          /\ table' = [table EXCEPT ![KeyOf(req[w])] =
                         [key |-> KeyOf(req[w]), party |-> req[w].body]]
    BY <1>1, OnlyPutsWrite
  <2>2. k = KeyOf(req[w])
    BY <1>1, <2>1 DEF Typed, StoreTyped
  <2>3. k[1] = req[w].camp
    BY <2>2 DEF KeyOf
  <2> QED
    BY <2>1, <2>2, <2>3 DEF Sanctioned, Vetted, IsGM
<1>2. Typed /\ ChainOK /\ [Next]_vars
        => [\A k \in Key : table'[k] # table[k] => Sanctioned(k)]_vars
  BY <1>1
<1>3. Typed /\ ChainOK /\ [Next]_vars =>
        [\A k \in Key : table'[k] # table[k] =>
           \E w \in Workers : LET token == Presented(req[w]) IN
             /\ pc[w] = "put"
             /\ KeyOf(req[w]) = k
             /\ token \in Tokens
             /\ Genuine(token)
             /\ <<token.sub, k[1]>> \in GMs]_vars
  BY <1>2 DEF Sanctioned
<1> QED
  BY <1>3, AlwaysTyped, AlwaysChainOK, PTL DEF Spec, NobodyWritesUnvetted

\* A process that has a copy of the keys turns no token away that the copy
\* vouches for, whether the issuer can be reached or not.
THEOREM VerificationIsOffline == Spec => OutageTolerated
<1>1. ASSUME Typed, ChainOK, [Next]_vars, NEW w \in Workers, pc[w] = "verify", Vouched(w)
      PROVE  code'[w] # 401
  <2>1. code[w] = None /\ None # 401
    <3>1. code[w] = None
      BY <1>1 DEF ChainOK, Relies
    <3>2. None # 401
      BY NoCodeAssumption DEF Codes
    <3> QED
      BY <3>1, <3>2
  <2>2. CASE Middleware(w)
    <3>1. /\ Presented(req[w]) \in Tokens /\ keys[w] # None
          /\ now \in Nat /\ Presented(req[w]).exp \in Nat
          /\ now < Presented(req[w]).exp
      <4>1. req[w] \in Requests
        BY <1>1 DEF Typed, WorkersTyped
      <4> QED
        BY <1>1, <4>1, RequestFields DEF Vouched, Typed, IssuerTyped
    <3>2. Accepts(keys[w], Presented(req[w]))
      BY <1>1, <3>1 DEF Accepts, Vouched, Genuine
    <3>3. UNCHANGED code
      BY <1>1, <2>2, <3>1, <3>2 DEF Middleware, Verify, Judge, Pass
    <3> QED
      BY <2>1, <3>3
  <2>3. CASE ~Middleware(w)
    <3>1. ASSUME NEW v \in Workers, v # w, \E c : Answer(v, c) \/ Recycle(v)
          PROVE  code'[w] = code[w]
      BY <1>1, <3>1 DEF Answer, Recycle, Typed, WorkersTyped
    <3>2. ASSUME Recycle(w) PROVE code'[w] = None
      BY <1>1, <3>2 DEF Recycle, Typed, WorkersTyped
    <3>3. ASSUME NEW v \in Workers, Step(v), v # w PROVE code'[w] = code[w]
      BY <3>1, <3>3 DEF Step, Middleware, Verify, Judge, Pass, RequireGM, Health, Me,
           SettingsRead, GetSettings, SettingsDecided, PutSettings, GoPut, PutAcknowledged,
           PutUnanswered, Unanswered, Finished, Finish
    <3>4. ASSUME Step(w) PROVE FALSE
      BY <1>1, <2>3, <3>4 DEF Step, RequireGM, Health, Me, SettingsRead, SettingsDecided,
           PutAcknowledged, PutUnanswered, Finished, Finish, At
    <3>5. ASSUME NEW v \in Workers, Killed(v) PROVE code'[w] \in {None, code[w]}
      BY <3>1, <3>2, <3>5 DEF Killed, Crash
    <3>6. ASSUME \/ \E v \in Workers : \/ \E r \in Sent : Receive(v, r)
                                       \/ Booting(v) \/ RefreshKeys(v)
                 \/ Issuer \/ UNCHANGED vars
          PROVE  UNCHANGED code
      BY <3>6 DEF Receive, Booting, RefreshKeys, Issuer, vars, workerVars
    <3>7. code'[w] \in {None, code[w]}
      BY <1>1, <3>3, <3>4, <3>5, <3>6 DEF Next
    <3> QED
      BY <2>1, <3>7
  <2> QED
    BY <2>2, <2>3
<1>2. Typed /\ ChainOK /\ [Next]_vars
        => [\A w \in Workers : pc[w] = "verify" /\ Vouched(w) => code'[w] # 401]_vars
  BY <1>1
<1> QED
  BY <1>2, AlwaysTyped, AlwaysChainOK, PTL DEF Spec, OutageTolerated
=============================================================================
