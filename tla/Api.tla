-------------------------------- MODULE Api ---------------------------------
(***************************************************************************)
(* The router's chain, from the process that boots to the answer: public   *)
(* health, me behind the token, and the campaign settings behind the token *)
(* and the GM gate.  The other campaign routes pass the same two           *)
(* middlewares; their handlers are in Encounters, Chapters and Listing.    *)
(*                                                                         *)
(* lets-roll is the issuer and the host of the gate's question             *)
(* (config.go), so an outage takes both away.                              *)
(***************************************************************************)
EXTENDS KeyCache, Settings

CONSTANTS GMs,       \* the <<user, campaign>> pairs lets-roll calls GM
          Sent       \* the requests the clients of this instance send

Request(op, id, body) ==
  [op : {op}, camp : Campaigns, id : {id}, body : body,
   authorization : Tokens \cup {None}, x_access_token : Tokens \cup {None}]

Requests == UNION {
  Request("health",      None,       {None}),
  Request("me",          None,       {None}),
  Request("getSettings", SettingsId, {None}),
  Request("putSettings", SettingsId, PartyInputs \cup {Malformed})}

ASSUME SentAssumption == Sent \subseteq Requests

vars == <<tableVars, workerVars, issuerVars, cacheVars>>

Init == TableInit /\ WorkersInit /\ KeyCacheInit

\* Nothing outside the handler changes.
HandlerOnly == UNCHANGED <<tableVars, wrote, issuerVars, cacheVars>>

-----------------------------------------------------------------------------
(* The chain.                                                              *)

Receive(w, r) == /\ life[w] = "up"
                 /\ pc[w] = "idle"
                 /\ req' = [req EXCEPT ![w] = r]
                 /\ pc'  = [pc EXCEPT ![w] = IF r.op = "health" THEN "handler" ELSE "verify"]
                 /\ UNCHANGED <<doc, tries, code>>
                 /\ HandlerOnly

\* Mutant: the settings are mounted outside the gate.
AfterTokenUngated(w) == "handler"

\* Where the middleware's next handler is.
AfterToken(w) == IF req[w].op = "me" THEN "handler" ELSE "gate"

Middleware(w) == /\ pc[w] = "verify"
                 /\ Verify(w, AfterToken(w))
                 /\ UNCHANGED <<tableVars, wrote, issuerVars, life>>

\* requireGM asks with the token that was verified.  The host may be down or
\* fail.  It may turn the token down although Verify did not: it expired, or
\* its key was retired.
RequireGM(w) ==
  LET token == Presented(req[w]) IN
  /\ pc[w] = "gate"
  /\ \/ /\ ~reachable \/ "letsroll" \in Disturbances
        /\ Answer(w, 502)
     \/ /\ reachable
        /\ \/ now >= token.exp
           \/ token.key \notin published
           \/ <<token.sub, req[w].camp>> \notin GMs
        /\ Answer(w, 403)
     \/ /\ reachable
        /\ <<token.sub, req[w].camp>> \in GMs
        /\ Pass(w, "handler")
  /\ HandlerOnly

-----------------------------------------------------------------------------
(* The handlers.  What a get answers is in no other state: no write here   *)
(* was made from a read, and the replica stays as it is.                   *)

Health(w) == At(w, "handler", "health") /\ Answer(w, 200) /\ HandlerOnly

Me(w) == At(w, "handler", "me") /\ Answer(w, 200) /\ HandlerOnly

SettingsRead(w) ==
  At(w, "handler", "getSettings") /\ GetSettings(w) /\ HandlerOnly

SettingsDecided(w) ==
  At(w, "handler", "putSettings") /\ PutSettings(w) /\ HandlerOnly

PutAcknowledged(w) == /\ pc[w] = "put"
                      /\ PutLands(w)
                      /\ Answer(w, 200)
                      /\ UNCHANGED <<issuerVars, cacheVars>>

\* Mutant: the error of Store.PutSettings is dropped.
PutUnansweredIgnored(w) == /\ pc[w] = "put"
                           /\ "store" \in Disturbances
                           /\ PutLands(w) \/ UNCHANGED <<tableVars, wrote>>
                           /\ Answer(w, 200)
                           /\ UNCHANGED <<issuerVars, cacheVars>>

PutUnanswered(w) == /\ pc[w] = "put"
                    /\ PutLands(w) \/ UNCHANGED <<tableVars, wrote>>
                    /\ Unanswered(w)
                    /\ UNCHANGED <<issuerVars, cacheVars>>

-----------------------------------------------------------------------------
(* Around the handlers.                                                    *)

Booting(w) == /\ ColdStart(w) \/ Discover(w) \/ Warm(w) \/ Restart(w)
              /\ UNCHANGED <<tableVars, workerVars, issuerVars>>

RefreshKeys(w) == Refresh(w) /\ UNCHANGED <<tableVars, workerVars, issuerVars>>

Finished(w) == Finish(w) /\ UNCHANGED <<issuerVars, cacheVars>>

\* A process is killed with its invocation, and its copy of the keys with it.
Killed(w) == /\ Crash(w)
             /\ life' = [life EXCEPT ![w] = "off"]
             /\ keys' = [keys EXCEPT ![w] = None]
             /\ UNCHANGED issuerVars

Issuer == /\ (\E set \in SUBSET IssuerKeys : Publish(set)) \/ OutageBeginsOrEnds \/ Tick
          /\ UNCHANGED <<tableVars, workerVars, cacheVars>>

\* What a running invocation does next, unless it is killed.
Step(w) == \/ Middleware(w)
           \/ RequireGM(w)
           \/ Health(w)
           \/ Me(w)
           \/ SettingsRead(w)
           \/ SettingsDecided(w)
           \/ PutAcknowledged(w)
           \/ PutUnanswered(w)
           \/ Finished(w)

Next == \/ \E w \in Workers : \/ \E r \in Sent : Receive(w, r)
                              \/ Step(w)
                              \/ Booting(w)
                              \/ RefreshKeys(w)
                              \/ Killed(w)
        \/ Issuer

Spec == Init /\ [][Next]_vars

\* A running invocation runs on, and a refresh that could run again and again
\* runs at last.  Nobody has to send a request.
FairSpec == Spec /\ \A w \in Workers : WF_vars(Step(w)) /\ SF_vars(RefreshKeys(w))
=============================================================================
