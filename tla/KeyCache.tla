------------------------------ MODULE KeyCache ------------------------------
(***************************************************************************)
(* Token verification (internal/auth/auth.go) in the processes that serve  *)
(* the invocations, and the OIDC issuer whose keys they cache (external).  *)
(*                                                                         *)
(* A process discovers the issuer's key set when it boots, fetches it once *)
(* before it serves anything, and again now and then in the background.    *)
(* Requests are verified against the copy.                                 *)
(***************************************************************************)
EXTENDS Invocations

CONSTANTS IssuerKeys,       \* the keys the issuer ever signs with
          FirstKey,
          Tokens,           \* the tokens clients present
          AudienceRequired, \* OIDC_AUDIENCE is set
          Skew,             \* the skew Verify accepts, in ticks of the clock
          Horizon,          \* the clock stops here: a bound of the instance
          Freezes           \* a process runs only while it has a request (Lambda)

ASSUME IssuerAssumption == FirstKey \in IssuerKeys
ASSUME TimesAssumption  == Skew \in Nat /\ Horizon \in Nat
ASSUME TokensAssumption == /\ None \notin Tokens
                           /\ \A t \in Tokens : t.exp \in Nat
ASSUME ProcessAssumption == AudienceRequired \in BOOLEAN /\ Freezes \in BOOLEAN

Lives == {"off", "booting", "warming", "up", "dead"}

VARIABLES
  published,   \* the key set the issuer serves
  editions,    \* every key set it ever served (history: only Publish reads it)
  reachable,   \* does the issuer's host answer?
  now,         \* the clock
  life,        \* worker -> the state of its process
  keys         \* worker -> its process's copy of the key set, or None

issuerVars == <<published, editions, reachable, now>>
cacheVars  == <<life, keys>>

KeyCacheInit == /\ published = {FirstKey}
                /\ editions  = {{FirstKey}}
                /\ reachable = TRUE
                /\ now  = 0
                /\ life = [w \in Workers |-> "off"]
                /\ keys = [w \in Workers |-> None]

-----------------------------------------------------------------------------
(* The issuer.                                                             *)

\* The issuer serves another key set: a new key beside some of the old ones,
\* or fewer of the old ones.  A retired key does not come back.
Publish(set) ==
  /\ set # {}
  /\ set # published
  /\ \A k \in set \ published : \A edition \in editions : k \notin edition
  /\ published' = set
  /\ editions'  = editions \cup {set}
  /\ UNCHANGED <<reachable, now>>

OutageBeginsOrEnds == /\ "issuer" \in Disturbances
                      /\ reachable' = ~reachable
                      /\ UNCHANGED <<published, editions, now>>

Tick == /\ now < Horizon
        /\ now' = now + 1
        /\ UNCHANGED <<published, editions, reachable>>

-----------------------------------------------------------------------------
(* A process.                                                              *)

Live(w, before, after) == /\ life[w] = before
                          /\ life' = [life EXCEPT ![w] = after]

ColdStart(w) == Live(w, "off", "booting") /\ UNCHANGED keys

\* NewVerifier, first half: no discovery document, no process.
Discover(w) == /\ \/ reachable  /\ Live(w, "booting", "warming")
                  \/ ~reachable /\ Live(w, "booting", "dead")
               /\ UNCHANGED keys

\* NewVerifier, second half: a first fetch that fails is a warning.
Warm(w) == /\ Live(w, "warming", "up")
           /\ keys' = [keys EXCEPT ![w] = IF reachable THEN published ELSE None]

Restart(w) == Live(w, "dead", "off") /\ UNCHANGED keys

\* Mutant: the refresh ends with the context of the boot.
RefreshAtBoot(w) == /\ life[w] = "warming"
                    /\ reachable
                    /\ keys[w] # published
                    /\ keys' = [keys EXCEPT ![w] = published]
                    /\ UNCHANGED life

\* The background refresh replaces the copy.  One that fails leaves it alone.
Refresh(w) == /\ life[w] = "up"
              /\ Freezes => pc[w] # "idle"
              /\ reachable
              /\ keys[w] # published
              /\ keys' = [keys EXCEPT ![w] = published]
              /\ UNCHANGED life

-----------------------------------------------------------------------------
(* A request's token.                                                      *)

\* bearerToken: the Authorization header, unless it holds no bearer (behind
\* CloudFront it holds a signature), and else X-Access-Token.
Presented(r) == IF r.authorization # None THEN r.authorization ELSE r.x_access_token

Accepts(set, t) == /\ t.key \in set
                   /\ t.iss = "ours"
                   /\ AudienceRequired => t.aud = "ours"
                   /\ now < t.exp + Skew

\* What the middleware lets through goes on to the next handler.
Pass(w, place) == /\ pc' = [pc EXCEPT ![w] = place]
                  /\ UNCHANGED <<req, doc, tries, code>>

Judge(w, set, place) ==
  \/ Accepts(set, Presented(req[w]))  /\ Pass(w, place)
  \/ ~Accepts(set, Presented(req[w])) /\ Answer(w, 401)

\* Mutant: the keys are fetched for every request.
VerifyOnline(w, place) ==
  \/ Presented(req[w]) = None /\ Answer(w, 401) /\ UNCHANGED keys
  \/ /\ Presented(req[w]) # None
     /\ reachable
     /\ Judge(w, published, place)
     /\ keys' = [keys EXCEPT ![w] = published]
  \/ /\ Presented(req[w]) # None
     /\ ~reachable
     /\ Answer(w, 401)
     /\ UNCHANGED keys

\* Middleware.  Without a copy of the keys the cache may fetch them for this
\* request; it may also take the failed first fetch for the last word.
Verify(w, place) ==
  \/ Presented(req[w]) = None /\ Answer(w, 401) /\ UNCHANGED keys
  \/ /\ Presented(req[w]) # None
     /\ keys[w] # None
     /\ Judge(w, keys[w], place)
     /\ UNCHANGED keys
  \/ /\ Presented(req[w]) # None
     /\ keys[w] = None
     /\ \/ /\ reachable
           /\ Judge(w, published, place)
           /\ keys' = [keys EXCEPT ![w] = published]
        \/ Answer(w, 401) /\ UNCHANGED keys
=============================================================================
