------------------------------ MODULE ApiProps ------------------------------
(***************************************************************************)
(* What is claimed of the chain of middlewares and of the settings.        *)
(***************************************************************************)
EXTENDS Api

\* Every variable holds values of its kind, and a worker has a process, a
\* token and a document where its request needs them.
TypeOK ==
  /\ table   \in [Key -> CampaignSettings \cup {None}]
  /\ replica \in [Key -> CampaignSettings \cup {None}]
  /\ pc  \in [Workers -> Places]
  /\ req \in [Workers -> Requests \cup {None}]
  /\ doc \in [Workers -> CampaignSettings \cup {None}]
  /\ tries \in [Workers -> 0 .. MaxAttempts - 1]
  /\ code  \in [Workers -> Codes \cup {None}]
  /\ wrote \in [Workers -> BOOLEAN]
  /\ published \in SUBSET IssuerKeys
  /\ editions  \subseteq SUBSET IssuerKeys
  /\ reachable \in BOOLEAN
  /\ now  \in 0 .. Horizon
  /\ life \in [Workers -> Lives]
  /\ keys \in [Workers -> (SUBSET IssuerKeys) \cup {None}]
  /\ \A w \in Workers :
       /\ pc[w] # "idle" => req[w] \in Requests /\ life[w] = "up"
       /\ pc[w] = "gate" => Presented(req[w]) \in Tokens
       /\ pc[w] = "put" => doc[w] \in CampaignSettings

\* A put that is answered 200 reached the table, and one that any link of the
\* chain turned down did not, by no attempt: the token's 401, the gate's 403 and
\* 502, and the 400 of the settings themselves (settings.go:35-56).  A 500 means
\* neither.
AnswersAreHonest ==
  \A w \in Workers : pc[w] = "done" =>
    /\ code[w] = 200 /\ req[w].op = "putSettings" => wrote[w]
    /\ code[w] \in {400, 401, 403, 502} => ~wrote[w]

\* What is stored as settings is one body somebody sent for that campaign, as
\* it was sent, with a level and a size the tables know: puts race and are
\* repeated, and none is mixed with another or with what was there
\* (settings.go:33-34, "PUT = full replace").
Sane(party) == /\ party.party_level # None => party.party_level \in 1 .. 20
               /\ party.party_size # None => party.party_size >= 1

StoredAsSent ==
  \A k \in Key : table[k] # None =>
    /\ Sane(table[k].party)
    /\ \E r \in Sent : /\ r.op = "putSettings"
                      /\ KeyOf(r) = k
                      /\ r.body = table[k].party

\* A token the issuer made for us: signed with a key it published at some
\* time, in its name, and for our audience if one is required.
Genuine(t) == /\ \E edition \in editions : t.key \in edition
              /\ t.iss = "ours"
              /\ AudienceRequired => t.aud = "ours"

\* Settings only change for the GM of that campaign with a genuine token,
\* wherever in the chain keys rotate, tokens expire, lets-roll fails or calls
\* are repeated (router.go:48, 75-79).
NobodyWritesUnvetted ==
  [][\A k \in Key : table'[k] # table[k] =>
       \E w \in Workers : LET token == Presented(req[w]) IN
         /\ pc[w] = "put"
         /\ KeyOf(req[w]) = k
         /\ token \in Tokens
         /\ Genuine(token)
         /\ <<token.sub, k[1]>> \in GMs]_vars

\* Once a process has a copy of the keys, an outage of the issuer turns no
\* token away that the copy vouches for ("verification is offline on the
\* request path", auth.go:7-8).
Vouched(w) == LET t == Presented(req[w]) IN
  t # None /\ keys[w] # None /\ Genuine(t) /\ t.key \in keys[w] /\ now < t.exp

OutageTolerated ==
  [][\A w \in Workers : pc[w] = "verify" /\ Vouched(w) => code'[w] # 401]_vars

\* Once the issuer can be reached for good, a process that keeps getting
\* requests ends up with the keys the issuer serves ("key rotation is picked
\* up without a redeploy", auth.go:7), although it is frozen in between.
RotationPickedUp ==
  \A w \in Workers :
    <>[]reachable /\ []<>(pc[w] # "idle")
      => <>[](life[w] = "up" => keys[w] = published)

\* A process comes up although the issuer cannot be reached ("don't couple
\* cold start (or the public /healthz) to the provider being reachable",
\* auth.go:91-92).
NoDeadBoot == \A w \in Workers : life[w] # "dead"
=============================================================================
