------------------------------ MODULE Settings ------------------------------
(***************************************************************************)
(* The campaign settings (internal/api/settings.go): one item per campaign *)
(* with the expected party of its chapters and encounters.  A put replaces *)
(* it whole, without reading it.                                           *)
(***************************************************************************)
EXTENDS Invocations, PartyRules

CONSTANTS SettingsId,     \* the sort key of the singleton
          PartyInputs,    \* [party_level, party_size], as decoded
          Malformed       \* a body decodeBody turns down

ASSUME SettingsAssumption == /\ SettingsId \in Ids
                             /\ Malformed \notin PartyInputs

\* CampaignSettingsInput.Validate, on what decodeBody let through.
Valid(body) == body # Malformed /\ ValidParty(body.party_level, body.party_size)

CampaignSettings ==
  [key : Key, party : {body \in PartyInputs : Valid(body)}]

\* A campaign without settings is answered with empty ones.
GetSettings(w) == \/ "store" \in Disturbances /\ Answer(w, 500)
                  \/ Answer(w, 200)

\* Mutant: a field that is not sent is kept.
PutSettingsMerged(w) ==
  LET r == req[w]
      kept(field) == IF r.body[field] # None \/ table[KeyOf(r)] = None
                     THEN r.body[field] ELSE table[KeyOf(r)].party[field]
  IN
  \/ ~Valid(r.body) /\ Answer(w, 400)
  \/ /\ Valid(r.body)
     /\ GoPut(w, [key |-> KeyOf(r), party |-> [f \in DOMAIN r.body |-> kept(f)]])

\* A field that is not sent is cleared.
PutSettings(w) ==
  LET r == req[w] IN
  \/ ~Valid(r.body) /\ Answer(w, 400)
  \/ Valid(r.body) /\ GoPut(w, [key |-> KeyOf(r), party |-> r.body])
=============================================================================
