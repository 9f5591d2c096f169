-------------------------------- MODULE Keys --------------------------------
(***************************************************************************)
(* The keys of the single DynamoDB table behind the API.  store.go builds  *)
(* them from the campaign (partition key "CAMPAIGN#c") and the item id     *)
(* (sort key "ENCOUNTER#i" or "CHAPTER#i"); the pair is what they tell     *)
(* apart, so the pair is the key here.                                     *)
(***************************************************************************)
EXTENDS Nothing

CONSTANTS Campaigns,   \* ids of lets-roll games: the {campaignID} of the URL
          Ids          \* ids newID() may draw: the {encounterID} of the URL

\* The two prefixes cannot collide (ids are hex strings), so two items share a
\* key exactly when they share campaign and id.
Key == Campaigns \X Ids
=============================================================================
