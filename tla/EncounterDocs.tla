--------------------------- MODULE EncounterDocs ----------------------------
(***************************************************************************)
(* The encounter document (model.Encounter) and the three ways a handler   *)
(* makes a document to store: a new one, an edit of one it read, the       *)
(* release of one it read.  The many content fields travel together and    *)
(* are one value, the body; what the handlers ask of a body is whether     *)
(* the completeness gate finds gaps in it, and what loot it holds.         *)
(***************************************************************************)
EXTENDS Keys

CONSTANTS Bodies,      \* what a valid EncounterInput can carry
          Gappy,       \* the bodies IncompleteContent reports gaps in
          Loot         \* body -> what ReleasePayloadFromEncounter extracts

ASSUME BodiesAssumption == Gappy \subseteq Bodies

Statuses == {"draft", "run", "released"}

\* released_at is ReleasedAt # nil.  forced is not stored by the code: it
\* remembers that the release was a "release anyway" (?force=true).
Doc == [key : Key, status : Statuses, body : Bodies,
        released_at : BOOLEAN, forced : BOOLEAN]

\* A key holds an item or nothing.
ASSUME NoneAssumption == None \notin Doc

NewDoc(k, b) == [key |-> k, status |-> "draft", body |-> b,
                 released_at |-> FALSE, forced |-> FALSE]

\* An edit replaces the whole body; an empty status leaves the status alone.
EditedDoc(d, b, s) == [d EXCEPT !.body = b, !.status = IF s = "" THEN @ ELSE s]

\* Mutant: a release that forgets the stamp.
ReleasedDocUnstamped(d, f) == [d EXCEPT !.status = "released", !.forced = f]

ReleasedDoc(d, f) == [d EXCEPT !.status = "released", !.released_at = TRUE,
                               !.forced = f]

\* The statuses an update may ask for.
EditStatuses == {"", "draft", "run"}

\* The documents a legal edit, and a legal release, may make of d.
EditsOf(d) ==
  IF d.status = "released" THEN {}
  ELSE {EditedDoc(d, b, s) : b \in Bodies, s \in EditStatuses}

ReleasesOf(d) ==
  IF d.status = "released" THEN {}
  ELSE {ReleasedDoc(d, f) : f \in {g \in BOOLEAN : g \/ d.body \notin Gappy}}
=============================================================================
