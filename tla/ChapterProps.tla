---------------------------- MODULE ChapterProps ----------------------------
(***************************************************************************)
(* What is claimed of the chapter endpoints.                               *)
(***************************************************************************)
EXTENDS Chapters

\* What a body asks for, told field by field as updateChapter's comment does
\* (chapters.go:57-62, 82-89): e is what in makes of ch.
MergeOf(ch, in, e) ==
  /\ e.key  = ch.key
  /\ e.name = in.name
  /\ e.party = in.party
  /\ IF in.order = Omitted THEN e.order = ch.order ELSE e.order = in.order
  /\ IF in.map = Omitted THEN e.map = ch.map ELSE e.map = in.map

\* A body with every omitted field at its zero value makes a new chapter.
BirthOf(k, in, e) ==
  MergeOf([key |-> k, order |-> NoOrder, map |-> None], in, e)

\* Whatever runs concurrently, fails or is repeated, a chapter that was never
\* stored before is what the body of a request to its URL makes: of nothing,
\* when the key never held a chapter, else of one that the key has held.
WritesAreMerges ==
  [][\A k \in Key : table'[k] \notin versions[k] \cup {None} =>
       \E w \in Workers :
         /\ pc[w] = "put"
         /\ KeyOf(req[w]) = k
         /\ IF versions[k] = {} THEN BirthOf(k, req[w].body, table'[k])
            ELSE \E ch \in versions[k] : MergeOf(ch, req[w].body, table'[k])]_vars

\* A chapter's layout changes only to one its clients sent while that change
\* was being served: "a rename/party edit omits map_positions and must not
\* wipe the GM's saved layout" (chapters.go:88-89).
Layout(ch) == IF ch = None THEN None ELSE ch.map

LayoutOnlyMovesBySave ==
  [][\A k \in Key : /\ table[k] # None
                    /\ table'[k] # None
                    /\ Layout(table'[k]) # Layout(table[k])
       => \E w \in Workers : /\ pc[w] = "put"
                             /\ KeyOf(req[w]) = k
                             /\ req[w].body.map = Layout(table'[k])]_vars

\* A success answer means the write reached the table, a refusal that it did
\* not, although attempts are repeated.
AnswersAreHonest ==
  \A w \in Workers : pc[w] = "done" =>
    /\ code[w] \in {200, 201, 204} => wrote[w]
    /\ code[w] \in {400, 404} => ~wrote[w]
=============================================================================
