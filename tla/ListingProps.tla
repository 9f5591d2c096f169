---------------------------- MODULE ListingProps ----------------------------
(***************************************************************************)
(* What is claimed of the lists.                                           *)
(***************************************************************************)
EXTENDS Listing

ListTypeOK ==
  /\ table   \in [Key -> Values \cup {None}]
  /\ replica \in [Key -> Values \cup {None}]
  /\ kind \in Kinds \cup {None}
  /\ phase \in {"idle", "query", "done", "failed"}
  /\ start \in Scope \cup {0}
  /\ \A n \in DOMAIN pages :
       DOMAIN pages[n] \subseteq Scope /\ \A i \in DOMAIN pages[n] : pages[n][i] \in Values
  /\ seen \in [Ids -> SUBSET (Values \cup {None})]

\* No item is listed twice, however the pages are cut and whatever is written
\* between them (store.go:121-145, 186-210).
ListedOnce ==
  \A m, n \in DOMAIN pages :
    m # n => DOMAIN pages[m] \cap DOMAIN pages[n] = {}

Listed(i) == {pages[n][i] : n \in {m \in DOMAIN pages : i \in DOMAIN pages[m]}}

\* A list is, item by item, right at some moment of its reading: what it says
\* an item holds, the item could then be read as; and an item it leaves out
\* could then be read as absent.  Nothing is lost at a page's edge.
RegularListing ==
  phase = "done" =>
    \A i \in Scope : IF Listed(i) = {} THEN None \in seen[i]
                     ELSE Listed(i) \subseteq seen[i]

\* The answer holds every item read, once, and chapters come by Order, then
\* Name, then as they were read: the sidebar's order does not depend on how
\* the pages were cut (store.go:211-216).
AnswerInOrder ==
  phase = "done" =>
    /\ {answer[n] : n \in DOMAIN answer} = Entries(pages)
    /\ Len(answer) = Cardinality(Entries(pages))
    /\ \A m, n \in DOMAIN answer : m < n =>
         LET v == ValueAt(pages, answer[m])
             u == ValueAt(pages, answer[n])
         IN  IF kind = "encounter" THEN answer[m][2] < answer[n][2]
             ELSE \/ OrderOf[v] < OrderOf[u]
                  \/ OrderOf[v] = OrderOf[u] /\ NameOf[v] < NameOf[u]
                  \/ /\ OrderOf[v] = OrderOf[u]
                     /\ NameOf[v] = NameOf[u]
                     /\ answer[m][2] < answer[n][2]

\* A list that is begun is answered, whatever the writers do meanwhile.
ListingEnds == phase = "query" ~> phase \in {"done", "failed"}
=============================================================================
