------------------------------ MODULE Listing -------------------------------
(***************************************************************************)
(* Store.List and Store.ListChapters: a campaign's items read page by      *)
(* page, each page a Query of its own that starts after the last key of    *)
(* the page before, while other invocations put and delete items.  Query,  *)
(* like GetItem, reads without ConsistentRead, and its items one by one.   *)
(*                                                                         *)
(* Ids are sort keys here, numbered in sort-key order; KindOf tells whose  *)
(* prefix a key has.                                                       *)
(***************************************************************************)
EXTENDS Table, Integers, Sequences, Ranking

CONSTANTS Camp,        \* the listed campaign
          KindOf,      \* id -> "encounter" or "chapter"
          ValuesOf,    \* kind -> what its items may hold
          Undecodable, \* the values decodePayload cannot read
          OrderOf,     \* value -> a chapter's Order
          NameOf,      \* value -> its Name, names numbered alphabetically
          StoreFails   \* may a Query fail for good?

Kinds  == {"encounter", "chapter"}
Values == UNION {ValuesOf[n] : n \in Kinds}

ASSUME ListingAssumption ==
  /\ Camp \in Campaigns
  /\ Ids \subseteq Nat \ {0} /\ IsFiniteSet(Ids)
  /\ KindOf \in [Ids -> Kinds]
  /\ None \notin Values
  /\ Undecodable \subseteq Values
  /\ OrderOf \in [Values -> Nat]
  /\ NameOf \in [Values -> Nat]
  /\ StoreFails \in BOOLEAN

VARIABLES kind,    \* the list asked for: "chapter" is ListChapters, else List
          phase,   \* "idle", "query" (in the loop), "done", "failed"
          start,   \* ExclusiveStartKey: the last key read, 0 before the first
          pages,   \* the pages read so far, each a function from id to value
          answer,  \* the list returned, as <<number of the page, id>>
          seen     \* history: id -> what a read of it may have returned since
                   \*            the listing began

listVars == <<kind, phase, start, pages, answer, seen>>
vars == <<tableVars, listVars>>

\* The sort keys with the queried prefix.
Scope == {i \in Ids : KindOf[i] = kind}

Init == /\ TableInit
        /\ kind   = None
        /\ phase  = "idle"
        /\ start  = 0
        /\ pages  = << >>
        /\ answer = << >>
        /\ seen   = [i \in Ids |-> {}]

-----------------------------------------------------------------------------
(* The loop over the pages.                                                *)

Begin == /\ phase = "idle"
         /\ phase' = "query"
         /\ kind' \in Kinds
         /\ seen'  = [i \in Ids |-> IF i \in Scope' THEN GetItem(<<Camp, i>>) ELSE {}]
         /\ UNCHANGED <<tableVars, start, pages, answer>>

\* Mutant: the last key is read again.
RestInclusive == {i \in Scope : start <= i}

\* Mutant: the key after the last one is skipped.
RestSkipping == {i \in Scope : start + 1 < i}

\* Mutant: items of other kinds are read, too.
RestUnprefixed == {i \in Ids : start < i}

\* What is left to read: the prefix's keys after ExclusiveStartKey.
Rest == {i \in Scope : start < i}

\* The pages a Query over ids may return: of each id, what a read may see of
\* it, and nothing of an id that holds no item.
PagesOf(ids) ==
  LET reads == {r \in [ids -> Values \cup {None}] :
                  \A i \in ids : r[i] \in GetItem(<<Camp, i>>)}
  IN  {[i \in {j \in ids : r[j] # None} |-> r[i]] : r \in reads}

Decodable(page) == \A i \in DOMAIN page : page[i] \notin Undecodable

\* Mutant: a list that fails is begun again.
FailRetries == /\ start'  = 0
               /\ pages'  = << >>
               /\ UNCHANGED <<tableVars, kind, phase, answer, seen>>

\* One item that does not decode, or a failed Query, fails the whole list.
Fail == /\ phase'  = "failed"
        /\ start'  = 0
        /\ pages'  = << >>
        /\ UNCHANGED <<tableVars, kind, answer, seen>>

QueryFails == phase = "query" /\ StoreFails /\ Fail

\* The page is full at last: LastEvaluatedKey is its last item's key.
QueryMore(last) ==
  /\ phase = "query"
  /\ \E page \in PagesOf({i \in Rest : i <= last}) :
       /\ last \in DOMAIN page
       /\ \/ ~Decodable(page) /\ Fail
          \/ /\ Decodable(page)
             /\ pages' = Append(pages, page)
             /\ start' = last
             /\ UNCHANGED <<tableVars, kind, phase, answer, seen>>

\* The entries read, in the order it was appended.
Entries(ps) == UNION {{n} \X DOMAIN ps[n] : n \in DOMAIN ps}
ValueAt(ps, e) == ps[e[1]][e[2]]
Earlier(e, f) == e[1] < f[1] \/ (e[1] = f[1] /\ e[2] < f[2])

\* Mutant: sorting by Order only.
LessByOrder(v, u) == OrderOf[v] < OrderOf[u]

\* The comparison ListChapters sorts by: Order, then Name.
Less(v, u) == IF OrderOf[v] # OrderOf[u] THEN OrderOf[v] < OrderOf[u]
              ELSE NameOf[v] < NameOf[u]

\* The list returned: stably sorted, or as it was appended.
Comes(ps, e, f) ==
  LET v == ValueAt(ps, e)
      u == ValueAt(ps, f)
  IN  IF kind = "chapter" /\ (Less(v, u) \/ Less(u, v)) THEN Less(v, u) ELSE Earlier(e, f)

Result(ps) ==
  Ranked([e \in Entries(ps) |-> {f \in Entries(ps) : Comes(ps, f, e)}])

\* The last page: no LastEvaluatedKey.
QueryEnd ==
  /\ phase = "query"
  /\ \E page \in PagesOf(Rest) :
       \/ ~Decodable(page) /\ Fail
       \/ /\ Decodable(page)
          /\ pages'  = Append(pages, page)
          /\ answer' = Result(pages')
          /\ phase'  = "done"
          /\ UNCHANGED <<tableVars, kind, start, seen>>

Query == QueryFails \/ QueryEnd \/ \E last \in Rest : QueryMore(last)

Answered == /\ phase \in {"done", "failed"}
            /\ kind'   = None
            /\ phase'  = "idle"
            /\ start'  = 0
            /\ pages'  = << >>
            /\ answer' = << >>
            /\ seen'   = [i \in Ids |-> {}]
            /\ UNCHANGED tableVars

-----------------------------------------------------------------------------
(* The other invocations, and the replica.                                 *)

\* History follows what becomes readable while the list is being read.
Watch == seen' = [i \in Ids |->
                    IF phase = "query" /\ i \in Scope
                    THEN seen[i] \cup GetItem(<<Camp, i>>)' ELSE seen[i]]

Write(k) == /\ \/ \E v \in ValuesOf[KindOf[k[2]]] : PutItem(k, v)
               \/ DeleteItem(k)
            /\ UNCHANGED <<replica, kind, phase, start, pages, answer>>
            /\ Watch

ReplicaCatchesUp(k) == /\ Replicate(k)
                       /\ UNCHANGED <<kind, phase, start, pages, answer>>
                       /\ Watch

Next == \/ Begin \/ Query \/ Answered
        \/ \E k \in Key : Write(k) \/ ReplicaCatchesUp(k)

Spec == Init /\ [][Next]_vars

\* The handler runs on; the writers may do as they like.
FairSpec == Spec /\ WF_vars(Query)
=============================================================================
