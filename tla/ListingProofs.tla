---------------------------- MODULE ListingProofs ----------------------------
(***************************************************************************)
(* Why a list is right item by item, however its pages are cut and         *)
(* whatever is written in between: the pages lie below the key the next    *)
(* one starts after, one page never overlaps another, and everything up to *)
(* that key was read once.                                                 *)
(***************************************************************************)
EXTENDS ListingProps, DataLemmas

USE ListingAssumption, LagAssumption

Page == UNION {[is -> Values] : is \in SUBSET Ids}

\* The pages of one campaign's prefix, and the values they may hold.
Typed ==
  /\ table   \in [Key -> Values \cup {None}]
  /\ replica \in [Key -> Values \cup {None}]
  /\ kind \in Kinds \cup {None}
  /\ phase \in {"idle", "query", "done", "failed"}
  /\ start \in Scope \cup {0}
  /\ pages \in Seq(Page)
  /\ \A n \in DOMAIN pages : DOMAIN pages[n] \subseteq Scope
  /\ seen \in [Ids -> SUBSET (Values \cup {None})]

\* Before the first page nothing is read.
Fresh == phase \in {"idle", "failed"} => start = 0 /\ pages = << >>

\* What could be read now could be read since the listing began.
SeenNow ==
  phase = "query" => \A i \in Scope : GetItem(<<Camp, i>>) \subseteq seen[i]

\* What is read so far: below the next page's start, each item once, as it
\* could be read, and nothing left out that could not be read as absent.
ReadSoFar ==
  /\ phase = "query" => \A n \in DOMAIN pages : \A i \in DOMAIN pages[n] : i <= start
  /\ ListedOnce
  /\ \A n \in DOMAIN pages : \A i \in DOMAIN pages[n] : pages[n][i] \in seen[i]
  /\ \A i \in Scope :
       \/ \E n \in DOMAIN pages : i \in DOMAIN pages[n]
       \/ None \in seen[i]
       \/ phase # "done" /\ (phase = "query" => start < i)

Read == Typed /\ Fresh /\ SeenNow /\ ReadSoFar

-----------------------------------------------------------------------------
(* One page.                                                               *)

\* The keys of a prefix are numbers, and so is the last one read.
LEMMA KeysAreNumbers ==
  ASSUME Typed
  PROVE  Scope \subseteq Nat /\ start \in Nat /\ Rest \subseteq Scope
<1>1. Scope \subseteq Nat /\ Rest \subseteq Scope
  BY DEF Scope, Rest
<1>2. start \in Scope \cup {0}
  BY DEF Typed
<1> QED
  BY <1>1, <1>2

\* A page holds of each item it was asked for what a read of it may see.
LEMMA PageRead ==
  ASSUME Read, NEW ids \in SUBSET Scope, NEW page \in PagesOf(ids)
  PROVE  /\ page \in Page
         /\ DOMAIN page \subseteq ids
         /\ \A i \in DOMAIN page : page[i] \in GetItem(<<Camp, i>>)
         /\ \A i \in ids : i \in DOMAIN page \/ None \in GetItem(<<Camp, i>>)
<1>1. PICK r \in [ids -> Values \cup {None}] :
        /\ \A i \in ids : r[i] \in GetItem(<<Camp, i>>)
        /\ page = [i \in {j \in ids : r[j] # None} |-> r[i]]
  BY DEF PagesOf
<1>2. page \in [{j \in ids : r[j] # None} -> Values]
  BY <1>1
<1>3. {j \in ids : r[j] # None} \in SUBSET Ids
  BY DEF Scope
<1>4. page \in Page
  BY <1>2, <1>3 DEF Page
<1> QED
  BY <1>1, <1>4

\* One more page.
LEMMA OneMore ==
  ASSUME NEW ps \in Seq(Page), NEW page \in Page
  PROVE  /\ Append(ps, page) \in Seq(Page)
         /\ DOMAIN Append(ps, page) = DOMAIN ps \cup {Len(ps) + 1}
         /\ Len(ps) + 1 \notin DOMAIN ps
         /\ \A n \in DOMAIN ps : Append(ps, page)[n] = ps[n]
         /\ Append(ps, page)[Len(ps) + 1] = page
<1>1. /\ Len(ps) \in Nat
      /\ DOMAIN ps = 1 .. Len(ps)
  BY LenProperties
<1>2. Append(ps, page) \in Seq(Page) /\ Len(Append(ps, page)) = Len(ps) + 1
  BY AppendProperties
<1>3. DOMAIN Append(ps, page) = 1 .. Len(ps) + 1
  BY <1>2, LenProperties
<1>4. DOMAIN Append(ps, page) = DOMAIN ps \cup {Len(ps) + 1}
  BY <1>1, <1>3
<1>5. Len(ps) + 1 \notin DOMAIN ps
  BY <1>1
<1>6. /\ \A n \in DOMAIN ps : Append(ps, page)[n] = ps[n]
      /\ Append(ps, page)[Len(ps) + 1] = page
  BY <1>1, AppendProperties
<1> QED
  BY <1>2, <1>4, <1>5, <1>6

\* A page that holds what was left to read up to some key is added: no item is
\* listed twice, and none up to that key is left out.
LEMMA PageAdded ==
  ASSUME Read, phase = "query",
         NEW ids \in SUBSET Rest, NEW page \in PagesOf(ids),
         pages' = Append(pages, page), UNCHANGED <<tableVars, kind, seen>>
  PROVE  /\ pages' \in Seq(Page)
         /\ \A n \in DOMAIN pages' : DOMAIN pages'[n] \subseteq Scope
         /\ \A n \in DOMAIN pages' : \A i \in DOMAIN pages'[n] : i <= start \/ i \in ids
         /\ ListedOnce'
         /\ \A n \in DOMAIN pages' : \A i \in DOMAIN pages'[n] : pages'[n][i] \in seen[i]
         /\ \A i \in Scope : i <= start \/ i \in ids =>
              \/ \E n \in DOMAIN pages' : i \in DOMAIN pages'[n]
              \/ None \in seen[i]
<1> DEFINE last == Len(pages) + 1
<1>1. /\ pages \in Seq(Page)
      /\ \A n \in DOMAIN pages : DOMAIN pages[n] \subseteq Scope
      /\ ids \in SUBSET Scope
      /\ Scope \subseteq Nat /\ start \in Nat
  BY KeysAreNumbers DEF Read, Typed
<1>2. /\ page \in Page
      /\ DOMAIN page \subseteq ids
      /\ \A i \in DOMAIN page : page[i] \in GetItem(<<Camp, i>>)
      /\ \A i \in ids : i \in DOMAIN page \/ None \in GetItem(<<Camp, i>>)
  BY <1>1, PageRead
<1>3. /\ pages' \in Seq(Page)
      /\ DOMAIN pages' = DOMAIN pages \cup {last}
      /\ last \notin DOMAIN pages
      /\ \A n \in DOMAIN pages : pages'[n] = pages[n]
      /\ pages'[last] = page
  BY <1>1, <1>2, OneMore
<1>4. \A i \in ids : start < i /\ GetItem(<<Camp, i>>) \subseteq seen[i]
  BY <1>1 DEF Rest, Read, SeenNow
<1>5. \A n \in DOMAIN pages : \A i \in DOMAIN pages[n] : i <= start /\ i \in Nat
  BY <1>1 DEF Read, ReadSoFar
<1>6. ListedOnce'
  <2>1. ASSUME NEW n \in DOMAIN pages, NEW i \in DOMAIN pages[n] PROVE i \notin DOMAIN page
    <3>1. i <= start /\ i \in Nat /\ start \in Nat
      BY <1>1, <1>5
    <3>2. i \in ids => start < i
      BY <1>4
    <3> QED
      BY <1>2, <3>1, <3>2
  <2>2. ListedOnce
    BY DEF Read, ReadSoFar
  <2> QED
    BY <1>3, <2>1, <2>2 DEF ListedOnce
<1>7. \A n \in DOMAIN pages' : \A i \in DOMAIN pages'[n] : pages'[n][i] \in seen[i]
  <2>1. \A n \in DOMAIN pages : \A i \in DOMAIN pages[n] : pages[n][i] \in seen[i]
    BY DEF Read, ReadSoFar
  <2> QED
    BY <1>2, <1>3, <1>4, <2>1
<1>8. \A i \in Scope : i <= start \/ i \in ids =>
        \/ \E n \in DOMAIN pages' : i \in DOMAIN pages'[n]
        \/ None \in seen[i]
  <2>1. ASSUME NEW i \in Scope, i <= start
        PROVE  \/ \E n \in DOMAIN pages : i \in DOMAIN pages[n]
               \/ None \in seen[i]
    BY <1>1, <2>1 DEF Read, ReadSoFar
  <2>2. ASSUME NEW i \in ids
        PROVE  i \in DOMAIN page \/ None \in seen[i]
    BY <1>2, <1>4
  <2> QED
    BY <1>3, <2>1, <2>2
<1> QED
  BY <1>1, <1>2, <1>3, <1>5, <1>6, <1>7, <1>8

-----------------------------------------------------------------------------
(* The invariant holds of every reachable state.                           *)

LEMMA InitRead == Init => Read
  BY DEF Init, TableInit, Read, Typed, Fresh, SeenNow, ReadSoFar, ListedOnce, Page, Scope

LEMMA FailKeepsRead == ASSUME Read, phase = "query", Fail PROVE Read'
  BY DEF Fail, Read, Typed, Fresh, SeenNow, ReadSoFar, ListedOnce, Scope, tableVars

LEMMA QueryKeepsRead == ASSUME Read, Query PROVE Read'
<1>1. phase = "query"
  BY DEF Query, QueryFails, QueryEnd, QueryMore
<1>2. CASE Fail
  BY <1>1, <1>2, FailKeepsRead
<1>3. ASSUME NEW last \in Rest, NEW page \in PagesOf({i \in Rest : i <= last}),
             pages' = Append(pages, page), start' = last,
             UNCHANGED <<tableVars, kind, phase, answer, seen>>
      PROVE  Read'
  <2> DEFINE ids == {i \in Rest : i <= last}
  <2>1. ids \in SUBSET Rest
    OBVIOUS
  <2>2. /\ pages' \in Seq(Page)
        /\ \A n \in DOMAIN pages' : DOMAIN pages'[n] \subseteq Scope
        /\ \A n \in DOMAIN pages' : \A i \in DOMAIN pages'[n] : i <= start \/ i \in ids
        /\ ListedOnce'
        /\ \A n \in DOMAIN pages' : \A i \in DOMAIN pages'[n] : pages'[n][i] \in seen[i]
        /\ \A i \in Scope : i <= start \/ i \in ids =>
             \/ \E n \in DOMAIN pages' : i \in DOMAIN pages'[n]
             \/ None \in seen[i]
    BY <1>1, <1>3, <2>1, PageAdded
  <2>3. /\ last \in Scope /\ start < last /\ start \in Nat /\ Scope \subseteq Nat
        /\ Scope' = Scope
    BY <1>3, KeysAreNumbers DEF Rest, Scope, Read
  <2>4. Typed'
    BY <1>3, <2>2, <2>3 DEF Read, Typed, tableVars
  <2>5. Fresh' /\ SeenNow'
    BY <1>1, <1>3, <2>3 DEF Read, Fresh, SeenNow, GetItem, tableVars
  <2>6. ASSUME NEW n \in DOMAIN pages', NEW i \in DOMAIN pages'[n] PROVE i <= last
    <3>1. i \in Nat /\ last \in Nat
      BY <2>2, <2>3
    <3>2. i <= start \/ i <= last
      BY <2>2
    <3> QED
      BY <2>3, <3>1, <3>2
  <2>7. ASSUME NEW i \in Scope, ~(last < i) PROVE i <= start \/ i \in ids
    BY <2>3, <2>7 DEF Rest
  <2>8. ReadSoFar'
    <3>1. phase' = "query" /\ start' = last /\ seen' = seen
      BY <1>1, <1>3
    <3> QED
      BY <2>2, <2>3, <2>6, <2>7, <3>1 DEF ReadSoFar
  <2> QED
    BY <2>4, <2>5, <2>8 DEF Read
<1>4. ASSUME NEW page \in PagesOf(Rest), pages' = Append(pages, page), phase' = "done",
             UNCHANGED <<tableVars, kind, start, seen>>
      PROVE  Read'
  <2>1. /\ pages' \in Seq(Page)
        /\ \A n \in DOMAIN pages' : DOMAIN pages'[n] \subseteq Scope
        /\ ListedOnce'
        /\ \A n \in DOMAIN pages' : \A i \in DOMAIN pages'[n] : pages'[n][i] \in seen[i]
        /\ \A i \in Scope : i <= start \/ i \in Rest =>
             \/ \E n \in DOMAIN pages' : i \in DOMAIN pages'[n]
             \/ None \in seen[i]
    BY <1>1, <1>4, PageAdded
  <2>2. start \in Nat /\ Scope \subseteq Nat /\ Scope' = Scope
    BY <1>4, KeysAreNumbers DEF Scope, Read
  <2>3. \A i \in Scope : i <= start \/ i \in Rest
    BY <2>2 DEF Rest
  <2> QED
    BY <1>4, <2>1, <2>2, <2>3 DEF Read, Typed, Fresh, SeenNow, ReadSoFar, tableVars
<1> QED
  BY <1>2, <1>3, <1>4 DEF Query, QueryFails, QueryEnd, QueryMore

LEMMA BeginKeepsRead == ASSUME Read, Begin PROVE Read'
<1>1. /\ pages = << >> /\ start = 0 /\ kind' \in Kinds
      /\ UNCHANGED <<table, replica, pages, start>>
  BY DEF Read, Fresh, Begin, tableVars
<1>2. \A i \in Scope' : i \in Ids /\ i \in Nat /\ i > 0 /\ <<Camp, i>> \in Key
  BY DEF Scope, Key
<1>3. \A i \in Ids : GetItem(<<Camp, i>>) \subseteq Values \cup {None}
  BY DEF Read, Typed, GetItem, Key
<1>4. Typed'
  BY <1>1, <1>2, <1>3 DEF Begin, Read, Typed
<1>5. SeenNow'
  BY <1>1, <1>2 DEF Begin, SeenNow, GetItem
<1> QED
  BY <1>1, <1>2, <1>4, <1>5 DEF Begin, Read, Fresh, ReadSoFar, ListedOnce

LEMMA AnsweredKeepsRead == ASSUME Read, Answered PROVE Read'
  BY DEF Answered, Read, Typed, Fresh, SeenNow, ReadSoFar, ListedOnce, Scope, tableVars

\* What others write, and what the replica catches up on, joins what was seen.
LEMMA WatchKeepsRead ==
  ASSUME Read, Watch, UNCHANGED <<kind, phase, start, pages>>,
         table' \in [Key -> Values \cup {None}], replica' \in [Key -> Values \cup {None}]
  PROVE  Read'
<1>1. Scope' = Scope
  BY DEF Scope
<1>2. \A i \in Ids : seen[i] \subseteq seen'[i]
  BY DEF Watch, Read, Typed
<1>3. \A i \in Ids : GetItem(<<Camp, i>>)' \subseteq Values \cup {None}
  BY DEF GetItem, Key
<1>4. Typed'
  BY <1>1, <1>3 DEF Watch, Read, Typed
<1>5. SeenNow'
  BY <1>1 DEF Watch, SeenNow, Scope
<1>6. ReadSoFar'
  BY <1>1, <1>2 DEF Read, Typed, ReadSoFar, ListedOnce, Scope
<1> QED
  BY <1>4, <1>5, <1>6 DEF Read, Fresh

LEMMA NextRead == ASSUME Read, [Next]_vars PROVE Read'
<1>1. ASSUME NEW k \in Key, Write(k) PROVE Read'
  <2>1. k[2] \in Ids /\ KindOf[k[2]] \in Kinds
    BY DEF Key
  <2>2. ValuesOf[KindOf[k[2]]] \subseteq Values
    BY <2>1 DEF Values
  <2>3. table' \in [Key -> Values \cup {None}]
    BY <1>1, <2>2 DEF Write, PutItem, DeleteItem, Read, Typed
  <2> QED
    BY <1>1, <2>3, WatchKeepsRead DEF Write, Read, Typed
<1>2. ASSUME NEW k \in Key, ReplicaCatchesUp(k) PROVE Read'
  BY <1>2, WatchKeepsRead DEF ReplicaCatchesUp, Replicate, Read, Typed
<1>3. CASE UNCHANGED vars
  BY <1>3 DEF vars, tableVars, listVars, Read, Typed, Fresh, SeenNow, ReadSoFar,
              ListedOnce, Scope, GetItem
<1> QED
  BY <1>1, <1>2, <1>3, QueryKeepsRead, BeginKeepsRead, AnsweredKeepsRead DEF Next

THEOREM AlwaysRead == Spec => []Read
  BY InitRead, NextRead, PTL DEF Spec

-----------------------------------------------------------------------------
(* What follows.                                                           *)

\* Every variable of the lists always holds values of its kind.
THEOREM ListTypeCorrect == Spec => []ListTypeOK
<1>1. Read => ListTypeOK
  <2>1. ASSUME Read, NEW n \in DOMAIN pages PROVE pages[n] \in Page
    BY <2>1, ElementOfSeq, LenProperties DEF Read, Typed
  <2>2. ASSUME NEW page \in Page, NEW i \in DOMAIN page PROVE page[i] \in Values
    <3>1. PICK is \in SUBSET Ids : page \in [is -> Values]
      BY DEF Page
    <3> QED
      BY <3>1
  <2> QED
    BY <2>1, <2>2 DEF Read, Typed, ListTypeOK
<1> QED
  BY <1>1, AlwaysRead, PTL

\* No item is listed twice, for any number of pages, items and writers.
THEOREM NothingTwice == Spec => []ListedOnce
<1>1. Read => ListedOnce
  BY DEF Read, ReadSoFar
<1> QED
  BY <1>1, AlwaysRead, PTL

\* A list is right item by item, and nothing is lost at a page's edge.
THEOREM ListingRegular == Spec => []RegularListing
<1>1. ASSUME Read, phase = "done", NEW i \in Scope
      PROVE  IF Listed(i) = {} THEN None \in seen[i] ELSE Listed(i) \subseteq seen[i]
  <2>1. \A n \in DOMAIN pages : i \in DOMAIN pages[n] => pages[n][i] \in seen[i]
    BY <1>1 DEF Read, ReadSoFar
  <2>2. (\E n \in DOMAIN pages : i \in DOMAIN pages[n]) \/ None \in seen[i]
    BY <1>1 DEF Read, ReadSoFar
  <2> QED
    BY <2>1, <2>2 DEF Listed
<1>2. Read => RegularListing
  BY <1>1 DEF RegularListing
<1> QED
  BY <1>2, AlwaysRead, PTL

-----------------------------------------------------------------------------
(* The order of the answer.                                                *)

\* A list that is read has a kind, its pages follow each other in sort-key
\* order, and once it is done the answer is the sorted entries of its pages.
Ordered ==
  /\ phase \in {"query", "done"} => kind \in Kinds
  /\ \A m, n \in DOMAIN pages : m < n =>
       \A i \in DOMAIN pages[m], j \in DOMAIN pages[n] : i < j
  /\ phase = "done" => answer = Result(pages)

LEMMA InitOrdered == Init => Ordered
  BY DEF Init, Ordered

\* The new page holds keys beyond those of the pages before it.
LEMMA PageFollows ==
  ASSUME Read, Ordered, phase = "query",
         NEW ids \in SUBSET Rest, NEW page \in PagesOf(ids), pages' = Append(pages, page)
  PROVE  \A m, n \in DOMAIN pages' : m < n =>
           \A i \in DOMAIN pages'[m], j \in DOMAIN pages'[n] : i < j
<1> DEFINE last == Len(pages) + 1
<1>1. pages \in Seq(Page) /\ ids \in SUBSET Scope /\ Scope \subseteq Nat /\ start \in Nat
      /\ \A n \in DOMAIN pages : DOMAIN pages[n] \subseteq Scope
  BY KeysAreNumbers DEF Read, Typed
<1>2. page \in Page /\ DOMAIN page \subseteq ids
  BY <1>1, PageRead
<1>3. /\ DOMAIN pages' = DOMAIN pages \cup {last}
      /\ last \notin DOMAIN pages
      /\ \A n \in DOMAIN pages : pages'[n] = pages[n]
      /\ pages'[last] = page
  BY <1>1, <1>2, OneMore
<1>4. \A j \in DOMAIN page : start < j /\ j \in Nat
  BY <1>1, <1>2 DEF Rest
<1>5. \A n \in DOMAIN pages : \A i \in DOMAIN pages[n] : i <= start /\ i \in Nat
  BY <1>1 DEF Read, ReadSoFar
<1>6. DOMAIN pages = 1 .. Len(pages) /\ Len(pages) \in Nat
  BY <1>1, LenProperties
<1>7. SUFFICES ASSUME NEW m \in DOMAIN pages', NEW n \in DOMAIN pages', m < n,
                      NEW i \in DOMAIN pages'[m], NEW j \in DOMAIN pages'[n]
               PROVE  i < j
  OBVIOUS
<1>8. m \in DOMAIN pages
  BY <1>3, <1>6, <1>7
<1>9. CASE n \in DOMAIN pages
  BY <1>3, <1>7, <1>8, <1>9 DEF Ordered
<1>10. CASE n = last
  <2>1. i <= start /\ i \in Nat /\ start < j /\ j \in Nat
    BY <1>3, <1>4, <1>5, <1>8, <1>10
  <2> QED
    BY <1>1, <2>1
<1> QED
  BY <1>3, <1>9, <1>10

LEMMA NextOrdered == ASSUME Read, Ordered, [Next]_vars PROVE Ordered'
<1>1. CASE Query
  <2>1. phase = "query"
    BY <1>1 DEF Query, QueryFails, QueryEnd, QueryMore
  <2>2. CASE Fail
    BY <2>2 DEF Fail, Ordered
  <2>3. ASSUME NEW last \in Rest, NEW page \in PagesOf({i \in Rest : i <= last}),
               pages' = Append(pages, page), UNCHANGED <<kind, phase, answer>>
        PROVE  Ordered'
    <3>1. {i \in Rest : i <= last} \in SUBSET Rest
      OBVIOUS
    <3> QED
      BY <2>1, <2>3, <3>1, PageFollows DEF Ordered
  <2>4. ASSUME NEW page \in PagesOf(Rest), pages' = Append(pages, page),
               answer' = Result(pages'), phase' = "done", UNCHANGED kind
        PROVE  Ordered'
    <3>1. Rest \in SUBSET Rest
      OBVIOUS
    <3>2. \A m, n \in DOMAIN pages' : m < n =>
            \A i \in DOMAIN pages'[m], j \in DOMAIN pages'[n] : i < j
      BY <2>1, <2>4, <3>1, PageFollows
    <3>3. answer' = Result(pages)'
      BY <2>4 DEF Result, Comes
    <3> QED
      BY <2>1, <2>4, <3>2, <3>3 DEF Ordered
  <2> QED
    BY <1>1, <2>2, <2>3, <2>4 DEF Query, QueryFails, QueryEnd, QueryMore
<1>2. CASE Begin
  BY <1>2 DEF Begin, Ordered
<1>3. CASE Answered
  BY <1>3 DEF Answered, Ordered
<1>4. CASE UNCHANGED <<kind, phase, pages, answer>>
  BY <1>4 DEF Ordered, Result, Comes
<1> QED
  BY <1>1, <1>2, <1>3, <1>4
     DEF Next, Write, ReplicaCatchesUp, vars, listVars

\* What an entry is.
LEMMA EntriesAre ==
  ASSUME Typed
  PROVE  /\ IsFiniteSet(Entries(pages))
         /\ \A e \in Entries(pages) :
              /\ e = <<e[1], e[2]>>
              /\ e[1] \in DOMAIN pages /\ e[1] \in Nat
              /\ e[2] \in DOMAIN pages[e[1]] /\ e[2] \in Nat
              /\ ValueAt(pages, e) \in Values
<1>1. /\ pages \in Seq(Page) /\ Len(pages) \in Nat /\ DOMAIN pages = 1 .. Len(pages)
      /\ \A n \in DOMAIN pages : DOMAIN pages[n] \subseteq Scope /\ pages[n] \in Page
      /\ Scope \subseteq Ids /\ Ids \subseteq Nat
  BY LenProperties, ElementOfSeq DEF Typed, Scope
<1>2. ASSUME NEW e \in Entries(pages)
      PROVE  /\ e = <<e[1], e[2]>>
             /\ e[1] \in DOMAIN pages
             /\ e[2] \in DOMAIN pages[e[1]]
  <2>1. PICK n \in DOMAIN pages : e \in {n} \X DOMAIN pages[n]
    BY DEF Entries
  <2> QED
    BY <2>1
<1>3. ASSUME NEW n \in DOMAIN pages, NEW i \in DOMAIN pages[n]
      PROVE  pages[n][i] \in Values
  <2>1. PICK is \in SUBSET Ids : pages[n] \in [is -> Values]
    BY <1>1 DEF Page
  <2> QED
    BY <2>1
<1>4. IsFiniteSet(Entries(pages))
  <2>1. Entries(pages) \in SUBSET ((DOMAIN pages) \X Ids)
    <3>1. ASSUME NEW e \in Entries(pages) PROVE e \in (DOMAIN pages) \X Ids
      <4> DEFINE n == e[1]
                 i == e[2]
      <4>1. e = <<n, i>> /\ n \in DOMAIN pages /\ i \in DOMAIN pages[n]
        BY <1>2
      <4> HIDE DEF n, i
      <4>2. i \in Ids
        BY <1>1, <4>1
      <4> QED
        BY <4>1, <4>2
    <3> QED
      BY <3>1
  <2>2. IsFiniteSet(DOMAIN pages) /\ IsFiniteSet(Ids)
    BY <1>1, FS_Interval
  <2> DEFINE places == DOMAIN pages
  <2>3. IsFiniteSet((DOMAIN pages) \X Ids)
    <3>1. IsFiniteSet(places)
      BY <2>2
    <3> HIDE DEF places
    <3>2. IsFiniteSet(places \X Ids)
      BY <2>2, <3>1, FS_Product
    <3> QED
      BY <3>2 DEF places
  <2> QED
    BY <2>1, <2>3, FS_Subset
<1>5. ASSUME NEW e \in Entries(pages)
      PROVE  e[1] \in Nat /\ e[2] \in Nat /\ ValueAt(pages, e) \in Values
  <2>1. e[1] \in DOMAIN pages /\ e[2] \in DOMAIN pages[e[1]]
    BY <1>2
  <2>2. pages[e[1]][e[2]] \in Values
    BY <1>3, <2>1
  <2>3. e[1] \in Nat /\ e[2] \in Nat
    <3> DEFINE n == e[1]
               i == e[2]
    <3>1. n \in DOMAIN pages /\ i \in DOMAIN pages[n]
      BY <2>1
    <3> HIDE DEF n, i
    <3>2. n \in Nat
      BY <1>1, <3>1
    <3>3. i \in Scope
      BY <1>1, <3>1
    <3>4. i \in Nat
      BY <1>1, <3>3
    <3> QED
      BY <3>2, <3>4 DEF n, i
  <2> QED
    BY <2>2, <2>3 DEF ValueAt
<1> QED
  BY <1>2, <1>4, <1>5

\* Comes orders the entries: Order, then Name, then the place in the pages.
LEMMA ComesIsAnOrder ==
  ASSUME Typed, NEW e \in Entries(pages), NEW f \in Entries(pages), NEW g \in Entries(pages)
  PROVE  /\ ~Comes(pages, e, e)
         /\ Comes(pages, e, f) /\ Comes(pages, f, g) => Comes(pages, e, g)
         /\ e # f => Comes(pages, e, f) \/ Comes(pages, f, e)
<1> DEFINE v(x) == ValueAt(pages, x)
           o(x) == OrderOf[v(x)]
           s(x) == NameOf[v(x)]
<1>1. /\ e = <<e[1], e[2]>> /\ e[1] \in Nat /\ e[2] \in Nat
      /\ f = <<f[1], f[2]>> /\ f[1] \in Nat /\ f[2] \in Nat
      /\ g[1] \in Nat /\ g[2] \in Nat
      /\ o(e) \in Nat /\ s(e) \in Nat /\ o(f) \in Nat /\ s(f) \in Nat
      /\ o(g) \in Nat /\ s(g) \in Nat
  BY EntriesAre
<1>2. \A x, y \in Entries(pages) :
        Comes(pages, x, y) <=>
          IF kind = "chapter" /\ (o(x) # o(y) \/ s(x) # s(y))
          THEN o(x) < o(y) \/ (o(x) = o(y) /\ s(x) < s(y))
          ELSE x[1] < y[1] \/ (x[1] = y[1] /\ x[2] < y[2])
  <2>1. ASSUME NEW x \in Entries(pages), NEW y \in Entries(pages)
        PROVE  Less(v(x), v(y)) <=> o(x) < o(y) \/ (o(x) = o(y) /\ s(x) < s(y))
    <3>1. v(x) \in Values /\ v(y) \in Values
      BY EntriesAre
    <3>2. o(x) \in Nat /\ o(y) \in Nat
      BY <3>1
    <3> HIDE DEF v
    <3> QED
      BY <3>2 DEF Less
  <2>2. ASSUME NEW x \in Entries(pages), NEW y \in Entries(pages)
        PROVE  Less(v(x), v(y)) \/ Less(v(y), v(x)) <=> o(x) # o(y) \/ s(x) # s(y)
    <3>1. o(x) \in Nat /\ o(y) \in Nat /\ s(x) \in Nat /\ s(y) \in Nat
      BY EntriesAre
    <3> HIDE DEF o, s, v
    <3> QED
      BY <2>1, <3>1
  <2> QED
    BY <2>1, <2>2 DEF Comes, Earlier
<1> HIDE DEF o, s, v
<1> QED
  BY <1>1, <1>2

\* A list comes in its order, whatever its pages were.
THEOREM ListingInOrder == Spec => []AnswerInOrder
<1> DEFINE E == Entries(pages)
           before == [e \in E |-> {f \in E : Comes(pages, f, e)}]
<1>1. ASSUME Read, Ordered, phase = "done"
      PROVE  /\ {answer[n] : n \in DOMAIN answer} = E
             /\ Len(answer) = Cardinality(E)
             /\ \A m, n \in DOMAIN answer : m < n => Comes(pages, answer[m], answer[n])
             /\ \A n \in DOMAIN answer : answer[n] \in E
  <2>1. answer = Ranked(before) /\ Typed
    BY <1>1 DEF Ordered, Result, Read
  <2>2. IsFiniteSet(E)
    BY <2>1, EntriesAre
  <2>3. /\ before \in [E -> SUBSET E]
        /\ \A e \in E : e \notin before[e]
        /\ \A e, f \in E : f \in before[e] => before[f] \subseteq before[e]
        /\ \A e, f \in E : e # f => e \in before[f] \/ f \in before[e]
    BY <2>1, ComesIsAnOrder
  <2>4. \A e, f \in E : f \in before[e] <=> Comes(pages, f, e)
    OBVIOUS
  <2> HIDE DEF E, before
  <2> DEFINE r == Ranked(before)
  <2>5. /\ Cardinality(E) \in Nat
        /\ answer \in [1 .. Cardinality(E) -> E]
        /\ \A n \in 1 .. Cardinality(E) : Cardinality(before[answer[n]]) = n - 1
        /\ \A e \in E : \E n \in 1 .. Cardinality(E) : answer[n] = e
    <3>1. /\ Cardinality(E) \in Nat
          /\ r \in [1 .. Cardinality(E) -> E]
          /\ \A n \in 1 .. Cardinality(E) : Cardinality(before[r[n]]) = n - 1
          /\ \A e \in E : \E n \in 1 .. Cardinality(E) : r[n] = e
      BY <2>2, <2>3, RankedIsInOrder
    <3> HIDE DEF r
    <3> QED
      BY <2>1, <3>1 DEF r
  <2> DEFINE N == Cardinality(E)
  <2>6. answer \in Seq(E) /\ DOMAIN answer = 1 .. N
    BY <2>5, SeqDef
  <2>7. Len(answer) = N
    BY <2>5, <2>6, LenProperties
  <2>8. ASSUME NEW m \in 1 .. N, NEW n \in 1 .. N, m < n
        PROVE  Comes(pages, answer[m], answer[n])
    <3> DEFINE e == answer[m]
               f == answer[n]
    <3>1. /\ e \in E /\ f \in E
          /\ Cardinality(before[e]) = m - 1 /\ Cardinality(before[f]) = n - 1
      BY <2>5
    <3> HIDE DEF e, f, N
    <3>2. m \in Int /\ n \in Int
      BY <2>5 DEF N
    <3>3. e # f
      BY <2>8, <3>1, <3>2
    <3>4. f \notin before[e]
      <4>1. SUFFICES ASSUME f \in before[e] PROVE FALSE
        OBVIOUS
      <4>2. before[f] \in SUBSET before[e] /\ before[e] \in SUBSET E
        BY <2>3, <3>1, <4>1
      <4>3. IsFiniteSet(before[e])
        BY <2>2, <4>2, FS_Subset
      <4>4. Cardinality(before[f]) <= Cardinality(before[e])
        BY <4>2, <4>3, FS_Subset
      <4> QED
        BY <2>8, <3>1, <3>2, <4>4
    <3> QED
      BY <2>3, <2>4, <3>1, <3>3, <3>4 DEF e, f
  <2> QED
    BY <2>5, <2>6, <2>7, <2>8
<1>2. ASSUME Read, Ordered, phase = "done",
             NEW e \in E, NEW f \in E, Comes(pages, e, f)
      PROVE  LET v == ValueAt(pages, e)
                 u == ValueAt(pages, f)
             IN  IF kind = "encounter" THEN e[2] < f[2]
                 ELSE \/ OrderOf[v] < OrderOf[u]
                      \/ OrderOf[v] = OrderOf[u] /\ NameOf[v] < NameOf[u]
                      \/ /\ OrderOf[v] = OrderOf[u]
                         /\ NameOf[v] = NameOf[u]
                         /\ e[2] < f[2]
  <2> DEFINE v == ValueAt(pages, e)
             u == ValueAt(pages, f)
  <2>1. /\ e[1] \in DOMAIN pages /\ e[2] \in DOMAIN pages[e[1]]
        /\ f[1] \in DOMAIN pages /\ f[2] \in DOMAIN pages[f[1]]
        /\ v \in Values /\ u \in Values
    BY <1>1, <1>2, EntriesAre DEF Read
  <2>2. Earlier(e, f) => e[2] < f[2]
    BY <1>2, <2>1 DEF Ordered, Earlier
  <2>3. OrderOf[v] \in Nat /\ OrderOf[u] \in Nat /\ NameOf[v] \in Nat /\ NameOf[u] \in Nat
    BY <2>1
  <2>4. kind = "encounter" \/ kind = "chapter"
    BY <1>2 DEF Ordered, Kinds
  <2>5. CASE kind = "encounter"
    BY <1>2, <2>2, <2>5 DEF Comes
  <2>6. CASE kind = "chapter"
    <3>1. IF Less(v, u) \/ Less(u, v) THEN Less(v, u) ELSE Earlier(e, f)
      BY <1>2, <2>6 DEF Comes
    <3> HIDE DEF v, u
    <3>2. \/ OrderOf[v] < OrderOf[u]
          \/ OrderOf[v] = OrderOf[u] /\ NameOf[v] < NameOf[u]
          \/ OrderOf[v] = OrderOf[u] /\ NameOf[v] = NameOf[u] /\ Earlier(e, f)
      BY <2>3, <3>1 DEF Less
    <3> QED
      BY <2>2, <2>6, <3>2 DEF v, u
  <2> QED
    BY <2>4, <2>5, <2>6
<1>3. Read /\ Ordered => AnswerInOrder
  <2> SUFFICES ASSUME Read, Ordered, phase = "done"
               PROVE  /\ {answer[n] : n \in DOMAIN answer} = E
                      /\ Len(answer) = Cardinality(E)
                      /\ \A m, n \in DOMAIN answer : m < n =>
                           LET v == ValueAt(pages, answer[m])
                               u == ValueAt(pages, answer[n])
                           IN  IF kind = "encounter" THEN answer[m][2] < answer[n][2]
                               ELSE \/ OrderOf[v] < OrderOf[u]
                                    \/ OrderOf[v] = OrderOf[u] /\ NameOf[v] < NameOf[u]
                                    \/ /\ OrderOf[v] = OrderOf[u]
                                       /\ NameOf[v] = NameOf[u]
                                       /\ answer[m][2] < answer[n][2]
    BY DEF AnswerInOrder
  <2>1. /\ {answer[n] : n \in DOMAIN answer} = E /\ Len(answer) = Cardinality(E)
        /\ \A m, n \in DOMAIN answer : m < n => Comes(pages, answer[m], answer[n])
        /\ \A n \in DOMAIN answer : answer[n] \in E
    BY <1>1
  <2> HIDE DEF E
  <2> QED
    BY <1>2, <2>1
<1>4. Spec => []Ordered
  BY InitOrdered, NextOrdered, AlwaysRead, PTL DEF Spec
<1> QED
  BY <1>3, <1>4, AlwaysRead, PTL
=============================================================================
