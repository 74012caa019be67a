--------------------------- MODULE ListingsProofs ---------------------------
(***************************************************************************)
(* Walks through the listings, for any rows, page size, clock resolution   *)
(* and delay of commits.                                                   *)
(***************************************************************************)
EXTENDS Listings, FiniteSetTheorems, TLAPS

Row == [at : Nat, group : Nat]

\* What the constants have to be.
Parameters ==
    /\ Limit \in Nat \ {0} /\ PerMs \in Nat \ {0} /\ Ranks \subseteq Nat
    /\ Lag \in Nat /\ MaxTime \in Nat
    /\ Absent \notin Nat /\ Absent \notin Row

\* Times a millisecond ends before, or in.
LEMMA MsTime ==
  ASSUME Parameters, NEW a \in Nat, NEW b \in Nat, a <= b
  PROVE  Ms(b) \in Nat /\ Ms(b) <= b /\ (Ms(a) # Ms(b) => a < Ms(b))
<1> DEFINE p == PerMs
<1>1. p \in Nat /\ p > 0
  BY DEF Parameters
<1>2. b % p \in 0..(p - 1) /\ b = p * (b \div p) + (b % p) /\ b \div p \in Int
  BY <1>1
<1>3. a % p \in 0..(p - 1) /\ a = p * (a \div p) + (a % p) /\ a \div p \in Int
  BY <1>1
<1> DEFINE j == a \div p
           k == b \div p
           r == a % p
           s == b % p
<1> HIDE DEF p, j, k, r, s
<1>4. /\ Ms(a) = p * j /\ Ms(b) = p * k
  BY <1>1, <1>2, <1>3 DEF Ms, p, j, k, r, s
<1>5. Ms(b) = b - s /\ s \in Nat /\ s <= b
  BY <1>1, <1>2, <1>3 DEF Ms, p, s
<1>6. ASSUME p * k <= a PROVE j = k
  <2>1. a = p * j + r /\ r \in 0..(p - 1) /\ j \in Int
    BY <1>3 DEF p, j, r
  <2>2. b = p * k + s /\ s \in 0..(p - 1) /\ k \in Int
    BY <1>2 DEF p, k, s
  <2>3. ~(j > k)
    BY <1>1, <2>1, <2>2, SMTT(30)
  <2>4. ~(j < k)
    BY <1>1, <1>6, <2>1, <2>2, SMTT(30)
  <2> QED
    BY <2>1, <2>2, <2>3, <2>4
<1> QED
  BY <1>1, <1>4, <1>5, <1>6

Types ==
    /\ listing \in {"watchlist", "inbox", "logs"} /\ now \in Nat
    /\ rows \in [Ids -> Row \cup {Absent}]
    /\ cursor \in Nat \cup {Absent}
    /\ walk \in {"start", "on", "done"}
    /\ steady \in SUBSET Ids /\ onPages \in SUBSET Ids
    /\ twice \in SUBSET Ids /\ ends \in SUBSET Row /\ mixed \in BOOLEAN
    /\ listing = "logs" => \A i \in Ids : rows[i] # Absent => rows[i].group = 0
    /\ walk = "start" => cursor = Absent /\ onPages = {}
    /\ walk = "on" => cursor # Absent

\* On pages of one group, what was onPages is not older than the cursor.
ShownNewer(i) == rows[i] # Absent /\ (walk = "on" => rows[i].at >= cursor)
TwiceInv ==
    /\ mixed => listing = "watchlist"
    /\ ~mixed => twice = {} /\ \A i \in onPages : ShownNewer(i)

\* A row a cursor may pass over, and one that is still ahead of it.
Tied(i, es) ==
    \E e \in es : Ms(e.at) = Ms(rows[i].at) \/ (listing = "watchlist" /\ e.group # rows[i].group)
Ahead(i) == walk = "on" /\ InListing(i) /\ rows[i].at < cursor
SteadyInv ==
    /\ \A i \in steady : rows[i] # Absent
    /\ \A i \in steady \ onPages : Ahead(i) \/ Tied(i, ends)

Inv == Types /\ TwiceInv /\ SteadyInv

LEMMA InitInv == ASSUME Parameters, ListsInit PROVE Inv
BY DEF Parameters, ListsInit, Inv, Types, TwiceInv, SteadyInv

LEMMA InsertKeeps ==
  ASSUME Parameters, Inv, NEW i \in Ids, Insert(i), walk # "done"
  PROVE  Inv'
<1>1. PICK at \in 0..now :
        rows' = [rows EXCEPT ![i] = [at |-> at, group |-> IF listing = "watchlist" THEN 1 ELSE 0]]
  BY DEF Insert
<1>2. /\ rows[i] = Absent /\ listing' = listing /\ now' = now /\ cursor' = cursor /\ walk' = walk
      /\ steady' = steady /\ onPages' = onPages /\ twice' = twice /\ ends' = ends /\ mixed' = mixed
  BY DEF Insert, walkHistory
<1> DEFINE new == [at |-> at, group |-> IF listing = "watchlist" THEN 1 ELSE 0]
<1>3. new \in Row /\ new # Absent
  BY DEF Inv, Types, Row, Parameters
<1>4. \A x \in Ids : rows'[x] = IF x = i THEN new ELSE rows[x]
  BY <1>1 DEF Inv, Types
<1>5. Types'
  <2>1. rows' \in [Ids -> Row \cup {Absent}]
    BY <1>1, <1>3 DEF Inv, Types
  <2>2. listing = "logs" => \A x \in Ids : rows'[x] # Absent => rows'[x].group = 0
    BY <1>4 DEF Inv, Types
  <2> QED
    BY <1>2, <2>1, <2>2 DEF Inv, Types
<1>6. \A x \in Ids : rows[x] # Absent => rows'[x] = rows[x]
  BY <1>2, <1>4
<1>7. TwiceInv'
  BY <1>2, <1>6 DEF Inv, Types, TwiceInv, ShownNewer
<1>8. SteadyInv'
  <2>1. \A x \in steady : rows'[x] # Absent /\ rows'[x] = rows[x]
    BY <1>6 DEF Inv, Types, SteadyInv
  <2> QED
    BY <1>2, <2>1 DEF Inv, SteadyInv, Ahead, InListing, Tied
<1> QED
  BY <1>5, <1>7, <1>8 DEF Inv

LEMMA MoveKeeps == ASSUME Parameters, Inv, NEW i \in Ids, Move(i) PROVE Inv'
<1>1. PICK g \in Groups \ {rows[i].group} : rows' = [rows EXCEPT ![i].group = g]
  BY DEF Move
<1>2. /\ rows[i] # Absent /\ listing' = listing /\ now' = now /\ cursor' = cursor /\ walk' = walk
      /\ steady' = steady \ {i} /\ onPages' = onPages /\ twice' = twice /\ ends' = ends
      /\ mixed' = mixed
  BY DEF Move
<1>3. rows[i] \in Row /\ g \in Nat /\ listing # "logs"
  BY <1>1, <1>2 DEF Inv, Types, Groups, Parameters
<1>4. /\ rows'[i] = [at |-> rows[i].at, group |-> g] /\ rows'[i] \in Row
      /\ \A x \in Ids : x # i => rows'[x] = rows[x]
  BY <1>1, <1>3 DEF Inv, Types, Row
<1>5. rows'[i] # Absent /\ rows'[i].at = rows[i].at
  BY <1>4 DEF Parameters
<1>6. Types'
  <2>1. rows' \in [Ids -> Row \cup {Absent}]
    BY <1>1, <1>4 DEF Inv, Types
  <2> QED
    BY <1>2, <1>3, <2>1 DEF Inv, Types
<1>7. TwiceInv'
  BY <1>2, <1>4, <1>5 DEF Inv, Types, TwiceInv, ShownNewer
<1>8. SteadyInv'
  <2>1. \A x \in steady \ {i} : rows'[x] = rows[x]
    BY <1>4 DEF Inv, Types
  <2> QED
    BY <1>2, <2>1 DEF Inv, SteadyInv, Ahead, InListing, Tied
<1> QED
  BY <1>6, <1>7, <1>8 DEF Inv

LEMMA RemoveKeeps == ASSUME Parameters, Inv, NEW i \in Ids, RemoveRow(i) PROVE Inv'
<1>1. /\ rows' = [rows EXCEPT ![i] = Absent] /\ listing = "watchlist"
      /\ listing' = listing /\ now' = now /\ cursor' = cursor /\ walk' = walk
      /\ steady' = steady \ {i} /\ onPages' = onPages \ {i} /\ twice' = twice \ {i}
      /\ ends' = ends /\ mixed' = mixed
  BY DEF RemoveRow
<1>2. \A x \in Ids : x # i => rows'[x] = rows[x]
  BY <1>1 DEF Inv, Types
<1>3. Types'
  BY <1>1 DEF Inv, Types
<1>4. TwiceInv'
  BY <1>1, <1>2 DEF Inv, Types, TwiceInv, ShownNewer
<1>5. SteadyInv'
  <2>1. \A x \in steady \ {i} : rows'[x] = rows[x]
    BY <1>2 DEF Inv, Types
  <2> QED
    BY <1>1, <2>1 DEF Inv, SteadyInv, Ahead, InListing, Tied
<1> QED
  BY <1>3, <1>4, <1>5 DEF Inv

LEMMA TickKeeps == ASSUME Parameters, Inv, ListsTick PROVE Inv'
BY DEF ListsTick, walkHistory, Inv, Types, TwiceInv, ShownNewer, SteadyInv, Ahead, InListing, Tied

LEMMA StutterKeeps == ASSUME Inv, UNCHANGED listVars PROVE Inv'
BY DEF listVars, walkHistory, Inv, Types, TwiceInv, ShownNewer, SteadyInv, Ahead, InListing, Tied
\* Rows on a page.
LEMMA PageRows ==
  ASSUME Parameters, Inv, NEW P \in Pages(Matching)
  PROVE  /\ P \subseteq Ids
         /\ \A i \in Matching : InListing(i) /\ rows[i] \in Row
         /\ listing # "watchlist" => \A i \in Matching : rows[i].group = 0
         /\ \A i \in P : i \in Matching
BY DEF Pages, Matching, InListing, Inv, Types

\* A page that asks for no other left nothing out.
LEMMA LastPage ==
  ASSUME Parameters, Inv, NEW P \in Pages(Matching), ~More(P)
  PROVE  P = Matching
<1>1. P # Matching => Cardinality(P) = Limit
  BY DEF Pages
<1>2. Cardinality({}) = 0
  BY FS_EmptySet
<1> QED
  BY <1>1, <1>2 DEF More, Parameters

\* What a page leaves out is behind its last row.
LEMMA LeftOut ==
  ASSUME Parameters, Inv, NEW P \in Pages(Matching), NEW e \in P, NEW i \in Matching \ P
  PROVE  \/ listing = "watchlist" /\ rows[e].group # rows[i].group
         \/ Ms(rows[e].at) = Ms(rows[i].at)
         \/ rows[i].at < Ms(rows[e].at)
<1>1. rows[i] \in Row /\ rows[e] \in Row
  BY PageRows
<1>2. ~Precedes(i, e)
  BY DEF Pages
<1>3. listing # "watchlist" => rows[e].group = rows[i].group
  BY PageRows
<1>4. CASE rows[e].group = rows[i].group
  <2>1. rows[i].at <= rows[e].at
    BY <1>1, <1>2, <1>4 DEF Precedes, Row
  <2> QED
    BY <1>1, <2>1, MsTime DEF Row
<1> QED
  BY <1>3, <1>4

LEMMA FetchKeeps ==
  ASSUME Parameters, Inv, FetchPage, walk # "done"
  PROVE  Inv'
<1>1. PICK P \in Pages(Matching) :
        /\ IF More(P)
           THEN \E e \in {i \in P : \A j \in P : ~Precedes(i, j)} :
                   /\ cursor' = Ms(rows[e].at)
                   /\ ends' = ends \cup {rows[e]}
                   /\ walk' = "on"
           ELSE walk' = "done" /\ UNCHANGED <<cursor, ends>>
        /\ steady' = IF walk = "start" THEN Matching ELSE steady
        /\ onPages' = onPages \cup P
        /\ twice' = twice \cup (onPages \cap P)
        /\ mixed' = (mixed \/ \E i, j \in P : rows[i].group # rows[j].group)
  BY DEF FetchPage
<1>2. /\ listing' = listing /\ now' = now /\ rows' = rows /\ P \in SUBSET Ids
      /\ Matching \in SUBSET Ids /\ rows \in [Ids -> Row \cup {Absent}]
  BY PageRows DEF FetchPage, Matching, Inv, Types
<1>3. ASSUME More(P)
      PROVE  \E e \in P : /\ \A j \in P : ~Precedes(e, j)
                          /\ cursor' = Ms(rows[e].at) /\ cursor' \in Nat /\ walk' = "on"
                          /\ ends' = ends \cup {rows[e]} /\ rows[e] \in Row
                          /\ cursor' <= rows[e].at
  <2>1. PICK e \in P : /\ \A j \in P : ~Precedes(e, j)
                       /\ cursor' = Ms(rows[e].at) /\ walk' = "on"
                       /\ ends' = ends \cup {rows[e]}
    BY <1>1, <1>3
  <2>2. rows[e] \in Row
    BY PageRows
  <2>3. Ms(rows[e].at) \in Nat /\ Ms(rows[e].at) <= rows[e].at
    BY <2>2, MsTime DEF Row
  <2> QED
    BY <2>1, <2>2, <2>3
<1>4. Types'
  <2>1. CASE More(P)
    BY <1>1, <1>2, <1>3, <2>1 DEF Inv, Types, Parameters
  <2>2. CASE ~More(P)
    BY <1>1, <1>2, <2>2 DEF Inv, Types
  <2> QED
    BY <2>1, <2>2
<1>5. TwiceInv'
  <2>1. mixed' => listing = "watchlist"
    BY <1>1, PageRows DEF Inv, TwiceInv
  <2>2. ASSUME ~mixed' PROVE twice' = {} /\ \A i \in onPages' : rows[i] # Absent
                             /\ (walk' = "on" => rows[i].at >= cursor')
    <3>1. /\ ~mixed /\ twice = {} /\ \A i \in onPages : ShownNewer(i)
          /\ \A i, j \in P : rows[i].group = rows[j].group
      BY <1>1, <2>2 DEF Inv, Types, TwiceInv
    <3>2. \A i \in P : /\ rows[i] \in Row /\ rows[i] # Absent
                       /\ cursor # Absent => rows[i].at < cursor
      BY PageRows DEF Matching, InListing
    <3>3. onPages # {} => walk = "on" /\ cursor # Absent
      BY DEF Inv, Types
    <3>4. \A i \in onPages :
            rows[i] \in Row /\ rows[i] # Absent /\ cursor \in Nat /\ rows[i].at >= cursor
      BY <3>1, <3>3 DEF Inv, Types, ShownNewer
    <3>5. onPages \cap P = {}
      <4>1. ASSUME NEW i \in onPages \cap P PROVE FALSE
        <5>1. rows[i].at \in Nat /\ cursor \in Nat /\ rows[i].at >= cursor /\ rows[i].at < cursor
          BY <3>2, <3>3, <3>4 DEF Row
        <5> QED
          BY <5>1
      <4> QED
        BY <4>1
    <3>6. ASSUME walk' = "on", NEW i \in onPages' PROVE rows[i].at >= cursor'
      <4>1. More(P)
        BY <1>1, <3>6
      <4>2. PICK e \in P : /\ \A j \in P : ~Precedes(e, j)
                           /\ cursor' \in Nat /\ cursor' <= rows[e].at
        BY <1>3, <4>1
      <4>3. rows[e].at \in Nat /\ (cursor # Absent => rows[e].at < cursor)
        BY <3>2 DEF Row
      <4>4. CASE i \in P
        <5>1. rows[i].at \in Nat /\ ~(rows[e].at > rows[i].at)
          BY <3>1, <3>2, <4>2, <4>4 DEF Precedes, Row
        <5> QED
          BY <4>2, <4>3, <5>1
      <4>5. CASE i \in onPages
        <5>1. rows[i].at \in Nat /\ cursor \in Nat /\ rows[i].at >= cursor /\ rows[e].at < cursor
          BY <3>3, <3>4, <4>3, <4>5 DEF Row
        <5> QED
          BY <4>2, <4>3, <5>1
      <4> QED
        BY <1>1, <3>6, <4>4, <4>5
    <3>7. \A i \in onPages' : rows[i] # Absent
      BY <1>1, <3>2, <3>4
    <3> QED
      BY <1>1, <3>1, <3>5, <3>6, <3>7
  <2> QED
    BY <1>2, <2>1, <2>2 DEF TwiceInv, ShownNewer
<1>6. SteadyInv'
  <2>1. \A i \in steady' : rows[i] # Absent
    BY <1>1 DEF Inv, SteadyInv, Matching, InListing
  <2>2. ASSUME NEW i \in steady' \ onPages'
        PROVE  i \in Matching \ P \/ Tied(i, ends)
    <3>1. CASE walk = "start"
      BY <1>1, <2>2, <3>1
    <3>2. CASE walk # "start"
      <4>1. i \in steady \ onPages /\ i \notin P /\ i \in Ids
        BY <1>1, <2>2, <3>2 DEF Inv, Types
      <4>2. Ahead(i) => i \in Matching
        BY <4>1 DEF Ahead, Matching
      <4> QED
        BY <4>1, <4>2 DEF Inv, SteadyInv
    <3> QED
      BY <3>1, <3>2
  <2>3. ASSUME NEW i \in steady' \ onPages'
        PROVE  \/ walk' = "on" /\ InListing(i) /\ rows[i].at < cursor'
               \/ Tied(i, ends')
    <3>1. ends \subseteq ends'
      BY <1>1, <1>3
    <3>2. CASE Tied(i, ends)
      BY <3>1, <3>2 DEF Tied
    <3>3. CASE i \in Matching \ P
      <4>1. More(P)
        BY <3>3, LastPage
      <4>2. PICK e \in P : /\ cursor' = Ms(rows[e].at) /\ walk' = "on"
                           /\ ends' = ends \cup {rows[e]}
        BY <1>3, <4>1
      <4>3. \/ listing = "watchlist" /\ rows[e].group # rows[i].group
            \/ Ms(rows[e].at) = Ms(rows[i].at)
            \/ rows[i].at < Ms(rows[e].at)
        BY <3>3, LeftOut
      <4>4. InListing(i)
        BY <3>3, PageRows
      <4> QED
        BY <4>2, <4>3, <4>4 DEF Tied
    <3> QED
      BY <2>2, <3>2, <3>3
  <2> QED
    BY <1>2, <2>1, <2>3 DEF SteadyInv, Ahead, InListing, Tied
<1> QED
  BY <1>4, <1>5, <1>6 DEF Inv

LEMMA NextKeeps == ASSUME Parameters, Inv, [ListsNext]_listVars PROVE Inv'
BY InsertKeeps, MoveKeeps, RemoveKeeps, TickKeeps, FetchKeeps, StutterKeeps DEF ListsNext

\* Whatever the rows, the page size and the delays, a walk to the end misses only rows its
\* cursors cannot tell from the end of a page, or that its order puts elsewhere
\* (repository.ts:57-76, 115-131; admin.ts:36-40).
THEOREM WalksSkipNothing == ASSUME Parameters PROVE ListsSpec => []NothingSkipped
<1>1. ListsInit => Inv
  BY InitInv
<1>2. Inv /\ [ListsNext]_listVars => Inv'
  BY NextKeeps
<1>3. Inv => NothingSkipped
  BY DEF Inv, SteadyInv, Ahead, Tied, NothingSkipped
<1> QED
  BY <1>1, <1>2, <1>3, PTL DEF ListsSpec

\* Within one status, no row is on two pages, also when rows move (repository.ts:59, 120;
\* admin.ts:36).
THEOREM WalksRepeatNothing == ASSUME Parameters PROVE ListsSpec => []NothingTwice
<1>1. ListsInit => Inv
  BY InitInv
<1>2. Inv /\ [ListsNext]_listVars => Inv'
  BY NextKeeps
<1>3. Inv => NothingTwice
  BY DEF Inv, Types, TwiceInv, NothingTwice
<1> QED
  BY <1>1, <1>2, <1>3, PTL DEF ListsSpec
=============================================================================
