--------------------------- MODULE HistoryProofs ---------------------------
(***************************************************************************)
(* Proofs about History: no message is on two pages, and none is skipped   *)
(* but for one of the same time, for any limits and numbers of messages.   *)
(***************************************************************************)
EXTENDS History, FiniteSetTheorems, WellFoundedInduction, TLAPS

\* Identifiers are given out in order and creation times are in the past.
Numbered ==
  /\ IsFiniteSet(All)
  /\ \A m \in All : m.id < Cardinality(All) /\ m.at <= MaxTime
  /\ clock <= MaxTime

TypeInv == TypeOK /\ Numbered

\* What has been read is at the cursor or later.
ReadSoFar ==
  /\ pc = "idle" => seen = {}
  /\ pc = "reading" => \A m \in seen : m.at >= cursor
  /\ ~ repeated

\* What is known is still ahead, or a message of its time has been read.
Ahead ==
  pc = "reading" =>
    \A m \in known : m.at < cursor \/ \E x \in seen : x.at = m.at

-----------------------------------------------------------------------------
\* A non-empty set of naturals has a least element.
LEMMA LeastNat ==
  ASSUME NEW T \in SUBSET Nat, T # {}
  PROVE  \E x \in T : \A y \in T : x <= y
<1>1. IsWellFoundedOn(OpToRel(<, Nat), Nat)
  BY NatLessThanWellFounded
<1>2. PICK x \in T : \A y \in T : ~ (<<y, x>> \in OpToRel(<, Nat))
  BY <1>1, WFMin
<1>3. \A y \in T : ~ (y < x)
  BY <1>2 DEF OpToRel
<1> QED
  BY <1>3

\* The cursor of a page that has messages is the oldest creation time on it.
LEMMA NextCursorIsOldest ==
  ASSUME NEW page \in SUBSET Message, page # {}, NEW rest
  PROVE  /\ NextCursor(page, rest) \in Nat
         /\ \A m \in page : NextCursor(page, rest) <= m.at
         /\ \E m \in page : NextCursor(page, rest) = m.at
<1> DEFINE T == {m.at : m \in page}
<1>1. T \in SUBSET Nat /\ T # {}
  BY DEF Message
<1>2. PICK t \in T : \A u \in T : t <= u
  BY <1>1, LeastNat
<1>3. \E t2 \in T : \A m \in page : t2 <= m.at
  BY <1>2
<1>4. NextCursor(page, rest) \in T /\ \A m \in page : NextCursor(page, rest) <= m.at
  BY <1>3 DEF NextCursor
<1> QED
  BY <1>1, <1>4

LEMMA PageSizeIsPositive ==
  ASSUME NEW n \in Int
  PROVE  PageSize(n) \in Nat \ {0}
  BY LimitAssumption DEF PageSize

\* A page that leaves something out is not empty.
LEMMA PartialPage ==
  ASSUME NEW docs, NEW n \in Nat \ {0}, NEW page, IsPage(page, docs, n),
         page # docs
  PROVE  page # {}
  BY FS_EmptySet DEF IsPage

-----------------------------------------------------------------------------
LEMMA TypeInit == Init => TypeInv
<1> SUFFICES ASSUME Init PROVE TypeInv
  OBVIOUS
<1>1. All = {} /\ IsFiniteSet(All)
  BY FS_EmptySet DEF Init, All
<1>2. Numbered
  <2>1. clock <= MaxTime
    BY BoundsAssumption DEF Init
  <2>2. \A m \in All : m.id < Cardinality(All) /\ m.at <= MaxTime
    BY <1>1
  <2> QED
    BY <1>1, <2>1, <2>2 DEF Numbered
<1>3. TypeOK
  <2>1. pending \subseteq Message /\ stored \subseteq Message /\ pending \cap stored = {}
    BY DEF Init
  <2>2. known \subseteq stored /\ seen \subseteq stored
    BY DEF Init
  <2>3. clock \in Nat /\ limit \in Int /\ cursor \in Nat
    BY DEF Init
  <2>4. pc \in {"idle", "reading", "done"} /\ repeated \in BOOLEAN
    BY DEF Init
  <2> QED
    BY <2>1, <2>2, <2>3, <2>4 DEF TypeOK
<1> QED
  BY <1>2, <1>3 DEF TypeInv

\* Reading changes no message.
LEMMA StoreKept ==
  ASSUME Numbered, UNCHANGED storeVars
  PROVE  Numbered' /\ All' = All
<1>1. All' = All /\ clock' = clock
  BY DEF storeVars, All
<1> QED
  BY <1>1 DEF Numbered

LEMMA ReadFacts ==
  ASSUME TypeInv, Read
  PROVE  \E page \in SUBSET Before(cursor) :
           /\ page \in SUBSET Message
           /\ seen' = seen \cup page
           /\ repeated' = (repeated \/ page \cap seen # {})
           /\ \/ /\ page # Before(cursor)
                 /\ page # {}
                 /\ IsPage(page, Before(cursor), PageSize(limit))
                 /\ cursor' = NextCursor(page, Before(cursor) \ page)
                 /\ pc' = "reading"
              \/ /\ page = Before(cursor)
                 /\ cursor' = cursor
                 /\ pc' = "done"
<1>1. PICK page \in SUBSET Before(cursor) :
        /\ IsPage(page, Before(cursor), PageSize(limit))
        /\ seen' = seen \cup page
        /\ repeated' = (repeated \/ page \cap seen # {})
        /\ IF page # Before(cursor)
           THEN cursor' = NextCursor(page, Before(cursor) \ page) /\ pc' = pc
           ELSE pc' = "done" /\ cursor' = cursor
  BY DEF Read
<1>2. Before(cursor) \subseteq Message
  BY DEF TypeInv, TypeOK, Before
<1>3. PageSize(limit) \in Nat \ {0}
  BY PageSizeIsPositive DEF TypeInv, TypeOK
<1>4. page # Before(cursor) => page # {}
  BY <1>1, <1>3, PartialPage
<1> QED
  BY <1>1, <1>2, <1>4 DEF Read

LEMMA TypeStep == TypeInv /\ [Next]_vars => TypeInv'
<1> SUFFICES ASSUME TypeInv, [Next]_vars PROVE TypeInv'
  OBVIOUS
<1>1. CASE Create
  <2> DEFINE new == [id |-> Cardinality(All), at |-> clock]
  <2>1. /\ All' = All \cup {new}
        /\ clock' = clock /\ stored' = stored /\ pending' = pending \cup {new}
    BY <1>1 DEF Create, All
  <2>2. IsFiniteSet(All) /\ Cardinality(All) \in Nat
    BY FS_CardinalityType DEF TypeInv, Numbered
  <2>3. new \in Message /\ new.at = clock /\ new.id = Cardinality(All)
    BY <2>2 DEF TypeInv, TypeOK, Message
  <2>4. new \notin All
    BY <2>2, <2>3 DEF TypeInv, Numbered
  <2>5. IsFiniteSet(All') /\ Cardinality(All') = Cardinality(All) + 1
    BY <2>1, <2>2, <2>4, FS_AddElement
  <2>6. \A m \in All : m.id \in Nat
    BY DEF TypeInv, TypeOK, All, Message
  <2> HIDE DEF new
  <2>7. Numbered'
    <3>1. \A m \in All' : m.id < Cardinality(All)' /\ m.at <= MaxTime
      BY <2>1, <2>2, <2>3, <2>5, <2>6 DEF TypeInv, Numbered
    <3> QED
      BY <2>1, <2>5, <3>1 DEF Numbered, TypeInv
  <2>8. TypeOK'
    BY <1>1, <2>1, <2>3, <2>4 DEF TypeInv, TypeOK, Create, readVars, All
  <2> QED
    BY <2>7, <2>8 DEF TypeInv
<1>2. CASE Insert
  <2>1. PICK m \in pending :
          /\ pending' = pending \ {m} /\ stored' = stored \cup {m}
          /\ UNCHANGED <<clock, readVars>>
    BY <1>2 DEF Insert
  <2>2. All' = All
    BY <2>1 DEF All
  <2>3. Numbered'
    BY <2>1, <2>2 DEF TypeInv, Numbered
  <2>4. TypeOK'
    BY <2>1 DEF TypeInv, TypeOK, readVars
  <2> QED
    BY <2>3, <2>4 DEF TypeInv
<1>3. CASE Tick
  <2>1. All' = All /\ clock' = clock + 1 /\ clock' <= MaxTime
    BY <1>3, BoundsAssumption DEF Tick, All, TypeInv, TypeOK
  <2>2. Numbered'
    BY <2>1 DEF TypeInv, Numbered
  <2>3. TypeOK'
    BY <1>3 DEF TypeInv, TypeOK, Tick, readVars
  <2> QED
    BY <2>2, <2>3 DEF TypeInv
<1>4. CASE Begin
  <2>1. Numbered'
    BY <1>4, StoreKept DEF Begin, TypeInv
  <2>2. TypeOK'
    BY <1>4, BoundsAssumption, LimitsAssumption
    DEF TypeInv, TypeOK, Begin, storeVars
  <2> QED
    BY <2>1, <2>2 DEF TypeInv
<1>5. CASE Read
  <2>1. Numbered'
    BY <1>5, StoreKept DEF Read, TypeInv
  <2>2. PICK page \in SUBSET Before(cursor) :
          /\ page \in SUBSET Message
          /\ seen' = seen \cup page
          /\ repeated' = (repeated \/ page \cap seen # {})
          /\ \/ /\ page # {}
                /\ cursor' = NextCursor(page, Before(cursor) \ page)
                /\ pc' = "reading"
             \/ cursor' = cursor /\ pc' = "done"
    BY <1>5, ReadFacts
  <2>3. cursor' \in Nat
    <3>1. CASE cursor' = cursor
      BY <3>1 DEF TypeInv, TypeOK
    <3>2. CASE page # {} /\ cursor' = NextCursor(page, Before(cursor) \ page)
      BY <3>2, <2>2, NextCursorIsOldest
    <3> QED
      BY <2>2, <3>1, <3>2
  <2>4. seen' \subseteq stored' /\ repeated' \in BOOLEAN
    BY <1>5, <2>2 DEF Read, storeVars, Before, TypeInv, TypeOK
  <2>5. TypeOK'
    BY <1>5, <2>2, <2>3, <2>4 DEF Read, storeVars, TypeInv, TypeOK
  <2> QED
    BY <2>1, <2>5 DEF TypeInv
<1>6. CASE UNCHANGED vars
  <2>1. Numbered'
    BY <1>6, StoreKept DEF vars, TypeInv
  <2>2. TypeOK'
    BY <1>6 DEF vars, storeVars, readVars, TypeInv, TypeOK
  <2> QED
    BY <2>1, <2>2 DEF TypeInv
<1> QED
  BY <1>1, <1>2, <1>3, <1>4, <1>5, <1>6 DEF Next

\* Every variable keeps its type; a message is either pending or stored.
THEOREM HistoryTypes == Spec => []TypeOK
<1>1. Spec => []TypeInv
  BY TypeInit, TypeStep, PTL DEF Spec
<1>2. TypeInv => TypeOK
  BY DEF TypeInv
<1> QED
  BY <1>1, <1>2, PTL

-----------------------------------------------------------------------------
LEMMA ReadSoFarStep ==
  ASSUME TypeInv, ReadSoFar, [Next]_vars
  PROVE  ReadSoFar'
<1>1. CASE Create \/ Insert \/ Tick
  BY <1>1 DEF Create, Insert, Tick, readVars, ReadSoFar
<1>2. CASE Begin
  BY <1>2 DEF Begin, ReadSoFar
<1>3. CASE Read
  <2>1. PICK page \in SUBSET Before(cursor) :
          /\ page \in SUBSET Message
          /\ seen' = seen \cup page
          /\ repeated' = (repeated \/ page \cap seen # {})
          /\ \/ /\ page # {}
                /\ cursor' = NextCursor(page, Before(cursor) \ page)
                /\ pc' = "reading"
             \/ cursor' = cursor /\ pc' = "done"
    BY <1>3, ReadFacts
  <2>2. pc = "reading" /\ \A m \in seen : m.at >= cursor /\ m.at \in Nat
    BY <1>3 DEF Read, ReadSoFar, TypeInv, TypeOK, Message
  <2>3. \A m \in page : m.at < cursor /\ m.at \in Nat
    BY <2>1 DEF Before, Message
  <2>4. page \cap seen = {}
    BY <2>2, <2>3 DEF TypeInv, TypeOK
  <2>5. ~ repeated'
    BY <2>1, <2>4 DEF ReadSoFar
  <2>6. CASE page # {} /\ cursor' = NextCursor(page, Before(cursor) \ page)
             /\ pc' = "reading"
    <3>1. cursor' \in Nat /\ \A m \in page : cursor' <= m.at
      BY <2>1, <2>6, NextCursorIsOldest
    <3>2. PICK x \in page : cursor' = x.at
      BY <2>1, <2>6, NextCursorIsOldest
    <3>3. cursor' < cursor
      BY <2>3, <3>2
    <3>4. \A m \in seen' : m.at >= cursor'
      BY <2>1, <2>2, <2>3, <3>1, <3>3 DEF TypeInv, TypeOK
    <3> QED
      BY <2>5, <2>6, <3>4 DEF ReadSoFar
  <2> QED
    BY <2>1, <2>5, <2>6 DEF ReadSoFar
<1>4. CASE UNCHANGED vars
  BY <1>4 DEF vars, readVars, ReadSoFar
<1> QED
  BY <1>1, <1>2, <1>3, <1>4 DEF Next

\* No message is on two pages, whether creation times are distinct or not.
THEOREM PagesDisjoint == Spec => []NeverRepeated
<1>1. Init => ReadSoFar
  BY DEF Init, ReadSoFar
<1>2. TypeInv /\ ReadSoFar /\ [Next]_vars => ReadSoFar'
  BY ReadSoFarStep
<1>3. ReadSoFar => NeverRepeated
  BY DEF ReadSoFar, NeverRepeated
<1> QED
  BY <1>1, <1>2, <1>3, TypeInit, TypeStep, PTL DEF Spec

-----------------------------------------------------------------------------
LEMMA AheadStep ==
  ASSUME TypeInv, Ahead, NoneSkipped, [Next]_vars
  PROVE  Ahead' /\ NoneSkipped'
<1>1. CASE Create \/ Insert \/ Tick
  BY <1>1 DEF Create, Insert, Tick, readVars, Ahead, NoneSkipped
<1>2. CASE Begin
  <2>1. \A m \in stored : m.at \in Nat /\ m.at < MaxTime + 1
    BY BoundsAssumption DEF TypeInv, TypeOK, Numbered, All, Message
  <2> QED
    BY <1>2, <2>1 DEF Begin, Ahead, NoneSkipped
<1>3. CASE Read
  <2>1. PICK page \in SUBSET Before(cursor) :
          /\ page \in SUBSET Message
          /\ seen' = seen \cup page
          /\ \/ /\ page # {}
                /\ IsPage(page, Before(cursor), PageSize(limit))
                /\ cursor' = NextCursor(page, Before(cursor) \ page)
                /\ pc' = "reading"
             \/ /\ page = Before(cursor)
                /\ pc' = "done"
    BY <1>3, ReadFacts
  <2>2. pc = "reading" /\ known' = known
    BY <1>3 DEF Read
  <2>3. \A m \in known : m \in Before(cursor) \/ \E x \in seen : x.at = m.at
    BY <2>2 DEF Ahead, Before, TypeInv, TypeOK
  <2>4. CASE page = Before(cursor) /\ pc' = "done"
    BY <2>1, <2>2, <2>3, <2>4 DEF Ahead, NoneSkipped
  <2>5. CASE /\ page # {} /\ IsPage(page, Before(cursor), PageSize(limit))
             /\ cursor' = NextCursor(page, Before(cursor) \ page)
             /\ pc' = "reading"
    <3>1. PICK x \in page : cursor' = x.at
      BY <2>1, <2>5, NextCursorIsOldest
    <3>2. ASSUME NEW m \in Before(cursor), m \notin page
          PROVE  m.at < cursor' \/ \E y \in page : y.at = m.at
      <4>1. x.at >= m.at
        BY <2>5, <3>2 DEF IsPage
      <4>2. x \in All /\ m \in All /\ x \in Message /\ m \in Message
        BY <2>1, <3>2 DEF Before, All, TypeInv, TypeOK
      <4> QED
        BY <3>1, <4>1, <4>2 DEF Message
    <3> QED
      BY <2>1, <2>2, <2>3, <2>5, <3>2 DEF Ahead, NoneSkipped
  <2> QED
    BY <2>1, <2>4, <2>5
<1>4. CASE UNCHANGED vars
  BY <1>4 DEF vars, readVars, Ahead, NoneSkipped
<1> QED
  BY <1>1, <1>2, <1>3, <1>4 DEF Next

\* The reader misses nothing that was there when it began, but for messages
\* of the same creation time as one it has read, whatever is sent meanwhile.
THEOREM PagesComplete == Spec => []NoneSkipped
<1>1. Init => Ahead /\ NoneSkipped
  BY DEF Init, Ahead, NoneSkipped
<1>2. TypeInv /\ Ahead /\ NoneSkipped /\ [Next]_vars => Ahead' /\ NoneSkipped'
  BY AheadStep
<1> QED
  BY <1>1, <1>2, TypeInit, TypeStep, PTL DEF Spec

=============================================================================
