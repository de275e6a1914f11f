--------------------------- MODULE SsaDiffProofs ----------------------------
(***************************************************************************)
(* Proofs about SsaDiff, for any finite set of keys and any values.        *)
(***************************************************************************)
EXTENDS SsaDiff, FiniteSetTheorems, SequenceTheorems, TLAPS

(* The records of a version are there, each under its own key.             *)
LEMMA VersionRecord ==
    ASSUME NEW t \in Versions, NEW k \in Mapped(t.map)
    PROVE  Rec(t, k) \in Recs
<1>1. PICK n \in 0..Cardinality(Keys) : t.recs \in [1..n -> Recs] BY DEF Versions
<1>2. Cardinality(Keys) \in Nat BY FS_CardinalityType, DiffAssumption
<1>3. n \in Nat BY <1>2
<1>4. t.recs \in Seq(Recs) BY <1>1, <1>3, SeqDef
<1>5. Len(t.recs) = n BY <1>1, <1>3, <1>4, LenProperties
<1>6. t.map[k] \in Nat /\ t.map[k] + 1 \in 1..n
  <2>1. k \in Keys /\ t.map[k] # -1 BY DEF Mapped, NoOffset
  <2>2. t.map[k] \in -1 .. Cardinality(Keys) - 1 BY <2>1 DEF Versions
  <2>3. t.map[k] < n BY <1>5 DEF Versions, IsVersion
  <2> QED BY <2>1, <2>2, <2>3, <1>2, <1>3
<1> QED BY <1>1, <1>6 DEF Rec

(***************************************************************************)
(* The inductive invariant.  The walk is a merge: what either side has     *)
(* passed lies below what the other has yet to visit, so a key of both     *)
(* versions is met on both sides at once; the difference has the keys      *)
(* passed that it should have, and one record for each.                    *)
(***************************************************************************)

Ordered ==
    /\ \A k \in OldKeys \ todoOld : \A j \in todoNew : k < j
    /\ \A k \in NewKeys \ todoNew : \A j \in todoOld : k < j

VisitedOnly ==
    /\ Mapped(removed) \subseteq OldKeys \ todoOld
    /\ Mapped(added) \subseteq NewKeys \ todoNew

OneVersion ==
    /\ (OldKeys \ NewKeys) \ todoOld \subseteq Mapped(removed)
    /\ (NewKeys \ OldKeys) \ todoNew \subseteq Mapped(added)

TwoVersions == \A k \in OldKeys \cap NewKeys :
    /\ k \in Mapped(removed) <=> k \in Mapped(added)
    /\ aligned /\ k \notin todoOld => (k \in Mapped(removed) <=> k \in Changed)

OneRecordEach == Len(recs) = Cardinality(Mapped(removed)) + Cardinality(Mapped(added))

WalkInv ==
    /\ TypeOK /\ Ordered
    /\ VisitedOnly /\ OneVersion /\ TwoVersions
    /\ RecordsIntact /\ OneRecordEach /\ DirtyIffRecords

-----------------------------------------------------------------------------
LEMMA WalkInit == Init => WalkInv
<1> SUFFICES ASSUME Init PROVE WalkInv OBVIOUS
<1> USE DEF Init
<1>1. Mapped(removed) = {} /\ Mapped(added) = {} BY DEF Mapped
<1>2. TypeOK
  <2>1. removed \in Maps /\ added \in Maps BY DEF Maps, NoOffset
  <2>2. recs \in Seq(Recs) OBVIOUS
  <2>3. dirty \in BOOLEAN OBVIOUS
  <2> QED BY <2>1, <2>2, <2>3 DEF TypeOK
<1>3. Ordered BY DEF Ordered, OldKeys, NewKeys
<1>4. VisitedOnly /\ OneVersion /\ TwoVersions
  BY <1>1 DEF VisitedOnly, OneVersion, TwoVersions, OldKeys, NewKeys
<1>5. RecordsIntact
  <2>1. \A k, j \in Keys : removed[k] = added[j] => removed[k] = NoOffset OBVIOUS
  <2> QED BY <1>1, <2>1 DEF RecordsIntact
<1>6. OneRecordEach
  <2>1. Cardinality({}) = 0 BY FS_EmptySet
  <2>2. Len(recs) = 0 OBVIOUS
  <2>3. Cardinality(Mapped(removed)) = 0 /\ Cardinality(Mapped(added)) = 0 BY <1>1, <2>1
  <2> HIDE DEF Init
  <2> QED BY <2>2, <2>3 DEF OneRecordEach
<1>7. DirtyIffRecords BY <1>1 DEF DirtyIffRecords
<1> QED BY <1>2, <1>3, <1>4, <1>5, <1>6, <1>7 DEF WalkInv

(* Keys have a head of their own, and sets of keys are finite.             *)
LEMMA KeyFacts ==
    /\ \A k \in Keys : k \in Nat
    /\ \A map : IsFiniteSet(Mapped(map)) /\ Cardinality(Mapped(map)) \in Nat
<1>1. ASSUME NEW map PROVE IsFiniteSet(Mapped(map)) /\ Cardinality(Mapped(map)) \in Nat
  BY DiffAssumption, FS_Subset, FS_CardinalityType DEF Mapped
<1> QED BY <1>1, DiffAssumption

(* Mapping a key that was not mapped.                                      *)
LEMMA MapOne ==
    ASSUME NEW map \in Maps, NEW k \in Keys, NEW n \in Nat, k \notin Mapped(map),
           NEW map2, map2 = [map EXCEPT ![k] = n]
    PROVE  /\ map2 \in Maps
           /\ Mapped(map2) = Mapped(map) \cup {k}
           /\ Cardinality(Mapped(map2)) = Cardinality(Mapped(map)) + 1
<1>1. Mapped(map2) = Mapped(map) \cup {k} BY DEF Mapped, Maps, NoOffset
<1>2. Cardinality(Mapped(map) \cup {k}) = Cardinality(Mapped(map)) + 1
  BY KeyFacts, FS_AddElement
<1> QED BY <1>1, <1>2 DEF Maps

-----------------------------------------------------------------------------
(* Of a key of both versions, the walks pass both or neither.              *)
LEMMA MetTogether ==
    ASSUME TypeOK, Ordered
    PROVE  \A k \in OldKeys \cap NewKeys : k \in todoOld <=> k \in todoNew
<1> SUFFICES ASSUME NEW k \in OldKeys \cap NewKeys
             PROVE  k \in todoOld <=> k \in todoNew
  OBVIOUS
<1>1. k \in Nat /\ ~(k < k) BY KeyFacts DEF OldKeys, Mapped
<1> QED BY <1>1 DEF Ordered

(* What the four ways of a step do to the difference: the sets of keys,    *)
(* the number of records, and the records that were there.                 *)
LEMMA StepRemoved ==
    ASSUME WalkInv, NEW k \in todoOld, InsertRemoved(k)
    PROVE  /\ removed' \in Maps /\ added' \in Maps /\ recs' \in Seq(Recs) /\ dirty'
           /\ Mapped(removed') = Mapped(removed) \cup {k}
           /\ Mapped(added') = Mapped(added)
           /\ (Len(recs) = Cardinality(Mapped(removed)) + Cardinality(Mapped(added)))'
           /\ removed'[k] = Len(recs) /\ recs'[Len(recs) + 1] = Rec(old, k)
           /\ Len(recs') = Len(recs) + 1
           /\ \A i \in 1..Len(recs) : recs'[i] = recs[i]
           /\ \A j \in Keys \ {k} : removed'[j] = removed[j]
           /\ added' = added
<1>0. removed \in Maps /\ added \in Maps /\ recs \in Seq(Recs) BY DEF WalkInv, TypeOK
<1>1. k \in Keys /\ k \in OldKeys /\ Rec(old, k) \in Recs
  BY VersionRecord DEF WalkInv, TypeOK, Mapped, OldKeys
<1>2. k \notin Mapped(removed) BY DEF WalkInv, VisitedOnly
<1>3. Len(recs) \in Nat BY <1>0
<1>4. /\ removed' \in Maps
      /\ Mapped(removed') = Mapped(removed) \cup {k}
      /\ Cardinality(Mapped(removed')) = Cardinality(Mapped(removed)) + 1
      /\ removed'[k] = Len(recs)
      /\ \A j \in Keys \ {k} : removed'[j] = removed[j]
  <2>1. removed' = [removed EXCEPT ![k] = Len(recs)] BY DEF InsertRemoved
  <2>2. /\ removed' \in Maps
        /\ Mapped(removed') = Mapped(removed) \cup {k}
        /\ Cardinality(Mapped(removed')) = Cardinality(Mapped(removed)) + 1
    BY <1>0, <1>1, <1>2, <1>3, <2>1, MapOne
  <2>3. /\ removed'[k] = Len(recs)
        /\ \A j \in Keys \ {k} : removed'[j] = removed[j]
    BY <1>0, <1>1, <2>1 DEF Maps
  <2> QED BY <2>2, <2>3
<1>5. /\ recs' \in Seq(Recs)
      /\ recs'[Len(recs) + 1] = Rec(old, k)
      /\ Len(recs') = Len(recs) + 1
      /\ \A i \in 1..Len(recs) : recs'[i] = recs[i]
  BY <1>0, <1>1 DEF InsertRemoved
<1>6. Cardinality(Mapped(removed)) \in Nat /\ Cardinality(Mapped(added)) \in Nat
  BY KeyFacts
<1>7. Len(recs') = Cardinality(Mapped(removed')) + Cardinality(Mapped(added'))
  BY <1>3, <1>4, <1>5, <1>6 DEF WalkInv, OneRecordEach, InsertRemoved
<1> QED BY <1>0, <1>4, <1>5, <1>7 DEF InsertRemoved

LEMMA StepAdded ==
    ASSUME WalkInv, NEW k \in todoNew, InsertAdded(k)
    PROVE  /\ removed' \in Maps /\ added' \in Maps /\ recs' \in Seq(Recs) /\ dirty'
           /\ Mapped(added') = Mapped(added) \cup {k}
           /\ Mapped(removed') = Mapped(removed)
           /\ (Len(recs) = Cardinality(Mapped(removed)) + Cardinality(Mapped(added)))'
           /\ added'[k] = Len(recs) /\ recs'[Len(recs) + 1] = Rec(new, k)
           /\ Len(recs') = Len(recs) + 1
           /\ \A i \in 1..Len(recs) : recs'[i] = recs[i]
           /\ \A j \in Keys \ {k} : added'[j] = added[j]
           /\ removed' = removed
<1>0. removed \in Maps /\ added \in Maps /\ recs \in Seq(Recs) BY DEF WalkInv, TypeOK
<1>1. k \in Keys /\ k \in NewKeys /\ Rec(new, k) \in Recs
  BY VersionRecord DEF WalkInv, TypeOK, Mapped, NewKeys
<1>2. k \notin Mapped(added) BY DEF WalkInv, VisitedOnly
<1>3. Len(recs) \in Nat BY <1>0
<1>4. /\ added' \in Maps
      /\ Mapped(added') = Mapped(added) \cup {k}
      /\ Cardinality(Mapped(added')) = Cardinality(Mapped(added)) + 1
      /\ added'[k] = Len(recs)
      /\ \A j \in Keys \ {k} : added'[j] = added[j]
  <2>1. added' = [added EXCEPT ![k] = Len(recs)] BY DEF InsertAdded
  <2>2. /\ added' \in Maps
        /\ Mapped(added') = Mapped(added) \cup {k}
        /\ Cardinality(Mapped(added')) = Cardinality(Mapped(added)) + 1
    BY <1>0, <1>1, <1>2, <1>3, <2>1, MapOne
  <2>3. /\ added'[k] = Len(recs)
        /\ \A j \in Keys \ {k} : added'[j] = added[j]
    BY <1>0, <1>1, <2>1 DEF Maps
  <2> QED BY <2>2, <2>3
<1>5. /\ recs' \in Seq(Recs)
      /\ recs'[Len(recs) + 1] = Rec(new, k)
      /\ Len(recs') = Len(recs) + 1
      /\ \A i \in 1..Len(recs) : recs'[i] = recs[i]
  BY <1>0, <1>1 DEF InsertAdded
<1>6. Cardinality(Mapped(removed)) \in Nat /\ Cardinality(Mapped(added)) \in Nat
  BY KeyFacts
<1>7. Len(recs') = Cardinality(Mapped(removed')) + Cardinality(Mapped(added'))
  BY <1>3, <1>4, <1>5, <1>6 DEF WalkInv, OneRecordEach, InsertAdded
<1> QED BY <1>0, <1>4, <1>5, <1>7 DEF InsertAdded

LEMMA StepBoth ==
    ASSUME WalkInv, NEW k \in todoOld \cap todoNew, InsertBoth(k)
    PROVE  /\ removed' \in Maps /\ added' \in Maps /\ recs' \in Seq(Recs) /\ dirty'
           /\ Mapped(removed') = Mapped(removed) \cup {k}
           /\ Mapped(added') = Mapped(added) \cup {k}
           /\ (Len(recs) = Cardinality(Mapped(removed)) + Cardinality(Mapped(added)))'
           /\ removed'[k] = Len(recs) /\ recs'[Len(recs) + 1] = Rec(old, k)
           /\ added'[k] = Len(recs) + 1 /\ recs'[Len(recs) + 2] = Rec(new, k)
           /\ Len(recs') = Len(recs) + 2
           /\ \A i \in 1..Len(recs) : recs'[i] = recs[i]
           /\ \A j \in Keys \ {k} : removed'[j] = removed[j] /\ added'[j] = added[j]
<1>0. removed \in Maps /\ added \in Maps /\ recs \in Seq(Recs) BY DEF WalkInv, TypeOK
<1>1. /\ k \in Keys /\ k \in OldKeys /\ k \in NewKeys
      /\ Rec(old, k) \in Recs /\ Rec(new, k) \in Recs
  BY VersionRecord DEF WalkInv, TypeOK, Mapped, OldKeys, NewKeys
<1>2. k \notin Mapped(removed) /\ k \notin Mapped(added) BY DEF WalkInv, VisitedOnly
<1>3. Len(recs) \in Nat BY <1>0
<1>4. /\ removed' \in Maps
      /\ Mapped(removed') = Mapped(removed) \cup {k}
      /\ Cardinality(Mapped(removed')) = Cardinality(Mapped(removed)) + 1
      /\ removed'[k] = Len(recs)
      /\ \A j \in Keys \ {k} : removed'[j] = removed[j]
  <2>1. removed' = [removed EXCEPT ![k] = Len(recs)] BY DEF InsertBoth
  <2>2. /\ removed' \in Maps
        /\ Mapped(removed') = Mapped(removed) \cup {k}
        /\ Cardinality(Mapped(removed')) = Cardinality(Mapped(removed)) + 1
    BY <1>0, <1>1, <1>2, <1>3, <2>1, MapOne
  <2>3. /\ removed'[k] = Len(recs)
        /\ \A j \in Keys \ {k} : removed'[j] = removed[j]
    BY <1>0, <1>1, <2>1 DEF Maps
  <2> QED BY <2>2, <2>3
<1>5. /\ added' \in Maps
      /\ Mapped(added') = Mapped(added) \cup {k}
      /\ Cardinality(Mapped(added')) = Cardinality(Mapped(added)) + 1
      /\ added'[k] = Len(recs) + 1
      /\ \A j \in Keys \ {k} : added'[j] = added[j]
  <2> DEFINE n == Len(recs) + 1
  <2>0. n \in Nat BY <1>3
  <2>1. added' = [added EXCEPT ![k] = n] BY DEF InsertBoth
  <2> HIDE DEF n
  <2>2. /\ added' \in Maps
        /\ Mapped(added') = Mapped(added) \cup {k}
        /\ Cardinality(Mapped(added')) = Cardinality(Mapped(added)) + 1
    BY <1>0, <1>1, <1>2, <2>0, <2>1, MapOne
  <2>3. /\ added'[k] = n
        /\ \A j \in Keys \ {k} : added'[j] = added[j]
    BY <1>0, <1>1, <2>1 DEF Maps
  <2> QED BY <2>2, <2>3 DEF n
<1>6. /\ recs' \in Seq(Recs)
      /\ Len(recs') = Len(recs) + 2
      /\ recs'[Len(recs) + 1] = Rec(old, k)
      /\ recs'[Len(recs) + 2] = Rec(new, k)
      /\ \A i \in 1..Len(recs) : recs'[i] = recs[i]
  <2> DEFINE one == Append(recs, Rec(old, k))
  <2>1. /\ one \in Seq(Recs) /\ Len(one) = Len(recs) + 1
        /\ one[Len(recs) + 1] = Rec(old, k)
        /\ \A i \in 1..Len(recs) : one[i] = recs[i]
    BY <1>0, <1>1
  <2>2. recs' = Append(one, Rec(new, k)) BY <1>0, <1>1 DEF InsertBoth
  <2> HIDE DEF one
  <2> QED BY <1>1, <1>3, <2>1, <2>2
<1>7. Cardinality(Mapped(removed)) \in Nat /\ Cardinality(Mapped(added)) \in Nat
  BY KeyFacts
<1>8. Len(recs') = Cardinality(Mapped(removed')) + Cardinality(Mapped(added'))
  BY <1>3, <1>4, <1>5, <1>6, <1>7 DEF WalkInv, OneRecordEach, InsertBoth
<1> QED BY <1>4, <1>5, <1>6, <1>8 DEF InsertBoth
-----------------------------------------------------------------------------
(* The records that were there stay intact when the array only grows.      *)
LEMMA KeptRecords ==
    ASSUME TypeOK, RecordsIntact, UNCHANGED given,
           Len(recs') \in Nat, Len(recs) <= Len(recs'),
           \A i \in 1..Len(recs) : recs'[i] = recs[i]
    PROVE  /\ \A j \in Mapped(removed) :
                /\ j \in OldKeys' /\ removed[j] \in Nat
                /\ removed[j] < Len(recs) /\ removed[j] < Len(recs')
                /\ recs'[removed[j] + 1] = Rec(old', j)
           /\ \A j \in Mapped(added) :
                /\ j \in NewKeys' /\ added[j] \in Nat
                /\ added[j] < Len(recs) /\ added[j] < Len(recs')
                /\ recs'[added[j] + 1] = Rec(new', j)
<1>l. Len(recs) \in Nat /\ old' = old /\ new' = new BY DEF TypeOK, given
<1>1. ASSUME NEW j \in Mapped(removed)
      PROVE  /\ j \in OldKeys' /\ removed[j] \in Nat
             /\ removed[j] < Len(recs) /\ removed[j] < Len(recs')
             /\ recs'[removed[j] + 1] = Rec(old', j)
  <2>1. removed[j] \in Nat BY DEF TypeOK, Maps, Mapped
  <2>2. j \in OldKeys /\ removed[j] < Len(recs) /\ recs[removed[j] + 1] = Rec(old, j)
    BY DEF RecordsIntact
  <2>3. removed[j] + 1 \in 1..Len(recs) BY <2>1, <2>2, <1>l
  <2>4. recs'[removed[j] + 1] = Rec(old', j) BY <2>2, <2>3, <1>l DEF Rec
  <2>5. j \in OldKeys' BY <2>2, <1>l DEF OldKeys
  <2> QED BY <2>1, <2>2, <2>4, <2>5, <1>l
<1>2. ASSUME NEW j \in Mapped(added)
      PROVE  /\ j \in NewKeys' /\ added[j] \in Nat
             /\ added[j] < Len(recs) /\ added[j] < Len(recs')
             /\ recs'[added[j] + 1] = Rec(new', j)
  <2>1. added[j] \in Nat BY DEF TypeOK, Maps, Mapped
  <2>2. j \in NewKeys /\ added[j] < Len(recs) /\ recs[added[j] + 1] = Rec(new, j)
    BY DEF RecordsIntact
  <2>3. added[j] + 1 \in 1..Len(recs) BY <2>1, <2>2, <1>l
  <2>4. recs'[added[j] + 1] = Rec(new', j) BY <2>2, <2>3, <1>l DEF Rec
  <2>5. j \in NewKeys' BY <2>2, <1>l DEF NewKeys
  <2> QED BY <2>1, <2>2, <2>4, <2>5, <1>l
<1> QED BY <1>1, <1>2

LEMMA WalkStep == WalkInv /\ [Next]_vars => WalkInv'
<1> SUFFICES ASSUME WalkInv, [Next]_vars PROVE WalkInv' OBVIOUS
<1>t. /\ TypeOK /\ Ordered
      /\ VisitedOnly /\ OneVersion /\ TwoVersions
      /\ RecordsIntact /\ OneRecordEach /\ DirtyIffRecords
  BY DEF WalkInv
<1>m. \A k \in OldKeys \cap NewKeys : k \in todoOld <=> k \in todoNew
  BY <1>t, MetTogether
<1>s. /\ todoOld \subseteq OldKeys /\ todoNew \subseteq NewKeys
      /\ OldKeys \subseteq Keys /\ NewKeys \subseteq Keys
  BY <1>t DEF TypeOK, OldKeys, NewKeys, Mapped
<1>n. \A k, j \in Keys : k < j => k # j BY KeyFacts
<1>l. Len(recs) \in Nat BY <1>t DEF TypeOK
<1>f. ASSUME NEW map, NEW k \in Mapped(map) PROVE k \in Keys BY DEF Mapped
<1>1. ASSUME NEW k \in Keys, OldOnly(k) PROVE WalkInv'
  <2>0. /\ k \in todoOld /\ (\A j \in todoOld : k <= j) /\ (\A j \in todoNew : k < j)
        /\ InsertRemoved(k) /\ todoOld' = todoOld \ {k}
        /\ aligned' = aligned /\ old' = old /\ new' = new /\ todoNew' = todoNew
    BY <1>1 DEF OldOnly, IsHead, given
  <2>k. OldKeys' = OldKeys /\ NewKeys' = NewKeys /\ Changed' = Changed
    BY <2>0 DEF OldKeys, NewKeys, Changed
  <2>1. k \in OldKeys /\ k \notin NewKeys BY <2>0, <1>s, <1>m, <1>n
  <2>2. /\ removed' \in Maps /\ added' \in Maps /\ recs' \in Seq(Recs) /\ dirty'
        /\ Mapped(removed') = Mapped(removed) \cup {k}
        /\ Mapped(added') = Mapped(added)
        /\ (Len(recs) = Cardinality(Mapped(removed)) + Cardinality(Mapped(added)))'
        /\ removed'[k] = Len(recs) /\ recs'[Len(recs) + 1] = Rec(old, k)
        /\ Len(recs') = Len(recs) + 1
        /\ \A i \in 1..Len(recs) : recs'[i] = recs[i]
        /\ \A j \in Keys \ {k} : removed'[j] = removed[j]
        /\ added' = added
    BY <2>0, StepRemoved
  <2>r. /\ \A j \in Mapped(removed) :
             /\ j \in OldKeys' /\ removed[j] \in Nat
             /\ removed[j] < Len(recs) /\ removed[j] < Len(recs')
             /\ recs'[removed[j] + 1] = Rec(old', j)
        /\ \A j \in Mapped(added) :
             /\ j \in NewKeys' /\ added[j] \in Nat
             /\ added[j] < Len(recs) /\ added[j] < Len(recs')
             /\ recs'[added[j] + 1] = Rec(new', j)
    <3>1. Len(recs') \in Nat /\ Len(recs) <= Len(recs') BY <2>2, <1>l
    <3>2. UNCHANGED given BY <2>0 DEF given
    <3> QED BY <3>1, <3>2, <2>2, <1>t, KeptRecords
  <2>3. TypeOK'
    <3>1. dirty' \in BOOLEAN BY <2>0 DEF InsertRemoved
    <3> QED BY <3>1, <2>0, <2>2, <1>t DEF TypeOK
  <2>4. Ordered'
    <3>1. \A j \in OldKeys \ todoOld' : \A i \in todoNew' : j < i BY <2>0, <1>t DEF Ordered
    <3>2. \A j \in NewKeys \ todoNew' : \A i \in todoOld' : j < i BY <2>0, <1>t DEF Ordered
    <3> QED BY <3>1, <3>2, <2>k DEF Ordered
  <2>5. VisitedOnly' BY <2>0, <2>k, <2>1, <2>2, <1>t DEF VisitedOnly
  <2>6. OneVersion' BY <2>0, <2>k, <2>2, <1>t DEF OneVersion
  <2>7. TwoVersions' BY <2>0, <2>k, <2>1, <2>2, <1>t DEF TwoVersions
  <2>8. RecordsIntact'
    <3>1. ASSUME NEW j \in Mapped(removed')
          PROVE  /\ j \in OldKeys' /\ removed'[j] < Len(recs')
                 /\ recs'[removed'[j] + 1] = Rec(old', j)
      <4>1. CASE j = k BY <4>1, <2>0, <2>k, <2>1, <2>2, <1>l DEF Rec
      <4>2. CASE j # k
        <5>1. j \in Mapped(removed) BY <4>2, <2>2
        <5>2. removed'[j] = removed[j] BY <5>1, <4>2, <2>2, <1>f
        <5> QED BY <5>1, <5>2, <2>r
      <4> QED BY <4>1, <4>2
    <3>2. ASSUME NEW j \in Mapped(added')
          PROVE  /\ j \in NewKeys' /\ added'[j] < Len(recs')
                 /\ recs'[added'[j] + 1] = Rec(new', j)
      BY <2>2, <2>r
    <3>3. ASSUME NEW i \in Keys, NEW j \in Keys, removed'[i] = added'[j]
          PROVE  removed'[i] = NoOffset
      <4>1. CASE i = k
        <5>1. added[j] = Len(recs) BY <4>1, <3>3, <2>2
        <5>2. j \in Mapped(added) BY <5>1, <1>l DEF Mapped, NoOffset
        <5> QED BY <5>1, <5>2, <2>r, <1>l
      <4>2. CASE i # k BY <4>2, <3>3, <2>2, <1>t DEF RecordsIntact
      <4> QED BY <4>1, <4>2
    <3> QED BY <3>1, <3>2, <3>3 DEF RecordsIntact
  <2>9. OneRecordEach' BY <2>2 DEF OneRecordEach
  <2>10. DirtyIffRecords' BY <2>2 DEF DirtyIffRecords
  <2> QED BY <2>3, <2>4, <2>5, <2>6, <2>7, <2>8, <2>9, <2>10 DEF WalkInv
<1>2. ASSUME NEW k \in Keys, NewOnly(k) PROVE WalkInv'
  <2>0. /\ k \in todoNew /\ (\A j \in todoNew : k <= j) /\ (\A j \in todoOld : k < j)
        /\ InsertAdded(k) /\ todoNew' = todoNew \ {k}
        /\ aligned' = aligned /\ old' = old /\ new' = new /\ todoOld' = todoOld
    BY <1>2 DEF NewOnly, IsHead, given
  <2>k. OldKeys' = OldKeys /\ NewKeys' = NewKeys /\ Changed' = Changed
    BY <2>0 DEF OldKeys, NewKeys, Changed
  <2>1. k \in NewKeys /\ k \notin OldKeys BY <2>0, <1>s, <1>m, <1>n
  <2>2. /\ removed' \in Maps /\ added' \in Maps /\ recs' \in Seq(Recs) /\ dirty'
        /\ Mapped(added') = Mapped(added) \cup {k}
        /\ Mapped(removed') = Mapped(removed)
        /\ (Len(recs) = Cardinality(Mapped(removed)) + Cardinality(Mapped(added)))'
        /\ added'[k] = Len(recs) /\ recs'[Len(recs) + 1] = Rec(new, k)
        /\ Len(recs') = Len(recs) + 1
        /\ \A i \in 1..Len(recs) : recs'[i] = recs[i]
        /\ \A j \in Keys \ {k} : added'[j] = added[j]
        /\ removed' = removed
    BY <2>0, StepAdded
  <2>r. /\ \A j \in Mapped(removed) :
             /\ j \in OldKeys' /\ removed[j] \in Nat
             /\ removed[j] < Len(recs) /\ removed[j] < Len(recs')
             /\ recs'[removed[j] + 1] = Rec(old', j)
        /\ \A j \in Mapped(added) :
             /\ j \in NewKeys' /\ added[j] \in Nat
             /\ added[j] < Len(recs) /\ added[j] < Len(recs')
             /\ recs'[added[j] + 1] = Rec(new', j)
    <3>1. Len(recs') \in Nat /\ Len(recs) <= Len(recs') BY <2>2, <1>l
    <3>2. UNCHANGED given BY <2>0 DEF given
    <3> QED BY <3>1, <3>2, <2>2, <1>t, KeptRecords
  <2>3. TypeOK'
    <3>1. dirty' \in BOOLEAN BY <2>0 DEF InsertAdded
    <3> QED BY <3>1, <2>0, <2>2, <1>t DEF TypeOK
  <2>4. Ordered'
    <3>1. \A j \in NewKeys \ todoNew' : \A i \in todoOld' : j < i BY <2>0, <1>t DEF Ordered
    <3>2. \A j \in OldKeys \ todoOld' : \A i \in todoNew' : j < i BY <2>0, <1>t DEF Ordered
    <3> QED BY <3>1, <3>2, <2>k DEF Ordered
  <2>5. VisitedOnly' BY <2>0, <2>k, <2>1, <2>2, <1>t DEF VisitedOnly
  <2>6. OneVersion' BY <2>0, <2>k, <2>2, <1>t DEF OneVersion
  <2>7. TwoVersions' BY <2>0, <2>k, <2>1, <2>2, <1>t DEF TwoVersions
  <2>8. RecordsIntact'
    <3>1. ASSUME NEW j \in Mapped(added')
          PROVE  /\ j \in NewKeys' /\ added'[j] < Len(recs')
                 /\ recs'[added'[j] + 1] = Rec(new', j)
      <4>1. CASE j = k BY <4>1, <2>0, <2>k, <2>1, <2>2, <1>l DEF Rec
      <4>2. CASE j # k
        <5>1. j \in Mapped(added) BY <4>2, <2>2
        <5>2. added'[j] = added[j] BY <5>1, <4>2, <2>2, <1>f
        <5> QED BY <5>1, <5>2, <2>r
      <4> QED BY <4>1, <4>2
    <3>2. ASSUME NEW j \in Mapped(removed')
          PROVE  /\ j \in OldKeys' /\ removed'[j] < Len(recs')
                 /\ recs'[removed'[j] + 1] = Rec(old', j)
      BY <2>2, <2>r
    <3>3. ASSUME NEW i \in Keys, NEW j \in Keys, removed'[i] = added'[j]
          PROVE  removed'[i] = NoOffset
      <4>1. CASE j = k
        <5>1. removed[i] = Len(recs) BY <4>1, <3>3, <2>2
        <5>2. i \in Mapped(removed) BY <5>1, <1>l DEF Mapped, NoOffset
        <5> QED BY <5>1, <5>2, <2>r, <1>l
      <4>2. CASE j # k BY <4>2, <3>3, <2>2, <1>t DEF RecordsIntact
      <4> QED BY <4>1, <4>2
    <3> QED BY <3>1, <3>2, <3>3 DEF RecordsIntact
  <2>9. OneRecordEach' BY <2>2 DEF OneRecordEach
  <2>10. DirtyIffRecords' BY <2>2 DEF DirtyIffRecords
  <2> QED BY <2>3, <2>4, <2>5, <2>6, <2>7, <2>8, <2>9, <2>10 DEF WalkInv
<1>3. ASSUME NEW k \in Keys, BothVersions(k) PROVE WalkInv'
  <2>0. /\ k \in todoOld /\ (\A j \in todoOld : k <= j)
        /\ k \in todoNew /\ (\A j \in todoNew : k <= j)
        /\ todoOld' = todoOld \ {k} /\ todoNew' = todoNew \ {k}
        /\ aligned' = aligned /\ old' = old /\ new' = new
        /\ \E differ \in Answers(k) : IF differ THEN InsertBoth(k) ELSE UNCHANGED diff
    BY <1>3 DEF BothVersions, IsHead, given
  <2>k. OldKeys' = OldKeys /\ NewKeys' = NewKeys /\ Changed' = Changed
    BY <2>0 DEF OldKeys, NewKeys, Changed
  <2>1. k \in OldKeys /\ k \in NewKeys BY <2>0, <1>s
  <2>2. k \notin Mapped(removed) /\ k \notin Mapped(added)
    BY <2>0, <1>t DEF VisitedOnly
  <2>a. ASSUME aligned, NEW differ \in Answers(k) PROVE differ <=> k \in Changed
    BY <2>a, <2>1 DEF Answers, Changed
  <2>4. Ordered'
    <3>1. \A j \in todoOld : j # k => k < j BY <2>0, <1>s, KeyFacts
    <3>2. \A j \in todoNew : j # k => k < j BY <2>0, <1>s, KeyFacts
    <3>3. \A j \in OldKeys \ todoOld' : \A i \in todoNew' : j < i
      BY <2>0, <3>2, <1>t DEF Ordered
    <3>4. \A j \in NewKeys \ todoNew' : \A i \in todoOld' : j < i
      BY <2>0, <3>1, <1>t DEF Ordered
    <3> QED BY <3>3, <3>4, <2>k DEF Ordered
  <2>5. CASE UNCHANGED diff /\ FALSE \in Answers(k)
    <3>0. removed' = removed /\ added' = added /\ recs' = recs /\ dirty' = dirty
      BY <2>5 DEF diff
    <3>1. TypeOK' BY <3>0, <2>0, <1>t DEF TypeOK
    <3>2. VisitedOnly' BY <3>0, <2>0, <2>k, <2>2, <1>t DEF VisitedOnly
    <3>3. OneVersion' BY <3>0, <2>0, <2>k, <2>1, <1>t DEF OneVersion
    <3>4. TwoVersions'
      <4>1. aligned => k \notin Changed BY <2>a, <2>5
      <4> QED BY <4>1, <3>0, <2>0, <2>k, <2>2, <1>t DEF TwoVersions
    <3>5. RecordsIntact' BY <3>0, <2>0, <2>k, <1>t DEF RecordsIntact, Rec
    <3>6. OneRecordEach' /\ DirtyIffRecords'
      BY <3>0, <1>t DEF OneRecordEach, DirtyIffRecords
    <3> QED BY <3>1, <2>4, <3>2, <3>3, <3>4, <3>5, <3>6 DEF WalkInv
  <2>6. CASE InsertBoth(k) /\ TRUE \in Answers(k)
    <3>2. /\ removed' \in Maps /\ added' \in Maps /\ recs' \in Seq(Recs) /\ dirty'
          /\ Mapped(removed') = Mapped(removed) \cup {k}
          /\ Mapped(added') = Mapped(added) \cup {k}
          /\ (Len(recs) = Cardinality(Mapped(removed)) + Cardinality(Mapped(added)))'
          /\ removed'[k] = Len(recs) /\ recs'[Len(recs) + 1] = Rec(old, k)
          /\ added'[k] = Len(recs) + 1 /\ recs'[Len(recs) + 2] = Rec(new, k)
          /\ Len(recs') = Len(recs) + 2
          /\ \A i \in 1..Len(recs) : recs'[i] = recs[i]
          /\ \A j \in Keys \ {k} : removed'[j] = removed[j] /\ added'[j] = added[j]
      BY <2>0, <2>6, StepBoth
    <3>r. /\ \A j \in Mapped(removed) :
               /\ j \in OldKeys' /\ removed[j] \in Nat
               /\ removed[j] < Len(recs) /\ removed[j] < Len(recs')
               /\ recs'[removed[j] + 1] = Rec(old', j)
          /\ \A j \in Mapped(added) :
               /\ j \in NewKeys' /\ added[j] \in Nat
               /\ added[j] < Len(recs) /\ added[j] < Len(recs')
               /\ recs'[added[j] + 1] = Rec(new', j)
      <4>1. Len(recs') \in Nat /\ Len(recs) <= Len(recs') BY <3>2, <1>l
      <4>2. UNCHANGED given BY <2>0 DEF given
      <4> QED BY <4>1, <4>2, <3>2, <1>t, KeptRecords
    <3>3. TypeOK'
      <4>1. dirty' \in BOOLEAN BY <2>6 DEF InsertBoth
      <4> QED BY <4>1, <2>0, <3>2, <1>t DEF TypeOK
    <3>5. VisitedOnly' BY <2>0, <2>k, <2>1, <3>2, <1>t DEF VisitedOnly
    <3>6. OneVersion' BY <2>0, <2>k, <3>2, <1>t DEF OneVersion
    <3>7. TwoVersions'
      <4>1. aligned => k \in Changed BY <2>a, <2>6
      <4> QED BY <4>1, <2>0, <2>k, <3>2, <1>t DEF TwoVersions
    <3>8. RecordsIntact'
      <4>1. ASSUME NEW j \in Mapped(removed')
            PROVE  /\ j \in OldKeys' /\ removed'[j] < Len(recs')
                   /\ recs'[removed'[j] + 1] = Rec(old', j)
        <5>1. CASE j = k BY <5>1, <2>0, <2>k, <2>1, <3>2, <1>l DEF Rec
        <5>2. CASE j # k
          <6>1. j \in Mapped(removed) BY <5>2, <3>2
          <6>2. removed'[j] = removed[j] BY <6>1, <5>2, <3>2, <1>f
          <6> QED BY <6>1, <6>2, <3>r
        <5> QED BY <5>1, <5>2
      <4>2. ASSUME NEW j \in Mapped(added')
            PROVE  /\ j \in NewKeys' /\ added'[j] < Len(recs')
                   /\ recs'[added'[j] + 1] = Rec(new', j)
        <5>1. CASE j = k
          <6>1. Len(recs) + 1 + 1 = Len(recs) + 2 /\ Len(recs) + 1 < Len(recs) + 2
            BY <1>l
          <6> QED BY <6>1, <5>1, <2>0, <2>k, <2>1, <3>2 DEF Rec
        <5>2. CASE j # k
          <6>1. j \in Mapped(added) BY <5>2, <3>2
          <6>2. added'[j] = added[j] BY <6>1, <5>2, <3>2, <1>f
          <6> QED BY <6>1, <6>2, <3>r
        <5> QED BY <5>1, <5>2
      <4>3. ASSUME NEW i \in Keys, NEW j \in Keys, removed'[i] = added'[j]
            PROVE  removed'[i] = NoOffset
        <5>1. CASE i = k /\ j = k BY <5>1, <4>3, <3>2, <1>l
        <5>2. CASE i = k /\ j # k
          <6>1. added[j] = Len(recs) BY <5>2, <4>3, <3>2
          <6>2. j \in Mapped(added) BY <6>1, <1>l DEF Mapped, NoOffset
          <6> QED BY <6>1, <6>2, <3>r, <1>l
        <5>3. CASE i # k /\ j = k
          <6>1. removed[i] = Len(recs) + 1 BY <5>3, <4>3, <3>2
          <6>2. i \in Mapped(removed) BY <6>1, <1>l DEF Mapped, NoOffset
          <6> QED BY <6>1, <6>2, <3>r, <1>l
        <5>4. CASE i # k /\ j # k BY <5>4, <4>3, <3>2, <1>t DEF RecordsIntact
        <5> QED BY <5>1, <5>2, <5>3, <5>4
      <4> QED BY <4>1, <4>2, <4>3 DEF RecordsIntact
    <3>9. OneRecordEach' BY <3>2 DEF OneRecordEach
    <3>10. DirtyIffRecords' BY <3>2 DEF DirtyIffRecords
    <3> QED BY <3>3, <2>4, <3>5, <3>6, <3>7, <3>8, <3>9, <3>10 DEF WalkInv
  <2>7. PICK differ \in Answers(k) : IF differ THEN InsertBoth(k) ELSE UNCHANGED diff
    BY <2>0
  <2>8. differ \in BOOLEAN BY DEF Answers
  <2>9. CASE differ = TRUE BY <2>6, <2>7, <2>9
  <2>10. CASE differ = FALSE BY <2>5, <2>7, <2>10
  <2> QED BY <2>8, <2>9, <2>10
<1>4. CASE UNCHANGED vars
  <2>1. /\ aligned' = aligned /\ old' = old /\ new' = new /\ todoOld' = todoOld /\ todoNew' = todoNew
        /\ removed' = removed /\ added' = added /\ recs' = recs /\ dirty' = dirty
    BY <1>4 DEF vars, given, diff
  <2>k. OldKeys' = OldKeys /\ NewKeys' = NewKeys /\ Changed' = Changed
    BY <2>1 DEF OldKeys, NewKeys, Changed
  <2>2. TypeOK' BY <2>1, <1>t DEF TypeOK
  <2>3. Ordered' BY <2>1, <2>k, <1>t DEF Ordered
  <2>4. VisitedOnly' /\ OneVersion' BY <2>1, <2>k, <1>t DEF VisitedOnly, OneVersion
  <2>5. TwoVersions' BY <2>1, <2>k, <1>t DEF TwoVersions
  <2>6. RecordsIntact' BY <2>1, <2>k, <1>t DEF RecordsIntact, Rec
  <2>7. OneRecordEach' /\ DirtyIffRecords' BY <2>1, <1>t DEF OneRecordEach, DirtyIffRecords
  <2> QED BY <2>2, <2>3, <2>4, <2>5, <2>6, <2>7 DEF WalkInv
<1> QED BY <1>1, <1>2, <1>3, <1>4 DEF Next, Finished
-----------------------------------------------------------------------------
(* The walk keeps its invariant, whatever the two versions.                *)
THEOREM WalkInvariant == Spec => []WalkInv
<1>1. Init => WalkInv BY WalkInit
<1>2. WalkInv /\ [Next]_vars => WalkInv' BY WalkStep
<1> QED BY <1>1, <1>2, PTL DEF Spec

(* Every variable keeps its type (ssa_db_diff_table_cmp_v2).               *)
THEOREM DiffTypeCorrect == Spec => []TypeOK
<1>1. WalkInv => TypeOK BY DEF WalkInv
<1> QED BY <1>1, WalkInvariant, PTL

(* What the invariant says at the end of a walk.                           *)
LEMMA WalkExact == WalkInv => DiffExact
<1> SUFFICES ASSUME aligned, WalkInv, Done
             PROVE  /\ Mapped(removed) = (OldKeys \ NewKeys) \cup Changed
                    /\ Mapped(added) = (NewKeys \ OldKeys) \cup Changed
  BY DEF DiffExact, Exact
<1>1. todoOld = {} /\ todoNew = {} BY DEF Done
<1>2. Changed \subseteq OldKeys \cap NewKeys BY DEF Changed
<1>3. \A k \in OldKeys \cap NewKeys :
        /\ k \in Mapped(removed) <=> k \in Changed
        /\ k \in Mapped(added) <=> k \in Changed
  BY <1>1 DEF WalkInv, TwoVersions
<1>4. /\ Mapped(removed) \subseteq OldKeys /\ Mapped(added) \subseteq NewKeys
      /\ OldKeys \ NewKeys \subseteq Mapped(removed)
      /\ NewKeys \ OldKeys \subseteq Mapped(added)
  BY <1>1 DEF WalkInv, VisitedOnly, OneVersion
<1> QED BY <1>2, <1>3, <1>4

(* At the end of the walk the difference removes and adds exactly the      *)
(* records the rules of ssa_comparison.c:682-695 ask for, provided the     *)
(* compare function looks at the pair of records it was asked about.       *)
THEOREM DifferenceIsExact == Spec => []DiffExact
<1> QED BY WalkExact, WalkInvariant, PTL

(* What the difference says of a key is true and in its array throughout   *)
(* the walk, for every compare function.                                   *)
THEOREM RecordsStayIntact == Spec => []RecordsIntact
<1>1. WalkInv => RecordsIntact BY DEF WalkInv
<1> QED BY <1>1, WalkInvariant, PTL

(* What a consumer makes of a difference that has the invariant.           *)
LEMMA WalkCatchesUp == WalkInv => ConsumerCatchesUp
<1> SUFFICES ASSUME WalkInv, Done
             PROVE  /\ DOMAIN Applied = NewKeys
                    /\ aligned => Applied = Contents(new)
  BY DEF ConsumerCatchesUp
<1>1. todoOld = {} /\ todoNew = {} BY DEF Done
<1>2. /\ Mapped(removed) \subseteq OldKeys /\ Mapped(added) \subseteq NewKeys
      /\ OldKeys \ NewKeys \subseteq Mapped(removed)
      /\ NewKeys \ OldKeys \subseteq Mapped(added)
  BY <1>1 DEF WalkInv, VisitedOnly, OneVersion
<1>3. \A k \in OldKeys \cap NewKeys :
        /\ k \in Mapped(removed) <=> k \in Mapped(added)
        /\ aligned => (k \in Mapped(removed) <=> k \in Changed)
  BY <1>1 DEF WalkInv, TwoVersions
<1>4. (OldKeys \ Mapped(removed)) \cup Mapped(added) = NewKeys BY <1>2, <1>3
<1>5. ASSUME aligned, NEW k \in NewKeys
      PROVE  (IF k \in Mapped(added) THEN recs[added[k] + 1] ELSE Rec(old, k)) = Rec(new, k)
  <2>1. CASE k \in Mapped(added) BY <2>1 DEF WalkInv, RecordsIntact
  <2>2. CASE k \notin Mapped(added)
    <3>1. k \in OldKeys \cap NewKeys /\ k \notin Changed BY <2>2, <1>2, <1>3, <1>5
    <3> QED BY <3>1, <2>2 DEF Changed
  <2> QED BY <2>1, <2>2
<1>6. DOMAIN Applied = NewKeys BY <1>4 DEF Applied
<1>7. ASSUME aligned PROVE Applied = Contents(new)
  BY <1>4, <1>5, <1>7 DEF Applied, Contents, NewKeys
<1> QED BY <1>6, <1>7

(* A consumer of the old version that removes and then adds ends with the  *)
(* keys of the new one, for every compare function, and with its records,  *)
(* for an exact one.                                                       *)
THEOREM ConsumersCatchUp == Spec => []ConsumerCatchesUp
<1> QED BY WalkCatchesUp, WalkInvariant, PTL

(* The array has a record for each entry of the maps, and no more.         *)
LEMMA WalkFits == WalkInv => FitsDifference
<1> SUFFICES ASSUME WalkInv PROVE FitsDifference OBVIOUS
<1>1. Mapped(removed) \subseteq OldKeys /\ Mapped(added) \subseteq NewKeys
  BY DEF WalkInv, VisitedOnly
<1>2. /\ Cardinality(Mapped(removed)) \in Nat /\ Cardinality(Mapped(added)) \in Nat
      /\ Cardinality(OldKeys) \in Nat /\ Cardinality(NewKeys) \in Nat
      /\ IsFiniteSet(OldKeys) /\ IsFiniteSet(NewKeys)
  BY KeyFacts DEF OldKeys, NewKeys
<1>3. /\ Cardinality(Mapped(removed)) <= Cardinality(OldKeys)
      /\ Cardinality(Mapped(added)) <= Cardinality(NewKeys)
  BY <1>1, <1>2, FS_Subset
<1>4. Len(recs) = Cardinality(Mapped(removed)) + Cardinality(Mapped(added))
  BY DEF WalkInv, OneRecordEach
<1> QED BY <1>2, <1>3, <1>4 DEF FitsDifference

(* The array of the difference is large enough for any two versions and    *)
(* any compare function (ssa_comparison.c:1255-1262).                      *)
THEOREM DifferenceFits == Spec => []FitsDifference
<1> QED BY WalkFits, WalkInvariant, PTL

(* A difference is dirty exactly when it has records, so that no change of *)
(* a table is dropped at ssa_comparison.c:1326 and nothing empty pushed.   *)
THEOREM DirtyMeansRecords == Spec => []DirtyIffRecords
<1>1. WalkInv => DirtyIffRecords BY DEF WalkInv
<1> QED BY <1>1, WalkInvariant, PTL
=============================================================================
