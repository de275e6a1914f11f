------------------------- MODULE SsaLftTableProofs --------------------------
(***************************************************************************)
(* Proofs about SsaLftTable, for any LIDs, values, block size and number   *)
(* of changes.                                                             *)
(***************************************************************************)
EXTENDS SsaLftTable, FiniteSetTheorems, TLAPS

-----------------------------------------------------------------------------
(* A table whose records lie within its array, every key with one of its   *)
(* own among the first ones.                                               *)
Fits(t) ==
    /\ IsTable(t)
    /\ SlotsSound(t)
    /\ \A offset \in DOMAIN t.tbl : offset < t.cap
    /\ Count(t) <= t.cap

LEMMA KeysFinite ==
    /\ IsFiniteSet(Keys)
    /\ \A S \in SUBSET Keys : IsFiniteSet(S) /\ Cardinality(S) \in Nat
    /\ \A t : IsFiniteSet(Mapped(t)) /\ Count(t) \in Nat /\ Mapped(t) \subseteq Keys
<1>1. IsFiniteSet(0 .. MaxLidBlocks - 1)
  BY LftTableAssumption, FS_Interval
<1>2. IsFiniteSet(Keys) BY <1>1, LftTableAssumption, FS_Product DEF Keys
<1>3. \A S \in SUBSET Keys : IsFiniteSet(S) /\ Cardinality(S) \in Nat
  BY <1>2, FS_Subset, FS_CardinalityType
<1>4. \A t : Mapped(t) \in SUBSET Keys BY DEF Mapped
<1> QED BY <1>2, <1>3, <1>4 DEF Count

LEMMA EmptyFits == Fits(EmptyTable) /\ Mapped(EmptyTable) = {}
<1> DEFINE t == EmptyTable
<1>1. Mapped(t) = {} BY DEF Mapped, EmptyTable
<1>2. Count(t) = 0 BY <1>1, FS_EmptySet DEF Count
<1>3. DOMAIN t.tbl = {} BY DEF EmptyTable
<1>4. IsTable(t)
  <2>1. t.map \in [Keys -> Nat \cup {NoOffset}] BY DEF EmptyTable
  <2>2. t.tbl \in [DOMAIN t.tbl -> Vals] BY <1>3 DEF EmptyTable
  <2>3. t.cap = 0 BY DEF EmptyTable
  <2>4. t = [map |-> t.map, tbl |-> t.tbl, cap |-> t.cap] BY DEF EmptyTable
  <2> QED BY <1>3, <2>1, <2>2, <2>3, <2>4 DEF IsTable
<1>5. t.cap = 0 BY DEF EmptyTable
<1>6. SlotsSound(t) BY <1>1 DEF SlotsSound
<1> QED BY <1>1, <1>2, <1>3, <1>4, <1>5, <1>6 DEF Fits

(* Entering a key that is not mapped, with room for one more.              *)
LEMMA EnterNew ==
    ASSUME NEW t, Fits(t), NEW k \in Keys \ Mapped(t), NEW v \in Vals, Count(t) < t.cap
    PROVE  /\ Fits(Enter(t, k, v, Count(t)))
           /\ Mapped(Enter(t, k, v, Count(t))) = Mapped(t) \cup {k}
           /\ Count(Enter(t, k, v, Count(t))) = Count(t) + 1
           /\ Enter(t, k, v, Count(t)).cap = t.cap
<1> DEFINE n == Count(t)
           e == Enter(t, k, v, n)
<1>1. /\ n \in Nat /\ t.cap \in Nat /\ n < t.cap
      /\ t.map \in [Keys -> Nat \cup {NoOffset}]
      /\ t.tbl \in [DOMAIN t.tbl -> Vals] /\ DOMAIN t.tbl \subseteq Nat
      /\ t = [map |-> t.map, tbl |-> t.tbl, cap |-> t.cap]
      /\ t.map[k] = NoOffset
  BY KeysFinite DEF Fits, IsTable, Mapped
<1>2. e = [map |-> [t.map EXCEPT ![k] = n],
           tbl |-> [o \in DOMAIN t.tbl \cup {n} |-> IF o = n THEN v ELSE t.tbl[o]],
           cap |-> t.cap]
  BY <1>1 DEF Enter
<1> HIDE DEF n, e
<1>3. /\ e.cap = t.cap
      /\ e.map[k] = n /\ \A j \in Keys \ {k} : e.map[j] = t.map[j]
      /\ e.map \in [Keys -> Nat \cup {NoOffset}]
      /\ DOMAIN e.tbl = DOMAIN t.tbl \cup {n}
      /\ e.tbl \in [DOMAIN e.tbl -> Vals]
      /\ e = [map |-> e.map, tbl |-> e.tbl, cap |-> e.cap]
  BY <1>1, <1>2
<1>4. IsTable(e) BY <1>1, <1>3 DEF IsTable
<1>5. Mapped(e) = Mapped(t) \cup {k} BY <1>1, <1>3 DEF Mapped, NoOffset
<1>6. Count(e) = n + 1
  BY <1>5, KeysFinite, FS_AddElement DEF Count, n
<1>7. SlotsSound(e)
  <2>1. \A j \in Mapped(t) : t.map[j] \in DOMAIN t.tbl /\ t.map[j] < n /\ t.map[j] \in Nat
    BY <1>1 DEF Fits, SlotsSound, n
  <2>2. \A j \in Mapped(t) : e.map[j] = t.map[j]
    BY <1>3, KeysFinite DEF Mapped
  <2>3. \A j \in Mapped(e) : e.map[j] \in DOMAIN e.tbl /\ e.map[j] < Count(e)
    BY <2>1, <2>2, <1>1, <1>3, <1>5, <1>6
  <2>4. ASSUME NEW i \in Mapped(e), NEW j \in Mapped(e), e.map[i] = e.map[j] PROVE i = j
    <3>1. CASE i = k \/ j = k BY <3>1, <2>1, <2>2, <2>4, <1>1, <1>3, <1>5
    <3>2. CASE i # k /\ j # k BY <3>2, <2>2, <2>4, <1>5 DEF Fits, SlotsSound
    <3> QED BY <3>1, <3>2
  <2> QED BY <2>3, <2>4 DEF SlotsSound
<1>8. (\A offset \in DOMAIN e.tbl : offset < e.cap) /\ Count(e) <= e.cap
  BY <1>1, <1>3, <1>6 DEF Fits
<1> QED BY <1>3, <1>4, <1>5, <1>6, <1>7, <1>8 DEF Fits, n, e

(* Entering a key that is mapped overwrites its record.                    *)
LEMMA EnterOld ==
    ASSUME NEW t, Fits(t), NEW k \in Mapped(t), NEW v \in Vals, NEW n
    PROVE  /\ Fits(Enter(t, k, v, n))
           /\ Mapped(Enter(t, k, v, n)) = Mapped(t)
           /\ Enter(t, k, v, n).cap = t.cap
<1> DEFINE o == t.map[k]
           e == Enter(t, k, v, n)
<1>1. /\ k \in Keys /\ o # NoOffset /\ o \in DOMAIN t.tbl
      /\ t.map \in [Keys -> Nat \cup {NoOffset}]
      /\ t.tbl \in [DOMAIN t.tbl -> Vals]
      /\ t = [map |-> t.map, tbl |-> t.tbl, cap |-> t.cap]
  BY KeysFinite DEF Fits, IsTable, SlotsSound, Mapped
<1>2. e = [map |-> t.map,
           tbl |-> [i \in DOMAIN t.tbl |-> IF i = o THEN v ELSE t.tbl[i]],
           cap |-> t.cap]
  BY <1>1 DEF Enter
<1> HIDE DEF o, e
<1>3. /\ e.cap = t.cap /\ e.map = t.map
      /\ DOMAIN e.tbl = DOMAIN t.tbl
      /\ e.tbl \in [DOMAIN e.tbl -> Vals]
      /\ e = [map |-> e.map, tbl |-> e.tbl, cap |-> e.cap]
  BY <1>1, <1>2
<1>4. Mapped(e) = Mapped(t) /\ Count(e) = Count(t) BY <1>3 DEF Mapped, Count
<1>5. Fits(e) BY <1>3, <1>4 DEF Fits, IsTable, SlotsSound
<1> QED BY <1>3, <1>4, <1>5 DEF e

(* realloc keeps a table as long as it keeps the records of its keys.      *)
LEMMA ReallocFits ==
    ASSUME NEW t, IsTable(t), SlotsSound(t), NEW cap \in Nat, Count(t) <= cap
    PROVE  /\ Fits(Realloc(t, cap))
           /\ Mapped(Realloc(t, cap)) = Mapped(t)
           /\ Count(Realloc(t, cap)) = Count(t)
           /\ Realloc(t, cap).cap = cap
<1> DEFINE e == Realloc(t, cap)
<1>1. /\ t.map \in [Keys -> Nat \cup {NoOffset}]
      /\ t.tbl \in [DOMAIN t.tbl -> Vals] /\ DOMAIN t.tbl \subseteq Nat
      /\ t = [map |-> t.map, tbl |-> t.tbl, cap |-> t.cap]
  BY DEF IsTable
<1>2. e = [map |-> t.map,
           tbl |-> [o \in {i \in DOMAIN t.tbl : i < cap} |-> t.tbl[o]],
           cap |-> cap]
  BY <1>1 DEF Realloc
<1> HIDE DEF e
<1>3. /\ e.cap = cap /\ e.map = t.map
      /\ DOMAIN e.tbl = {i \in DOMAIN t.tbl : i < cap}
      /\ e.tbl \in [DOMAIN e.tbl -> Vals]
      /\ e = [map |-> e.map, tbl |-> e.tbl, cap |-> e.cap]
  BY <1>1, <1>2
<1>4. Mapped(e) = Mapped(t) /\ Count(e) = Count(t) BY <1>3 DEF Mapped, Count
<1>5. IsTable(e) BY <1>1, <1>3 DEF IsTable
<1>6. SlotsSound(e)
  <2>1. \A j \in Mapped(t) : t.map[j] \in DOMAIN t.tbl /\ t.map[j] < Count(t) /\ t.map[j] \in Nat
    BY <1>1 DEF SlotsSound
  <2>2. \A j \in Mapped(t) : t.map[j] < cap BY <2>1, KeysFinite
  <2> QED BY <2>1, <2>2, <1>3, <1>4 DEF SlotsSound
<1>7. \A offset \in DOMAIN e.tbl : offset < e.cap BY <1>3
<1> QED BY <1>3, <1>4, <1>5, <1>6, <1>7 DEF Fits, e

(* ep_qmap_clear keeps the array.                                          *)
LEMMA ClearFits ==
    ASSUME NEW t, Fits(t)
    PROVE  /\ Fits(ClearMap(t))
           /\ Mapped(ClearMap(t)) = {}
           /\ ClearMap(t).cap = t.cap
<1> DEFINE e == ClearMap(t)
<1>1. /\ t.tbl \in [DOMAIN t.tbl -> Vals] /\ DOMAIN t.tbl \subseteq Nat
      /\ t.cap \in Nat
      /\ t = [map |-> t.map, tbl |-> t.tbl, cap |-> t.cap]
  BY DEF Fits, IsTable
<1>2. e = [map |-> [k \in Keys |-> NoOffset], tbl |-> t.tbl, cap |-> t.cap]
  BY <1>1 DEF ClearMap
<1> HIDE DEF e
<1>3. e.cap = t.cap /\ e.tbl = t.tbl /\ e.map = [k \in Keys |-> NoOffset]
  BY <1>2
<1>4. Mapped(e) = {} BY <1>3 DEF Mapped
<1>5. Count(e) = 0 BY <1>4, FS_EmptySet DEF Count
<1>6. IsTable(e)
  <2>1. e.map \in [Keys -> Nat \cup {NoOffset}] BY <1>3
  <2> QED BY <1>1, <1>2, <1>3, <2>1 DEF IsTable
<1>7. SlotsSound(e) BY <1>4 DEF SlotsSound
<1>8. \A offset \in DOMAIN e.tbl : offset < e.cap BY <1>3 DEF Fits
<1> QED BY <1>1, <1>3, <1>4, <1>5, <1>6, <1>7, <1>8 DEF Fits, e

(* The dump array has whole blocks; after it has grown there is room for   *)
(* one more record, whether it was full or not.                            *)
LEMMA GrownFits ==
    ASSUME NEW t, Fits(t), t.cap % BlockSize = 0
    PROVE  /\ Fits(Grown(t))
           /\ Mapped(Grown(t)) = Mapped(t)
           /\ Count(Grown(t)) = Count(t)
           /\ Grown(t).cap % BlockSize = 0
           /\ Count(t) < Grown(t).cap
<1>1. BlockSize \in Nat \ {0} BY LftTableAssumption
<1>2. Count(t) \in Nat /\ t.cap \in Nat /\ Count(t) <= t.cap
  BY KeysFinite DEF Fits, IsTable
<1>3. CASE Count(t) % BlockSize = 0
  <2> DEFINE m == Count(t) \div BlockSize + 1
             cap == m * BlockSize
  <2>1. Grown(t) = Realloc(t, cap) BY <1>3 DEF Grown
  <2>2. m \in Nat BY <1>1, <1>2
  <2>3. Count(t) < cap BY <1>1, <1>2
  <2> HIDE DEF m
  <2>4. cap \in Nat BY <1>1, <2>2
  <2>5. cap % BlockSize = 0 BY <1>1, <2>2
  <2> HIDE DEF cap
  <2>6. Count(t) <= cap BY <1>2, <2>3, <2>4
  <2> QED BY <2>1, <2>3, <2>4, <2>5, <2>6, ReallocFits DEF Fits
<1>4. CASE Count(t) % BlockSize # 0
  <2>1. Grown(t) = t BY <1>4 DEF Grown
  <2>2. Count(t) # t.cap BY <1>4
  <2> QED BY <2>1, <2>2, <1>2
<1> QED BY <1>3, <1>4
-----------------------------------------------------------------------------
(***************************************************************************)
(* The inductive invariant: the tables fit at every step, and what a loop  *)
(* has still to enter fits, too.  The full dump starts from an empty       *)
(* database, and the comparison merges only after the first one.           *)
(***************************************************************************)

FullDumpFits ==
    /\ (first /\ (pc = "poll" \/ (pc = "drain" /\ ~extracting))) => Mapped(db) = {}
    /\ pc = "full_dump" =>
         /\ extracting
         /\ todo \cap Mapped(db) = {}
         /\ Count(db) + Cardinality(todo) <= db.cap

CollectFits ==
    pc = "collect" =>
        /\ todo \subseteq Mapped(Source)
        /\ todo \cap Mapped(diff) = {}
        /\ Count(diff) + Cardinality(todo) <= diff.cap

MergeFits ==
    /\ pc \in {"resize", "merge"} => ~first
    /\ pc = "merge" =>
         /\ todo \subseteq Mapped(dump)
         /\ Count(db) + Cardinality(todo \ Mapped(db)) <= db.cap

TableInv ==
    /\ TypeOK
    /\ Fits(db) /\ Fits(dump) /\ Fits(diff)
    /\ dump.cap % BlockSize = 0
    /\ FullDumpFits /\ CollectFits /\ MergeFits

LEMMA TableInit == Init => TableInv
<1> SUFFICES ASSUME Init PROVE TableInv OBVIOUS
<1> USE DEF Init
<1>1. Fits(db) /\ Fits(dump) /\ Fits(diff) /\ Mapped(db) = {} BY EmptyFits
<1>2. TypeOK
  <2>1. lft_rec_list \in Seq([key : Keys, val : Vals]) OBVIOUS
  <2>2. changes \in 0..MaxChanges /\ extracts \in 0..MaxExtracts BY LftTableAssumption
  <2>3. IsTable(db) /\ IsTable(dump) /\ IsTable(diff) BY <1>1 DEF Fits
  <2> QED BY <2>1, <2>2, <2>3 DEF TypeOK
<1>3. dump.cap % BlockSize = 0
  <2>1. BlockSize \in Nat \ {0} BY LftTableAssumption
  <2>2. dump.cap = 0 BY DEF EmptyTable
  <2> QED BY <2>1, <2>2
<1>4. FullDumpFits /\ CollectFits /\ MergeFits
  BY <1>1 DEF FullDumpFits, CollectFits, MergeFits
<1> QED BY <1>1, <1>2, <1>3, <1>4 DEF TableInv

(* The records of the first full dump: at most one per switch and block of *)
(* LIDs, for which there is room.                                          *)
LEMMA FirstDumpFits ==
    ASSUME NEW switches \in SUBSET Lids, NEW lft_blocks \in 0..MaxLidBlocks,
           NEW S \in SUBSET (switches \X (0 .. lft_blocks - 1))
    PROVE  /\ Cardinality(switches) * lft_blocks * LidsPerPort \in Nat
           /\ Cardinality(S) \in Nat
           /\ Cardinality(S) <= Cardinality(switches) * lft_blocks * LidsPerPort
<1>1. IsFiniteSet(switches) /\ Cardinality(switches) \in Nat
  BY LftTableAssumption, FS_Subset, FS_CardinalityType
<1>2. lft_blocks \in Nat /\ LidsPerPort \in Nat \ {0} BY LftTableAssumption
<1>3. IsFiniteSet(0 .. lft_blocks - 1) /\ Cardinality(0 .. lft_blocks - 1) = lft_blocks
  BY <1>2, FS_Interval
<1> DEFINE P == switches \X (0 .. lft_blocks - 1)
           m == Cardinality(switches) * lft_blocks
<1>4. IsFiniteSet(P) /\ Cardinality(P) = m BY <1>1, <1>3, FS_Product
<1>5. Cardinality(S) \in Nat /\ Cardinality(S) <= m
  BY <1>4, FS_Subset, FS_CardinalityType
<1>6. m \in Nat BY <1>1, <1>2
<1> HIDE DEF m
<1>7. m <= m * LidsPerPort /\ m * LidsPerPort \in Nat BY <1>2, <1>6
<1> QED BY <1>5, <1>6, <1>7 DEF m

LEMMA TableStep == TableInv /\ [Next]_vars => TableInv'
<1> SUFFICES ASSUME TableInv, [Next]_vars PROVE TableInv' OBVIOUS
<1>t. /\ TypeOK /\ Fits(db) /\ Fits(dump) /\ Fits(diff)
      /\ dump.cap % BlockSize = 0
      /\ FullDumpFits /\ CollectFits /\ MergeFits
  BY DEF TableInv
<1>f. \A t : Fits(t) => IsTable(t) BY DEF Fits
<1>k. /\ Count(db) \in Nat /\ Count(dump) \in Nat /\ Count(diff) \in Nat
      /\ db.cap \in Nat /\ dump.cap \in Nat /\ diff.cap \in Nat
      /\ IsFiniteSet(todo) /\ Cardinality(todo) \in Nat
  BY <1>t, KeysFinite DEF Fits, IsTable, TypeOK
<1>p. \A k, S : k \in S /\ IsFiniteSet(S) /\ Cardinality(S) \in Nat =>
        /\ Cardinality(S \ {k}) = Cardinality(S) - 1
        /\ Cardinality(S) > 0
  <2> SUFFICES ASSUME NEW k, NEW S, k \in S, IsFiniteSet(S), Cardinality(S) \in Nat
               PROVE  Cardinality(S \ {k}) = Cardinality(S) - 1 /\ Cardinality(S) > 0
    OBVIOUS
  <2>1. Cardinality(S \ {k}) = Cardinality(S) - 1 BY FS_RemoveElement
  <2>2. Cardinality(S) # 0 BY FS_EmptySet
  <2> QED BY <2>1, <2>2
<1>1. CASE Report
  <2>1. TypeOK'
    <3>1. lft_rec_list' \in Seq([key : Keys, val : Vals]) BY <1>1, <1>t DEF Report, TypeOK
    <3>2. changes' \in 0..MaxChanges BY <1>1, <1>t, LftTableAssumption DEF Report, TypeOK
    <3> QED BY <3>1, <3>2, <1>1, <1>t DEF Report, TypeOK, tables
  <2> QED BY <2>1, <1>1, <1>t
      DEF Report, tables, TableInv, FullDumpFits, CollectFits, MergeFits, Source
<1>2. CASE ReadLftChange
  <2>1. TypeOK' BY <1>2, <1>t DEF ReadLftChange, TypeOK, tables, bounds
  <2> QED BY <2>1, <1>2, <1>t
      DEF ReadLftChange, tables, TableInv, FullDumpFits, CollectFits, MergeFits
<1>3. CASE ReadStartExtract
  <2>0. /\ pc = "poll" /\ extracting' = TRUE
        /\ lft_rec_list' = lft_rec_list /\ dump' = dump /\ diff' = diff
        /\ first' = first /\ changes' = changes
        /\ extracts < MaxExtracts /\ extracts' = extracts + 1
    BY <1>3 DEF ReadStartExtract
  <2>b. extracts' \in 0..MaxExtracts BY <2>0, <1>t, LftTableAssumption DEF TypeOK
  <2>1. CASE first
    <3>1. PICK switches \in SUBSET Lids, lft_blocks \in 0..MaxLidBlocks :
            /\ \E size \in [switches -> 0..lft_blocks] :
                 todo' = {k \in Keys : k[1] \in switches /\ k[2] < size[k[1]]}
            /\ db' = Realloc(db, Cardinality(switches) * lft_blocks * LidsPerPort)
            /\ pc' = "full_dump"
      BY <1>3, <2>1 DEF ReadStartExtract
    <3>2. PICK size \in [switches -> 0..lft_blocks] :
            todo' = {k \in Keys : k[1] \in switches /\ k[2] < size[k[1]]}
      BY <3>1
    <3>3. todo' \in SUBSET (switches \X (0 .. lft_blocks - 1))
      <4> SUFFICES ASSUME NEW k \in todo' PROVE k \in switches \X (0 .. lft_blocks - 1)
        OBVIOUS
      <4>1. /\ k \in Lids \X (0 .. MaxLidBlocks - 1)
            /\ k[1] \in switches /\ k[2] < size[k[1]]
        BY <3>2 DEF Keys
      <4>2. k[2] \in Nat /\ size[k[1]] \in Nat /\ size[k[1]] <= lft_blocks /\ lft_blocks \in Nat
        <5>1. k[2] \in 0 .. MaxLidBlocks - 1 BY <4>1
        <5>2. size[k[1]] \in 0..lft_blocks BY <4>1
        <5>3. MaxLidBlocks \in Nat BY LftTableAssumption
        <5> QED BY <5>1, <5>2, <5>3
      <4>3. k[2] \in 0 .. lft_blocks - 1 BY <4>1, <4>2
      <4> QED BY <4>1, <4>3
    <3> DEFINE room == Cardinality(switches) * lft_blocks * LidsPerPort
    <3>4. room \in Nat /\ Cardinality(todo') \in Nat /\ Cardinality(todo') <= room
      BY <3>3, FirstDumpFits
    <3> HIDE DEF room
    <3>5. Mapped(db) = {} BY <2>0, <2>1, <1>t DEF FullDumpFits
    <3>6. Count(db) = 0 BY <3>5, FS_EmptySet DEF Count
    <3>7. Fits(db') /\ Mapped(db') = {} /\ Count(db') = 0 /\ db'.cap = room
      <4>1. IsTable(db) /\ SlotsSound(db) /\ Count(db) <= room BY <3>4, <3>6, <1>t DEF Fits
      <4>2. db' = Realloc(db, room) BY <3>1 DEF room
      <4> QED BY <4>1, <4>2, <3>4, <3>5, <3>6, ReallocFits
    <3>8. TypeOK' BY <3>1, <3>2, <3>7, <2>0, <2>b, <1>t, <1>f DEF TypeOK
    <3>9. FullDumpFits' BY <3>1, <3>4, <3>7, <2>0 DEF FullDumpFits
    <3>10. CollectFits' /\ MergeFits' BY <3>1 DEF CollectFits, MergeFits
    <3> QED BY <3>7, <3>8, <3>9, <3>10, <2>0, <1>t DEF TableInv
  <2>2. CASE ~first
    <3>1. todo' = todo /\ db' = db /\ pc' = "drain" BY <1>3, <2>2 DEF ReadStartExtract
    <3>2. TypeOK' BY <3>1, <2>0, <2>b, <1>t DEF TypeOK
    <3> QED BY <3>1, <3>2, <2>0, <2>2, <1>t
        DEF TableInv, FullDumpFits, CollectFits, MergeFits
  <2> QED BY <2>1, <2>2
<1>4. CASE FullDumpRecord
  <2>1. PICK k \in todo, v \in Vals :
          db' = Enter(db, k, v, Count(db)) /\ todo' = todo \ {k}
    BY <1>4 DEF FullDumpRecord
  <2>2. /\ pc = "full_dump" /\ pc' = pc /\ extracting' = extracting /\ first' = first
        /\ lft_rec_list' = lft_rec_list /\ dump' = dump /\ diff' = diff
        /\ changes' = changes /\ extracts' = extracts
    BY <1>4 DEF FullDumpRecord, bounds
  <2>3. /\ extracting /\ todo \cap Mapped(db) = {}
        /\ Count(db) + Cardinality(todo) <= db.cap
    BY <2>2, <1>t DEF FullDumpFits
  <2>4. k \in Keys \ Mapped(db) BY <2>1, <2>3, <1>t DEF TypeOK
  <2>5. Cardinality(todo') = Cardinality(todo) - 1 /\ Cardinality(todo) > 0
    BY <2>1, <1>k, <1>p
  <2>6. Count(db) < db.cap BY <2>3, <2>5, <1>k
  <2>7. /\ Fits(db') /\ Mapped(db') = Mapped(db) \cup {k}
        /\ Count(db') = Count(db) + 1 /\ db'.cap = db.cap
    BY <2>1, <2>4, <2>6, <1>t, EnterNew
  <2>8. FullDumpFits'
    <3>1. todo' \cap Mapped(db') = {} BY <2>1, <2>3, <2>7
    <3>2. Count(db') + Cardinality(todo') <= db'.cap BY <2>3, <2>5, <2>7, <1>k
    <3> QED BY <3>1, <3>2, <2>2, <2>3 DEF FullDumpFits
  <2>9. TypeOK' BY <2>1, <2>2, <2>7, <1>t, <1>f DEF TypeOK
  <2>10. CollectFits' /\ MergeFits' BY <2>2 DEF CollectFits, MergeFits
  <2> QED BY <2>2, <2>7, <2>8, <2>9, <2>10, <1>t DEF TableInv
<1>5. CASE FullDumpDone
  <2>1. TypeOK' BY <1>5, <1>t DEF FullDumpDone, TypeOK, tables, bounds
  <2> QED BY <2>1, <1>5, <1>t
      DEF FullDumpDone, tables, TableInv, FullDumpFits, CollectFits, MergeFits
<1>6. CASE DrainRecord
  <2> DEFINE rec == Head(lft_rec_list)
             g == Grown(dump)
  <2>1. /\ pc = "drain" /\ pc' = pc /\ extracting' = extracting /\ first' = first
        /\ lft_rec_list # <<>> /\ lft_rec_list' = Tail(lft_rec_list)
        /\ db' = db /\ diff' = diff /\ todo' = todo
        /\ changes' = changes /\ extracts' = extracts
        /\ dump' = Enter(g, rec.key, rec.val, Count(dump))
    BY <1>6 DEF DrainRecord, bounds
  <2>2. rec \in [key : Keys, val : Vals] /\ lft_rec_list' \in Seq([key : Keys, val : Vals])
    <3> DEFINE S == [key : Keys, val : Vals]
    <3>1. lft_rec_list \in Seq(S) BY <1>t DEF TypeOK
    <3> HIDE DEF S, g
    <3>2. Head(lft_rec_list) \in S /\ Tail(lft_rec_list) \in Seq(S)
      BY <3>1, <2>1
    <3>3. rec \in S /\ lft_rec_list' \in Seq(S) BY <3>2, <2>1
    <3> QED BY <3>3 DEF S
  <2>3. rec.key \in Keys /\ rec.val \in Vals BY <2>2
  <2>4. /\ Fits(g) /\ Count(g) = Count(dump) /\ Count(g) < g.cap /\ g.cap % BlockSize = 0
    BY <1>t, GrownFits
  <2> HIDE DEF rec, g
  <2>5. Fits(dump') /\ dump'.cap = g.cap
    <3>1. CASE rec.key \in Mapped(g) BY <3>1, <2>1, <2>3, <2>4, EnterOld
    <3>2. CASE rec.key \notin Mapped(g)
      <4>1. dump' = Enter(g, rec.key, rec.val, Count(g)) BY <2>1, <2>4
      <4>2. rec.key \in Keys \ Mapped(g) BY <3>2, <2>3
      <4> QED BY <4>1, <4>2, <2>3, <2>4, EnterNew
    <3> QED BY <3>1, <3>2
  <2>6. TypeOK' BY <2>1, <2>2, <2>5, <1>t, <1>f DEF TypeOK
  <2>7. FullDumpFits' /\ CollectFits' /\ MergeFits'
    BY <2>1, <1>t DEF FullDumpFits, CollectFits, MergeFits
  <2> QED BY <2>1, <2>4, <2>5, <2>6, <2>7, <1>t DEF TableInv
<1>7. CASE DrainDone
  <2>1. TypeOK' BY <1>7, <1>t DEF DrainDone, TypeOK, tables, bounds
  <2> QED BY <2>1, <1>7, <1>t
      DEF DrainDone, tables, TableInv, TypeOK, FullDumpFits, CollectFits, MergeFits
<1>8. CASE Compare
  <2>1. /\ lft_rec_list' = lft_rec_list /\ db' = db /\ dump' = dump /\ first' = first
        /\ extracting' = extracting /\ changes' = changes /\ extracts' = extracts
        /\ pc' = "collect" /\ todo' = Mapped(Source)
        /\ diff' = Realloc(EmptyTable, Count(db) + Count(dump))
    BY <1>8 DEF Compare, bounds
  <2> DEFINE room == Count(db) + Count(dump)
  <2>2. room \in Nat /\ Cardinality(Mapped(Source)) <= room BY <1>k DEF Source, Count
  <2>3. Fits(diff') /\ Mapped(diff') = {} /\ Count(diff') = 0 /\ diff'.cap = room
    <3>1. Mapped(EmptyTable) = {} /\ IsTable(EmptyTable) /\ SlotsSound(EmptyTable)
      BY EmptyFits DEF Fits
    <3>2. Count(EmptyTable) = 0 BY <3>1, FS_EmptySet DEF Count
    <3>3. Count(EmptyTable) <= room BY <3>2, <2>2
    <3>4. diff' = Realloc(EmptyTable, room) BY <2>1
    <3> HIDE DEF room
    <3> QED BY <3>1, <3>2, <3>3, <3>4, <2>2, ReallocFits
  <2>4. todo' \subseteq Keys BY <2>1, KeysFinite
  <2>5. TypeOK' BY <2>1, <2>3, <2>4, <1>t, <1>f DEF TypeOK
  <2>6. CollectFits'
    <3>1. Source' = Source BY <2>1 DEF Source
    <3>2. Count(diff') + Cardinality(todo') <= diff'.cap
      BY <2>1, <2>2, <2>3, <1>k, KeysFinite DEF Count
    <3> QED BY <3>1, <3>2, <2>1, <2>3 DEF CollectFits
  <2>7. FullDumpFits' /\ MergeFits' BY <2>1 DEF FullDumpFits, MergeFits
  <2> QED BY <2>1, <2>3, <2>5, <2>6, <2>7, <1>t DEF TableInv
<1>9. CASE CollectRecord
  <2>1. PICK k \in todo :
          diff' = Enter(diff, k, Lookup(Source, k), Count(diff)) /\ todo' = todo \ {k}
    BY <1>9 DEF CollectRecord
  <2>2. /\ pc = "collect" /\ pc' = pc /\ extracting' = extracting /\ first' = first
        /\ lft_rec_list' = lft_rec_list /\ db' = db /\ dump' = dump
        /\ changes' = changes /\ extracts' = extracts
    BY <1>9 DEF CollectRecord, bounds
  <2>3. /\ todo \subseteq Mapped(Source) /\ todo \cap Mapped(diff) = {}
        /\ Count(diff) + Cardinality(todo) <= diff.cap
    BY <2>2, <1>t DEF CollectFits
  <2>4. k \in Keys \ Mapped(diff) BY <2>1, <2>3, <1>t DEF TypeOK
  <2>5. Lookup(Source, k) \in Vals
    <3>1. Fits(Source) BY <1>t DEF Source
    <3>2. k \in Mapped(Source) BY <2>1, <2>3
    <3> QED BY <3>1, <3>2 DEF Fits, SlotsSound, IsTable, Lookup
  <2>6. Cardinality(todo') = Cardinality(todo) - 1 /\ Cardinality(todo) > 0
    BY <2>1, <1>k, <1>p
  <2>7. Count(diff) < diff.cap BY <2>3, <2>6, <1>k
  <2>8. /\ Fits(diff') /\ Mapped(diff') = Mapped(diff) \cup {k}
        /\ Count(diff') = Count(diff) + 1 /\ diff'.cap = diff.cap
    BY <2>1, <2>4, <2>5, <2>7, <1>t, EnterNew
  <2>9. CollectFits'
    <3>1. Source' = Source BY <2>2 DEF Source
    <3>2. todo' \cap Mapped(diff') = {} BY <2>1, <2>3, <2>8
    <3>3. Count(diff') + Cardinality(todo') <= diff'.cap BY <2>3, <2>6, <2>8, <1>k
    <3> QED BY <3>1, <3>2, <3>3, <2>1, <2>3 DEF CollectFits
  <2>10. TypeOK' BY <2>1, <2>2, <2>8, <1>t, <1>f DEF TypeOK
  <2>11. FullDumpFits' /\ MergeFits' BY <2>2 DEF FullDumpFits, MergeFits
  <2> QED BY <2>2, <2>8, <2>9, <2>10, <2>11, <1>t DEF TableInv
<1>10. CASE CollectDone
  <2>1. TypeOK' BY <1>10, <1>t DEF CollectDone, TypeOK, tables, bounds
  <2> QED BY <2>1, <1>10, <1>t
      DEF CollectDone, tables, TableInv, FullDumpFits, CollectFits, MergeFits
<1>11. CASE Resize
  <2> DEFINE fresh == Mapped(dump) \ Mapped(db)
  <2>1. /\ pc = "resize" /\ pc' = "merge" /\ extracting' = extracting /\ first' = first
        /\ lft_rec_list' = lft_rec_list /\ dump' = dump /\ diff' = diff
        /\ changes' = changes /\ extracts' = extracts
        /\ db' = RoomForNew /\ todo' = Mapped(dump)
    BY <1>11 DEF Resize, bounds
  <2>2. IsFiniteSet(fresh) /\ Cardinality(fresh) \in Nat BY KeysFinite
  <2>3. Fits(db') /\ Mapped(db') = Mapped(db) /\ Count(db') + Cardinality(fresh) <= db'.cap
    <3>1. CASE fresh = {}
      <4>1. db' = db BY <3>1, <2>1 DEF RoomForNew
      <4>2. Cardinality(fresh) = 0 BY <3>1, FS_EmptySet
      <4>3. Count(db) <= db.cap BY <1>t DEF Fits
      <4> HIDE DEF fresh
      <4> QED BY <4>1, <4>2, <4>3, <1>t, <1>k
    <3>2. CASE fresh # {}
      <4> DEFINE room == Count(db) + Cardinality(fresh)
      <4>1. db' = Realloc(db, room) BY <3>2, <2>1 DEF RoomForNew
      <4>2. room \in Nat /\ Count(db) <= room BY <2>2, <1>k
      <4>3. IsTable(db) /\ SlotsSound(db) BY <1>t DEF Fits
      <4>4. Fits(db') /\ Mapped(db') = Mapped(db) /\ Count(db') = Count(db) /\ db'.cap = room
        <5> HIDE DEF room
        <5> QED BY <4>1, <4>2, <4>3, ReallocFits
      <4> QED BY <4>2, <4>4
    <3> QED BY <3>1, <3>2
  <2>4. TypeOK'
    <3>1. todo' \subseteq Keys BY <2>1, KeysFinite
    <3> QED BY <3>1, <2>1, <2>3, <1>t, <1>f DEF TypeOK
  <2>5. MergeFits' BY <2>1, <2>3, <1>t DEF MergeFits
  <2>6. FullDumpFits' /\ CollectFits' BY <2>1 DEF FullDumpFits, CollectFits
  <2> QED BY <2>1, <2>3, <2>4, <2>5, <2>6, <1>t DEF TableInv
<1>12. CASE MergeRecord
  <2>1. PICK k \in todo :
          db' = Enter(db, k, Lookup(dump, k), Count(db)) /\ todo' = todo \ {k}
    BY <1>12 DEF MergeRecord
  <2>2. /\ pc = "merge" /\ pc' = pc /\ extracting' = extracting /\ first' = first
        /\ lft_rec_list' = lft_rec_list /\ dump' = dump /\ diff' = diff
        /\ changes' = changes /\ extracts' = extracts
    BY <1>12 DEF MergeRecord, bounds
  <2>3. /\ ~first /\ todo \subseteq Mapped(dump)
        /\ Count(db) + Cardinality(todo \ Mapped(db)) <= db.cap
    BY <2>2, <1>t DEF MergeFits
  <2>4. k \in Keys /\ Lookup(dump, k) \in Vals
    BY <2>1, <2>3, <1>t DEF TypeOK, Fits, SlotsSound, IsTable, Lookup
  <2>5. IsFiniteSet(todo \ Mapped(db)) /\ Cardinality(todo \ Mapped(db)) \in Nat
    BY <1>t, KeysFinite DEF TypeOK
  <2>6. Fits(db') /\ Count(db') + Cardinality(todo' \ Mapped(db')) <= db'.cap
    <3>1. CASE k \in Mapped(db)
      <4>1. Fits(db') /\ Mapped(db') = Mapped(db) /\ db'.cap = db.cap
        BY <3>1, <2>1, <2>4, <1>t, EnterOld
      <4>2. todo' \ Mapped(db') = todo \ Mapped(db) BY <3>1, <4>1, <2>1
      <4> QED BY <4>1, <4>2, <2>3 DEF Count
    <3>2. CASE k \notin Mapped(db)
      <4> DEFINE new == todo \ Mapped(db)
      <4>1. k \in new BY <3>2, <2>1
      <4>2. Cardinality(new \ {k}) = Cardinality(new) - 1 /\ Cardinality(new) > 0
        BY <4>1, <2>5, <1>p
      <4>3. Count(db) < db.cap BY <4>2, <2>3, <2>5, <1>k
      <4>4. /\ Fits(db') /\ Mapped(db') = Mapped(db) \cup {k}
            /\ Count(db') = Count(db) + 1 /\ db'.cap = db.cap
        BY <3>2, <4>3, <2>1, <2>4, <1>t, EnterNew
      <4>5. todo' \ Mapped(db') = new \ {k} BY <4>4, <2>1
      <4>6. Cardinality(todo' \ Mapped(db')) = Cardinality(new) - 1 BY <4>2, <4>5
      <4>7. Cardinality(new) \in Nat /\ Count(db) + Cardinality(new) <= db.cap
        BY <2>3, <2>5
      <4> HIDE DEF new
      <4>8. Count(db') + Cardinality(todo' \ Mapped(db')) <= db'.cap
        BY <4>4, <4>6, <4>7, <1>k
      <4> QED BY <4>4, <4>8
    <3> QED BY <3>1, <3>2
  <2>7. TypeOK' BY <2>1, <2>2, <2>6, <1>t, <1>f DEF TypeOK
  <2>8. MergeFits' BY <2>1, <2>2, <2>3, <2>6 DEF MergeFits
  <2>9. FullDumpFits' /\ CollectFits' BY <2>2 DEF FullDumpFits, CollectFits
  <2> QED BY <2>2, <2>6, <2>7, <2>8, <2>9, <1>t DEF TableInv
<1>13. CASE MergeDone
  <2>1. /\ pc = "merge" /\ pc' = "poll" /\ extracting' = extracting /\ first' = first
        /\ lft_rec_list' = lft_rec_list /\ db' = db /\ diff' = diff /\ todo' = todo
        /\ changes' = changes /\ extracts' = extracts /\ dump' = ClearMap(dump)
    BY <1>13 DEF MergeDone, bounds
  <2>2. Fits(dump') /\ dump'.cap = dump.cap BY <2>1, <1>t, ClearFits
  <2>3. ~first BY <2>1, <1>t DEF MergeFits
  <2>4. TypeOK' BY <2>1, <2>2, <1>t, <1>f DEF TypeOK
  <2>5. FullDumpFits' /\ CollectFits' /\ MergeFits'
    BY <2>1, <2>3 DEF FullDumpFits, CollectFits, MergeFits
  <2> QED BY <2>1, <2>2, <2>4, <2>5, <1>t DEF TableInv
<1>14. CASE UNCHANGED vars
  BY <1>14, <1>t DEF vars, tables, bounds, TableInv, TypeOK, FullDumpFits, CollectFits,
                     MergeFits, Source
<1> QED BY <1>1, <1>2, <1>3, <1>4, <1>5, <1>6, <1>7, <1>8, <1>9, <1>10, <1>11,
           <1>12, <1>13, <1>14 DEF Next, FullDump, Drain, Comparison, Merging
-----------------------------------------------------------------------------
(* The tables fit at every step of every behaviour.                        *)
THEOREM TableInvariant == Spec => []TableInv
<1>1. Init => TableInv BY TableInit
<1>2. TableInv /\ [Next]_vars => TableInv' BY TableStep
<1> QED BY <1>1, <1>2, PTL DEF Spec

(* Maps, arrays and the list keep their types; no offset and no capacity   *)
(* computed by the code is negative.                                       *)
THEOREM TablesTypeCorrect == Spec => []TypeOK
<1>1. TableInv => TypeOK BY DEF TableInv
<1> QED BY <1>1, TableInvariant, PTL

(* No record is written beyond its array, however many changes there are   *)
(* between two extractions and whatever the sizes of the subnet and of a   *)
(* block of records (ssa_extract.c:139-148, 680-687, ssa_comparison.c:     *)
(* 1262-1269 and 1296-1312).                                               *)
THEOREM NeverBeyondArray == Spec => []WithinCapacity
<1>1. TableInv => WithinCapacity BY DEF TableInv, Fits, WithinCapacity
<1> QED BY <1>1, TableInvariant, PTL

(* Every key has a written record of its own, among the first ones of the  *)
(* array of its table.                                                     *)
THEOREM NeverSharedSlot == Spec => []NoSharedSlot
<1>1. TableInv => NoSharedSlot BY DEF TableInv, Fits, NoSharedSlot
<1> QED BY <1>1, TableInvariant, PTL
=============================================================================
