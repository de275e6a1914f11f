-------------------------- MODULE SsaLftStoreProofs --------------------------
(***************************************************************************)
(* SsaLftTable implements LftStore: arrays, offsets and capacities behave  *)
(* as plain stores of records by key, for any LIDs, values, block size and *)
(* number of changes.                                                      *)
(***************************************************************************)
EXTENDS SsaLftTableProofs, SequenceTheorems

-----------------------------------------------------------------------------
(* What the operations on a table do to its contents.                      *)

LEMMA ContentsMapped ==
    ASSUME NEW t, Fits(t)
    PROVE  /\ \A k \in Keys : Contents(t)[k] # None <=> k \in Mapped(t)
           /\ \A k \in Mapped(t) : Contents(t)[k] = Lookup(t, k) /\ Lookup(t, k) \in Vals
<1>1. ASSUME NEW k \in Mapped(t)
      PROVE  k \in Keys /\ Contents(t)[k] = Lookup(t, k) /\ Lookup(t, k) \in Vals
  <2>1. k \in Keys /\ t.map[k] # NoOffset BY <1>1 DEF Mapped
  <2>2. t.map[k] \in DOMAIN t.tbl /\ t.tbl \in [DOMAIN t.tbl -> Vals]
    BY <1>1 DEF Fits, IsTable, SlotsSound
  <2> QED BY <2>1, <2>2 DEF Contents, Lookup
<1>2. ASSUME NEW k \in Keys \ Mapped(t) PROVE Contents(t)[k] = None
  BY <1>2 DEF Mapped, Contents
<1>3. None \notin Vals BY LftTableAssumption
<1> QED BY <1>1, <1>2, <1>3

LEMMA ContentsEmpty == \A t : Mapped(t) = {} => Contents(t) = Store!Empty
BY DEF Contents, Mapped, Store!Empty

(* A record is entered for its key alone: no other key has its place.      *)
LEMMA ContentsEnter ==
    ASSUME NEW t, Fits(t), NEW k \in Keys, NEW v \in Vals
    PROVE  Contents(Enter(t, k, v, Count(t))) = [Contents(t) EXCEPT ![k] = v]
<1> DEFINE n == Count(t)
           offset == IF t.map[k] # NoOffset THEN t.map[k] ELSE n
           e == Enter(t, k, v, n)
<1>1. /\ n \in Nat
      /\ t.map \in [Keys -> Nat \cup {NoOffset}]
      /\ \A j \in Mapped(t) : t.map[j] \in DOMAIN t.tbl /\ t.map[j] < n /\ t.map[j] \in Nat
      /\ \A i, j \in Mapped(t) : t.map[i] = t.map[j] => i = j
  BY KeysFinite DEF Fits, IsTable, SlotsSound, Mapped
<1>2. e = [map |-> [t.map EXCEPT ![k] = offset],
           tbl |-> [o \in DOMAIN t.tbl \cup {offset} |-> IF o = offset THEN v ELSE t.tbl[o]],
           cap |-> t.cap]
  BY DEF Enter
<1>3. offset \in Nat /\ offset # NoOffset BY <1>1 DEF NoOffset
<1>4. ASSUME NEW j \in Mapped(t), j # k PROVE t.map[j] # offset
  <2>1. CASE k \in Mapped(t) BY <2>1, <1>1, <1>4 DEF Mapped
  <2>2. CASE k \notin Mapped(t)
    <3>1. offset = n BY <2>2 DEF Mapped
    <3> QED BY <3>1, <1>1, <1>4
  <2> QED BY <2>1, <2>2
<1> HIDE DEF n, offset, e
<1>5. /\ e.map[k] = offset /\ \A j \in Keys \ {k} : e.map[j] = t.map[j]
      /\ e.tbl[offset] = v
      /\ \A o \in DOMAIN t.tbl : o # offset => e.tbl[o] = t.tbl[o]
  BY <1>1, <1>2
<1>6. ASSUME NEW j \in Keys
      PROVE  Contents(e)[j] = IF j = k THEN v ELSE Contents(t)[j]
  <2>0. /\ Contents(e)[j] = IF e.map[j] = NoOffset THEN None ELSE e.tbl[e.map[j]]
        /\ Contents(t)[j] = IF t.map[j] = NoOffset THEN None ELSE t.tbl[t.map[j]]
    BY DEF Contents, Lookup
  <2>1. CASE j = k BY <2>0, <2>1, <1>3, <1>5
  <2>2. CASE j # k /\ j \in Mapped(t)
    <3>1. t.map[j] \in DOMAIN t.tbl /\ t.map[j] # offset BY <2>2, <1>1, <1>4
    <3> QED BY <2>0, <2>2, <3>1, <1>5
  <2>3. CASE j # k /\ j \notin Mapped(t)
    <3>1. t.map[j] = NoOffset BY <2>3 DEF Mapped
    <3> QED BY <2>0, <2>3, <3>1, <1>5
  <2> QED BY <2>1, <2>2, <2>3
<1>7. Contents(e) = [j \in Keys |-> Contents(e)[j]] /\ Contents(t) = [j \in Keys |-> Contents(t)[j]]
  BY DEF Contents
<1> QED BY <1>6, <1>7 DEF e, n

(* realloc keeps the contents as long as the mapped records fit.           *)
LEMMA ContentsRealloc ==
    ASSUME NEW t, IsTable(t), SlotsSound(t), NEW cap \in Nat, Count(t) <= cap
    PROVE  Contents(Realloc(t, cap)) = Contents(t)
<1> DEFINE e == Realloc(t, cap)
<1>1. e = [map |-> t.map,
           tbl |-> [o \in {i \in DOMAIN t.tbl : i < cap} |-> t.tbl[o]],
           cap |-> cap]
  BY DEF Realloc
<1>2. e.map = t.map BY <1>1
<1>3. ASSUME NEW j \in Mapped(t) PROVE e.tbl[t.map[j]] = t.tbl[t.map[j]]
  <2>1. t.map[j] \in DOMAIN t.tbl /\ t.map[j] < Count(t) /\ t.map[j] \in Nat /\ Count(t) \in Nat
    BY KeysFinite DEF SlotsSound, IsTable
  <2>2. t.map[j] < cap BY <2>1
  <2> QED BY <1>1, <2>1, <2>2
<1> HIDE DEF e
<1>4. \A j \in Keys : t.map[j] # NoOffset => j \in Mapped(t) BY DEF Mapped
<1> QED BY <1>2, <1>3, <1>4 DEF Contents, Lookup, e

LEMMA ContentsGrown ==
    ASSUME NEW t, Fits(t), t.cap % BlockSize = 0
    PROVE  Contents(Grown(t)) = Contents(t)
<1>1. BlockSize \in Nat \ {0} /\ Count(t) \in Nat BY LftTableAssumption, KeysFinite
<1> DEFINE m == Count(t) \div BlockSize + 1
           cap == m * BlockSize
<1>2. CASE Count(t) % BlockSize = 0
  <2>1. Grown(t) = Realloc(t, cap) BY <1>2 DEF Grown
  <2>2. m \in Nat BY <1>1
  <2>3. Count(t) < cap BY <1>1, <1>2
  <2> HIDE DEF m
  <2>4. cap \in Nat BY <1>1, <2>2
  <2> HIDE DEF cap
  <2>5. Count(t) <= cap BY <1>1, <2>3, <2>4
  <2> QED BY <2>1, <2>4, <2>5, ContentsRealloc DEF Fits
<1>3. CASE Count(t) % BlockSize # 0 BY <1>3 DEF Grown
<1> QED BY <1>2, <1>3

-----------------------------------------------------------------------------
(***************************************************************************)
(* Why the dump may be cleared after a merge: the loops of the comparison  *)
(* have copied every record they have passed, to the difference and then   *)
(* to the database, and the dump does not change meanwhile.                *)
(***************************************************************************)

Copied ==
    /\ pc = "collect" /\ ~first =>
         \A k \in Mapped(dump) \ todo : Contents(diff)[k] = Contents(dump)[k]
    /\ pc \in {"resize", "merge"} =>
         \A k \in Mapped(dump) : Contents(diff)[k] = Contents(dump)[k]
    /\ pc = "merge" =>
         \A k \in Mapped(dump) \ todo : Contents(db)[k] = Contents(dump)[k]

stores == <<lft_rec_list, db, dump, diff>>

StoreStep == Store!Next \/ UNCHANGED stores

(* A step of the worker or of OpenSM outside the comparison.               *)
LEMMA StoreReport == Report => StoreStep
<1> SUFFICES ASSUME Report PROVE StoreStep OBVIOUS
<1>1. PICK k \in Keys, v \in Vals : lft_rec_list' = Append(lft_rec_list, [key |-> k, val |-> v])
  BY DEF Report
<1>2. db' = db /\ dump' = dump /\ diff' = diff BY DEF Report, tables
<1>3. Store!Report(k, v) BY <1>1, <1>2 DEF Store!Report
<1> QED BY <1>3 DEF StoreStep, Store!Next

LEMMA StoreFullDump == TableInv /\ FullDumpRecord => StoreStep
<1> SUFFICES ASSUME TableInv, FullDumpRecord PROVE StoreStep OBVIOUS
<1>1. PICK k \in todo, v \in Vals : db' = Enter(db, k, v, Count(db)) BY DEF FullDumpRecord
<1>2. /\ pc = "full_dump" /\ lft_rec_list' = lft_rec_list /\ dump' = dump /\ diff' = diff
  BY DEF FullDumpRecord
<1>3. k \in Keys /\ k \notin Mapped(db) /\ Fits(db)
  BY <1>2 DEF TableInv, TypeOK, FullDumpFits
<1>4. Contents(db)[k] = None BY <1>3, ContentsMapped
<1>5. Contents(db') = [Contents(db) EXCEPT ![k] = v] BY <1>1, <1>3, ContentsEnter
<1>6. Store!Fill(k, v) BY <1>2, <1>4, <1>5 DEF Store!Fill
<1> QED BY <1>3, <1>6 DEF StoreStep, Store!Next

LEMMA StoreDrain == TableInv /\ DrainRecord => StoreStep
<1> SUFFICES ASSUME TableInv, DrainRecord PROVE StoreStep OBVIOUS
<1> DEFINE k == Head(lft_rec_list).key
           v == Head(lft_rec_list).val
           g == Grown(dump)
<1>1. /\ lft_rec_list # <<>> /\ lft_rec_list' = Tail(lft_rec_list)
      /\ dump' = Enter(g, k, v, Count(dump))
      /\ db' = db /\ diff' = diff
  BY DEF DrainRecord
<1>2. k \in Keys /\ v \in Vals
  <2>1. lft_rec_list \in Seq([key : Keys, val : Vals]) BY DEF TableInv, TypeOK
  <2>2. Head(lft_rec_list) \in [key : Keys, val : Vals]
    BY <1>1, <2>1, HeadTailProperties
  <2> QED BY <2>2
<1>3. Fits(g) /\ Count(g) = Count(dump) /\ Contents(g) = Contents(dump)
  BY GrownFits, ContentsGrown DEF TableInv
<1> HIDE DEF k, v, g
<1>4. Contents(dump') = [Contents(dump) EXCEPT ![k] = v]
  <2>1. Contents(Enter(g, k, v, Count(g))) = [Contents(g) EXCEPT ![k] = v]
    BY <1>2, <1>3, ContentsEnter
  <2> QED BY <2>1, <1>1, <1>3
<1>5. Store!Change BY <1>1, <1>4 DEF Store!Change, k, v
<1> QED BY <1>5 DEF StoreStep, Store!Next

(* The first full dump gets an empty array.                                *)
LEMMA StoreStart == TableInv /\ ReadStartExtract => UNCHANGED <<lft_rec_list, dump, diff>>
                                                     /\ Contents(db') = Contents(db)
<1> SUFFICES ASSUME TableInv, ReadStartExtract PROVE Contents(db') = Contents(db)
  BY DEF ReadStartExtract
<1>1. CASE first
  <2>1. PICK cap : db' = Realloc(db, cap) BY <1>1 DEF ReadStartExtract
  <2>2. Mapped(db) = {} BY <1>1 DEF TableInv, FullDumpFits, ReadStartExtract
  <2>3. Mapped(db') = {} BY <2>1, <2>2 DEF Realloc, Mapped
  <2> QED BY <2>2, <2>3, ContentsEmpty
<1>2. CASE ~first BY <1>2 DEF ReadStartExtract
<1> QED BY <1>1, <1>2

-----------------------------------------------------------------------------
(* The steps of the comparison, each with what it does to Copied.          *)

LEMMA StoreCompare == TableInv /\ Compare => StoreStep /\ Copied'
<1> SUFFICES ASSUME TableInv, Compare PROVE StoreStep /\ Copied' OBVIOUS
<1>1. /\ pc' = "collect" /\ todo' = Mapped(Source) /\ first' = first
      /\ diff' = Realloc(EmptyTable, Count(db) + Count(dump))
      /\ lft_rec_list' = lft_rec_list /\ db' = db /\ dump' = dump
  BY DEF Compare
<1>2. Contents(diff') = Store!Empty
  <2>1. Mapped(diff') = {} BY <1>1, EmptyFits DEF Realloc, Mapped
  <2> QED BY <2>1, ContentsEmpty
<1>3. Store!NewDiff BY <1>1, <1>2 DEF Store!NewDiff
<1>4. Copied' BY <1>1 DEF Copied, Source
<1> QED BY <1>3, <1>4 DEF StoreStep, Store!Next

LEMMA StoreCollect == TableInv /\ Copied /\ CollectRecord => StoreStep /\ Copied'
<1> SUFFICES ASSUME TableInv, Copied, CollectRecord PROVE StoreStep /\ Copied' OBVIOUS
<1>1. PICK k \in todo : /\ diff' = Enter(diff, k, Lookup(Source, k), Count(diff))
                        /\ todo' = todo \ {k}
  BY DEF CollectRecord
<1>2. /\ pc = "collect" /\ pc' = pc /\ first' = first
      /\ lft_rec_list' = lft_rec_list /\ db' = db /\ dump' = dump
  BY DEF CollectRecord
<1>3. k \in Mapped(Source) /\ Source \in {db, dump} /\ Fits(Source) /\ Fits(diff) /\ k \in Keys
  BY <1>2, KeysFinite DEF TableInv, CollectFits, Source
<1>4. /\ Contents(Source)[k] = Lookup(Source, k) /\ Lookup(Source, k) \in Vals
      /\ Contents(Source)[k] # None
  BY <1>3, ContentsMapped
<1>5. Contents(diff') = [Contents(diff) EXCEPT ![k] = Contents(Source)[k]]
  BY <1>1, <1>3, <1>4, ContentsEnter
<1>6. Store!Collect(k) BY <1>2, <1>3, <1>4, <1>5 DEF Store!Collect
<1>7. ASSUME ~first, NEW j \in Mapped(dump), j \notin todo'
      PROVE  Contents(diff')[j] = Contents(dump)[j]
  <2>1. DOMAIN Contents(diff) = Keys /\ j \in Keys BY KeysFinite DEF Contents
  <2>2. CASE j = k BY <1>5, <1>7, <2>1, <2>2 DEF Source
  <2>3. CASE j # k
    <3>1. Contents(diff)[j] = Contents(dump)[j] BY <1>1, <1>2, <1>7, <2>3 DEF Copied
    <3> QED BY <3>1, <1>5, <2>1, <2>3
  <2> QED BY <2>2, <2>3
<1>8. Copied' BY <1>2, <1>7 DEF Copied
<1> QED BY <1>3, <1>6, <1>8 DEF StoreStep, Store!Next

LEMMA StoreResize == TableInv /\ Copied /\ Resize => UNCHANGED <<lft_rec_list, dump, diff>>
                                                      /\ Contents(db') = Contents(db) /\ Copied'
<1> SUFFICES ASSUME TableInv, Copied, Resize
             PROVE  UNCHANGED <<lft_rec_list, dump, diff>> /\ Contents(db') = Contents(db) /\ Copied'
  OBVIOUS
<1> DEFINE new == Mapped(dump) \ Mapped(db)
           room == Count(db) + Cardinality(new)
<1>1. /\ pc = "resize" /\ pc' = "merge" /\ todo' = Mapped(dump)
      /\ db' = IF new # {} THEN Realloc(db, room) ELSE db
      /\ lft_rec_list' = lft_rec_list /\ dump' = dump /\ diff' = diff
  BY DEF Resize, RoomForNew
<1>2. room \in Nat /\ Count(db) <= room
  <2>1. Count(db) \in Nat /\ Cardinality(new) \in Nat BY KeysFinite
  <2> HIDE DEF new
  <2> QED BY <2>1
<1> HIDE DEF new, room
<1>3. Contents(db') = Contents(db)
  <2>1. Contents(Realloc(db, room)) = Contents(db)
    BY <1>2, ContentsRealloc DEF TableInv, Fits
  <2> QED BY <1>1, <2>1
<1>4. Copied' BY <1>1 DEF Copied
<1> QED BY <1>1, <1>3, <1>4

LEMMA StoreMerge == TableInv /\ Copied /\ MergeRecord => StoreStep /\ Copied'
<1> SUFFICES ASSUME TableInv, Copied, MergeRecord PROVE StoreStep /\ Copied' OBVIOUS
<1>1. PICK k \in todo : /\ db' = Enter(db, k, Lookup(dump, k), Count(db))
                        /\ todo' = todo \ {k}
  BY DEF MergeRecord
<1>2. /\ pc = "merge" /\ pc' = pc
      /\ lft_rec_list' = lft_rec_list /\ dump' = dump /\ diff' = diff
  BY DEF MergeRecord
<1>3. k \in Mapped(dump) /\ Fits(dump) /\ Fits(db) /\ k \in Keys
  BY <1>2, KeysFinite DEF TableInv, MergeFits
<1>4. /\ Contents(dump)[k] = Lookup(dump, k) /\ Lookup(dump, k) \in Vals
      /\ Contents(dump)[k] # None
  BY <1>3, ContentsMapped
<1>5. Contents(db') = [Contents(db) EXCEPT ![k] = Contents(dump)[k]]
  BY <1>1, <1>3, <1>4, ContentsEnter
<1>6. Store!Merge(k) BY <1>2, <1>4, <1>5 DEF Store!Merge
<1>7. ASSUME NEW j \in Mapped(dump), j \notin todo' PROVE Contents(db')[j] = Contents(dump)[j]
  <2>1. DOMAIN Contents(db) = Keys /\ j \in Keys BY KeysFinite DEF Contents
  <2>2. CASE j = k BY <1>5, <2>1, <2>2
  <2>3. CASE j # k
    <3>1. Contents(db)[j] = Contents(dump)[j] BY <1>1, <1>2, <1>7, <2>3 DEF Copied
    <3> QED BY <3>1, <1>5, <2>1, <2>3
  <2> QED BY <2>2, <2>3
<1>8. Copied' BY <1>2, <1>7 DEF Copied
<1> QED BY <1>3, <1>6, <1>8 DEF StoreStep, Store!Next

LEMMA StoreClear == TableInv /\ Copied /\ MergeDone => StoreStep /\ Copied'
<1> SUFFICES ASSUME TableInv, Copied, MergeDone PROVE StoreStep /\ Copied' OBVIOUS
<1>1. /\ pc = "merge" /\ todo = {} /\ dump' = ClearMap(dump) /\ pc' = "poll"
      /\ lft_rec_list' = lft_rec_list /\ db' = db /\ diff' = diff
  BY DEF MergeDone
<1>2. Contents(dump') = Store!Empty
  <2>1. Mapped(dump') = {} BY <1>1, ClearFits DEF TableInv
  <2> QED BY <2>1, ContentsEmpty
<1>3. \A k \in Keys : Contents(dump)[k] # None =>
        Contents(db)[k] = Contents(dump)[k] /\ Contents(diff)[k] = Contents(dump)[k]
  <2>1. \A k \in Keys : Contents(dump)[k] # None => k \in Mapped(dump)
    BY ContentsMapped DEF TableInv
  <2> QED BY <1>1, <2>1 DEF Copied
<1>4. Store!Clear BY <1>1, <1>2, <1>3 DEF Store!Clear
<1>5. Copied' BY <1>1 DEF Copied
<1> QED BY <1>4, <1>5 DEF StoreStep, Store!Next

-----------------------------------------------------------------------------
LEMMA StoreStuttering ==
    ASSUME UNCHANGED <<lft_rec_list, dump, diff>>, Contents(db') = Contents(db)
    PROVE  [Store!Next]_(Store!vars)
BY DEF Store!vars

LEMMA StoreNext == StoreStep => [Store!Next]_(Store!vars)
BY DEF StoreStep, stores, Store!vars

LEMMA StoreSteps ==
    TableInv /\ Copied /\ [Next]_vars => [Store!Next]_(Store!vars) /\ Copied'
<1> SUFFICES ASSUME TableInv, Copied, [Next]_vars
             PROVE  [Store!Next]_(Store!vars) /\ Copied'
  OBVIOUS
<1>1. CASE Report
  BY <1>1, StoreReport, StoreNext DEF Report, Copied, tables
<1>2. CASE ReadLftChange \/ FullDumpDone \/ DrainDone
  BY <1>2, StoreStuttering DEF ReadLftChange, FullDumpDone, DrainDone, tables, Copied
<1>3. CASE ReadStartExtract
  <2>1. Copied' BY <1>3 DEF ReadStartExtract, Copied
  <2> QED BY <1>3, <2>1, StoreStart, StoreStuttering
<1>4. CASE FullDumpRecord
  BY <1>4, StoreFullDump, StoreNext DEF FullDumpRecord, Copied
<1>5. CASE DrainRecord
  BY <1>5, StoreDrain, StoreNext DEF DrainRecord, Copied
<1>6. CASE Compare BY <1>6, StoreCompare, StoreNext
<1>7. CASE CollectRecord BY <1>7, StoreCollect, StoreNext
<1>8. CASE CollectDone
  <2>1. /\ pc = "collect" /\ todo = {} /\ pc' = IF first THEN "poll" ELSE "resize"
        /\ UNCHANGED <<lft_rec_list, db, dump, diff>>
    BY <1>8 DEF CollectDone, tables
  <2>2. Copied' BY <2>1 DEF Copied
  <2> QED BY <2>1, <2>2, StoreStuttering
<1>9. CASE Resize BY <1>9, StoreResize, StoreStuttering
<1>10. CASE MergeRecord BY <1>10, StoreMerge, StoreNext
<1>11. CASE MergeDone BY <1>11, StoreClear, StoreNext
<1>12. CASE UNCHANGED vars BY <1>12, StoreStuttering DEF vars, tables, Copied
<1> QED BY <1>1, <1>2, <1>3, <1>4, <1>5, <1>6, <1>7, <1>8, <1>9, <1>10, <1>11, <1>12
        DEF Next, FullDump, Drain, Comparison, Merging

(* The LFT tables are stores of records by key: a change overwrites the    *)
(* older one of its key and no other record, growing and shrinking loses   *)
(* none, and the dump is cleared only of what the database and the         *)
(* difference have.                                                        *)
THEOREM RefinesLftStore == Spec => ImplementsLftStore
<1>1. Init => Store!Init /\ Copied
  <2> SUFFICES ASSUME Init PROVE Store!Init /\ Copied OBVIOUS
  <2>1. /\ lft_rec_list = <<>> /\ pc = "poll"
        /\ db = EmptyTable /\ dump = EmptyTable /\ diff = EmptyTable
    BY DEF Init
  <2>2. Contents(EmptyTable) = Store!Empty BY EmptyFits, ContentsEmpty
  <2> QED BY <2>1, <2>2 DEF Store!Init, Copied
<1> QED BY <1>1, StoreSteps, TableInvariant, PTL DEF Spec, ImplementsLftStore, Store!Spec
=============================================================================
