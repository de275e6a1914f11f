---------------------------- MODULE SsaPortsProofs ----------------------------
(***************************************************************************)
(* Proofs about SsaPorts: what the pass over the ports (SsaExtractProofs)  *)
(* guarantees holds in every version, and the difference the walk writes   *)
(* brings a consumer from one version to the next.                         *)
(***************************************************************************)
EXTENDS SsaPorts, SsaExtractProofs

(* The slices of the records of t that d adds, in the extracted pkeys.     *)
Source(t, k) == 2 * Rec(t, k).off .. 2 * Rec(t, k).off + Rec(t, k).size - 1

Sources(d, t) == UNION {Source(t, k) : k \in DOMAIN d.added}

AddedIn(d, k) == d.recs[d.added[k] + 1]

RemovedIn(d, k) == d.recs[d.removed[k] + 1]

IsDiff(d) ==
    d = [removed |-> d.removed, added |-> d.added, recs |-> d.recs,
         pkeys |-> d.pkeys, offset |-> d.offset, dirty |-> d.dirty]

(* The removed records are old ones, the added ones new ones but for the   *)
(* offset of their pkeys.                                                  *)
RecordsOf(d, old, new) ==
    /\ IsDiff(d) /\ d.recs \in Seq(PortRecs)
    /\ \A k \in DOMAIN d.removed :
         /\ k \in DOMAIN old.map /\ d.removed[k] \in 0 .. Len(d.recs) - 1
         /\ RemovedIn(d, k) = Rec(old, k)
    /\ \A k \in DOMAIN d.added :
         /\ k \in DOMAIN new.map /\ d.added[k] \in 0 .. Len(d.recs) - 1
         /\ [AddedIn(d, k) EXCEPT !.off = Rec(new, k).off] = Rec(new, k)
    /\ d.dirty <=> d.recs # <<>>

(* The pkey array is as long as the slices that tile it, and, when no two  *)
(* records share pkeys, as what they were copied from.                     *)
SlicesOf(d) ==
    /\ d.offset \in Nat /\ DOMAIN d.pkeys = 0 .. d.offset - 1
    /\ UNION {Slice(AddedIn(d, k)) : k \in DOMAIN d.added} = 0 .. d.offset - 1
    /\ \A k, j \in DOMAIN d.added : k # j => Slice(AddedIn(d, k)) \cap Slice(AddedIn(d, j)) = {}

SourcesOf(d, new, net) ==
    HostsLinked(net) => IsFiniteSet(Sources(d, new)) /\ Cardinality(Sources(d, new)) = d.offset

(* What the consumer makes of the keys that have been visited.             *)
Walked(d, old, new, unseenOld, unseenNew) ==
    /\ unseenOld \subseteq DOMAIN old.map /\ unseenNew \subseteq DOMAIN new.map
    /\ DOMAIN d.removed \cap unseenOld = {} /\ DOMAIN d.added \cap unseenNew = {}
    /\ ((DOMAIN old.map \ unseenOld) \ DOMAIN d.removed) \cup DOMAIN d.added
         = DOMAIN new.map \ unseenNew

PortsInv ==
    /\ PassInv
    /\ GoodTable(previous.net, previous.ports) /\ GoodTable(current.net, current.ports)
    /\ RecordsOf(diff, previous.ports, current.ports)
    /\ SlicesOf(diff) /\ SourcesOf(diff, current.ports, current.net)
    /\ Walked(diff, previous.ports, current.ports, todoOld, todoNew)

-----------------------------------------------------------------------------
(***************************************************************************)
(* What a record more does to a difference.                                *)
(***************************************************************************)

LEMMA AppendRec ==
    ASSUME NEW Recs, NEW recs \in Seq(Recs), NEW rec \in Recs
    PROVE  LET all == Append(recs, rec)
           IN  /\ all \in Seq(Recs) /\ Len(recs) \in Nat /\ Len(all) = Len(recs) + 1
               /\ all # <<>> /\ all[Len(recs) + 1] = rec
               /\ \A i \in 0 .. Len(recs) - 1 : all[i + 1] = recs[i + 1]
<1> DEFINE all == Append(recs, rec)
<1>1. all \in Seq(Recs) /\ Len(recs) \in Nat /\ Len(all) = Len(recs) + 1 OBVIOUS
<1>2. all # <<>> BY <1>1
<1>3. all[Len(recs) + 1] = rec OBVIOUS
<1>4. ASSUME NEW i \in 0 .. Len(recs) - 1 PROVE all[i + 1] = recs[i + 1]
  <2>1. i + 1 \in 1 .. Len(recs) BY <1>1
  <2> QED BY <2>1
<1> QED BY <1>1, <1>2, <1>3, <1>4

(* A record with another offset.                                           *)
LEMMA OtherOffset ==
    ASSUME NEW rec \in PortRecs, NEW x \in Nat
    PROVE  LET r == [rec EXCEPT !.off = x]
           IN  /\ r \in PortRecs /\ r.off = x /\ r.size = rec.size
               /\ [r EXCEPT !.off = rec.off] = rec
BY DEF PortRecs

LEMMA RemovedForm ==
    ASSUME NEW d, IsDiff(d), NEW k
    PROVE  LET e == WithRemoved(d, k)
           IN  /\ IsDiff(e)
               /\ e.removed = MapWith(d.removed, k, Len(d.recs)) /\ e.added = d.added
               /\ e.recs = Append(d.recs, Rec(previous.ports, k)) /\ e.dirty
               /\ e.pkeys = d.pkeys /\ e.offset = d.offset
<1>1. PICK rem, add, recs, pkeys, offset, dirty :
        d = [removed |-> rem, added |-> add, recs |-> recs,
             pkeys |-> pkeys, offset |-> offset, dirty |-> dirty]
  BY DEF IsDiff
<1>2. WithRemoved(d, k)
        = [removed |-> MapWith(rem, k, Len(recs)), added |-> add,
           recs |-> Append(recs, Rec(previous.ports, k)),
           pkeys |-> pkeys, offset |-> offset, dirty |-> TRUE]
  <2> DEFINE M == MapWith(rem, k, Len(recs))
             R == Append(recs, Rec(previous.ports, k))
  <2>1. d.removed = rem /\ d.recs = recs BY <1>1
  <2>2. WithRemoved(d, k) = [d EXCEPT !.removed = M, !.recs = R, !.dirty = TRUE]
    BY <2>1 DEF WithRemoved
  <2> HIDE DEF M, R
  <2>3. WithRemoved(d, k) = [removed |-> M, added |-> add, recs |-> R, pkeys |-> pkeys,
                             offset |-> offset, dirty |-> TRUE]
    BY <1>1, <2>2
  <2> QED BY <2>3 DEF M, R
<1> QED BY <1>1, <1>2 DEF IsDiff

LEMMA AddedForm ==
    ASSUME NEW d, IsDiff(d), NEW k
    PROVE  LET e == WithAdded(d, k)
               rec == Rec(current.ports, k)
           IN  /\ IsDiff(e)
               /\ e.added = MapWith(d.added, k, Len(d.recs)) /\ e.removed = d.removed
               /\ e.recs = Append(d.recs, [rec EXCEPT !.off = IF rec.size = 0 THEN rec.off
                                                              ELSE d.offset])
               /\ e.dirty
               /\ e.pkeys = WriteAt(d.pkeys, d.offset, Bytes(rec.off, rec.size))
               /\ e.offset = d.offset + rec.size
<1> DEFINE rec == Rec(current.ports, k)
           r == [rec EXCEPT !.off = IF rec.size = 0 THEN rec.off ELSE d.offset]
<1>1. PICK rem, add, recs, pkeys, offset, dirty :
        d = [removed |-> rem, added |-> add, recs |-> recs,
             pkeys |-> pkeys, offset |-> offset, dirty |-> dirty]
  BY DEF IsDiff
<1>2. WithAdded(d, k)
        = [removed |-> rem, added |-> MapWith(add, k, Len(recs)), recs |-> Append(recs, r),
           pkeys |-> WriteAt(pkeys, offset, Bytes(rec.off, rec.size)),
           offset |-> offset + rec.size, dirty |-> TRUE]
  <2> DEFINE M == MapWith(add, k, Len(recs))
             R == Append(recs, r)
             P == WriteAt(pkeys, offset, Bytes(rec.off, rec.size))
             O == offset + rec.size
  <2>1. d.added = add /\ d.recs = recs /\ d.pkeys = pkeys /\ d.offset = offset BY <1>1
  <2>2. WithAdded(d, k) = [d EXCEPT !.added = M, !.recs = R, !.pkeys = P, !.offset = O,
                                    !.dirty = TRUE]
    BY <2>1 DEF WithAdded
  <2> HIDE DEF M, R, P, O
  <2>3. WithAdded(d, k) = [removed |-> rem, added |-> M, recs |-> R, pkeys |-> P,
                           offset |-> O, dirty |-> TRUE]
    BY <1>1, <2>2
  <2> QED BY <2>3 DEF M, R, P, O
<1> HIDE DEF r
<1>3. /\ IsDiff(WithAdded(d, k))
      /\ WithAdded(d, k).added = MapWith(d.added, k, Len(d.recs))
      /\ WithAdded(d, k).removed = d.removed
      /\ WithAdded(d, k).recs = Append(d.recs, r) /\ WithAdded(d, k).dirty
      /\ WithAdded(d, k).pkeys = WriteAt(d.pkeys, d.offset, Bytes(rec.off, rec.size))
      /\ WithAdded(d, k).offset = d.offset + rec.size
  <2> HIDE DEF rec
  <2> QED BY <1>1, <1>2 DEF IsDiff
<1> QED BY <1>3 DEF r

LEMMA EmptyDiffGood ==
    ASSUME NEW old, NEW new, NEW net
    PROVE  /\ RecordsOf(EmptyDiff, old, new) /\ SlicesOf(EmptyDiff)
           /\ SourcesOf(EmptyDiff, new, net)
           /\ Walked(EmptyDiff, old, new, DOMAIN old.map, DOMAIN new.map)
<1> DEFINE d == EmptyDiff
<1>1. /\ DOMAIN d.removed = {} /\ DOMAIN d.added = {} /\ d.recs = <<>> /\ d.recs \in Seq(PortRecs)
      /\ DOMAIN d.pkeys = {} /\ d.offset = 0 /\ d.dirty = FALSE /\ IsDiff(d)
  BY DEF EmptyDiff, IsDiff
<1> HIDE DEF d
<1>2. RecordsOf(d, old, new) BY <1>1 DEF RecordsOf
<1>3. SlicesOf(d)
  <2>1. 0 .. d.offset - 1 = {} BY <1>1
  <2>2. UNION {Slice(AddedIn(d, k)) : k \in DOMAIN d.added} = {} BY <1>1
  <2> QED BY <1>1, <2>1, <2>2 DEF SlicesOf
<1>4. SourcesOf(d, new, net)
  <2>1. Sources(d, new) = {} BY <1>1 DEF Sources
  <2> QED BY <1>1, <2>1, FS_EmptySet DEF SourcesOf
<1>5. Walked(d, old, new, DOMAIN old.map, DOMAIN new.map) BY <1>1 DEF Walked
<1> QED BY <1>2, <1>3, <1>4, <1>5 DEF d

(* A removed record leaves the added ones and their pkeys alone.           *)
LEMMA RemovedStep ==
    ASSUME NEW d, NEW new, NEW net, NEW k,
           RecordsOf(d, previous.ports, new), SlicesOf(d), SourcesOf(d, new, net),
           Table(previous.ports, PortRecs), k \in DOMAIN previous.ports.map,
           k \notin DOMAIN d.removed
    PROVE  LET e == WithRemoved(d, k)
           IN  /\ DOMAIN e.removed = DOMAIN d.removed \cup {k} /\ DOMAIN e.added = DOMAIN d.added
               /\ RecordsOf(e, previous.ports, new) /\ SlicesOf(e) /\ SourcesOf(e, new, net)
<1> DEFINE e == WithRemoved(d, k)
           rec == Rec(previous.ports, k)
<1>1. /\ IsDiff(e)
      /\ e.removed = MapWith(d.removed, k, Len(d.recs)) /\ e.added = d.added
      /\ e.recs = Append(d.recs, rec) /\ e.dirty /\ e.pkeys = d.pkeys /\ e.offset = d.offset
  BY RemovedForm DEF RecordsOf
<1>2. rec \in PortRecs BY TableRec
<1> HIDE DEF e, rec
<1>3. /\ e.recs \in Seq(PortRecs) /\ Len(d.recs) \in Nat /\ Len(e.recs) = Len(d.recs) + 1
      /\ e.recs # <<>> /\ e.recs[Len(d.recs) + 1] = rec
      /\ \A i \in 0 .. Len(d.recs) - 1 : e.recs[i + 1] = d.recs[i + 1]
  BY <1>1, <1>2, AppendRec DEF RecordsOf
<1>4. /\ DOMAIN e.removed = DOMAIN d.removed \cup {k} /\ e.removed[k] = Len(d.recs)
      /\ \A j \in DOMAIN d.removed : e.removed[j] = d.removed[j]
  <2> DEFINE m == d.removed
             o == Len(d.recs)
  <2>1. e.removed = MapWith(m, k, o) BY <1>1
  <2>2. k \notin DOMAIN m OBVIOUS
  <2> HIDE DEF m, o
  <2>3. /\ DOMAIN MapWith(m, k, o) = DOMAIN m \cup {k}
        /\ MapWith(m, k, o)[k] = o
        /\ \A j \in DOMAIN m : MapWith(m, k, o)[j] = m[j]
    BY <2>2 DEF MapWith
  <2> QED BY <2>1, <2>3, Zenon DEF m, o
<1>5. ASSUME NEW j \in DOMAIN d.added
      PROVE  AddedIn(e, j) = AddedIn(d, j) /\ e.added[j] \in 0 .. Len(e.recs) - 1
  <2>1. d.added[j] \in 0 .. Len(d.recs) - 1 BY DEF RecordsOf
  <2>2. e.added[j] = d.added[j] BY <1>1
  <2> QED BY <1>3, <2>1, <2>2 DEF AddedIn
<1>6. ASSUME NEW j \in DOMAIN e.removed
      PROVE  /\ j \in DOMAIN previous.ports.map /\ e.removed[j] \in 0 .. Len(e.recs) - 1
             /\ RemovedIn(e, j) = Rec(previous.ports, j)
  <2>1. CASE j \in DOMAIN d.removed
    <3>1. /\ d.removed[j] \in 0 .. Len(d.recs) - 1 /\ RemovedIn(d, j) = Rec(previous.ports, j)
          /\ j \in DOMAIN previous.ports.map
      BY <2>1 DEF RecordsOf
    <3>2. e.removed[j] = d.removed[j] BY <1>4, <2>1
    <3>3. e.recs[d.removed[j] + 1] = d.recs[d.removed[j] + 1] BY <1>3, <3>1
    <3>4. RemovedIn(e, j) = RemovedIn(d, j) BY <3>2, <3>3 DEF RemovedIn
    <3>5. e.removed[j] \in 0 .. Len(e.recs) - 1 BY <1>3, <3>1, <3>2
    <3> QED BY <3>1, <3>4, <3>5
  <2>2. CASE j = k /\ k \notin DOMAIN d.removed
    <3>1. e.removed[j] = Len(d.recs) BY <1>4, <2>2
    <3>2. RemovedIn(e, j) = rec BY <1>3, <3>1 DEF RemovedIn
    <3> QED BY <1>3, <2>2, <3>1, <3>2 DEF rec
  <2> QED BY <1>4, <2>1, <2>2
<1>7. RecordsOf(e, previous.ports, new)
  <2>1. \A j \in DOMAIN e.added :
          /\ j \in DOMAIN new.map /\ e.added[j] \in 0 .. Len(e.recs) - 1
          /\ [AddedIn(e, j) EXCEPT !.off = Rec(new, j).off] = Rec(new, j)
    <3> TAKE j \in DOMAIN e.added
    <3>1. j \in DOMAIN d.added BY <1>1
    <3>2. j \in DOMAIN new.map /\ [AddedIn(d, j) EXCEPT !.off = Rec(new, j).off] = Rec(new, j)
      BY <3>1, Zenon DEF RecordsOf
    <3>3. AddedIn(e, j) = AddedIn(d, j) /\ e.added[j] \in 0 .. Len(e.recs) - 1 BY <1>5, <3>1
    <3> QED BY <3>2, <3>3
  <2>2. e.dirty <=> e.recs # <<>> BY <1>1, <1>3, Zenon
  <2> QED BY <1>1, <1>3, <1>6, <2>1, <2>2, Zenon DEF RecordsOf
<1>8. SlicesOf(e)
  <2>1. {Slice(AddedIn(e, j)) : j \in DOMAIN e.added}
          = {Slice(AddedIn(d, j)) : j \in DOMAIN d.added}
    BY <1>1, <1>5
  <2> QED BY <1>1, <1>5, <2>1 DEF SlicesOf
<1>9. SourcesOf(e, new, net) BY <1>1 DEF SourcesOf, Sources
<1> QED BY <1>1, <1>4, <1>7, <1>8, <1>9 DEF e

(* An added record brings its pkeys, behind those that are there.          *)
LEMMA AddedStep ==
    ASSUME NEW d, NEW old, NEW net, NEW k,
           RecordsOf(d, old, current.ports), SlicesOf(d), SourcesOf(d, current.ports, net),
           GoodTable(net, current.ports), k \in DOMAIN current.ports.map, k \notin DOMAIN d.added
    PROVE  LET e == WithAdded(d, k)
           IN  /\ DOMAIN e.added = DOMAIN d.added \cup {k} /\ DOMAIN e.removed = DOMAIN d.removed
               /\ RecordsOf(e, old, current.ports) /\ SlicesOf(e)
               /\ SourcesOf(e, current.ports, net)
<1> DEFINE e == WithAdded(d, k)
           rec == Rec(current.ports, k)
           x == IF rec.size = 0 THEN rec.off ELSE d.offset
           r == [rec EXCEPT !.off = x]
<1>1. /\ IsDiff(e)
      /\ e.added = MapWith(d.added, k, Len(d.recs)) /\ e.removed = d.removed
      /\ e.recs = Append(d.recs, r) /\ e.dirty
      /\ e.pkeys = WriteAt(d.pkeys, d.offset, Bytes(rec.off, rec.size))
      /\ e.offset = d.offset + rec.size
  BY AddedForm DEF RecordsOf
<1>2. rec \in PortRecs /\ rec.size \in Nat /\ rec.off \in Nat /\ d.offset \in Nat
  <2>1. rec \in PortRecs BY TableRec DEF GoodTable
  <2> HIDE DEF rec
  <2> QED BY <2>1 DEF PortRecs, SlicesOf
<1>3. x \in Nat BY <1>2
<1>4. /\ r \in PortRecs /\ r.off = x /\ r.size = rec.size
      /\ [r EXCEPT !.off = rec.off] = rec
  <2> HIDE DEF rec, x
  <2> QED BY <1>2, <1>3, OtherOffset
<1>x. rec.size # 0 => x = d.offset OBVIOUS
<1> HIDE DEF e, rec, x, r
<1>5. /\ e.recs \in Seq(PortRecs) /\ Len(d.recs) \in Nat /\ Len(e.recs) = Len(d.recs) + 1
      /\ e.recs # <<>> /\ e.recs[Len(d.recs) + 1] = r
      /\ \A i \in 0 .. Len(d.recs) - 1 : e.recs[i + 1] = d.recs[i + 1]
  BY <1>1, <1>4, AppendRec DEF RecordsOf
<1>6. /\ DOMAIN e.added = DOMAIN d.added \cup {k} /\ e.added[k] = Len(d.recs)
      /\ \A j \in DOMAIN d.added : e.added[j] = d.added[j]
  <2> DEFINE m == d.added
             o == Len(d.recs)
  <2>1. e.added = MapWith(m, k, o) BY <1>1
  <2>2. k \notin DOMAIN m OBVIOUS
  <2> HIDE DEF m, o
  <2>3. /\ DOMAIN MapWith(m, k, o) = DOMAIN m \cup {k}
        /\ MapWith(m, k, o)[k] = o
        /\ \A j \in DOMAIN m : MapWith(m, k, o)[j] = m[j]
    BY <2>2 DEF MapWith
  <2> QED BY <2>1, <2>3, Zenon DEF m, o
<1>7. ASSUME NEW j \in DOMAIN d.added
      PROVE  AddedIn(e, j) = AddedIn(d, j) /\ e.added[j] \in 0 .. Len(e.recs) - 1
  <2>1. d.added[j] \in 0 .. Len(d.recs) - 1 BY DEF RecordsOf
  <2>2. e.added[j] = d.added[j] BY <1>6
  <2> QED BY <1>5, <2>1, <2>2 DEF AddedIn
<1>8. AddedIn(e, k) = r /\ e.added[k] \in 0 .. Len(e.recs) - 1 BY <1>5, <1>6 DEF AddedIn
<1>9. RecordsOf(e, old, current.ports)
  <2>1. ASSUME NEW j \in DOMAIN d.removed
        PROVE  /\ j \in DOMAIN old.map /\ e.removed[j] \in 0 .. Len(e.recs) - 1
               /\ RemovedIn(e, j) = Rec(old, j)
    <3>1. /\ d.removed[j] \in 0 .. Len(d.recs) - 1 /\ RemovedIn(d, j) = Rec(old, j)
          /\ j \in DOMAIN old.map
      BY DEF RecordsOf
    <3> QED BY <1>1, <1>5, <3>1 DEF RemovedIn
  <2>2. ASSUME NEW j \in DOMAIN e.added
        PROVE  /\ j \in DOMAIN current.ports.map /\ e.added[j] \in 0 .. Len(e.recs) - 1
               /\ [AddedIn(e, j) EXCEPT !.off = Rec(current.ports, j).off] = Rec(current.ports, j)
    <3>1. CASE j \in DOMAIN d.added BY <1>7, <3>1, Zenon DEF RecordsOf
    <3>2. CASE j = k BY <1>4, <1>8, <3>2, Zenon DEF rec
    <3> QED BY <1>6, <3>1, <3>2
  <2>3. e.dirty <=> e.recs # <<>> BY <1>1, <1>5, Zenon
  <2> QED BY <1>1, <1>5, <2>1, <2>2, <2>3, Zenon DEF RecordsOf
<1>10. Slice(r) = d.offset .. d.offset + rec.size - 1
  <2>1. CASE rec.size = 0
    <3>1. x .. x + 0 - 1 = {} /\ d.offset .. d.offset + 0 - 1 = {} BY <1>2, <1>3
    <3> QED BY <1>4, <2>1, <3>1 DEF Slice
  <2>2. CASE rec.size # 0 BY <1>4, <1>x, <2>2 DEF Slice
  <2> QED BY <2>1, <2>2
<1>11. SlicesOf(e)
  <2>1. e.offset \in Nat BY <1>1, <1>2
  <2>2. DOMAIN e.pkeys = 0 .. e.offset - 1
    <3> DEFINE b == Bytes(rec.off, rec.size)
               o == d.offset
               pkeys == d.pkeys
    <3>1. Len(b) = rec.size BY <1>2 DEF Bytes
    <3>2. DOMAIN pkeys = 0 .. o - 1 /\ o \in Nat BY DEF SlicesOf
    <3>3. e.pkeys = WriteAt(pkeys, o, b) /\ e.offset = o + rec.size BY <1>1
    <3> HIDE DEF b, o, pkeys
    <3>4. Len(b) \in Nat BY <1>2, <3>1
    <3>5. DOMAIN WriteAt(pkeys, o, b) = 0 .. o + Len(b) - 1
      BY <3>2, <3>4, WriteBehind
    <3> QED BY <1>2, <3>1, <3>2, <3>3, <3>5
  <2>3. \A j \in DOMAIN d.added : Slice(AddedIn(d, j)) \subseteq 0 .. d.offset - 1
    BY DEF SlicesOf
  <2>4. UNION {Slice(AddedIn(e, j)) : j \in DOMAIN e.added} = 0 .. e.offset - 1
    <3>1. {Slice(AddedIn(e, j)) : j \in DOMAIN e.added}
            = {Slice(AddedIn(d, j)) : j \in DOMAIN d.added} \cup {Slice(r)}
      BY <1>6, <1>7, <1>8
    <3>2. UNION {Slice(AddedIn(d, j)) : j \in DOMAIN d.added} = 0 .. d.offset - 1
      BY DEF SlicesOf
    <3>3. UNION {Slice(AddedIn(e, j)) : j \in DOMAIN e.added} = (0 .. d.offset - 1) \cup Slice(r)
      BY <3>1, <3>2
    <3>4. (0 .. d.offset - 1) \cup (d.offset .. d.offset + rec.size - 1)
            = 0 .. d.offset + rec.size - 1
      BY <1>2
    <3>5. e.offset - 1 = d.offset + rec.size - 1 BY <1>1, <1>2
    <3> QED BY <1>10, <3>3, <3>4, <3>5
  <2>5. \A j \in DOMAIN d.added : Slice(AddedIn(d, j)) \cap Slice(r) = {}
    BY <1>2, <1>10, <2>3
  <2>6. ASSUME NEW i \in DOMAIN e.added, NEW j \in DOMAIN e.added, i # j
        PROVE  Slice(AddedIn(e, i)) \cap Slice(AddedIn(e, j)) = {}
    <3>1. CASE i \in DOMAIN d.added /\ j \in DOMAIN d.added
      <4>1. Slice(AddedIn(d, i)) \cap Slice(AddedIn(d, j)) = {} BY <2>6, <3>1 DEF SlicesOf
      <4> QED BY <1>7, <3>1, <4>1
    <3>2. CASE i \in DOMAIN d.added /\ j = k BY <1>7, <1>8, <2>5, <3>2
    <3>3. CASE i = k /\ j \in DOMAIN d.added BY <1>7, <1>8, <2>5, <3>3
    <3> QED BY <1>6, <2>6, <3>1, <3>2, <3>3
  <2> QED BY <2>1, <2>2, <2>4, <2>6 DEF SlicesOf
<1>12. SourcesOf(e, current.ports, net)
  <2> SUFFICES ASSUME HostsLinked(net)
               PROVE  /\ IsFiniteSet(Sources(e, current.ports))
                      /\ Cardinality(Sources(e, current.ports)) = e.offset
    BY DEF SourcesOf
  <2> DEFINE S == Sources(d, current.ports)
             own == Source(current.ports, k)
  <2>1. IsFiniteSet(S) /\ Cardinality(S) = d.offset BY DEF SourcesOf
  <2>2. own = 2 * rec.off .. 2 * rec.off + rec.size - 1 BY DEF Source, rec
  <2>3. IsFiniteSet(own) /\ Cardinality(own) = rec.size
    <3> DEFINE a == 2 * rec.off
               b == 2 * rec.off + rec.size - 1
    <3>1. a \in Int /\ b \in Int /\ b - a + 1 = rec.size /\ (a > b <=> rec.size = 0) BY <1>2
    <3> HIDE DEF own
    <3>2. own = a .. b BY <2>2
    <3> HIDE DEF a, b
    <3> QED BY <1>2, <3>1, <3>2, FS_Interval
  <2>4. Sources(e, current.ports) = S \cup own BY <1>6 DEF Sources
  <2>5. S \cap own = {}
    <3> SUFFICES ASSUME NEW j \in DOMAIN d.added PROVE Source(current.ports, j) \cap own = {}
      BY DEF Sources
    <3> DEFINE q == Rec(current.ports, j)
    <3>1. j \in DOMAIN current.ports.map /\ j # k BY DEF RecordsOf
    <3>2. q \in PortRecs BY <3>1, TableRec DEF GoodTable
    <3> HIDE DEF q
    <3>3. q.size \in Nat /\ q.off \in Nat BY <3>2 DEF PortRecs
    <3>4. q.size > 0 /\ rec.size > 0 =>
            2 * q.off + q.size <= 2 * rec.off \/ 2 * rec.off + rec.size <= 2 * q.off
      BY <3>1 DEF GoodTable, Apart, q, rec
    <3>5. Source(current.ports, j) = 2 * q.off .. 2 * q.off + q.size - 1 BY DEF Source, q
    <3> HIDE DEF own
    <3> SUFFICES ASSUME NEW v \in own, v \in Source(current.ports, j) PROVE FALSE OBVIOUS
    <3>6. v \in Int /\ 2 * rec.off <= v /\ v < 2 * rec.off + rec.size BY <1>2, <2>2
    <3>7. 2 * q.off <= v /\ v < 2 * q.off + q.size BY <3>3, <3>5, <3>6
    <3> QED BY <1>2, <3>3, <3>4, <3>6, <3>7
  <2> HIDE DEF S, own
  <2>6. /\ IsFiniteSet(S \cup own)
        /\ Cardinality(S \cup own) = Cardinality(S) + Cardinality(own) - Cardinality(S \cap own)
    BY <2>1, <2>3, FS_Union
  <2>7. Cardinality(S \cap own) = 0 BY <2>5, FS_EmptySet
  <2> QED BY <1>1, <1>2, <2>1, <2>3, <2>4, <2>6, <2>7
<1> QED BY <1>1, <1>6, <1>9, <1>11, <1>12 DEF e

-----------------------------------------------------------------------------
(***************************************************************************)
(* The steps keep the invariant.                                           *)
(***************************************************************************)

LEMMA EmptyVersionGood == GoodTable(EmptyVersion.net, EmptyVersion.ports)
<1>1. /\ EmptyVersion.ports = EmptyTable /\ EmptyVersion.net = <<>>
      /\ Table(EmptyTable, PortRecs) /\ DOMAIN EmptyTable.map = {}
  BY EmptyIsTable DEF EmptyVersion
<1>2. MaxPkeys(<<>>) \in Nat
  <2>1. PkeyPlaces(<<>>) = {} BY DEF PkeyPlaces
  <2> QED BY <2>1, FS_EmptySet DEF MaxPkeys
<1> QED BY <1>1, <1>2 DEF GoodTable, Apart

LEMMA PortsInit == Init => PortsInv
<1> SUFFICES ASSUME Init PROVE PortsInv OBVIOUS
<1>1. FreshPass BY DEF Init, FreshPass
<1>2. /\ previous = EmptyVersion /\ current = EmptyVersion /\ diff = EmptyDiff
      /\ todoOld = {} /\ todoNew = {}
  BY DEF Init
<1>3. GoodTable(EmptyVersion.net, EmptyVersion.ports) BY EmptyVersionGood
<1>4. DOMAIN EmptyVersion.ports.map = {} BY DEF EmptyVersion, EmptyTable
<1>5. PassInv BY <1>1, PassFresh
<1>6. /\ RecordsOf(diff, previous.ports, current.ports)
      /\ SlicesOf(diff) /\ SourcesOf(diff, current.ports, current.net)
      /\ Walked(diff, previous.ports, current.ports, todoOld, todoNew)
  BY <1>2, <1>4, EmptyDiffGood
<1> QED BY <1>2, <1>3, <1>5, <1>6 DEF PortsInv

LEMMA ExtractKeeps == PortsInv /\ ExtractPort => PortsInv'
<1> SUFFICES ASSUME PortsInv, ExtractPort PROVE PortsInv' OBVIOUS
<1>1. UNCHANGED <<previous, current, todoOld, todoNew, diff>> BY DEF ExtractPort
<1>2. PassInv BY DEF PortsInv
<1>3. PassInv'
  <2>1. CASE \E g \in todo : VisitPort(g) BY <1>2, <2>1, PassVisit
  <2>2. CASE \E i \in physps : SwitchPort(i) \/ HostPort(i)
    BY <1>2, <2>2, PassSwitchPort, PassHostPort
  <2> QED BY <2>1, <2>2 DEF ExtractPort
<1> QED BY <1>1, <1>3 DEF PortsInv

LEMMA UpdateKeeps == PortsInv /\ Update => PortsInv'
<1> SUFFICES ASSUME PortsInv, Update PROVE PortsInv' OBVIOUS
<1>1. /\ previous' = current /\ current' = [ports |-> portTbl, pkeys |-> pkeyTbl, net |-> subnet]
      /\ todoOld' = DOMAIN previous'.ports.map /\ todoNew' = DOMAIN current'.ports.map
      /\ diff' = EmptyDiff /\ UNCHANGED extractVars
  BY DEF Update
<1>2. PassInv' BY <1>1, PassUnchanged DEF PortsInv
<1>3. GoodTable(current'.net, current'.ports) BY <1>1, PassVersion DEF PortsInv
<1>4. GoodTable(previous'.net, previous'.ports) BY <1>1 DEF PortsInv
<1>5. /\ RecordsOf(diff', previous'.ports, current'.ports)
      /\ SlicesOf(diff') /\ SourcesOf(diff', current'.ports, current'.net)
      /\ Walked(diff', previous'.ports, current'.ports, todoOld', todoNew')
  BY <1>1, EmptyDiffGood
<1> QED BY <1>2, <1>3, <1>4, <1>5 DEF PortsInv

LEMMA OldOnlyKeeps ==
    ASSUME PortsInv, NEW k \in todoOld, OldOnly(k)
    PROVE  PortsInv'
<1>1. /\ todoOld' = todoOld \ {k} /\ diff' = WithRemoved(diff, k)
      /\ UNCHANGED <<extractVars, previous, current, todoNew>>
  BY DEF OldOnly
<1>2. /\ k \in DOMAIN previous.ports.map /\ k \notin DOMAIN diff.removed
      /\ Table(previous.ports, PortRecs)
  BY DEF PortsInv, Walked, GoodTable
<1>3. /\ DOMAIN diff'.removed = DOMAIN diff.removed \cup {k} /\ DOMAIN diff'.added = DOMAIN diff.added
      /\ RecordsOf(diff', previous.ports, current.ports) /\ SlicesOf(diff')
      /\ SourcesOf(diff', current.ports, current.net)
  <2> DEFINE e == WithRemoved(diff, k)
  <2>1. /\ RecordsOf(diff, previous.ports, current.ports) /\ SlicesOf(diff)
        /\ SourcesOf(diff, current.ports, current.net)
    BY DEF PortsInv
  <2>2. /\ DOMAIN e.removed = DOMAIN diff.removed \cup {k} /\ DOMAIN e.added = DOMAIN diff.added
        /\ RecordsOf(e, previous.ports, current.ports) /\ SlicesOf(e)
        /\ SourcesOf(e, current.ports, current.net)
    BY <1>2, <2>1, RemovedStep
  <2> HIDE DEF e
  <2>3. diff' = e BY <1>1 DEF e
  <2> QED BY <2>2, <2>3
<1>4. Walked(diff', previous.ports, current.ports, todoOld', todoNew)
  BY <1>1, <1>2, <1>3 DEF PortsInv, Walked
<1>5. PassInv' BY <1>1, PassUnchanged DEF PortsInv
<1> QED BY <1>1, <1>3, <1>4, <1>5 DEF PortsInv

LEMMA NewOnlyKeeps ==
    ASSUME PortsInv, NEW k \in todoNew, NewOnly(k)
    PROVE  PortsInv'
<1>1. /\ todoNew' = todoNew \ {k} /\ diff' = WithAdded(diff, k)
      /\ UNCHANGED <<extractVars, previous, current, todoOld>>
  BY DEF NewOnly
<1>2. /\ k \in DOMAIN current.ports.map /\ k \notin DOMAIN diff.added
      /\ GoodTable(current.net, current.ports)
  BY DEF PortsInv, Walked
<1>3. /\ DOMAIN diff'.added = DOMAIN diff.added \cup {k} /\ DOMAIN diff'.removed = DOMAIN diff.removed
      /\ RecordsOf(diff', previous.ports, current.ports) /\ SlicesOf(diff')
      /\ SourcesOf(diff', current.ports, current.net)
  <2> DEFINE e == WithAdded(diff, k)
  <2>1. /\ RecordsOf(diff, previous.ports, current.ports) /\ SlicesOf(diff)
        /\ SourcesOf(diff, current.ports, current.net)
    BY DEF PortsInv
  <2>2. /\ DOMAIN e.added = DOMAIN diff.added \cup {k} /\ DOMAIN e.removed = DOMAIN diff.removed
        /\ RecordsOf(e, previous.ports, current.ports) /\ SlicesOf(e)
        /\ SourcesOf(e, current.ports, current.net)
    BY <1>2, <2>1, AddedStep
  <2> HIDE DEF e
  <2>3. diff' = e BY <1>1 DEF e
  <2> QED BY <2>2, <2>3
<1>4. Walked(diff', previous.ports, current.ports, todoOld, todoNew')
  BY <1>1, <1>2, <1>3 DEF PortsInv, Walked
<1>5. PassInv' BY <1>1, PassUnchanged DEF PortsInv
<1> QED BY <1>1, <1>3, <1>4, <1>5 DEF PortsInv

LEMMA BothKeeps ==
    ASSUME PortsInv, NEW k \in todoOld, BothVersions(k)
    PROVE  PortsInv'
<1>1. /\ k \in todoNew /\ todoOld' = todoOld \ {k} /\ todoNew' = todoNew \ {k}
      /\ diff' = WithAdded(WithRemoved(diff, k), k) \/ diff' = diff
      /\ UNCHANGED <<extractVars, previous, current>>
  BY DEF BothVersions, IsHead
<1>2. /\ k \in DOMAIN previous.ports.map /\ k \notin DOMAIN diff.removed
      /\ Table(previous.ports, PortRecs)
      /\ k \in DOMAIN current.ports.map /\ k \notin DOMAIN diff.added
      /\ GoodTable(current.net, current.ports)
  BY <1>1 DEF PortsInv, Walked, GoodTable
<1>3. /\ RecordsOf(diff', previous.ports, current.ports) /\ SlicesOf(diff')
      /\ SourcesOf(diff', current.ports, current.net)
      /\ Walked(diff', previous.ports, current.ports, todoOld', todoNew')
  <2>1. CASE diff' = WithAdded(WithRemoved(diff, k), k)
    <3> DEFINE d == WithRemoved(diff, k)
    <3>1. /\ DOMAIN d.removed = DOMAIN diff.removed \cup {k} /\ DOMAIN d.added = DOMAIN diff.added
          /\ RecordsOf(d, previous.ports, current.ports) /\ SlicesOf(d)
          /\ SourcesOf(d, current.ports, current.net)
      BY <1>2, RemovedStep DEF PortsInv
    <3>2. diff' = WithAdded(d, k) BY <2>1
    <3> DEFINE e == WithAdded(d, k)
    <3> HIDE DEF d
    <3>a. /\ DOMAIN e.added = DOMAIN d.added \cup {k} /\ DOMAIN e.removed = DOMAIN d.removed
          /\ RecordsOf(e, previous.ports, current.ports) /\ SlicesOf(e)
          /\ SourcesOf(e, current.ports, current.net)
      BY <1>2, <3>1, AddedStep
    <3> HIDE DEF e
    <3>b. diff' = e BY <3>2 DEF e
    <3>3. /\ DOMAIN diff'.added = DOMAIN d.added \cup {k} /\ DOMAIN diff'.removed = DOMAIN d.removed
          /\ RecordsOf(diff', previous.ports, current.ports) /\ SlicesOf(diff')
          /\ SourcesOf(diff', current.ports, current.net)
      BY <3>a, <3>b
    <3>4. Walked(diff', previous.ports, current.ports, todoOld', todoNew')
      BY <1>1, <1>2, <3>1, <3>3 DEF PortsInv, Walked
    <3> QED BY <3>3, <3>4
  <2>2. CASE diff' = diff
    <3>1. Walked(diff', previous.ports, current.ports, todoOld', todoNew')
      BY <1>1, <1>2, <2>2 DEF PortsInv, Walked
    <3> QED BY <2>2, <3>1 DEF PortsInv
  <2> QED BY <1>1, <2>1, <2>2
<1>4. PassInv' BY <1>1, PassUnchanged DEF PortsInv
<1> QED BY <1>1, <1>3, <1>4 DEF PortsInv

LEMMA NextVersionKeeps == PortsInv /\ NextVersion => PortsInv'
<1> SUFFICES ASSUME PortsInv, NextVersion PROVE PortsInv' OBVIOUS
<1>1. UNCHANGED <<previous, current, todoOld, todoNew, diff>> BY DEF NextVersion
<1>2. FreshPass'
  <2>1. PICK net \in Subnets : StartExtract(net) BY DEF NextVersion
  <2> QED BY <2>1 DEF FreshPass, StartExtract
<1>3. PassInv' BY <1>2, PassStart
<1> QED BY <1>1, <1>3 DEF PortsInv

(* The invariant of the run is inductive.                                  *)
THEOREM PortsInvariant == Spec => []PortsInv
<1>1. Init => PortsInv BY PortsInit
<1>2. PortsInv /\ [Next]_portVars => PortsInv'
  <2> SUFFICES ASSUME PortsInv, [Next]_portVars PROVE PortsInv' OBVIOUS
  <2>1. CASE ExtractPort BY <2>1, ExtractKeeps
  <2>2. CASE Update BY <2>2, UpdateKeeps
  <2>3. CASE NextVersion BY <2>3, NextVersionKeeps
  <2>4. CASE \E k \in todoOld : OldOnly(k) \/ BothVersions(k)
    BY <2>4, OldOnlyKeeps, BothKeeps
  <2>5. CASE \E k \in todoNew : NewOnly(k) BY <2>5, NewOnlyKeeps
  <2>6. CASE UNCHANGED portVars
    <3>1. UNCHANGED <<extractVars, previous, current, todoOld, todoNew, diff>>
      BY <2>6 DEF portVars
    <3>2. PassInv' BY <3>1, PassUnchanged DEF PortsInv
    <3> QED BY <3>1, <3>2 DEF PortsInv
  <2>7. Finished => UNCHANGED portVars BY DEF Finished
  <2> QED BY <2>1, <2>2, <2>3, <2>4, <2>5, <2>6, <2>7 DEF Next
<1> QED BY <1>1, <1>2, PTL DEF Spec

-----------------------------------------------------------------------------
(* No pass of ssa_db_extract over a subnet, of any size, writes behind the *)
(* arrays that were sized before it.                                       *)
THEOREM ExtractionFits == Spec => []ArraysFit
<1>1. PortsInv => ArraysFit BY PassFits DEF PortsInv
<1> QED BY <1>1, PortsInvariant, PTL

(* Behind a pass every physical port, and every linked one, is found by    *)
(* its key; the record is that of the first port with the key, with        *)
(* exactly its pkeys if all hosts are linked and no size wraps around.     *)
THEOREM ExtractionFinds == Spec => []PortsFound
<1>1. PortsInv => PortsFound BY PassFinds DEF PortsInv
<1> QED BY <1>1, PortsInvariant, PTL

(* The pkey slices of the added records tile the pkey array of the         *)
(* difference: ssa_db_port_insert leaves no gap and no overlap.            *)
THEOREM DifferenceTiled == Spec => []SlicesTile
<1>1. PortsInv => SlicesTile
  <2>1. \A k : AddedRec(k) = AddedIn(diff, k) BY DEF AddedRec, AddedIn
  <2> QED BY <2>1 DEF PortsInv, SlicesOf, SlicesTile
<1> QED BY <1>1, PortsInvariant, PTL

(* A consumer that applies the difference has the current ports, from      *)
(* records that are those of the versions.                                 *)
THEOREM PortConsumerConverges == Spec => []PortConsumerCatchesUp
<1>1. PortsInv => PortConsumerCatchesUp
  <2> SUFFICES ASSUME PortsInv, Compared PROVE PortConsumerCatchesUp
    BY DEF PortConsumerCatchesUp
  <2>1. todoOld = {} /\ todoNew = {} BY DEF Compared
  <2>2. (DOMAIN previous.ports.map \ DOMAIN diff.removed) \cup DOMAIN diff.added
          = DOMAIN current.ports.map
    BY <2>1 DEF PortsInv, Walked
  <2>3. ASSUME NEW k \in DOMAIN diff.added
        PROVE  [AddedRec(k) EXCEPT !.off = Rec(current.ports, k).off] = Rec(current.ports, k)
    BY DEF PortsInv, RecordsOf, AddedRec, AddedIn
  <2>4. ASSUME NEW k \in DOMAIN diff.removed
        PROVE  diff.recs[diff.removed[k] + 1] = Rec(previous.ports, k)
    BY DEF PortsInv, RecordsOf, RemovedIn
  <2>5. diff.dirty <=> diff.recs # <<>> BY DEF PortsInv, RecordsOf
  <2> QED BY <2>2, <2>3, <2>4, <2>5, Zenon DEF PortConsumerCatchesUp
<1> QED BY <1>1, PortsInvariant, PTL

(* The offset of a record, although it counts pkeys and is taken for       *)
(* bytes, never leads a copy out of the extracted pkeys; and what has been *)
(* copied fits into a destination sized for the current pkeys, since       *)
(* records of linked hosts share no pkeys.                                 *)
THEOREM CopiesStayInBounds == Spec => []PkeyCopiesInBounds
<1>1. PortsInv => PkeyCopiesInBounds
  <2> SUFFICES ASSUME PortsInv PROVE PkeyCopiesInBounds OBVIOUS
  <2> DEFINE max == MaxPkeys(current.net)
             t == current.ports
  <2>1. /\ max \in Nat /\ Table(t, PortRecs)
        /\ \A k \in DOMAIN t.map : 2 * Rec(t, k).off + Rec(t, k).size <= 2 * max
    BY DEF PortsInv, GoodTable
  <2>2. /\ diff.offset \in Nat /\ DOMAIN diff.pkeys = 0 .. diff.offset - 1
        /\ \A k \in DOMAIN diff.added : k \in DOMAIN t.map
        /\ HostsLinked(current.net) => IsFiniteSet(Sources(diff, t))
                                       /\ Cardinality(Sources(diff, t)) = diff.offset
    BY DEF PortsInv, RecordsOf, SlicesOf, SourcesOf
  <2> HIDE DEF max, t
  <2>3. ASSUME NEW k \in DOMAIN t.map
        PROVE  /\ Rec(t, k).off \in Nat /\ Rec(t, k).size \in Nat
               /\ Rec(t, k).off + Rec(t, k).size <= 2 * max
               /\ Source(t, k) \subseteq 0 .. 2 * max - 1
    <3> DEFINE rec == Rec(t, k)
    <3>1. rec \in PortRecs BY <2>1, TableRec
    <3>2. 2 * rec.off + rec.size <= 2 * max BY <2>1
    <3>3. Source(t, k) = 2 * rec.off .. 2 * rec.off + rec.size - 1 BY DEF Source
    <3> HIDE DEF rec
    <3>4. rec.off \in Nat /\ rec.size \in Nat BY <3>1 DEF PortRecs
    <3>5. rec.off + rec.size <= 2 * max BY <2>1, <3>2, <3>4
    <3>6. Source(t, k) \subseteq 0 .. 2 * max - 1 BY <2>1, <3>2, <3>3, <3>4
    <3> QED BY <3>4, <3>5, <3>6 DEF rec
  <2>4. ASSUME HostsLinked(current.net) PROVE diff.offset <= 2 * max
    <3>1. Sources(diff, t) \subseteq 0 .. 2 * max - 1 BY <2>2, <2>3 DEF Sources
    <3>2. IsFiniteSet(0 .. 2 * max - 1) /\ Cardinality(0 .. 2 * max - 1) = 2 * max
      <4> DEFINE b == 2 * max - 1
      <4>1. 0 \in Int /\ b \in Int /\ b - 0 + 1 = 2 * max /\ (0 > b <=> 2 * max = 0) BY <2>1
      <4> HIDE DEF b
      <4>2. IsFiniteSet(0 .. b) /\ Cardinality(0 .. b) = 2 * max BY <4>1, FS_Interval
      <4> QED BY <4>2 DEF b
    <3>3. Cardinality(Sources(diff, t)) <= Cardinality(0 .. 2 * max - 1)
      BY <3>1, <3>2, FS_Subset
    <3> QED BY <2>2, <2>4, <3>2, <3>3
  <2>5. HostsLinked(current.net) => DOMAIN diff.pkeys \subseteq 0 .. 2 * max - 1
    BY <2>1, <2>2, <2>4
  <2> QED BY <2>3, <2>5 DEF PkeyCopiesInBounds, max, t
<1> QED BY <1>1, PortsInvariant, PTL

-----------------------------------------------------------------------------
(***************************************************************************)
(* Refinement: every step is a step of SubnetMirror on the keys of the     *)
(* ports, or changes nothing there.                                        *)
(***************************************************************************)

(* A version is compared with nothing left over of the comparison before,  *)
(* and has all the ports of the subnet it was extracted from.              *)
VersionInv ==
    /\ subnet \in Subnets
    /\ phase \in {"extract", "compare"}
    /\ phase = "extract" => todoOld = {} /\ todoNew = {}
    /\ phase = "compare" =>
         subnet = current.net /\ DOMAIN current.ports.map = NetKeys(current.net)

LEMMA VersionKeeps == PortsInv /\ VersionInv /\ [Next]_portVars => VersionInv'
<1> SUFFICES ASSUME PortsInv, VersionInv, [Next]_portVars PROVE VersionInv' OBVIOUS
<1> USE DEF VersionInv
<1>1. CASE ExtractPort
  BY <1>1 DEF ExtractPort, VisitPort, SwitchPort, HostPort, AddRecords
<1>2. CASE Update
  <2>1. /\ Extracted /\ UNCHANGED subnet /\ phase' = "compare"
        /\ current' = [ports |-> portTbl, pkeys |-> pkeyTbl, net |-> subnet]
    BY <1>2 DEF Update, extractVars
  <2>2. PortsFound BY PassFinds DEF PortsInv
  <2>3. DOMAIN portTbl.map = NetKeys(subnet) BY <2>1, <2>2 DEF PortsFound, NetKeys
  <2> QED BY <2>1, <2>3
<1>3. CASE NextVersion
  BY <1>3 DEF NextVersion, Compared, StartExtract
<1>4. ASSUME NEW k \in todoOld, OldOnly(k) \/ BothVersions(k) PROVE VersionInv'
  BY <1>4 DEF OldOnly, BothVersions, extractVars
<1>5. ASSUME NEW k \in todoNew, NewOnly(k) PROVE VersionInv'
  BY <1>5 DEF NewOnly, extractVars
<1>6. CASE UNCHANGED portVars BY <1>6 DEF portVars, extractVars
<1> QED BY <1>1, <1>2, <1>3, <1>4, <1>5, <1>6 DEF Next, Finished

(* What the consumer has outside a walk.                                   *)
LEMMA ConsumerHasCurrent ==
    ASSUME PortsInv, VersionInv, ~Walking
    PROVE  (DOMAIN previous.ports.map \ DOMAIN diff.removed) \cup DOMAIN diff.added
             = DOMAIN current.ports.map
<1>1. todoOld = {} /\ todoNew = {} BY DEF VersionInv, Walking, Compared
<1> QED BY <1>1 DEF PortsInv, Walked

(* A step of the walk either goes on, or is the last one and publishes.    *)
LEMMA WalkStep ==
    ASSUME PortsInv', VersionInv', Walking, phase' = "compare",
           UNCHANGED <<subnet, previous, current>>
    PROVE  [Mirror!Next]_(Mirror!vars)
<1>1. CASE Walking' BY <1>1 DEF Mirror!vars
<1>2. CASE ~Walking'
  <2> DEFINE have == (DOMAIN previous.ports.map \ DOMAIN diff.removed) \cup DOMAIN diff.added
  <2>1. todoOld' = {} /\ todoNew' = {} BY <1>2 DEF Walking, Compared
  <2>2. have' = DOMAIN current.ports.map BY <2>1 DEF PortsInv, Walked
  <2>3. have' = NetKeys(current.net) BY <2>2 DEF VersionInv
  <2> QED BY <1>2, <2>3 DEF Mirror!Next, Mirror!Publish
<1> QED BY <1>1, <1>2

LEMMA PortMirrorStep ==
    ASSUME PortsInv, PortsInv', VersionInv, VersionInv', [Next]_portVars
    PROVE  [Mirror!Next]_(Mirror!vars)
<1> DEFINE have == (DOMAIN previous.ports.map \ DOMAIN diff.removed) \cup DOMAIN diff.added
<1>1. CASE ExtractPort
  <2>1. /\ phase = "extract" /\ UNCHANGED <<subnet, phase, previous, diff>>
    BY <1>1 DEF ExtractPort, VisitPort, SwitchPort, HostPort, AddRecords
  <2> QED BY <2>1 DEF Walking, Mirror!vars
<1>2. CASE Update
  <2>1. /\ phase = "extract" /\ phase' = "compare" /\ UNCHANGED subnet
        /\ previous' = current /\ diff' = EmptyDiff
    BY <1>2 DEF Update, extractVars
  <2>2. ~Walking BY <2>1 DEF Walking
  <2>3. have = DOMAIN previous'.ports.map BY <2>1, <2>2, ConsumerHasCurrent
  <2>4. CASE Walking'
    <3>1. NetKeys(current'.net) = NetKeys(subnet) BY <2>1 DEF VersionInv
    <3> QED BY <2>1, <2>2, <2>3, <2>4, <3>1 DEF Mirror!Next, Mirror!Snapshot
  <2>5. CASE ~Walking'
    <3>1. have' = DOMAIN previous'.ports.map BY <2>1 DEF EmptyDiff
    <3> QED BY <2>1, <2>2, <2>3, <2>5, <3>1 DEF Mirror!vars
  <2> QED BY <2>4, <2>5
<1>3. CASE NextVersion
  <2>1. ~Walking /\ ~Walking' /\ UNCHANGED <<previous, diff>>
    BY <1>3 DEF NextVersion, Walking
  <2>2. NetKeys(subnet)' \in KeySets BY DEF VersionInv, KeySets
  <2> QED BY <2>1, <2>2 DEF Mirror!Next, Mirror!Change
<1>4. ASSUME NEW k \in todoOld, OldOnly(k) \/ BothVersions(k) PROVE [Mirror!Next]_(Mirror!vars)
  <2>1. Walking /\ phase' = "compare" /\ UNCHANGED <<subnet, previous, current>>
    BY <1>4 DEF OldOnly, BothVersions, extractVars, Walking, Compared
  <2> QED BY <2>1, WalkStep
<1>5. ASSUME NEW k \in todoNew, NewOnly(k) PROVE [Mirror!Next]_(Mirror!vars)
  <2>1. Walking /\ phase' = "compare" /\ UNCHANGED <<subnet, previous, current>>
    BY <1>5 DEF NewOnly, extractVars, Walking, Compared
  <2> QED BY <2>1, WalkStep
<1>6. CASE UNCHANGED portVars
  BY <1>6 DEF portVars, extractVars, Walking, Compared, Mirror!vars
<1> QED BY <1>1, <1>2, <1>3, <1>4, <1>5, <1>6 DEF Next, Finished

(* A consumer that applies each difference of the port table, whatever the *)
(* subnets dumped, has the ports of one of them and then of a later one.   *)
THEOREM RefinesPortMirror == Spec => ImplementsPortMirror
<1>1. Init => VersionInv /\ Mirror!Init
  <2> SUFFICES ASSUME Init PROVE VersionInv /\ Mirror!Init OBVIOUS
  <2>1. /\ subnet \in Subnets /\ phase = "extract" /\ todoOld = {} /\ todoNew = {}
        /\ previous = EmptyVersion /\ diff = EmptyDiff
    BY DEF Init
  <2>2. DOMAIN previous.ports.map = {} /\ DOMAIN diff.added = {}
    BY <2>1 DEF EmptyVersion, EmptyTable, EmptyDiff
  <2>3. NetKeys(subnet) \in KeySets BY <2>1 DEF KeySets
  <2> QED BY <2>1, <2>2, <2>3 DEF VersionInv, Walking, Mirror!Init
<1>2. PortsInv /\ VersionInv /\ [Next]_portVars => VersionInv' BY VersionKeeps
<1>3. PortsInv /\ PortsInv' /\ VersionInv /\ VersionInv' /\ [Next]_portVars
        => [Mirror!Next]_(Mirror!vars)
  BY PortMirrorStep
<1> QED BY <1>1, <1>2, <1>3, PortsInvariant, PTL DEF Spec, ImplementsPortMirror, Mirror!Spec
=============================================================================
