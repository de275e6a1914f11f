------------------------------ MODULE SsaDiff -------------------------------
(***************************************************************************)
(* The walk over two versions of a table of fixed-size records             *)
(* (ssa_db_diff_table_cmp_v2) and the difference it writes: both maps are  *)
(* walked in key order, a record that only one version has, or that the    *)
(* compare function calls different, is copied to the one array of the     *)
(* difference, which the maps of removed and of added records share.       *)
(*                                                                         *)
(* A record is its key with its other fields in one value.  There are two  *)
(* families of compare functions: those of guid_to_lid and node (aligned)  *)
(* find a record by the offset its own map has; those of link and port add *)
(* both offsets to the old pointer and leave the new one at the head of    *)
(* its array.                                                              *)
(***************************************************************************)
EXTENDS Integers, Sequences, FiniteSets

CONSTANTS Keys, \* keys of the table
          Vals  \* the other fields of a record

ASSUME DiffAssumption ==
    /\ Keys \subseteq Nat
    /\ IsFiniteSet(Keys)

VARIABLES
    aligned,           \* cmp_pfn is ssa_db_guid_to_lid_cmp or ssa_db_node_cmp
    old, new,          \* the previous and the current version of the table
    todoOld, todoNew,  \* keys p_item_old and p_item_new have still to visit
    removed, added,    \* p_map_removed, p_map_added: offset by key
    recs,              \* *p_data_tbl, up to set_count
    dirty

diff == <<removed, added, recs, dirty>>
given == <<aligned, old, new>>
vars == <<given, todoOld, todoNew, diff>>
-----------------------------------------------------------------------------
NoOffset == -1
Recs == [key : Keys, val : Vals]
Maps == [Keys -> Nat \cup {NoOffset}]
Mapped(map) == {k \in Keys : map[k] # NoOffset}

(* A version: its map, and an array whose records are all mapped.  The     *)
(* array is in the order of the guids, which for links and ports is not    *)
(* that of the keys.                                                       *)
IsVersion(t) ==
    /\ Len(t.recs) = Cardinality(Mapped(t.map))
    /\ \A k \in Mapped(t.map) :
         t.map[k] < Len(t.recs) /\ t.recs[t.map[k] + 1].key = k

Versions ==
    {t \in [map  : [Keys -> -1 .. Cardinality(Keys) - 1],
            recs : UNION {[1..n -> Recs] : n \in 0..Cardinality(Keys)}] : IsVersion(t)}

(* The record of a key.                                                    *)
Rec(t, k) == t.recs[t.map[k] + 1]

TypeOK ==
    /\ aligned \in BOOLEAN
    /\ old \in Versions /\ new \in Versions
    /\ todoOld \subseteq Mapped(old.map)
    /\ todoNew \subseteq Mapped(new.map)
    /\ removed \in Maps /\ added \in Maps
    /\ recs \in Seq(Recs)
    /\ dirty \in BOOLEAN

(* An empty old version is the first comparison.                           *)
Init ==
    /\ aligned \in BOOLEAN
    /\ old \in Versions
    /\ new \in Versions
    /\ todoOld = Mapped(old.map)
    /\ todoNew = Mapped(new.map)
    /\ removed = [k \in Keys |-> NoOffset]
    /\ added = [k \in Keys |-> NoOffset]
    /\ recs = <<>>
    /\ dirty = FALSE
-----------------------------------------------------------------------------
IsHead(k, keys) == k \in keys /\ \A j \in keys : k <= j

(* What the compare function may answer for a key of both versions; beyond *)
(* the old array it reads whatever is there.                               *)
Answers(k) ==
    IF aligned
      THEN {Rec(old, k) # Rec(new, k)}
      ELSE LET i == old.map[k] + new.map[k]
           IN  IF i < Len(old.recs) THEN {old.recs[i + 1] # new.recs[1]} ELSE BOOLEAN

(* qmap_insert_pfn: the record goes to the end of the array.               *)
InsertRemoved(k) ==
    /\ removed' = [removed EXCEPT ![k] = Len(recs)]
    /\ recs' = Append(recs, Rec(old, k))
    /\ dirty' = TRUE
    /\ UNCHANGED added

(* Mutant: an added record does not make the difference dirty.             *)
MutInsertAdded(k) ==
    /\ added' = [added EXCEPT ![k] = Len(recs)]
    /\ recs' = Append(recs, Rec(new, k))
    /\ UNCHANGED <<removed, dirty>>

InsertAdded(k) ==
    /\ added' = [added EXCEPT ![k] = Len(recs)]
    /\ recs' = Append(recs, Rec(new, k))
    /\ dirty' = TRUE
    /\ UNCHANGED removed

(* Mutant: the added record overwrites the removed one.                    *)
MutInsertBoth(k) ==
    /\ removed' = [removed EXCEPT ![k] = Len(recs)]
    /\ added' = [added EXCEPT ![k] = Len(recs)]
    /\ recs' = Append(recs, Rec(new, k))
    /\ dirty' = TRUE

InsertBoth(k) ==
    /\ removed' = [removed EXCEPT ![k] = Len(recs)]
    /\ added' = [added EXCEPT ![k] = Len(recs) + 1]
    /\ recs' = recs \o <<Rec(old, k), Rec(new, k)>>
    /\ dirty' = TRUE

(* Mutant: both walks go on when the old key is the smaller one.           *)
MutOldOnly(k) ==
    /\ IsHead(k, todoOld)
    /\ \A j \in todoNew : k < j
    /\ InsertRemoved(k)
    /\ todoOld' = todoOld \ {k}
    /\ todoNew' = {j \in todoNew : ~IsHead(j, todoNew)}
    /\ UNCHANGED given

(* The key at the head of the old map is not in the new one, or the new    *)
(* map is exhausted.                                                       *)
OldOnly(k) ==
    /\ IsHead(k, todoOld)
    /\ \A j \in todoNew : k < j
    /\ InsertRemoved(k)
    /\ todoOld' = todoOld \ {k}
    /\ UNCHANGED <<given, todoNew>>

NewOnly(k) ==
    /\ IsHead(k, todoNew)
    /\ \A j \in todoOld : k < j
    /\ InsertAdded(k)
    /\ todoNew' = todoNew \ {k}
    /\ UNCHANGED <<given, todoOld>>

(* Mutant: a changed record is only removed.                               *)
MutBothRemoved(k) ==
    /\ IsHead(k, todoOld) /\ IsHead(k, todoNew)
    /\ \E differ \in Answers(k) : IF differ THEN InsertRemoved(k) ELSE UNCHANGED diff
    /\ todoOld' = todoOld \ {k}
    /\ todoNew' = todoNew \ {k}
    /\ UNCHANGED given

(* Mutant: a changed record is visited again in the new map.               *)
MutBothAgain(k) ==
    /\ IsHead(k, todoOld) /\ IsHead(k, todoNew)
    /\ \E differ \in Answers(k) : IF differ THEN InsertBoth(k) ELSE UNCHANGED diff
    /\ todoOld' = todoOld \ {k}
    /\ UNCHANGED <<given, todoNew>>

(* Both versions have the key: a changed record is removed and added.      *)
BothVersions(k) ==
    /\ IsHead(k, todoOld) /\ IsHead(k, todoNew)
    /\ \E differ \in Answers(k) : IF differ THEN InsertBoth(k) ELSE UNCHANGED diff
    /\ todoOld' = todoOld \ {k}
    /\ todoNew' = todoNew \ {k}
    /\ UNCHANGED given

Done == todoOld = {} /\ todoNew = {}
Finished == Done /\ UNCHANGED vars

Next == \/ \E k \in Keys : OldOnly(k) \/ NewOnly(k) \/ BothVersions(k)
        \/ Finished

Spec == Init /\ [][Next]_vars
-----------------------------------------------------------------------------
OldKeys == Mapped(old.map)
NewKeys == Mapped(new.map)
Changed == {k \in OldKeys \cap NewKeys : Rec(old, k) # Rec(new, k)}

(* The rules stated at ssa_comparison.c:682-695: removed are the records   *)
(* that are gone or whose value changed, with their old value; added those *)
(* that are new or whose value changed, with their new one; and nothing    *)
(* else.                                                                   *)
Exact ==
    /\ Mapped(removed) = (OldKeys \ NewKeys) \cup Changed
    /\ Mapped(added) = (NewKeys \ OldKeys) \cup Changed

DiffExact == Done /\ aligned => Exact

(* The same for every table, as the rules have it: the compare functions   *)
(* of links and ports do not keep to them.                                 *)
DiffExactForAll == Done => Exact

(* What a difference says of a key is true and in its array, at any time   *)
(* of the walk: a removed record is one of the old version, an added one   *)
(* is one of the new version, and no two share a place in the array.       *)
RecordsIntact ==
    /\ \A k \in Mapped(removed) :
         k \in OldKeys /\ removed[k] < Len(recs) /\ recs[removed[k] + 1] = Rec(old, k)
    /\ \A k \in Mapped(added) :
         k \in NewKeys /\ added[k] < Len(recs) /\ recs[added[k] + 1] = Rec(new, k)
    /\ \A k, j \in Keys : removed[k] = added[j] => removed[k] = NoOffset

(* A consumer that has the old version, removes and then adds, has the     *)
(* keys of the new version, whatever the compare function answers; with    *)
(* an exact one it has its records.                                        *)
Contents(t) == [k \in Mapped(t.map) |-> Rec(t, k)]

Applied ==
    [k \in (OldKeys \ Mapped(removed)) \cup Mapped(added) |->
       IF k \in Mapped(added) THEN recs[added[k] + 1] ELSE Rec(old, k)]

ConsumerCatchesUp ==
    Done => /\ DOMAIN Applied = NewKeys
            /\ aligned => Applied = Contents(new)

(* The array of the difference, allocated for the records of both versions *)
(* (ssa_comparison.c:1255-1262), is never overrun.                         *)
FitsDifference ==
    Len(recs) <= Cardinality(OldKeys) + Cardinality(NewKeys)

(* The dirty flag, which decides whether the difference is pushed at all,  *)
(* is set exactly when the difference has records.                         *)
DirtyIffRecords == dirty <=> Mapped(removed) \cup Mapped(added) # {}
=============================================================================
