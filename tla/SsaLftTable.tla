---------------------------- MODULE SsaLftTable -----------------------------
(***************************************************************************)
(* The LFT tables in memory.  Each of them is an array of records and a    *)
(* map from key to offset (cl_qmap); the two are resized, extended and     *)
(* cleared apart from each other:                                          *)
(*   db    is allocated at the first full dump, and made larger before the *)
(*         dump is merged into it,                                         *)
(*   dump  grows by SSA_TABLE_BLOCK_SIZE records while lft_rec_list is     *)
(*         emptied into it, and its map alone is cleared after a merge,    *)
(*   diff  is the LFT table of a difference, allocated for one comparison. *)
(*                                                                         *)
(* The block tables and the top tables go through the same code; a top     *)
(* table is the instance with one block number.  A record is its value,    *)
(* allocation succeeds, and a write beyond an array is let happen: that    *)
(* none does is a property (WithinCapacity).                               *)
(***************************************************************************)
EXTENDS Integers, Sequences, FiniteSets

CONSTANTS Lids,         \* LIDs of switches, all different
          MaxLidBlocks, \* bound: blocks of a forwarding table
          Vals,         \* contents of a record
          None,         \* no record
          BlockSize,    \* SSA_TABLE_BLOCK_SIZE
          LidsPerPort,  \* 1 << lmc
          MaxChanges, MaxExtracts \* bounds on what OpenSM does

ASSUME LftTableAssumption ==
    /\ Lids \subseteq Nat
    /\ IsFiniteSet(Lids)
    /\ MaxLidBlocks \in Nat
    /\ None \notin Vals
    /\ BlockSize \in Nat \ {0}
    /\ LidsPerPort \in Nat \ {0}
    /\ MaxChanges \in Nat
    /\ MaxExtracts \in Nat

VARIABLES
    lft_rec_list,   \* changes reported and not drained
    db, dump, diff, \* the tables
    first,          \* first_time_subnet_up
    pc,             \* where the worker is
    extracting,     \* it drains for START_EXTRACT, not for LFT_CHANGE
    todo,           \* keys its loop has still to visit
    changes, extracts \* counted against the bounds

tables == <<db, dump, diff>>
bounds == <<changes, extracts>>
vars == <<lft_rec_list, tables, first, pc, extracting, todo, bounds>>
-----------------------------------------------------------------------------
(* Tables.                                                                 *)

Keys == Lids \X (0 .. MaxLidBlocks - 1)
NoOffset == -1

(* "map": offset by key; "tbl": the records written, by offset; "cap": the *)
(* records the array has room for.                                         *)
EmptyTable == [map |-> [k \in Keys |-> NoOffset], tbl |-> <<>>, cap |-> 0]

Mapped(t) == {k \in Keys : t.map[k] # NoOffset}
Count(t) == Cardinality(Mapped(t))

IsTable(t) ==
    /\ t = [map |-> t.map, tbl |-> t.tbl, cap |-> t.cap]
    /\ t.map \in [Keys -> Nat \cup {NoOffset}]
    /\ t.tbl \in [DOMAIN t.tbl -> Vals]
    /\ DOMAIN t.tbl \subseteq Nat
    /\ t.cap \in Nat

(* The record of a key.                                                    *)
Lookup(t, k) == t.tbl[t.map[k]]

(* malloc and realloc: what lies beyond the new capacity is gone.          *)
Realloc(t, cap) ==
    [map |-> t.map,
     tbl |-> [o \in {i \in DOMAIN t.tbl : i < cap} |-> t.tbl[o]],
     cap |-> cap]

(* cl_qmap_clear.                                                          *)
ClearMap(t) ==
    [map |-> [k \in Keys |-> NoOffset], tbl |-> t.tbl, cap |-> t.cap]

(* Mutant: a key that is present gets the new offset in the array, while   *)
(* cl_qmap_insert keeps the old one in the map.                            *)
MutEnter(t, k, v, new) ==
    [t EXCEPT !.map[k] = IF t.map[k] # NoOffset THEN t.map[k] ELSE new,
              !.tbl = [o \in DOMAIN t.tbl \cup {new} |->
                         IF o = new THEN v ELSE t.tbl[o]]]

(* cl_qmap_insert and memcpy: a key that is present keeps its offset.      *)
Enter(t, k, v, new) ==
    LET offset == IF t.map[k] # NoOffset THEN t.map[k] ELSE new
    IN  [map |-> [t.map EXCEPT ![k] = offset],
         tbl |-> [o \in DOMAIN t.tbl \cup {offset} |->
                    IF o = offset THEN v ELSE t.tbl[o]],
         cap |-> t.cap]

(* cl_qmap_head, cl_qmap_next: keys in the order of ep_rec_gen_key, which  *)
(* has the block number above the LID.                                     *)
Before(k1, k2) == k1[2] < k2[2] \/ (k1[2] = k2[2] /\ k1[1] < k2[1])
IsHead(k, keys) == k \in keys /\ \A j \in keys : ~Before(j, k)
-----------------------------------------------------------------------------
TypeOK ==
    /\ lft_rec_list \in Seq([key : Keys, val : Vals])
    /\ IsTable(db) /\ IsTable(dump) /\ IsTable(diff)
    /\ first \in BOOLEAN
    /\ pc \in {"poll", "full_dump", "drain", "compare", "collect", "resize", "merge"}
    /\ extracting \in BOOLEAN
    /\ todo \subseteq Keys
    /\ changes \in 0..MaxChanges
    /\ extracts \in 0..MaxExtracts

Init ==
    /\ lft_rec_list = <<>>
    /\ db = EmptyTable /\ dump = EmptyTable /\ diff = EmptyTable
    /\ first = TRUE
    /\ pc = "poll"
    /\ extracting = FALSE
    /\ todo = {}
    /\ changes = 0 /\ extracts = 0

(* report(): not while the worker drains, which holds lft_rec_list_lock.   *)
Report ==
    /\ pc # "drain"
    /\ changes < MaxChanges
    /\ \E k \in Keys, v \in Vals :
         lft_rec_list' = Append(lft_rec_list, [key |-> k, val |-> v])
    /\ changes' = changes + 1
    /\ UNCHANGED <<tables, first, pc, extracting, todo, extracts>>

(* SSA_DB_LFT_CHANGE.                                                      *)
ReadLftChange ==
    /\ pc = "poll"
    /\ pc' = "drain"
    /\ extracting' = FALSE
    /\ UNCHANGED <<lft_rec_list, tables, first, todo, bounds>>

(* SSA_DB_START_EXTRACT.  At the first one the database gets room for one  *)
(* record per switch, block of LIDs and LID of a port.  The table of a     *)
(* switch has no more blocks than the LIDs of the subnet need: OpenSM      *)
(* sizes both by the largest LID.                                          *)
ReadStartExtract ==
    /\ pc = "poll"
    /\ extracts < MaxExtracts
    /\ extracts' = extracts + 1
    /\ extracting' = TRUE
    /\ IF first
         THEN \E switches \in SUBSET Lids, lft_blocks \in 0..MaxLidBlocks :
                /\ \E size \in [switches -> 0..lft_blocks] :
                     todo' = {k \in Keys : k[1] \in switches /\ k[2] < size[k[1]]}
                /\ db' = Realloc(db, Cardinality(switches) * lft_blocks * LidsPerPort)
                /\ pc' = "full_dump"
         ELSE UNCHANGED <<todo, db>> /\ pc' = "drain"
    /\ UNCHANGED <<lft_rec_list, dump, diff, first, changes>>

(* One record of the full dump; lft_block_offset counts them.  The nodes   *)
(* come in the order of their GUIDs, so any key may be next.               *)
FullDumpRecord ==
    /\ pc = "full_dump"
    /\ \E k \in todo, v \in Vals :
         /\ db' = Enter(db, k, v, Count(db))
         /\ todo' = todo \ {k}
    /\ UNCHANGED <<lft_rec_list, dump, diff, first, pc, extracting, bounds>>

FullDumpDone ==
    /\ pc = "full_dump"
    /\ todo = {}
    /\ pc' = "drain"
    /\ UNCHANGED <<lft_rec_list, tables, first, extracting, todo, bounds>>

(* Mutant: the array grows one record too late.                            *)
MutGrown(t) ==
    IF Count(t) % BlockSize = 1
      THEN Realloc(t, (Count(t) \div BlockSize + 1) * BlockSize)
      ELSE t

(* The dump array has room for one more record.                            *)
Grown(t) ==
    IF Count(t) % BlockSize = 0
      THEN Realloc(t, (Count(t) \div BlockSize + 1) * BlockSize)
      ELSE t

(* ssa_db_lft_handle, one record of the list.                              *)
DrainRecord ==
    /\ pc = "drain"
    /\ lft_rec_list # <<>>
    /\ lft_rec_list' = Tail(lft_rec_list)
    /\ dump' = Enter(Grown(dump), Head(lft_rec_list).key, Head(lft_rec_list).val,
                     Count(dump))
    /\ UNCHANGED <<db, diff, first, pc, extracting, todo, bounds>>

DrainDone ==
    /\ pc = "drain"
    /\ lft_rec_list = <<>>
    /\ pc' = IF extracting THEN "compare" ELSE "poll"
    /\ UNCHANGED <<lft_rec_list, tables, first, extracting, todo, bounds>>
-----------------------------------------------------------------------------
(* ssa_db_compare.                                                         *)

(* The difference lists the whole database the first time, the dump later. *)
Source == IF first THEN db ELSE dump

Compare ==
    /\ pc = "compare"
    /\ diff' = Realloc(EmptyTable, Count(db) + Count(dump))
    /\ todo' = Mapped(Source)
    /\ pc' = "collect"
    /\ UNCHANGED <<lft_rec_list, db, dump, first, extracting, bounds>>

(* Mutant: a record keeps the offset it has in the source.                 *)
MutCollectRecord ==
    /\ pc = "collect"
    /\ \E k \in todo :
         /\ IsHead(k, todo)
         /\ diff' = Enter(diff, k, Lookup(Source, k), Source.map[k])
         /\ todo' = todo \ {k}
    /\ UNCHANGED <<lft_rec_list, db, dump, first, pc, extracting, bounds>>

(* ep_lft_block_qmap_copy into the difference, one record.                 *)
CollectRecord ==
    /\ pc = "collect"
    /\ \E k \in todo :
         /\ IsHead(k, todo)
         /\ diff' = Enter(diff, k, Lookup(Source, k), Count(diff))
         /\ todo' = todo \ {k}
    /\ UNCHANGED <<lft_rec_list, db, dump, first, pc, extracting, bounds>>

CollectDone ==
    /\ pc = "collect"
    /\ todo = {}
    /\ first' = FALSE
    /\ pc' = IF first THEN "poll" ELSE "resize"
    /\ UNCHANGED <<lft_rec_list, tables, extracting, todo, bounds>>

(* Mutant: the new records are counted as a difference of sizes.           *)
MutRoomForNew ==
    IF Count(dump) # Count(db) THEN Realloc(db, Count(dump) - Count(db)) ELSE db

(* ssa_db_diff_new_qmap_recs counts the keys the database has not.         *)
RoomForNew ==
    LET new == Mapped(dump) \ Mapped(db)
    IN  IF new # {} THEN Realloc(db, Count(db) + Cardinality(new)) ELSE db

Resize ==
    /\ pc = "resize"
    /\ db' = RoomForNew
    /\ todo' = Mapped(dump)
    /\ pc' = "merge"
    /\ UNCHANGED <<lft_rec_list, dump, diff, first, extracting, bounds>>

(* ep_lft_block_qmap_copy into the database, one record.                   *)
MergeRecord ==
    /\ pc = "merge"
    /\ \E k \in todo :
         /\ IsHead(k, todo)
         /\ db' = Enter(db, k, Lookup(dump, k), Count(db))
         /\ todo' = todo \ {k}
    /\ UNCHANGED <<lft_rec_list, dump, diff, first, pc, extracting, bounds>>

(* Then the dump's map is cleared and its array kept.                      *)
MergeDone ==
    /\ pc = "merge"
    /\ todo = {}
    /\ dump' = ClearMap(dump)
    /\ pc' = "poll"
    /\ UNCHANGED <<lft_rec_list, db, diff, first, extracting, todo, bounds>>
-----------------------------------------------------------------------------
FullDump == FullDumpRecord \/ FullDumpDone
Drain == DrainRecord \/ DrainDone
Comparison == Compare \/ CollectRecord \/ CollectDone
Merging == Resize \/ MergeRecord \/ MergeDone

Next == \/ Report \/ ReadLftChange \/ ReadStartExtract
        \/ FullDump \/ Drain \/ Comparison \/ Merging

Spec == Init /\ [][Next]_vars
-----------------------------------------------------------------------------
(* No record is ever written beyond its array: whichever of the three      *)
(* rules sized the array (the LID table at the first dump, blocks of 1024  *)
(* in the drain, the keys counted by ssa_db_diff_new_qmap_recs) leaves     *)
(* room for the records that follow, repeated keys and cleared maps        *)
(* included.                                                               *)
WithinCapacity ==
    \A t \in {db, dump, diff} : \A offset \in DOMAIN t.tbl : offset < t.cap

(* Two keys never share a record, and the records of a table are the first *)
(* ones of its array, as the loops over "count" records (ssa_db_validate_- *)
(* lft) and the sets of a difference (set_count) expect; every one of them *)
(* has been written.                                                       *)
SlotsSound(t) ==
    /\ \A k \in Mapped(t) : t.map[k] \in DOMAIN t.tbl /\ t.map[k] < Count(t)
    /\ \A k, j \in Mapped(t) : t.map[k] = t.map[j] => k = j

NoSharedSlot == SlotsSound(db) /\ SlotsSound(dump) /\ SlotsSound(diff)

(* Arrays and offsets implement plain stores of records by key.  No change *)
(* leaves the dump before the database and the difference have it.         *)
Contents(t) == [k \in Keys |-> IF t.map[k] = NoOffset THEN None ELSE Lookup(t, k)]

Store == INSTANCE LftStore WITH
    pending <- lft_rec_list,
    db <- Contents(db), dump <- Contents(dump), diff <- Contents(diff)

ImplementsLftStore == Store!Spec
=============================================================================
