------------------------ MODULE PluginLifecycleProofs ------------------------
(***************************************************************************)
(* Proofs about PluginLifecycle: what construct() leaves behind when it    *)
(* fails, what the pointers of the worker name, what can be lost, and that *)
(* the database of a difference is allocated and freed as a whole, for any *)
(* schema and any number of rounds.                                        *)
(***************************************************************************)
EXTENDS PluginLifecycle, FiniteSetTheorems, TLAPS

(***************************************************************************)
(* The database of a difference.  Its memory is always what ssa_db_create  *)
(* allocates before a place, an index of a pointer: an allocation moves    *)
(* the place one on, a free moves it one back, and the label a failed      *)
(* allocation goes to is the place it failed at.                           *)
(***************************************************************************)

Rank == [p_db |-> 1, p_def_tbl |-> 2, p_db_tables |-> 3, p_db_field_tables |-> 4,
         pp_tables |-> 5, tables |-> 6, pp_field_tables |-> 7, field_tables |-> 8]

(* The blocks that are allocated before entry n of a pointer.              *)
Before(p, n) ==
    {b \in Blocks : Rank[b[1]] < Rank[p] \/ (b[1] = p /\ b[2] < n)}

Size(p) == IF p \in Arrays THEN len ELSE 1

DbInv ==
    /\ db_pc \in {"none", "create", "defs", "fields", "ready", "free"}
    /\ db_pc = "create" =>
         /\ at \in Pointers
         /\ k \in 0..len /\ (at \in Scalars => k = 0)
         /\ memory = Before(at, k)
    /\ db_pc = "free" =>
         \/ at = "end" /\ memory = {}
         \/ at \in Scalars /\ k = 0 /\ memory = Before(at, 1)
         \/ at \in Arrays /\ k \in -1 .. len - 1 /\ memory = Before(at, k + 1)
    /\ AllOrNothing

LEMMA BlockForm ==
    /\ \A b \in Blocks : /\ b = <<b[1], b[2]>> /\ b[1] \in Pointers
                         /\ b[1] \in Scalars => b[2] = 0
                         /\ b[1] \in Arrays => b[2] \in TableIds /\ ~IsNull(b[1], b[2])
    /\ \A p \in Scalars : <<p, 0>> \in Blocks
    /\ \A p \in Arrays, i \in TableIds : ~IsNull(p, i) => <<p, i>> \in Blocks
BY DEF Blocks, Pointers, Scalars, Arrays

LEMMA Ranks == \A p \in Pointers : Rank[p] \in 1..8 /\ \A q \in Pointers : Rank[p] = Rank[q] => p = q
BY DEF Rank, Pointers, Scalars, Arrays

(* One entry more.                                                         *)
LEMMA BeforeScalar ==
    ASSUME NEW p \in Scalars
    PROVE  /\ Before(p, 1) = Before(p, 0) \cup {<<p, 0>>}
           /\ <<p, 0>> \notin Before(p, 0)
<1>1. p \in Pointers BY DEF Pointers
<1>2. <<p, 0>> \in Blocks BY BlockForm
<1>3. \A b \in Blocks : b \in Before(p, 1) <=> b \in Before(p, 0) \/ b = <<p, 0>>
  BY <1>1, BlockForm, Ranks DEF Before
<1>4. <<p, 0>> \notin Before(p, 0) BY <1>1, Ranks DEF Before
<1> QED BY <1>2, <1>3, <1>4 DEF Before

LEMMA BeforeEntry ==
    ASSUME NEW p \in Arrays, NEW i \in TableIds
    PROVE  /\ Before(p, i + 1) = IF IsNull(p, i) THEN Before(p, i) ELSE Before(p, i) \cup {<<p, i>>}
           /\ <<p, i>> \notin Before(p, i)
<1> USE LenAssumption DEF TableIds
<1>1. p \in Pointers BY DEF Pointers
<1>2. ~IsNull(p, i) => <<p, i>> \in Blocks BY BlockForm
<1>3. \A b \in Blocks : b[1] = p => b[2] \in TableIds /\ ~IsNull(p, b[2]) BY BlockForm
<1>4. \A b \in Blocks : b \in Before(p, i + 1) <=> b \in Before(p, i) \/ b = <<p, i>>
  BY <1>1, <1>3, BlockForm, Ranks DEF Before
<1>5. <<p, i>> \notin Before(p, i) BY <1>1, Ranks DEF Before
<1>6. CASE IsNull(p, i)
  <2>1. <<p, i>> \notin Blocks BY <1>6, <1>3
  <2> QED BY <1>4, <1>5, <1>6, <2>1 DEF Before
<1>7. CASE ~IsNull(p, i) BY <1>2, <1>4, <1>5, <1>7 DEF Before
<1> QED BY <1>6, <1>7

(* What is allocated before a pointer is what was before the one in front  *)
(* of it, and all of that one.                                             *)
LEMMA BeforeRank ==
    ASSUME NEW p \in Pointers, NEW q \in Pointers, Rank[q] = Rank[p] + 1
    PROVE  Before(q, 0) = Before(p, Size(p))
<1>1. ASSUME NEW b \in Blocks
      PROVE  b \in Before(q, 0) <=> b \in Before(p, Size(p))
  <2>1. b[1] \in Pointers /\ Rank[b[1]] \in 1..8 /\ Rank[p] \in 1..8
    BY BlockForm, Ranks
  <2>2. b[1] = p => b[2] < Size(p)
    BY BlockForm, LenAssumption DEF Size, TableIds, Pointers
  <2>3. b[1] = q => ~(b[2] < 0)
    BY BlockForm, LenAssumption DEF TableIds, Pointers
  <2>4. Rank[b[1]] < Rank[q] <=> Rank[b[1]] < Rank[p] \/ b[1] = p
    BY <2>1, Ranks
  <2> QED BY <2>2, <2>3, <2>4 DEF Before
<1> QED BY <1>1 DEF Before

LEMMA BeforeAfter ==
    ASSUME NEW p \in Pointers
    PROVE  /\ After[p] # "end" => /\ After[p] \in Pointers
                                  /\ Before(After[p], 0) = Before(p, Size(p))
           /\ After[p] = "end" => Before(p, Size(p)) = Blocks
           /\ After[p] = "end" <=> p = "field_tables"
<1>1. After[p] # "end" => After[p] \in Pointers /\ Rank[After[p]] = Rank[p] + 1
  BY DEF After, Rank, Pointers, Scalars, Arrays
<1>2. After[p] = "end" <=> p = "field_tables" BY DEF After, Pointers, Scalars, Arrays
<1>3. ASSUME p = "field_tables", NEW b \in Blocks PROVE b \in Before(p, Size(p))
  <2>1. b[1] = p => b[2] < Size(p)
    BY BlockForm, LenAssumption DEF Size, TableIds, Pointers
  <2>2. Rank[b[1]] < Rank[p] \/ b[1] = p
    BY <1>3, BlockForm DEF Rank, Pointers, Scalars, Arrays
  <2> QED BY <2>1, <2>2 DEF Before
<1> QED BY <1>1, <1>2, <1>3, BeforeRank DEF Before

(* A failed allocation goes to the label of what is before it, which is    *)
(* what is freed next when the failed pointer itself has been freed.       *)
LEMMA BeforeFreed ==
    ASSUME NEW p \in Pointers
    PROVE  /\ Goto[p] = FreedAfter[p]
           /\ Goto[p] # "end" => /\ Goto[p] \in Pointers
                                 /\ Before(p, 0) = Before(Goto[p], Size(Goto[p]))
           /\ Goto[p] = "end" => Before(p, 0) = {}
<1>1. Goto[p] = FreedAfter[p] BY DEF Goto, FreedAfter, Pointers, Scalars, Arrays
<1>2. Goto[p] # "end" => Goto[p] \in Pointers /\ Rank[p] = Rank[Goto[p]] + 1
  BY DEF Goto, Rank, Pointers, Scalars, Arrays
<1>3. ASSUME Goto[p] = "end", NEW b \in Before(p, 0) PROVE FALSE
  <2>1. p = "p_db" BY <1>3 DEF Goto, Pointers, Scalars, Arrays
  <2>2. b \in Blocks /\ (Rank[b[1]] < 1 \/ (b[1] = "p_db" /\ b[2] < 0))
    BY <2>1 DEF Before, Rank
  <2>3. b[1] \in Pointers /\ Rank[b[1]] \in 1..8 BY <2>2, BlockForm, Ranks
  <2>4. b[1] = "p_db" => b[2] = 0 BY <2>2, BlockForm DEF Scalars
  <2> QED BY <2>2, <2>3, <2>4
<1> QED BY <1>1, <1>2, <1>3, BeforeRank

LEMMA FreeFromInv ==
    ASSUME NEW p \in Pointers \cup {"end"}, FreeFrom(p),
           p # "end" => memory' = Before(p, Size(p)), p = "end" => memory' = {}
    PROVE  DbInv'
<1>0. "end" \notin Arrays BY DEF Arrays
<1>1. db_pc' = "free" /\ at' = p /\ k' = IF p \in Arrays THEN len - 1 ELSE 0
  BY DEF FreeFrom
<1>2. CASE p = "end" BY <1>0, <1>1, <1>2 DEF DbInv, AllOrNothing, Created
<1>3. CASE p \in Scalars
  <2>1. p \notin Arrays /\ p # "end" BY <1>3 DEF Arrays, Scalars
  <2>2. k' = 0 /\ memory' = Before(p, 1) BY <1>1, <2>1 DEF Size
  <2> QED BY <1>1, <1>3, <2>2 DEF DbInv, AllOrNothing, Created, Before
<1>4. CASE p \in Arrays
  <2>1. p # "end" BY <1>4, <1>0
  <2>2. k' = len - 1 /\ memory' = Before(p, k' + 1)
    BY <1>1, <1>4, <2>1, LenAssumption DEF Size
  <2>3. k' \in -1 .. len - 1 BY <2>2, LenAssumption
  <2> QED BY <1>1, <1>4, <2>2, <2>3 DEF DbInv, AllOrNothing, Created
<1> QED BY <1>2, <1>3, <1>4 DEF Pointers

LEMMA DbAllocate == DbInv /\ Allocate => DbInv'
<1> SUFFICES ASSUME DbInv, Allocate PROVE DbInv' OBVIOUS
<1> USE LenAssumption
<1>0. /\ db_pc = "create" /\ at \in Pointers /\ k \in 0..len /\ (at \in Scalars => k = 0)
      /\ memory = Before(at, k)
  BY DEF DbInv, Allocate
<1>1. CASE /\ at \in Scalars /\ memory' = memory \cup {<<at, 0>>} /\ at' = After[at]
           /\ UNCHANGED <<db_pc, k>>
  <2>1. at \notin Arrays /\ After[at] # "end"
    BY <1>1, <1>0, BeforeAfter DEF Scalars, Arrays
  <2>2. memory' = Before(at, Size(at)) BY <1>0, <1>1, <2>1, BeforeScalar DEF Size
  <2>3. memory' = Before(at', 0) /\ at' \in Pointers BY <1>0, <1>1, <2>1, <2>2, BeforeAfter
  <2> QED BY <1>0, <1>1, <2>3 DEF DbInv, AllOrNothing, Created
<1>2. CASE /\ at \in Arrays /\ k < len
           /\ memory' = IF IsNull(at, k) THEN memory ELSE memory \cup {<<at, k>>}
           /\ k' = k + 1 /\ UNCHANGED <<db_pc, at>>
  <2>1. k \in TableIds /\ k' \in 0..len BY <1>0, <1>2 DEF TableIds
  <2>2. memory' = Before(at, k') BY <1>0, <1>2, <2>1, BeforeEntry
  <2>3. at \notin Scalars BY <1>2 DEF Scalars, Arrays
  <2> QED BY <1>0, <1>2, <2>1, <2>2, <2>3 DEF DbInv, AllOrNothing, Created
<1>3. CASE /\ at \in Arrays /\ k = len /\ at' = After[at] /\ k' = 0
           /\ db_pc' = IF at' = "end" THEN "defs" ELSE db_pc
           /\ UNCHANGED memory
  <2>1. memory' = Before(at, Size(at)) BY <1>0, <1>3 DEF Size
  <2>2. CASE at' = "end"
    BY <1>0, <1>3, <2>1, <2>2, BeforeAfter DEF DbInv, AllOrNothing, Created
  <2>3. CASE at' # "end"
    <3>1. memory' = Before(at', 0) /\ at' \in Pointers BY <1>0, <1>3, <2>1, <2>3, BeforeAfter
    <3> QED BY <1>0, <1>3, <2>3, <3>1 DEF DbInv, AllOrNothing, Created
  <2> QED BY <2>2, <2>3
<1> QED BY <1>0, <1>1, <1>2, <1>3 DEF Allocate

LEMMA DbAllocFails == DbInv /\ AllocFails => DbInv'
<1> SUFFICES ASSUME DbInv, AllocFails PROVE DbInv' OBVIOUS
<1>0. /\ db_pc = "create" /\ at \in Pointers /\ k \in 0..len /\ (at \in Scalars => k = 0)
      /\ memory = Before(at, k) /\ memory' = memory
      /\ at \in Arrays => k < len
  BY DEF DbInv, AllocFails
<1>1. CASE k = 0
  <2>1. FreeFrom(Goto[at]) BY <1>1 DEF AllocFails
  <2>2. Goto[at] \in Pointers \cup {"end"} BY <1>0, BeforeFreed
  <2> QED BY <1>0, <1>1, <2>1, <2>2, BeforeFreed, FreeFromInv
<1>2. CASE k # 0
  <2>1. at \in Arrays BY <1>0, <1>2 DEF Pointers
  <2>2. db_pc' = "free" /\ k' = k - 1 /\ at' = at BY <1>2 DEF AllocFails
  <2>3. k' \in -1 .. len - 1 /\ k' + 1 = k BY <1>0, <2>1, <2>2, LenAssumption
  <2> QED BY <1>0, <2>1, <2>2, <2>3 DEF DbInv, AllOrNothing, Created
<1> QED BY <1>1, <1>2

LEMMA DbFree == DbInv /\ Free => DbInv'
<1> SUFFICES ASSUME DbInv, Free PROVE DbInv' OBVIOUS
<1>1. CASE at \in Scalars /\ memory' = memory \ {<<at, 0>>} /\ FreeFrom(FreedAfter[at])
  <2>1. memory = Before(at, 1) BY <1>1 DEF DbInv, Free, Scalars, Arrays
  <2>2. memory' = Before(at, 0) BY <1>1, <2>1, BeforeScalar
  <2>3. at \in Pointers BY <1>1 DEF Pointers
  <2>4. FreedAfter[at] \in Pointers \cup {"end"} BY <2>3, BeforeFreed
  <2> QED BY <1>1, <2>2, <2>3, <2>4, BeforeFreed, FreeFromInv
<1>2. CASE /\ at \in Arrays /\ k >= 0
           /\ memory' = IF IsNull(at, k) THEN memory ELSE memory \ {<<at, k>>}
           /\ k' = k - 1 /\ UNCHANGED <<db_pc, at>>
  <2>1. db_pc = "free" /\ k \in -1 .. len - 1 /\ memory = Before(at, k + 1)
    BY <1>2 DEF DbInv, Free, Scalars, Arrays
  <2>2. k \in TableIds /\ k' \in -1 .. len - 1 /\ k' + 1 = k
    BY <1>2, <2>1, LenAssumption DEF TableIds
  <2>3. memory' = Before(at, k' + 1) BY <1>2, <2>1, <2>2, BeforeEntry
  <2> QED BY <1>2, <2>1, <2>2, <2>3 DEF DbInv, AllOrNothing, Created
<1>3. CASE at \in Arrays /\ k < 0 /\ FreeFrom(FreedAfter[at]) /\ UNCHANGED memory
  <2>1. k \in -1 .. len - 1 /\ memory = Before(at, k + 1)
    BY <1>3 DEF DbInv, Free, Scalars, Arrays
  <2>a. k < 0 /\ memory' = memory BY <1>3
  <2>b. k + 1 = 0 BY <2>1, <2>a, LenAssumption
  <2>2. memory' = Before(at, 0) BY <2>1, <2>a, <2>b
  <2>3. at \in Pointers BY <1>3 DEF Pointers
  <2>4. FreedAfter[at] \in Pointers \cup {"end"} BY <2>3, BeforeFreed
  <2> QED BY <1>3, <2>2, <2>3, <2>4, BeforeFreed, FreeFromInv
<1> QED BY <1>1, <1>2, <1>3 DEF Free

LEMMA DbStepInv == DbInv /\ DbStep => DbInv'
<1>1. DbInv /\ (InsertDef \/ InitDatasets) => DbInv'
  BY DEF DbInv, InsertDef, InitDatasets, AllOrNothing, Created
<1>2. DbInv /\ (InsertField \/ NextDef \/ InitDone) => DbInv'
  BY DEF DbInv, InsertField, NextDef, InitDone, AllOrNothing, Created
<1>3. DbInv /\ Freed => DbInv' BY DEF DbInv, Freed, AllOrNothing, Created, Scalars, Arrays
<1> QED BY <1>1, <1>2, <1>3, DbAllocate, DbAllocFails, DbFree DEF DbStep

LEMMA DbStart == memory = {} /\ StartCreate /\ UNCHANGED memory => DbInv'
<1> SUFFICES ASSUME memory = {}, StartCreate, UNCHANGED memory PROVE DbInv' OBVIOUS
<1>1. db_pc' = "create" /\ at' = "p_db" /\ k' = 0 /\ memory' = {} BY DEF StartCreate
<1>2. "p_db" \in Pointers /\ Goto["p_db"] = "end" BY DEF Pointers, Scalars, Goto
<1>3. memory' = Before(at', k') BY <1>1, <1>2, BeforeFreed
<1> QED BY <1>1, <1>2, <1>3, LenAssumption DEF DbInv, AllOrNothing, Created

LEMMA DbDestroyStart == DbInv /\ db_pc = "ready" /\ StartDestroy /\ UNCHANGED memory => DbInv'
<1> SUFFICES ASSUME DbInv, db_pc = "ready", StartDestroy, UNCHANGED memory PROVE DbInv' OBVIOUS
<1>1. memory' = Blocks BY DEF DbInv, AllOrNothing, Created
<1>2. "field_tables" \in Pointers BY DEF Pointers, Arrays
<1>3. memory' = Before("field_tables", Size("field_tables")) BY <1>1, <1>2, BeforeAfter
<1> QED BY <1>2, <1>3, FreeFromInv DEF StartDestroy

(* The database's invariant gives its properties.                          *)
LEMMA DbLive == DbInv => FreesAreLive
<1> SUFFICES ASSUME DbInv PROVE FreesAreLive OBVIOUS
<1>1. ASSUME db_pc = "free", at \in Scalars
      PROVE  <<at, 0>> \in memory /\ <<Holder(at), 0>> \in memory
  <2>1. memory = Before(at, 1) BY <1>1 DEF DbInv, Scalars, Arrays
  <2>2. <<at, 0>> \in memory BY <2>1, <1>1, BeforeScalar
  <2>3. Holder(at) = "p_db" BY <1>1 DEF Holder, Scalars
  <2>4. <<"p_db", 0>> \in Blocks BY BlockForm DEF Scalars
  <2>5. <<"p_db", 0>> \in Before(at, 1) BY <2>4, <1>1 DEF Before, Rank, Scalars
  <2> QED BY <2>1, <2>2, <2>3, <2>5
<1>2. ASSUME db_pc = "free", at \in Arrays, k >= 0
      PROVE  <<Holder(at), 0>> \in memory /\ (IsNull(at, k) \/ <<at, k>> \in memory)
  <2>1. k \in TableIds /\ memory = Before(at, k + 1)
    BY <1>2, LenAssumption DEF DbInv, Scalars, Arrays, TableIds
  <2>2. IsNull(at, k) \/ <<at, k>> \in memory BY <1>2, <2>1, BeforeEntry
  <2>3. Holder(at) \in Scalars /\ Rank[Holder(at)] < Rank[at]
    BY <1>2 DEF Holder, Scalars, Arrays, Rank
  <2>4. <<Holder(at), 0>> \in Blocks BY <2>3, BlockForm
  <2>5. <<Holder(at), 0>> \in Before(at, k + 1) BY <2>3, <2>4 DEF Before
  <2> QED BY <2>1, <2>2, <2>5
<1> QED BY <1>1, <1>2 DEF FreesAreLive

-----------------------------------------------------------------------------
(***************************************************************************)
(* The schema ssa_db_init copies.  Once a part of the two tables has been  *)
(* looked at, the table a definition refers to holds one field for each    *)
(* place of that definition in this part, one behind the other, and they   *)
(* end where the last of these places does.                                *)
(***************************************************************************)

Looked(r) == {n \in Places(r) : r < p_tbl_def \/ (r = p_tbl_def /\ n < p_field_def)}

LastOf(P, m) == m \in P \cup {0} /\ \A q \in P : q <= m

(* These fields are those of a set of places.                              *)
Laid(s, P) ==
    /\ Len(s) = Cardinality(P)
    /\ \A n \in DOMAIN s : s[n].offset = EndOf(s, n - 1)
    /\ \E m : LastOf(P, m) /\ EndOf(s, Len(s)) = End(m)

Copied(r) == Laid(fields[def_tbl[r].ref], Looked(r))

Definitions == [type : {"data", "def"}, table : Nat, ref : Nat]
Fields == [table : Nat, size : Nat, offset : Nat]

Fresh ==
    /\ p_tbl_def = 1 /\ p_field_def = 1
    /\ defs = <<>> /\ fields = [i \in TableIds |-> <<>>]

SchemaInv ==
    /\ db_pc \in {"none", "create"} => Fresh
    /\ Created => /\ p_tbl_def \in 1 .. Len(def_tbl) + 1
                  /\ p_field_def \in 1 .. Len(field_tbl) + 1
                  /\ defs \in Seq(Definitions)
                  /\ fields \in [TableIds -> Seq(Fields)]
    /\ db_pc = "defs" => /\ Len(defs) = p_tbl_def - 1
                         /\ fields = [i \in TableIds |-> <<>>]
    /\ db_pc \in {"fields", "ready"} =>
         /\ Len(defs) = Len(def_tbl)
         /\ counted = dataset_tbl
         /\ \A i \in TableIds : Variable(i) => fields[i] = <<>>
         /\ \A r \in DefRows : Copied(r)
    /\ db_pc = "ready" => p_tbl_def = Len(def_tbl) + 1

(* What the schema is, without the cardinalities.                          *)
LEMMA SchemaForm ==
    /\ def_tbl \in Seq(Definitions) /\ field_tbl \in Seq(Fields)
    /\ \A r \in DefRows : def_tbl[r].ref \in TableIds /\ ~Variable(def_tbl[r].ref)
    /\ \A r, q \in DefRows : def_tbl[r].ref = def_tbl[q].ref => r = q
    /\ \A i \in TableIds : ~Variable(i) => \E r \in DefRows : def_tbl[r].ref = i
    /\ \A r \in DefRows : IsFiniteSet(Places(r)) /\ Places(r) \subseteq Nat \ {0}
<1> DEFINE Of(i) == {r \in DefRows : def_tbl[r].ref = i}
<1>1. /\ def_tbl \in Seq(Definitions) /\ field_tbl \in Seq(Fields)
      /\ \A r \in DefRows : def_tbl[r].ref \in TableIds
      /\ \A i \in TableIds : Cardinality(Of(i)) = IF Variable(i) THEN 0 ELSE 1
  BY SchemaFormed DEF SchemaAssumption, Definitions, Fields
<1>2. /\ DefRows \subseteq 1 .. Len(def_tbl) /\ Len(def_tbl) \in Nat
      /\ \A r : Places(r) \subseteq 1 .. Len(field_tbl) /\ Len(field_tbl) \in Nat
  BY <1>1 DEF DefRows, Places
<1>3. \A i : IsFiniteSet(Of(i))
  <2>1. IsFiniteSet(1 .. Len(def_tbl)) BY <1>2, FS_Interval
  <2>2. \A i : Of(i) \in SUBSET (1 .. Len(def_tbl)) BY <1>2
  <2> QED BY <2>1, <2>2, FS_Subset
<1>4. \A r : IsFiniteSet(Places(r))
  <2>1. IsFiniteSet(1 .. Len(field_tbl)) BY <1>2, FS_Interval
  <2> QED BY <1>2, <2>1, FS_Subset
<1>5. \A i \in TableIds : Variable(i) => Of(i) = {}
  <2> SUFFICES ASSUME NEW i \in TableIds, Variable(i) PROVE Of(i) = {} OBVIOUS
  <2>1. Cardinality(Of(i)) = 0 /\ IsFiniteSet(Of(i)) BY <1>1, <1>3
  <2> QED BY <2>1, FS_EmptySet
<1>6. \A i \in TableIds : ~Variable(i) => \E r : Of(i) = {r}
  <2> SUFFICES ASSUME NEW i \in TableIds, ~Variable(i) PROVE \E r : Of(i) = {r} OBVIOUS
  <2>1. Cardinality(Of(i)) = 1 /\ IsFiniteSet(Of(i)) BY <1>1, <1>3
  <2> QED BY <2>1, FS_Singleton
<1>7. \A r \in DefRows : r \in Of(def_tbl[r].ref) OBVIOUS
<1>8. \A r \in DefRows : ~Variable(def_tbl[r].ref) BY <1>1, <1>5, <1>7
<1>9. \A r, q \in DefRows : def_tbl[r].ref = def_tbl[q].ref => r = q
  BY <1>1, <1>6, <1>7, <1>8
<1>10. \A i \in TableIds : ~Variable(i) => \E r \in DefRows : def_tbl[r].ref = i
  BY <1>6
<1> QED BY <1>1, <1>2, <1>4, <1>8, <1>9, <1>10

(* One field more, which begins where those before it end.                 *)
LEMMA FieldAppended ==
    ASSUME NEW s \in Seq(Fields), NEW P, IsFiniteSet(P), P \subseteq Nat,
           NEW n \in DOMAIN field_tbl, \A q \in P : q < n,
           Laid(s, P), field_tbl[n].offset = EndOf(s, Len(s)),
           NEW t, t = Append(s, field_tbl[n])
    PROVE  Laid(t, P \cup {n})
<1>0. Len(s) = Cardinality(P) /\ \A j \in DOMAIN s : s[j].offset = EndOf(s, j - 1)
  BY DEF Laid
<1>1. n \in Nat \ {0} /\ field_tbl[n] \in Fields BY SchemaForm
<1>2. /\ t \in Seq(Fields) /\ Len(t) = Len(s) + 1 /\ Len(s) \in Nat
      /\ DOMAIN t = 1 .. Len(s) + 1 /\ DOMAIN s = 1 .. Len(s)
      /\ t[Len(s) + 1] = field_tbl[n]
      /\ \A j \in 1 .. Len(s) : t[j] = s[j]
  BY <1>1
<1>3. \A j \in 0 .. Len(s) : EndOf(t, j) = EndOf(s, j) BY <1>2 DEF EndOf
<1>4. n \notin P BY <1>1
<1>5. Cardinality(P \cup {n}) = Cardinality(P) + 1 BY <1>4, FS_AddElement
<1>6. ASSUME NEW j \in DOMAIN t PROVE t[j].offset = EndOf(t, j - 1)
  <2>1. CASE j \in 1 .. Len(s)
    <3>1. j - 1 \in 0 .. Len(s) BY <2>1
    <3> QED BY <1>0, <1>2, <1>3, <2>1, <3>1
  <2>2. CASE j = Len(s) + 1
    <3>1. j - 1 = Len(s) BY <1>2, <2>2
    <3> QED BY <1>2, <1>3, <2>2, <3>1
  <2> QED BY <1>2, <2>1, <2>2
<1>7. LastOf(P \cup {n}, n) BY <1>1 DEF LastOf
<1>8. EndOf(t, Len(t)) = End(n) BY <1>1, <1>2 DEF EndOf, End
<1> QED BY <1>0, <1>2, <1>5, <1>6, <1>7, <1>8 DEF Laid

LEMMA SchemaInsertDef == SchemaInv /\ InsertDef => SchemaInv'
<1> SUFFICES ASSUME SchemaInv, InsertDef PROVE SchemaInv' OBVIOUS
<1>1. /\ db_pc = "defs" /\ db_pc' = "defs" /\ UNCHANGED <<p_field_def, fields>>
      /\ p_tbl_def <= Len(def_tbl) /\ p_tbl_def' = p_tbl_def + 1
      /\ defs' = Append(defs, def_tbl[p_tbl_def])
  BY DEF InsertDef
<1>2. p_tbl_def \in DOMAIN def_tbl /\ def_tbl[p_tbl_def] \in Definitions
  BY <1>1, SchemaForm DEF SchemaInv, Created
<1>3. defs' \in Seq(Definitions) /\ Len(defs') = Len(defs) + 1
  BY <1>1, <1>2 DEF SchemaInv, Created
<1>4. p_tbl_def' \in 1 .. Len(def_tbl) + 1 BY <1>1, <1>2, SchemaForm
<1>5. Len(defs') = p_tbl_def' - 1 BY <1>1, <1>2, <1>3, SchemaForm DEF SchemaInv
<1> QED BY <1>1, <1>3, <1>4, <1>5 DEF SchemaInv, Created

LEMMA SchemaInitDatasets == SchemaInv /\ InitDatasets => SchemaInv'
<1> SUFFICES ASSUME SchemaInv, InitDatasets PROVE SchemaInv' OBVIOUS
<1>1. /\ db_pc = "defs" /\ db_pc' = "fields" /\ UNCHANGED <<defs, fields>>
      /\ p_tbl_def > Len(def_tbl) /\ p_tbl_def' = 1 /\ p_field_def' = 1
      /\ counted' = dataset_tbl
  BY DEF InitDatasets
<1>2. /\ Len(defs) = p_tbl_def - 1 /\ fields = [i \in TableIds |-> <<>>]
      /\ p_tbl_def \in 1 .. Len(def_tbl) + 1 /\ defs \in Seq(Definitions)
      /\ fields \in [TableIds -> Seq(Fields)]
  BY <1>1 DEF SchemaInv, Created
<1>3. Len(def_tbl) \in Nat /\ Len(field_tbl) \in Nat /\ DefRows \subseteq 1 .. Len(def_tbl)
  BY SchemaForm DEF DefRows
<1>4. Len(defs') = Len(def_tbl) BY <1>1, <1>2, <1>3
<1>5. ASSUME NEW r \in DefRows PROVE Copied(r)'
  <2>1. Looked(r)' = {} BY <1>1, <1>3, SchemaForm DEF Looked
  <2>2. fields'[def_tbl[r].ref] = <<>> BY <1>1, <1>2, SchemaForm
  <2>3. LastOf({}, 0) BY DEF LastOf
  <2>4. EndOf(<<>>, 0) = End(0) BY DEF EndOf, End
  <2>5. Cardinality({}) = 0 BY FS_EmptySet
  <2> QED BY <2>1, <2>2, <2>3, <2>4, <2>5 DEF Copied, Laid
<1> QED BY <1>1, <1>2, <1>3, <1>4, <1>5 DEF SchemaInv, Created

(* A definition whose table did not change and of which no further place   *)
(* has been looked at.                                                     *)
LEMMA CopiedKept ==
    ASSUME NEW r, Copied(r), Looked(r)' = Looked(r),
           fields'[def_tbl[r].ref] = fields[def_tbl[r].ref]
    PROVE  Copied(r)'
BY DEF Copied

LEMMA SchemaInsertField == SchemaInv /\ InsertField => SchemaInv'
<1> SUFFICES ASSUME SchemaInv, InsertField PROVE SchemaInv' OBVIOUS
<1> DEFINE d == p_tbl_def
           n == p_field_def
           i == def_tbl[d].ref
<1>1. /\ db_pc = "fields" /\ db_pc' = "fields" /\ UNCHANGED <<p_tbl_def, defs, counted>>
      /\ d \in DefRows /\ n <= Len(field_tbl) /\ n' = n + 1
      /\ fields' = IF n \in Places(d) THEN [fields EXCEPT ![i] = Append(@, field_tbl[n])]
                                      ELSE fields
  <2>1. n \in DOMAIN field_tbl
    BY SchemaForm DEF InsertField, SchemaInv, Created
  <2> QED BY <2>1 DEF InsertField, IsFieldOf, Places
<1>2. /\ n \in 1 .. Len(field_tbl) /\ d \in 1 .. Len(def_tbl) + 1 /\ n \in DOMAIN field_tbl
      /\ defs \in Seq(Definitions) /\ fields \in [TableIds -> Seq(Fields)]
      /\ Len(field_tbl) \in Nat /\ field_tbl[n] \in Fields
  BY <1>1, SchemaForm DEF SchemaInv, Created
<1>3. i \in TableIds /\ ~Variable(i) BY <1>1, SchemaForm
<1>4. fields' \in [TableIds -> Seq(Fields)] BY <1>1, <1>2, <1>3
<1>5. \A j \in TableIds : j # i => fields'[j] = fields[j] BY <1>1, <1>2, <1>3
<1>6. ASSUME NEW r \in DefRows, r # d PROVE Copied(r)'
  <2>1. Looked(r)' = Looked(r) BY <1>1, <1>6 DEF Looked
  <2>2. fields'[def_tbl[r].ref] = fields[def_tbl[r].ref] BY <1>1, <1>5, <1>6, SchemaForm
  <2> QED BY <1>1, <2>1, <2>2, CopiedKept DEF SchemaInv
<1>7. ASSUME NEW r, r = d PROVE Copied(r)'
  <2>1. /\ Places(r) \subseteq Nat
        /\ Looked(r) = {q \in Places(r) : q < n}
        /\ Looked(r)' = {q \in Places(r) : q < n + 1}
    BY <1>1, <1>2, <1>7, SchemaForm DEF Looked
  <2>2. CASE n \notin Places(r)
    <3>1. Looked(r)' = Looked(r) BY <1>2, <2>1, <2>2
    <3>2. fields' = fields BY <1>1, <1>7, <2>2
    <3> QED BY <1>1, <1>7, <3>1, <3>2, CopiedKept DEF SchemaInv
  <2>3. CASE n \in Places(r)
    <3>1. PICK s : s = fields[i] OBVIOUS
    <3>2. PICK t : t = fields'[i] OBVIOUS
    <3>3. PICK P : P = Looked(r) OBVIOUS
    <3>4. s \in Seq(Fields) /\ t = Append(s, field_tbl[n])
      BY <1>1, <1>2, <1>3, <1>7, <2>3, <3>1, <3>2
    <3>5. IsFiniteSet(P) /\ P \subseteq Nat /\ \A q \in P : q < n
      BY <1>1, <1>7, <2>1, <3>3, SchemaForm, FS_Subset
    <3>6. Laid(s, P) BY <1>1, <1>7, <3>1, <3>3 DEF SchemaInv, Copied
    <3>7. PICK m : LastOf(P, m) /\ EndOf(s, Len(s)) = End(m) BY <3>6 DEF Laid
    <3>8. field_tbl[n].offset = EndOf(s, Len(s))
      <4>1. m \in Places(r) \cup {0} /\ m < n /\ \A q \in Places(r) : q < n => q <= m
        BY <1>2, <2>1, <3>3, <3>7 DEF LastOf
      <4> QED BY <1>1, <1>7, <2>3, <3>7, <4>1, SchemaFormed DEF SchemaAssumption
    <3>9. Looked(r)' = P \cup {n} BY <1>2, <2>1, <2>3, <3>3
    <3>10. Laid(t, P \cup {n})
      BY <1>2, <3>4, <3>5, <3>6, <3>8, FieldAppended
    <3>11. fields'[def_tbl[r].ref] = t BY <1>7, <3>2
    <3> QED BY <3>9, <3>10, <3>11 DEF Copied
  <2> QED BY <2>2, <2>3
<1>8. \A j \in TableIds : Variable(j) => fields'[j] = <<>>
  BY <1>1, <1>3, <1>5 DEF SchemaInv
<1>9. n' \in 1 .. Len(field_tbl) + 1 BY <1>1, <1>2
<1>10. \A r \in DefRows : Copied(r)' BY <1>6, <1>7
<1>11. p_tbl_def' \in 1 .. Len(def_tbl) + 1 /\ defs' \in Seq(Definitions)
  BY <1>1, <1>2
<1>12. Len(defs') = Len(def_tbl) /\ counted' = dataset_tbl BY <1>1 DEF SchemaInv
<1> QED BY <1>1, <1>4, <1>8, <1>9, <1>10, <1>11, <1>12 DEF SchemaInv, Created

LEMMA SchemaNextDef == SchemaInv /\ NextDef => SchemaInv'
<1> SUFFICES ASSUME SchemaInv, NextDef PROVE SchemaInv' OBVIOUS
<1>1. /\ db_pc = "fields" /\ db_pc' = "fields" /\ UNCHANGED <<defs, counted, fields>>
      /\ p_tbl_def <= Len(def_tbl) /\ p_tbl_def' = p_tbl_def + 1 /\ p_field_def' = 1
      /\ p_tbl_def \in DefRows => p_field_def > Len(field_tbl)
  BY DEF NextDef
<1>2. /\ p_tbl_def \in 1 .. Len(def_tbl) + 1 /\ p_field_def \in 1 .. Len(field_tbl) + 1
      /\ Len(field_tbl) \in Nat /\ Len(def_tbl) \in Nat
  BY <1>1, SchemaForm DEF SchemaInv, Created
<1>3. ASSUME NEW r \in DefRows PROVE Copied(r)'
  <2>1. r \in 1 .. Len(def_tbl) /\ Places(r) \subseteq 1 .. Len(field_tbl)
    BY SchemaForm DEF DefRows, Places
  <2>2. Looked(r)' = Looked(r) BY <1>1, <1>2, <2>1 DEF Looked
  <2> QED BY <1>1, <2>2, CopiedKept DEF SchemaInv
<1>4. p_tbl_def' \in 1 .. Len(def_tbl) + 1 /\ p_field_def' \in 1 .. Len(field_tbl) + 1
  BY <1>1, <1>2
<1> QED BY <1>1, <1>3, <1>4 DEF SchemaInv, Created

LEMMA SchemaInitDone == SchemaInv /\ InitDone => SchemaInv'
<1> SUFFICES ASSUME SchemaInv, InitDone PROVE SchemaInv' OBVIOUS
<1>1. /\ db_pc = "fields" /\ db_pc' = "ready" /\ UNCHANGED schemaVars
      /\ p_tbl_def > Len(def_tbl)
  BY DEF InitDone
<1>2. p_tbl_def = Len(def_tbl) + 1 BY <1>1, SchemaForm DEF SchemaInv, Created
<1>3. \A r \in DefRows : Copied(r)' BY <1>1 DEF SchemaInv, Copied, Looked, schemaVars
<1> QED BY <1>1, <1>2, <1>3 DEF SchemaInv, Created, schemaVars

(* Nothing of the schema is touched outside ssa_db_init; a database that   *)
(* is freed is no longer looked at.                                        *)
LEMMA SchemaKept == SchemaInv /\ UNCHANGED <<db_pc, schemaVars>> => SchemaInv'
<1> SUFFICES ASSUME SchemaInv, UNCHANGED <<db_pc, schemaVars>> PROVE SchemaInv' OBVIOUS
<1>1. \A r \in DefRows : Copied(r) => Copied(r)' BY DEF Copied, Looked, schemaVars
<1> QED BY <1>1 DEF SchemaInv, Created, Fresh, schemaVars

LEMMA SchemaFreed == db_pc' = "free" => SchemaInv'
BY DEF SchemaInv, Created

LEMMA SchemaStarts == Fresh /\ UNCHANGED schemaVars /\ db_pc' \in {"create", "defs"} => SchemaInv'
<1> SUFFICES ASSUME Fresh, UNCHANGED schemaVars, db_pc' \in {"create", "defs"} PROVE SchemaInv'
  OBVIOUS
<1>1. Fresh' BY DEF Fresh, schemaVars
<1>2. Len(def_tbl) \in Nat /\ Len(field_tbl) \in Nat BY SchemaForm
<1>3. defs' \in Seq(Definitions) /\ Len(defs') = 0 BY <1>1 DEF Fresh
<1>4. fields' \in [TableIds -> Seq(Fields)] BY <1>1 DEF Fresh
<1> QED BY <1>1, <1>2, <1>3, <1>4 DEF SchemaInv, Created, Fresh

LEMMA SchemaDbStep == SchemaInv /\ DbStep => SchemaInv'
<1>1. ASSUME SchemaInv, Allocate PROVE SchemaInv'
  <2>1. db_pc = "create" /\ db_pc' \in {"create", "defs"} /\ UNCHANGED schemaVars
    BY <1>1 DEF Allocate
  <2> QED BY <1>1, <2>1, SchemaStarts DEF SchemaInv
<1>2. AllocFails => SchemaInv' BY SchemaFreed DEF AllocFails, FreeFrom
<1>3. ASSUME Free PROVE SchemaInv'
  <2>1. db_pc' = "free" BY <1>3 DEF Free, FreeFrom
  <2> QED BY <2>1, SchemaFreed
<1>4. Freed => SchemaInv' BY DEF Freed, SchemaInv, Fresh, Created
<1> QED BY <1>1, <1>2, <1>3, <1>4, SchemaInsertDef, SchemaInitDatasets, SchemaInsertField,
         SchemaNextDef, SchemaInitDone DEF DbStep

(* A database that is there holds a schema that fits, and, when            *)
(* ssa_db_init has returned, describes its records.                        *)
LEMMA SchemaGood == DbInv /\ SchemaInv => SchemaFits /\ FieldsDescribeRecords
<1> SUFFICES ASSUME DbInv, SchemaInv PROVE SchemaFits /\ FieldsDescribeRecords OBVIOUS
<1>1. ASSUME Created PROVE Len(defs) <= DefRecs
  <2>1. Len(def_tbl) \in Nat /\ Len(def_tbl) <= 2 * len /\ p_tbl_def \in 1 .. Len(def_tbl) + 1
    BY <1>1, SchemaForm, SchemaFormed DEF SchemaAssumption, SchemaInv
  <2>2. Len(defs) <= Len(def_tbl) /\ Len(defs) \in Nat BY <1>1, <2>1 DEF Created, SchemaInv
  <2> QED BY <2>1, <2>2, LenAssumption DEF DefRecs
<1>2. ASSUME Created, NEW i \in TableIds, fields[i] # <<>>
      PROVE  /\ <<"field_tables", i>> \in memory
             /\ i \in counted
             /\ Len(fields[i]) <= num_field_recs[i]
  <2>1. db_pc \in {"fields", "ready"} /\ ~Variable(i)
    BY <1>2 DEF Created, SchemaInv
  <2>2. <<"field_tables", i>> \in Blocks BY <2>1, BlockForm DEF IsNull, Arrays
  <2>3. memory = Blocks BY <1>2 DEF DbInv, AllOrNothing
  <2>4. PICK r \in DefRows : def_tbl[r].ref = i BY <2>1, SchemaForm
  <2>5. i \in counted BY <2>1, <2>4, SchemaFormed DEF SchemaAssumption, SchemaInv
  <2>6. Len(fields[i]) = Cardinality(Looked(r)) BY <2>1, <2>4 DEF SchemaInv, Copied, Laid
  <2>7. IsFiniteSet(Places(r)) /\ Looked(r) \in SUBSET Places(r) BY SchemaForm DEF Looked
  <2>8. IsFiniteSet(Looked(r)) /\ Cardinality(Looked(r)) <= Cardinality(Places(r))
    BY <2>7, FS_Subset
  <2>9. Cardinality(Looked(r)) \in Nat /\ Cardinality(Places(r)) \in Nat
    BY <2>7, <2>8, FS_CardinalityType
  <2>10. num_field_recs[i] \in Nat /\ Cardinality(Places(r)) <= num_field_recs[i]
    BY <2>4, SchemaFormed DEF SchemaAssumption
  <2> QED BY <2>2, <2>3, <2>5, <2>6, <2>8, <2>9, <2>10
<1>3. ASSUME db_pc = "ready", NEW i \in TableIds, ~Variable(i)
      PROVE  /\ \A n \in DOMAIN fields[i] : fields[i][n].offset = EndOf(fields[i], n - 1)
             /\ record_bits[i] - EndOf(fields[i], Len(fields[i])) \in 0..63
  <2>1. PICK r \in DefRows : def_tbl[r].ref = i BY <1>3, SchemaForm
  <2>2. Copied(r) BY <1>3 DEF SchemaInv
  <2>3. r < p_tbl_def BY <1>3, SchemaForm DEF SchemaInv, DefRows
  <2>4. Looked(r) = Places(r) BY <2>3 DEF Looked
  <2>5. PICK m : LastOf(Places(r), m) /\ EndOf(fields[i], Len(fields[i])) = End(m)
    BY <2>1, <2>2, <2>4 DEF Copied, Laid
  <2>6. record_bits[i] - End(m) \in 0..63
    BY <2>1, <2>5, SchemaFormed DEF SchemaAssumption, LastOf
  <2> QED BY <2>1, <2>2, <2>5, <2>6 DEF Copied, Laid
<1> QED BY <1>1, <1>2, <1>3 DEF SchemaFits, FieldsDescribeRecords

-----------------------------------------------------------------------------
(***************************************************************************)
(* The inductive invariant.  A version is new when it is made, because     *)
(* those there are have the numbers up to "made"; construct() makes them   *)
(* one behind the other (ConstructInv); and an update begins with a dump.  *)
(***************************************************************************)

LifeTypes ==
    /\ pc \in DOMAIN Acquires \cup {"running", "update", "compare", "create", "destroy_diff",
                                    "failed", "crashed", "destroyed"}
    /\ made \in Nat
    /\ versions \subseteq 1..made
    /\ failed \in BOOLEAN

Early == {"ssa", "log", "ssa_db", "lft_db", "previous"}

(* What construct() has behind each of its steps.                          *)
ConstructInv ==
    /\ pc \in Early => previous = NULL /\ current = NULL /\ dump = NULL /\ versions = {}
    /\ pc = "current" => current = NULL /\ dump = NULL /\ versions = {previous}
    /\ pc = "dump" => /\ dump = NULL /\ previous # current
                      /\ versions = {previous, current}
    /\ pc \in {"sockets", "thread"} =>
         /\ versions = {previous, current, dump}
         /\ previous # current /\ dump \notin {previous, current}
    /\ pc \in DOMAIN Acquires \ {"thread"} => held \cap {"sockets", "thread"} = {}
    /\ pc = "thread" => "thread" \notin held

LifeInv ==
    /\ LifeTypes /\ ConstructInv
    /\ VersionsLive /\ FailedConstruct /\ CrashNeedsFailure
    /\ pc = "update" => dump # NULL

-----------------------------------------------------------------------------
LEMMA Steps ==
    DOMAIN Acquires = {"ssa", "log", "ssa_db", "lft_db", "previous", "current", "dump",
                       "sockets", "thread"}
BY DEF Acquires

LEMMA LifeInit == Init => LifeInv
<1> SUFFICES ASSUME Init PROVE LifeInv OBVIOUS
<1>1. /\ pc = "ssa" /\ held = {} /\ versions = {} /\ made = 0 /\ failed = FALSE
      /\ previous = NULL /\ current = NULL /\ dump = NULL
  BY DEF Init
<1>2. LifeTypes BY <1>1, Steps DEF LifeTypes
<1>3. ConstructInv BY <1>1 DEF ConstructInv
<1>4. VersionsLive /\ FailedConstruct /\ CrashNeedsFailure
  BY <1>1 DEF VersionsLive, FailedConstruct, CrashNeedsFailure, InRounds
<1> QED BY <1>1, <1>2, <1>3, <1>4 DEF LifeInv

LEMMA LifeConstructStep == LifeInv /\ ConstructStep => LifeInv'
<1> SUFFICES ASSUME LifeInv, ConstructStep PROVE LifeInv' OBVIOUS
<1>0. /\ pc \in {"ssa", "log", "ssa_db", "lft_db", "sockets", "thread"}
      /\ UNCHANGED <<made, previous, current, dump>>
  BY Steps DEF ConstructStep, VersionSteps, pointers
<1>1. CASE held' = held \cup {pc} /\ pc' = Acquires[pc] /\ UNCHANGED <<versions, failed>>
  <2>1. /\ pc = "ssa" => pc' = "log"
        /\ pc = "log" => pc' = "ssa_db"
        /\ pc = "ssa_db" => pc' = "lft_db"
        /\ pc = "lft_db" => pc' = "previous"
        /\ pc = "sockets" => pc' = "thread"
        /\ pc = "thread" => pc' = "running"
    BY <1>1 DEF Acquires
  <2>2. LifeTypes' BY <1>0, <1>1, <2>1, Steps DEF LifeInv, LifeTypes
  <2>3. ConstructInv' BY <1>0, <1>1, <2>1, Steps DEF LifeInv, ConstructInv, Early
  <2>4. VersionsLive'
    BY <1>0, <1>1, <2>1 DEF LifeInv, ConstructInv, VersionsLive, InRounds
  <2>5. CrashNeedsFailure'
    <3>1. pc = "thread" => dump \in 1..made
      BY DEF LifeInv, ConstructInv, LifeTypes
    <3> QED BY <1>0, <1>1, <2>1, <3>1 DEF LifeInv, LifeTypes, CrashNeedsFailure, InRounds, NULL
  <2> QED BY <1>0, <2>1, <2>2, <2>3, <2>4, <2>5 DEF LifeInv, FailedConstruct
<1>2. CASE /\ held' = held \ Releases(pc)
           /\ versions' = versions \ {previous, current, dump}
           /\ pc' = "failed" /\ failed' = TRUE
  <2>1. versions' = {} BY <1>0, <1>2 DEF LifeInv, ConstructInv, Early
  <2>2. held' \cap {"sockets", "thread"} = {}
    <3>1. CASE pc = "thread"
      <4>1. "sockets" \in Releases(pc) BY <3>1 DEF Releases
      <4> QED BY <3>1, <4>1, <1>2 DEF LifeInv, ConstructInv
    <3>2. CASE pc # "thread" BY <3>2, <1>0, <1>2, Steps DEF LifeInv, ConstructInv
    <3> QED BY <3>1, <3>2
  <2>3. LifeTypes' BY <1>0, <1>2, <2>1 DEF LifeInv, LifeTypes
  <2> QED BY <1>2, <2>1, <2>2, <2>3, Steps
        DEF LifeInv, ConstructInv, Early, VersionsLive, InRounds, FailedConstruct, CrashNeedsFailure
<1> QED BY <1>1, <1>2 DEF ConstructStep

LEMMA LifeConstructVersion == LifeInv /\ ConstructVersion => LifeInv'
<1> SUFFICES ASSUME LifeInv, ConstructVersion PROVE LifeInv' OBVIOUS
<1>0. pc \in {"previous", "current", "dump"} /\ UNCHANGED <<held, rounds>>
  BY DEF ConstructVersion, VersionSteps
<1>1. CASE /\ made' = made + 1
           /\ versions' = versions \cup {made'}
           /\ previous' = IF pc = "previous" THEN made' ELSE previous
           /\ current' = IF pc = "current" THEN made' ELSE current
           /\ dump' = IF pc = "dump" THEN made' ELSE dump
           /\ pc' = Acquires[pc]
           /\ UNCHANGED failed
  <2>1. /\ pc = "previous" => pc' = "current"
        /\ pc = "current" => pc' = "dump"
        /\ pc = "dump" => pc' = "sockets"
    BY <1>1 DEF Acquires
  <2>2. made' \in Nat /\ made' \notin versions /\ versions' \subseteq 1..made'
    BY <1>1 DEF LifeInv, LifeTypes
  <2>3. LifeTypes' BY <1>0, <1>1, <2>1, <2>2, Steps DEF LifeInv, LifeTypes
  <2>4. ConstructInv'
    BY <1>0, <1>1, <2>1, <2>2, Steps DEF LifeInv, ConstructInv, Early
  <2> QED BY <1>0, <2>1, <2>3, <2>4
        DEF LifeInv, VersionsLive, InRounds, FailedConstruct, CrashNeedsFailure
<1>2. CASE /\ versions' = versions \ {previous, current, dump}
           /\ pc' = "failed" /\ failed' = TRUE
           /\ UNCHANGED <<made, pointers>>
  <2>1. versions' = {} BY <1>0, <1>2 DEF LifeInv, ConstructInv, Early
  <2>2. held' \cap {"sockets", "thread"} = {} BY <1>0, Steps DEF LifeInv, ConstructInv
  <2>3. LifeTypes' BY <1>2, <2>1 DEF LifeInv, LifeTypes
  <2> QED BY <1>2, <2>1, <2>2, <2>3, Steps
        DEF LifeInv, ConstructInv, Early, VersionsLive, InRounds, FailedConstruct, CrashNeedsFailure
<1> QED BY <1>1, <1>2 DEF ConstructVersion

(* The three versions are rotated, and the next dump is new or missing.    *)
LEMMA LifeUpdate == LifeInv /\ Update => LifeInv'
<1> SUFFICES ASSUME LifeInv, Update PROVE LifeInv' OBVIOUS
<1> DEFINE others == IF current \in initialized THEN versions \ {previous} ELSE versions
<1>1. /\ pc = "update" /\ pc' = "compare"
      /\ previous' = IF current \in initialized THEN current ELSE previous
      /\ current' = dump
      /\ NewDump(others)
  BY DEF Update
<1>2. /\ {previous, current} \subseteq versions /\ previous # current
      /\ dump \in versions \ {previous, current}
  BY <1>1 DEF LifeInv, VersionsLive, InRounds
<1>3. previous' \in others /\ current' \in others /\ previous' # current' BY <1>1, <1>2
<1>4. others \subseteq 1..made /\ made \in Nat BY DEF LifeInv, LifeTypes
<1> HIDE DEF others
<1>5. \/ /\ made' = made + 1 /\ versions' = others \cup {made'} /\ dump' = made'
         /\ UNCHANGED failed
      \/ /\ versions' = others /\ dump' = NULL /\ failed' = TRUE /\ UNCHANGED made
  BY <1>1 DEF NewDump
<1>6. LifeTypes'
  <2>1. failed' \in BOOLEAN BY <1>5 DEF LifeInv, LifeTypes
  <2>2. made' \in Nat /\ versions' \subseteq 1..made'
    <3>1. CASE made' = made + 1 /\ versions' = others \cup {made'} BY <3>1, <1>4
    <3>2. CASE made' = made /\ versions' = others BY <3>2, <1>4
    <3> QED BY <1>5, <3>1, <3>2
  <2> QED BY <1>1, <2>1, <2>2 DEF LifeTypes
<1>7. VersionsLive'
  <2>1. made + 1 \notin others BY <1>4
  <2> QED BY <1>1, <1>3, <1>5, <2>1 DEF VersionsLive
<1>8. CrashNeedsFailure'
  <2>1. made + 1 # NULL BY <1>4 DEF NULL
  <2> QED BY <1>1, <1>5, <2>1 DEF CrashNeedsFailure
<1> QED BY <1>1, <1>6, <1>7, <1>8, Steps DEF LifeInv, ConstructInv, Early, FailedConstruct

(* The other steps of a round leave the versions alone; "failed" only      *)
(* rises.                                                                  *)
LEMMA LifeRound ==
    ASSUME LifeInv, UNCHANGED <<versions, made, pointers>>, InRounds,
           pc' \in {"running", "update", "compare", "create", "destroy_diff", "crashed"},
           failed' \in BOOLEAN, failed => failed',
           pc' = "crashed" => failed',
           pc' = "update" => dump # NULL
    PROVE  LifeInv'
<1>1. LifeTypes' BY DEF LifeInv, LifeTypes
<1>2. VersionsLive' BY DEF LifeInv, VersionsLive, pointers
<1>3. CrashNeedsFailure' BY DEF LifeInv, CrashNeedsFailure, InRounds, pointers
<1> QED BY <1>1, <1>2, <1>3, Steps
      DEF LifeInv, ConstructInv, Early, FailedConstruct, pointers

LEMMA LifeRounds ==
    /\ LifeInv /\ (Extract \/ ExtractCrashes) => LifeInv'
    /\ LifeInv /\ (NoCompare \/ Compare \/ SmdbStep \/ CompareCrashes) => LifeInv'
    /\ LifeInv /\ (DestroyDiff \/ DiffDestroyed) => LifeInv'
<1> USE DEF InRounds
<1>t. LifeInv => failed \in BOOLEAN BY DEF LifeInv, LifeTypes
<1>1. ASSUME LifeInv, Extract PROVE LifeInv'
  BY <1>1, <1>t, LifeRound DEF Extract
<1>2. ASSUME LifeInv, ExtractCrashes PROVE LifeInv'
  <2>1. failed' BY <1>2 DEF ExtractCrashes, LifeInv, CrashNeedsFailure
  <2>2. pc = "running" /\ pc' = "crashed" /\ UNCHANGED <<versions, made, pointers>>
    BY <1>2 DEF ExtractCrashes, Crash
  <2>3. failed' \in BOOLEAN BY <1>2 DEF ExtractCrashes
  <2> QED BY <1>2, <2>1, <2>2, <2>3, LifeRound
<1>3. ASSUME LifeInv, NoCompare PROVE LifeInv'
  BY <1>3, LifeRound DEF NoCompare
<1>4. ASSUME LifeInv, Compare PROVE LifeInv'
  BY <1>4, <1>t, LifeRound DEF Compare
<1>5. ASSUME LifeInv, SmdbStep PROVE LifeInv'
  <2>1. failed' \in BOOLEAN /\ (failed => failed') BY <1>5 DEF SmdbStep
  <2>2. pc \in {"create", "destroy_diff"} /\ pc' = pc /\ UNCHANGED <<versions, made, pointers>>
    BY <1>5 DEF SmdbStep
  <2> QED BY <1>5, <2>1, <2>2, LifeRound
<1>6. ASSUME LifeInv, CompareCrashes PROVE LifeInv'
  BY <1>6, LifeRound DEF CompareCrashes, Crash
<1>7. ASSUME LifeInv, DestroyDiff PROVE LifeInv'
  BY <1>7, <1>t, LifeRound DEF DestroyDiff
<1>8. ASSUME LifeInv, DiffDestroyed PROVE LifeInv'
  BY <1>8, <1>t, LifeRound DEF DiffDestroyed
<1> QED BY <1>1, <1>2, <1>3, <1>4, <1>5, <1>6, <1>7, <1>8

LEMMA LifeDestroy == LifeInv /\ Destroy => LifeInv'
<1> SUFFICES ASSUME LifeInv, Destroy PROVE LifeInv' OBVIOUS
<1>1. pc' = "destroyed" /\ versions' \subseteq versions /\ UNCHANGED <<made, failed>>
  BY DEF Destroy
<1>2. LifeTypes' BY <1>1 DEF LifeInv, LifeTypes
<1> QED BY <1>1, <1>2, Steps
      DEF LifeInv, ConstructInv, Early, VersionsLive, InRounds, FailedConstruct, CrashNeedsFailure

LEMMA LifeStep == LifeInv /\ [Next]_<<lifeVars, dbVars>> => LifeInv'
<1>1. LifeInv /\ UNCHANGED lifeVars => LifeInv'
  BY DEF lifeVars, LifeInv, LifeTypes, ConstructInv, VersionsLive, InRounds, FailedConstruct,
         CrashNeedsFailure
<1> QED BY <1>1, LifeConstructStep, LifeConstructVersion, LifeUpdate, LifeRounds, LifeDestroy
      DEF Next, Ended

-----------------------------------------------------------------------------
THEOREM LifeInvariant == Spec => []LifeInv
<1> QED BY LifeInit, LifeStep, PTL DEF Spec

(* In the rounds p_previous_db, p_current_db and p_dump_db name three      *)
(* different versions that ssa_db_update has not deleted; only the dump    *)
(* may be missing.                                                         *)
THEOREM VersionsStayLive == Spec => []VersionsLive
<1>1. LifeInv => VersionsLive BY DEF LifeInv
<1> QED BY <1>1, LifeInvariant, PTL

(* Without a failed allocation or call the worker never writes through     *)
(* NULL: ssa_db_update leaves a dump for the next extraction.              *)
THEOREM CrashesNeedFailure == Spec => []CrashNeedsFailure
<1>1. LifeInv => CrashNeedsFailure BY DEF LifeInv
<1> QED BY <1>1, LifeInvariant, PTL

(* A construct() that returns NULL has deleted its versions and closed its *)
(* sockets, whichever step failed.                                         *)
THEOREM ConstructUnwinds == Spec => []FailedConstruct
<1>1. LifeInv => FailedConstruct BY DEF LifeInv
<1> QED BY <1>1, LifeInvariant, PTL

-----------------------------------------------------------------------------
(***************************************************************************)
(* What can be lost.  A version is out of reach once an update overwrites  *)
(* the only pointer to it; this one was never initialized, so it is the    *)
(* current version of construct(), its second.  And a difference is held   *)
(* only between a comparison and the next message.                         *)
(***************************************************************************)

LostInv ==
    /\ DbInv
    /\ pc \notin {"create", "destroy_diff", "crashed"} => memory = {} /\ "diff" \notin held
    /\ pc \in Early => made = 0
    /\ pc = "current" => made = 1
    /\ pc = "dump" => current = 2
    /\ pc \in {"sockets", "thread"} => current = 2
    /\ pc = "update" => dump \in initialized
    /\ InRounds /\ current \notin initialized => current = 2
    /\ OnlyFirstVersionLost

LEMMA LostInit == Init => LostInv
<1> SUFFICES ASSUME Init PROVE LostInv OBVIOUS
<1>1. /\ pc = "ssa" /\ held = {} /\ versions = {} /\ made = 0
      /\ db_pc = "none" /\ memory = {}
  BY DEF Init, DbInit
<1>2. DbInv BY <1>1 DEF DbInv, AllOrNothing, Created
<1> QED BY <1>1, <1>2 DEF LostInv, Early, InRounds, OnlyFirstVersionLost

(* The database is as it was, or is not looked at.                         *)
LEMMA DbKept == DbInv /\ UNCHANGED dbVars => DbInv' /\ memory' = memory
BY DEF DbInv, dbVars, AllOrNothing, Created

LEMMA LostConstruct == LifeInv /\ LostInv /\ (ConstructStep \/ ConstructVersion) => LostInv'
<1>1. ASSUME LifeInv, LostInv, ConstructStep PROVE LostInv'
  <2> USE <1>1
  <2>0. /\ pc \in {"ssa", "log", "ssa_db", "lft_db", "sockets", "thread"}
        /\ UNCHANGED <<made, previous, current, dump, initialized>>
        /\ DbInv' /\ memory' = {} /\ "diff" \notin held
    BY Steps, DbKept DEF ConstructStep, VersionSteps, pointers, LostInv
  <2>1. CASE held' = held \cup {pc} /\ pc' = Acquires[pc] /\ UNCHANGED <<versions, failed>>
    <3>1. /\ pc = "ssa" => pc' = "log"
          /\ pc = "log" => pc' = "ssa_db"
          /\ pc = "ssa_db" => pc' = "lft_db"
          /\ pc = "lft_db" => pc' = "previous"
          /\ pc = "sockets" => pc' = "thread"
          /\ pc = "thread" => pc' = "running"
      BY <2>1 DEF Acquires
    <3>2. "diff" \notin held' BY <2>0, <2>1
    <3>3. versions' \subseteq {previous', current', dump', 2}
      BY <2>0, <2>1 DEF LifeInv, ConstructInv, Early
    <3> QED BY <2>0, <3>1, <3>2, <3>3 DEF LostInv, Early, InRounds, OnlyFirstVersionLost
  <2>2. CASE held' = held \ Releases(pc) /\ pc' = "failed"
    BY <2>0, <2>2, Steps DEF LostInv, Early, InRounds, OnlyFirstVersionLost
  <2> QED BY <2>1, <2>2 DEF ConstructStep
<1>2. ASSUME LifeInv, LostInv, ConstructVersion PROVE LostInv'
  <2> USE <1>2
  <2>0. /\ pc \in {"previous", "current", "dump"} /\ UNCHANGED <<held, initialized>>
        /\ DbInv' /\ memory' = {} /\ "diff" \notin held'
    BY DbKept DEF ConstructVersion, VersionSteps, LostInv
  <2>1. CASE /\ made' = made + 1
             /\ versions' = versions \cup {made'}
             /\ previous' = IF pc = "previous" THEN made' ELSE previous
             /\ current' = IF pc = "current" THEN made' ELSE current
             /\ dump' = IF pc = "dump" THEN made' ELSE dump
             /\ pc' = Acquires[pc]
    <3>1. /\ pc = "previous" => pc' = "current"
          /\ pc = "current" => pc' = "dump"
          /\ pc = "dump" => pc' = "sockets"
      BY <2>1 DEF Acquires
    <3>2. /\ pc = "previous" => made' = 1
          /\ pc = "current" => current' = 2
          /\ pc = "dump" => current' = 2
      BY <2>1 DEF LostInv, Early
    <3>3. versions' \subseteq {previous', current', dump', 2}
      BY <2>0, <2>1 DEF LifeInv, ConstructInv, Early
    <3> QED BY <2>0, <3>1, <3>2, <3>3 DEF LostInv, Early, InRounds, OnlyFirstVersionLost
  <2>2. CASE pc' = "failed"
    BY <2>0, <2>2, Steps DEF LostInv, Early, InRounds, OnlyFirstVersionLost
  <2> QED BY <2>1, <2>2 DEF ConstructVersion
<1> QED BY <1>1, <1>2

(* A current version that is not initialized is construct()'s second.      *)
LEMMA LostUpdate == LifeInv /\ LostInv /\ Update => LostInv'
<1> SUFFICES ASSUME LifeInv, LostInv, Update PROVE LostInv' OBVIOUS
<1> DEFINE others == IF current \in initialized THEN versions \ {previous} ELSE versions
<1>1. /\ pc = "update" /\ pc' = "compare" /\ UNCHANGED <<held, initialized>>
      /\ previous' = IF current \in initialized THEN current ELSE previous
      /\ current' = dump
      /\ NewDump(others)
      /\ DbInv' /\ memory' = {} /\ "diff" \notin held'
  BY DbKept DEF Update, LostInv
<1>2. /\ versions \subseteq {previous, current, dump, 2}
      /\ current \notin initialized => current = 2
      /\ dump \in initialized
  BY <1>1 DEF LostInv, OnlyFirstVersionLost, InRounds
<1>3. others \subseteq {previous', current', 2} BY <1>1, <1>2
<1> HIDE DEF others
<1>4. versions' \subseteq others \cup {dump'} BY <1>1 DEF NewDump
<1>5. versions' \subseteq {previous', current', dump', 2} BY <1>3, <1>4
<1> QED BY <1>1, <1>2, <1>5, Steps DEF LostInv, Early, InRounds, OnlyFirstVersionLost

(* The other steps of a round.                                             *)
LEMMA LostRound ==
    ASSUME LostInv, UNCHANGED <<versions, made, pointers>>, InRounds,
           pc' \in {"running", "update", "compare", "create", "destroy_diff", "crashed"},
           initialized \subseteq initialized', pc' = "update" => dump \in initialized',
           DbInv',
           pc' \in {"running", "update", "compare"} => memory' = {} /\ "diff" \notin held'
    PROVE  LostInv'
<1>1. versions' \subseteq {previous', current', dump', 2}
  BY DEF LostInv, OnlyFirstVersionLost, pointers
<1>2. InRounds' /\ current' \notin initialized' => current' = 2
  BY DEF LostInv, pointers
<1> QED BY <1>1, <1>2, Steps DEF LostInv, Early, OnlyFirstVersionLost, pointers

LEMMA LostRounds ==
    /\ LostInv /\ (Extract \/ ExtractCrashes) => LostInv'
    /\ LostInv /\ (NoCompare \/ Compare \/ SmdbStep \/ CompareCrashes) => LostInv'
    /\ LostInv /\ (DestroyDiff \/ DiffDestroyed) => LostInv'
<1> USE DEF InRounds
<1>i. LostInv => DbInv BY DEF LostInv
<1>m. LostInv /\ pc \in {"running", "update", "compare"} => memory = {} /\ "diff" \notin held
  BY DEF LostInv
<1>1. ASSUME LostInv, Extract PROVE LostInv'
  <2>1. /\ pc = "running" /\ pc' = "update" /\ UNCHANGED <<dbVars, held, versions, made, pointers>>
        /\ initialized' = initialized \cup {dump}
    BY <1>1 DEF Extract
  <2> QED BY <1>1, <1>i, <1>m, <2>1, DbKept, LostRound
<1>2. ASSUME LostInv, ExtractCrashes PROVE LostInv'
  <2>1. /\ pc = "running" /\ pc' = "crashed"
        /\ UNCHANGED <<dbVars, versions, made, pointers, initialized>>
    BY <1>2 DEF ExtractCrashes, Crash
  <2> QED BY <1>2, <1>i, <2>1, DbKept, LostRound
<1>3. ASSUME LostInv, NoCompare PROVE LostInv'
  <2>1. /\ pc = "compare" /\ pc' = "running"
        /\ UNCHANGED <<dbVars, held, versions, made, pointers, initialized>>
    BY <1>3 DEF NoCompare
  <2> QED BY <1>3, <1>i, <1>m, <2>1, DbKept, LostRound
<1>4. ASSUME LostInv, Compare PROVE LostInv'
  <2>1. /\ pc = "compare" /\ pc' = "create" /\ UNCHANGED <<versions, made, pointers, initialized>>
        /\ StartCreate /\ UNCHANGED memory
    BY <1>4 DEF Compare
  <2>2. DbInv' BY <1>4, <1>m, <2>1, DbStart
  <2> QED BY <1>4, <2>1, <2>2, LostRound
<1>5. ASSUME LostInv, SmdbStep PROVE LostInv'
  <2>1. /\ pc \in {"create", "destroy_diff"} /\ pc' = pc
        /\ UNCHANGED <<versions, made, pointers, initialized>> /\ DbStep
    BY <1>5 DEF SmdbStep
  <2>2. DbInv' BY <1>5, <1>i, <2>1, DbStepInv
  <2> QED BY <1>5, <2>1, <2>2, LostRound
<1>6. ASSUME LostInv, CompareCrashes PROVE LostInv'
  <2>1. /\ pc = "create" /\ pc' = "crashed"
        /\ UNCHANGED <<dbVars, versions, made, pointers, initialized>>
    BY <1>6 DEF CompareCrashes, Crash
  <2> QED BY <1>6, <1>i, <2>1, DbKept, LostRound
<1>7. ASSUME LostInv, DestroyDiff PROVE LostInv'
  <2>1. /\ pc = "create" /\ pc' = "destroy_diff" /\ db_pc = "ready"
        /\ UNCHANGED <<versions, made, pointers, initialized>>
        /\ StartDestroy /\ UNCHANGED memory
    BY <1>7 DEF DestroyDiff
  <2>2. DbInv' BY <1>7, <1>i, <2>1, DbDestroyStart
  <2> QED BY <1>7, <2>1, <2>2, LostRound
<1>8. ASSUME LostInv, DiffDestroyed PROVE LostInv'
  <2>1. /\ pc = "destroy_diff" /\ pc' = "running" /\ db_pc = "none" /\ held' = held \ {"diff"}
        /\ UNCHANGED <<dbVars, versions, made, pointers, initialized>>
    BY <1>8 DEF DiffDestroyed
  <2>2. DbInv' /\ memory' = {} BY <1>8, <1>i, <2>1, DbKept DEF DbInv, AllOrNothing, Created
  <2> QED BY <1>8, <2>1, <2>2, LostRound
<1> QED BY <1>1, <1>2, <1>3, <1>4, <1>5, <1>6, <1>7, <1>8

LEMMA LostDestroy == LostInv /\ Destroy => LostInv'
<1> SUFFICES ASSUME LostInv, Destroy PROVE LostInv' OBVIOUS
<1>1. /\ pc = "running" /\ pc' = "destroyed" /\ held' = {} /\ UNCHANGED dbVars
      /\ versions' = versions \ {previous, current, dump}
  BY DEF Destroy
<1>2. DbInv' /\ memory' = {} BY <1>1, DbKept DEF LostInv
<1>3. versions' \subseteq {2} BY <1>1 DEF LostInv, OnlyFirstVersionLost, InRounds
<1> QED BY <1>1, <1>2, <1>3, Steps DEF LostInv, Early, InRounds, OnlyFirstVersionLost

LEMMA LostStep == LifeInv /\ LostInv /\ [Next]_<<lifeVars, dbVars>> => LostInv'
<1>1. ASSUME LostInv, UNCHANGED <<lifeVars, dbVars>> PROVE LostInv'
  <2>1. DbInv' /\ memory' = memory BY <1>1, DbKept DEF LostInv
  <2> QED BY <1>1, <2>1 DEF lifeVars, LostInv, Early, InRounds, OnlyFirstVersionLost
<1> QED BY <1>1, LostConstruct, LostUpdate, LostRounds, LostDestroy DEF Next, Ended

THEOREM LostInvariant == Spec => []LostInv
<1> QED BY LifeInvariant, LostInit, LostStep, PTL DEF Spec

(* Of all the versions the plugin makes, for any number of rounds and      *)
(* whichever allocations fail, only the second of construct() can be lost; *)
(* between two messages no difference is held, and nothing at all is       *)
(* behind destroy().                                                       *)
THEOREM OnlyOneVersionLost == Spec => []OnlyFirstVersionLost
<1>1. LostInv => OnlyFirstVersionLost BY DEF LostInv
<1> QED BY <1>1, LostInvariant, PTL

(* ssa_db_create allocates all of its blocks or leaves none, for any       *)
(* number of tables, whichever of them have records of variable size, and  *)
(* whichever allocation fails; ssa_db_destroy leaves none.                 *)
THEOREM DatabaseAllOrNothing == Spec => []AllOrNothing
<1>1. LostInv => AllOrNothing BY DEF LostInv, DbInv
<1> QED BY <1>1, LostInvariant, PTL

(* Nothing is freed twice, nor through a pointer in a block that is gone.  *)
THEOREM DatabaseFreesAreLive == Spec => []FreesAreLive
<1>1. LostInv => FreesAreLive BY DbLive DEF LostInv
<1> QED BY <1>1, LostInvariant, PTL

-----------------------------------------------------------------------------
(***************************************************************************)
(* Every database begins with an empty schema: the comparison makes one    *)
(* only when there is none.                                                *)
(***************************************************************************)

SchemaLifeInv ==
    /\ SchemaInv
    /\ pc \notin {"create", "destroy_diff", "crashed"} => db_pc = "none"

LEMMA SchemaLifeInit == Init => SchemaLifeInv
BY DEF Init, DbInit, SchemaLifeInv, SchemaInv, Fresh, Created

LEMMA SchemaLifeStep == LifeInv /\ SchemaLifeInv /\ [Next]_<<lifeVars, dbVars>> => SchemaLifeInv'
<1> SUFFICES ASSUME LifeInv, SchemaLifeInv, [Next]_<<lifeVars, dbVars>> PROVE SchemaLifeInv'
  OBVIOUS
<1>k. UNCHANGED dbVars => SchemaInv' /\ db_pc' = db_pc
  BY SchemaKept DEF SchemaLifeInv, dbVars
<1>1. CASE UNCHANGED <<lifeVars, dbVars>>
  BY <1>1, <1>k DEF SchemaLifeInv, lifeVars
<1>2. CASE ConstructStep \/ ConstructVersion
  <2>1. UNCHANGED dbVars /\ pc \in DOMAIN Acquires
    BY <1>2, Steps DEF ConstructStep, ConstructVersion, VersionSteps
  <2> QED BY <1>k, <2>1, Steps DEF SchemaLifeInv
<1>3. CASE Extract \/ ExtractCrashes \/ Update \/ NoCompare \/ Destroy
  <2>1. UNCHANGED dbVars /\ pc \in {"running", "update", "compare"}
    BY <1>3 DEF Extract, ExtractCrashes, Crash, Update, NoCompare, Destroy
  <2> QED BY <1>k, <2>1 DEF SchemaLifeInv
<1>4. CASE Compare
  <2>1. pc = "compare" /\ pc' = "create" /\ db_pc' = "create" /\ UNCHANGED schemaVars
    BY <1>4 DEF Compare, StartCreate
  <2> QED BY <2>1, SchemaStarts DEF SchemaLifeInv, SchemaInv
<1>5. CASE SmdbStep
  BY <1>5, SchemaDbStep DEF SmdbStep, SchemaLifeInv
<1>6. CASE CompareCrashes
  BY <1>6, <1>k DEF CompareCrashes, Crash, SchemaLifeInv
<1>7. CASE DestroyDiff
  <2>1. pc' = "destroy_diff" /\ db_pc' = "free" BY <1>7 DEF DestroyDiff, StartDestroy, FreeFrom
  <2> QED BY <2>1, SchemaFreed DEF SchemaLifeInv
<1>8. CASE DiffDestroyed
  BY <1>8, <1>k DEF DiffDestroyed, SchemaLifeInv
<1>9. CASE Ended
  BY <1>9, <1>1 DEF Ended
<1> QED BY <1>1, <1>2, <1>3, <1>4, <1>5, <1>6, <1>7, <1>8, <1>9 DEF Next

THEOREM SchemaInvariant == Spec => [](LostInv /\ SchemaLifeInv)
<1> QED BY LifeInvariant, LostInvariant, SchemaLifeInit, SchemaLifeStep, PTL DEF Spec

(* For any schema that is formed as SchemaAssumption says, ssa_db_init     *)
(* never writes behind a table it fills, into one that is NULL, or into    *)
(* one whose count it has not set yet.                                     *)
THEOREM SchemaAlwaysFits == Spec => []SchemaFits
<1>1. LostInv /\ SchemaLifeInv => SchemaFits BY SchemaGood DEF LostInv, SchemaLifeInv
<1> QED BY <1>1, SchemaInvariant, PTL

(* And what it leaves in the field tables describes the records, each of   *)
(* them from bit 0 to its end.                                             *)
THEOREM FieldsAlwaysDescribe == Spec => []FieldsDescribeRecords
<1>1. LostInv /\ SchemaLifeInv => FieldsDescribeRecords
  BY SchemaGood DEF LostInv, SchemaLifeInv
<1> QED BY <1>1, SchemaInvariant, PTL
=============================================================================
