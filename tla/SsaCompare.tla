----------------------------- MODULE SsaCompare -----------------------------
(***************************************************************************)
(* ssa_db_compare from its difference to its return value: the subnet      *)
(* options (SsaOptsDiff), then one walk after the other over the tables    *)
(* (SsaDiff), whose answers gather in one flag.  A difference whose flag   *)
(* is clear is destroyed and NULL returned; the worker pushes the others.  *)
(*                                                                         *)
(* The versions of a table are chosen when its walk begins, and forgotten  *)
(* with its records when it ends.  The walk over the ports, whose records  *)
(* refer to pkeys, is in SsaPorts; the LFT part of a difference, which     *)
(* does not touch the flag, in SsaLftTable and SsaPipeline.                *)
(***************************************************************************)
EXTENDS SsaDiff

CONSTANTS Tables, \* the tables in the order of their walks
          Fields, OptVals, Zero \* of SsaOptsDiff

ASSUME CompareAssumption ==
    /\ Tables \in Seq({"guid_to_lid", "node", "link"})
    /\ Len(Tables) <= 4
    /\ Fields # {}
    /\ Zero \in OptVals

VARIABLES
    previous, current, initialized,  \* of SsaOptsDiff
    change_mask, values, set_count,
    diff_dirty,   \* p_ssa_db_diff->dirty
    pc,           \* "compare", "tables", "done"
    walked,       \* tables whose walk has begun
    tables_dirty, \* "dirty" of ssa_db_diff_compare_subnet_tables, a uint8_t
    pushed,       \* the difference is returned
    must, may     \* history: a part that was walked has to be, can be in it

opts == <<previous, current, initialized, change_mask, values, set_count>>
compareVars == <<vars, opts, diff_dirty, pc, walked, tables_dirty, pushed, must, may>>

Opts == INSTANCE SsaOptsDiff WITH Vals <- OptVals, dirty <- diff_dirty
-----------------------------------------------------------------------------
EmptyVersion == [map |-> [k \in Keys |-> NoOffset], recs |-> <<>>]

AlignedTables == {"guid_to_lid", "node"}

(* The records of guid_to_lid and of node are written in the order of      *)
(* their keys.                                                             *)
InKeyOrder ==
    {t \in Versions : \A k, j \in Mapped(t.map) : k < j => t.map[k] < t.map[j]}

(* ssa_db_diff_init has made an empty difference.                          *)
CompareInit ==
    /\ Opts!Init
    /\ aligned = TRUE
    /\ old = EmptyVersion /\ new = EmptyVersion
    /\ todoOld = {} /\ todoNew = {}
    /\ removed = EmptyVersion.map /\ added = EmptyVersion.map
    /\ recs = <<>> /\ dirty = FALSE
    /\ walked = 0 /\ tables_dirty = 0
    /\ pushed = FALSE
    /\ must = FALSE /\ may = FALSE

CompareOpts ==
    /\ Opts!CompareOpts
    /\ must' = (Opts!Reported # {})
    /\ may' = (Opts!Reported # {})
    /\ UNCHANGED <<vars, walked, tables_dirty, pushed>>

(* An empty difference of the versions o and n.                            *)
StartWith(o, n) ==
    /\ old' = o /\ new' = n
    /\ todoOld' = Mapped(o.map) /\ todoNew' = Mapped(n.map)
    /\ removed' = EmptyVersion.map /\ added' = EmptyVersion.map
    /\ recs' = <<>>
    /\ dirty' = FALSE

(* The next table; without a previous version there is nothing old in it.  *)
BeginWalk ==
    /\ pc = "tables"
    /\ walked < Len(Tables)
    /\ walked' = walked + 1
    /\ aligned' = (Tables[walked + 1] \in AlignedTables)
    /\ LET versions == IF aligned' THEN InKeyOrder ELSE Versions
       IN  \E o \in versions, n \in versions :
             /\ initialized \/ o = EmptyVersion
             /\ StartWith(o, n)
    /\ pc' = "walk"
    /\ UNCHANGED <<opts, diff_dirty, tables_dirty, pushed, must, may>>

WalkOn(k) ==
    /\ pc = "walk"
    /\ OldOnly(k) \/ NewOnly(k) \/ BothVersions(k)
    /\ UNCHANGED <<opts, diff_dirty, pc, walked, tables_dirty, pushed, must, may>>

(* What a table has to report: a changed record, if its compare function   *)
(* is exact, or a key that came or went; and what it can report.           *)
MustReport == OldKeys # NewKeys \/ (aligned /\ Changed # {})
MayReport == MustReport \/ (~aligned /\ OldKeys \cap NewKeys # {})

(* Mutant: the answer of the last walk replaces the others.                *)
MutEndWalk ==
    /\ pc = "walk"
    /\ Done
    /\ tables_dirty' = IF dirty THEN 1 ELSE 0
    /\ must' = (must \/ MustReport)
    /\ may' = (may \/ MayReport)
    /\ pc' = "tables"
    /\ StartWith(EmptyVersion, EmptyVersion)
    /\ UNCHANGED <<aligned, opts, diff_dirty, walked, pushed>>

(* The answers are shifted in, one bit for each table.                     *)
EndWalk ==
    /\ pc = "walk"
    /\ Done
    /\ tables_dirty' = (2 * tables_dirty + IF dirty THEN 1 ELSE 0) % 256
    /\ must' = (must \/ MustReport)
    /\ may' = (may \/ MayReport)
    /\ pc' = "tables"
    /\ StartWith(EmptyVersion, EmptyVersion)
    /\ UNCHANGED <<aligned, opts, diff_dirty, walked, pushed>>

ReturnDiff ==
    /\ pc = "tables"
    /\ walked = Len(Tables)
    /\ diff_dirty' = (diff_dirty \/ tables_dirty # 0)
    /\ pushed' = diff_dirty'
    /\ pc' = "done"
    /\ UNCHANGED <<vars, opts, walked, tables_dirty, must, may>>

Returned == pc = "done" /\ UNCHANGED compareVars

CompareNext ==
    \/ CompareOpts \/ BeginWalk \/ EndWalk \/ ReturnDiff \/ Returned
    \/ \E k \in Keys : WalkOn(k)

CompareSpec == CompareInit /\ [][CompareNext]_compareVars
-----------------------------------------------------------------------------
(* No change is dropped with a clean difference, and nothing is pushed     *)
(* without one: whatever the parts before and after them answer, a changed *)
(* option, record or set of keys makes ssa_db_compare return the           *)
(* difference, and it returns NULL if there is none (nor a link whose      *)
(* record was compared with another one's).                                *)
PushedIffChanged == pc = "done" => (must => pushed) /\ (pushed => may)

(* Those of SsaOptsDiff, which hold of the options until the return.       *)
ChangesReported == Opts!ChangesReported
MaskMatchesChanges == Opts!MaskMatchesChanges
=============================================================================
