------------------------------- MODULE SsaDb --------------------------------
(***************************************************************************)
(* The generic database a difference is written to: ssa_db_create, whose   *)
(* every allocation may fail and is undone through the labels err8 to      *)
(* err1, ssa_db_init, which copies the schema into it, and ssa_db_destroy. *)
(*                                                                         *)
(* A block of memory is a pair: the pointer, or the array of pointers,     *)
(* that names it, and its index in the array.  Each allocation and each    *)
(* free is a step, so that a pointer read from a block that is gone, or    *)
(* freed twice, can be seen.                                               *)
(***************************************************************************)
EXTENDS Integers, Sequences, FiniteSets

CONSTANTS
    len,            \* number of data tables, whose ids are 0 .. len - 1
    num_field_recs, \* of a table, or VariableSize
    VariableSize,   \* DB_VARIABLE_SIZE
    def_tbl,        \* table definitions: type ("data", "def"), table, ref
    dataset_tbl,    \* ids of the tables whose dataset is initialised
    field_tbl,      \* field definitions: table, size, offset (in bits)
    record_bits     \* size of a table's records

ASSUME LenAssumption == len \in Nat

VARIABLES
    db_pc,     \* "none", "create", "defs", "fields", "ready", "free"
    at,        \* what is allocated, or freed, next: one of Pointers, or "end"
    k,         \* the index in the array "at"
    memory,    \* blocks that are allocated
    p_tbl_def, p_field_def, \* the places in def_tbl and field_tbl of ssa_db_init's loops
    defs,      \* p_def_tbl, up to db_table_def.set_count
    counted,   \* tables whose field dataset has a set_count
    fields     \* pp_field_tables, by table, up to set_count

schemaVars == <<p_tbl_def, p_field_def, defs, counted, fields>>
dbVars == <<db_pc, at, k, memory, schemaVars>>
-----------------------------------------------------------------------------
TableIds == 0 .. len - 1
Variable(i) == num_field_recs[i] = VariableSize

(* The rows of def_tbl that define the fields of a table, the places in    *)
(* field_tbl of the fields of such a row, and where a field ends; the end  *)
(* of place 0 is that of no field at all.                                  *)
DefRows == {r \in DOMAIN def_tbl : def_tbl[r].type = "def"}
Places(r) == {n \in DOMAIN field_tbl : field_tbl[n].table = def_tbl[r].table}
End(n) == IF n = 0 THEN 0 ELSE field_tbl[n].offset + field_tbl[n].size

(* What a schema must be for ssa_db_init, which checks nothing: there is   *)
(* room for its definitions; each table of fixed-size records, and no      *)
(* other, has one definition of its fields, no more of them than there is  *)
(* room for; each begins where the one before it in field_tbl, of that     *)
(* table, ends; and the last ends less than 8 bytes before the record.     *)
SchemaAssumption ==
    /\ def_tbl \in Seq([type : {"data", "def"}, table : Nat, ref : Nat])
    /\ Len(def_tbl) <= 2 * len
    /\ field_tbl \in Seq([table : Nat, size : Nat, offset : Nat])
    /\ \A r \in DefRows : def_tbl[r].ref \in TableIds \cap dataset_tbl
    /\ \A i \in TableIds :
         Cardinality({r \in DefRows : def_tbl[r].ref = i}) = IF Variable(i) THEN 0 ELSE 1
    /\ \A r \in DefRows :
         LET i == def_tbl[r].ref
         IN  /\ num_field_recs[i] \in Nat /\ Cardinality(Places(r)) <= num_field_recs[i]
             /\ \A n \in Places(r), m \in Places(r) \cup {0} :
                  m < n /\ (\A q \in Places(r) : q < n => q <= m) => field_tbl[n].offset = End(m)
             /\ \A m \in Places(r) \cup {0} :
                  (\A q \in Places(r) : q <= m) => record_bits[i] - End(m) \in 0..63

ASSUME SchemaFormed == SchemaAssumption

(* "tables" stands for pp_tables[0..len-1], "field_tables" for the entries *)
(* of pp_field_tables.                                                     *)
Arrays == {"tables", "field_tables"}
Scalars == {"p_db", "p_def_tbl", "p_db_tables", "p_db_field_tables", "pp_tables",
            "pp_field_tables"}
Pointers == Scalars \cup Arrays

(* A table of variable size has NULL for its field table.                  *)
IsNull(array, i) == array = "field_tables" /\ Variable(i)

(* The order of the allocations.                                           *)
After == [p_db |-> "p_def_tbl", p_def_tbl |-> "p_db_tables",
          p_db_tables |-> "p_db_field_tables", p_db_field_tables |-> "pp_tables",
          pp_tables |-> "tables", tables |-> "pp_field_tables",
          pp_field_tables |-> "field_tables", field_tables |-> "end"]

(* The label a failed allocation goes to, named by what is freed there     *)
(* first: err1 for p_db, err2 for p_def_tbl, and so on up to err8.         *)
(* Mutant: the last goes to err7.                                          *)
MutGoto == [p_db |-> "end", p_def_tbl |-> "p_db", p_db_tables |-> "p_def_tbl",
            p_db_field_tables |-> "p_db_tables", pp_tables |-> "p_db_field_tables",
            tables |-> "pp_tables", pp_field_tables |-> "tables",
            field_tables |-> "tables"]

Goto == [p_db |-> "end", p_def_tbl |-> "p_db", p_db_tables |-> "p_def_tbl",
         p_db_field_tables |-> "p_db_tables", pp_tables |-> "p_db_field_tables",
         tables |-> "pp_tables", pp_field_tables |-> "tables",
         field_tables |-> "pp_field_tables"]

(* What is freed behind each pointer, by ssa_db_destroy and by the labels, *)
(* which run one into the next.  Mutant: the array of the data tables goes *)
(* before the tables it points at.                                         *)
MutFreedAfter == [field_tables |-> "pp_field_tables", pp_field_tables |-> "pp_tables",
                  pp_tables |-> "tables", tables |-> "p_db_field_tables",
                  p_db_field_tables |-> "p_db_tables", p_db_tables |-> "p_def_tbl",
                  p_def_tbl |-> "p_db", p_db |-> "end"]

FreedAfter == [field_tables |-> "pp_field_tables", pp_field_tables |-> "tables",
               tables |-> "pp_tables", pp_tables |-> "p_db_field_tables",
               p_db_field_tables |-> "p_db_tables", p_db_tables |-> "p_def_tbl",
               p_def_tbl |-> "p_db", p_db |-> "end"]

(* An array is freed from its last entry on.                               *)
FreeFrom(pointer) ==
    /\ db_pc' = "free"
    /\ at' = pointer
    /\ k' = IF pointer \in Arrays THEN len - 1 ELSE 0

DbInit ==
    /\ db_pc = "none"
    /\ at = "end" /\ k = 0
    /\ memory = {}
    /\ p_tbl_def = 1 /\ p_field_def = 1
    /\ defs = <<>> /\ counted = {}
    /\ fields = [i \in TableIds |-> <<>>]

(* ssa_db_create is called.                                                *)
StartCreate == db_pc' = "create" /\ at' = "p_db" /\ k' = 0

Allocate ==
    /\ db_pc = "create"
    /\ \/ /\ at \in Scalars
          /\ memory' = memory \cup {<<at, 0>>}
          /\ at' = After[at]
          /\ UNCHANGED <<db_pc, k>>
       \/ /\ at \in Arrays /\ k < len
          /\ memory' = IF IsNull(at, k) THEN memory ELSE memory \cup {<<at, k>>}
          /\ k' = k + 1
          /\ UNCHANGED <<db_pc, at>>
       \/ /\ at \in Arrays /\ k = len
          /\ at' = After[at] /\ k' = 0
          /\ db_pc' = IF at' = "end" THEN "defs" ELSE db_pc
          /\ UNCHANGED memory
    /\ UNCHANGED schemaVars

(* When an entry of an array fails, those before it are freed first.       *)
AllocFails ==
    /\ db_pc = "create"
    /\ at \in Arrays => k < len /\ ~IsNull(at, k)
    /\ IF k = 0 THEN FreeFrom(Goto[at])
               ELSE db_pc' = "free" /\ k' = k - 1 /\ UNCHANGED at
    /\ UNCHANGED <<memory, schemaVars>>

(* ssa_db_init: the table definitions, one behind the other.               *)
InsertDef ==
    /\ db_pc = "defs"
    /\ p_tbl_def <= Len(def_tbl)
    /\ defs' = Append(defs, def_tbl[p_tbl_def])
    /\ p_tbl_def' = p_tbl_def + 1
    /\ UNCHANGED <<db_pc, at, k, memory, p_field_def, counted, fields>>

(* The datasets of the tables and of their fields.                         *)
InitDatasets ==
    /\ db_pc = "defs"
    /\ p_tbl_def > Len(def_tbl)
    /\ counted' = dataset_tbl
    /\ p_tbl_def' = 1 /\ p_field_def' = 1
    /\ db_pc' = "fields"
    /\ UNCHANGED <<at, k, memory, defs, fields>>

(* A field belongs to the definition that has its table's id.  Mutant: to  *)
(* the one that refers to it.                                              *)
MutIsFieldOf(field, def) == field.table = def.ref

IsFieldOf(field, def) == field.table = def.table

(* The next field definition is looked at, and is copied to the table the  *)
(* definition refers to.                                                   *)
InsertField ==
    /\ db_pc = "fields"
    /\ p_tbl_def \in DefRows /\ p_field_def <= Len(field_tbl)
    /\ LET def == def_tbl[p_tbl_def]
           field == field_tbl[p_field_def]
       IN  fields' = IF IsFieldOf(field, def)
                     THEN [fields EXCEPT ![def.ref] = Append(@, field)]
                     ELSE fields
    /\ p_field_def' = p_field_def + 1
    /\ UNCHANGED <<db_pc, at, k, memory, p_tbl_def, defs, counted>>

(* The next table definition: this one has no fields, or no more.          *)
NextDef ==
    /\ db_pc = "fields"
    /\ p_tbl_def <= Len(def_tbl)
    /\ p_tbl_def \in DefRows => p_field_def > Len(field_tbl)
    /\ p_tbl_def' = p_tbl_def + 1 /\ p_field_def' = 1
    /\ UNCHANGED <<db_pc, at, k, memory, defs, counted, fields>>

InitDone ==
    /\ db_pc = "fields"
    /\ p_tbl_def > Len(def_tbl)
    /\ db_pc' = "ready"
    /\ UNCHANGED <<at, k, memory, schemaVars>>

(* ssa_db_destroy is called.                                               *)
StartDestroy == FreeFrom("field_tables")

(* free() does nothing with NULL, as ssa_db_destroy does.                  *)
Free ==
    /\ db_pc = "free"
    /\ \/ /\ at \in Scalars
          /\ memory' = memory \ {<<at, 0>>}
          /\ FreeFrom(FreedAfter[at])
       \/ /\ at \in Arrays /\ k >= 0
          /\ memory' = IF IsNull(at, k) THEN memory ELSE memory \ {<<at, k>>}
          /\ k' = k - 1
          /\ UNCHANGED <<db_pc, at>>
       \/ /\ at \in Arrays /\ k < 0
          /\ FreeFrom(FreedAfter[at])
          /\ UNCHANGED memory
    /\ UNCHANGED schemaVars

Freed ==
    /\ db_pc = "free"
    /\ at = "end"
    /\ db_pc' = "none"
    /\ p_tbl_def' = 1 /\ p_field_def' = 1
    /\ defs' = <<>> /\ counted' = {}
    /\ fields' = [i \in TableIds |-> <<>>]
    /\ UNCHANGED <<at, k, memory>>

DbStep ==
    \/ Allocate \/ AllocFails
    \/ InsertDef \/ InitDatasets \/ InsertField \/ NextDef \/ InitDone
    \/ Free \/ Freed
-----------------------------------------------------------------------------
Blocks ==
    (Scalars \X {0}) \cup {b \in Arrays \X TableIds : ~IsNull(b[1], b[2])}

(* ssa_db_create has returned a database.                                  *)
Created == db_pc \in {"defs", "fields", "ready"}

(* ssa_db_create returns a database all of whose blocks are allocated, or  *)
(* NULL and leaves none behind, whichever allocation fails; and none is    *)
(* left behind ssa_db_destroy.                                             *)
AllOrNothing ==
    /\ Created => memory = Blocks
    /\ db_pc = "none" => memory = {}

Holder(pointer) ==
    CASE pointer = "tables"       -> "pp_tables"
      [] pointer = "field_tables" -> "pp_field_tables"
      [] OTHER                    -> "p_db"

(* A block is freed while it is allocated, through a pointer that is read  *)
(* from a block that is allocated: nothing is freed twice, and nothing     *)
(* before what it points at.                                               *)
FreesAreLive ==
    /\ db_pc = "free" /\ at \in Scalars => {<<at, 0>>, <<Holder(at), 0>>} \subseteq memory
    /\ db_pc = "free" /\ at \in Arrays /\ k >= 0 =>
         /\ <<Holder(at), 0>> \in memory
         /\ IsNull(at, k) \/ <<at, k>> \in memory

(* The record count of p_def_tbl, "magic number".  Mutant: one for each    *)
(* data table.                                                             *)
MutDefRecs == len

DefRecs == 2 * len

(* ssa_db_init writes behind none of the tables it fills, and to none that *)
(* is NULL or has no count yet, at any of its steps.                       *)
SchemaFits ==
    Created =>
      /\ Len(defs) <= DefRecs
      /\ \A i \in TableIds :
           fields[i] # <<>> =>
             /\ <<"field_tables", i>> \in memory
             /\ i \in counted
             /\ Len(fields[i]) <= num_field_recs[i]

(* Where the first n of a table's copied fields end.                       *)
EndOf(s, n) == IF n = 0 THEN 0 ELSE s[n].offset + s[n].size

(* As a consumer reads it, the schema describes the records: every table   *)
(* of fixed-size records has its fields, one behind the other from bit 0   *)
(* on, with less than 8 bytes of padding behind them.                      *)
FieldsDescribeRecords ==
    db_pc = "ready" =>
      \A i \in TableIds : ~Variable(i) =>
        /\ \A n \in DOMAIN fields[i] : fields[i][n].offset = EndOf(fields[i], n - 1)
        /\ record_bits[i] - EndOf(fields[i], Len(fields[i])) \in 0..63
=============================================================================
