------------------------------ MODULE SsaSmdb -------------------------------
(***************************************************************************)
(* The schema of the SMDB: its tables, their definitions, and the layout   *)
(* of their records, in bits.                                              *)
(***************************************************************************)
EXTENDS Integers, Sequences, SequencesExt

SmdbTables ==
    <<"subnet_opts", "guid_to_lid", "node", "link", "port", "pkey", "lft_top", "lft_block">>

SSA_TABLE_ID_MAX == Len(SmdbTables)
SmdbIds == 0 .. SSA_TABLE_ID_MAX - 1
SmdbId(name) == CHOOSE i \in SmdbIds : SmdbTables[i + 1] = name
FieldDefId(i) == SSA_TABLE_ID_MAX + i

DB_VARIABLE_SIZE == -1

(* The SSA_FIELD_ID_..._MAX of ssa_db_smdb_init.                           *)
SmdbFieldRecs ==
    [i \in SmdbIds |->
       CASE i = SmdbId("subnet_opts") -> 6
         [] i \in {SmdbId("guid_to_lid"), SmdbId("node"), SmdbId("link")} -> 4
         [] i = SmdbId("port") -> 7
         [] i = SmdbId("pkey") -> DB_VARIABLE_SIZE
         [] i = SmdbId("lft_top") -> 2
         [] i = SmdbId("lft_block") -> 3]

(* Each table, with a table of its fields' definitions behind it; the      *)
(* pkeys have none.                                                        *)
SmdbDefTbl ==
    FlattenSeq([n \in 1..SSA_TABLE_ID_MAX |->
      LET i == n - 1
          data == [type |-> "data", table |-> i,
                   ref |-> IF i = SmdbId("pkey") THEN SmdbId("port") ELSE 0]
          def == [type |-> "def", table |-> FieldDefId(i), ref |-> i]
      IN  IF i = SmdbId("pkey") THEN <<data>> ELSE <<data, def>>])

SmdbDatasetTbl == SmdbIds

(* The fields of a record in their order, each with its size and offset;   *)
(* names are left out.                                                     *)
SmdbLayout ==
    [subnet_opts |-> << <<64, 0>>, <<64, 64>>, <<8, 128>>, <<8, 136>>, <<8, 144>>, <<8, 152>> >>,
     guid_to_lid |-> << <<64, 0>>, <<16, 64>>, <<8, 80>>, <<8, 88>> >>,
     node        |-> << <<64, 0>>, <<8, 64>>, <<8, 72>>, <<8 * 64, 80>> >>,
     link        |-> << <<16, 0>>, <<16, 16>>, <<8, 32>>, <<8, 40>> >>,
     port        |-> << <<64, 0>>, <<16, 64>>, <<16, 80>>, <<8, 96>>,
                        <<8, 104>>, <<8, 112>>, <<8, 120>> >>,
     pkey        |-> <<>>,
     lft_top     |-> << <<16, 0>>, <<16, 16>> >>,
     lft_block   |-> << <<16, 0>>, <<16, 16>>, <<8 * 64, 32>> >>]

SmdbFieldTbl ==
    FlattenSeq([n \in 1..SSA_TABLE_ID_MAX |->
      LET layout == SmdbLayout[SmdbTables[n]]
      IN  [k \in DOMAIN layout |->
             [table |-> FieldDefId(n - 1), size |-> layout[k][1], offset |-> layout[k][2]]]])

(* sizeof of the records.                                                  *)
SmdbRecordBits ==
    [i \in SmdbIds |->
       8 * CASE i = SmdbId("subnet_opts") -> 24
             [] i \in {SmdbId("guid_to_lid"), SmdbId("port")} -> 16
             [] i = SmdbId("node") -> 80
             [] i \in {SmdbId("link"), SmdbId("lft_top")} -> 8
             [] i = SmdbId("pkey") -> 2
             [] i = SmdbId("lft_block") -> 68]
=============================================================================
