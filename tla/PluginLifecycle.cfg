SPECIFICATION Spec
CONSTANTS
    len <- SSA_TABLE_ID_MAX
    num_field_recs <- SmdbFieldRecs
    VariableSize <- DB_VARIABLE_SIZE
    def_tbl <- SmdbDefTbl
    dataset_tbl <- SmdbDatasetTbl
    field_tbl <- SmdbFieldTbl
    record_bits <- SmdbRecordBits
    MaxRounds = 3
INVARIANT AllOrNothing FreesAreLive SchemaFits FieldsDescribeRecords
          VersionsLive OnlyFirstVersionLost FailedConstruct CrashNeedsFailure
