------------------------------ MODULE MCExecutor ------------------------------
EXTENDS MCHostDispatch, Executor

\* A current plugin (every export), an older one (schema, _observe, no
\* allocate, no manifest) and one built for the second revision's names.
MCExportSets == {{"_initialize", "_manifest", "_schema", "_observe", "allocate"},
                 {"schema", "_observe"},
                 {"manifest", "schema", "observe", "allocate"}}

SystemTypeOK == TypeOK /\ ExecutorTypeOK

================================================================================
