--------------------------- MODULE MCTableHandoff ---------------------------
(* Small instances of TableHandoff.                                        *)
EXTENDS TableHandoff

OneTable == {"a"}
TwoTables == {"a", "b"}

OneChange == << <<"a">> >>
SharedChange == << <<"a", "b">> >>
OneTableChanges == << <<"a">>, <<"a">>, <<"a">> >>
TwoChanges == << <<"a">>, <<"a">> >>

WorkerFaults == {"timed", "manual"}
ManualFaults == {"manual"}
UnpersistedFaults == {"error_not_persisted"}
=============================================================================
