---------------------------- MODULE MCTestSuite ----------------------------
(* The buffers that the tests give to the driver.                          *)
EXTENDS TestSuite

MCMembers == {"storage", "buffer_"}
MCLocals == {"left", "right", "value", "buffers", "fetched", "status", "rows",
             "values", "after"}
=============================================================================
