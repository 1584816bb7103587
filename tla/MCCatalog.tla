------------------------------ MODULE MCCatalog ------------------------------
(* The catalog over the merge instance of MCAlterMerge: oldTable t(a, b) in *)
(* schema s1, and schema s2 with a table of the same name t(b, c) and a     *)
(* table t2(a, c), so that t.b, bare a, b and c resolve in two tables, and  *)
(* a RENAME TO t2 puts a second t2 into the catalog.  s3 names no schema.   *)
EXTENDS MCAlterMerge, Catalog

MCMergedSchema == "s1"
MCOtherSchemaName == "s2"
MCOtherSchema == [t |-> {"b", "c"}, t2 |-> {"a", "c"}]
MCQuerySchemas == {"", "s1", "s2", "s3"}
=============================================================================
