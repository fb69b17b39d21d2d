----------------------------- MODULE MCPipeline -----------------------------
(* The inventory of MCComparison for Pipeline, and the registries of it that *)
(* know something: one of them does not load.                              *)
EXTENDS Pipeline, MCComparison

MCKnown == {r \in MCRegistries : r[Rust] # <<>>}
=============================================================================
