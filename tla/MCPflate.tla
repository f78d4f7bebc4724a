------------------------------ MODULE MCPflate ------------------------------
(* Small instances of Pflate for TLC. *)
EXTENDS Pflate

NoSettings == {}
SmallBlocks == {<<3, 2>>}
=============================================================================
