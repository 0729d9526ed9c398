------------------------------ MODULE MCLgtMd ------------------------------
(* Small instances of LgtMd for TLC. *)
EXTENDS LgtMd
=============================================================================
