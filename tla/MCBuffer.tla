------------------------------ MODULE MCBuffer ------------------------------
(* Buffer with a handful of cells, so that every call moves, grows and      *)
(* fills it.                                                                *)
EXTENDS Buffer
=============================================================================
