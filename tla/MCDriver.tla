------------------------------ MODULE MCDriver ------------------------------
(* A slab of four units that doubles each time, sizes below and above it.    *)
EXTENDS Driver
=============================================================================
