------------------------------ MODULE MCEevdf ------------------------------
(* Instances of Eevdf for TLC.                                             *)
EXTENDS Eevdf
=============================================================================
