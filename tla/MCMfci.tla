------------------------------- MODULE MCMfci -------------------------------
(* Small instances of Mfci.                                                *)
EXTENDS Mfci

=============================================================================
