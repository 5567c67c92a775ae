----------------------------- MODULE MCMinerLoop -----------------------------
(***************************************************************************)
(* The mining loop for TLC.  No action tells two headers apart, so they    *)
(* may be permuted where safety is checked.                                *)
(***************************************************************************)
EXTENDS MinerLoop, TLC

HeaderSymmetry == Permutations(Headers)
=============================================================================
