------------------------------ MODULE MCMetrics ------------------------------
(***************************************************************************)
(* An instance of Metrics for TLC.  The RPCs are alike.                    *)
(***************************************************************************)
EXTENDS Metrics, TLC

Symmetry == Permutations(RPCs)
=============================================================================
