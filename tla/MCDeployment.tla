---------------------------- MODULE MCDeployment ----------------------------
(***************************************************************************)
(* Two containers; the rate cache is looked at in the first.               *)
(***************************************************************************)
EXTENDS Deployment

CONSTANTS i1, i2
=============================================================================
