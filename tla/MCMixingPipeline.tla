-------------------------- MODULE MCMixingPipeline --------------------------
(***************************************************************************)
(* mix.py --inputs a,b,c: three input files, and one add_destination typed at *)
(* the server's console on top of the initial one.                        *)
(***************************************************************************)
EXTENDS MixingPipeline

CONSTANTS in_a, in_b, in_c

MCInputs == <<in_a, in_b, in_c>>

=============================================================================
