-------------------------- MODULE MCRuntimeManager --------------------------
(***************************************************************************)
(* Two callers and two bundles for safety, two callers and one for         *)
(* liveness.                                                               *)
(***************************************************************************)
EXTENDS RuntimeManager, TLC

CONSTANTS c1, c2, b1, b2

TwoCallers == {c1, c2}
OneBundle == {b1}
TwoBundles == {b1, b2}

TwoSymmetric == Permutations(TwoCallers) \cup Permutations(TwoBundles)

=============================================================================
