-------------------------- MODULE MCRuntimeControl --------------------------
(* Instances of RuntimeControl for TLC. *)
EXTENDS RuntimeControl, TLC

CONSTANTS b1, b2

OneBundle == {b1}
TwoBundles == {b1, b2}

\* Bundles are interchangeable: no constant but Bundles names one.
Symmetry == Permutations(TwoBundles)
=============================================================================
