-------------------------- MODULE MCStartupConfigs --------------------------
(***************************************************************************)
(* Two digests shared by three handles: two handles of one digest, a third *)
(* on the other, and the temporary file of a crash.                        *)
(***************************************************************************)
EXTENDS StartupConfigs

CONSTANTS d1, d2, h1, h2, h3

MCDigests == {d1, d2}
MCHolders == {h1, h2, h3}

=============================================================================
