---------------------------- MODULE MCPdataSlices ----------------------------
(***************************************************************************)
(* PdataSlices with two slices.                                            *)
(***************************************************************************)
EXTENDS PdataSlices, TLC

CONSTANTS s1, s2, k1, k2

MCSlices == {s1, s2}
MCKeys   == {k1, k2}

(* Neither two slices nor two keys differ in anything but their names. *)
Symmetry == Permutations(MCSlices) \cup Permutations(MCKeys)
=============================================================================
