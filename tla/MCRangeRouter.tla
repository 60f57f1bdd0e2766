--------------------------- MODULE MCRangeRouter ---------------------------
(* RangeRouter on two ranges.                                              *)
EXTENDS RangeRouter

TwoRanges == {0, 1}
=============================================================================
