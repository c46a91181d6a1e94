------------------------- MODULE MCMemoryFreshness -------------------------
(***************************************************************************)
(* Two sources of two contents each, a fact that depends on both, and      *)
(* attestations over any set of sources, again and again. The chain grows  *)
(* beyond the window of one block and the lags of two nodes together.      *)
(***************************************************************************)
EXTENDS MemoryFreshness, TLC

CONSTANTS config, spec, east, west

MCSources == {config, spec}
MCContents == {east, west}
=============================================================================
