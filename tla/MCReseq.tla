------------------------------- MODULE MCReseq -------------------------------
(* Small instances of Reseq for TLC; the constants are given in the cfgs.  *)
EXTENDS Reseq

SegsOf(lens) == {s \in [pos : Positions, len : lens] : End(s) <= MaxPos + 1}

\* One position each: they never overlap.
UnitSegs == SegsOf({1})

\* One or two positions, from anywhere.
MixedSegs == SegsOf({1, 2})
==============================================================================
