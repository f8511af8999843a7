----------------------------- MODULE MCGuestAgent -----------------------------
(* GuestAgent on small sets of model values. *)
EXTENDS GuestAgent, TLC

CONSTANTS v1, v2, b1, b2, c1, c2, p0, pM

\* Contents of a file are only compared for equality, so permuting them is sound
\* as long as no constant of the instance singles one out.
ConfigSymmetry == Permutations({c1, c2})
===============================================================================
