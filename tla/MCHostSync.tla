------------------------------ MODULE MCHostSync ------------------------------
(* HostSync with one session to send and one release to install. *)
EXTENDS HostSync

CONSTANTS v1, v2, b1, b2, c1, c2, p0, pM

MCStartPairs == {<<c1, p0>>}
MCRelease == <<v2, b2>>
===============================================================================
