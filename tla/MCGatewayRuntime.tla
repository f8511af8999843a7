--------------------------- MODULE MCGatewayRuntime ---------------------------
(* GatewayRuntime on a few starts and crashes; the two helpers play the same part *)
(* except for the order of a failed start, so no symmetry is used.                *)
EXTENDS GatewayRuntime
===============================================================================
