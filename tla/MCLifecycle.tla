----------------------------- MODULE MCLifecycle ------------------------------
(* Lifecycle with a few workers, as model values. *)
EXTENDS Lifecycle, TLC

CONSTANTS s1, s2, s3, t1, t2, t3

Gateway == <<"gateway">>
Mixed == <<"child">>
MixedWithModules == <<"child", "mitm">>

AllRuntimes == {Gateway, Mixed, MixedWithModules}
GatewayOnly == {Gateway}
MixedRuntimes == {Mixed, MixedWithModules}

\* Workers are born in any order and only compared for equality.
WorkerSymmetry == Permutations({s1, s2, s3}) \cup Permutations({t1, t2, t3})
===============================================================================
