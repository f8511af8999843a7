---------------------------- MODULE MCNetworkPlan ----------------------------
(* NetworkPlan on addresses of four bits: three networks of each size the checks *)
(* accept, one with host bits set, and the sizes just beyond the bounds.         *)
EXTENDS NetworkPlan

MCCidrs == {<<0, 0>>, <<0, 1>>, <<13, 1>>, <<4, 2>>, <<8, 2>>, <<12, 3>>}
MCPhysical == <<8, 2>>
MCLanSelectors == {Blank, LanDefault, [by |-> "mac", value |-> LanMac],
                   [by |-> "mac", value |-> "02:00:00:00:00:33"]}
MCHostSelectors == {Blank, HostDefault, [by |-> "mac", value |-> HostMac],
                    [by |-> "mac", value |-> "02:00:00:00:00:44"]}
===============================================================================
