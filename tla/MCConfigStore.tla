---------------------------- MODULE MCConfigStore ----------------------------
(* ConfigStore with two texts, of which one needs the MITM engine, two scripts  *)
(* and two sets of values, of which one selects the Gateway.                    *)
EXTENDS ConfigStore
===============================================================================
