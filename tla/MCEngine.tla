------------------------------ MODULE MCEngine ------------------------------
(* Engine on small sets of requests, servers and drivers.                  *)
EXTENDS Engine
=============================================================================
