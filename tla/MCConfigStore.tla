---------------------------- MODULE MCConfigStore ----------------------------
(* The surroundings that the runs of ConfigStore start in.                  *)
EXTENDS ConfigStore

EveryWorld == World
=============================================================================
