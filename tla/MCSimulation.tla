--------------------------- MODULE MCSimulation ---------------------------
(* The instance of Simulation for TLC; liveness allows no symmetry.        *)
EXTENDS Simulation

\* Everything off, one loop, and one loop that mixed_realistic stands for.
MCConfigs == {{}, {"late_surge"}, {"mixed_realistic"}}

===========================================================================
