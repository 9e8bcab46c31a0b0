-------------------------- MODULE MCBotSupervisor --------------------------
(* Small instances of BotSupervisor for TLC.                               *)
EXTENDS BotSupervisor, TLC

\* Replicas, processes and timer slots are interchangeable.
Symmetry == Permutations(Workers) \cup Permutations(Children) \cup Permutations(Timers)
=============================================================================
