------------------------------- MODULE MCTask -------------------------------
(* Instances of Task for TLC: which client calls what.                     *)
EXTENDS Task

CONSTANTS c1, c2, c3

\* Every client calls everything.
MCAnyOperation == [c \in Clients |-> AllOperations]

\* Nobody but the job ever uses StopAsync: what the player's filters do.
MCFilterOperation == [c \in Clients |-> AllOperations \ {"StopAsync"}]

=============================================================================
