------------------------ MODULE MCPlayerStateMachine ------------------------
(* Instances of PlayerStateMachine for TLC: who sends which intent.        *)
EXTENDS PlayerStateMachine

CONSTANTS c1, c2, c3

\* No intent has two senders: one client prepares and pauses, another
\* plays, a third one stops and resets the player.
MCDistinct == [c \in Clients |->
    CASE c = c1 -> {"SET_SOURCE", "PREPARE", "PAUSE"}
      [] c = c2 -> {"PLAY"}
      [] OTHER  -> {"STOP", "RESET"}]

\* The intents whose calls depend on what the pipeline does.
MCPlayback == [c \in Clients |->
    IF c = c1 THEN {"SET_SOURCE", "PREPARE", "PLAY", "PAUSE", "RESUME"} ELSE {"STOP", "RESET"}]

\* Two clients play, and a third one prepares and pauses.
MCTwoPlay == [c \in Clients |->
    IF c = c1 THEN {"SET_SOURCE", "PREPARE", "PAUSE"} ELSE {"PLAY"}]

=============================================================================
