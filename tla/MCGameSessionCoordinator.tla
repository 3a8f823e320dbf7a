----------------------- MODULE MCGameSessionCoordinator -----------------------
(* Small instances of GameSessionCoordinator. *)
EXTENDS GameSessionCoordinator

CONSTANTS MaxGeneration, MaxFrame

MCGenerations == 0..MaxGeneration
MCFrames == 0..MaxFrame

=============================================================================
