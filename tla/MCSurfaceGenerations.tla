------------------------- MODULE MCSurfaceGenerations -------------------------
(* GameSessionCoordinator with the history of its closed surface lifetimes. *)
EXTENDS MCGameSessionCoordinator

VARIABLE closed   \* generations of the surface lifetimes that were destroyed

HistoryInit == Init /\ closed = {}
HistoryNext == Next /\ closed' = closed \cup ({lastDestroyed'} \ {0})
HistorySpec == HistoryInit /\ [][HistoryNext]_<<vars, closed>>

\* A surface that is created again for a paused game has a generation that no
\* closed lifetime had.  game_session_coordinator.h:37 asks for it ("Recreated
\* Android surfaces must receive a new generation even when the host window is
\* reused") and SurfaceCreated refuses some repeated generations with "recreated
\* surface requires a new lifetime generation".
RecreatedSurfaceNeedsNewGeneration == state = "Paused" => prepared \notin closed

=============================================================================
