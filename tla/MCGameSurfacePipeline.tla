------------------------ MODULE MCGameSurfacePipeline ------------------------
(* Small instances of GameSurfacePipeline. *)
EXTENDS GameSurfacePipeline, TLC

MCGenerations == 0..GenerationLimit
MCExtents == Windows \X Sizes
MCFrames == {0, 1}

Interchangeable == Permutations(Windows) \cup Permutations(Sizes)

=============================================================================
