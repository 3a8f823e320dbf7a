---- MODULE MCExperienceComposition ----
(* Instances of ExperienceComposition for TLC. *)
EXTENDS ExperienceComposition, TLC

Interchangeable == Permutations(Requests)
====
