---------------------------- MODULE MCTaskEngine ----------------------------
(* TaskEngine on small sets of model values.  Sources are interchangeable  *)
(* and so are Workers; runs with liveness properties declare no symmetry.  *)
EXTENDS TaskEngineProperties, TLC

Symmetric == Permutations(Sources) \cup Permutations(Workers)

=============================================================================
