-------------------------- MODULE MCGenerationJob --------------------------
(* Small instances of GenerationJob for TLC.                               *)
EXTENDS GenerationJob, TLC

\* Requests only differ in what they were asked to do, and the cron is one
\* more request that happens to refresh: the configurations let Cron be one
\* of Requests.  Only FairSpec, checked without symmetry, singles it out.
RequestSymmetry == Permutations(Requests)
=============================================================================
