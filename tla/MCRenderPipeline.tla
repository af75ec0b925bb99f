-------------------------- MODULE MCRenderPipeline --------------------------
(* Instances of RenderPipeline for TLC.                                    *)
EXTENDS RenderPipeline, TLC

\* Renders are interchangeable.
RequestSymmetry == Permutations(Requests)
=============================================================================
