-------------------------- MODULE MCRenderPipeline --------------------------
(* RenderPipeline for TLC: constants come from the configuration. *)
EXTENDS RenderPipeline
=============================================================================
