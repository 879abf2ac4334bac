-------------------------- MODULE MCExpertPipeline --------------------------
(* Bounded instances of ExpertPipeline.                                    *)
EXTENDS ExpertPipeline
=============================================================================
