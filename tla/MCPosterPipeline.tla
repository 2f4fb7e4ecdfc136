-------------------------- MODULE MCPosterPipeline --------------------------
(* Two recordings: an imported one with a poster upstream and a pro-shot    *)
(* that is not imported and that StageMedia has nothing for.                *)
EXTENDS PosterPipeline

CONSTANTS i1, i2, t1, l1, a1, a2

MCStarts == {[upstream |-> i1, proShot |-> FALSE, imported |-> TRUE],
             [upstream |-> None, proShot |-> TRUE, imported |-> FALSE]}
=============================================================================
