--------------------------- MODULE MCIngestPipeline ---------------------------
(* A small instance of IngestPipeline: a document with no content, one of  *)
(* text only and one with a figure, each under the knowledge-base          *)
(* configurations that change the course of a run.                         *)
EXTENDS IngestPipeline

CONSTANTS a1, a2

Base == [vlm |-> FALSE, kg |-> FALSE, processor |-> FALSE, descCache |-> FALSE,
         llm |-> FALSE, atoms |-> {a1}, visual |-> {}, cut |-> 2]

MCConfigs ==
    {Base,
     [Base EXCEPT !.kg = TRUE, !.llm = TRUE],
     [Base EXCEPT !.kg = TRUE, !.atoms = {}, !.cut = 0],
     [Base EXCEPT !.vlm = TRUE, !.processor = TRUE],
     [Base EXCEPT !.vlm = TRUE, !.atoms = {a1, a2}, !.visual = {a2}],
     [Base EXCEPT !.vlm = TRUE, !.processor = TRUE, !.atoms = {a1, a2}, !.visual = {a2}],
     [Base EXCEPT !.vlm = TRUE, !.processor = TRUE, !.descCache = TRUE,
                  !.atoms = {a1, a2}, !.visual = {a2}]}
===============================================================================
