------------------------- MODULE MCResearchPipeline -------------------------
(* Two tickers of one sector, two runs, one close of trading. *)
EXTENDS ResearchPipeline

OneSector == [t \in Tickers |-> "Technology"]
=============================================================================
