--------------------------- MODULE MCRagChunking ---------------------------
(* Windows of six tokens that advance by four, streams of up to thirteen:     *)
(* every prompt of up to 27 tokens, so that there are up to five streams with *)
(* and without a remainder, and inputs of several prompts.                    *)
EXTENDS RagChunking

MCInputs == {<<n>> : n \in 1..27} \cup {<<9, 3>>, <<5, 17, 2>>, <<18, 5>>, <<6, 6>>}
LongInput == {<<18>>}
=============================================================================
