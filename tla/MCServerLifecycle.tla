-------------------------- MODULE MCServerLifecycle --------------------------
(* A small instance of ServerLifecycle: a completion, a metrics query and a *)
(* change of model.                                                         *)
EXTENDS ServerLifecycle

MCClient == {"completion", "metrics", "model"}
MCKind == [c \in MCClient |->
    CASE c = "completion" -> "poll" [] c = "metrics" -> "block" [] c = "model" -> "change"]
=============================================================================
