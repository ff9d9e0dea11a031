------------------------- MODULE MC_OpenRouterClient -------------------------
(***************************************************************************)
(* The chat client under the driver of example_openrouter.py: four chat() *)
(* calls, as its __main__ makes, two prompts, one tool prompt.            *)
(***************************************************************************)
EXTENDS OpenRouterClient

=============================================================================
