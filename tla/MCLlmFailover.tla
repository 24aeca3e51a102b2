---------------------------- MODULE MCLlmFailover ----------------------------
(***************************************************************************)
(* Two calls over two providers, each call made again and again: enough    *)
(* for a probe, a call it turns away, and one admitted before the circuit  *)
(* opened that reports while the probe is out.                             *)
(***************************************************************************)
EXTENDS LlmFailover

MCChain == <<"openai", "gemini">>
=============================================================================
