----------------------------- MODULE MCStreams -----------------------------
(* The instance of Streams for TLC: every pair of protocols.               *)
EXTENDS Streams

Pairs == {<<p, q>> : p, q \in {"openai", "anthropic", "gemini", "ollama"}}
=============================================================================
