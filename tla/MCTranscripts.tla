----------------------------- MODULE MCTranscripts -----------------------------
(* Transcripts on a small instance. *)
EXTENDS Transcripts

SameTexts == [p \in Prompts |-> "text"]
===============================================================================
