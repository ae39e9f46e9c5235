---------------------------- MODULE MCAiService ----------------------------
(* Two or three requests share a pool of one worker. *)
EXTENDS AiService
============================================================================
