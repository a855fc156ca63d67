---------------------------- MODULE MCClientMain ----------------------------
(* Two results: one that fails, lacks a URL or is skipped, and another one. *)
EXTENDS ClientMain
=============================================================================
