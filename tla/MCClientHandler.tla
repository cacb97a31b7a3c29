---------------------------- MODULE MCClientHandler ----------------------------
(* The instances of ClientHandler need no more than numbers for its constants. *)
EXTENDS ClientHandler, TLC
================================================================================
