---------------------------- MODULE MCGameServer ----------------------------
(* Small servers for GameServer. *)
EXTENDS GameServer

CONSTANTS alice, bob, game
=============================================================================
