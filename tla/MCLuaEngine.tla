---------------------------- MODULE MCLuaEngine ----------------------------
(* An instance of LuaEngine for TLC.                                        *)
EXTENDS LuaEngine

(* A script that calls a function of its module. *)
OneChunk == [game |-> <<"function", "call">>]
=============================================================================
