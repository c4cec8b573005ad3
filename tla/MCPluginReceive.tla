--------------------------- MODULE MCPluginReceive ---------------------------
(* Instance of PluginReceive for TLC; the .cfg files give the constants. *)
EXTENDS PluginReceive
=============================================================================
