--------------------------- MODULE MCPluginSender ---------------------------
(* The plugin's sender thread (PluginSender) for TLC.                        *)
EXTENDS PluginSender
=============================================================================
