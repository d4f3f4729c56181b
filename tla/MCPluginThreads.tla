-------------------------- MODULE MCPluginThreads --------------------------
(* The plugin's way from audio to captions (PluginThreads) for TLC.          *)
EXTENDS PluginThreads
=============================================================================
