------------------------- MODULE MCPluginLifecycle --------------------------
(* PluginLifecycle with the schema of the SMDB, for TLC.                   *)
EXTENDS PluginLifecycle, SsaSmdb
=============================================================================
