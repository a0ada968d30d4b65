--------------------------- MODULE MCPluginFiles ---------------------------
(* Two plugins, one init.lua of the user's, two settings. *)
EXTENDS PluginFiles

MCPlugins == {"greet", "warps"}
MCKeys == {"enabled", "extra"}
MCVersions == {"edited"}
=============================================================================
