------------------------- MODULE MC_PluginRegistrar -------------------------
(* A small instance of the Plugin Registrar for TLC.  Package file i1       *)
(* defines plugin a; in file i2 a first class with a dotted base hides     *)
(* plugin b from the scan, so an operator registered b by hand.  plugins.py *)
(* starts with PLUGINS = ["b"], with no PLUGINS, or with PLUGINS bound to  *)
(* an expression, each beside one unrelated statement.                     *)
EXTENDS PluginRegistrar

CONSTANTS a, b, i1, i2, noname

MCNames == {a, b}
MCFiles == {i1, i2}
MCClasses ==
    [f \in MCFiles |->
        IF f = i1
        THEN << [bases |-> {"PluginConfig"}, name |-> a] >>
        ELSE << [bases |-> {"Other", "Dotted"}, name |-> noname],
                [bases |-> {"PluginConfig"}, name |-> b] >>]
MCInitialFiles ==
    { << Unrelated, PluginsList(<<b>>) >>,
      << Unrelated >>,
      << PluginsOther, Unrelated >> }
=============================================================================
