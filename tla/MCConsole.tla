----------------------------- MODULE MCConsole -----------------------------
(* Values for the constants of Console that a configuration cannot express.   *)
EXTENDS Console

(* One screen that is wider and lower than the console that boot starts with,   *)
(* and one narrower than a single cell and taller than buf.                  *)
MCModes == {<<39, 10>>, <<9, 35>>}

MCStrings == {<<"nl">>, <<"tab">>, <<"cr", "ctl">>}

MCFnText == <<"a">>

MCPanicText == <<"nl">>

(* The theorems that need it speak of this instance.                         *)
ASSUME MCDrawWhole == DrawWhole

=============================================================================
