------------------------------- MODULE MCInput --------------------------------
(* Values for TLC: a hub of every platform, and spokes of every kind. *)
EXTENDS Input, TLC
CONSTANTS s1, s2
MCSetups == {<<"x11", s1 :> "macos" @@ s2 :> "windows">>,
             <<"windows", s1 :> "x11" @@ s2 :> "macos">>,
             <<"macos", s1 :> "x11" @@ s2 :> "none">>,
             <<"x11", s1 :> "x11" @@ s2 :> "none">>}
MCKeys == {LSHIFT, RALT, APPLICATION}
MCHeldAtStart == {<<"key", LSHIFT>>, <<"button", Middle>>}
MCNoKeycode == {RALT}
===============================================================================
