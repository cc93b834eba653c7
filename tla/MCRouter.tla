------------------------------- MODULE MCRouter -------------------------------
(* Values for TLC: integers of four bits, on which a delta can overflow, a    *)
(* screen of a few pixels and one without any.                               *)
EXTENDS Router
MCScreens == {<<4, 2>>, <<0, 2>>}
MCDeltas == {-8, -1, 1, 7}
===============================================================================
