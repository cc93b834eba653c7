------------------------------ MODULE MCPairing -------------------------------
(* Values for TLC: a host name with one address, or two, of the one hub. *)
EXTENDS Pairing
CONSTANTS h1, s1, s2
MCOneAddress == <<h1>>
MCTwoAddresses == <<h1, h1>>
===============================================================================
