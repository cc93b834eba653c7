---------------------------- MODULE MCHubSessions -----------------------------
EXTENDS HubSessions

CONSTANTS a, b

OneSpoke == {a}
TwoSpokes == {a, b}
===============================================================================
