------------------------------ MODULE MCClipSync ------------------------------
EXTENDS ClipSync

CONSTANTS h, a, b

OneSpoke == {a}
TwoSpokes == {a, b}
AllDesktops == {h, a, b}
BothDesktops == {h, a}
===============================================================================
