-------------------------------- MODULE MCConn --------------------------------
EXTENDS Conn

CONSTANTS hub, spoke

NoFrames == {}
HubSecond == {<<hub, 2>>}
First == {1}
===============================================================================
