------------------------------ MODULE MCManager ------------------------------
EXTENDS Manager, TLC

CONSTANTS port1, port2, panelA, panelB

\* Two panels, each with an address of its own.
Apart(p, q) == FALSE
OwnIdentity(p) == IF p = port1 THEN panelA ELSE panelB

\* One panel, which gets another address when it is plugged in again.
Same(p, q) == p # q
OneIdentity(p) == panelA
=============================================================================
