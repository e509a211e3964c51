---------------------------- MODULE MCEventStream ----------------------------
EXTENDS EventStream, TLC

CONSTANTS e1, e2, e3, c1, c2

OneEvent    == {e1}
TwoEvents   == {e1, e2}
ThreeEvents == {e1, e2, e3}
OneClient   == {c1}
TwoClients  == {c1, c2}
NoClients   == {}
===============================================================================
