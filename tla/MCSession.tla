----------------------------- MODULE MCSession -----------------------------
EXTENDS Session
CONSTANTS o1
MCOutputOf == [t \in Toplevels |-> o1]
=============================================================================
