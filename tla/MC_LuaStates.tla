---------------------------- MODULE MC_LuaStates ----------------------------
EXTENDS LuaStates, TLC

CONSTANTS w1, w2, t1, t2, m1

=============================================================================
