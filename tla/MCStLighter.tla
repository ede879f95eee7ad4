---------------------------- MODULE MCStLighter ----------------------------
\* Small instances of StLighter for TLC.
EXTENDS StLighter, TLC

CONSTANTS a, b

CONSTANTS ZenA, ZenB

MCZen == [acct \in Holders |-> IF acct = a THEN ZenA ELSE ZenB]
=============================================================================
