-------------------------- MODULE MCFactoryStore --------------------------
(* Instances of FactoryStore for TLC.                                       *)
EXTENDS FactoryStore

CONSTANTS c1, c2, c3, i1, i2

\* All consumers share one index.
OneIndex == [c \in Consumers |-> i1]
\* The last consumer has an index of its own.
TwoIndexes == [c \in Consumers |-> IF c = c3 THEN i2 ELSE i1]
=============================================================================
