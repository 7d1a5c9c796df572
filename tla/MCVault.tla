------------------------------ MODULE MCVault ------------------------------
EXTENDS Vault

CONSTANTS c1, c2, h1, h2, none

\* Two bodies of one length that share a chunk.
MCContents == {c1, c2}
MCChunks   == {h1, h2}
MCChunksOf == [c \in MCContents |-> IF c = c1 THEN {h1} ELSE {h1, h2}]
MCSizeOf   == [c \in MCContents |-> 1]
MCFold     == [p \in Paths |-> IF p = 3 THEN 2 ELSE p]
=============================================================================
