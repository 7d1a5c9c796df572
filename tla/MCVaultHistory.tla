--------------------------- MODULE MCVaultHistory ---------------------------
EXTENDS VaultHistory

CONSTANTS c1, c2, h1, h2, none

\* The two bodies of MCVault.
MCContents == {c1, c2}
MCChunks   == {h1, h2}
MCChunksOf == [c \in MCContents |-> IF c = c1 THEN {h1} ELSE {h1, h2}]
MCSizeOf   == [c \in MCContents |-> 1]
MCFold     == [p \in Paths |-> p]
=============================================================================
