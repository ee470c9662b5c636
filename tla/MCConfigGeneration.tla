------------------------- MODULE MCConfigGeneration -------------------------
\* Two requests, each from an address of its own.
EXTENDS ConfigGeneration
CONSTANTS r1, r2

TwoRequests == {r1, r2}
OneRequest == {r1}
=============================================================================
