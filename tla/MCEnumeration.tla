--------------------------- MODULE MCEnumeration ---------------------------
EXTENDS Enumeration
CONSTANTS i1, i2
MCIds == {i1, i2}
=============================================================================
