--------------------------- MODULE MCObjectEditing --------------------------
EXTENDS ObjectEditing

CONSTANTS sub1, sub2, leaf1, leaf2
=============================================================================
