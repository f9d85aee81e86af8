--------------------------- MODULE MCTaskStorage ---------------------------
EXTENDS TaskStorage
=============================================================================
