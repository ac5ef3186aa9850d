--------------------------- MODULE MCDataHandler ---------------------------
EXTENDS DataHandler
=============================================================================
