--------------------------- MODULE MCReactParser ---------------------------
EXTENDS ReactParser
=============================================================================
