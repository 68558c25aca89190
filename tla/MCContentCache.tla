--------------------------- MODULE MCContentCache ---------------------------
\* Instances of ContentCache for TLC.
EXTENDS ContentCache

=============================================================================
