--------------------------- MODULE MCNodeLifecycle --------------------------
EXTENDS NodeLifecycle
=============================================================================
