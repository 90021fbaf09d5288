-------------------------- MODULE MCRuntimeSettings --------------------------
EXTENDS RuntimeSettings
=============================================================================
