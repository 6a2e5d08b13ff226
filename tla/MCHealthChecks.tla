--------------------------- MODULE MCHealthChecks ---------------------------
EXTENDS HealthChecks

\* Model values are not needed: pass and fail differ only in wording.
=============================================================================
