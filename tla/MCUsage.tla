------------------------------ MODULE MCUsage -------------------------------
\* Model-checking instance of Usage.
EXTENDS Usage
=============================================================================
