------------------------------ MODULE MCEsims -------------------------------
\* Model-checking instance of Esims.
EXTENDS Esims
=============================================================================
