------------------------------ MODULE MCPricing -----------------------------
\* Model-checking instance of Pricing.
EXTENDS Pricing
=============================================================================
