----------------------------- MODULE MCFeeQuote ------------------------------
\* A small instance of FeeQuote for TLC: two amounts typed, one submission, overlapping requests.
EXTENDS FeeQuote
=============================================================================
