------------------------------- MODULE MCStream -------------------------------
EXTENDS StreamQueue

CONSTANTS sub, filter

===============================================================================
