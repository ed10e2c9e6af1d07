----------------------------- MODULE MCSendPath -----------------------------
EXTENDS SendPath
CONSTANTS a, b, w1, w2
=============================================================================
