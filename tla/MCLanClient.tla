---------------------------- MODULE MCLanClient ----------------------------
EXTENDS LanClient
CONSTANTS w1, w2, app
=============================================================================
