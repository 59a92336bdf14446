----------------------------- MODULE MCGrcSync -----------------------------
EXTENDS GrcSync, TLC
=============================================================================
