----------------------------- MODULE MCHeadLife -----------------------------
EXTENDS HeadLife
=============================================================================
