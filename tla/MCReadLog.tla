----------------------------- MODULE MCReadLog -----------------------------
EXTENDS ReadLog
=============================================================================
