----------------------------- MODULE MCPrograms -----------------------------
\* Programs with the values of its .cfg files.
EXTENDS Programs
=============================================================================
