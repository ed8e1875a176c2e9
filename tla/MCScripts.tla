------------------------------ MODULE MCScripts ------------------------------
EXTENDS Scripts
=============================================================================
