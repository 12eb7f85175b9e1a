---------------------------- MODULE MCAppControl ----------------------------
\* Instances of AppControl for TLC.
EXTENDS AppControl

CONSTANTS A, B
=============================================================================
