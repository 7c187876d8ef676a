---------------------------- MODULE MCLocalIngest ----------------------------
EXTENDS LocalIngest, TLC
=============================================================================
