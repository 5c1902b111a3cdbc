------------------------------- MODULE MCMail -------------------------------
EXTENDS Mail, TLC
=============================================================================
