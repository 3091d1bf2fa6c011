------------------------------- MODULE MCLabs -------------------------------
EXTENDS Labs

AllLabs == Labs
=============================================================================
