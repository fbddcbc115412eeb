------------------------------ MODULE MCSender ------------------------------
EXTENDS Sender
=============================================================================
