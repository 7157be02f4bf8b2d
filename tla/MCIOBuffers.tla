---------------------------- MODULE MCIOBuffers ----------------------------
EXTENDS IOBuffers
=============================================================================
