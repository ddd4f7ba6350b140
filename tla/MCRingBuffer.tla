---------------------------- MODULE MCRingBuffer ----------------------------
EXTENDS RingBuffer
=============================================================================
