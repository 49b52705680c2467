----------------------------- MODULE MCThreads -----------------------------
EXTENDS Threads
=============================================================================
