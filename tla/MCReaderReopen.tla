-------------------------- MODULE MCReaderReopen --------------------------
EXTENDS ReaderReopen

CONSTANTS t1, t2
=============================================================================
