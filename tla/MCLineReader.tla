---------------------------- MODULE MCLineReader ----------------------------
\* Every text of up to MaxLength bytes.
EXTENDS LineReader

CONSTANT MaxLength

MCStreams == SeqOf(Bytes, MaxLength)
=============================================================================
