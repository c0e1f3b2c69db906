----------------------------- MODULE MCShmcLoad -----------------------------
EXTENDS ShmcLoad

\* Every file of at most three records of 1 to 5 bytes: records that end
\* exactly at the end of the buffer, records split between two reads, and
\* records longer than the buffer of 4 bytes.
MCFiles == BoundedSeq(1 .. 5, 3)

=============================================================================
