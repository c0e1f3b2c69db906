------------------------------ MODULE ShmcLoad ------------------------------
(***************************************************************************)
(* The buffered reader of shmc_load_nolock (src/shmc.c).                   *)
(*                                                                         *)
(* The dump file is a sequence of records "<nkey> <nval> <key> <val>\n".   *)
(* Only their lengths in bytes matter to the reader, so a file is a        *)
(* sequence of record lengths.  The buffer holds the file bytes            *)
(* [bufStart, bufStart + nbuffer); offset is the C variable of the same   *)
(* name.  A record is parsed when all of its bytes are in the buffer: the *)
(* memchr and bounds tests of the inner loop fail on any shorter prefix.  *)
(* fread on a regular file returns the bytes asked for, or what is left.   *)
(* The set of each record is abstracted to its result code.                *)
(***************************************************************************)
EXTENDS Naturals, Sequences, SequencesExt

CONSTANTS
    BufferSize,     \* BUFFER_SIZE = 1024 * 1024 + 1024, scaled down
    Files,          \* the files to load: sequences of record lengths
    SetResults      \* the codes shmc_set_nolock may return for a record

ASSUME LoadAssumption ==
    /\ BufferSize \in Nat \ {0}
    /\ \A f \in Files : f \in Seq(Nat \ {0})
    /\ "OK" \in SetResults
    /\ "ESIZE" \notin SetResults  \* a set's own ESIZE is a failure like NOMEMORY

VARIABLES
    file,       \* the file being loaded
    bufStart,   \* the file position of buffer[0]
    nbuffer,    \* bytes valid in the buffer
    offset,     \* the C variable offset
    rc,         \* the C variable rc
    loaded,     \* the records passed to shmc_set_nolock, in order
    pc          \* "read": the outer while; "parse": the inner while;
                \* "after": the test after it; "done": returned rc

vars == <<file, bufStart, nbuffer, offset, rc, loaded, pc>>

FileLen(f) == FoldSeq(+, 0, f)

\* The file position where record i starts, and where it ends.
RecStart(f, i) == FoldSeq(+, 0, SubSeq(f, 1, i - 1))
RecEnd(f, i) == RecStart(f, i) + f[i]

\* The record starting at file position p, if there is one.
RecordAt(f, p) == {i \in DOMAIN f : RecStart(f, i) = p}

Init ==
    /\ file \in Files
    /\ bufStart = 0 /\ nbuffer = 0 /\ offset = 0
    /\ rc = "OK"
    /\ loaded = <<>>
    /\ pc = "read"

\* Fault variant: fread asks for BUFFER_SIZE bytes whatever offset is.
ReadWholeBuffer ==
    /\ pc = "read"
    /\ LET got == Min({BufferSize, FileLen(file) - (bufStart + offset)})
       IN IF got = 0
          THEN /\ pc' = "done"
               /\ UNCHANGED <<nbuffer, offset>>
          ELSE /\ nbuffer' = got + offset
               /\ offset' = 0
               /\ pc' = "parse"
    /\ UNCHANGED <<file, bufStart, rc, loaded>>

\* while ((nbuffer = fread(buffer + offset, 1, BUFFER_SIZE - offset, fp)))
\* { nbuffer += offset; offset = 0; ... }: the buffer then holds the file
\* from bufStart on.  A read of nothing ends the loop.
Read ==
    /\ pc = "read"
    /\ LET got == Min({BufferSize - offset, FileLen(file) - (bufStart + offset)})
       IN IF got = 0
          THEN /\ pc' = "done"
               /\ UNCHANGED <<nbuffer, offset>>
          ELSE /\ nbuffer' = got + offset
               /\ offset' = 0
               /\ pc' = "parse"
    /\ UNCHANGED <<file, bufStart, rc, loaded>>

\* One turn of the inner loop: a record wholly in the buffer is set and
\* offset moves past it; a set that fails ends the inner loop with its code.
ParseRecord ==
    /\ pc = "parse"
    /\ \E i \in RecordAt(file, bufStart + offset) :
          /\ RecEnd(file, i) <= bufStart + nbuffer
          /\ loaded' = Append(loaded, i)
          /\ \E r \in SetResults :
                /\ rc' = r
                /\ IF r = "OK"
                   THEN offset' = RecEnd(file, i) - bufStart /\ pc' = "parse"
                   ELSE offset' = offset /\ pc' = "after"
    /\ UNCHANGED <<file, bufStart, nbuffer>>

\* The inner loop breaks when the next record is not wholly in the buffer.
ParseBreak ==
    /\ pc = "parse"
    /\ ~\E i \in RecordAt(file, bufStart + offset) :
          RecEnd(file, i) <= bufStart + nbuffer
    /\ pc' = "after"
    /\ UNCHANGED <<file, bufStart, nbuffer, offset, rc, loaded>>

\* Fault variant: the partial record is moved from buffer, not from
\* buffer + offset.
AfterParseNoShift ==
    /\ pc = "after"
    /\ \/ rc # "OK" /\ pc' = "done" /\ UNCHANGED <<bufStart, offset, rc>>
       \/ rc = "OK" /\ offset = 0
          /\ rc' = "ESIZE" /\ pc' = "done" /\ UNCHANGED <<bufStart, offset>>
       \/ rc = "OK" /\ offset # 0 /\ nbuffer # offset
          /\ offset' = nbuffer - offset
          /\ pc' = "read" /\ UNCHANGED <<bufStart, rc>>
       \/ rc = "OK" /\ offset # 0 /\ nbuffer = offset
          /\ pc' = "read" /\ UNCHANGED <<bufStart, offset, rc>>
    /\ UNCHANGED <<file, nbuffer, loaded>>

\* After the inner loop: no record at all in a full read is ESIZE; a
\* partial record is moved to the front of the buffer; when the buffer was
\* consumed exactly, offset is left as it is.
AfterParse ==
    /\ pc = "after"
    /\ \/ rc # "OK" /\ pc' = "done" /\ UNCHANGED <<bufStart, offset, rc>>
       \/ rc = "OK" /\ offset = 0
          /\ rc' = "ESIZE" /\ pc' = "done" /\ UNCHANGED <<bufStart, offset>>
       \/ rc = "OK" /\ offset # 0 /\ nbuffer # offset
          /\ bufStart' = bufStart + offset
          /\ offset' = nbuffer - offset
          /\ pc' = "read" /\ UNCHANGED rc
       \/ rc = "OK" /\ offset # 0 /\ nbuffer = offset
          /\ pc' = "read" /\ UNCHANGED <<bufStart, offset, rc>>
    /\ UNCHANGED <<file, nbuffer, loaded>>

Done == pc = "done" /\ UNCHANGED vars

Next == Read \/ ParseRecord \/ ParseBreak \/ AfterParse \/ Done

Spec == Init /\ [][Next]_vars

-----------------------------------------------------------------------------

TypeOK ==
    /\ file \in Files
    /\ bufStart \in 0 .. FileLen(file)
    /\ nbuffer \in 0 .. BufferSize
    /\ offset \in 0 .. BufferSize
    /\ rc \in SetResults \cup {"ESIZE"}
    /\ loaded \in Seq(DOMAIN file)
    /\ pc \in {"read", "parse", "after", "done"}

\* Records are set in file order, each once: the reader never skips a
\* record nor parses one twice, however the records straddle the reads.
LoadInOrder == loaded = [j \in 1 .. Len(loaded) |-> j]

\* load returns only after setting every record of the file (spec.md: the
\* partial trailing record triggers another read until EOF), unless a set
\* failed or a record is longer than the buffer.
LoadComplete ==
    pc = "done" =>
        \/ Len(loaded) = Len(file)
        \/ rc # "OK" /\ rc # "ESIZE"
        \/ rc = "ESIZE" /\ file[Len(loaded) + 1] > BufferSize

=============================================================================
