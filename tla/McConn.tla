------------------------------- MODULE McConn -------------------------------
(***************************************************************************)
(* One connection of the memcached front end, from its accept to its      *)
(* delete: McConn in src/netshell/mcshell.cc, driven by the               *)
(* level-triggered epoll loop of src/netshell/eventmgr.hpp.                *)
(*                                                                         *)
(* The bytes the client sends form one stream.  A byte is named by its     *)
(* position in the stream, so a buffer is a sequence of positions and a    *)
(* value handed to shmc_set is the list of stream bytes it was copied      *)
(* from.  A request is a command, the length of its line (up to and        *)
(* including "\n") and the length of its data block (nval + 2, the "\r\n"  *)
(* included; 0 for commands without one).  The only '\n' bytes are the    *)
(* ends of lines and of data blocks.                                       *)
(*                                                                         *)
(* The client is any client: it may pipeline, send lines longer than the   *)
(* header buffer, half-close or reset the connection.  The network         *)
(* delivers the stream in pieces of any size.  Each handler onX is one     *)
(* step; dm is the DmState it returns, and a handler runs again only when  *)
(* it returned DmGoOn or epoll reports the registered event.               *)
(***************************************************************************)
EXTENDS Naturals, Sequences, SequencesExt

CONSTANTS
    ReqHeaderSize,  \* REQ_HEADER_SIZE
    Requests,       \* the requests a client may send: [cmd, hlen, blen]
    StoreCmds,      \* set, add, replace, prepend, append
    MaxRequests,    \* bound on the requests sent
    SndBuf,         \* the socket's send buffer
    HdrLen,         \* bytes of a header formatted by outString
    TailLen,        \* bytes of "\r\nEND\r\n"
    ValueLens,      \* value lengths shmc_get may return
    StatsLen,       \* bytes of the text doStats formats
    Junk,           \* a byte of freshly malloc'ed memory
    EpollCanFail    \* epoll_ctl(EPOLL_CTL_MOD) may fail

ASSUME ConnAssumption ==
    /\ ReqHeaderSize \in Nat \ {0}
    /\ \A r \in Requests : r.hlen \in Nat \ {0} /\ r.blen \in Nat
                           /\ (r.blen >= 2 <=> r.cmd \in StoreCmds)
    /\ {MaxRequests, SndBuf, HdrLen, TailLen, StatsLen} \subseteq Nat
    /\ ValueLens \subseteq Nat
    /\ EpollCanFail \in BOOLEAN

VARIABLES
    state,          \* state_; "Pending" while the connection waits in the
                    \* listen backlog, "Closed" once the object is deleted
    interest,       \* the event registered with epoll: "IN" or "OUT"
    dm,             \* the DmState the last handler returned
    sent,           \* the requests the client has sent
    arrived,        \* stream bytes in the server's socket so far
    eof,            \* the client has shut down its side
    streamEnd,      \* then: the stream position of its FIN
    rst,            \* the client has reset the connection
    consumed,       \* stream bytes taken out of the socket by recv
    hdrBytes,       \* reqHeaderBytes_
    bodyBuf,        \* reqBody_ (its length is reqBodyCapability_)
    bodySize,       \* reqBodySize_
    bodyBytes,      \* reqBodyBytes_
    bodyStart,      \* the stream position after the parsed line (count)
    resHeaderSize,  \* resHeaderSize_
    resBodySize,    \* resBodySize_
    outq,           \* bytes in the socket's send buffer
    lastSet         \* the value the last storage command handed to shmc_*

vars == <<state, interest, dm, sent, arrived, eof, streamEnd, rst, consumed, hdrBytes,
          bodyBuf, bodySize, bodyBytes, bodyStart, resHeaderSize,
          resBodySize, outq, lastSet>>

NoSet == [from |-> 0, val |-> <<>>]

Min2(a, b) == IF a <= b THEN a ELSE b

ReqLen(r) == r.hlen + r.blen
Lens == [j \in DOMAIN sent |-> ReqLen(sent[j])]
Total == FoldSeq(+, 0, Lens)
\* The bytes the client wrote: all it sent, or those before its FIN.
Written == IF eof THEN streamEnd ELSE Total
\* The stream position where request i starts.
Start(i) == FoldSeq(+, 0, SubSeq(Lens, 1, i - 1))
\* The positions of the '\n' bytes of the stream.
Newlines ==
    {Start(i) + sent[i].hlen - 1 : i \in DOMAIN sent}
    \cup {Start(i) + ReqLen(sent[i]) - 1 : i \in {j \in DOMAIN sent : sent[j].blen > 0}}

\* The command tokenize finds in the line starting at stream position p:
\* a request's own command if a request starts there, else none.
CmdAt(p) ==
    IF \E i \in DOMAIN sent : Start(i) = p
    THEN sent[CHOOSE i \in DOMAIN sent : Start(i) = p].cmd
    ELSE "unknown"
BlenAt(p) == sent[CHOOSE i \in DOMAIN sent : Start(i) = p].blen

\* A positions s .. s + n - 1 written over buf from index at + 1 on; like
\* memcpy and recv, nothing is written past the end of the buffer.
CopyIn(buf, at, s, n) ==
    [j \in DOMAIN buf |-> IF j > at /\ j <= at + n THEN s + (j - at - 1) ELSE buf[j]]

\* The response a handler formats is [hdr, body]: resHeaderSize_ and
\* resBodySize_ after it.  doIncr, doDecr, doDelete, doDump, doLoad and
\* the unknown command format one line and no body, whatever shmc_* said.
LineReply == [hdr |-> HdrLen, body |-> 0]

\* doGet: a hit formats "VALUE ..." and hands shmc_get's copy of the value
\* on as the body; a miss or an error formats one line.
GetReplies == {[hdr |-> HdrLen, body |-> n] : n \in ValueLens} \cup {LineReply}

\* doStats: the STAT lines become the body and no header is formatted, so
\* resHeaderSize_ keeps the previous command's; malloc failing formats
\* "SERVER_ERROR out of memory".
StatsReplies == {[hdr |-> resHeaderSize, body |-> StatsLen], LineReply}

Replies(c) ==
    CASE c = "get" -> GetReplies
      [] c = "stats" -> StatsReplies
      [] OTHER -> {LineReply}

\* em_->updateEvent(this, ev): on failure the connection closes.
UpdateEvent(ev, onOk) ==
    \/ interest' = ev /\ state' = onOk
    \/ EpollCanFail /\ UNCHANGED interest /\ state' = "Close"

Init ==
    /\ state = "Pending" /\ interest = "IN" /\ dm = "stop"
    /\ sent = <<>> /\ arrived = 0 /\ eof = FALSE /\ streamEnd = 0 /\ rst = FALSE
    /\ consumed = 0 /\ hdrBytes = 0
    /\ bodyBuf = <<>> /\ bodySize = 0 /\ bodyBytes = 0 /\ bodyStart = 0
    /\ resHeaderSize = 0 /\ resBodySize = 0 /\ outq = 0
    /\ lastSet = NoSet

-----------------------------------------------------------------------------
(* The client and the network.                                            *)

Send ==
    /\ Len(sent) < MaxRequests /\ ~eof /\ ~rst
    /\ \E r \in Requests : sent' = Append(sent, r)
    /\ UNCHANGED <<state, interest, dm, arrived, eof, streamEnd, rst, consumed, hdrBytes,
                   bodyBuf, bodySize, bodyBytes, bodyStart, resHeaderSize,
                   resBodySize, outq, lastSet>>

Deliver ==
    /\ arrived < Written
    /\ \E n \in arrived + 1 .. Written : arrived' = n
    /\ UNCHANGED <<state, interest, dm, sent, eof, streamEnd, rst, consumed, hdrBytes,
                   bodyBuf, bodySize, bodyBytes, bodyStart, resHeaderSize,
                   resBodySize, outq, lastSet>>

\* The client shuts down its side, perhaps in the middle of a request.
Shutdown ==
    /\ ~eof /\ eof' = TRUE
    /\ \E n \in arrived .. Total : streamEnd' = n
    /\ UNCHANGED <<state, interest, dm, sent, arrived, rst, consumed, hdrBytes,
                   bodyBuf, bodySize, bodyBytes, bodyStart, resHeaderSize,
                   resBodySize, outq, lastSet>>

Reset ==
    /\ ~rst /\ rst' = TRUE
    /\ UNCHANGED <<state, interest, dm, sent, arrived, eof, streamEnd, consumed, hdrBytes,
                   bodyBuf, bodySize, bodyBytes, bodyStart, resHeaderSize,
                   resBodySize, outq, lastSet>>

Drain ==
    /\ outq > 0
    /\ \E n \in 0 .. outq - 1 : outq' = n
    /\ UNCHANGED <<state, interest, dm, sent, arrived, eof, streamEnd, rst, consumed, hdrBytes,
                   bodyBuf, bodySize, bodyBytes, bodyStart, resHeaderSize,
                   resBodySize, lastSet>>

Client == Send \/ Deliver \/ Shutdown \/ Reset \/ Drain

-----------------------------------------------------------------------------
(* The connection's handlers.                                             *)

\* epoll reports the registered event, or the last handler said DmGoOn.
\* The socket is readable when bytes or the FIN are there, or on a reset.
Ready ==
    \/ dm = "goon"
    \/ interest = "IN" /\ (arrived > consumed \/ (eof /\ arrived = streamEnd) \/ rst)
    \/ interest = "OUT" /\ (outq < SndBuf \/ rst)

\* Fault variant: recv() == 0 taken for EAGAIN, the nn == 0 branch lost.
RecvEndNoEof(filled, want) ==
    IF filled = want THEN "full" ELSE "again"

\* How the recv loop ended after it brought the bytes up to filled of want:
\* the buffer is full (nn > 0), the peer closed (nn == 0), or EAGAIN.
RecvEnd(filled, want) ==
    IF filled = want THEN "full"
    ELSE IF eof /\ arrived = streamEnd THEN "eof" ELSE "again"

GoClose ==
    /\ state' = "Close" /\ dm' = "goon"

\* Fault variant: reqBodyCapability_ < nval + 1, one byte short.
StartBodyShort(start, count, hb, nn) ==
    LET size  == BlenAt(start)
        fresh == IF Len(bodyBuf) < size - 1 THEN [j \in 1 .. size |-> Junk] ELSE bodyBuf
        extra == start + hb - count
        nb    == IF extra > 0 THEN Min2(extra, size) ELSE bodyBytes
    IN /\ bodyBuf' = IF extra > 0 THEN CopyIn(fresh, 0, count, nb) ELSE fresh
       /\ bodyBytes' = nb /\ bodySize' = size /\ bodyStart' = count
       /\ hdrBytes' = hb
       /\ state' = "NRead"
       /\ dm' = IF nb = size \/ nn # "again" THEN "goon" ELSE "stop"
       /\ UNCHANGED <<interest, resHeaderSize, resBodySize, lastSet>>

\* The data block of a storage command follows its line: a reqBody_ that
\* is too small is replaced by a fresh one of nval + 2 bytes, and the block
\* bytes already in reqHeader_ are copied to it (at most reqBodySize_).
\* When none are, reqBodyBytes_ keeps its value.
StartBody(start, count, hb, nn) ==
    LET size  == BlenAt(start)
        fresh == IF Len(bodyBuf) < size THEN [j \in 1 .. size |-> Junk] ELSE bodyBuf
        extra == start + hb - count
        nb    == IF extra > 0 THEN Min2(extra, size) ELSE bodyBytes
    IN /\ bodyBuf' = IF extra > 0 THEN CopyIn(fresh, 0, count, nb) ELSE fresh
       /\ bodyBytes' = nb /\ bodySize' = size /\ bodyStart' = count
       /\ hdrBytes' = hb
       /\ state' = "NRead"
       /\ dm' = IF nb = size \/ nn # "again" THEN "goon" ELSE "stop"
       /\ UNCHANGED <<interest, resHeaderSize, resBodySize, lastSet>>

\* The dispatch on the tokens of the line [start, e]: a storage command
\* goes on to its data block, quit closes, anything else (an unknown
\* command included) formats its response, drops whatever else is in
\* reqHeader_ and registers EPOLLOUT.
Dispatch(start, e, hb, nn) ==
    LET c == CmdAt(start) IN
    \/ c \in StoreCmds /\ StartBody(start, e + 1, hb, nn)
    \/ c = "quit" /\ GoClose /\ hdrBytes' = hb
       /\ UNCHANGED <<interest, bodyBuf, bodySize, bodyBytes, bodyStart,
                      resHeaderSize, resBodySize, lastSet>>
    \/ c \notin StoreCmds \cup {"quit"}
       /\ \E rep \in Replies(c) :
             resHeaderSize' = rep.hdr /\ resBodySize' = rep.body
       /\ hdrBytes' = 0 /\ dm' = "goon"
       /\ UpdateEvent("OUT", "Write")
       /\ UNCHANGED <<bodyBuf, bodySize, bodyBytes, bodyStart, lastSet>>

\* Fault variant: recv asks for REQ_HEADER_SIZE bytes whatever is buffered.
RecvHeaderWhole == ReqHeaderSize

\* recv as much as fits into reqHeader_; then, on a full line, dispatch it;
\* on a full buffer without '\n', answer "ERROR request header too long"
\* and forget the buffer; otherwise wait for more.
RecvHeaderRoom == ReqHeaderSize - hdrBytes

OnRead ==
    /\ state = "Read" /\ Ready
    /\ UNCHANGED <<sent, arrived, eof, streamEnd, rst, outq>>
    /\ \/ rst /\ GoClose
          /\ UNCHANGED <<interest, consumed, hdrBytes, bodyBuf, bodySize, bodyBytes,
                         bodyStart, resHeaderSize, resBodySize, lastSet>>
       \/ ~rst
          /\ LET k     == Min2(RecvHeaderRoom, arrived - consumed)
                 hb    == hdrBytes + k
                 start == consumed - hdrBytes
                 nn    == RecvEnd(hb, ReqHeaderSize)
                 nls   == {p \in Newlines : start <= p /\ p < start + hb}
             IN /\ consumed' = consumed + k
                /\ \/ nn = "eof" /\ GoClose /\ hdrBytes' = hb
                      /\ UNCHANGED <<interest, bodyBuf, bodySize, bodyBytes, bodyStart,
                                     resHeaderSize, resBodySize, lastSet>>
                   \/ nn # "eof" /\ nls = {} /\ hb < ReqHeaderSize
                      /\ dm' = "stop" /\ hdrBytes' = hb
                      /\ UNCHANGED <<state, interest, bodyBuf, bodySize, bodyBytes,
                                     bodyStart, resHeaderSize, resBodySize, lastSet>>
                   \/ nn # "eof" /\ nls = {} /\ hb = ReqHeaderSize
                      /\ resHeaderSize' = HdrLen /\ hdrBytes' = 0 /\ dm' = "goon"
                      /\ UpdateEvent("OUT", "Write")
                      /\ UNCHANGED <<bodyBuf, bodySize, bodyBytes, bodyStart,
                                     resBodySize, lastSet>>
                   \/ nn # "eof" /\ nls # {}
                      /\ Dispatch(start, Min(nls), hb, nn)

\* Fault variant: reqBodyBytes_ is not reset after the command ran.
ExecuteKeepCount(buf) ==
    /\ lastSet' = [from |-> bodyStart, val |-> SubSeq(buf, 1, bodySize - 2)]
    /\ resHeaderSize' = HdrLen
    /\ hdrBytes' = 0
    /\ dm' = "goon"
    /\ UpdateEvent("OUT", "Write")
    /\ UNCHANGED <<bodyBytes, resBodySize>>

\* The end of onNRead: the command of ctype_ runs (doSet .. doAppend hand
\* the first reqBodySize_ - 2 bytes of reqBody_ to shmc_*), both request
\* counters are reset and EPOLLOUT is registered.
Execute(buf) ==
    /\ lastSet' = [from |-> bodyStart, val |-> SubSeq(buf, 1, bodySize - 2)]
    /\ resHeaderSize' = HdrLen
    /\ hdrBytes' = 0 /\ bodyBytes' = 0
    /\ dm' = "goon"
    /\ UpdateEvent("OUT", "Write")
    /\ UNCHANGED resBodySize

\* recv the rest of the data block into reqBody_, then run the command.
OnNRead ==
    /\ state = "NRead" /\ Ready
    /\ UNCHANGED <<sent, arrived, eof, streamEnd, rst, outq, bodySize, bodyStart>>
    /\ \/ bodyBytes = bodySize
          /\ Execute(bodyBuf) /\ UNCHANGED <<consumed, bodyBuf>>
       \/ bodyBytes # bodySize /\ rst /\ GoClose
          /\ UNCHANGED <<interest, consumed, hdrBytes, bodyBuf, bodyBytes,
                         resHeaderSize, resBodySize, lastSet>>
       \/ bodyBytes # bodySize /\ ~rst
          /\ LET k   == Min2(bodySize - bodyBytes, arrived - consumed)
                 buf == CopyIn(bodyBuf, bodyBytes, consumed, k)
                 nn  == RecvEnd(bodyBytes + k, bodySize)
             IN /\ consumed' = consumed + k
                /\ bodyBuf' = buf
                /\ \/ nn = "full" /\ Execute(buf)
                   \/ nn = "eof" /\ GoClose /\ bodyBytes' = bodyBytes + k
                      /\ UNCHANGED <<interest, hdrBytes, resHeaderSize, resBodySize, lastSet>>
                   \/ nn = "again" /\ dm' = "stop" /\ bodyBytes' = bodyBytes + k
                      /\ UNCHANGED <<state, interest, hdrBytes, resHeaderSize,
                                     resBodySize, lastSet>>

\* writev the header, and the body with "\r\nEND\r\n" if there is one,
\* until all is written or writev fails.  The loop runs while the client
\* does not read, so it writes what the send buffer has room for.  All
\* written: free the body and register EPOLLIN.  Not all written: errno is
\* EAGAIN (or EPIPE after a reset), never -1, so the connection closes; the
\* offsets it saves are never read again.
OnWrite ==
    /\ state = "Write" /\ Ready
    /\ UNCHANGED <<sent, arrived, eof, streamEnd, rst, consumed, hdrBytes, bodyBuf,
                   bodySize, bodyBytes, bodyStart, resHeaderSize, lastSet>>
    /\ LET total == resHeaderSize + IF resBodySize > 0 THEN resBodySize + TailLen ELSE 0
       IN \/ /\ ~rst /\ total <= SndBuf - outq
             /\ outq' = outq + total /\ resBodySize' = 0
             /\ \/ interest' = "IN" /\ state' = "Read" /\ dm' = "stop"
                \/ EpollCanFail /\ UNCHANGED interest /\ GoClose
          \/ /\ rst \/ total > SndBuf - outq
             /\ outq' = (IF rst THEN outq ELSE SndBuf)
             /\ GoClose /\ UNCHANGED <<interest, resBodySize>>

\* onListening of the listening McConn, run while the backlog is not
\* empty: accept, make the socket non-blocking, new McConn in Read, and
\* addEvent(EPOLLIN); when that fails the object is deleted, which closes
\* the socket.  (accept failing, with EMFILE say, leaves the connection in
\* the backlog for the next iteration; fcntl cannot fail on the descriptor
\* accept just returned.)
OnListening ==
    /\ state = "Pending"
    /\ \/ state' = "Read"
       \/ EpollCanFail /\ state' = "Closed"
    /\ UNCHANGED <<interest, dm, sent, arrived, eof, streamEnd, rst, consumed, hdrBytes,
                   bodyBuf, bodySize, bodyBytes, bodyStart, resHeaderSize,
                   resBodySize, outq, lastSet>>

\* delete this: the socket is closed and the connection takes no more steps.
OnClose ==
    /\ state = "Close"
    /\ state' = "Closed" /\ dm' = "stop"
    /\ UNCHANGED <<interest, sent, arrived, eof, streamEnd, rst, consumed, hdrBytes,
                   bodyBuf, bodySize, bodyBytes, bodyStart, resHeaderSize,
                   resBodySize, outq, lastSet>>

Server == OnListening \/ OnRead \/ OnNRead \/ OnWrite \/ OnClose

Next == Server \/ Client

Spec == Init /\ [][Next]_vars

-----------------------------------------------------------------------------

TypeOK ==
    /\ state \in {"Pending", "Read", "NRead", "Write", "Close", "Closed"}
    /\ interest \in {"IN", "OUT"} /\ dm \in {"goon", "stop"}
    /\ arrived \in 0 .. Total /\ consumed \in 0 .. arrived
    /\ hdrBytes \in 0 .. ReqHeaderSize
    /\ outq \in 0 .. SndBuf

\* What onRead copies from reqHeader_ and onNRead recvs into reqBody_ stays
\* inside the buffer malloc'ed for it: reqBodyBytes_ <= reqBodySize_ <=
\* reqBodyCapability_, over every sequence of data blocks of any sizes.
BodyInBounds ==
    bodyBytes <= bodySize /\ bodySize <= Len(bodyBuf)

\* The value a storage command hands to shmc_set/add/replace/prepend/append
\* is exactly the nval bytes the client sent after that command's line,
\* however the line and its data block were split between reads, between
\* reqHeader_ and reqBody_, and whatever came before on the connection.
BodyAssembled ==
    lastSet.val = [j \in 1 .. Len(lastSet.val) |-> lastSet.from + j - 1]


\* The requests of the client include quit.
QuitSent == \E i \in DOMAIN sent : sent[i].cmd = "quit"

\* The server closes a connection only when the client asked for it or
\* went away: quit, the end of its stream, or a reset.  spec.md 4.9 and 7:
\* a short write is resumed by adjusting the iovecs on the next readiness
\* event, and EAGAIN suspends the state machine; only a fatal error closes
\* (epoll_ctl failing is the one the model has, and EpollCanFail rules it
\* out).  onWrite's close after a partial writev is what this is about.
ClosesOnlyOnPeer ==
    state \in {"Close", "Closed"} => eof \/ rst \/ QuitSent

=============================================================================
