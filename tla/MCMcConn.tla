------------------------------ MODULE MCMcConn ------------------------------
(* McConn scaled for TLC: a 5-byte request header buffer (REQ_HEADER_SIZE *)
(* is 312), lines of 1 or 2 bytes and one line of 6, data blocks of 2 to 4 *)
(* bytes (nval 0 to 2), so a line and its block overflow the buffer.      *)
EXTENDS McConn

CONSTANT JunkByte

MCRequests ==
    { [cmd |-> "set",   hlen |-> 2, blen |-> 3],
      [cmd |-> "set",   hlen |-> 2, blen |-> 4],
      [cmd |-> "get",   hlen |-> 2, blen |-> 0],
      [cmd |-> "get",   hlen |-> 6, blen |-> 0],
      [cmd |-> "stats", hlen |-> 1, blen |-> 0],
      [cmd |-> "quit",  hlen |-> 1, blen |-> 0] }
=============================================================================
