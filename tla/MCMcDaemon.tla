----------------------------- MODULE MCMcDaemon -----------------------------
(* McDaemon with the connection of MCMcConn: a 5-byte request header     *)
(* buffer, lines of 1, 2 and 6 bytes, data blocks of 2 to 4 bytes.        *)
EXTENDS McDaemon

CONSTANT JunkByte

MCRequests ==
    { [cmd |-> "set",   hlen |-> 2, blen |-> 3],
      [cmd |-> "set",   hlen |-> 2, blen |-> 4],
      [cmd |-> "get",   hlen |-> 2, blen |-> 0],
      [cmd |-> "get",   hlen |-> 6, blen |-> 0],
      [cmd |-> "stats", hlen |-> 1, blen |-> 0],
      [cmd |-> "quit",  hlen |-> 1, blen |-> 0] }
=============================================================================
