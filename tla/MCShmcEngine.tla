---------------------------- MODULE MCShmcEngine ----------------------------
(***************************************************************************)
(* A small region for TLC.  Sizes are scaled down from the defaults of     *)
(* SHMC_ATTR_INITIALIZER: a 2-byte item header, 1-byte keys, a 1-byte       *)
(* minimum, factor 2 and a 7-byte maximum give two classes, 3-byte chunks  *)
(* in batches of 2 and one 6-byte chunk per batch.  The formatted region    *)
(* uses 12 bytes; a 19-byte arena leaves room for exactly one more batch,   *)
(* after which allocation must evict or fail.                              *)
(***************************************************************************)
EXTENDS ShmcEngine, TLC

CONSTANTS k1, k2, k3

MCKeys == {k1, k2}
MCKeyLen == [k \in MCKeys |-> 1]
\* one bucket: every key shares a chain
MCHash == [k \in MCKeys |-> 0]
\* one data byte: enough for the shape of the region
MCVals == {<<>>, <<"a">>}
\* two data bytes: prepend and append give different values
MCVals2 == {<<>>, <<"a">>, <<"b">>}

\* The call record never enables or disables a step, so states that differ
\* only in it are the same state for the invariants of the region.
RegionView == shm
=============================================================================
