--------------------------- MODULE ShmcSlabClasses ---------------------------
(***************************************************************************)
(* The slab classes a region is formatted with, against the item sizes     *)
(* the engine accepts.  A caller's request is the size                     *)
(* sizeof(shmc_item_t) + nkey + nval of one set, replace, prepend, append  *)
(* or incr; item_size_ok lets it through when it is below item_size_max,   *)
(* and item_alloc then serves it from class item_clsid(size).              *)
(***************************************************************************)
EXTENDS ShmcSlab

CONSTANT Requests   \* the request sizes callers make

VARIABLE size       \* the size of the current request

Init == size \in Requests

\* One request after another.
Next == size' \in Requests

Spec == Init /\ [][Next]_size

\* Every request item_size_ok accepts is served by a class of the region:
\* the scan of item_clsid stops inside slabs[0 .. slabs_count - 1].
AcceptedHasClass == ItemSizeOk(size) => ItemClsid(size) < SlabsCount

=============================================================================
