------------------------- MODULE MCShmcSlabClasses -------------------------
(***************************************************************************)
(* The default attributes of SHMC_ATTR_INITIALIZER on an LP64 build:       *)
(* sizeof(shmc_item_t) = 64, item_size_min 64, factor 2, item_size_max     *)
(* 1 MiB, ALIGN_BYTES 8.  The requests are the sizes around the last class *)
(* and the largest size item_size_ok accepts.                              *)
(***************************************************************************)
EXTENDS ShmcSlabClasses

LastClass == SlabSize(SlabsCount - 1)

MCRequests == {HdrSize + ItemSizeMin, LastClass, LastClass + 1, ItemSizeMax - 1}
=============================================================================
