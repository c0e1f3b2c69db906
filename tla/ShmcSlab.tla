------------------------------ MODULE ShmcSlab ------------------------------
(***************************************************************************)
(* Size classes of the shmc slab allocator (src/shmc.c).                    *)
(*                                                                         *)
(* Pure operators only: the size of each class, how many classes there    *)
(* are, how many chunks one batch of a class holds and which class an item *)
(* of a given size is served from.  Sizes are in bytes; HdrSize stands for *)
(* sizeof(shmc_item_t).  The float growth factor is the rational           *)
(* FactorNum/FactorDen, and "size *= factor" truncates as the C conversion *)
(* back to size_t does.                                                    *)
(***************************************************************************)
EXTENDS Naturals

CONSTANTS
    HdrSize,        \* sizeof(shmc_item_t)
    ItemSizeMin,    \* attr->item_size_min
    ItemSizeMax,    \* attr->item_size_max
    FactorNum,      \* attr->item_size_factor = FactorNum / FactorDen ...
    FactorDen,      \* ... as given by the caller, before shmc_init clamps it
    AlignBytes      \* ALIGN_BYTES

ASSUME SlabAssumption ==
    /\ HdrSize \in Nat \ {0}
    /\ ItemSizeMin \in Nat
    /\ ItemSizeMax \in Nat \ {0}
    /\ FactorNum \in Nat \ {0} /\ FactorDen \in Nat \ {0}
    /\ AlignBytes \in Nat \ {0}

\* shmc_init: "if (attr->item_size_factor <= 1.5) attr->item_size_factor = 1.5"
Factor ==
    IF 2 * FactorNum <= 3 * FactorDen THEN <<3, 2>> ELSE <<FactorNum, FactorDen>>

\* align_size(size)
AlignSize(size) ==
    IF size % AlignBytes # 0 THEN size + AlignBytes - (size % AlignBytes) ELSE size

\* One turn of the loops of count_of_slabs and format_slabs:
\* size = align_size(size); size *= item_size_factor.
GrowSize(size) == (AlignSize(size) * Factor[1]) \div Factor[2]

\* count_of_slabs(attr): classes are generated while size < item_size_max.
RECURSIVE CountFrom(_)
CountFrom(size) ==
    IF size < ItemSizeMax THEN 1 + CountFrom(GrowSize(size)) ELSE 0

SlabsCount == CountFrom(HdrSize + ItemSizeMin)

Classes == 0 .. SlabsCount - 1

\* format_slabs: slabs[id].size, the aligned size reached after id turns.
RECURSIVE RawSize(_)
RawSize(id) == IF id = 0 THEN HdrSize + ItemSizeMin ELSE GrowSize(RawSize(id - 1))

SlabSize(id) == AlignSize(RawSize(id))

\* format_slabs: slabs[id].count = item_size_max / size.
SlabCount(id) == ItemSizeMax \div SlabSize(id)

\* The bytes one batch of class id takes from the arena (len in format_slabs
\* and item_alloc).
BatchLen(id) == SlabSize(id) * SlabCount(id)

\* item_size_ok(shmc, nkey, nval), applied to sizeof(item) + nkey + nval.
ItemSizeOk(size) == size < ItemSizeMax

\* item_clsid: "while (size > shmc->slabs[id].size) id++".  The loop has no
\* bound: past the last class it reads slabs[SlabsCount], memory after the
\* descriptor array.  The value SlabsCount stands for that out-of-range id.
RECURSIVE ClsidFrom(_, _)
ClsidFrom(size, id) ==
    IF id < SlabsCount /\ size > SlabSize(id) THEN ClsidFrom(size, id + 1) ELSE id

ItemClsid(size) == ClsidFrom(size, 0)

=============================================================================
