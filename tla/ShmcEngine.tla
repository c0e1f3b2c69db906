----------------------------- MODULE ShmcEngine -----------------------------
(***************************************************************************)
(* The shmc cache engine of src/shmc.c: the mapped region's slab free      *)
(* lists, per-class LRU lists and hash chains, and the *_nolock operations *)
(* on them.                                                                *)
(*                                                                         *)
(* The region is one record, shm.  A chunk is named by its address: the    *)
(* chunk carved at raw offset o has address o + 1, so that 0 is the null   *)
(* relative pointer.  Every pointer field of the region (next, prev,       *)
(* h_next, heads, tails, buckets, free_item) holds such an address, which  *)
(* is what A2R/R2A make of a pointer.                                      *)
(*                                                                         *)
(* Each public operation runs under the primary lock (shmc_get/getf under  *)
(* the read lock, every other one under the write lock), so in this module *)
(* one call is one atomic step.  A helper X(m, ...) returns the region     *)
(* after the C function X has run on m; an operation composes them in the  *)
(* order the C code calls them.                                            *)
(***************************************************************************)
EXTENDS ShmcSlab, ShmcCounter, Integers, Sequences, FiniteSets

CONSTANTS
    Keys,           \* the keys clients use (model values)
    NoKey,          \* the key bytes of a chunk no item has used yet
    KeyLen,         \* KeyLen[k] = nkey
    Hash,           \* Hash[k] = hash(key, nkey, 0)
    NBuckets,       \* attr->nbuckets
    MemLimit,       \* attr->mem_limit
    EvictToFree,    \* attr->evict_to_free
    DefaultCounter, \* attr->default_counter
    Flags,          \* the user flags clients pass
    Vals,           \* the values clients pass (sequences of symbols)
    Deltas,         \* the deltas clients pass to incr/decr
    BufSizes        \* the buffer sizes clients pass to getf

ASSUME EngineAssumption ==
    /\ NoKey \notin Keys
    /\ KeyLen \in [Keys -> Nat \ {0}]
    /\ Hash \in [Keys -> Nat]
    /\ NBuckets \in Nat \ {0}
    /\ EvictToFree \in BOOLEAN /\ DefaultCounter \in BOOLEAN

-----------------------------------------------------------------------------
(* The region.                                                             *)

Null == 0
Addr == 1 .. MemLimit           \* every address a chunk may have
Ptr == {Null} \cup Addr
Slots == 0 .. NBuckets - 1
NoClass == -1

\* The chunk header shmc_item_t, with the key and value bytes behind it:
\* nval is Len(val), key is the key the bytes spell.
ItemRec == [next : Ptr, prev : Ptr, h_next : Ptr, clsid : Int, nkey : Nat,
            flags : Nat, key : Keys \cup {NoKey}, val : Seq(STRING)]

\* Bytes of the file no chunk header has been written to: ftruncate fills
\* the file with zeroes.
ZeroItem == [next |-> Null, prev |-> Null, h_next |-> Null, clsid |-> 0,
             nkey |-> 0, flags |-> 0, key |-> NoKey, val |-> <<>>]

VARIABLES
    shm,    \* the mapped region: version, attr runtime fields, lists, arena
    last    \* the last call made on the engine, its inputs and its results

vars == <<shm, last>>

ItemSize(k, nval) == HdrSize + KeyLen[k] + nval

\* hv % shmc->attr->nbuckets
Slot(k) == Hash[k] % NBuckets

\* The one element of a singleton set.  A helper below names an
\* intermediate region x of value e by {F(x) : x \in {e}}: TLC computes e
\* once, where a LET definition would be computed again at each use.
The(S) == CHOOSE x \in S : TRUE

-----------------------------------------------------------------------------
(* Hash chains: assoc_find, assoc_insert, assoc_delete.                    *)

\* The walk of assoc_find from chunk p: the first chunk whose key is k and
\* the number of chunks visited.  fuel bounds the walk on a cyclic chain.
RECURSIVE Walk(_, _, _, _, _)
Walk(m, p, k, depth, fuel) ==
    IF p = Null \/ fuel = 0 THEN [it |-> Null, depth |-> depth]
    ELSE IF m.item[p].key = k THEN [it |-> p, depth |-> depth + 1]
    ELSE Walk(m, m.item[p].h_next, k, depth + 1, fuel - 1)

Lookup(m, k) == Walk(m, m.buckets[Slot(k)], k, 0, MemLimit)

\* The chunk assoc_find returns.
Find(m, k) == Lookup(m, k).it

\* The region after assoc_find: attr->max_depth keeps the longest walk.
AssocFind(m, k) ==
    LET d == Lookup(m, k).depth
    IN [m EXCEPT !.max_depth = IF d > @ THEN d ELSE @]

AssocInsert(m, k, it) ==
    [m EXCEPT !.nitems = @ + 1,
              !.item[it].h_next = m.buckets[Slot(k)],
              !.buckets[Slot(k)] = it]

\* The chunk whose h_next points at t, walking the chain from p.
RECURSIVE PredOf(_, _, _, _)
PredOf(m, p, t, fuel) ==
    IF p = Null \/ fuel = 0 \/ m.item[p].h_next = t THEN p
    ELSE PredOf(m, m.item[p].h_next, t, fuel - 1)

\* assoc_delete unlinks the first chunk of the chain with key k.
AssocDelete(m, k) ==
    LET t == Find(m, k)
        s == Slot(k)
        nxt == m.item[t].h_next
    IN IF t = Null THEN m
       ELSE [m EXCEPT !.nitems = @ - 1,
                      !.item[t].h_next = Null,
                      !.buckets[s] = IF @ = t THEN nxt ELSE @,
                      !.item = IF m.buckets[s] = t THEN @
                               ELSE [@ EXCEPT ![PredOf(m, m.buckets[s], t, MemLimit)].h_next = nxt]]

-----------------------------------------------------------------------------
(* LRU lists: item_link, item_unlink, item_relink.                         *)

ItemLink(m, it) ==
    LET c == m.item[it].clsid
        h == m.heads[c]
    IN [m EXCEPT !.item[it].prev = Null,
                 !.item[it].next = h,
                 !.item = IF h # Null THEN [@ EXCEPT ![h].prev = it] ELSE @,
                 !.heads[c] = it,
                 !.tails[c] = IF @ = Null THEN it ELSE @]

\* Fault variant: item_unlink without "if (*tail == item) *tail = item->prev".
ItemUnlinkKeepTail(m, it) ==
    LET c == m.item[it].clsid
        n == m.item[it].next
        p == m.item[it].prev
    IN [m EXCEPT !.heads[c] = IF @ = it THEN n ELSE @,
                 !.item = IF n # Null THEN [@ EXCEPT ![n].prev = p] ELSE @,
                 !.item = IF p # Null THEN [@ EXCEPT ![p].next = n] ELSE @]

\* item_unlink.  The item's own next and prev are read after the writes to
\* its neighbours, which leaves them unchanged since an item on a list is
\* not its own neighbour (LruWellFormed).
ItemUnlink(m, it) ==
    LET c == m.item[it].clsid
        n == m.item[it].next
        p == m.item[it].prev
    IN [m EXCEPT !.heads[c] = IF @ = it THEN n ELSE @,
                 !.tails[c] = IF @ = it THEN p ELSE @,
                 !.item = IF n # Null THEN [@ EXCEPT ![n].prev = p] ELSE @,
                 !.item = IF p # Null THEN [@ EXCEPT ![p].next = n] ELSE @]

ItemRelink(m, it) == The({ItemLink(u, it) : u \in {ItemUnlink(m, it)}})

-----------------------------------------------------------------------------
(* Slabs: carving a batch, item_free, item_alloc.                          *)

\* The addresses of the chunks of one batch of class id carved at mem_used,
\* in the order the loop pushes them.
BatchAddr(m, id, i) == m.mem_used + i * SlabSize(id) + 1

\* The batch loop of format_slabs and item_alloc: every chunk is pushed on
\* the free list of class id, and mem_used grows by the batch.  The field
\* batch is auxiliary: the class whose batch a chunk was carved from.
CarveBatch(m, id) ==
    LET n == SlabCount(id)
        A == {BatchAddr(m, id, i) : i \in 0 .. n - 1}
        NextOf(a) == IF a = BatchAddr(m, id, 0) THEN m.free[id] ELSE a - SlabSize(id)
    IN [m EXCEPT !.item = [a \in Addr |-> IF a \in A THEN [@[a] EXCEPT !.next = NextOf(a)]
                                          ELSE @[a]],
                 !.batch = [a \in Addr |-> IF a \in A THEN id ELSE @[a]],
                 !.free[id] = BatchAddr(m, id, n - 1),
                 !.mem_used = @ + BatchLen(id)]

\* item_free: the class is recomputed from nkey and nval.  Of a free chunk
\* only next and flags are read before they are written again (item_alloc
\* resets the header, the caller writes key and value), so the model
\* forgets the other bytes.
ItemFree(m, it) ==
    LET id == ItemClsid(HdrSize + m.item[it].nkey + Len(m.item[it].val))
    IN [m EXCEPT !.item[it] = [@ EXCEPT !.next = m.free[id], !.prev = Null,
                                        !.clsid = 0, !.key = NoKey, !.val = <<>>],
                 !.free[id] = it]

\* assoc_delete, item_unlink, item_free: how shmc_del_nolock, the eviction
\* of item_alloc, replace and incr/decr retire item it of key k.
Unstore(m, k, it) ==
    The({ItemFree(u, it) : u \in {ItemUnlink(d, it) : d \in {AssocDelete(m, k)}}})

\* Pop the head of the free list of class id: [m |-> region, it |-> chunk].
PopFree(m, id) ==
    IF m.free[id] # Null
    THEN [m |-> [m EXCEPT !.free[id] = m.item[m.free[id]].next], it |-> m.free[id]]
    ELSE [m |-> m, it |-> Null]

\* The LRU eviction of item_alloc: the tail leaves its chain and its list
\* and goes back to its free list.
EvictTail(m, t) == Unstore(m, m.item[t].key, t)

\* Fault variant: item_alloc carving a batch without checking mem_limit.
RefillUnbounded(m, id) == CarveBatch(m, id)

\* item_alloc with the free list of class id empty: carve a batch if the
\* arena has room, otherwise evict the class's LRU tail if eviction is on.
Refill(m, id) ==
    IF m.mem_used + BatchLen(id) < MemLimit THEN CarveBatch(m, id)
    ELSE IF EvictToFree /\ m.tails[id] # Null THEN EvictTail(m, m.tails[id])
    ELSE m

\* The end of item_alloc for key k: the chunk's header is reset; its key,
\* value and flags bytes are left for the caller (flags keep what the
\* chunk held before).
Claim(r, k, nval, id) ==
    IF r.it = Null THEN r
    ELSE [r EXCEPT !.m.item[r.it] = [@ EXCEPT !.clsid = id, !.next = Null,
                                              !.prev = Null, !.h_next = Null,
                                              !.nkey = KeyLen[k],
                                              !.val = [i \in 1 .. nval |-> Garbage]]]

\* item_alloc(shmc, nkey, nval) for key k: [m |-> region, it |-> chunk or
\* Null]: pop the free list, else refill it and pop again.
ItemAlloc(m, k, nval) ==
    LET id == ItemClsid(ItemSize(k, nval))
    IN The({Claim(r, k, nval, id) :
              r \in {IF m.free[id] # Null THEN PopFree(m, id)
                     ELSE The({PopFree(m2, id) : m2 \in {Refill(m, id)}})}})

-----------------------------------------------------------------------------
(* mmap_create: the region as format_mmap, the memsets and format_slabs   *)
(* leave it.                                                               *)

RECURSIVE FormatSlabs(_, _)
FormatSlabs(m, id) ==
    IF id = SlabsCount THEN m
    ELSE The({FormatSlabs(c, id + 1) : c \in {CarveBatch(m, id)}})

Formatted ==
    FormatSlabs([item |-> [a \in Addr |-> ZeroItem],
                 batch |-> [a \in Addr |-> NoClass],
                 heads |-> [c \in Classes |-> Null],
                 tails |-> [c \in Classes |-> Null],
                 buckets |-> [s \in Slots |-> Null],
                 free |-> [c \in Classes |-> Null],
                 mem_used |-> 0, nitems |-> 0, max_depth |-> 0], 0)

\* format_slabs asserts mem_used < mem_limit after every class.
ASSUME FormatFits == \A id \in Classes :
    (LET RECURSIVE Used(_) Used(i) == IF i < 0 THEN 0 ELSE BatchLen(i) + Used(i - 1)
     IN Used(id)) < MemLimit


-----------------------------------------------------------------------------
(* The operations.  Each returns [m |-> region, rc |-> result code] and,   *)
(* where the call hands results back, the value, flags or number.          *)

Res(m, rc) == [m |-> m, rc |-> rc, out |-> <<>>, flags |-> 0, num |-> 0]

\* Fault variant: shmc_del_nolock that never calls item_free.
DelNolockLeak(m0, k) ==
    LET it == Find(m0, k)
    IN IF it = Null THEN Res(AssocFind(m0, k), "NOTFOUND")
       ELSE Res(The({ItemUnlink(d, it) : d \in {AssocDelete(AssocFind(m0, k), k)}}), "OK")

\* shmc_del_nolock
DelNolock(m0, k) ==
    LET it == Find(m0, k)
    IN IF it = Null THEN Res(AssocFind(m0, k), "NOTFOUND")
       ELSE Res(Unstore(AssocFind(m0, k), k, it), "OK")

\* A hit of get or getf: the value and flags of item it.
Hit(m, it) == [Res(m, "OK") EXCEPT !.out = m.item[it].val, !.flags = m.item[it].flags]

\* shmc_get_nolock and shmc_getf_nolock: the relink runs under the
\* auxiliary mutex.  get copies into a malloc'ed buffer (malloc may fail),
\* getf into the caller's buffer of bufsize bytes.
GetNolock(m0, k, mallocOk) ==
    LET it == Find(m0, k)
    IN IF it = Null THEN Res(AssocFind(m0, k), "NOTFOUND")
       ELSE The({IF mallocOk THEN Hit(m1, it) ELSE Res(m1, "SYSTEM") :
                   m1 \in {ItemRelink(AssocFind(m0, k), it)}})

GetfNolock(m0, k, bufsize) ==
    LET it == Find(m0, k)
    IN IF it = Null THEN Res(AssocFind(m0, k), "NOTFOUND")
       ELSE The({IF bufsize >= Len(m1.item[it].val) THEN Hit(m1, it) ELSE Res(m1, "ESPACE") :
                   m1 \in {ItemRelink(AssocFind(m0, k), it)}})

\* Chain and link a fresh item it of key k (assoc_insert, item_link).
Inserted(m, k, it) == The({ItemLink(a, it) : a \in {AssocInsert(m, k, it)}})

\* Fault variant: shmc_set_nolock without the "delete first" call.
SetNolockNoDelete(m0, k, v, f) ==
    IF ~ItemSizeOk(ItemSize(k, Len(v))) THEN Res(m0, "ESIZE")
    ELSE The({IF r.it = Null THEN Res(r.m, "NOMEMORY")
              ELSE Res([Inserted(r.m, k, r.it) EXCEPT !.item[r.it].flags = f,
                                                      !.item[r.it].key = k,
                                                      !.item[r.it].val = v], "OK") :
                r \in {ItemAlloc(m0, k, Len(v))}})

\* shmc_set_nolock: delete first, then allocate, chain, link and copy.
SetNolock(m0, k, v, f) ==
    IF ~ItemSizeOk(ItemSize(k, Len(v))) THEN Res(m0, "ESIZE")
    ELSE The({IF r.it = Null THEN Res(r.m, "NOMEMORY")
              ELSE Res([Inserted(r.m, k, r.it) EXCEPT !.item[r.it].flags = f,
                                                      !.item[r.it].key = k,
                                                      !.item[r.it].val = v], "OK") :
                r \in {ItemAlloc(DelNolock(m0, k).m, k, Len(v))}})

\* shmc_add_nolock
AddNolock(m0, k, v, f) ==
    IF Find(m0, k) # Null THEN Res(AssocFind(m0, k), "EXIST")
    ELSE SetNolock(AssocFind(m0, k), k, v, f)

\* shmc_replace_nolock: in place when the new size keeps the class,
\* otherwise the old item is freed and the value set afresh.
ReplaceNolock(m0, k, v, f) ==
    LET it == Find(m0, k)
    IN IF it = Null THEN Res(AssocFind(m0, k), "NOTFOUND")
       ELSE The({IF m.item[it].clsid = ItemClsid(ItemSize(k, Len(v)))
                 THEN Res([ItemRelink(m, it) EXCEPT !.item[it].flags = f,
                                                    !.item[it].val = v], "OK")
                 ELSE SetNolock(Unstore(m, k, it), k, v, f) :
                   m \in {AssocFind(m0, k)}})

\* Fault variant: the offsets of the two copies swapped, so that prepend
\* appends and append prepends.
JoinSwapped(front, v, old) == IF front THEN old \o v ELSE v \o old

\* The value prepend (front) or append makes of v and the old value.
Join(front, v, old) == IF front THEN v \o old ELSE old \o v

\* The migrating path of prepend/append: the old item it leaves its chain
\* and list, the new one r.it takes its place and is filled, and the
\* flags are written to the old item ("item->flags = flags"), not the new.
Migrated(front, r, k, it, v, f) ==
    The({[m2 EXCEPT !.item[it].flags = f, !.item[r.it].key = k,
                    !.item[r.it].val = Join(front, v, m2.item[it].val)] :
           m2 \in {Inserted(u, k, r.it) : u \in {ItemUnlink(d, it) : d \in {AssocDelete(r.m, k)}}}})

\* shmc_prepend_nolock (front = TRUE) and shmc_append_nolock: in place when
\* the joined value keeps the class; otherwise a new item is allocated,
\* swapped in and filled, and the old one freed.
PendNolock(front, m0, k, v, f) ==
    LET it == Find(m0, k)
    IN IF it = Null THEN Res(AssocFind(m0, k), "NOTFOUND")
       ELSE The({LET old == m.item[it].val
                     n == Len(v) + Len(old)
                 IN IF m.item[it].clsid = ItemClsid(ItemSize(k, n))
                    THEN Res([ItemRelink(m, it) EXCEPT !.item[it].flags = f,
                                                       !.item[it].val = Join(front, v, old)], "OK")
                    ELSE IF ~ItemSizeOk(ItemSize(k, n)) THEN Res(m, "ESIZE")
                    ELSE The({IF r.it = Null THEN Res(r.m, "NOMEMORY")
                              ELSE Res(The({ItemFree(m3, it) :
                                              m3 \in {Migrated(front, r, k, it, v, f)}}), "OK") :
                                r \in {ItemAlloc(m, k, n)}}) :
                   m \in {AssocFind(m0, k)}})

\* shmc_arithmetic up to the counter item: [m |-> region, it |-> item]:
\* the old item itself when its value has UINT64_SIZE bytes, otherwise a
\* fresh item, after which the old one (if any) is retired.
CounterItem(m, k, old) ==
    IF old # Null /\ Len(m.item[old].val) = CounterLen THEN [m |-> m, it |-> old]
    ELSE The({IF old # Null /\ r.it # Null THEN [r EXCEPT !.m = Unstore(r.m, k, old)] ELSE r :
                r \in {ItemAlloc(m, k, CounterLen)}})

\* The rest of shmc_arithmetic once the counter item c.it exists: a fresh
\* item (c.it # old) is chained, linked, given the flags and spaces; then
\* sprintf writes the new number.
Counted(c, k, old, oldFlags, fin, newVal) ==
    LET new == c.it
    IN The({[Res([m2 EXCEPT !.item[new].val = Sprintf(newVal, @)], "OK")
               EXCEPT !.num = newVal, !.flags = IF fin = <<>> THEN 0 ELSE m2.item[new].flags] :
              m2 \in {IF new = old THEN c.m
                      ELSE [Inserted(c.m, k, new) EXCEPT
                              !.item[new].flags = IF fin = <<>> THEN oldFlags ELSE fin[1],
                              !.item[new].key = k, !.item[new].val = Spaces]}})

\* shmc_arithmetic: fin is the caller's flags pointer, <<>> for NULL or
\* <<f>> for a pointer to f.
Arithmetic(m0, k, delta, incr, fin) ==
    LET old == Find(m0, k)
    IN IF old = Null /\ ~DefaultCounter THEN Res(AssocFind(m0, k), "NOTFOUND")
       ELSE The({LET oldVal == IF old # Null THEN SafeStrtoull(m.item[old].val) ELSE 0
                     oldFlags == IF old # Null THEN m.item[old].flags ELSE 0
                     newVal == IF incr THEN (oldVal + delta) % CounterMod
                               ELSE IF oldVal < delta THEN 0 ELSE oldVal - delta
                 IN The({IF c.it = Null THEN Res(c.m, "NOMEMORY")
                         ELSE Counted(c, k, old, oldFlags, fin, newVal) :
                           c \in {CounterItem(m, k, old)}}) :
                   m \in {AssocFind(m0, k)}})

-----------------------------------------------------------------------------
(* The specification.                                                      *)

\* The chunks reached from p by following field fld, at most fuel of them.
RECURSIVE ListFrom(_, _, _, _)
ListFrom(m, p, fld, fuel) ==
    IF p = Null \/ fuel = 0 THEN <<>>
    ELSE <<p>> \o ListFrom(m, m.item[p][fld], fld, fuel - 1)

\* shmc_dump_nolock: one record <<key, val>> per item, walking the LRU list
\* of each class from its head, class 0 first.  fopen may fail.
RECURSIVE DumpFrom(_, _)
DumpFrom(m, c) ==
    IF c = SlabsCount THEN <<>>
    ELSE LET L == ListFrom(m, m.heads[c], "next", MemLimit + 1)
         IN [i \in DOMAIN L |-> <<m.item[L[i]].key, m.item[L[i]].val>>] \o DumpFrom(m, c + 1)

DumpNolock(m, openOk) ==
    IF openOk THEN [Res(m, "OK") EXCEPT !.out = DumpFrom(m, 0)] ELSE Res(m, "SYSTEM")

Call(op, k, v, f, fin, arg, res) ==
    [op |-> op, key |-> k, val |-> v, flags |-> f, fin |-> fin, arg |-> arg,
     rc |-> res.rc, out |-> res.out, oflags |-> res.flags, num |-> res.num]

Init ==
    /\ shm = Formatted
    /\ last = [op |-> "init", key |-> NoKey, val |-> <<>>, flags |-> 0, fin |-> <<>>,
               arg |-> 0, rc |-> "OK", out |-> <<>>, oflags |-> 0, num |-> 0]

Do(op, k, v, f, fin, arg, res) ==
    \E r \in {res} :
        /\ shm' = r.m
        /\ last' = Call(op, k, v, f, fin, arg, r)

ShmcGet(k) == \E ok \in BOOLEAN : Do("get", k, <<>>, 0, <<>>, 0, GetNolock(shm, k, ok))
ShmcGetf(k) == \E b \in BufSizes : Do("getf", k, <<>>, 0, <<>>, b, GetfNolock(shm, k, b))
ShmcSet(k, v, f) == Do("set", k, v, f, <<>>, 0, SetNolock(shm, k, v, f))
ShmcAdd(k, v, f) == Do("add", k, v, f, <<>>, 0, AddNolock(shm, k, v, f))
ShmcReplace(k, v, f) == Do("replace", k, v, f, <<>>, 0, ReplaceNolock(shm, k, v, f))
ShmcPrepend(k, v, f) == Do("prepend", k, v, f, <<>>, 0, PendNolock(TRUE, shm, k, v, f))
ShmcAppend(k, v, f) == Do("append", k, v, f, <<>>, 0, PendNolock(FALSE, shm, k, v, f))
ShmcDel(k) == Do("del", k, <<>>, 0, <<>>, 0, DelNolock(shm, k))
ShmcDump == \E ok \in BOOLEAN : Do("dump", NoKey, <<>>, 0, <<>>, 0, DumpNolock(shm, ok))

FlagPtrs == {<<>>} \cup {<<f>> : f \in Flags}
ShmcIncr(k) == \E d \in Deltas, fin \in FlagPtrs :
    Do("incr", k, <<>>, 0, fin, d, Arithmetic(shm, k, d, TRUE, fin))
ShmcDecr(k) == \E d \in Deltas, fin \in FlagPtrs :
    Do("decr", k, <<>>, 0, fin, d, Arithmetic(shm, k, d, FALSE, fin))

Next ==
    \/ ShmcDump
    \/ \E k \in Keys :
          \/ ShmcGet(k) \/ ShmcGetf(k) \/ ShmcDel(k) \/ ShmcIncr(k) \/ ShmcDecr(k)
          \/ \E v \in Vals, f \in Flags :
                ShmcSet(k, v, f) \/ ShmcAdd(k, v, f) \/ ShmcReplace(k, v, f)
                \/ ShmcPrepend(k, v, f) \/ ShmcAppend(k, v, f)

Spec == Init /\ [][Next]_vars

-----------------------------------------------------------------------------
(* Refinement: the entries a client can read are the chained items, each   *)
(* with its value and flags.                                               *)

StoreView ==
    [k \in {j \in Keys : Find(shm, j) # Null} |->
        [val |-> shm.item[Find(shm, k)].val, flags |-> shm.item[Find(shm, k)].flags]]

KV == INSTANCE ShmcKV WITH store <- StoreView

\* Every call the engine serves is a step the cache contract allows: a get
\* returns the value and flags the last successful store of the key left,
\* prepend/append join in the right order, incr/decr write the counter text,
\* each result code matches the entries, and a store loses another key only
\* by an eviction.  This is the round-trip law of spec.md 8 over every
\* interleaving of calls, in place, migrating and evicting.
KVRefinement == KV!Spec

-----------------------------------------------------------------------------
(* Properties.                                                             *)

\* A list that ends in Null after distinct chunks (no cycle).
Proper(m, L, fld) ==
    /\ L = <<>> \/ m.item[L[Len(L)]][fld] = Null
    /\ Cardinality({L[i] : i \in DOMAIN L}) = Len(L)

SetOf(L) == {L[i] : i \in DOMAIN L}

LruList(c) == ListFrom(shm, shm.heads[c], "next", MemLimit + 1)
Chain(s) == ListFrom(shm, shm.buckets[s], "h_next", MemLimit + 1)
FreeList(c) == ListFrom(shm, shm.free[c], "next", MemLimit + 1)

OnLru == UNION {SetOf(LruList(c)) : c \in Classes}
Chained == UNION {SetOf(Chain(s)) : s \in Slots}
OnFree == UNION {SetOf(FreeList(c)) : c \in Classes}
Carved == {a \in Addr : shm.batch[a] # NoClass}

TypeOK ==
    /\ shm.item \in [Addr -> ItemRec]
    /\ shm.heads \in [Classes -> Ptr] /\ shm.tails \in [Classes -> Ptr]
    /\ shm.free \in [Classes -> Ptr] /\ shm.buckets \in [Slots -> Ptr]
    /\ shm.mem_used \in 0 .. MemLimit
    /\ shm.nitems \in Nat /\ shm.max_depth \in Nat

\* Every class's LRU list is a proper doubly-linked list: head->prev and
\* tail->next are null, the backward links mirror the forward ones, the
\* forward walk ends at the tail, and it holds only items of that class.
\* item_link, item_unlink and item_relink keep it so across every
\* operation, eviction and migration.
LruWellFormed ==
    \A c \in Classes :
        LET L == LruList(c)
        IN /\ Proper(shm, L, "next")
           /\ (L = <<>>) = (shm.tails[c] = Null)
           /\ L # <<>> => shm.tails[c] = L[Len(L)]
           /\ \A i \in DOMAIN L :
                 /\ shm.item[L[i]].prev = (IF i = 1 THEN Null ELSE L[i - 1])
                 /\ shm.item[L[i]].clsid = c

\* Every hash chain is acyclic and holds only items whose key hashes to its
\* bucket, and no key is in the table twice: assoc_insert, assoc_delete and
\* the eviction inside item_alloc keep lookups exact.
HashWellFormed ==
    /\ \A s \in Slots :
          /\ Proper(shm, Chain(s), "h_next")
          /\ \A a \in SetOf(Chain(s)) : shm.item[a].key \in Keys /\ Slot(shm.item[a].key) = s
    /\ \A a, b \in Chained : a # b => shm.item[a].key # shm.item[b].key

\* Every carved chunk is either on the free list of the class it was carved
\* for, or an item linked into both a hash chain and the LRU list of its
\* class, whose size picks that class; never both, never neither.
\* attr->nitems counts the items.
ChunksPartitioned ==
    /\ \A c \in Classes :
          /\ Proper(shm, FreeList(c), "next")
          /\ \A a \in SetOf(FreeList(c)) : shm.batch[a] = c
    /\ Chained = OnLru
    /\ Chained \cap OnFree = {}
    /\ Chained \cup OnFree = Carved
    /\ \A a \in Chained :
          shm.batch[a] = shm.item[a].clsid
          /\ shm.item[a].clsid = ItemClsid(ItemSize(shm.item[a].key, Len(shm.item[a].val)))
    /\ shm.nitems = Cardinality(Chained)

=============================================================================
