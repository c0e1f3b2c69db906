------------------------------- MODULE ShmcKV -------------------------------
(***************************************************************************)
(* What the shmc engine promises its callers (spec.md 4.5 and 8): a map    *)
(* from keys to a value and 32-bit user flags, and the result code of each *)
(* call.  Memory is not visible here, so where the engine may run out of   *)
(* it the contract allows NOMEMORY, and where eviction is on it allows a   *)
(* store to drop at most one other key.                                    *)
(*                                                                         *)
(* last records each call, its inputs and results, exactly as the engine   *)
(* module ShmcEngine records them, so that a refinement check compares     *)
(* the results as well as the stored data.                                 *)
(***************************************************************************)
EXTENDS ShmcCounter, Naturals, Sequences, SequencesExt

CONSTANTS
    Keys, NoKey, KeyLen,
    HdrSize,        \* sizeof(shmc_item_t)
    ItemSizeMax,    \* attr->item_size_max
    EvictToFree, DefaultCounter,
    Flags, Vals, Deltas, BufSizes

VARIABLES
    store,  \* the entries: a function from the keys present to [val, flags]
    last    \* the last call, its inputs and results

vars == <<store, last>>

\* A request is accepted when sizeof(item) + nkey + nval < item_size_max.
Fits(k, n) == HdrSize + KeyLen[k] + n < ItemSizeMax

Entry(v, f) == [val |-> v, flags |-> f]

Put(s, k, e) == [j \in DOMAIN s \cup {k} |-> IF j = k THEN e ELSE s[j]]
Drop(s, k) == [j \in DOMAIN s \ {k} |-> s[j]]

\* The stores left after the allocation for key k: eviction, when it is on,
\* removes at most one other entry.
Evicted(s, k) ==
    {s} \cup (IF EvictToFree THEN {Drop(s, j) : j \in DOMAIN s \ {k}} ELSE {})

\* store' is s with k set to e after at most one eviction.
StoredAs(s, k, e) == \E s1 \in Evicted(s, k) : store' = Put(s1, k, e)

Rec(op, k, v, f, fin, arg, rc, out, of, num) ==
    [op |-> op, key |-> k, val |-> v, flags |-> f, fin |-> fin, arg |-> arg,
     rc |-> rc, out |-> out, oflags |-> of, num |-> num]

\* A call that returns only a result code.
Ret(op, k, v, f, rc) == last' = Rec(op, k, v, f, <<>>, 0, rc, <<>>, 0, 0)

Present(k) == k \in DOMAIN store

Init ==
    /\ store = [k \in {} |-> Entry(<<>>, 0)]
    /\ last = Rec("init", NoKey, <<>>, 0, <<>>, 0, "OK", <<>>, 0, 0)

\* get: the value and flags of a hit; SYSTEM when the copy cannot be
\* allocated.
Get(k) ==
    /\ \/ ~Present(k) /\ Ret("get", k, <<>>, 0, "NOTFOUND")
       \/ Present(k) /\ Ret("get", k, <<>>, 0, "SYSTEM")
       \/ Present(k) /\ last' = Rec("get", k, <<>>, 0, <<>>, 0, "OK", store[k].val,
                                    store[k].flags, 0)
    /\ store' = store

\* getf into a buffer of b bytes: ESPACE when the value does not fit.
Getf(k, b) ==
    /\ \/ ~Present(k) /\ last' = Rec("getf", k, <<>>, 0, <<>>, b, "NOTFOUND", <<>>, 0, 0)
       \/ Present(k) /\ b < Len(store[k].val)
          /\ last' = Rec("getf", k, <<>>, 0, <<>>, b, "ESPACE", <<>>, 0, 0)
       \/ Present(k) /\ b >= Len(store[k].val)
          /\ last' = Rec("getf", k, <<>>, 0, <<>>, b, "OK", store[k].val, store[k].flags, 0)
    /\ store' = store

\* set: a request too large changes nothing; otherwise the old entry is
\* deleted first, so running out of memory leaves the key absent.
SetAs(op, k, v, f) ==
    \/ ~Fits(k, Len(v)) /\ Ret(op, k, v, f, "ESIZE") /\ store' = store
    \/ Fits(k, Len(v)) /\ Ret(op, k, v, f, "OK") /\ StoredAs(Drop(store, k), k, Entry(v, f))
    \/ Fits(k, Len(v)) /\ Ret(op, k, v, f, "NOMEMORY") /\ store' = Drop(store, k)

Set(k, v, f) == SetAs("set", k, v, f)

Add(k, v, f) ==
    \/ Present(k) /\ Ret("add", k, v, f, "EXIST") /\ store' = store
    \/ ~Present(k) /\ SetAs("add", k, v, f)

\* replace: a present key is overwritten, or freed and set afresh, so a
\* failure removes it.
Replace(k, v, f) ==
    \/ ~Present(k) /\ Ret("replace", k, v, f, "NOTFOUND") /\ store' = store
    \/ Present(k) /\ Fits(k, Len(v)) /\ Ret("replace", k, v, f, "OK")
       /\ StoredAs(store, k, Entry(v, f))
    \/ Present(k) /\ ~Fits(k, Len(v)) /\ Ret("replace", k, v, f, "ESIZE")
       /\ store' = Drop(store, k)
    \/ Present(k) /\ Fits(k, Len(v)) /\ Ret("replace", k, v, f, "NOMEMORY")
       /\ store' = Drop(store, k)

\* prepend and append: the joined value with the new flags; a failure
\* changes nothing.
Joined(front, v, old) == IF front THEN v \o old ELSE old \o v

Pend(op, front, k, v, f) ==
    \/ ~Present(k) /\ Ret(op, k, v, f, "NOTFOUND") /\ store' = store
    \/ Present(k)
       /\ LET j == Joined(front, v, store[k].val)
          IN \/ Fits(k, Len(j)) /\ Ret(op, k, v, f, "OK") /\ StoredAs(store, k, Entry(j, f))
             \/ ~Fits(k, Len(j)) /\ Ret(op, k, v, f, "ESIZE") /\ store' = store
             \/ Fits(k, Len(j)) /\ Ret(op, k, v, f, "NOMEMORY") /\ store' = store

\* incr and decr: the counter text is the decimal of the new number over
\* the old CounterLen bytes, or over spaces when a fresh counter item is
\* made; the caller's flags (fin = <<f>>) are taken only by a fresh item.
Arith(op, k, d, fin) ==
    LET present == Present(k)
        inPlace == present /\ Len(store[k].val) = CounterLen
        oldVal == IF present THEN SafeStrtoull(store[k].val) ELSE 0
        newVal == IF op = "incr" THEN (oldVal + d) % CounterMod
                  ELSE IF oldVal < d THEN 0 ELSE oldVal - d
        base == IF inPlace THEN store[k].val ELSE Spaces
        kept == IF present THEN store[k].flags ELSE 0
        newFlags == IF fin # <<>> /\ ~inPlace THEN fin[1] ELSE kept
    IN \/ ~present /\ ~DefaultCounter
          /\ last' = Rec(op, k, <<>>, 0, fin, d, "NOTFOUND", <<>>, 0, 0) /\ store' = store
       \/ (present \/ DefaultCounter)
          /\ last' = Rec(op, k, <<>>, 0, fin, d, "NOMEMORY", <<>>, 0, 0) /\ store' = store
       \/ (present \/ DefaultCounter)
          /\ last' = Rec(op, k, <<>>, 0, fin, d, "OK", <<>>,
                         IF fin = <<>> THEN 0 ELSE newFlags, newVal)
          /\ StoredAs(store, k, Entry(Sprintf(newVal, base), newFlags))

Del(k) ==
    \/ ~Present(k) /\ Ret("del", k, <<>>, 0, "NOTFOUND") /\ store' = store
    \/ Present(k) /\ Ret("del", k, <<>>, 0, "OK") /\ store' = Drop(store, k)

\* dump: every entry once, as <<key, val>>, in some order; the flags are
\* not written.  Opening the file may fail.
Dump ==
    /\ \/ Ret("dump", NoKey, <<>>, 0, "SYSTEM")
       \/ \E o \in SetToSeqs(DOMAIN store) :
             last' = Rec("dump", NoKey, <<>>, 0, <<>>, 0, "OK",
                         [i \in DOMAIN o |-> <<o[i], store[o[i]].val>>], 0, 0)
    /\ store' = store

FinPtrs == {<<>>} \cup {<<f>> : f \in Flags}

Next ==
    \/ Dump
    \/ \E k \in Keys :
          \/ Get(k) \/ Del(k)
          \/ \E b \in BufSizes : Getf(k, b)
          \/ \E d \in Deltas, fin \in FinPtrs : Arith("incr", k, d, fin) \/ Arith("decr", k, d, fin)
          \/ \E v \in Vals, f \in Flags :
                \/ Set(k, v, f) \/ Add(k, v, f) \/ Replace(k, v, f)
                \/ Pend("prepend", TRUE, k, v, f) \/ Pend("append", FALSE, k, v, f)

Spec == Init /\ [][Next]_vars

=============================================================================
