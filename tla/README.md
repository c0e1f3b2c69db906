# TLA+ models of shmc

This directory holds TLA+ models of shmc, the shared-memory cache in `src/`.
It has the modules, the TLC configurations that check them, and the
results. `PROJECT.json` records the mapping from each definition to the
source lines it models. It also lists the runs, the fault variants
(mutants) and the hazards.

## The system

shmc keeps a memcached-like key/value cache in a file that is mapped into
every process that uses it (`src/shmc.c`, `src/shmc.h`). All pointers inside
the region are offsets from its start, so each process can map it at a
different address.

| Part | Source | What it does |
|---|---|---|
| Slab allocator | `shmc.c` `count_of_slabs`, `format_slabs`, `item_clsid`, `item_alloc`, `item_free` | Size classes grow from `sizeof(item)+item_size_min`, aligned to 8 and multiplied by the factor (at least 1.5). Each class has a free list, which is filled one batch of `item_size_max / size` chunks at a time from the arena (`mem_used < mem_limit`). When the arena is full, the class's LRU tail is evicted if `evict_to_free` is set. |
| Hash table | `assoc_find`, `assoc_insert`, `assoc_delete` | Chained buckets (`hash % nbuckets`). `attr->nitems` counts the items and `attr->max_depth` records the longest walk. |
| LRU lists | `item_link`, `item_unlink`, `item_relink` | One doubly-linked list per class, with the most recently used item at the head. |
| Engine operations | `shmc_*_nolock` | get, getf, set, add, replace, prepend, append, incr, decr, del, dump, load. |
| Locking | `shmc.h` wrappers, `shmc_rdlock/wrlock/unlock` | A process-shared rwlock in the region (or `fcntl` locks when `use_flock` is set). get/getf take the read lock and relink under an extra process-shared mutex. Every other operation takes the write lock. |
| Region lifecycle | `shmc_init`, `mmap_create`, `mmap_attach`, `shmc_destroy` | Create with `O_CREAT|O_EXCL` and format the region. Attach maps the attribute block, checks the version, then maps the whole region. |
| Dump / load | `shmc_dump_nolock`, `shmc_load_nolock` | A text snapshot of every item, walked along the LRU lists. Load reads it back in buffered pieces and sets each record. |
| Line tokenizer | `netshell/token.c` | Splits a request line into tokens. |
| Event loop | `netshell/eventmgr.hpp` | epoll readiness loop driving connection state machines. |
| memcached front end | `netshell/mcshell.cc` | Listener and `McConn`, with the states Read, NRead, Write and Close. Each command maps to an engine call. |
| Daemon / CLI | `netshell/netshell.cc` | Option parsing, daemonising, signals. |
| Tests / tools | `t/*.c`, `netshell/ut_test.cc`, `netshell/mcb.cc`, `tplock.cc` | Unit tests, a load generator and a lock benchmark. |

The engine is where the interesting state lives. Each call runs under the
region's lock, so it is one atomic step on the region. Inside that step,
though, a single call chains several pointer updates: find, allocate,
perhaps evict, unlink, insert, link, copy, free. Most of the hazards are
in the order of those updates and in the rarely taken paths: a class whose
arena is full, an item that changes class, a counter in a non-counter
item.

## Modules

| Module | Models | State and actions |
|---|---|---|
| `ShmcSlab` | The size-class arithmetic of `shmc_init`, `count_of_slabs`, `format_slabs`, `item_clsid` and `item_size_ok`. | Pure operators. RECURSIVE definitions follow the C loops. The float factor is a rational `FactorNum/FactorDen`, truncated as the conversion back to `size_t` truncates. |
| `ShmcCounter` | The counter text of `shmc_arithmetic`: `safe_strtoull` and `sprintf("%"PRIu64)` over the value bytes. | Pure operators over sequences of byte symbols. |
| `ShmcEngine` | The mapped region and every engine operation but load. | `shm` is the region: chunk headers, class heads/tails/free lists, buckets, `mem_used`, `nitems`, `max_depth`. `last` is the last call with its inputs and results. There is one action per public call (`ShmcGet` … `ShmcDecr`), each the whole `_nolock` function under the lock. Helpers are named after the C functions and composed in the order the C code calls them. |
| `ShmcKV` | The contract of the engine (spec.md 4.5 and 8): a map from keys to `[val, flags]` and the result code of each call. | `store`, `last`. One action per call. Wherever memory matters, the contract allows NOMEMORY. When eviction is on, a store may drop at most one other key. |
| `ShmcSlabClasses` | The size classes formatted with the default attributes, against the request sizes `item_size_ok` accepts. | `size`, the current request. |
| `ShmcEngine` (dump) | `shmc_dump_nolock`: the walk of every class's LRU list. | `ShmcDump` returns the records in walk order; `ShmcKV!Dump` allows any order of the stored pairs. |
| `ShmcLoad` | The buffered reader of `shmc_load_nolock`. | A file is a sequence of record lengths; the buffer is the file range `[bufStart, bufStart + nbuffer)`; `offset`, `rc` as in the C code; `loaded` the records set so far. Actions `Read` (the `fread` of the outer while), `ParseRecord` and `ParseBreak` (the inner while), `AfterParse` (ESIZE, the `memmove` of a partial record, or nothing). Each set is abstracted to its result code. |
| `ShmcRegion` | Several processes creating, attaching to, using and destroying one region: `shmc_init`, `mmap_create`, `mmap_attach`, the lock wrappers, `shmc_get`'s relink under the mutex, `shmc_destroy`. | `file` records which parts of the region file are written (size, version, attributes, locks, lists, slabs). `rw` is the rwlock or the fcntl lock (`[w, r]`); `mutex` its holder; `flock` the lock mode the creator's attributes chose; `pc`, `rc` per process, and `view`, what its `shmc_init` found (no attributes, attributes, or a completely formatted region). One action per step another process can observe; `Crash` kills a process anywhere after its open. |
| `McConn` | One connection of the memcached front end, from its accept by the listening `McConn` (`onListening`) to `onClose`: `onRead`, `onNRead`, `onWrite`, `driverMachine`, under the epoll loop of `eventmgr.hpp`. | The client's bytes are stream positions: `reqHeader_` is the range `[consumed - hdrBytes, consumed)`, `reqBody_` (`bodyBuf`) a sequence of the positions copied into it, its length the capacity. `sent`, `arrived`, `eof`/`streamEnd`, `rst` and `outq` are the client and the socket. `dm` is the DmState the last handler returned. |
| `McDaemon` | The daemon around that connection: `main()` of `netshell.cc` (`shmc_init`, `signal()`, the `McShell` constructor, `run()`, `shmc_destroy`), `sigHandler`, and the loop of `EventMgr::run` that calls `driverMachine`. It extends `McConn`, and its Next runs the connection's handlers only inside the loop. `DFairSpec` adds the fairness of the process and of the network. | `main` is `main()`'s program counter, with "check" (the loop's test of `stop_`) and "poll" (`epoll_wait` and the `driverMachine` of that iteration) inside `run()`. `stop` is `stop_`, `signals` counts SIGTERM/SIGINT. `Signal` is `sigHandler` at any point. `DriverMachine` is one connection handler, and the iteration ends when it returns DmStop. `Timeout` is `epoll_wait` returning 0 after 500 ms. |
| `MCShmcEngine`, `MCShmcSlabClasses`, `MCShmcLoad`, `MCShmcRegion`, `MCMcConn`, `MCMcDaemon` | Constants for TLC. | |

### How the engine model corresponds to the code

* **Addresses.** A chunk is named by its relative address. Address 0 is the
  null relative pointer, so `A2R`/`R2A` become the identity on addresses.
  `batch` is an auxiliary field, never read by an action: it records the
  class whose batch carved each chunk, which the invariants need.
* **Helpers are C functions.** `X(m, ...)` returns the region after `X` has
  run on region `m`. `ItemAlloc` and `PopFree` return the region together
  with the chunk. An intermediate region is named with
  `{F(x) : x \in {e}}`. This makes TLC compute it once, where a LET
  definition would be recomputed at each use when TLC collects coverage.
* **Freed chunks.** `item_free` writes only `next`. Of a free chunk, nothing
  but `next` and `flags` is read before it is written again (`item_alloc`
  resets the header; the caller writes key and value). The model forgets
  the other bytes, which keeps equal free chunks equal. It does keep
  `flags`, because the migrating prepend/append never writes the new
  item's flags.
* **Data.** Keys are model values with a length (`KeyLen`) and a hash
  (`Hash`). A value is a sequence of byte symbols. Counter text is built
  digit by digit, because `sprintf` leaves a NUL and the old bytes behind it.
* **Not modelled in the engine:** malloc failure except in `get` (the only
  place a result code depends on it), and the key/value memcpy contents,
  which are data.

### How the load, region and connection models correspond to the code

* **Load.** `fread` on a regular file returns what was asked for or what
  is left, so `Read` is deterministic given the file. A record is parsed
  when all of its bytes are in the buffer. On any shorter prefix, the
  `memchr` and bounds tests of the inner loop fail, and that is
  `ParseBreak`.
* **Region.** Each step is a system call or a store that another process
  can observe. A file that is opened but not yet truncated has no page at
  the header, so reading it raises SIGBUS. An attribute block read before
  it is written has `nbuckets` 0, so the first hash traps with SIGFPE.
  These become `pc = "dead"`. The rwlock and mutex live in the region.
  `pthread_rwlock_init` in a late creator resets them under their holders
  (in `use_flock` mode it leaves the fcntl lock alone; the mutex is reset
  in both modes).
  A dead process keeps holding them, because neither is robust. fcntl
  locks go away with the dead process's descriptors. A creator's own
  calls use the attributes it wrote (`view` is "full" when it returns);
  an attacher's use what its header read found. `Reads(p)` and
  `Writes(p)` name the parts of the cache that the step `p` is about to
  take reads or writes: chains, LRU links, values, free lists.
* **Connection.** Every `onX` handler is one step, including its `recv`
  or `writev` loop. The loop runs while the client sleeps, so `recv`
  takes all the bytes that have arrived, up to the room left. `writev`
  writes what fits in the send buffer. A write that does not fit ends
  with EAGAIN, and since `errno == -1` is never true, the connection
  closes. The offsets that path saves are never read again, so the
  model does not keep them. `OnListening` is the accept of the connection
  (`state` "Pending" before it): `addEvent` may fail, and the connection
  is then deleted and its socket closed. `CmdAt` stands for `tokenize` and the
  `strcmp` chain: a line that begins where a request begins yields that
  request's command, and any other line is an unknown command. The
  response text and the stats counters are left out. Only the response
  sizes are kept, because they decide whether `writev` completes.
* **Daemon.** `main()`'s steps are those a signal can fall between. A
  signal before `signal()` kills the process. One before `mcShell` is
  assigned is ignored. Later, `sigHandler` sets `stop_`. If the loop is
  blocked in `epoll_wait`, it returns EINTR and the loop goes back to
  its test. A signal taken between the test and `epoll_wait` interrupts
  nothing. `run()` clears `stop_` on entry. The constructor's system
  calls are one step that may fail; the exception is caught, the region
  destroyed and 0 returned. The client can connect only once the
  listening socket exists. Option parsing, `daemon()`, the pid file and
  `-a` are not modelled.

## Runs

| Run | Config | Expect | What it shows |
|---|---|---|---|
| `engine_structure` | `MCShmcEngine.cfg` | pass | With eviction on, every sequence of calls keeps each LRU list a proper doubly-linked list with the right tail (`LruWellFormed`). Hash chains stay acyclic, each in its bucket, with unique keys (`HashWellFormed`). Every carved chunk is either free in its own class or an item on both a chain and its class's LRU, never both and never neither, and `nitems` counts the items (`ChunksPartitioned`). |
| `engine_refines_kv` | `MCShmcKV.cfg` | pass | With eviction off, the engine implements `ShmcKV`: values, join order, counter text, flags and result codes all agree with the contract, over every interleaving of in-place and migrating updates. Flags are fixed at 0 here; the next run is why. |
| `pend_migration_flags` | `MCShmcKVFlags.cfg` | violation | `set k ""` then a `prepend` that moves the item to a larger class: the new item keeps the flags its chunk had, because the code writes `item->flags` (the old item) at `shmc.c:480` and `:514`. |
| `incr_self_eviction` | `MCShmcKVEvict.cfg` | violation | With eviction on: `set k1 "a"`, `incr k2`, then `incr k1`. The counter needs a new item in the class where k1's own item is the LRU tail and the arena is full. `item_alloc` evicts k1's item and hands the same chunk back, so `new_item == old_item`. The code then frees it and skips the insert, and returns OK with the key gone. |
| `slab_class_gap` | `MCShmcSlabClasses.cfg` | violation | With the default attributes the last class is 524288 bytes (`sizeof(shmc_item_t)` is 64 on LP64), but `item_size_ok` accepts up to 1048575. A request of 524289 bytes makes `item_clsid` scan past `slabs[12]`. |
| `load_reader` | `MCShmcLoad.cfg` | pass | Every file of up to 3 records of 1–5 bytes, read through a 4-byte buffer: records are set in file order, each once, however they straddle the reads (`LoadInOrder`). |
| `load_exact_fill` | `MCShmcLoadComplete.cfg` | violation | File `<<4, 2>>`: record 1 fills the 4-byte buffer exactly, `offset == nbuffer`, and `offset` is never reset (`shmc.c:701`). The next `fread` asks for 0 bytes, the loop ends, and load returns OK without setting record 2. |
| `region_locking` | `MCShmcRegion.cfg` | pass | Two creators race on a missing token while two processes attach, under either lock mode, with ftruncate/mmap failures and crashes anywhere. Every lock a process holds on a complete region stays recorded in the rwlock and the mutex: no second format re-initialises them under it (`LocksStayHeld`). No two calls of processes that attached to a complete region touch the same cache data with one writing (`ItemsRaceFree`). Processes stop only when all have returned or a dead process holds the rwlock or the mutex (`DeadlockOnlyByDeath`). |
| `region_attach_race` | `MCShmcRegionRace.cfg` | violation | `mmap_create` writes the version before the attributes, locks and slabs (`shmc.c:225`). An attacher that reads the header in between gets SHMC_OK on a region that is not formatted (`ReadyOnFormatted`, spec.md 4.6). Its first hash divides by `nbuckets` = 0. |
| `region_failed_create` | `MCShmcRegionFail.cfg` | violation | `ftruncate` fails after the `O_CREAT` open (`shmc.c:218`). `shmc_init` returns SHMC_SYSTEM and leaves the empty file behind, so every later create fails with ECREATE and every attach with SIGBUS (`NoPartialRegion`, spec.md 7). |
| `daemon_connection` | `MCMcDaemon.cfg` | pass | For any client (pipelining, over-long lines, half-close mid-request, reset), with the stream split in every way: what `onRead` copies and `onNRead` receives stays inside `reqBody_` (`BodyInBounds`), and the value handed to `shmc_set` is exactly the block the client sent after that command's line (`BodyAssembled`). Under the loop's fairness, a connection whose client reset it or shut down is eventually deleted, unless it waits to write to a client that does not read or the daemon exits first (`ConnPeerGoneCloses`). The connection runs inside the daemon: startup may fail, and one SIGTERM may come at any point. A stop that the handler sets once `run()` has cleared `stop_` ends the daemon (`StopHonoured`, spec.md 4.8). This holds even when the signal falls between the loop's test and `epoll_wait`, where only the 500 ms timeout wakes the loop. |
| `conn_short_write` | `MCMcConnShortWrite.cfg` | violation | A client pipelines two gets and reads nothing. The second response does not fit the send buffer, `writev` gets EAGAIN, `errno == -1` is false, and `onWrite` closes the connection (`mcshell.cc:693`). spec.md 4.9 and 7 say a short write is resumed (`ClosesOnlyOnPeer`). |

### Bounds

`MCShmcEngine` scales the region down: a 2-byte header, 1-byte keys,
`item_size_min` 1, factor 2 and `item_size_max` 7. That gives two classes,
3-byte chunks in batches of 2 and one 6-byte chunk per batch. Formatting
uses 12 bytes of the 19-byte arena, so exactly one more batch can be
carved, and then allocation must evict or fail. Under these bounds:

* both classes are used, since an empty value goes to class 0 and 1–3 bytes
  to class 1;
* items migrate from class 0 to class 1 (a prepend to an empty value);
* ESIZE happens (4 bytes and up);
* NOMEMORY happens with eviction off, and evictions happen with it on;
* the counter item has `UINT64_SIZE` = 3, so the in-place and fresh-item
  paths of incr/decr both occur, and `CounterMod` = 3 makes incr wrap;
* two keys share one bucket, so chains have two entries and `assoc_delete`
  unlinks from the middle of a chain.

The refinement runs use two data symbols, so that prepend and append give
different values. The structural run uses one, since the shape of the
region does not depend on the bytes. `RegionView` (the region without the
call record) is the VIEW. This is sound because the call record never
enables or disables a step. The action property is still checked on every
transition, and the `JoinSwapped` mutant shows that a wrong result is
caught.

`MCShmcLoad` checks every file of up to 3 records of 1 to 5 bytes, read
through a 4-byte buffer. This covers:

* records that fit;
* records that straddle two reads;
* a record that fills the buffer exactly;
* a record longer than the buffer (ESIZE);
* a set that fails (NOMEMORY).

`MCShmcRegion` uses two creators and two attachers, and both lock modes
(`UseFlock = {FALSE, TRUE}`, chosen at Init). This makes three things
happen:

* the `O_EXCL` race;
* two readers relinking under the mutex while a writer waits;
* a dead process holding the rwlock, or its fcntl lock going away.

The process sets are symmetric within their roles.

`MCMcDaemon` (and `MCMcConn`, for `conn_short_write`) scales the request buffer to 5 bytes (312 in the code). Lines
are 1 or 2 bytes, plus one 6-byte line that overflows the buffer. Data
blocks are 3 or 4 bytes (nval 1 or 2). The client sends up to 2
requests (3 multiplies the states by 20 and puts the liveness check past
five minutes). These bounds make the following cases occur:

* a block fits in `reqHeader_` with its line;
* a block spills into `reqBody_`;
* a second, larger block needs a new `reqBody_`;
* two equal blocks reuse the old one;
* the send buffer (3 bytes) cannot hold a response with a body unless it
  is empty, so both the complete and the partial `writev` happen.

The daemon gets one signal (`MaxSignals = 1`): it can fall at each step
of `main()`, in each state of the connection, blocked in `epoll_wait`
or not. A second signal only sets `stop_` again. The run has 803,977
states and takes about two minutes.

### Fairness

Only `daemon_connection` assumes fairness. Its `DFairSpec` is weak
fairness of three things:

* `main()`'s steps (`Daemon`);
* `DriverMachine`;
* `Deliver` while the socket is open.

The daemon is one process that the kernel keeps scheduling. `epoll_wait`
returns within 500 ms whether or not an event came, so the loop keeps
coming back to its test of `stop_`. `EventMgr::run` is level-triggered:
while a connection's registered event is ready, `epoll_wait` reports it
on every iteration, and `driverMachine` runs its handler. A handler
that returns `DmGoOn` is run again at once. TCP delivers the bytes the
client wrote. The client owes nothing: it may stop sending or reading at
any time, and signals are never forced.

The other runs need no fairness:

* Every engine call completes in one step under the lock, and `ShmcLoad`
  ends by itself.
* For the region, `DeadlockOnlyByDeath` is a state invariant over
  `ENABLED Work(p)`, so it needs none.
* No progress property is claimed for the region's locks. Neither the
  default rwlock, which prefers readers, nor the mutex, nor fcntl
  promises fairness to a waiter (spec.md 5: waiters block
  indefinitely).

## Mutants

Each property of a passing run is shown to be able to fail. A fault variant
of the code, defined next to the definition it replaces, must make TLC
report a violation:

* `RefillUnbounded` carves without checking `mem_limit`, which breaks `TypeOK`.
* `ItemUnlinkKeepTail` forgets to move the tail, which breaks `LruWellFormed`.
* `SetNolockNoDelete` drops set's "delete first", which breaks `HashWellFormed`.
* `DelNolockLeak` drops `item_free`, which breaks `ChunksPartitioned`.
* `JoinSwapped` swaps the copy offsets, which breaks `KVRefinement`.
* `ReadWholeBuffer` asks `fread` for `BUFFER_SIZE` bytes whatever
  `offset` is, which breaks `TypeOK` of `ShmcLoad`.
* `AfterParseNoShift` moves the partial record from the start of the
  buffer, which breaks `LoadInOrder`.
* `BeginRelinkUnlocked` relinks without the mutex, which breaks
  `ItemsRaceFree`.
* `DestroyKeepLock` never unlocks in `shmc_destroy`, which breaks
  `DeadlockOnlyByDeath`.
* `CreateOpenNoExcl` drops `O_EXCL`: a second creator re-runs `pthread_rwlock_init` under a reader, which breaks `LocksStayHeld`.
* `RecvHeaderWhole` asks `recv` for `REQ_HEADER_SIZE` bytes, not for the
  room left, which breaks `DaemonTypeOK` (it includes `McConn`'s `TypeOK`).
* `StartBodyShort` grows `reqBody_` one byte short, which breaks
  `BodyInBounds`.
* `ExecuteKeepCount` does not reset `reqBodyBytes_`, which breaks
  `BodyAssembled`.
* `RecvEndNoEof` takes `recv() == 0` for EAGAIN, losing the
  `nn == 0` close branches of `onRead` (mcshell.cc:388) and `onNRead`.
  This breaks `ConnPeerGoneCloses`: the handler returns DmStop on a
  half-closed socket that stays readable, and the connection is never
  deleted.
* `TimeoutNever` is `epoll_wait` with timeout -1. This breaks
  `StopHonoured`: a SIGTERM taken between the loop's test and
  `epoll_wait`, on an idle daemon, is never seen.

## Not modelled yet, and the plan

1. **Lost `max_depth` updates** (`shmc.c:802`). `assoc_find` writes
   `attr->max_depth` under the read lock, so two readers can race. The
   region model keeps chains abstract, so this is listed as a hazard
   without a property. A `ShmcRegion` variant with chain depths would
   show that the update can be lost. This is harmless apart from the
   stats.
2. **Writer starvation.** Under glibc's default, which prefers readers,
   a stream of readers can starve a writer. Checking this needs a
   liveness property with fairness for the readers' steps.
3. **Front-end responses.** `McConn` keeps response sizes only. A
   property relating each response to its request, for a client that
   waits for each response, would show three more bugs:
   * the stale stats header;
   * the missing `END` after an empty value;
   * the second response to an over-long line.
   These are listed as hazards. The close on a partial `writev` is
   checked (`conn_short_write`).
4. **The daemon.** `McDaemon` reaches the lost SIGTERM. One that
   arrives before `mcShell` is assigned is ignored. One that arrives
   after the assignment but before `run()` clears `stop_` is
   overwritten. `StopHonoured` is stated for stops set after that
   point. spec.md 1 puts signal plumbing outside the specified
   behaviour, so the window is a hazard, not a finding. Two other
   daemon hazards are also left as hazards:
   * startup failures of the constructor exit with status 0;
   * `-a` unlinks a token that other processes still have mapped. This
     needs two regions, which `ShmcRegion` does not have.
5. **Tools and tests.** `mcb.cc` (a load generator), `tplock.cc` (a
   lock benchmark whose live `main` has two processes increment a
   shared counter under `lockf`) and the test programs are not part of
   the cache. They run the library or the locks, and no property of
   shmc depends on them. One test disagrees with the code:
   `src/t/unit.c:189-196` expects flags 64 from `shmc_getf` after
   `shmc_replace(..., 0)`. Both branches of `shmc_replace_nolock`
   (`shmc.c:440-452`) store the caller's flags, 0, and so does the
   `ShmcKV` contract. `engine_refines_kv` runs with `Flags = {0}` and
   cannot tell the two apart, so no run claims either. One hazard of
   `mcb` is listed. Its shmc mode
   gives every reader and writer thread its own `shmc_init` handle in
   one process. On a region created with `use_flock` this is the use
   that spec.md 5 rules out. fcntl locks belong to the process, so the
   threads do not exclude one another. The `close` in one thread's
   `shmc_destroy` also drops the locks the others hold. Showing this
   needs `ShmcRegion` with several threads per process; its processes
   are single-threaded.
6. **Tokenizer bytes.** `CmdAt` abstracts `tokenize` to the command a
   line yields, and the model does not keep the bytes of `reqHeader_`.
   So one bug of `tokenize` (`token.c:13`) is listed as a hazard
   without a property. After a backslash, the next character is
   skipped unexamined, even when it is the NUL that ends the line. A
   line ending in `\` (`get k\` then CRLF) makes the loop run on
   past the line, through the bytes that follow it in `reqHeader_`:
   pipelined requests, stale bytes of earlier ones, uninitialised heap.
   It ends at a NUL or after `MAX_TOKENS - 1` tokens. Meanwhile it
   writes NULs over the spaces it meets, and it can go past the end of
   the buffer. Checking this needs `tokenize` as an operator over
   bounded byte sequences, with the line followed by arbitrary bytes.
