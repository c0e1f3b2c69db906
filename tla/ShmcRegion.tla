----------------------------- MODULE ShmcRegion -----------------------------
(***************************************************************************)
(* The life of the mapped region and its locks (src/shmc.c, src/shmc.h):   *)
(* processes that create it (shmc_init with attributes, mmap_create),      *)
(* processes that attach to it (shmc_init without, mmap_attach), the      *)
(* locked calls they then make, shmc_destroy, and processes dying.        *)
(*                                                                         *)
(* The file is reduced to which of its parts are initialised, in the      *)
(* order mmap_create writes them.  A call is reduced to the parts of the  *)
(* region it reads and writes between its lock steps: a write call        *)
(* (shmc_set ... shmc_load) under the write lock, and shmc_get/getf in    *)
(* the steps of the read path: assoc_find, item_relink under the           *)
(* auxiliary mutex, and the copy of the value.                             *)
(***************************************************************************)
EXTENDS Naturals, FiniteSets

CONSTANTS
    Creators,       \* processes calling shmc_init(token, attr, ...)
    Attachers,      \* processes calling shmc_init(token, 0, ...)
    NoProc,
    Precreated,     \* the file was created and formatted before Init
    UseFlock,       \* the values attr->use_flock may have in the region
    CanFail,        \* ftruncate and mmap may fail
    CanCrash        \* a process may die at any step

Procs == Creators \cup Attachers

ASSUME RegionAssumption ==
    /\ Creators \cap Attachers = {}
    /\ NoProc \notin Procs
    /\ Precreated \in BOOLEAN /\ UseFlock \subseteq BOOLEAN /\ UseFlock # {}
    /\ CanFail \in BOOLEAN /\ CanCrash \in BOOLEAN

VARIABLES
    file,       \* whether the file exists and which parts are initialised
    rw,         \* the primary lock: the writer and the readers holding it
    mutex,      \* the holder of the auxiliary mutex
    pc,         \* where each process is
    rc,         \* what shmc_init returned to each process
    view,       \* what shmc_init found: "none", the attributes, or a
                \* completely formatted region ("full")
    flock       \* attr->use_flock: fcntl locks instead of the rwlock

vars == <<file, rw, mutex, pc, rc, view, flock>>

\* The parts of the region in the order mmap_create writes them.
\* The file as a record: whether it exists, and which of these parts of it
\* are initialised.
Parts == <<"size", "version", "attr", "locks", "lists", "slabs">>
Fields == {"exists"} \cup {Parts[i] : i \in 1 .. 6}
Absent == [q \in Fields |-> FALSE]
Blank == [q \in Fields |-> q = "exists"]
Formatted == [q \in Fields |-> TRUE]

FreeLock == [w |-> NoProc, r |-> {}]

\* The steps of mmap_create after the open, in order.
CreateSteps == <<"truncate", "map", "version", "attr", "locks", "lists", "slabs">>

Init ==
    /\ file = IF Precreated THEN Formatted ELSE Absent
    /\ rw = FreeLock
    /\ mutex = NoProc
    /\ pc = [p \in Procs |-> "init"]
    /\ rc = [p \in Procs |-> "none"]
    /\ view = [p \in Procs |-> "none"]
    /\ flock \in UseFlock

Fail(p, code) == pc' = [pc EXCEPT ![p] = "failed"] /\ rc' = [rc EXCEPT ![p] = code]
Goto(p, s) == pc' = [pc EXCEPT ![p] = s]

\* Fault variant: the open without O_EXCL.
CreateOpenNoExcl(p) ==
    /\ pc[p] = "init" /\ p \in Creators
    /\ file' = Blank /\ Goto(p, "truncate") /\ UNCHANGED rc
    /\ UNCHANGED <<rw, mutex, view>>

\* open(token, O_RDWR | O_CREAT | O_EXCL, mode): EEXIST is SHMC_ECREATE.
CreateOpen(p) ==
    /\ pc[p] = "init" /\ p \in Creators
    /\ IF ~file.exists
       THEN file' = Blank /\ Goto(p, "truncate") /\ UNCHANGED rc
       ELSE Fail(p, "ECREATE") /\ UNCHANGED file
    /\ UNCHANGED <<rw, mutex, view>>

\* ftruncate and mmap: either may fail with SHMC_SYSTEM; shmc_init then
\* closes the descriptor and returns, and the file stays.
CreateSys(p) ==
    /\ pc[p] \in {"truncate", "map"}
    /\ \/ CanFail /\ Fail(p, "SYSTEM") /\ UNCHANGED file
       \/ pc[p] = "truncate" /\ file' = [file EXCEPT !.size = TRUE] /\ Goto(p, "map")
          /\ UNCHANGED rc
       \/ pc[p] = "map" /\ Goto(p, "version") /\ UNCHANGED <<file, rc>>
    /\ UNCHANGED <<rw, mutex, view>>

\* The writes of mmap_create after the map, each a step another process
\* may observe: version, attribute block, lock init, zeroed heads, tails
\* and buckets, format_slabs.  pthread_rwlock_init and pthread_mutex_init
\* make the locks free whoever holds them; with use_flock the primary lock
\* is the fcntl lock, which the rwlock's init does not touch.  The last
\* returns SHMC_OK.
CreateWrite(p) ==
    /\ pc[p] \in {"version", "attr", "locks", "lists", "slabs"}
    /\ file' = [file EXCEPT ![pc[p]] = TRUE]
    /\ IF pc[p] = "locks" THEN rw' = (IF flock THEN rw ELSE FreeLock) /\ mutex' = NoProc
                          ELSE UNCHANGED <<rw, mutex>>
    /\ IF pc[p] = "slabs"
       THEN /\ Goto(p, "ready") /\ rc' = [rc EXCEPT ![p] = "OK"]
            /\ view' = [view EXCEPT ![p] = "full"]
       ELSE /\ \E i \in 3 .. 6 : CreateSteps[i] = pc[p] /\ Goto(p, CreateSteps[i + 1])
            /\ UNCHANGED <<rc, view>>

\* open(token, O_RDWR): ENOENT is SHMC_ETOKEN.
AttachOpen(p) ==
    /\ pc[p] = "init" /\ p \in Attachers
    /\ IF ~file.exists THEN Fail(p, "ETOKEN") ELSE Goto(p, "header") /\ UNCHANGED rc
    /\ UNCHANGED <<file, rw, mutex, view>>

\* mmap the version and attribute block and read the version: a file not
\* yet truncated has no page there (SIGBUS); a version not yet written is
\* SHMC_EVERSION.  Otherwise the attributes are read as they are: the
\* view records whether they were written, and whether the region was
\* then completely formatted.
AttachHeader(p) ==
    /\ pc[p] = "header"
    /\ \/ ~file.size /\ Goto(p, "dead") /\ UNCHANGED <<rc, view>>
       \/ file.size /\ ~file.version /\ Fail(p, "EVERSION") /\ UNCHANGED view
       \/ file.version /\ Goto(p, "remap") /\ UNCHANGED rc
          /\ view' = [view EXCEPT ![p] = CASE file = Formatted -> "full"
                                          [] file.attr -> "attr"
                                          [] OTHER -> "none"]
    /\ UNCHANGED <<file, rw, mutex>>

\* munmap, mmap the whole region (may fail), format_mmap: SHMC_OK.
AttachRemap(p) ==
    /\ pc[p] = "remap"
    /\ \/ CanFail /\ Fail(p, "SYSTEM")
       \/ Goto(p, "ready") /\ rc' = [rc EXCEPT ![p] = "OK"]
    /\ UNCHANGED <<file, rw, mutex, view>>

-----------------------------------------------------------------------------
(* The locked calls of an attached process.                                *)

\* The states in which a process uses the mapping shmc_init returned.
InUse == {"ready", "find", "mutex", "relink", "copy", "write", "destroy"}

\* shmc_rdlock / shmc_wrlock: pthread_rwlock_rdlock / _wrlock, or fcntl
\* F_SETLKW with F_RDLCK / F_WRLCK on the whole file; both wait.
CanRead(p) == rw.w = NoProc
CanWrite(p) == rw.w = NoProc /\ rw.r = {}
ReadLocked(p) == [rw EXCEPT !.r = @ \cup {p}]
WriteLocked(p) == [rw EXCEPT !.w = p]

\* shmc_unlock.  On a lock that pthread_rwlock_init has reset under the
\* caller, the caller holds nothing and the call changes nothing.
Unlocked(p) == [w |-> IF rw.w = p THEN NoProc ELSE rw.w, r |-> rw.r \ {p}]

\* shmc_get / shmc_getf: the read lock, then assoc_find.
BeginRead(p) ==
    /\ pc[p] = "ready" /\ CanRead(p)
    /\ rw' = ReadLocked(p) /\ Goto(p, "find")
    /\ UNCHANGED <<file, mutex, rc, view>>

\* assoc_find: with the attributes read before they were written,
\* nbuckets is 0 and hv % nbuckets traps (SIGFPE) with the lock held.  A
\* miss returns SHMC_NOTFOUND and unlocks; a hit goes on to the relink.
Find(p) ==
    /\ pc[p] = "find"
    /\ \/ view[p] = "none" /\ Goto(p, "dead") /\ UNCHANGED rw
       \/ view[p] # "none" /\ rw' = Unlocked(p) /\ Goto(p, "ready")
       \/ view[p] # "none" /\ Goto(p, "mutex") /\ UNCHANGED rw
    /\ UNCHANGED <<file, mutex, rc, view>>

\* Fault variant: the relink without the auxiliary mutex.
BeginRelinkUnlocked(p) ==
    /\ pc[p] = "mutex"
    /\ Goto(p, "relink")
    /\ UNCHANGED <<file, rw, mutex, rc, view>>

\* pthread_mutex_lock(shmc->mutex).
LockMutex(p) ==
    /\ pc[p] = "mutex" /\ mutex = NoProc
    /\ mutex' = p /\ Goto(p, "relink")
    /\ UNCHANGED <<file, rw, rc, view>>

\* item_relink, then pthread_mutex_unlock.
Relink(p) ==
    /\ pc[p] = "relink"
    /\ mutex' = IF mutex = p THEN NoProc ELSE mutex
    /\ Goto(p, "copy")
    /\ UNCHANGED <<file, rw, rc, view>>

\* The copy of the value and flags, then shmc_unlock.
Copy(p) ==
    /\ pc[p] = "copy"
    /\ rw' = Unlocked(p) /\ Goto(p, "ready")
    /\ UNCHANGED <<file, mutex, rc, view>>

\* shmc_set ... shmc_load: the write lock, then the _nolock call.
BeginWrite(p) ==
    /\ pc[p] = "ready" /\ CanWrite(p)
    /\ rw' = WriteLocked(p) /\ Goto(p, "write")
    /\ UNCHANGED <<file, mutex, rc, view>>

\* The _nolock call hashes the key (SIGFPE with nbuckets 0), then unlock.
Write(p) ==
    /\ pc[p] = "write"
    /\ IF view[p] # "none" THEN rw' = Unlocked(p) /\ Goto(p, "ready")
                  ELSE Goto(p, "dead") /\ UNCHANGED rw
    /\ UNCHANGED <<file, mutex, rc, view>>

\* shmc_destroy: the write lock while the size is computed, unlock, then
\* msync, munmap, close.
BeginDestroy(p) ==
    /\ pc[p] = "ready" /\ CanWrite(p)
    /\ rw' = WriteLocked(p) /\ Goto(p, "destroy")
    /\ UNCHANGED <<file, mutex, rc, view>>

\* Fault variant: shmc_destroy that never unlocks.
DestroyKeepLock(p) ==
    /\ pc[p] = "destroy"
    /\ Goto(p, "detached")
    /\ UNCHANGED <<file, rw, mutex, rc, view>>

Destroy(p) ==
    /\ pc[p] = "destroy"
    /\ rw' = Unlocked(p) /\ Goto(p, "detached")
    /\ UNCHANGED <<file, mutex, rc, view>>

\* A process dies inside shmc_init or later (before, it has no effect on
\* the region).  The rwlock and the mutex live in the region and stay
\* held (neither is robust); fcntl locks are dropped when the process's
\* descriptors close.
Crash(p) ==
    /\ CanCrash
    /\ pc[p] \notin {"init", "failed", "dead", "detached"}
    /\ Goto(p, "dead")
    /\ rw' = IF flock THEN Unlocked(p) ELSE rw
    /\ UNCHANGED <<file, mutex, rc, view>>

\* The steps of the code, as opposed to a process dying.
Work(p) ==
    \/ CreateOpen(p) \/ CreateSys(p) \/ CreateWrite(p)
    \/ AttachOpen(p) \/ AttachHeader(p) \/ AttachRemap(p)
    \/ BeginRead(p) \/ Find(p) \/ LockMutex(p) \/ Relink(p) \/ Copy(p)
    \/ BeginWrite(p) \/ Write(p) \/ BeginDestroy(p) \/ Destroy(p)

\* No call changes the lock mode the creator chose.
Step(p) == (Work(p) \/ Crash(p)) /\ UNCHANGED flock

\* Every process has returned from its last call, or died.
Finished == \A p \in Procs : pc[p] \in {"failed", "dead", "detached"}

Terminated == Finished /\ UNCHANGED vars

Next == (\E p \in Procs : Step(p)) \/ Terminated

Spec == Init /\ [][Next]_vars

-----------------------------------------------------------------------------

\* A process in a call, on a region that was complete when it attached.
Settled(p) == pc[p] \in InUse /\ view[p] = "full"

\* What each step a process is about to take reads and writes of the
\* cache's data: the hash chains, the LRU links, the values, the slab free
\* lists and mem_used.
Reads(p) ==
    CASE pc[p] = "find" -> {"chain"}
      [] pc[p] = "relink" -> {"lru"}
      [] pc[p] = "copy" -> {"value"}
      [] pc[p] = "write" -> {"chain", "lru", "value", "slabs"}
      [] OTHER -> {}
Writes(p) ==
    CASE pc[p] = "relink" -> {"lru"}
      [] pc[p] = "write" -> {"chain", "lru", "value", "slabs"}
      [] OTHER -> {}

\* No two calls of processes that shmc_init returned to can access the
\* same part of the cache at once with one of them writing: the write lock
\* excludes every other call, and relinks of concurrent readers are
\* serialised by the auxiliary mutex.  This is the discipline of spec.md 5
\* that makes the calls linearisable.  (A process that attached to a
\* region still being formatted is the race ReadyOnFormatted is about.)
ItemsRaceFree ==
    \A p, q \in Procs :
        p # q /\ Settled(p) /\ Settled(q) =>
            Writes(p) \cap (Reads(q) \cup Writes(q)) = {}

\* No lock a process holds on a complete region is taken from it: the
\* rwlock records every reader and the writer in their calls, and the
\* mutex the reader in item_relink.  pthread_rwlock_init and
\* pthread_mutex_init run only in mmap_create, and O_EXCL keeps a second
\* creator from formatting a region others are using.
LocksStayHeld ==
    \A p \in Procs : Settled(p) =>
        /\ pc[p] \in {"find", "mutex", "relink", "copy"} => p \in rw.r
        /\ pc[p] \in {"write", "destroy"} => rw.w = p
        /\ pc[p] = "relink" => mutex = p

\* The processes stop only when all have finished, or when a dead process
\* holds the primary lock or the mutex: the mutex is taken only under the
\* read lock and released before it, and every call releases what it took.
DeadlockOnlyByDeath ==
    \/ Finished
    \/ \E p \in Procs : ENABLED Work(p)
    \/ \E p \in Procs : pc[p] = "dead" /\ (rw.w = p \/ p \in rw.r \/ mutex = p)

\* shmc_init returns SHMC_OK only on a region that is completely formatted:
\* version, attributes, locks, lists and slab free lists (spec.md 4.6).
ReadyOnFormatted == \A p \in Procs : pc[p] \in InUse => file = Formatted

\* A failed shmc_init does not leave a partially initialised region behind
\* (spec.md 7): a file that is not completely formatted is one a creator
\* is still writing.
NoPartialRegion ==
    file.exists /\ file # Formatted =>
        \E p \in Creators : pc[p] \in {CreateSteps[i] : i \in 1 .. 7}

=============================================================================
