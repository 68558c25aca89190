-------------------------------- MODULE Cas --------------------------------
(***************************************************************************)
(* The content store of the host (mist-cas): chunk files named by their    *)
(* hash, the tables CHUNKS and MANIFESTS of an embedded database, the      *)
(* count of stored bytes, eviction, scrubbing, and the two durabilities of *)
(* a transaction.  The threads are the reads, ingests and cache commands   *)
(* of the host daemon; each file operation, transaction and atomic update  *)
(* is one step.  The database commits one write transaction at a time.     *)
(*                                                                         *)
(* Every chunk has length 1.  Of the access times only the protection      *)
(* window is kept: a chunk is hot when it was used within it, and the      *)
(* order among the hot, and among the others, is left open.  The manifests *)
(* the surface keeps in memory, and the sendfile path (off by default),    *)
(* are left out, and so are failing file operations other than a rename    *)
(* of a file that has gone, and the loss of unsynced files in a power cut. *)
(***************************************************************************)
EXTENDS Integers, Sequences, FiniteSets, FiniteSetsExt, SequencesExt

CONSTANTS
    Node, Ver, WIP, Off, Hash, NoHash, Thread,
    MAX_BYTES, TARGET,  \* eviction starts above the one and goes down to the other
    FD_CAP,             \* open files kept
    WIDTH,              \* the counter of bytes is modulo this
    MaxOp,              \* bound: ingests, reads and commands
    Damage,             \* what the disk makes of a damaged chunk
    MaxRot,             \* bound: chunks the disk damages
    MaxKill             \* bound: ends of the process

ASSUME CasAssumption ==
    /\ Node # {} /\ WIP \in Ver /\ Off # {} /\ NoHash \notin Hash
    /\ IsFiniteSet(Hash) /\ IsFiniteSet(Thread)
    /\ {MAX_BYTES, FD_CAP, WIDTH} \subseteq Nat \ {0} /\ TARGET \in 0 .. MAX_BYTES
    /\ Damage \subseteq {"bad", "short"} /\ {MaxOp, MaxRot, MaxKill} \subseteq Nat

VARIABLES
    file,       \* blobs/: what is under each hash: "none", "short", "bad" or "good"
    tmp,        \* the temporary file of each hash
    fds,        \* blob_fds: hashes in the order they were opened
    held,       \* what an open file holds: "path" as long as it is the file under its hash
    db,         \* the tables: [rows, man]
    disk,       \* the tables as of the last durable commit
    total,      \* total_bytes (and blobs)
    hot,        \* chunks used within EVICTION_PROTECTION
    th,         \* the threads
    pend,       \* cas_persist_pending
    timers,     \* the delayed persists: [asleep, due]
    n,          \* inputs so far
    raced,      \* history: a chosen victim was gone, or a clear met other work
    owed,       \* history: a finished write-ingest is not durable yet
    warm        \* history: chunks ingested from the guest and not removed since

filevars == <<file, tmp, fds, held>>
dbvars   == <<db, disk>>
hist     == <<raced, owed, warm>>
vars     == <<filevars, dbvars, total, hot, th, pend, timers, n, hist>>

Key     == Node \X Ver
NoChunk == [o \in Off |-> NoHash]
Store   == [rows : SUBSET Hash, man : [Key -> [Off -> Hash \cup {NoHash}]]]
Fresh   == [rows |-> {}, man |-> [k \in Key |-> NoChunk]]

NoKey  == CHOOSE k \in Key : TRUE
NoOff  == CHOOSE o \in Off : TRUE
Job(pc, job, k, o, h) == [pc |-> pc, job |-> job, k |-> k, o |-> o, h |-> h, n |-> 0, vs |-> {}]
Idle   == Job("idle", "none", NoKey, NoOff, NoHash)
Running(job) == {t \in Thread : th[t].job = job}
Wrap(x)   == x % WIDTH
Sat(x, y) == IF x >= y THEN x - y ELSE 0

Init ==
    /\ file = [h \in Hash |-> "none"] /\ tmp = file /\ fds = <<>> /\ held = file
    /\ db = Fresh /\ disk = Fresh /\ total = 0 /\ hot = {}
    /\ th = [t \in Thread |-> Idle]
    /\ pend = FALSE /\ timers = [asleep |-> 0, due |-> 0]
    /\ n = [op |-> 0, rot |-> 0, kill |-> 0]
    /\ raced = FALSE /\ owed = FALSE /\ warm = {}

-----------------------------------------------------------------------------
(***************************************************************************)
(* Transactions and files.                                                 *)
(***************************************************************************)
\* write_txn: in memory until a later durable commit; write_txn_durable: on disk,
\* with every commit before it.
CommitVolatile(d) == db' = d /\ UNCHANGED <<disk, owed>>
CommitDurable(d)  == db' = d /\ disk' = d /\ owed' = FALSE

\* A manifest under key k; the other versions of the file are dropped.
Bind(man, k, m) == [j \in Key |-> IF j = k THEN m ELSE IF j[1] = k[1] THEN NoChunk ELSE man[j]]

\* The file under a hash goes, or another takes its place: an open one stays.
Unlink(S)  == held' = [h \in Hash |-> IF h \in S /\ held[h] = "path" THEN file[h] ELSE held[h]]
Erase(S)  == file' = [h \in Hash |-> IF h \in S THEN "none" ELSE file[h]] /\ Unlink(S)

\* Chunks no longer counted as warm: their file, or the manifest that names them, is gone.
Cooled(S)  == {w \in warm : w.h \notin S}
Named(man) == {w \in warm : man[w.k][w.o] = w.h}

At(t, pc)     == th[t].pc = pc
\* The thread goes to pc, with hash h, number c and victims vs.
Step(t, pc, h, c, vs) ==
    th' = [th EXCEPT ![t] = [pc |-> pc, job |-> @.job, k |-> @.k, o |-> @.o, h |-> h, n |-> c, vs |-> vs]]
Goto(t, pc)   == Step(t, pc, th[t].h, th[t].n, th[t].vs)
Done(t)       == th' = [th EXCEPT ![t] = Idle]
Starts(t, r)  == At(t, "idle") /\ th' = [th EXCEPT ![t] = r] /\ n.op < MaxOp /\ n' = [n EXCEPT !.op = @ + 1]

\* After an ingest: the write-ingest goes on to move its manifest.
IngestEnds(t) == IF th[t].job = "final" THEN Goto(t, "rebind") ELSE Done(t)

-----------------------------------------------------------------------------
(***************************************************************************)
(* Ingest: write_blob_file, the transaction, the accounting.               *)
(***************************************************************************)
\* chunk_read: a chunk read from the guest, one fetch of a chunk at a time.
IngestChunk(t) ==
    /\ \E k \in Key, o \in Off, h \in Hash :
         /\ k[2] # WIP /\ \A u \in Running("chunk") : <<th[u].k, th[u].o>> # <<k, o>>
         /\ Starts(t, Job("probe", "chunk", k, o, h))
    /\ UNCHANGED <<filevars, dbvars, total, hot, pend, timers, hist>>

\* finalize_stash: a written chunk, collected under WIP and bound for k.
Finalize(t) ==
    /\ \E k \in Key, o \in Off, h \in Hash :
         k[2] # WIP /\ Starts(t, Job("probe", "final", k, o, h))
    /\ UNCHANGED <<filevars, dbvars, total, hot, pend, timers, hist>>

Probe(t) ==
    /\ At(t, "probe") /\ Goto(t, IF file[th[t].h] = "none" THEN "open" ELSE "commit")
    /\ UNCHANGED <<filevars, dbvars, total, hot, pend, timers, n, hist>>

\* Writing the temporary file truncates it, and then fills it.  Its name is that of
\* the hash, so that another thread may have renamed it, or another temporary file
\* may have taken its place: then the fill goes to whichever the descriptor is of.
OpenTmp(t) ==
    /\ At(t, "open") /\ tmp' = [tmp EXCEPT ![th[t].h] = "short"] /\ Goto(t, "fill")
    /\ UNCHANGED <<file, fds, held, dbvars, total, hot, pend, timers, n, hist>>

FillTmp(t) ==
    LET h == th[t].h
        mine == tmp[h] # "none" /\ \A u \in Thread \ {t} : th[u].pc \in {"fill", "rename"} => th[u].h # h
    IN  /\ At(t, "fill") /\ Goto(t, "rename")
        /\ \E into \in IF mine THEN {"tmp"} ELSE {"tmp", "file", "gone"} :
             /\ tmp'  = IF into = "tmp" /\ tmp[h] # "none" THEN [tmp EXCEPT ![h] = "good"] ELSE tmp
             /\ file' = IF into = "file" /\ file[h] = "short" THEN [file EXCEPT ![h] = "good"] ELSE file
        /\ UNCHANGED <<fds, held, dbvars, total, hot, pend, timers, n, hist>>

Rename(t) ==
    LET h == th[t].h
    IN  /\ At(t, "rename")
        /\ IF tmp[h] = "none"
           THEN IngestEnds(t) /\ UNCHANGED <<filevars, warm>>
           ELSE /\ file' = [file EXCEPT ![h] = tmp[h]] /\ Unlink({h})
                /\ tmp' = [tmp EXCEPT ![h] = "none"] /\ Goto(t, "commit") /\ UNCHANGED fds
                /\ warm' = IF tmp[h] = "good" THEN warm ELSE Cooled({h})
        /\ UNCHANGED <<dbvars, total, hot, pend, timers, n, raced, owed>>

\* The row and the manifest in one transaction.
WithChunk(d, k, o, h)  == [rows |-> d.rows \cup {h}, man |-> Bind(d.man, k, [d.man[k] EXCEPT ![o] = h])]
WithChunks(d, k, o, h) == [rows |-> d.rows \cup {h}, man |-> Bind(d.man, k, [NoChunk EXCEPT ![o] = h])]

CommitIngestVolatile(t) ==
    LET x == th[t]
    IN  /\ At(t, "commit")
        /\ Step(t, "account", x.h, IF x.h \in db.rows THEN 0 ELSE 1, x.vs)
        /\ IF x.job = "chunk"
           THEN CommitVolatile(WithChunk(db, x.k, x.o, x.h))
           ELSE CommitVolatile(WithChunks(db, <<x.k[1], WIP>>, x.o, x.h))
        /\ warm' = Named(db'.man)
                       \cup IF x.job = "chunk" /\ file[x.h] = "good" THEN {[k |-> x.k, o |-> x.o, h |-> x.h]} ELSE {}
        /\ UNCHANGED <<filevars, total, hot, pend, timers, n, raced>>

CommitIngest(t) ==
    LET x == th[t]
    IN  /\ At(t, "commit")
        /\ Step(t, "account", x.h, IF x.h \in db.rows THEN 0 ELSE 1, x.vs)
        /\ IF x.job = "chunk"
           THEN CommitDurable(WithChunk(db, x.k, x.o, x.h))
           ELSE CommitVolatile(WithChunks(db, <<x.k[1], WIP>>, x.o, x.h))
        /\ warm' = Named(db'.man)
                       \cup IF x.job = "chunk" /\ file[x.h] = "good" THEN {[k |-> x.k, o |-> x.o, h |-> x.h]} ELSE {}
        /\ UNCHANGED <<filevars, total, hot, pend, timers, n, raced>>

AccountIngest(t) ==
    /\ At(t, "account")
    /\ total' = Wrap(total + th[t].n) /\ hot' = hot \cup {th[t].h}
    /\ IF total' > MAX_BYTES THEN Goto(t, "evict") ELSE IngestEnds(t)
    /\ UNCHANGED <<filevars, dbvars, pend, timers, n, hist>>

\* rebind_manifest, then one delayed persist for all that are waiting.
Rebind(t) ==
    LET x == th[t]
        w == db.man[<<x.k[1], WIP>>]
    IN  /\ At(t, "rebind") /\ Goto(t, "swap")
        /\ CommitVolatile(IF w = NoChunk THEN db ELSE [db EXCEPT !.man = Bind(db.man, x.k, w)])
        /\ warm' = Named(db'.man)
        /\ UNCHANGED <<filevars, total, hot, pend, timers, n, raced>>

SwapPending(t) ==
    /\ At(t, "swap") /\ Done(t)
    /\ pend' = TRUE /\ owed' = (db # disk)
    /\ timers' = IF pend THEN timers ELSE [timers EXCEPT !.asleep = @ + 1]
    /\ UNCHANGED <<filevars, dbvars, total, hot, n, raced, warm>>

WakeHolding ==
    /\ timers.asleep > 0 /\ timers' = [asleep |-> timers.asleep - 1, due |-> timers.due + 1]
    /\ UNCHANGED <<filevars, dbvars, total, hot, th, pend, n, hist>>

\* The timer ends: the flag is taken back, and then everything made durable.
Wake ==
    /\ timers.asleep > 0 /\ pend' = FALSE
    /\ timers' = [asleep |-> timers.asleep - 1, due |-> timers.due + 1]
    /\ UNCHANGED <<filevars, dbvars, total, hot, th, n, hist>>

Persist ==
    /\ timers.due > 0 /\ timers' = [timers EXCEPT !.due = @ - 1]
    /\ CommitDurable(db)
    /\ UNCHANGED <<filevars, total, hot, th, pend, n, raced, warm>>

-----------------------------------------------------------------------------
(***************************************************************************)
(* Reading: the open file if there is one, else the path; a chunk that is  *)
(* missing or short is a miss.                                             *)
(***************************************************************************)
Read(t) ==
    /\ \E k \in Key, o \in Off :
         Starts(t, Job(IF db.man[k][o] = NoHash THEN "slow" ELSE "fast", "read", k, o, db.man[k][o]))
    /\ UNCHANGED <<filevars, dbvars, total, hot, pend, timers, hist>>

Touch(h) == hot' = hot \cup {h}

\* The open files that stay when one more is opened.
Kept == IF Len(fds) >= FD_CAP THEN Tail(fds) ELSE fds

\* What an open file of h, or one opened now, holds.
Opened(h) == IF held[h] \in {"none", "path"} THEN file[h] ELSE held[h]

\* blob_file_range and the read of what it gives.
ReadFast(t) ==
    LET h == th[t].h
    IN  /\ At(t, "fast")
        /\ IF held[h] # "none" \/ file[h] # "none"
           THEN /\ Touch(h)
                /\ IF held[h] # "none" THEN UNCHANGED <<fds, held>>
                   ELSE /\ fds' = Append(Kept, h)
                        /\ held' = [g \in Hash |-> CASE g = h -> "path" [] g \in ToSet(Kept) -> held[g]
                                                     [] OTHER -> "none"]
           ELSE UNCHANGED <<fds, held, hot>>
        /\ Goto(t, CASE Opened(h) = "good" -> "hit" [] Opened(h) = "bad" -> "wrong" [] OTHER -> "slow")
        /\ UNCHANGED <<file, tmp, dbvars, total, pend, timers, n, hist>>

\* get_manifest and get_blob_range, under the fetch guard.
ReadSlow(t) ==
    LET h == db.man[th[t].k][th[t].o]
    IN  /\ At(t, "slow")
        /\ IF h = NoHash THEN Done(t) ELSE Step(t, "range", h, th[t].n, th[t].vs)
        /\ UNCHANGED <<filevars, dbvars, total, hot, pend, timers, n, hist>>

ReadRangeUnchecked(t) ==
    LET h == th[t].h
    IN  /\ At(t, "range")
        /\ CASE file[h] = "good" -> Goto(t, "hit") /\ Touch(h)
             [] file[h] \in {"bad", "short"} -> Goto(t, "wrong") /\ Touch(h)
             [] OTHER            -> Done(t) /\ UNCHANGED hot
        /\ UNCHANGED <<filevars, dbvars, total, pend, timers, n, hist>>

ReadRange(t) ==
    LET h == th[t].h
    IN  /\ At(t, "range")
        /\ CASE file[h] = "good"  -> Goto(t, "hit") /\ Touch(h)
             [] file[h] = "bad"   -> Goto(t, "wrong") /\ Touch(h)
             [] file[h] = "short" -> Goto(t, "drop_file") /\ UNCHANGED hot
             [] OTHER             -> Done(t) /\ UNCHANGED hot
        /\ UNCHANGED <<filevars, dbvars, total, pend, timers, n, hist>>

Answered(t) ==
    /\ th[t].pc \in {"hit", "wrong"} /\ Done(t)
    /\ UNCHANGED <<filevars, dbvars, total, hot, pend, timers, n, hist>>

\* drop_corrupt: the file, the row, the count.
DropFile(t) ==
    /\ At(t, "drop_file") /\ Erase({th[t].h}) /\ Goto(t, "drop_row")
    /\ warm' = Cooled({th[t].h})
    /\ UNCHANGED <<tmp, fds, dbvars, total, hot, pend, timers, n, raced, owed>>

DropRow(t) ==
    LET h == th[t].h
    IN  /\ At(t, "drop_row") /\ CommitVolatile([db EXCEPT !.rows = @ \ {h}])
        /\ Step(t, "drop_count", h, IF h \in db.rows THEN 1 ELSE 0, th[t].vs)
        /\ UNCHANGED <<filevars, total, hot, pend, timers, n, raced, warm>>

DropCount(t) ==
    /\ At(t, "drop_count") /\ total' = Wrap(total - th[t].n) /\ hot' = hot \ {th[t].h} /\ Done(t)
    /\ UNCHANGED <<filevars, dbvars, pend, timers, n, hist>>

\* scrub, for one of the rows it lists.
Scrub(t) ==
    /\ \E h \in db.rows : Starts(t, Job("scrub", "scrub", NoKey, NoOff, h))
    /\ UNCHANGED <<filevars, dbvars, total, hot, pend, timers, hist>>

ScrubCheck(t) ==
    /\ At(t, "scrub")
    /\ IF file[th[t].h] = "good" THEN Done(t) ELSE Goto(t, "drop_file")
    /\ UNCHANGED <<filevars, dbvars, total, hot, pend, timers, n, hist>>

-----------------------------------------------------------------------------
(***************************************************************************)
(* Eviction, invalidation and clearing.                                    *)
(***************************************************************************)
\* How many of the rows go, when the count was seen as c: cold ones first; hot
\* ones too when the cold do not get below the maximum.
Quota(c) ==
    LET need == Sat(c, TARGET)
        cold == Min({need, Cardinality(db.rows \ hot)})
    IN  IF Sat(c, cold) > MAX_BYTES THEN Min({need, Cardinality(db.rows)}) ELSE cold

Victims(c) ==
    {V \in SUBSET db.rows : /\ Cardinality(V) = Quota(c)
                            /\ V \cap hot = {} \/ db.rows \ hot \subseteq V}

EvictSee(t) ==
    /\ At(t, "evict")
    /\ IF total <= TARGET THEN IngestEnds(t)
       ELSE Step(t, "evict_rows", th[t].h, total, th[t].vs)
    /\ UNCHANGED <<filevars, dbvars, total, hot, pend, timers, n, hist>>

EvictChoose(t) ==
    /\ At(t, "evict_rows")
    /\ \E V \in Victims(th[t].n) :
         IF V = {} THEN IngestEnds(t)
         ELSE Step(t, "evict_txn", th[t].h, 0, V)
    /\ UNCHANGED <<filevars, dbvars, total, hot, pend, timers, n, hist>>

EvictRows(t) ==
    /\ At(t, "evict_txn") /\ Goto(t, "evict_files")
    /\ CommitVolatile([db EXCEPT !.rows = @ \ th[t].vs])
    /\ raced' = (raced \/ ~(th[t].vs \subseteq db.rows))
    /\ UNCHANGED <<filevars, total, hot, pend, timers, n, warm>>

EvictFiles(t) ==
    /\ At(t, "evict_files") /\ Erase(th[t].vs) /\ hot' = hot \ th[t].vs /\ Goto(t, "evict_count")
    /\ warm' = Cooled(th[t].vs)
    /\ UNCHANGED <<tmp, fds, dbvars, total, pend, timers, n, raced, owed>>

EvictCountOnce(t) ==
    /\ At(t, "evict_count") /\ total' = Wrap(total - 1)
    /\ IF th[t].job = "final" THEN Step(t, "rebind", th[t].h, th[t].n, {}) ELSE Done(t)
    /\ UNCHANGED <<filevars, dbvars, hot, pend, timers, n, hist>>

EvictCount(t) ==
    /\ At(t, "evict_count") /\ total' = Wrap(total - Cardinality(th[t].vs))
    /\ IF th[t].job = "final" THEN Step(t, "rebind", th[t].h, th[t].n, {}) ELSE Done(t)
    /\ UNCHANGED <<filevars, dbvars, hot, pend, timers, n, hist>>

\* drop_node, when the Mac changes or removes the file; nothing to do without a manifest.
DropNode(t) ==
    /\ At(t, "idle") /\ n.op < MaxOp /\ n' = [n EXCEPT !.op = @ + 1]
    /\ \E f \in Node :
         /\ \E v \in Ver : db.man[<<f, v>>] # NoChunk
         /\ CommitVolatile([db EXCEPT !.man = [k \in Key |-> IF k[1] = f THEN NoChunk ELSE @[k]]])
    /\ warm' = Named(db'.man)
    /\ UNCHANGED <<filevars, total, hot, th, pend, timers, raced>>

Clear(t) ==
    /\ Starts(t, Job("clear_files", "clear", NoKey, NoOff, NoHash))
    /\ CommitVolatile(Fresh)
    /\ warm' = {} /\ raced' = (raced \/ \E u \in Thread : th[u] # Idle)
    /\ UNCHANGED <<filevars, total, hot, pend, timers>>

ClearFiles(t) ==
    /\ At(t, "clear_files") /\ Erase(Hash) /\ tmp' = [h \in Hash |-> "none"] /\ Goto(t, "clear_count")
    /\ warm' = {}
    /\ UNCHANGED <<fds, dbvars, total, hot, pend, timers, n, raced, owed>>

ClearCount(t) ==
    /\ At(t, "clear_count") /\ total' = 0 /\ hot' = {} /\ Done(t)
    /\ raced' = (raced \/ db.rows # {} \/ \E u \in Thread \ {t} : th[u] # Idle)
    /\ UNCHANGED <<filevars, dbvars, pend, timers, n, owed, warm>>

-----------------------------------------------------------------------------
(***************************************************************************)
(* Time, damage, and the end of the process.                               *)
(***************************************************************************)
Cool ==
    /\ \E h \in hot : hot' = hot \ {h}
    /\ UNCHANGED <<filevars, dbvars, total, th, pend, timers, n, hist>>

\* The disk damages a chunk: its bytes, or its length.
Rot ==
    /\ n.rot < MaxRot /\ n' = [n EXCEPT !.rot = @ + 1]
    /\ \E h \in Hash, c \in Damage :
         /\ file[h] = "good" /\ file' = [file EXCEPT ![h] = c]
         /\ warm' = Cooled({h})
    /\ UNCHANGED <<tmp, fds, held, dbvars, total, hot, th, pend, timers, raced, owed>>

\* open, after the process has gone: the tables as of the last durable commit, the
\* count made anew.
Kill ==
    /\ n.kill < MaxKill /\ n' = [n EXCEPT !.kill = @ + 1]
    /\ th' = [t \in Thread |-> Idle] /\ fds' = <<>> /\ held' = [h \in Hash |-> "none"]
    /\ db' = disk /\ total' = Wrap(Cardinality(disk.rows)) /\ hot' = hot \cap disk.rows
    /\ pend' = FALSE /\ timers' = [asleep |-> 0, due |-> 0]
    /\ raced' = FALSE /\ owed' = FALSE
    /\ UNCHANGED <<file, tmp, disk, warm>>

Next ==
    \/ \E t \in Thread :
         \/ IngestChunk(t) \/ Finalize(t) \/ Probe(t) \/ OpenTmp(t) \/ FillTmp(t) \/ Rename(t)
         \/ CommitIngest(t) \/ AccountIngest(t) \/ Rebind(t) \/ SwapPending(t)
         \/ Read(t) \/ ReadFast(t) \/ ReadSlow(t) \/ ReadRange(t) \/ Answered(t)
         \/ DropFile(t) \/ DropRow(t) \/ DropCount(t) \/ Scrub(t) \/ ScrubCheck(t)
         \/ EvictSee(t) \/ EvictChoose(t) \/ EvictRows(t) \/ EvictFiles(t) \/ EvictCount(t)
         \/ DropNode(t) \/ Clear(t) \/ ClearFiles(t) \/ ClearCount(t)
    \/ Wake \/ Persist \/ Cool \/ Rot \/ Kill

Spec == Init /\ [][Next]_vars

-----------------------------------------------------------------------------
(***************************************************************************)
(* Properties.                                                             *)
(***************************************************************************)
Content == {"none", "short", "bad", "good"}
Pcs == {"idle", "probe", "open", "fill", "rename", "commit", "account", "rebind", "swap",
        "fast", "slow", "range", "hit", "wrong", "drop_file", "drop_row", "drop_count", "scrub",
        "evict", "evict_rows", "evict_txn", "evict_files", "evict_count", "clear_files", "clear_count"}

\* The state is well formed, and the open files kept are those in the queue, at most FD_CAP.
TypeOK ==
    /\ file \in [Hash -> Content] /\ tmp \in [Hash -> Content \ {"bad"}]
    /\ held \in [Hash -> Content \cup {"path"}]
    /\ ToSet(fds) = {h \in Hash : held[h] # "none"} /\ Len(fds) <= FD_CAP
    /\ db \in Store /\ disk \in Store /\ total \in 0 .. WIDTH - 1 /\ hot \subseteq Hash
    /\ \A t \in Thread :
         /\ th[t].pc \in Pcs /\ th[t].job \in {"none", "chunk", "final", "read", "scrub", "clear"}
         /\ th[t].k \in Key /\ th[t].o \in Off /\ th[t].h \in Hash \cup {NoHash}
         /\ th[t].n \in Nat /\ th[t].vs \subseteq Hash
    /\ pend \in BOOLEAN /\ timers \in [asleep : Nat, due : Nat] /\ n \in [op : Nat, rot : Nat, kill : Nat]
    /\ raced \in BOOLEAN /\ owed \in BOOLEAN /\ warm \subseteq [k : Key, o : Off, h : Hash]

\* What threads have still to take from the count, and to add to it, for what their
\* transactions have done to the rows.
Takes(t) ==
    CASE th[t].pc = "drop_count" /\ th[t].n = 1 -> {th[t].h}
      [] th[t].pc \in {"evict_files", "evict_count"} -> th[t].vs
      [] OTHER -> {}
ToTake  == {p \in Thread \X Hash : p[2] \in Takes(p[1])}
Adds(t) == th[t].pc = "account" /\ th[t].n = 1
ToAdd   == {t \in Thread : Adds(t)}

\* total_bytes is the sum of the rows, but for what threads have still to account
\* for: every interleaving of ingests, evictions, drops, scrubs and restarts keeps
\* it exact, except that an eviction whose victim another thread has removed
\* subtracts it again, and a clear during other work loses that work's count.
ExactUnlessRaced ==
    raced \/ Running("clear") # {}
          \/ total = Wrap(Cardinality(db.rows) + Cardinality(ToTake) - Cardinality(ToAdd))

\* The count is the sum of the rows whenever nothing is in progress.
\* The code does not keep it: README, Known exceptions.
KeptExact == (\A t \in Thread : th[t] = Idle) => total = Cardinality(db.rows)

\* A chunk ingested from the guest, and not removed or damaged since, is served,
\* and would be after an end of the process at this moment: its manifest is in the
\* durable tables and its file in place.
WarmSurvives ==
    \A w \in warm : file[w.h] = "good" /\ db.man[w.k][w.o] = w.h /\ disk.man[w.k][w.o] = w.h

\* A finished write-ingest that is not durable yet has a persist coming: the flag
\* that keeps a second timer from starting is taken back before the first persists.
PersistComing == owed => timers.asleep + timers.due > 0

\* What a thread shows of its reading: nothing, the hash it last found, what it was given.
Seen(pc, h) == [pc |-> pc, hash |-> h]
LookOf(t) ==
    IF th[t].job # "read" THEN Seen("idle", NoHash)
    ELSE Seen(IF th[t].pc \in {"hit", "wrong"} THEN "given" ELSE "found",
              IF th[t].pc = "wrong" THEN NoHash ELSE th[t].h)

\* The store, with its files, its transactions and its races, is the store its
\* readers are promised.
Promised == INSTANCE ContentStore WITH
    bound <- db.man, durable <- disk.man, look <- [t \in Thread |-> LookOf(t)]
KeepsPromise == Promised!Spec
=============================================================================
