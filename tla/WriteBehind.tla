---------------------------- MODULE WriteBehind ----------------------------
(***************************************************************************)
(* The write path of one file of a share (ShareSurface in                  *)
(* crates/mist-hostd/src/surface.rs): UNSTABLE writes are answered as soon *)
(* as they are queued and fly to the guest in tasks of their own; COMMIT,  *)
(* FILE_SYNC writes and reads first wait for them.                         *)
(*                                                                         *)
(* A write is a number; a block of the file holds the number of the write  *)
(* it was last written by, in the guest's page cache and on its disk.  The *)
(* client is an NFS client: it has no two overlapping writes unanswered.   *)
(* Times are left out: the reaper (20 s) and the cleanup after a COMMIT    *)
(* (10 s) may run whenever the entry has no batch in flight.  The stash of *)
(* payloads for the content store is left out, and so is truncation.       *)
(***************************************************************************)
EXTENDS Integers, Sequences, FiniteSets

CONSTANTS
    Block,                  \* blocks of the file
    WRITE_BEHIND_SLOTS,     \* batches in flight, per share
    BootNonce,              \* the write verifier is the host's boot nonce (NFSv4.1), or fixed (v3)
    MaxWrite,               \* bound: writes
    MaxOther,               \* bound: permits held by others when another file takes one
    MaxOp,                  \* bound: COMMITs, reads and FILE_SYNC writes
    MaxFail,                \* bound: batches that fail or time out
    MaxCrash                \* bound: restarts of the host or the guest

ASSUME WriteBehindAssumption ==
    /\ IsFiniteSet(Block) /\ WRITE_BEHIND_SLOTS \in Nat \ {0} /\ BootNonce \in BOOLEAN
    /\ {MaxWrite, MaxOther, MaxOp, MaxFail, MaxCrash} \subseteq Nat

VARIABLES
    wr,         \* the writes, in the order the client sent them
    map,        \* the entry of the file in the writes map, 0 when there is none
    ent,        \* every NodeWrites made: dirty, err, tail (the last batch of chain_tail)
    op,         \* the COMMITs, reads and FILE_SYNC writes
    free,       \* permits left in write_slots, which all files of the share use
    busy,       \* permits held by batches of other files and by advisory Commits
    cache,      \* the guest's page cache
    disk,       \* the guest's disk
    late,       \* write requests the host gave up on and the guest may still serve
    verf,       \* the write verifier
    crashes,    \* restarts so far
    told,       \* history: writes whose failure a COMMIT has reported
    wiped,      \* history: writes a restart of the guest took from the page cache
    stale       \* history: blocks where a batch of a dropped entry, or a request
                \* given up on, overwrote a newer write

slotvars  == <<free, busy>>
hostvars  == <<wr, map, ent, op, slotvars>>
guestvars == <<cache, disk, late>>
vars == <<hostvars, guestvars, verf, crashes, told, wiped, stale>>

Writes == 1 .. Len(wr)
None   == 0

\* A batch is in flight from its registration until its range is removed.
InFlight(q) == {w \in Writes : wr[w].q = q /\ wr[w].pc \in {"queued", "landed"}}
\* Batches that hold a permit of write_slots.
Holding == {w \in Writes : wr[w].pc \in {"held", "queued", "landed"}}
\* The client has its answer: the write is the server's to keep.
Acked == {w \in Writes : ~ wr[w].sync /\ wr[w].pc \in {"queued", "landed", "done", "lost"}}
Unanswered(b) == {w \in Writes : wr[w].b = b /\ wr[w].pc \in {"slot", "held", "sync"}}
Failures == Cardinality({w \in Writes : wr[w].failed})

Init ==
    /\ wr = <<>> /\ map = None /\ ent = <<>> /\ op = <<>>
    /\ free = WRITE_BEHIND_SLOTS /\ busy = 0
    /\ cache = [b \in Block |-> 0] /\ disk = [b \in Block |-> 0] /\ late = {}
    /\ verf = 0 /\ crashes = 0
    /\ told = {} /\ wiped = {} /\ stale = {}

NewWrite(b, sync) ==
    [b |-> b, sync |-> sync, pc |-> IF sync THEN "sync" ELSE "slot", q |-> None,
     prev |-> None, orphan |-> FALSE, failed |-> FALSE, verf |-> verf]

-----------------------------------------------------------------------------
(***************************************************************************)
(* UNSTABLE writes.                                                        *)
(***************************************************************************)
\* A write arrives; from here it waits for a permit.
Arrive(b) ==
    /\ Len(wr) < MaxWrite /\ Unanswered(b) = {}
    /\ wr' = Append(wr, NewWrite(b, FALSE))
    /\ UNCHANGED <<map, ent, op, slotvars, guestvars, verf, crashes, told, wiped, stale>>

\* The permit, and node_writes: the entry of the map, a new one if need be.
TakeSlot(w) ==
    /\ wr[w].pc = "slot" /\ free > 0 /\ free' = free - 1
    /\ IF map = None
       THEN /\ ent' = Append(ent, [dirty |-> FALSE, err |-> FALSE, tail |-> None])
            /\ map' = Len(ent) + 1
       ELSE UNCHANGED <<ent, map>>
    /\ wr' = [wr EXCEPT ![w].pc = "held", ![w].q = map']
    /\ UNCHANGED <<op, busy, guestvars, verf, crashes, told, wiped, stale>>

\* Mutant: the batch does not wait for the one before it.
QueueUnchained(w) ==
    LET q == wr[w].q
    IN  /\ wr[w].pc = "held"
        /\ wr' = [wr EXCEPT ![w].pc = "queued", ![w].orphan = (q # map), ![w].verf = verf]
        /\ ent' = [ent EXCEPT ![q].dirty = TRUE, ![q].tail = w]
        /\ UNCHANGED <<map, op, slotvars, guestvars, verf, crashes, told, wiped, stale>>

\* Mutant: the batch becomes the tail of the chain before it asks for the tail.
QueueAfterItself(w) ==
    LET q == wr[w].q
    IN  /\ wr[w].pc = "held"
        /\ wr' = [wr EXCEPT ![w].pc = "queued", ![w].prev = w, ![w].orphan = (q # map), ![w].verf = verf]
        /\ ent' = [ent EXCEPT ![q].dirty = TRUE, ![q].tail = w]
        /\ UNCHANGED <<map, op, slotvars, guestvars, verf, crashes, told, wiped, stale>>

\* The batch is registered with the entry found before, which may have been
\* dropped from the map since, chained to the batch before it, and answered.
Queue(w) ==
    LET q == wr[w].q
    IN  /\ wr[w].pc = "held"
        /\ wr' = [wr EXCEPT ![w].pc = "queued", ![w].prev = ent[q].tail,
                            ![w].orphan = (q # map), ![w].verf = verf]
        /\ ent' = [ent EXCEPT ![q].dirty = TRUE, ![q].tail = w]
        /\ UNCHANGED <<map, op, slotvars, guestvars, verf, crashes, told, wiped, stale>>

\* write_through: the guest has the data, or the call failed, or it timed out
\* and the guest may yet get to it.  The next batch is let go in any case.
Land(w, r) ==
    LET b == wr[w].b
        prev == wr[w].prev
    IN  /\ wr[w].pc = "queued"
        /\ prev # None => wr[prev].pc \notin {"held", "queued"}
        /\ r # "ok" => Failures < MaxFail
        /\ wr' = [wr EXCEPT ![w].pc = "landed", ![w].failed = (r # "ok")]
        /\ cache' = IF r = "ok" THEN [cache EXCEPT ![b] = w] ELSE cache
        /\ late' = IF r = "timeout" THEN late \cup {w} ELSE late
        /\ stale' = IF r = "ok" /\ wr[w].orphan /\ cache[b] > w THEN stale \cup {b} ELSE stale
        /\ UNCHANGED <<slotvars, map, ent, op, disk, verf, crashes, told, wiped>>

\* Mutant: the permit is forgotten when the task ends.
ReleaseNot == UNCHANGED free

\* A task ends and drops its permit.
Release == free' = free + 1

\* The end of the task: a failure is kept in err, the range removed.
Finish(w) ==
    /\ wr[w].pc = "landed"
    /\ wr' = [wr EXCEPT ![w].pc = "done", ![w].q = None, ![w].prev = None]
    /\ ent' = [ent EXCEPT ![wr[w].q].err = @ \/ wr[w].failed]
    /\ Release
    /\ UNCHANGED <<map, op, busy, guestvars, verf, crashes, told, wiped, stale>>

\* A batch of another file of the share takes a permit, and ends.  So does a
\* task of this file that keeps its permit for the advisory Commit (see Flush):
\* it is a batch that ends and another that starts.
OtherTakes ==
    /\ free > 0 /\ busy < MaxOther
    /\ free' = free - 1 /\ busy' = busy + 1
    /\ UNCHANGED <<wr, map, ent, op, guestvars, verf, crashes, told, wiped, stale>>
OtherEnds ==
    /\ busy > 0 /\ busy' = busy - 1 /\ Release
    /\ UNCHANGED <<wr, map, ent, op, guestvars, verf, crashes, told, wiped, stale>>

-----------------------------------------------------------------------------
(***************************************************************************)
(* COMMIT of the file ("commit") or a range of it ("range"), "read", and   *)
(* FILE_SYNC write ("sync").                                               *)
(***************************************************************************)
Kind == {"commit", "range", "read", "sync"}

\* drain_writes_range, its start: an entry with no batch in flight is left alone.
Waits == IF map # None /\ InFlight(map) # {} THEN map ELSE None

\* An operation on the blocks in r; w is the write of a FILE_SYNC write.
NewOp(k, r, w, q) ==
    [kind |-> k, r |-> r, w |-> w, pc |-> "drain", q |-> q, skip |-> FALSE,
     val |-> 0, owed |-> Acked \ told]

\* Mutant: a read does not wait for the batches in flight.
BeginUndrained(k, r) ==
    /\ Len(op) < MaxOp
    /\ IF k = "sync"
       THEN \E b \in r : Len(wr) < MaxWrite /\ Unanswered(b) = {} /\ wr' = Append(wr, NewWrite(b, TRUE))
       ELSE UNCHANGED wr
    /\ op' = Append(op, NewOp(k, r, IF k = "sync" THEN Len(wr') ELSE None, IF k = "read" THEN None ELSE Waits))
    /\ UNCHANGED <<map, ent, slotvars, guestvars, verf, crashes, told, wiped, stale>>

\* The request arrives.
Begin(k, r) ==
    /\ Len(op) < MaxOp
    /\ IF k = "sync"
       THEN \E b \in r : Len(wr) < MaxWrite /\ Unanswered(b) = {} /\ wr' = Append(wr, NewWrite(b, TRUE))
       ELSE UNCHANGED wr
    /\ op' = Append(op, NewOp(k, r, IF k = "sync" THEN Len(wr') ELSE None, Waits))
    /\ UNCHANGED <<map, ent, slotvars, guestvars, verf, crashes, told, wiped, stale>>

IsCommit(i) == op[i].kind \in {"commit", "range"}

\* Operation i is answered; what it knew is forgotten.
Over(pc) == [kind |-> "none", r |-> {}, w |-> None, pc |-> pc, q |-> None,
             skip |-> FALSE, val |-> 0, owed |-> {}]
Answered(i, pc) == [op EXCEPT ![i] = Over(pc)]

\* A failed COMMIT makes the client send its data again; the write of a failed
\* FILE_SYNC write is over.
Fail(i) ==
    /\ op' = Answered(i, "err")
    /\ told' = IF IsCommit(i) THEN told \cup op[i].owed ELSE told
    /\ wr' = IF op[i].kind = "sync" THEN [wr EXCEPT ![op[i].w].pc = "refused"] ELSE wr

\* drain_writes_range, its end: no batch in flight meets the range.  A failure
\* kept by the entry waited for is taken and ends the operation.
Drained(i) ==
    LET q == op[i].q
        meets == {w \in InFlight(q) : IsCommit(i) => wr[w].b \in op[i].r}
    IN  /\ op[i].pc = "drain"
        /\ q # None => meets = {}
        /\ IF q # None /\ ent[q].err
           THEN Fail(i) /\ ent' = [ent EXCEPT ![q].err = FALSE]
           ELSE /\ op' = [op EXCEPT ![i].pc = IF op[i].kind = "commit" THEN "check" ELSE "rpc"]
                /\ UNCHANGED <<ent, told, wr>>
        /\ UNCHANGED <<map, slotvars, guestvars, verf, crashes, wiped, stale>>

\* commit: a clean file has nothing to make durable.
CheckDirty(i) ==
    /\ op[i].pc = "check"
    /\ IF map # None /\ ent[map].dirty
       THEN ent' = [ent EXCEPT ![map].dirty = FALSE] /\ op' = [op EXCEPT ![i].pc = "rpc"]
       ELSE op' = [Answered(i, "ok") EXCEPT ![i].skip = TRUE] /\ UNCHANGED ent
    /\ UNCHANGED <<wr, map, slotvars, guestvars, verf, crashes, told, wiped, stale>>

\* commit: CommitRange in the guest.  The whole file is an fdatasync.  A range
\* is a sync_file_range: its pages are written out, and what a restart leaves
\* of them, without the metadata that leads to them, is anybody's guess.
CommitRpc(i) ==
    /\ op[i].pc = "rpc" /\ IsCommit(i)
    /\ \E out \in SUBSET op[i].r :
          /\ op[i].kind = "commit" => out = op[i].r
          /\ disk' = [b \in Block |-> IF b \in out THEN cache[b] ELSE disk[b]]
    /\ op' = Answered(i, "ok")
    /\ UNCHANGED <<slotvars, wr, map, ent, cache, late, verf, crashes, told, wiped, stale>>

\* read: from the guest, as for every file the Mac has just written.
ReadRpc(i) ==
    /\ op[i].pc = "rpc" /\ op[i].kind = "read"
    /\ \E b \in op[i].r : op' = [Answered(i, "ok") EXCEPT ![i].val = cache[b]]
    /\ UNCHANGED <<wr, map, ent, slotvars, guestvars, verf, crashes, told, wiped, stale>>

\* FILE_SYNC write: pwrite and fdatasync in one call.
SyncRpc(i) ==
    LET w == op[i].w
    IN  /\ op[i].pc = "rpc" /\ op[i].kind = "sync"
        /\ cache' = [cache EXCEPT ![wr[w].b] = w]
        /\ disk' = cache'
        /\ op' = Answered(i, "ok")
        /\ wr' = [wr EXCEPT ![w].pc = "done"]
        /\ UNCHANGED <<slotvars, map, ent, late, verf, crashes, told, wiped, stale>>

\* The call failed.  After a failed commit the file is not clean.
RpcFails(i) ==
    /\ op[i].pc = "rpc"
    /\ Fail(i)
    /\ ent' = IF IsCommit(i) /\ map # None THEN [ent EXCEPT ![map].dirty = TRUE] ELSE ent
    /\ UNCHANGED <<map, slotvars, guestvars, verf, crashes, wiped, stale>>

\* The reaper, the task a COMMIT leaves behind, and remove: the entry goes when
\* no batch is in flight, whatever dirty and err say.
DropIdle ==
    /\ map # None /\ InFlight(map) = {}
    /\ map' = None
    /\ UNCHANGED <<wr, ent, op, slotvars, guestvars, verf, crashes, told, wiped, stale>>

-----------------------------------------------------------------------------
(***************************************************************************)
(* The guest, and restarts.                                                *)
(***************************************************************************)
\* Writeback by the guest's kernel, or the advisory Commit of PRESYNC_BYTES.
Flush(b) ==
    /\ disk[b] # cache[b]
    /\ disk' = [disk EXCEPT ![b] = cache[b]]
    /\ UNCHANGED <<hostvars, cache, late, verf, crashes, told, wiped, stale>>

\* The guest serves a write that the host has given up on.
LandLate(w) ==
    /\ w \in late
    /\ late' = late \ {w}
    /\ cache' = [cache EXCEPT ![wr[w].b] = w]
    /\ stale' = IF cache[wr[w].b] > w THEN stale \cup {wr[w].b} ELSE stale
    /\ UNCHANGED <<hostvars, disk, verf, crashes, told, wiped>>

\* The guest restarts: what was in its page cache only is gone.
GuestRestart ==
    /\ crashes < MaxCrash /\ crashes' = crashes + 1
    /\ cache' = disk /\ late' = {}
    /\ wiped' = wiped \cup {w \in Writes : disk[wr[w].b] < w /\ w <= cache[wr[w].b]}
    /\ UNCHANGED <<hostvars, disk, verf, told, stale>>

\* Mutant: the verifier survives a restart of the host.
HostRestartSameVerf ==
    /\ crashes < MaxCrash /\ crashes' = crashes + 1
    /\ wr' = [w \in Writes |-> [wr[w] EXCEPT !.pc =
                 IF @ \in {"queued", "landed"} THEN "lost" ELSE IF @ \in {"done", "lost"} THEN @ ELSE "refused"]]
    /\ op' = [i \in DOMAIN op |-> IF op[i].pc = "ok" THEN op[i] ELSE Over("err")]
    /\ map' = None /\ free' = WRITE_BEHIND_SLOTS /\ busy' = 0
    /\ UNCHANGED <<verf, ent, guestvars, told, wiped, stale>>

\* The host restarts: batches not yet in the guest are gone, requests in
\* progress come to nothing.
HostRestart ==
    /\ crashes < MaxCrash /\ crashes' = crashes + 1
    /\ wr' = [w \in Writes |-> [wr[w] EXCEPT !.pc =
                 IF @ \in {"queued", "landed"} THEN "lost" ELSE IF @ \in {"done", "lost"} THEN @ ELSE "refused"]]
    /\ op' = [i \in DOMAIN op |-> IF op[i].pc = "ok" THEN op[i] ELSE Over("err")]
    /\ map' = None /\ free' = WRITE_BEHIND_SLOTS /\ busy' = 0
    /\ verf' = IF BootNonce THEN verf + 1 ELSE verf
    /\ UNCHANGED <<ent, guestvars, told, wiped, stale>>

-----------------------------------------------------------------------------
Batches == \E w \in Writes : \/ TakeSlot(w) \/ Queue(w) \/ Finish(w)
                             \/ \E r \in {"ok", "fail", "timeout"} : Land(w, r)

Serves == \E i \in DOMAIN op : \/ Drained(i) \/ CheckDirty(i) \/ CommitRpc(i)
                               \/ ReadRpc(i) \/ SyncRpc(i) \/ RpcFails(i)

Next ==
    \/ \E b \in Block : Arrive(b) \/ Flush(b) \/ \E k \in Kind \ {"commit"} : Begin(k, {b})
    \/ Begin("commit", Block)
    \/ Batches \/ OtherTakes \/ OtherEnds \/ Serves
    \/ DropIdle
    \/ \E w \in late : LandLate(w)
    \/ GuestRestart \/ HostRestart

Spec == Init /\ [][Next]_vars

\* Every task runs and every call returns: RPC_TIMEOUT ends the ones the guest
\* does not answer.  The semaphore serves its waiters in turn, so a write that
\* waits gets a permit however often other files take one.
FairSpec ==
    /\ Spec
    /\ WF_vars(Batches) /\ WF_vars(OtherEnds) /\ WF_vars(Serves)
    /\ SF_vars(\E w \in Writes : TakeSlot(w))

-----------------------------------------------------------------------------
(***************************************************************************)
(* Properties.                                                             *)
(***************************************************************************)
\* Every variable has its type; no batch is chained to itself, and no permit
\* of write_slots is lost or made: each is free, or held by a batch.
TypeOK ==
    /\ \A w \in Writes :
          /\ wr[w].b \in Block /\ wr[w].sync \in BOOLEAN /\ wr[w].failed \in BOOLEAN
          /\ wr[w].pc \in {"slot", "held", "queued", "landed", "done", "lost", "sync", "refused"}
          /\ wr[w].q \in 0 .. Len(ent) /\ wr[w].prev \in (0 .. Len(wr)) \ {w} /\ wr[w].verf \in 0 .. verf
    /\ map \in 0 .. Len(ent)
    /\ \A q \in DOMAIN ent : ent[q] \in [dirty : BOOLEAN, err : BOOLEAN, tail : 0 .. Len(wr)]
    /\ \A i \in DOMAIN op :
          /\ op[i].kind \in Kind \cup {"none"} /\ op[i].r \subseteq Block /\ op[i].owed \subseteq Writes
          /\ op[i].pc \in {"drain", "check", "rpc", "ok", "err"}
    /\ cache \in [Block -> 0 .. Len(wr)] /\ disk \in [Block -> 0 .. Len(wr)]
    /\ late \subseteq Writes /\ told \subseteq Writes /\ wiped \subseteq Writes
    /\ stale \subseteq Block /\ verf \in Nat /\ crashes \in 0 .. MaxCrash
    /\ free \in Nat /\ busy \in Nat
    /\ free + busy + Cardinality(Holding) = WRITE_BEHIND_SLOTS

\* Operation i is answered with success in this step.
Succeeds(i) == i \in DOMAIN op /\ op[i].pc # "ok" /\ op'[i].pc = "ok"
\* The writes its success vouches for: answered before it came, with the
\* verifier it is answered with, within its range.
Covered(i) == {w \in op[i].owed : /\ wr[w].verf = verf
                                  /\ op[i].kind # "sync" => wr[w].b \in op[i].r}
\* The write failed, or was lost in one of the ways that no COMMIT notices: its
\* batch had an entry that was dropped or was overtaken by a late one, or the
\* guest restarted under an unchanged verifier.
Gone(w) == wr[w].failed \/ wr[w].orphan \/ w \in wiped \/ wr[w].b \in stale

\* A COMMIT of the file that went to the guest and a FILE_SYNC write that
\* succeeded leave on the guest's disk every write answered before them: they
\* waited for the batches in flight (drain_writes_range, commit).  A COMMIT of a
\* range has waited for those of its range, which are in the guest; no more is
\* claimed of it (msg.rs:215, "the close-time full commit restores complete
\* durability").
BarrierDurable ==
    [][\A i \in DOMAIN op : Succeeds(i) /\ ~ op'[i].skip =>
          \A w \in Covered(i) : \/ Gone(w)
                                \/ /\ op[i].kind \in {"commit", "sync"} => disk'[wr[w].b] >= w
                                   /\ op[i].kind = "range" => cache'[wr[w].b] >= w]_vars

\* A read returns what was answered to the writer before it came (read: queued
\* write-behind batches must land in the guest before any guest fetch).
ReadFresh ==
    [][\A i \in DOMAIN op : Succeeds(i) /\ op[i].kind = "read" =>
          \A w \in Covered(i) : Gone(w) \/ op'[i].val >= w]_vars

\* Overlapping writes reach the guest in the order of the client, unless the
\* batch was registered with a dropped entry, timed out, or the guest restarted
\* (chain_tail).
OverlapsInOrder ==
    [][\A b \in Block : cache'[b] < cache[b] =>
          crashes' # crashes \/ b \in stale']_vars

\* Every batch leaves the queue and every request is answered, whatever fails:
\* no waiter is forgotten and no slot leaks (done_tx, pending_ranges, permit).
AllAnswered ==
    <>[](/\ \A w \in Writes : wr[w].pc \in {"done", "lost", "refused"}
         /\ \A i \in DOMAIN op : op[i].pc \in {"ok", "err"})

\* A background failure is reported by the next COMMIT (NodeWrites.err): none
\* succeeds over a batch that failed and that no COMMIT has reported.
\* The code does not keep it: README, Known exceptions.
FailureReported ==
    [][\A i \in DOMAIN op : Succeeds(i) /\ op[i].kind = "commit" =>
          \A w \in Covered(i) : ~ wr[w].failed \/ disk'[wr[w].b] >= w]_vars

\* A COMMIT that is not sent to the guest had nothing to make durable
\* (NodeWrites.dirty).
\* The code does not keep it: README, Known exceptions.
CleanIsDurable ==
    [][\A i \in DOMAIN op : Succeeds(i) /\ op'[i].skip =>
          \A w \in Covered(i) : Gone(w) \/ disk'[wr[w].b] >= w]_vars

=============================================================================
