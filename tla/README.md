# A TLA+ development for Mist

Mist shows a directory of a Linux guest on a Mac. A daemon in the guest (`mistd`)
watches the directory and applies changes; a daemon on the Mac (`mist-hostd`) keeps
a replica of the metadata, serves it over NFS to the macOS client, and sends the
Mac's writes to the guest. This directory models the parts of that system whose
correctness depends on order: which step of which thread, task or machine comes
first. TLC checks the models on small instances; TLAPS proves the theorems in the
`*Proofs` modules for every instance.

Paths below are relative to `src/crates/` unless they start with `design/`.

## 1. The system

### Parts, their state and their operations

| Part | State | Operations |
|---|---|---|
| Metadata replica, `mist-replica/src/lib.rs` | sharded node table (attributes, link count, parent), one table of entries per directory with cookies and `dirgen`, three statistics, stash of records for unknown nodes | `apply_snap_dir`, `finish_snapshot`, `apply_rec` of each `Rec`, reads |
| Change journal, `mistd/src/linux/{fanotify,journal}.rs` | kernel queue, bounded channel, batch and sequence number, broadcast hub | `reader_loop`, `synthesize`, `batcher`, `subscribe` |
| Walker, `mistd/src/linux/walker.rs` | frontier of directories, snapshot id | `walk`, `scan_dir`, `SnapDone` |
| Guest server, `mistd/src/linux/server.rs` | sessions, lanes | handshake, `SnapshotStart`, `journal_writer`, `bulk_writer`, `rpc_loop`, `dispatch` |
| Guest applier, `mistd/src/linux/applier.rs` | cached write descriptors | `write`, `commit`, `commit_range`, namespace operations |
| Host session, `mist-hostd/src/session.rs` | session state, `Assembler` (staging replicas, buffered batches, expected sequence numbers), live replica per share, pending calls | `supervise`, `run_session`, `begin`, `on_event`, `finish_seed`, `on_journal`, `request_resync`, `RpcClient::call`, ping |
| Surface, `mist-hostd/src/surface.rs` | `NodeWrites` per file: batches in flight, ranges, chain, `dirty`, `err`, stash; permits | `read`, `write`, `commit`, `setattr`, namespace operations, reaper |
| NFSv3 and NFSv4.1 servers, `mist-nfs/src` | file handle codec, write verifier; clients, sessions, slots, opens, locks, delegations | the procedures; recall |
| Content store, `mist-cas/src/lib.rs` | blobs, manifests, access times, byte count | ingest, read, evict, scrub, rebind, drop |
| Conflict copies, side store, endpoint resolution, mounting, control socket (`mist-hostd/src`) | records of recent Mac writes; AppleDouble files by name; probe results; mounts | see `components` in `PROJECT.json` |

### How they interact

```
 guest processes                                             macOS NFS client
       |                                                            |
   fanotify queue -> reader -> channel -> batcher -> hub            | NFSv3 / NFSv4.1
                                                      | journal lane |
   walker -------------- bulk lane ------------------ |              v
                                                      v         ShareSurface
                                            Assembler -> replica <--- reads
   applier <---------------------- rpc lanes ------------------------ writes, COMMIT
```

The journal lane and the bulk lane are served by two tasks of the host; the
surface by one task per request; every UNSTABLE write by a task of its own. They
share the staging map, the sequence numbers, the live replica and the table of
`NodeWrites`, each behind a lock of its own that no operation holds throughout.

### What is hard

- a consistent cut: a walk over a changing tree, the journal that runs beside it,
  the replay of what was buffered, and the swap of the live replica;
- losses: kernel queue, channel and broadcast are bounded, and each reports a loss
  in its own way, through the same path the loss occurred on;
- records that repeat or precede what the replica already has: link counts decide
  which nodes are collected;
- write-behind: answers before effects, failures after answers, timeouts racing late
  effects, restarts of either machine between a write and its COMMIT;
- readdir cookies while entries come and go;
- a cache keyed by attributes that four parties set, filled by reads and writes that
  overlap the change of the key.

`hazards` in `PROJECT.json` lists each at its line with the properties aimed at it.

### What makes each part correct

| Part | Property |
|---|---|
| replica | no named node is collected; cookies are distinct and never reused; statistics exact; a stash is applied once, and what is said after it stays; the index of a directory and its compaction are invisible |
| journal, walker, session | when everything has drained the replica equals the guest; readers never see a half-built tree; resyncs come to an end; a lost lane or a restart ends in a working session |
| the names of a share | whoever creates, links, renames or removes, the replica ends with the guest's names, and a listing the Mac keeps is what the replica shows |
| surface, applier | a successful COMMIT of the file or FILE_SYNC write leaves the answered writes on the guest's disk, one of a range in the guest; reads see the client's writes; overlapping writes stay in order; everything is answered |
| calls | a read has its own bytes, in order; every call returns and leaves nothing behind |
| NFSv4.1 | a guest change reaches a client that holds a delegation, or the delegation ends; a repeated request runs once and is answered with what it came to; client and server agree on what is open |
| READDIR | a listing gives each entry that stays exactly once, and ends |
| content cache | what is held under the key in force is the content of the file |
| content store | a reader is given the bytes a manifest it looked up named, or nothing; what was ingested survives a crash; the byte count is exact |

## 2. Modules

| Module | Models | Extends |
|---|---|---|
| `Tree` | the namespace of a replica as a value and each operation on it as an operator | |
| `Replica` | `ShareReplica`: seeding, then journal records, attributes, stash | `Tree` |
| `DirTable` | abstract: the directory a client lists, a table of names with cookies | |
| `Listing` | `DirState` with tombstones, index and compaction, and READDIR over both NFS versions; implements `DirTable` | |
| `Namespace` | names made by the guest and by the Mac, from the system call to the listing the Mac keeps: applier, fanotify, journal, walk, surface, replica lock by lock | |
| `Sync` | guest changes on their way to the live replica, with every queue and lock boundary | |
| `Lanes` | the life of a session: dialling, handshake, lanes, pings, loss, restarts | |
| `Rpc` | calls and streamed reads over the lanes of a session | |
| `WriteBehind` | the write path of one file, with failures and restarts | |
| `Sessions` | NFSv4.1 clients, sessions, slots with the reply cache, opens and locks | |
| `Delegations` | read delegations of the NFSv4.1 server and the recalls that end them | |
| `ContentCache` | the content of one file: reads through the content store, the key that names a content, the chunk made from written data | |
| `ContentStore` | abstract: what the content store promises its readers | |
| `Cas` | the content store: chunk files, tables, durability, eviction, scrub, crash; implements `ContentStore` | |
| `ReplicaProofs`, `SyncProofs`, `LanesProofs`, `RpcProofs`, `WriteBehindProofs`, `SessionsProofs`, `DelegationsProofs`, `CasProofs` | inductive invariants, lemmas and theorems (section 4) | the module named, TLAPS |
| `MC...` | instances for TLC: symmetry sets and the constants a configuration cannot write | the module named |

A definition that precedes another and is used by nothing, such as `CompactRenumbers`
before `Compact`, is not part of the model: it is a plausible mistake in the
definition it precedes, kept to show that the properties notice it (`mutants` in
`PROJECT.json`).

### `Tree` and `Replica`

A tree is a record: `live`, `isDir`, `complete` (sets of nodes), `links`, `parent`,
`ent` and `cookie` (per directory and name), `next` and `gen` (`next_cookie`,
`dirgen`), and the three statistics. Every operation maps trees to trees.

`remove_node` is recursive in the code: it removes a node's entries, each of which
drops a link, which may remove another node. `Doomed` is the set that recursion
removes: the least set that holds the given nodes and every node, the root
excepted, whose last link goes when the set's own links are dropped. Writing it as
a least set keeps the module free of recursion, and it is what the proofs use.

`Replica` enumerates records freely: a snapshot record may list anything under a
directory already listed, and journal records come in any order. That is wider than
what one guest produces at one time and is what the code faces, because a replay
presents changes the walk has already seen and a walk of a moving tree lists a state
that never existed. Attributes are a `stat` value and a content version; a stash,
which is replayed in order, is kept as its effect.

### `Sync`

The contents of a directory are the number of the change that made them; a scan
reads it and a record carries it. Carrying the number is the worst case: `Removed`
and `Renamed` act by name whenever they are applied, while `Created` and
`AttrChanged` read the file when the event is processed and would carry something
newer. Snapshot ids are counted, not random. `on_journal` is three steps (staging
lock, choice of the replica, sequence lock and application) and `finish_seed` three
(staging lock; replay and swap; sequence lock), because those are the places where
the other may run. The batcher's timer is left out: a batch of any size up to
`MAX_RECORDS` may be cut at any time.

`due` is history. It names the reasons for which the share needs a snapshot nobody
has asked for; `Converged` is the promise without such a reason. The reasons are told
under "Known exceptions".

### `WriteBehind`

A write is a number, a block holds the number of the write it was last written by,
in the guest's page cache and on its disk. The client is an NFS client: it does not
send overlapping writes before it has the answer to the first. The reaper's 20 s and
the cleanup's 10 s are left out; an entry with nothing in flight may go at any time.
`wr[w].pc` follows a batch: `slot` (waits for a permit), `held` (entry looked up),
`queued` (registered, chained and answered), `landed` (the call has returned),
`done`. The share has `commit = fsync`: a COMMIT of the file is an `fdatasync`. A
COMMIT of a range is a `sync_file_range`, which starts the write-out and makes no
promise; in `CommitRpc` any part of the range reaches the disk.

The permits of `write_slots` belong to all files of the share. `free` is the
semaphore, `busy` what other files and advisory Commits hold of it: they take permits
at any time and without end (`OtherTakes`, `OtherEnds`), so that a write of this file
may find none and wait.

### `Delegations`

The content of a node is the number of changes made to it. `on_journal` announces a
node on the broadcast (`Announce`) and then applies the record (`Apply`);
`finish_seed` replaces the replica and announces nothing (`Reseed`). A task of the
mount takes the announcements one by one (`RecallNode`), and each recall is a task of
its own: it sends CB_RECALL over the connection its session is bound to
(`SendRecall`) and at its deadline takes the delegation away (`Revoke`). Without a
back channel `recall_node` revokes at once, but after it has released the table
(`RevokeUnbound`). A connection becomes the back channel of a session the first time
it carries it (`Bind`) and its end unbinds all the sessions it ever carried (`Eof`).
The compound of an OPEN runs in three steps (grant, GETATTR, reply) and goes on when
its connection is gone.

The client is external: it keeps what the compound said while it believes in the
delegation and gives it back when told. The reply cache is in `Sessions` (here a reply
lost with its connection stays lost), and so are the client's own writes, whose echoes are
not announced. The two seconds of a recall may be over at any time.

### `ContentCache`

One file, one chunk of a few blocks; a block holds the number of the write it was
last written by. The key under which a content is stored is a hash of the
attributes (`content_fingerprint`); the model uses the attributes themselves, time,
size and content version. They come from four places: the journal (`ApplyRec`,
which drops a record in the `mac_dirty` window as an echo), a resync (`Scan`,
`Swap`), the optimistic stamp of an UNSTABLE write (`WriteBegin` reads the
attributes, `WriteQueue` sets them from what it read) and the guest's answers to
FILE_SYNC writes, truncations and COMMITs (`SyncWrite`, `Truncate`, `Commit`, and
`Apply...` when the answer arrives). `mistd` drops the events of its own writes, so
every record is about a change made in the guest.

A read waits for the batches in flight and looks at the window (`ReadCheck`), makes
the key, and then hits the store or the memory of the surface, or fetches the chunk
and stores it under the key it made (`ReadMiss`, `ReadFetch`, `ReadIngest`).
`finalize_stash` puts a chunk together from the written data, stores it under
`WIP_FP` and binds it to the key (`Finalize`, `FinIngest`, `FinRebind`: two
transactions of one task). A write also spawns `drop_node`.

Times of the host are even and times of the guest odd, so that the two never agree;
the guest's clock is behind the host's after the first UNSTABLE write. The window of
5 s ends after a spawned `drop_node` has run; an entry with nothing
in flight may be dropped (10 s, 20 s) while one of its 150 ms timers runs, which then
keeps its stash (`LateTimer`). `era`, `told` and `sure` are history: how often the content has
changed, when the key in force came into force (-1 when the guest's attributes have
brought back one that is in use), and whether a chunk was right when it was made.

### `Cas` and `ContentStore`

The steps of a thread are what the code does between two points another thread can
run: a file operation, a transaction of the database (which has one writer), an
update of the byte count. An ingest writes a temporary file, renames it, inserts row
and manifest, counts, and then evicts when the count is over the limit. `db` is what
a transaction sees and `disk` what a crash leaves: a volatile commit changes the
first, a durable one both, with everything volatile before it. `Kill` ends the
process at any point. An open descriptor goes on holding the file it was opened on
after the path has been unlinked or replaced. The name of a temporary file is that of
its hash, so two threads with one chunk share it: a thread that has opened it may find,
when it comes to fill it, that it was renamed, removed or replaced by a newer one
(`FillTmp`).

`ContentStore` has only bindings of chunks to hashes, which of them are durable, and
lookups that are answered with the bound bytes or with nothing. `KeepsPromise` is the
refinement: `bound` is the manifests of `db`, `durable` those of `disk`, `look` the
part of a thread a reader sees.

### `Sessions`

A request carries session, slot and sequence id and the client repeats it on a new
connection when the old one is lost; what was on the old connection may still arrive.
The server looks at the slot when the request arrives (`Receive`), evaluates the
operation (`Eval`) and records id and reply only then (`Finish`): the compound runs
without a lock in between. `twice` and `result` are histories of what was run and
what came of it, `raced` of the slots where a repetition arrived during the run.

### `Lanes`

`supervise` is a control state of the host: it connects, waits for the HelloAck,
dials the lanes, installs the RPC client, asks for a snapshot, and runs until a task
of the session ends. The guest reads hellos, attaches lanes to its table, and waits
for a bulk lane up to `BULK_WAIT` before it drops a request for a snapshot; while it
waits its control loop answers no ping. Time is the host's ping ticker. A fault is a lane lost, a
peer gone silent, a restart of either daemon, or an attachment so slow that pings
miss. The content of the tree is the number of changes; `Sync` has the trees.

### `Rpc`

The RPC client's tables of waiters and sinks, its writer and reader tasks, the
guest's permits and tasks. A timeout may occur whenever a task waits. The frames of
a read travel on the bulk lanes (`LaneOf`), so that they can arrive before
the answer that announces them, after the read has given up, or never. An operation
of the guest may end in an error: a call returns that like any other answer (`Ok` stands
for both), a read takes its sink away and fails (`Err`, `Refused`). A `pread` that fails in the middle of a body ends it with an
empty last frame, as a file that has shrunk does (`Stream`); without a bulk lane the
body stops and no last frame comes (`StreamLost`).

### `Namespace`

A slot is a directory and a name, a file a number. A change in the guest is done at
once and leaves an event with the process it is of; the reader turns an event
into records when it comes to it, and a `Created` is what a stat of the name finds
then. `on_journal` and the calls of the Mac each have a program of steps on the
replica, one per shard lock (`prog`), and the programs interleave. A Mac call goes
through the NFS server (`Open`, `RemoveOp`, `RenameOp`), the applier in the guest
(`Apply`, then `EntryNode`, the stat by name), the surface after the answer
(`Answered`: `apply_rec`, `note_mac_dirty`, `bump_dir`), and its answer carries the
directory's attributes before and after (`Reply`, `Reply3`), from which the Mac
decides whether the listing it keeps is still good. The answer of the guest may be lost
with its lane or come too late (`GiveUp`): the Mac gets Jukebox, `apply_rec` is skipped,
and the applier, if it has not run yet, may still run, also after the client has
repeated the call (`late`, `ApplyLate`).

A change attribute is a pair of a time read from a clock and the nanoseconds that
`bump_dir_attr` has added; only whether two are equal matters, so a new time is any that
nobody has of that directory (`Clock`). A directory of the guest has one too (`mtime`), set by every
change of its names. The walk takes the attributes of the directories when it lists
their parent (`ScanRoot`: the `DirJob`), then their names, one directory at a time
(`ScanDir`); the records of the meantime are buffered, replayed without `bump_dir_attr`,
and the result is swapped in with the attributes the walk took (`Swap`).

`off`, `cut` and `excuse` are histories of the cases in which the code gives no
promise (section 3).

### `Listing` and `DirTable`

`ents` is the vector of the directory in the order of cookies, dead entries included,
`by_name` the index of positions into it. A reader asks for pages from the cookie it
has; pages are cut by the client's byte budget, over NFSv4.1 also by the surface's
cap. `DirTable` is a set of entries and the pages a reader may be given; `IsTable` is
the refinement, with `table` the live entries of `ents`.

## 3. Runs

Every run finishes in less than five minutes. Deadlock is not checked where a model
has bounds on its inputs and stops when they are used up (all but `Listing`).

| Run | Instance | Shows |
|---|---|---|
| `replica` | two directories, a file; two names, two stats; a stash of 1; one snapshot and 3 journal records, with and without attributes | `NoPrematureRemoval`, `CookiesDistinct`, `StatsExact`, `CookiesNeverReused`, `AttrsFollowRecords`, `StashConsumed` |
| `listing` | three names, one of them long, pages of 2 units, compaction from 2 dead entries, 4 changes | `IndexExact`, `ListedOnce`, `ListingEnds`; `IsTable`: `Listing` implements `DirTable` |
| `namespace` | two directories, one name in each, a call of the Mac whose answer may be lost, 2 files, 2 mutations, a walk | `NamesAgree`, `ListingsFresh` |
| `sync` | two directories, 2 changes, all queues of 1, two sessions, fairness | `Converged`, `NeverHalfBuilt`, `Settles` |
| `lanes` | two sessions, a dead cached endpoint, 2 changes, one fault, fairness | `StartHeard`, `SeededIsCurrent`, `Recovers` |
| `rpc` | two reads and a mutation, a file of 2 blocks that shrinks twice, errors, one permit, a queue of 1, fairness | `ReadExact`, `SinksGo`, `AllReturn` |
| `wb` | two blocks, 2 permits that other files use too, 2 writes, one other operation, a failure, a restart of either side, fairness | `BarrierDurable`, `ReadFresh`, `OverlapsInOrder`, `AllAnswered` |
| `sessions` | one slot, 3 requests of eight kinds, 2 faults, fairness | `AtMostOnce`, `AnswersAgree`, `HeldIsOpen`, `Answered` |
| `deleg` | one node, two connections, two sessions, two delegations, 2 changes, a broadcast of 1 | `HeldIsKnown`, `Coherent` |
| `cache` | a chunk of two blocks, a file of one, a stash of 2, one guest write or resync, two operations of the Mac, a read | `CachedIsCurrent` |
| `cas` | two threads, two chunks in a store of one, one descriptor, 3 operations, a damaged chunk, a crash | `ExactUnlessRaced`, `WarmSurvives`, `PersistComing`; `KeepsPromise`: `Cas` implements `ContentStore` |
| `namespace_cut` | as `namespace` | the violation below |

The type invariants of `replica`, `sync`, `wb` and `deleg` are checked with the rest and
proved; those of `lanes`, `rpc`, `sessions` and `cas` are proved only (section 4).

Why these bounds: a node with two links needs two names or two directories; a rename
that clobbers needs two entries; a stash that rolls attributes back needs the arrival
of the node between two records; a compaction under an open listing needs two
removals and entries on both sides of them; a rename that a walk sees at one end only
needs two directories; a lagging subscriber needs a batch more than the broadcast
holds; overtaking needs two writes, and two blocks to tell a range from the file; a write
that waits for a permit needs others that hold them, as two writes do not use up two; a
frame that meets the wrong read needs two reads; a repeated request that meets its
successor needs two requests of one slot, and a third to use what they left; a recall
that meets the next delegation of its node needs two delegations, and a back channel
that moves needs two connections; two contents under one key need two writes and a
read between them; an eviction needs two chunks and two threads to race. The cap of
the stash is not reached in `cache`: over it `finalize_stash` has nothing to do.
A larger instance of `Namespace`, with two names in each of the two directories, so
that calls and records of two names meet in one listing, was checked once and passes
(18.7 million states). `Namespace` lets a `mac_dirty` window pass, and `Rpc` a file
shrink, only when something is about to look at it: nothing can tell the difference,
and the runs get smaller.

### The violation run

`namespace_cut` states what design/06-consistency.md:70 claims of a seed: the replica
is the guest's tree once the buffered records are replayed, a replay of what the walk
has seen being a no-op (line 73). A rename is not such a record. The walk scans `d1`;
a guest process renames `d2/x` to `d1/x`; the record is buffered; the walk scans `d2`,
where `x` is gone; the replay of `Renamed` finds no source in the staging replica and
is dropped (mist-replica lib.rs:680). The file is in neither directory and nothing is
in flight.

### Known exceptions

The passing properties leave out, by name, losses that the code does not prevent.
Each is a history variable of the module, so that a property fails as soon as
something else goes wrong. Where the same is stated as a definition (`OverflowResyncs`
and the others named below), adding it to the configuration of the module's run gives
the counterexample.

Synchronisation:

- `Sync`, reason `overflow` of `due`, `OverflowResyncs`: `finish_seed` ignores what
  `apply_rec` answers (session.rs:813), so an Overflow that was buffered during a walk
  asks for no resync, against design/02-protocol.md:185 ("FAN_Q_OVERFLOW ⇒ resync
  protocol").
- `Sync`, reason `seed` of `due`: a batch that `on_journal` takes after `finish_seed`
  has removed the staging entry and before it has set the sequence number is dropped
  or applied to the old replica; with `SEQ_ADOPT` no gap shows, so no resync follows,
  against the comment at session.rs:863 ("covered by next resync").
- `Sync`, reason `channel` of `due`: the reader finds its channel full and sends the
  Overflow that should say so through the same channel (fanotify.rs:387-388); when
  that fails too nothing asks for a resync, though design/03 has an overflow lead to
  one (line 107).
- `Sync`, reason `kernel` of `due`: while an overflow event is unread the kernel loses
  further events without another one, also those that come after events queued behind
  it (the reader has taken some, the queue has filled again). The resync that the early
  one asks for may be over before the loss is. The attempt to prove `Converged` showed
  it: it takes a queue of 2 and 5 changes, more than the run has.
- `Sync`, reason `unsubscribed` of `due`, and `Lanes`, `SeededIsCurrent`: a batch that
  is broadcast after the walk has passed its directory and before the journal lane
  subscribes (server.rs:421) is in neither, against the comment at server.rs:67
  ("captures every change from snapshot-start onward").
- `Lanes`, `SeededIsCurrent`: `finish_seed` of an ended session runs on the blocking
  pool and may come after the seed of the next one (session.rs:769).
- `Lanes`, `Wedged`: there is no timeout on the HelloAck (session.rs:354 limits the
  dial only); a foreign `mistd` at a cached address answers AuthFail each time and the
  cache is kept. The configuration's cached endpoint is a dead one.

Names:

- `Replica`, `LatestAttrs`: a `Created` writes the attributes it carries and then drains
  the stash over them (mist-replica lib.rs:651-652). The stash came before it, so the
  node has attributes older than those of the last record about it, until another
  record comes. `StashConsumed` says what is true: it happens with that record only.
- `Namespace`, `cut`: the violation run.
- `Namespace`, `off`, a lost answer: the applier has run, and the host's call ends in a
  timeout or with its lane (surface.rs:1447-1450). `apply_rec` is skipped and `mistd`
  drops its own events, so that nothing tells the replica. The client repeats the call:
  a create then finds the file and heals the name, a remove or a rename gets ENOENT and
  the old name stays in the replica until a reseed.
- `Namespace`, `off`: a file that is created and renamed before the reader stats it is
  in no record that names it (fanotify.rs:490), and nothing scrubs the replica, against
  "never silent divergence" (design/00-overview.md:76); a Mac mutation during a walk
  goes to the replica that is swapped out (session.rs:825); a Mac's answer and a guest
  record of the same name or file are applied in either order, and their links are
  counted in separate locks (mist-replica lib.rs:749); the applier's stat by name finds
  another file or none (applier.rs:107); a Mac rename onto another name of the same
  file does nothing in the guest and removes the source from the replica.
- `Namespace`, `excuse`, `RenamesShow`: a guest's rename does not change the change
  attribute when either parent is inside the window of a Mac write (session.rs:961),
  a removal of a file the Mac has just written not that of its parent; `bump_dir` reads
  and then writes, so a host clock that lags takes a nudge back; `change_info` says
  atomic (nfs41/mod.rs:1880, "nothing else can interleave with the op") while journal
  records are applied, or a reseed swaps the replica, during the call.
- `Namespace`, `excuse` "walk": the attributes of a directory are taken when its parent
  is listed (walker.rs:251-257, 144-149), before its names are, and `finish_seed`
  replays the buffer with `apply_rec` alone (session.rs:811-822). So a seeded directory
  may show a name under an attribute from before the name, and a listing the Mac has
  under that attribute stays; a swap may also take back nanoseconds that
  `bump_dir_attr` had added, to an attribute that was in use before.
- `Listing`, `reseeded`: the cookie verifier is not looked at (nfs3.rs:748), against
  design/05-nfs-frontend.md:72, so a listing that goes on across a reseed may skip or
  repeat. `ListingAssumption`: an entry larger than the client's budget would give an
  empty page that is not the last, for ever; the code answers no TOOSMALL.

Writing and calls:

- `WriteBehind`, `FailureReported`: `drain_writes_range` returns without a look at
  `err` when nothing is in flight (surface.rs:186), so a failed batch that has finished
  is reported by no COMMIT, against surface.rs:28 ("surfaced (once) at the next
  COMMIT").
- `WriteBehind`, `CleanIsDurable`: the dirty flag is dropped with an idle entry
  (surface.rs:159) and a COMMIT takes a missing entry for a clean file, against
  surface.rs:32 ("a clean full COMMIT is honestly a no-op"). After a COMMIT of a range
  an idle entry goes 10 s later (surface.rs:898), and with it the full COMMIT of the close
  that msg.rs:217 counts on ("the close-time full commit restores complete durability").
- `WriteBehind`, COMMIT of a range: `sync_file_range` (applier.rs:437-446) flushes
  neither metadata nor the disk's cache. `BarrierDurable` claims the page cache of the
  guest for it, and the disk for a COMMIT of the file and a FILE_SYNC write.
- `WriteBehind`, `BootNonce`: the run has the verifier of NFSv4.1. That of NFSv3 is
  a constant (nfs3.rs:14), so that a restart of the host is invisible and a COMMIT
  vouches for batches that died with it, against "writeverf = hostd boot nonce"
  (design/05-nfs-frontend.md:74).
- `WriteBehind`, `orphan`: an entry dropped between its lookup (surface.rs:728) and
  the registration of a batch gives that batch a chain of its own, and a later write
  may overtake it, against "strictly in arrival order" (surface.rs:712).
- `WriteBehind`, `wiped`: the guest restarts while the host's verifier stays, so no
  COMMIT notices (surface.rs:865; G2 of design/06-consistency.md:26).
- `WriteBehind`, `stale`: a write call that timed out may still be served by the
  guest, after the batch that followed it (session.rs:1123).
- `Rpc`, `ReadExact`: a lane that dies in the middle of a body ends the read as a short
  one that succeeded (session.rs:1194), and so does a `pread` that fails there
  (`stream_read` sends an empty last frame for it). `SinksGo`: a read of nothing leaves its sink
  behind (session.rs:1190), and a failed send its waiter.

NFSv4.1:

- `Sessions`, `raced`: a repetition that arrives while the first is running is run too
  (nfs41/mod.rs:490), and the later end of the two may take the slot back.
- `Sessions`, `ReplayIsReply`: a replay writes NFS4_OK as the status of the compound
  (mod.rs:455). `StaleIsSaid`: a stateid of an earlier instance of the server is
  answered BAD_STATEID, against the comment at mod.rs:1779.
- `Delegations`, `BackchannelRides`: `serve_conn` at its end unbinds every session the
  connection has carried, also one a newer connection carries (mod.rs:312), which, having
  carried it once, is not bound again, against mod.rs:562 ("make sure the backchannel
  rides it").
- `Delegations`, `missed`: a change reaches no recall when the delegation is granted
  between its announcement and its application (session.rs:921 and 931), when the
  broadcast overflows (mount.rs:234), or when a resync brings it: `finish_seed`
  announces nothing, against "delegations recalled-all before serving"
  (design/06-consistency.md:107).
- `Delegations`, `recalling`: a recall that cannot be sent returns without a
  revocation (nfs41/mod.rs:1702, 1752); the delegation stays marked and no later
  change recalls it, against the two seconds of design/05-nfs-frontend.md:113.
- `Delegations`, `recalled`: a revocation is never signalled (`sr_status_flags` is 0,
  mod.rs:590), so its holder goes on believing, against "SEQ flag set" in the same
  line. The same happens to a recall that overtakes the reply of the OPEN that
  granted the delegation: it names no referring call (mod.rs:1738).
- `Delegations`, `swept`: without a back channel the revocation goes by node after
  the table was released (mod.rs:1683) and may take a newer delegation.

Content:

- `ContentCache`, `told`: a change in the guest within 5 s of a Mac write is dropped as
  an echo (session.rs:928), against G1 of design/06-consistency.md:17; nothing is said
  of the cache until the attributes tell of the last change.
- `ContentCache`, `told = -1`: after a resync `content_version` starts at 0, and a
  time that was clamped may step back, so that a key returns whose manifest is still
  in use; `drop_share` (mist-cas lib.rs:366) exists for this and is not called.
- `ContentCache`, `sure`, a read: a write between the look at the window and the
  making of the key (surface.rs:437) is in the key and may not be in the chunk.
- `ContentCache`, `sure`, an assembled chunk: a block counted twice (`OnlyCovered`:
  `covered` adds the lengths up, surface.rs:942, against line 910, "fully covered by
  stashed" writes); a FILE_SYNC write, a truncation or a guest write after the writes
  of the stash, which keeps its older data; two tasks that meet under `WIP_FP`; the
  150 ms timer of an entry that has been dropped, whose stash a newer entry no longer
  replaces (surface.rs:794, 898).
- `Cas`, `raced`, `KeptExact`: two evictions choose the same victim and both subtract
  it (mist-cas lib.rs:821); a clear meets other work.

### Fairness

All fairness but that of the permits is weak, of tasks that run whenever they have
something to do; changes in the guest, requests of the Mac, faults and restarts are
never fair.

- `Sync`: the reader, the batcher, the lanes, the walker and the two tasks of the host;
  `supervise` reconnects without end.
- `Lanes`: the steps of `supervise` and of the guest's loops, the ping ticker, the
  blocking pool. A silent peer is noticed by the ticker.
- `Rpc`: writer, reader, the guest's tasks, the waiting calls with their timeouts. A
  call that waits for room in the queue is fair by itself, as the queue is first come,
  first served.
- `WriteBehind`: the batches and the requests being served. A call the guest never
  answers ends with `RPC_TIMEOUT`. The permits are strongly fair: other files take and
  return them without end, and the semaphore is first come, first served, so that a
  write that waits is not passed over for ever.
- `Sessions`: the client's recovery (it repeats what is not answered), the server's
  connections and compounds, the delivery of replies on connections that are up.
- `Listing`: the client goes on asking until a page is the last.

## 4. Proofs

Every theorem holds for all values of the constants that satisfy the module's
assumption: any number of nodes, directories, threads, requests or slots, any depth of
a queue, any bound on faults and changes. `theorems` in `PROJECT.json` lists them with
the property of the run that each one generalises.

| Module | Theorems |
|---|---|
| `ReplicaProofs` | `TypeCorrect`, `NothingRemovedPrematurely`, `CookiesStayDistinct`, `StatisticsExact`, `NoCookieReused`, `StashIsConsumed`, `AttributesFollow` |
| `SyncProofs` | `TypeCorrect`, `NothingHalfBuilt`, `HostConverges` |
| `LanesProofs` | `TypeCorrect`, `NoRequestDropped`, `SeededStaysCurrent` |
| `RpcProofs` | `TypeCorrect`, `ReadsAreExact`, `NoSinkLeaks` |
| `WriteBehindProofs` | `TypeCorrect`, `WritesInOrder`, `BarriersAreDurable`, `ReadsAreFresh` |
| `SessionsProofs` | `TypeCorrect`, `RunsOnce`, `AnswersStayTrue`, `OpenIsHeld` |
| `DelegationsProofs` | `TypeCorrect`, `HolderIsKnown`, `HolderIsCoherent` |
| `CasProofs` | `TypeCorrect`, `IngestedSurvives`, `PersistIsComing`, `CountStaysExact`, `StoreKeepsPromise` |

Each of these modules defines an inductive invariant `IInv` as a conjunction of named
parts, proves that `Init` implies it and that every action preserves it, one lemma per
action and in it one step per part the action disturbs, and derives the theorems. The
invariants were checked by TLC on the instances of the runs, or on smaller ones where
they are costly to evaluate, before they were proved. What each invariant adds to the
properties, and why:

### `Replica`

`IInv == TypeOK /\ NoPrematureRemoval`. Neither half is inductive alone: that the links
of a node are at least its dentries is preserved by an operation only if nodes without
a table have no entries and unknown nodes no links, and a record can only keep these if
a dentry leads to a known node. The invariant is an inequality because the code's links
can exceed the dentries (a rename onto a missing parent takes the dentry and keeps the
link); such a node is kept too long, never collected too early.

The first part of `ReplicaProofs` has the lemmas, one per operator of `Tree`, each of
the form "a good tree stays good". The argument for the recursive collection: `Doomed`
is itself closed, being the intersection of closed sets (`LosesLast` is monotone in the
set); so a node outside it that loses links keeps at least one more than it loses, or
lost none, and the dentries that remain are exactly those not held by the doomed nodes.

Cookies and statistics need a second invariant, `Neat`, over the first: the cookies of
a table are below its counter, and the three counts are cardinalities. A count moves by
as much as its set does, because the sets an operation adds and removes are disjoint;
for the collection that is the cardinality of `Doomed` and of its entries.
`CookiesNeverReused` compares two states and is proved operator by operator as the
relation between a tree and the next. The stash and the attributes use `NoEarlyStash`:
nothing is stashed while the replica is seeding.

### `Sync`

`Converged` speaks of a state in which every queue is empty; the invariant says, at
every moment and for each directory `d`, what has to be in the queues. Following the
stream backwards from the kernel, either the last word on `d` is that of its last
change, or an Overflow or a lag that makes the host start again (`Newer`); or there is
no word on `d` (`AllQuiet`) and what the stream is applied to is right (`Base`): the
staged snapshot with its buffer, the batch in the hands of `on_journal`, the replica
about to be swapped in, or the live one. Queues lose from the front only or leave a mark
where they lost, so a last word stays the last. `Piped` says this of the stream alone,
which is all that survives while a reason is due that a snapshot makes up for; `Based`
of the stream and the replica, when none is. `Whole` is for `NeverHalfBuilt`: of each
directory the staged snapshot has been told, or will be by the walk or by what is on the
lane; `Walks`, `Scanned` and `Ordered` keep the `done` of a snapshot behind its records
and snapshots with another id out.

### `Lanes`

A request that waits for its bulk lane is no older than the pings that are unanswered
(`Aged`), so the host gives up first; this needs `PING_MISSES < BULK_WAIT` in
`LanesAssumption` (3 pings a second apart against five seconds in the code). A seeded
replica is current because every change since the journal lane was attached is on it,
or was heard (`Attached`), and whatever a walk carries, that or what was heard last is
the guest's version once nothing is on the lane (`Followed`). `Unasked` and `Dialled`
say that a session being set up has nothing of its own yet and that its lanes are
dialled in order.

### `Rpc`

The parts of a read are in several places at once. `IInv` follows one request through
them: where it can be (`Life`), the one length it was promised, wherever the promise
travels (`Announced`, `Agreed`; an error promises none), that its frames continue what it has got (`Numbered`)
and what it means that its sink is there or gone (`Sunk`). `Numbered` has a witness, the
function that counts the frames of a request along the lane; with it no induction over
the lane is needed, each step extends or shifts the function.

### `WriteBehind`

The properties are about steps; the invariant says what has to be true before the step.

The order of overlapping writes rests on the chain of an entry. `Chain` says that the tail
reaches every batch queued with the entry by following `prev`, and that a later write of a
block reaches the earlier ones. `Reach` is membership in every set closed under `prev`,
which needs no induction: a batch that is queued extends what can be reached from it
(`ReachAdd`), the batch that lands has nothing before it, so all others do without it
(`ReachDrop`). With `Follows` (a later write of a block is registered with the same entry
as an earlier one that is queued, and has not been to the guest) the batch that lands finds
only older ones in its block. `Follows` needs `InTurn` (the client waits for its answer
before it writes a block again) and `Mapped`: a batch in flight that was registered with
the entry of the map keeps it there, because the reaper looks at what is in flight. The
batches for which this fails are those registered with an entry dropped before, which the
model marks (`orphan`).

The barriers rest on `Owing`: what an operation vouches for is either not in flight, or
registered with the entry the operation waits for, which `Mapped` gives when the operation
arrives. So when it goes to the guest its writes are done or went with a host that
restarted. The second is excluded by `Vouched`, and only where the verifier changes with
each boot: `BarriersAreDurable` and `ReadsAreFresh` assume `BootNonce`, which is what
NFSv4.1 does; with the constant verifier of NFSv3 they do not hold (Known exceptions).
`WritesInOrder` and `TypeCorrect` have no such assumption. `Kept` says that what has landed
is in the page cache, or newer data is, unless it was wiped or overtaken; `SyncOps` that
a FILE_SYNC write is the last of its block when it reaches the guest. `Refs` and `Slots`
are the rest of `TypeOK`; `Slots` counts the permits: those that are free, those others
have and the batches that hold one are always all of them. A COMMIT of a range may write
out any part of it, so its step keeps `Kept` and says nothing of the disk.

### `Sessions`

The first half is about the slots, whatever the client sends. As long as no repetition
arrived during a run, a slot has at most one compound under way (`OneRun`), whose
sequence id is the next (`NextUp`), that has not run yet (`NotRan`), and what was run is
no later than the slot or ends now (`Recorded`); the reply in a slot is what its request
came to (`Kept`). The second half is needed for the open: which sessions are the
client's (`Incarnation`, `OurSessions`, `Dead`), that its sequence ids are those of the
slots or one ahead (`Sequenced`, `InStep`), and what its one stateful request has made of
the open it holds, before its answer is in (`Holding`). `SessionsAssumption` keeps the
values for "none" apart from requests, results and stateids.

### `Delegations`

A stateid is in at most one place: with a compound, on the wire, with the client, or on
its way back (`Once`). While it is, the table has it, or a recall was made for it, or it
was swept (`Known`), and the attributes that travel with it are those of the replica, or
the delegation is being recalled, the node is announced, or the change passed it by
(`Fresh`). `Linked` is needed for the recall that finds no connection: only the one
connection that is up carries anything.

### `Cas`

A thread is known by its job and its place in it (`Good`), which is all the other
threads need to know of it. `Files` ties the open files to the paths: an open file that
is the one under its hash is there. `PendTimer` says that the flag stands for a sleeping
timer, which makes `PersistComing` inductive. `WarmSurvives` is inductive with these,
because everything that takes a chunk away also takes it out of `warm`.

`CountStaysExact` is about a sum over everything that is under way. What threads have yet
to take from the count is a set of pairs of thread and chunk (`ToTake`), what they have yet
to add a set of threads (`ToAdd`), so that a step changes each by one thread's share and
the sum by cardinalities; the subtraction wraps as the counter of the code does
(`Wrap`), and a step that keeps the sum keeps it modulo `WIDTH`. `Counted` keeps the
share of a thread that is not evicting at one chunk. `CasAssumption` has the threads
finite for this.

`StoreKeepsPromise` is the refinement of `ContentStore`: `Init` maps to its `Init`, and
each step of a thread, a timer, the disk or a crash to a step of it or to none. It
assumes `"bad" \notin Damage`, the damage of the run as well: a chunk whose bytes have
been altered with its length kept is served until a scrub finds it, so the promise does
not hold of such a disk (`NoLie` is the part of the invariant about this). The other
theorems of `Cas` need no such assumption.

### Only model-checked

- Liveness under fairness: `Settles`, `Recovers`, `AllReturn`, `AllAnswered`, `Answered`,
  `ListingEnds`.
- `Listing` and its refinement of `DirTable`: `Compact` filters a sequence and a page is
  summed up over its entries; what these give for every length takes induction over
  sequences, which the provers cannot instantiate.
- `ContentCache`, `CachedIsCurrent`: its invariant has to say of every copy of a chunk
  (store, memory, fetch under way, stash, persist under way) which key it is filed under
  and which contents that key has stood for; it has not been worked out.
- `Namespace`, `NamesAgree` and `ListingsFresh`: the same for every name on its way
  through applier, fanotify, journal, walk and surface; not worked out either.

## 5. Not modelled

`components` in `PROJECT.json` gives the reason for each part that is left out:
conflict copies (a log that nothing reads), the side store, mounting and control,
command line and packaging, and the encodings, which have no protocol state. In the
modules there are left out:

- `Replica`: symlink and device side tables, the name arena;
- `Sync`, `Lanes`: several shares and their common sentinel, scan errors, the token and
  identity checks, readers and bulk writers of a session that has ended;
- `Namespace`: directories that come and go, symlinks and special files, SETATTR, the
  batches of the journal, the granularity of times (no two changes of a directory of the
  guest have the same `mtime`);
- `Rpc`: stat and lookup calls apart from other mutations, the bounds of the queues for
  answers (128) and frames (64), frames lost on a bulk lane after they were sent; two
  bulk lanes, one lane of each other kind;
- `Cas`: chunk sizes, the sendfile path, the loss of unsynced files in a power cut (chunk files
  are not synced), a read that finds its file missing and keeps the row, and
  `put_blob`, `put_manifest`, `merge_chunk`, `get_blob` and `drop_share`, which nothing
  calls;
- `ContentCache`: hashing, failed writes (whose data stays in the stash), several
  chunks and prefetch, the single flight of fetches (a miss may always fetch), COMMIT
  of a range, SETATTR of times, unlink; crash and eviction are in `Cas`;
- `WriteBehind`: truncation, short writes, FILE_SYNC writes of several chunks, late
  effects of a FILE_SYNC write, `commit = writeback`;
- `Sessions`: several clients and open-owners, compounds of several operations, leases,
  which the server does not expire;
- `Delegations`: several clients, the name and directory announcements that find no
  delegation.

## 6. Plan

Done: every module of section 2, the two refinements, the theorems of section 4. Next:

1. Proofs: `CachedIsCurrent` of `ContentCache` and `NamesAgree` of `Namespace`, whose
   invariants are sketched under Only model-checked.
2. Scan errors and directories that come and go in `Namespace`.
3. Several shares of one VM in `Sync`.
