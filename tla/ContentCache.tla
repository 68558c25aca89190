---------------------------- MODULE ContentCache ----------------------------
(***************************************************************************)
(* The content of one file as the Mac sees it: reads through the content   *)
(* store (read, chunk_read of surface.rs and mist-cas), the key that names *)
(* a content (content_fingerprint of the replica's attributes), the chunk  *)
(* assembled from written data (finalize_stash), the attributes Mac        *)
(* operations and the journal give the replica, and the window in which a  *)
(* node counts as written by the Mac (mac_dirty).                          *)
(*                                                                         *)
(* The file is one chunk of a few blocks.  A block holds the number of the *)
(* write it was last written by, 0 where nothing was written.  A store     *)
(* that has lost a chunk is a reader that goes to the guest; hashing,      *)
(* eviction and the byte count are left out.  Writes do not fail.  Times   *)
(* of the host are even and times of the guest odd: two clocks never agree *)
(* to the nanosecond, while two writes in one tick of the guest do.        *)
(***************************************************************************)
EXTENDS Integers, Sequences, FiniteSets, SequencesExt

CONSTANTS
    N,              \* blocks of a chunk
    Reader,         \* READs served at a time
    STASH_MAX,      \* most writes a stash holds
    Tick,           \* how far the guest's clock moves from one change to the next
    InitSize,       \* lengths the file starts with
    RAM_CAP,        \* most manifests kept in memory
    MaxGuest,       \* bound: writes in the guest and resyncs
    MaxMac,         \* bound: writes, truncations and COMMITs of the Mac
    MaxRead         \* bound: READs

ASSUME ContentCacheAssumption ==
    /\ {N, STASH_MAX, RAM_CAP} \subseteq Nat \ {0} /\ IsFiniteSet(Reader)
    /\ InitSize \subseteq 0 .. N
    /\ \A t \in Tick : t \in Nat /\ t % 2 = 0
    /\ {MaxGuest, MaxMac, MaxRead} \subseteq Nat

VARIABLES
    guest,      \* the file in the guest: [data, size, mtime]
    ev,         \* a fanotify event is pending
    gver,       \* the content version of the guest's reader (VersionState)
    jr,         \* Content records on their way
    attr,       \* the replica's attributes: [mtime, size, ver]
    snap,       \* the attributes a resync has listed, before the swap; a sequence
    clock,      \* the last time handed out
    dirtywin,   \* the node is in its mac_dirty window
    wq,         \* batches in flight, in the order of the chain: [blk, val]
    stash,      \* NodeWrites.stash, <<>> when there is no entry: [kept, recs]
    unsynced,   \* NodeWrites.dirty
    idle,       \* write-idle timers running
    late,       \* the stashes of entries dropped while their timers ran
    begun,      \* UNSTABLE writes that have read the attributes: [blk, val, base]
    ops,        \* answers of the guest not yet applied: [kind, blk, attr, at]
    fin,        \* tasks of finalize_stash: [pc, man]
    drop,       \* a drop_node has been spawned
    man,        \* the manifest of the node in the store: [key, val], and as history
                \* whether its chunk was right when it was made
    ram,        \* manifests the surface keeps in memory
    rd,         \* READs: [pc, man]
    n,          \* inputs and reads so far
    era,        \* history: changes of the content so far
    told        \* history: the era the key is from, -1 when it came back

guestvars == <<guest, ev, gver>>
storevars == <<man, ram>>
qvars     == <<wq, stash, unsynced, idle, late>>
taskvars  == <<begun, ops, fin, drop, rd>>
hist      == <<era, told>>
vars == <<guestvars, jr, attr, snap, clock, dirtywin, qvars, taskvars, storevars, n, hist>>

Blocks  == 1 .. N
Nothing == [b \in Blocks |-> 0]
Attr(m, s, v) == [mtime |-> m, size |-> s, ver |-> v]
WIP_FP  == Attr(-1, 0, 0)
Manifest(k, v, sure) == [key |-> k, val |-> v, sure |-> sure]
NoMan   == Manifest(Attr(-2, 0, 0), Nothing, TRUE)
NoStash == [kept |-> TRUE, recs |-> <<>>]
Idle    == [pc |-> "idle", man |-> NoMan]
Larger(x, y) == IF x >= y THEN x ELSE y

\* A content cut to a length, and one with writes laid over it in order.
Cut(data, s) == [b \in Blocks |-> IF b <= s THEN data[b] ELSE 0]
Over(data, ws) ==
    [b \in Blocks |->
        LET hits == {i \in DOMAIN ws : ws[i].blk = b}
        IN  IF hits = {} THEN data[b] ELSE ws[CHOOSE i \in hits : \A j \in hits : j <= i].val]

\* What the file holds once the batches in flight have landed.
Logical == Over(guest.data, wq)

Init ==
    /\ \E s \in InitSize :
         /\ guest = [data |-> Cut([b \in Blocks |-> 1], s), size |-> s, mtime |-> 1]
         /\ attr = Attr(1, s, 0)
    /\ ev = FALSE /\ gver = 0 /\ jr = <<>> /\ snap = <<>> /\ clock = 1 /\ dirtywin = FALSE
    /\ wq = <<>> /\ stash = NoStash /\ unsynced = FALSE /\ idle = 0 /\ late = <<>>
    /\ begun = {} /\ ops = {} /\ fin = {} /\ drop = FALSE
    /\ man = NoMan /\ ram = {} /\ rd = [r \in Reader |-> Idle]
    /\ n = [guest |-> 0, mac |-> 0, read |-> 0] /\ era = 0 /\ told = 0

\* The content changes; the attributes, and with them the key, become a.  A key
\* the guest's attributes make may be one that was in force before and is still
\* in use.
Changes    == era' = era + 1
InUse      == {m.key : m \in ram \cup {man} \cup {f.man : f \in fin} \cup {rd[r].man : r \in Reader}}
Becomes(a) ==
    /\ attr' = a
    /\ told' = CASE a = attr -> told [] a \in InUse \ {attr} -> -1 [] OTHER -> era'

\* One more input, and the number of the write it makes.
GuestInput == n.guest < MaxGuest /\ n' = [n EXCEPT !.guest = @ + 1]
MacInput   == n.mac < MaxMac /\ n' = [n EXCEPT !.mac = @ + 1]
NextVal    == n.guest + n.mac + 2

-----------------------------------------------------------------------------
(***************************************************************************)
(* The guest and its journal.                                              *)
(***************************************************************************)
\* The time a write in the guest gets: its clock may stand still for a tick, and
\* be behind the host's.
Ticks == {guest.mtime + t : t \in Tick}

\* The file after a change of its data.
Changed(data, s, m) == [data |-> data, size |-> s, mtime |-> m]

GuestWrite(b) ==
    /\ GuestInput
    /\ \E m \in Ticks :
         /\ guest' = Changed([guest.data EXCEPT ![b] = NextVal], Larger(guest.size, b), m)
         /\ clock' = Larger(clock, m)
    /\ ev' = TRUE /\ Changes
    /\ UNCHANGED <<gver, jr, attr, snap, dirtywin, qvars, taskvars, storevars, told>>

\* reader_loop and content_rec: the version is counted up, the file looked at.
\* The applier's own events are dropped before.
ReadEvent ==
    /\ ev /\ ev' = FALSE /\ gver' = gver + 1
    /\ jr' = Append(jr, Attr(guest.mtime, guest.size, gver'))
    /\ UNCHANGED <<guest, attr, snap, clock, dirtywin, qvars, taskvars, storevars, n, hist>>

\* on_journal and update_content; in the window the record is taken for an echo
\* and dropped.  During a resync it is buffered.
ApplyRec ==
    /\ jr # <<>> /\ snap = <<>>
    /\ jr' = Tail(jr)
    /\ UNCHANGED era
    /\ IF dirtywin THEN UNCHANGED <<attr, told>> ELSE Becomes(Head(jr))
    /\ UNCHANGED <<guestvars, snap, clock, dirtywin, qvars, taskvars, storevars, n>>

\* scan_dir lists the file.
Scan ==
    /\ snap = <<>> /\ GuestInput
    /\ snap' = <<Attr(guest.mtime, guest.size, 0)>>
    /\ UNCHANGED <<guestvars, jr, attr, clock, dirtywin, qvars, taskvars, storevars, hist>>

\* finish_seed replays what was buffered and swaps the replica.
Swap ==
    /\ snap # <<>>
    /\ UNCHANGED era /\ Becomes(Last(snap \o jr)) /\ jr' = <<>> /\ snap' = <<>>
    /\ UNCHANGED <<guestvars, clock, dirtywin, qvars, taskvars, storevars, n>>

\* MAC_DIRTY_WINDOW, 5 s from the last write, is over; a spawned drop_node has
\* run by then.
WindowEnds ==
    /\ dirtywin /\ ~ drop /\ dirtywin' = FALSE
    /\ UNCHANGED <<guestvars, jr, attr, snap, clock, qvars, taskvars, storevars, n, hist>>

-----------------------------------------------------------------------------
(***************************************************************************)
(* Writes of the Mac.  The client does not send a write that meets one it  *)
(* has no answer to, and truncates when nothing else is under way.         *)
(***************************************************************************)
Answers(kinds) == {o \in ops : o.kind \in kinds}
Unanswered == {w.blk : w \in begun} \cup {o.blk : o \in Answers({"sync"})}
Sends == MacInput /\ Answers({"trunc"}) = {}

\* write, UNSTABLE: the attributes are read first.
WriteBegin(b) ==
    /\ b \notin Unanswered /\ Sends
    /\ begun' = begun \cup {[blk |-> b, val |-> NextVal, base |-> attr]}
    /\ UNCHANGED <<guestvars, jr, attr, snap, clock, dirtywin, qvars, ops, fin, drop, rd, storevars, hist>>

\* note_write
NoteWrite == dirtywin' = TRUE /\ drop' = TRUE

\* Mutant: the time is the one after the file's own, as before next_optimistic_ts.
NextTimeOfFile(floor) == 2 * (floor \div 2) + 2

\* next_optimistic_ts: later than the file's time and than any handed out before.
NextTime(floor) == 2 * (Larger(clock, floor) \div 2) + 2

\* The payload is kept for finalize_stash; over the cap the stash is abandoned.
StashPush(w) ==
    IF ~ stash.kept \/ Len(stash.recs) >= STASH_MAX
    THEN [kept |-> FALSE, recs |-> <<>>]
    ELSE [stash EXCEPT !.recs = Append(@, w)]

\* The rest of write: the batch is registered and stashed, the client answered.
WriteQueue(w) ==
    LET rec == [blk |-> w.blk, val |-> w.val]
        m   == NextTime(w.base.mtime)
    IN  /\ w \in begun /\ begun' = begun \ {w}
        /\ wq' = Append(wq, rec) /\ stash' = StashPush(rec) /\ unsynced' = TRUE
        /\ clock' = m /\ Changes
        /\ attr' = Attr(m, Larger(w.base.size, w.blk), attr.ver)
        /\ told' = era'
        /\ NoteWrite
        /\ UNCHANGED <<guestvars, jr, snap, idle, late, ops, fin, rd, storevars, n>>

\* write_through of the oldest batch returns; at the last one the idle timer
\* starts.
Land ==
    LET w == Head(wq)
    IN  /\ wq # <<>> /\ wq' = Tail(wq)
        /\ \E m \in Ticks :
             /\ guest' = Changed([guest.data EXCEPT ![w.blk] = w.val], Larger(guest.size, w.blk), m)
             /\ clock' = Larger(clock, m)
        /\ idle' = IF wq' = <<>> THEN idle + 1 ELSE idle
        /\ UNCHANGED <<ev, gver, jr, attr, snap, dirtywin, stash, unsynced, late, taskvars, storevars, n, hist>>

Stat(g) == Attr(g.mtime, g.size, 0)
Answer(kind, b, g) == ops' = ops \cup {[kind |-> kind, blk |-> b, attr |-> Stat(g)]}

\* write, FILE_SYNC: drained, then written by the guest.
SyncWrite(b) ==
    /\ b \notin Unanswered /\ wq = <<>> /\ Sends
    /\ \E m \in Ticks :
         /\ guest' = Changed([guest.data EXCEPT ![b] = NextVal], Larger(guest.size, b), m)
         /\ clock' = Larger(clock, m)
    /\ Answer("sync", b, guest') /\ Changes
    /\ UNCHANGED <<ev, gver, jr, attr, snap, dirtywin, qvars, begun, fin, drop, rd, storevars, told>>

\* setattr with a size.
Truncate(s) ==
    /\ begun = {} /\ ops = {} /\ wq = <<>> /\ Sends
    /\ \E m \in Ticks :
         /\ guest' = Changed(Cut(guest.data, s), s, m)
         /\ clock' = Larger(clock, m)
    /\ Answer("trunc", 0, guest') /\ Changes
    /\ UNCHANGED <<ev, gver, jr, attr, snap, dirtywin, qvars, begun, fin, drop, rd, storevars, told>>

\* COMMIT of the file: a clean one asks nothing of the guest.
Commit ==
    /\ wq = <<>> /\ unsynced /\ Answers({"commit", "trunc"}) = {}
    /\ MacInput /\ unsynced' = FALSE
    /\ Answer("commit", 0, guest)
    /\ UNCHANGED <<guestvars, jr, attr, snap, clock, dirtywin, wq, stash, idle, late, begun, fin, drop, rd, storevars, hist>>

-----------------------------------------------------------------------------
(***************************************************************************)
(* What the answers do, and the chunk assembled from the stash.            *)
(***************************************************************************)
\* apply_mac_attr: neither the time nor the size steps back.
MacAttr(a) == Attr(Larger(a.mtime, attr.mtime), Larger(a.size, attr.size), attr.ver)

\* covered_chunks: the writes laid over nothing.  The lengths of the writes add
\* up to the chunk's, which is not the same as covering it.
Covered(st, s) ==
    LET ws == SelectSeq(st.recs, LAMBDA w : w.blk <= s)
    IN  IF st.kept /\ Len(ws) = s /\ s > 0 THEN <<Over(Nothing, ws)>> ELSE <<>>

\* finalize_stash takes the key and the content; nothing when the stash was
\* abandoned.
Finalize(st, key) ==
    LET val == Covered(st, key.size)
        m   == IF val = <<>> THEN [NoMan EXCEPT !.key = key]
               ELSE Manifest(key, Head(val), Head(val) = Cut(Logical, key.size))
    IN  fin' = IF st = NoStash \/ ~ st.kept THEN fin
               ELSE fin \cup {[man |-> m, pc |-> IF val = <<>> THEN "rebind" ELSE "ingest"]}

\* The answer of a FILE_SYNC write or a truncation reaches the replica.
ApplySync(o) ==
    /\ o \in Answers({"sync"}) /\ ops' = ops \ {o}
    /\ UNCHANGED era /\ Becomes(MacAttr(o.attr)) /\ NoteWrite
    /\ UNCHANGED <<guestvars, jr, snap, clock, qvars, begun, fin, rd, storevars, n>>

ApplyTruncate(o) ==
    /\ o \in Answers({"trunc"}) /\ ops' = ops \ {o}
    /\ UNCHANGED era /\ Becomes([MacAttr(o.attr) EXCEPT !.size = o.attr.size]) /\ NoteWrite
    /\ UNCHANGED <<guestvars, jr, snap, clock, qvars, begun, fin, rd, storevars, n>>

ApplyCommit(o) ==
    /\ o \in Answers({"commit"}) /\ ops' = ops \ {o}
    /\ UNCHANGED era /\ Becomes(MacAttr(o.attr)) /\ dirtywin' = TRUE
    /\ Finalize(stash, attr')
    /\ UNCHANGED <<guestvars, jr, snap, clock, qvars, begun, drop, rd, storevars, n>>

\* 150 ms after the last batch: finalize_stash if nothing is in flight.
IdleTimer ==
    /\ idle > 0 /\ idle' = idle - 1
    /\ IF wq # <<>> THEN UNCHANGED fin ELSE Finalize(stash, attr)
    /\ UNCHANGED <<guestvars, jr, attr, snap, clock, dirtywin, wq, stash, unsynced, late, begun, ops, drop, rd,
                   storevars, n, hist>>

\* The entry is dropped, by the reaper or 10 s after a COMMIT, when nothing is in
\* flight; a timer of its batches that still runs keeps its stash.
DropEntry ==
    /\ wq = <<>> /\ stash # NoStash
    /\ stash' = NoStash /\ unsynced' = FALSE
    /\ idle' = 0 /\ late' = late \o [i \in 1 .. idle |-> stash]
    /\ UNCHANGED <<guestvars, jr, attr, snap, clock, dirtywin, wq, taskvars, storevars, n, hist>>

\* Such a timer ends: whatever is in flight by now is not in its entry.
LateTimer ==
    /\ late # <<>> /\ late' = Tail(late) /\ Finalize(Head(late), attr)
    /\ UNCHANGED <<guestvars, jr, attr, snap, clock, dirtywin, wq, stash, unsynced, idle, begun, ops, drop, rd,
                   storevars, n, hist>>

\* ingest_chunks_volatile under WIP_FP: other versions of the node go.
FinIngest(f) ==
    /\ f \in fin /\ f.pc = "ingest"
    /\ fin' = (fin \ {f}) \cup {[f EXCEPT !.pc = "rebind"]}
    /\ man' = [f.man EXCEPT !.key = WIP_FP]
    /\ UNCHANGED <<guestvars, jr, attr, snap, clock, dirtywin, qvars, begun, ops, drop, rd, ram, n, hist>>

\* rebind_manifest: whatever is under WIP_FP by now gets the key.
FinRebind(f) ==
    /\ f \in fin /\ f.pc = "rebind" /\ fin' = fin \ {f}
    /\ man' = IF man.key # WIP_FP THEN man
              ELSE Manifest(f.man.key, man.val, f.man.sure /\ man.val = f.man.val)
    /\ UNCHANGED <<guestvars, jr, attr, snap, clock, dirtywin, qvars, begun, ops, drop, rd, ram, n, hist>>

\* drop_node, spawned by note_write.
DropNode ==
    /\ drop /\ drop' = FALSE /\ man' = NoMan
    /\ UNCHANGED <<guestvars, jr, attr, snap, clock, dirtywin, qvars, begun, ops, fin, rd, ram, n, hist>>

-----------------------------------------------------------------------------
(***************************************************************************)
(* Reads.  In the window they go to the guest and leave no trace.          *)
(***************************************************************************)
Goes(r, x) == rd' = [rd EXCEPT ![r] = x]
Rest == <<guestvars, jr, attr, snap, clock, dirtywin, qvars, begun, ops, fin, drop, hist>>

\* read: drained, and not in the window.
ReadCheck(r) ==
    /\ rd[r].pc = "idle" /\ wq = <<>> /\ ~ dirtywin
    /\ n.read < MaxRead /\ n' = [n EXCEPT !.read = @ + 1]
    /\ Goes(r, [Idle EXCEPT !.pc = "checked", !.man.key = attr])
    /\ UNCHANGED <<Rest, storevars>>

Cached(key) == {m \in ram \cup {man} : m.key = key}

\* The key is made from the attributes.  A hit is answered, and its manifest
\* kept in memory (manifest); a file of size 0 is answered.
ReadHit(r) ==
    /\ rd[r].pc = "checked"
    /\ \/ attr.size = 0 /\ UNCHANGED ram
       \/ \E m \in Cached(attr) :
            ram' = IF \E x \in ram : x.key = m.key THEN ram
                   ELSE (IF Cardinality(ram) >= RAM_CAP THEN {} ELSE ram) \cup {m}
    /\ Goes(r, Idle)
    /\ UNCHANGED <<Rest, man, n>>

\* A miss, also of a chunk that was evicted.  A write that has come since the
\* check is in the key, and may not yet be in the guest.
ReadMiss(r) ==
    /\ rd[r].pc = "checked" /\ attr.size > 0
    /\ Goes(r, [pc |-> "fetch", man |-> Manifest(attr, Nothing, wq = <<>> \/ attr = rd[r].man.key)])
    /\ UNCHANGED <<Rest, storevars, n>>

\* chunk_read: the chunk is fetched from the guest, and stored if it is as long
\* as the attributes said.
ReadFetch(r) ==
    /\ rd[r].pc = "fetch"
    /\ LET s == rd[r].man.key.size
       IN  Goes(r, IF guest.size < s THEN Idle
                   ELSE [rd[r] EXCEPT !.pc = "ingest", !.man.val = Cut(guest.data, s)])
    /\ UNCHANGED <<Rest, storevars, n>>

\* ingest_chunk: one durable transaction, other versions of the node go.
ReadIngest(r) ==
    /\ rd[r].pc = "ingest"
    /\ man' = rd[r].man
    /\ Goes(r, Idle)
    /\ UNCHANGED <<Rest, ram, n>>

-----------------------------------------------------------------------------
Journal == ReadEvent \/ ApplyRec \/ Scan \/ Swap \/ WindowEnds
Writes  == \/ \E b \in Blocks : WriteBegin(b) \/ SyncWrite(b)
           \/ \E s \in 0 .. N - 1 : Truncate(s)
           \/ \E w \in begun : WriteQueue(w)
           \/ Land \/ Commit
Applies == \/ \E o \in ops : ApplySync(o) \/ ApplyTruncate(o) \/ ApplyCommit(o)
           \/ \E f \in fin : FinIngest(f) \/ FinRebind(f)
           \/ IdleTimer \/ DropEntry \/ LateTimer \/ DropNode
Reads   == \E r \in Reader : ReadCheck(r) \/ ReadHit(r) \/ ReadMiss(r) \/ ReadFetch(r) \/ ReadIngest(r)

Next == Journal \/ (\E b \in Blocks : GuestWrite(b)) \/ Writes \/ Applies \/ Reads

Spec == Init /\ [][Next]_vars

-----------------------------------------------------------------------------
(***************************************************************************)
(* Properties.                                                             *)
(***************************************************************************)
Contents == [Blocks -> Nat]
IsAttr(a) == a.mtime \in Nat /\ a.size \in 0 .. N /\ a.ver \in Nat

\* Every variable has its type; the batches in flight are in the stash that
\* is kept, and the store and memory hold one manifest per key.
TypeOK ==
    /\ guest.data \in Contents /\ guest.size \in 0 .. N /\ guest.mtime \in Nat
    /\ IsAttr(attr) /\ \A i \in DOMAIN jr : IsAttr(jr[i])
    /\ \A i \in DOMAIN wq : wq[i].blk \in Blocks /\ wq[i].val \in Nat
    /\ stash.kept => Len(stash.recs) <= STASH_MAX
    /\ stash.kept => \A i \in DOMAIN wq : Contains(stash.recs, wq[i])
    /\ man.val \in Contents /\ Cardinality(ram) <= RAM_CAP
    /\ \A m \in ram : IsAttr(m.key) /\ m.val \in Contents
    /\ \A m, x \in ram : m.key = x.key => m = x
    /\ \A r \in Reader : rd[r].pc \in {"idle", "checked", "fetch", "ingest"}

\* What the store or the memory of the surface holds under the key of the
\* moment is the content of the file, writes in flight included: no read that
\* began before a change and no late transaction puts an older content under a
\* newer key (content_fingerprint; design 06: CAS keyed by content_version
\* cannot serve stale).  Left out are a change the attributes do not tell of
\* yet, a key of the guest's that was in force before, and chunks that were
\* wrong when they were made.
CachedIsCurrent ==
    told = era => \A m \in Cached(attr) : m.sure => m.val = Cut(Logical, attr.size)

\* A chunk assembled from the stash is fully covered by stashed writes
\* (surface.rs 910, covered_chunks).
\* The code does not keep it: README, Known exceptions.
OnlyCovered ==
    \A f \in fin : f.pc = "ingest" => \A b \in 1 .. f.man.key.size : f.man.val[b] # 0

=============================================================================
