-------------------------------- MODULE Sync --------------------------------
(***************************************************************************)
(* How one share's changes travel from the guest to the host's replica.    *)
(*                                                                         *)
(*   guest kernel --kq--> fanotify reader --chan--> batcher --bcast-->     *)
(*   journal_writer --jlane--> journal_reader / Assembler::on_journal      *)
(*                                                                         *)
(*   request_resync --starts--> walker --blane--> bulk_reader /            *)
(*   Assembler::on_event, finish_seed --> the live replica                 *)
(*                                                                         *)
(* The journal lane and the bulk lane are served by two threads of the     *)
(* host: on_journal and finish_seed interleave between their locks.  The   *)
(* contents of a directory are reduced to the number of the change that    *)
(* made them, which is what a scan of it reads and a record of it carries. *)
(*                                                                         *)
(* The variable due is a history: the reasons for which the share needs a  *)
(* snapshot that nobody has asked for.  "channel": the reader dropped a    *)
(* record; "kernel": the kernel lost an event and said so only with the    *)
(* overflow event of an earlier loss; "unsubscribed": a batch found no     *)
(* subscriber; "seed": a batch came while finish_seed was between its      *)
(* locks; "overflow": finish_seed replayed an Overflow.  A snapshot that   *)
(* begins makes up for them, except for the first two: records older than  *)
(* the dropped one may come after it.                                      *)
(***************************************************************************)
EXTENDS Integers, Sequences, FiniteSets

CONSTANTS
    Dir,                \* directories of the share
    KERNEL_QUEUE,       \* events the fanotify group holds
    CHANNEL_DEPTH,      \* records between the reader and the batcher
    MAX_RECORDS,        \* records in a batch
    BROADCAST_DEPTH,    \* batches between the batcher and the journal lane
    MaxChange,          \* bound: changes in the guest
    MaxSession          \* bound: sessions

ASSUME SyncAssumption ==
    /\ IsFiniteSet(Dir)
    /\ {KERNEL_QUEUE, CHANNEL_DEPTH, MAX_RECORDS, BROADCAST_DEPTH} \subseteq Nat \ {0}
    /\ MaxChange \in Nat /\ MaxSession \in Nat /\ Dir \cap {"overflow", "done"} = {}

VARIABLES
    guest,      \* guest[d]: the last change of directory d
    kq,         \* events of the fanotify group
    rfull,      \* the reader found the channel full and has yet to signal it
    chan,       \* records on their way to the batcher
    bseq,       \* the batcher's next sequence number
    sub,        \* the journal lane is subscribed to the hub
    bcast,      \* batches the subscriber has not received
    lagged,     \* the subscriber was overtaken
    jlane,      \* batches on the journal lane
    starts,     \* SnapshotStart messages on their way
    walks,      \* walks in progress: snapshot id -> directories left
    blane,      \* SnapDir and SnapDone on the bulk lane
    session,    \* the number of the session, 0 before the first; up: it is alive
    up,
    snaps,      \* snapshot ids used
    staging,    \* Assembler.staging of the share
    seq,        \* Assembler.seq of the share
    fin,        \* finish_seed between two of its locks
    jrn,        \* on_journal between two of its locks
    live,       \* the replica readers see: state and contents
    due         \* history: reasons for a snapshot

gvars == <<guest, kq, rfull, chan, bseq>>                        \* the guest's journal
lvars == <<sub, bcast, lagged, jlane, starts, walks, blane>>     \* lanes
svars == <<session, up, snaps>>
hvars == <<staging, seq, fin, jrn, live>>                        \* the host
vars  == <<gvars, lvars, svars, hvars, due>>

OVERFLOW == [d |-> "overflow", v |-> 0]         \* FAN_Q_OVERFLOW, Rec::Overflow
Sentinel == [first |-> 0, recs |-> <<OVERFLOW>>]  \* the batch of ShareId(u16::MAX)
SEQ_ADOPT == -1
NoSeq     == -2                                 \* no entry in the seq map
None      == [id |-> 0]                         \* no staging, nothing in progress
Unseen    == -1                                 \* a directory no record was applied for
Lasting   == {"channel", "kernel"}              \* reasons no snapshot makes up for
Fresh     == [d \in Dir |-> Unseen]             \* ShareReplica::new

Changes == 0 .. MaxChange
View    == [Dir -> Changes \cup {Unseen}]

Init ==
    /\ guest = [d \in Dir |-> 0]
    /\ kq = <<>> /\ rfull = FALSE /\ chan = <<>> /\ bseq = 1
    /\ sub = FALSE /\ bcast = <<>> /\ lagged = FALSE /\ jlane = <<>>
    /\ starts = {} /\ walks = <<>> /\ blane = <<>>
    /\ session = 0 /\ up = FALSE /\ snaps = 0
    /\ staging = None /\ seq = NoSeq /\ fin = None /\ jrn = None
    /\ live = [state |-> "Seeding", view |-> Fresh]
    /\ due = {}

Made == CHOOSE n \in Changes : \A d \in Dir : guest[d] <= n /\ (n > 0 => \E e \in Dir : guest[e] = n)

-----------------------------------------------------------------------------
(***************************************************************************)
(* The guest: kernel queue, reader_loop, batcher.                          *)
(***************************************************************************)
\* A process of the guest changes d.  A full queue loses the event and holds
\* one overflow event instead; while that one is unread, also behind it.
Change(d) ==
    LET n == Made + 1
        lost == \E i \in DOMAIN kq : kq[i] = OVERFLOW
    IN  /\ Made < MaxChange
        /\ guest' = [guest EXCEPT ![d] = n]
        /\ kq' = IF Len(kq) < KERNEL_QUEUE THEN Append(kq, [d |-> d, v |-> n])
                 ELSE IF lost THEN kq ELSE Append(kq, OVERFLOW)
        /\ due' = IF Len(kq) >= KERNEL_QUEUE /\ lost /\ kq[Len(kq)] # OVERFLOW THEN due \cup {"kernel"} ELSE due
        /\ UNCHANGED <<rfull, chan, bseq, lvars, svars, hvars>>

\* reader_loop: try_send of the record.  On a full channel the record is lost.
ReadEvent ==
    LET e == Head(kq)
        full == Len(chan) >= CHANNEL_DEPTH
    IN  /\ kq # <<>> /\ ~ rfull
        /\ kq' = Tail(kq)
        /\ chan' = IF full THEN chan ELSE Append(chan, e)
        /\ rfull' = (full /\ e # OVERFLOW)
        /\ due' = IF full THEN due \cup {"channel"} ELSE due
        /\ UNCHANGED <<guest, bseq, lvars, svars, hvars>>

\* reader_loop, continued: try_send of an Overflow, its result ignored.
SignalFull ==
    LET full == Len(chan) >= CHANNEL_DEPTH
    IN  /\ rfull /\ rfull' = FALSE
        /\ chan' = IF full THEN chan ELSE Append(chan, OVERFLOW)
        /\ UNCHANGED <<guest, kq, bseq, lvars, svars, hvars, due>>

\* batcher: a batch of the next k records is numbered and broadcast.  Without
\* a subscriber it is dropped; a slow subscriber loses its oldest batch.
Broadcast(k) ==
    LET b == [first |-> bseq, recs |-> SubSeq(chan, 1, k)]
        over == Len(bcast) >= BROADCAST_DEPTH
    IN  /\ k <= Len(chan)
        /\ chan' = SubSeq(chan, k + 1, Len(chan))
        /\ bseq' = bseq + k
        /\ IF sub
           THEN /\ bcast' = Append(IF over THEN Tail(bcast) ELSE bcast, b)
                /\ lagged' = (lagged \/ over)
                /\ UNCHANGED due
           ELSE /\ due' = due \cup {"unsubscribed"}
                /\ UNCHANGED <<bcast, lagged>>
        /\ UNCHANGED <<guest, kq, rfull, sub, jlane, starts, walks, blane, svars, hvars>>

-----------------------------------------------------------------------------
(***************************************************************************)
(* The lanes: journal_writer, the SnapshotStart handler and the walker.    *)
(***************************************************************************)
\* journal_writer: subscribe, once the lane is attached.
Subscribe ==
    /\ up /\ ~ sub
    /\ sub' = TRUE
    /\ UNCHANGED <<gvars, bcast, lagged, jlane, starts, walks, blane, svars, hvars, due>>

\* journal_writer: the next batch, or the overflow sentinel after a lag.
WriteJournal ==
    /\ sub
    /\ IF lagged
       THEN lagged' = FALSE /\ jlane' = Append(jlane, Sentinel) /\ UNCHANGED bcast
       ELSE /\ bcast # <<>>
            /\ jlane' = Append(jlane, Head(bcast)) /\ bcast' = Tail(bcast)
            /\ UNCHANGED lagged
    /\ UNCHANGED <<gvars, sub, starts, walks, blane, svars, hvars, due>>

\* CtlMsg::SnapshotStart: a walk of the share begins.
StartWalk(i) ==
    /\ i \in starts
    /\ starts' = starts \ {i}
    /\ walks' = [k \in DOMAIN walks \cup {i} |-> IF k = i THEN Dir ELSE walks[k]]
    /\ UNCHANGED <<gvars, sub, bcast, lagged, jlane, blane, svars, hvars, due>>

\* scan_dir of one directory.
ScanDir(i, d) ==
    /\ i \in DOMAIN walks /\ d \in walks[i]
    /\ walks' = [walks EXCEPT ![i] = @ \ {d}]
    /\ blane' = Append(blane, [id |-> i, d |-> d, v |-> guest[d]])
    /\ UNCHANGED <<gvars, sub, bcast, lagged, jlane, starts, svars, hvars, due>>

\* The walk is over: SnapDone.
EndWalk(i) ==
    /\ i \in DOMAIN walks /\ walks[i] = {}
    /\ walks' = [k \in DOMAIN walks \ {i} |-> walks[k]]
    /\ blane' = Append(blane, [id |-> i, d |-> "done", v |-> 0])
    /\ UNCHANGED <<gvars, sub, bcast, lagged, jlane, starts, svars, hvars, due>>

-----------------------------------------------------------------------------
(***************************************************************************)
(* The host: Assembler.                                                    *)
(***************************************************************************)
\* apply_rec of each record in turn; Overflow changes nothing.
ApplyRecs(view, recs) ==
    [d \in Dir |->
        LET at == {i \in DOMAIN recs : recs[i].d = d}
        IN  IF at = {} THEN view[d]
            ELSE recs[CHOOSE i \in at : \A k \in at : k <= i].v]

End(b) == b.first + Len(b.recs)

\* Mutant: a resync is set up and its SnapshotStart never sent.
ResyncUnsent ==
    /\ snaps' = snaps + 1
    /\ staging' = [id |-> snaps + 1, view |-> Fresh, buf |-> <<>>]
    /\ seq' = NoSeq
    /\ UNCHANGED starts
    /\ due' = due \cap Lasting

\* Mutant: the id of the staged snapshot is not taken from the counter.
ResyncStaleId ==
    /\ snaps' = snaps
    /\ staging' = [id |-> snaps + 1, view |-> Fresh, buf |-> <<>>]
    /\ seq' = NoSeq
    /\ starts' = starts \cup {snaps + 1}
    /\ due' = due \cap Lasting

\* begin, and the SnapshotStart that goes with it (request_resync, run_session).
Resync ==
    /\ snaps' = snaps + 1
    /\ staging' = [id |-> snaps + 1, view |-> Fresh, buf |-> <<>>]
    /\ seq' = NoSeq
    /\ starts' = starts \cup {snaps + 1}
    /\ due' = due \cap Lasting

\* Mutant: a batch that comes during the walk is dropped, not kept.
TakeBatchUnbuffered ==
    LET b == Head(jlane)
    IN  /\ jlane # <<>> /\ jrn = None
        /\ jlane' = Tail(jlane)
        /\ IF b = Sentinel
           THEN Resync /\ UNCHANGED jrn
           ELSE /\ jrn' = IF staging # None THEN None ELSE [id |-> 1, b |-> b, at |-> "pick"]
                /\ UNCHANGED <<staging, seq, starts, snaps, due>>
        /\ UNCHANGED <<gvars, sub, bcast, lagged, walks, blane, session, up, fin, live>>

\* on_journal: the sentinel starts a resync; a batch is buffered while a
\* snapshot is staging, otherwise it goes on to the live replica.
TakeBatch ==
    LET b == Head(jlane)
    IN  /\ jlane # <<>> /\ jrn = None
        /\ jlane' = Tail(jlane)
        /\ IF b = Sentinel
           THEN Resync /\ UNCHANGED jrn
           ELSE IF staging # None
           THEN /\ staging' = [staging EXCEPT !.buf = Append(@, b)]
                /\ UNCHANGED <<seq, starts, snaps, due, jrn>>
           ELSE /\ jrn' = [id |-> 1, b |-> b, at |-> "pick"]
                /\ UNCHANGED <<staging, seq, starts, snaps, due>>
        /\ UNCHANGED <<gvars, sub, bcast, lagged, walks, blane, session, up, fin, live>>

\* on_journal: takes the replica that is live now; the batch is dropped when
\* that one is still seeding.
PickReplica ==
    /\ jrn # None /\ jrn.at = "pick"
    /\ IF live.state = "Live"
       THEN jrn' = [jrn EXCEPT !.at = "apply"] /\ UNCHANGED due
       ELSE jrn' = None /\ due' = due \cup {"seed"}
    /\ UNCHANGED <<gvars, lvars, svars, staging, seq, fin, live>>

\* finish_seed is about to replace the live replica.
SwapPending == fin # None /\ fin.at = "swap"

\* on_journal: the check of the sequence number, the records, and the resync
\* that a gap or an Overflow asks for.  The replica may have been replaced.
ApplyBatch ==
    LET b == jrn.b
        fits == seq = SEQ_ADOPT \/ b.first = seq
        gap == seq # NoSeq /\ ~ fits
        overflow == seq # NoSeq /\ fits /\ \E i \in DOMAIN b.recs : b.recs[i] = OVERFLOW
    IN  /\ jrn # None /\ jrn.at \in {"apply", "replaced"}
        /\ jrn' = None
        /\ live' = IF seq # NoSeq /\ fits /\ jrn.at = "apply"
                   THEN [live EXCEPT !.view = ApplyRecs(@, b.recs)] ELSE live
        /\ IF gap \/ overflow
           THEN Resync
           ELSE /\ seq' = IF seq = NoSeq THEN seq ELSE End(b)
                /\ due' = IF seq = NoSeq \/ jrn.at = "replaced" \/ SwapPending
                          THEN due \cup {"seed"} ELSE due
                /\ UNCHANGED <<staging, starts, snaps>>
        /\ UNCHANGED <<gvars, sub, bcast, lagged, jlane, walks, blane, session, up, fin>>

\* Mutant: SnapDone is taken for the snapshot that is staging, whatever its id.
TakeSnapAnyId ==
    LET e == Head(blane)
    IN  /\ blane # <<>> /\ fin = None
        /\ blane' = Tail(blane)
        /\ IF staging = None
           THEN UNCHANGED <<staging, fin>>
           ELSE IF e.d = "done"
           THEN staging' = None /\ fin' = [id |-> 1, view |-> staging.view, buf |-> staging.buf, at |-> "swap"]
           ELSE /\ staging' = IF staging.id = e.id THEN [staging EXCEPT !.view[e.d] = e.v] ELSE staging
                /\ UNCHANGED fin
        /\ UNCHANGED <<gvars, sub, bcast, lagged, jlane, starts, walks, svars, seq, jrn, live, due>>

\* on_event of the bulk lane: SnapDir goes into the staging replica of its
\* snapshot; SnapDone takes that replica out of the staging map.
TakeSnap ==
    LET e == Head(blane)
    IN  /\ blane # <<>> /\ fin = None
        /\ blane' = Tail(blane)
        /\ IF staging = None \/ staging.id # e.id
           THEN UNCHANGED <<staging, fin>>
           ELSE IF e.d = "done"
           THEN staging' = None /\ fin' = [id |-> 1, view |-> staging.view, buf |-> staging.buf, at |-> "swap"]
           ELSE staging' = [staging EXCEPT !.view[e.d] = e.v] /\ UNCHANGED fin
        /\ UNCHANGED <<gvars, sub, bcast, lagged, jlane, starts, walks, svars, seq, jrn, live, due>>

\* The buffered batches in order: the last batch with a record of d is what counts.
Replay(view, buf) ==
    [d \in Dir |->
        LET at == {i \in DOMAIN buf : \E k \in DOMAIN buf[i].recs : buf[i].recs[k].d = d}
        IN  IF at = {} THEN view[d]
            ELSE ApplyRecs(view, buf[CHOOSE i \in at : \A j \in at : j <= i].recs)[d]]

Overflowed(buf) == \E i \in DOMAIN buf : \E k \in DOMAIN buf[i].recs : buf[i].recs[k] = OVERFLOW

\* finish_seed: the buffer is replayed, whatever apply_rec answers, and the
\* replica swapped in.
SwapReplica ==
    /\ SwapPending
    /\ live' = [state |-> "Live", view |-> Replay(fin.view, fin.buf)]
    /\ fin' = [fin EXCEPT !.at = "seq"]
    /\ jrn' = IF jrn # None /\ jrn.at = "apply" THEN [jrn EXCEPT !.at = "replaced"] ELSE jrn
    /\ due' = IF Overflowed(fin.buf) THEN due \cup {"overflow"} ELSE due
    /\ UNCHANGED <<gvars, lvars, svars, staging, seq>>

\* finish_seed: the number expected next, SEQ_ADOPT when nothing was buffered.
SetSeq ==
    /\ fin # None /\ fin.at = "seq"
    /\ seq' = IF fin.buf = <<>> THEN SEQ_ADOPT ELSE End(fin.buf[Len(fin.buf)])
    /\ fin' = None
    /\ UNCHANGED <<gvars, lvars, svars, staging, jrn, live, due>>

-----------------------------------------------------------------------------
(***************************************************************************)
(* Sessions.  A new session has a new Assembler, new lanes and a snapshot  *)
(* of its own; the replica of the share stays.  No handler is running when *)
(* a session ends.                                                         *)
(***************************************************************************)
Connect ==
    /\ ~ up /\ session < MaxSession
    /\ session' = session + 1 /\ up' = TRUE
    /\ Resync
    /\ UNCHANGED <<gvars, sub, bcast, lagged, jlane, walks, blane, fin, jrn, live>>

EndSession ==
    /\ up /\ session < MaxSession /\ fin = None /\ jrn = None
    /\ up' = FALSE /\ sub' = FALSE /\ bcast' = <<>> /\ lagged' = FALSE
    /\ jlane' = <<>> /\ starts' = {} /\ walks' = <<>> /\ blane' = <<>>
    /\ staging' = None /\ seq' = NoSeq
    /\ UNCHANGED <<gvars, session, snaps, fin, jrn, live, due>>

-----------------------------------------------------------------------------
System ==
    \/ ReadEvent \/ SignalFull \/ \E k \in 1 .. MAX_RECORDS : Broadcast(k)
    \/ Subscribe \/ WriteJournal
    \/ \E i \in starts : StartWalk(i)
    \/ \E i \in DOMAIN walks : EndWalk(i) \/ \E d \in Dir : ScanDir(i, d)
    \/ TakeBatch \/ PickReplica \/ ApplyBatch
    \/ TakeSnap \/ SwapReplica \/ SetSeq
    \/ Connect

Next == (\E d \in Dir : Change(d)) \/ EndSession \/ System

Spec == Init /\ [][Next]_vars

\* Every thread that can run does: the reader, the batcher, the lanes, the
\* walkers and the two readers of the host are loops without a condition of
\* their own, and supervise reconnects for ever.
FairSpec ==
    /\ Spec
    /\ WF_vars(ReadEvent) /\ WF_vars(SignalFull)
    /\ WF_vars(\E k \in 1 .. MAX_RECORDS : Broadcast(k))
    /\ WF_vars(Subscribe) /\ WF_vars(WriteJournal)
    /\ WF_vars(\E i \in starts : StartWalk(i))
    /\ WF_vars(\E i \in DOMAIN walks : EndWalk(i) \/ \E d \in Dir : ScanDir(i, d))
    /\ WF_vars(TakeBatch) /\ WF_vars(PickReplica) /\ WF_vars(ApplyBatch)
    /\ WF_vars(TakeSnap) /\ WF_vars(SwapReplica) /\ WF_vars(SetSeq)
    /\ WF_vars(Connect)

-----------------------------------------------------------------------------
(***************************************************************************)
(* Properties.                                                             *)
(***************************************************************************)
Rec   == [d : Dir, v : Changes] \cup {OVERFLOW}
Batch == [first : Nat, recs : Seq(Rec)]

\* Every variable has its type.
TypeOK ==
    /\ guest \in [Dir -> Changes]
    /\ kq \in Seq(Rec) /\ rfull \in BOOLEAN /\ chan \in Seq(Rec) /\ bseq \in Nat
    /\ sub \in BOOLEAN /\ bcast \in Seq(Batch) /\ lagged \in BOOLEAN /\ jlane \in Seq(Batch)
    /\ starts \in SUBSET (1 .. snaps)
    /\ DOMAIN walks \subseteq 1 .. snaps /\ \A i \in DOMAIN walks : walks[i] \subseteq Dir
    /\ \A i \in DOMAIN blane : blane[i].id \in 1 .. snaps
    /\ session \in 0 .. MaxSession /\ up \in BOOLEAN /\ snaps \in Nat
    /\ staging # None => /\ staging.id \in 1 .. snaps
                         /\ staging.view \in View /\ staging.buf \in Seq(Batch)
    /\ seq \in Nat \cup {SEQ_ADOPT, NoSeq}
    /\ fin # None => fin.view \in View /\ fin.buf \in Seq(Batch) /\ fin.at \in {"swap", "seq"}
    /\ jrn # None => jrn.b \in Batch /\ jrn.at \in {"pick", "apply", "replaced"}
    /\ live.state \in {"Seeding", "Live"} /\ live.view \in View
    /\ due \subseteq Lasting \cup {"overflow", "unsubscribed", "seed"}

\* Nothing is on its way and nobody has anything left to do.
Quiescent ==
    /\ up /\ sub /\ kq = <<>> /\ ~ rfull /\ chan = <<>> /\ bcast = <<>> /\ ~ lagged
    /\ jlane = <<>> /\ starts = {} /\ walks = <<>> /\ blane = <<>>
    /\ staging = None /\ fin = None /\ jrn = None

\* Once everything has drained the host has what the guest has: every change
\* reached the replica by the walk, by the replayed buffer or live, unless a
\* snapshot is due for one of the five reasons above (the consistent cut of
\* finish_seed, the gap check of on_journal, the lag sentinel).
Converged == Quiescent /\ due = {} => live.view = guest

\* Readers never see a half-built tree: the replica that is swapped in has
\* been told about every directory (snap_id check of on_event, finish_seed).
NeverHalfBuilt == live.state = "Live" => \A d \in Dir : live.view[d] # Unseen

\* When the guest stops changing and sessions stop ending, everything drains:
\* no resync waits for ever and none causes the next (request_resync,
\* SEQ_ADOPT).
Settles == <>[]Quiescent

\* Everything has drained, and the replica is behind for no other reason than c.
LeftBehind(c) == Quiescent /\ due = {c} /\ live.view # guest

\* An Overflow record that reaches the host makes it take a snapshot
\* (design/02-protocol.md 185: FAN_Q_OVERFLOW => resync protocol).
\* The code does not keep it: README, Known exceptions.
OverflowResyncs == ~ LeftBehind("overflow")

=============================================================================
