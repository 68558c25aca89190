------------------------------ MODULE Namespace ------------------------------
(***************************************************************************)
(* Who sees which names.  Files of a share are created, linked, renamed    *)
(* and removed by processes of the guest and by the Mac.                   *)
(*                                                                         *)
(*   guest process --events--> reader_loop, synthesize --journal-->        *)
(*   Assembler::on_journal --> the live replica                            *)
(*                                                                         *)
(*   Mac --> NFS server --> ShareSurface --rpc--> applier --> guest        *)
(*                          ShareSurface, after the answer --> replica     *)
(*                                                                         *)
(* The reader drops the events of mistd itself, so a change by the Mac     *)
(* reaches the replica by its answer only.  The replica locks one shard at *)
(* a time: what a thread does to it is a program (prog) of steps, one per  *)
(* lock, and the programs of the journal and of the Mac's calls interleave.*)
(* The Mac keeps a listing of each directory for as long as the change     *)
(* attribute it came with is the current one: change_of, the mtime.  An    *)
(* mtime is <<t, k>>: a time read from a clock, and the nanoseconds the    *)
(* replica has added.  No two times are equal.                             *)
(*                                                                         *)
(* Data left out: attributes of files, kinds other than a regular file,    *)
(* the batches of the journal (module Sync) and lanes that fail (Lanes).   *)
(*                                                                         *)
(* Histories.  off: names of which the replica may be wrong, as mutations  *)
(* of one name or one file overlapped and the Mac made one of them, or the *)
(* reader looked a new name up too late, or a reseed overtook the Mac, or  *)
(* the answer to the Mac's mutation was lost.                              *)
(* cut: names a rename moved while a walk was under way.                   *)
(* excuse: why the Mac's listing of a directory may be old.                *)
(***************************************************************************)
EXTENDS Integers, Sequences, FiniteSets

CONSTANTS
    Dir,            \* directories, always there
    Name,           \* names in each of them
    Call,           \* calls the Mac can have under way
    MaxNode,        \* bound: files ever made
    MaxMutation,    \* bound: mutations by the guest and the Mac together
    MaxSeed         \* bound: snapshots

ASSUME NamespaceAssumption ==
    /\ IsFiniteSet(Dir) /\ IsFiniteSet(Name) /\ IsFiniteSet(Call)
    /\ MaxNode \in Nat \ {0} /\ MaxMutation \in Nat /\ MaxSeed \in Nat

Slot   == Dir \X Name           \* (parent, name)
Node   == 1 .. MaxNode
None   == 0                     \* no file
Thread == Call \cup {"journal"}

VARIABLES
    guest,      \* guest[s]: the file s names
    used,       \* files made so far
    mtime,      \* mtime[d]: the time of a directory's last change
    events,     \* events of the fanotify group, each with the process it is of
    journal,    \* records on their way to the host
    ent,        \* replica: ent[s], the node of the dentry
    live,       \* replica: the nodes it has
    links,      \* replica: Node.links
    chg,        \* replica: the change attribute of each directory
    prog,       \* what each thread has left to do to the replica
    call,       \* the Mac's calls
    late,       \* requests the Mac has given up and the applier may still serve
    dirty,      \* files and directories inside their MAC_DIRTY_WINDOW
    staging,    \* the snapshot under way
    cached,     \* the Mac's listings
    mutations, seeds,   \* used of the bounds
    off, cut,   \* histories: names that may be wrong
    excuse      \* history: why a listing may be old

gvars == <<guest, used, mtime, events>>
rvars == <<ent, live, links>>
mac   == <<call, late>>
hist  == <<off, cut, excuse>>
bounds == <<mutations, seeds>>
vars  == <<gvars, journal, rvars, chg, prog, mac, dirty, staging, cached, bounds, hist>>

NoCall    == [op |-> "none"]
NoStaging == [on |-> FALSE]
NoListing == [chg |-> <<-1, 0>>, view |-> [m \in Name |-> None]]
Files(f)  == {f[s] : s \in Slot} \ {None}

\* The share is seeded and the Mac has listed every directory.
Init ==
    /\ guest \in [Slot -> 0 .. 1] /\ Cardinality({s \in Slot : guest[s] # None}) <= 1
    /\ used = Cardinality(Files(guest)) /\ mtime = [d \in Dir |-> 0]
    /\ events = <<>> /\ journal = <<>>
    /\ ent = guest /\ live = Files(guest)
    /\ links = [n \in Node |-> Cardinality({s \in Slot : guest[s] = n})]
    /\ chg = [d \in Dir |-> <<0, 0>>]
    /\ prog = [t \in Thread |-> <<>>]
    /\ call = [c \in Call |-> NoCall] /\ late = {}
    /\ dirty = {} /\ staging = NoStaging
    /\ cached = [d \in Dir |-> [chg |-> <<0, 0>>, view |-> [m \in Name |-> guest[<<d, m>>]]]]
    /\ mutations = 0 /\ seeds = 0
    /\ off = {} /\ cut = {} /\ excuse = [d \in Dir |-> {}]

-----------------------------------------------------------------------------
(***************************************************************************)
(* The guest's file system.  A change is an operation op on the slot a,    *)
(* and on b for a rename or a link.                                        *)
(***************************************************************************)
Touched(op, a, b) == IF op \in {"rename", "link"} THEN {a, b} ELSE {a}

\* The operations of a process that succeed, with the state they leave.
Create(a)    == [guest EXCEPT ![a] = used + 1]
Unlink(a)    == [guest EXCEPT ![a] = None]
Rename(a, b) == [guest EXCEPT ![a] = None, ![b] = guest[a]]
Link(a, b)   == [guest EXCEPT ![b] = guest[a]]

After(op, a, b) ==
    CASE op = "create" -> Create(a)
      [] op = "remove" -> Unlink(a)
      [] op = "rename" -> Rename(a, b)
      [] op = "link"   -> Link(a, b)

Succeeds(op, a, b) ==
    CASE op = "create" -> guest[a] = None /\ used < MaxNode
      [] op = "remove" -> guest[a] # None
      [] op = "rename" -> guest[a] # None /\ a # b
      [] op = "link"   -> guest[a] # None /\ guest[b] = None

Event(op, a, b, n, by) == [op |-> op, a |-> a, b |-> b, n |-> n, by |-> by]

\* The events of a change: the entry's, and DELETE_SELF of a file that lost
\* its last name.
Events(op, a, b, by) ==
    LET g    == After(op, a, b)
        gone == Files(guest) \ Files(g)
        e    == IF op = "link" THEN Event("create", b, b, g[b], by)
                ELSE Event(op, a, b, g[a], by)
    IN  IF gone = {} THEN <<e>>
        ELSE <<e, Event("delete_self", a, b, CHOOSE n \in gone : TRUE, by)>>

\* Renaming one name of a file to another of its names changes nothing.
Same(op, a, b) == op = "rename" /\ guest[a] = guest[b]

\* The directories that op changes.
Changed(op, a, b) == {s[1] : s \in IF op = "link" THEN {b} ELSE Touched(op, a, b)}

\* A time that is later than all the times anybody has of directory d: one that
\* nobody has.
Times(d) ==
    {mtime[d], chg[d][1], cached[d].chg[1]}
    \cup {call[c].before[d][1] : c \in {e \in Call : call[e].op # "none" /\ d \in DOMAIN call[e].before}}
    \cup {staging.attr[e] : e \in IF staging.on THEN {d} \cap DOMAIN staging.attr ELSE {}}
    \cup UNION {{prog[t][i].n[1] : i \in {j \in DOMAIN prog[t] : prog[t][j].do = "set_mtime" /\ prog[t][j].a[1] = d}}
               : t \in Thread}
Clock(d) == CHOOSE m \in 0 .. Cardinality(Times(d)) : m \notin Times(d)

\* The file system after op by a process (by = "guest") or by the applier.
Perform(op, a, b, by) ==
    IF Same(op, a, b) THEN UNCHANGED gvars
    ELSE /\ guest' = After(op, a, b)
         /\ used' = IF op = "create" THEN used + 1 ELSE used
         /\ mtime' = [d \in Dir |-> IF d \in Changed(op, a, b) THEN Clock(d) ELSE mtime[d]]
         /\ events' = events \o Events(op, a, b, by)

-----------------------------------------------------------------------------
(***************************************************************************)
(* Overlaps (history).  The mutations under way: the guest's, from the     *)
(* event to the end of the record's program; the Mac's, from the applier   *)
(* to the end of the call.                                                 *)
(***************************************************************************)
Pending ==
    {<<events[i].a, events[i].b>> : i \in {j \in DOMAIN events : events[j].by = "guest"}}
    \cup {<<journal[i].a, journal[i].b>> : i \in DOMAIN journal}
    \cup {<<prog["journal"][i].a, prog["journal"][i].b>> : i \in DOMAIN prog["journal"]}
    \cup IF staging.on THEN {<<staging.buf[i].a, staging.buf[i].b>> : i \in DOMAIN staging.buf} ELSE {}
Ran == {c \in Call : call[c].op # "none" /\ call[c].at \in {"made", "ran", "apply"}}

\* The slots that name one of the files of S, now or in the replica.
Kin(S) == S \cup {s \in Slot : \E q \in S : \/ guest[q] # None /\ guest[s] = guest[q]
                                            \/ ent[q] # None /\ ent[s] = ent[q]}

\* The slots on which a mutation of S would overlap one of others.
Crossed(S, others) ==
    LET hit == {p \in others : Kin({p[1], p[2]}) \cap Kin(S) # {}}
    IN  IF hit = {} THEN {} ELSE Kin(S) \cup UNION {Kin({p[1], p[2]}) : p \in hit}

-----------------------------------------------------------------------------
(***************************************************************************)
(* A process of the guest, and the reader.                                 *)
(***************************************************************************)
Mutate(op, a, b) ==
    /\ mutations < MaxMutation /\ mutations' = mutations + 1
    /\ Succeeds(op, a, b)
    /\ Perform(op, a, b, "guest")
    /\ off' = off \cup Crossed(Touched(op, a, b), {<<call[c].a, call[c].b>> : c \in Ran})
    /\ UNCHANGED <<journal, rvars, chg, prog, mac, dirty, staging, cached, seeds, cut, excuse>>

Rec(op, a, b, n) == [op |-> op, a |-> a, b |-> b, n |-> n]

\* created_rec looks the name up now: it may be gone, or name another file.
CreatedRec(e) ==
    IF guest[e.a] = None THEN <<>> ELSE <<Rec("created", e.a, e.a, guest[e.a])>>

\* Mutant: the events of mistd itself are not told from the others.
ReaderKeepsOwn(e) ==
    CASE e.op = "create" -> CreatedRec(e)
      [] e.op = "remove" -> <<Rec("removed", e.a, e.a, None)>>
      [] e.op = "rename" -> <<Rec("renamed", e.a, e.b, None)>>
      [] e.op = "delete_self" -> <<Rec("self_removed", e.a, e.b, e.n)>>

\* reader_loop and synthesize: no record for an event of mistd itself.
Synthesize(e) ==
    IF e.by = "mistd" THEN <<>>
    ELSE CASE e.op = "create" -> CreatedRec(e)
           [] e.op = "remove" -> <<Rec("removed", e.a, e.a, None)>>
           [] e.op = "rename" -> <<Rec("renamed", e.a, e.b, None)>>
           [] e.op = "delete_self" -> <<Rec("self_removed", e.a, e.b, e.n)>>

\* A rename carries the doubt about its source to its target (history).
Moved(rename, S, e) == IF rename /\ e.a \in S THEN {e.b} ELSE {}

ReadEvent ==
    LET e == Head(events)
        passed == e.by = "guest" /\ e.op = "create" /\ guest[e.a] # e.n
        moved == e.by = "guest" /\ e.op = "rename"
    IN  /\ events # <<>>
        /\ events' = Tail(events)
        /\ journal' = journal \o Synthesize(e)
        /\ off' = off \cup (IF passed THEN {e.a} ELSE {}) \cup Moved(moved, off, e)
        /\ cut' = cut \cup Moved(moved, cut, e)
        /\ UNCHANGED <<guest, used, mtime, rvars, chg, prog, mac, dirty, staging, cached, bounds, excuse>>

-----------------------------------------------------------------------------
(***************************************************************************)
(* Programs.  apply_rec of a record, as the steps it takes.                *)
(***************************************************************************)
Do(do, a, b, n) == [do |-> do, a |-> a, b |-> b, n |-> n]

ApplyCreated(a, n)  == <<Do("upsert_node", a, a, n), Do("dentry_set", a, a, n)>>
ApplyRemoved(a)     == <<Do("dentry_remove", a, a, None)>>
ApplyRenamed(a, b)  == <<Do("dentry_take", a, b, None)>>
ApplySelfRemoved(r) == <<Do("force_remove", r.a, r.b, r.n)>>

\* The dentry's node, as getattr finds it.
Lookup(s) == IF ent[s] \in live THEN ent[s] ELSE None
DirsOf(a, b) == {a[1], b[1]}

\* Calls of others that have read the change attribute of a directory of D
\* and not yet answered (history).
Mixing(t, D) == [c \in Call |->
    IF c # t /\ call[c].op # "none" /\ DirsOf(call[c].a, call[c].b) \cap D # {}
    THEN [call[c] EXCEPT !.mixed = TRUE] ELSE call[c]]

\* Mutant: the parents are bumped before apply_rec.
JournalNudgesFirst(r) ==
    CASE r.op = "created" -> <<Do("nudge", r.a, r.a, r.n)>> \o ApplyCreated(r.a, r.n)
      [] r.op = "removed" -> (IF Lookup(r.a) \in dirty THEN <<Do("echo", r.a, r.a, None)>>
                              ELSE <<Do("bump_dir_attr", r.a, r.a, None)>>) \o ApplyRemoved(r.a)
      [] r.op = "renamed" -> <<Do("nudge_both", r.a, r.b, None)>> \o ApplyRenamed(r.a, r.b)
      [] r.op = "self_removed" -> ApplySelfRemoved(r)

\* The steps of one record of the journal: apply_rec, then bump_dir_attr of
\* the parents unless the record is taken for an echo.
JournalSteps(r) ==
    CASE r.op = "created" -> ApplyCreated(r.a, r.n) \o <<Do("nudge", r.a, r.a, r.n)>>
      [] r.op = "removed" -> ApplyRemoved(r.a) \o
                             (IF Lookup(r.a) \in dirty THEN <<Do("echo", r.a, r.a, None)>>
                              ELSE <<Do("bump_dir_attr", r.a, r.a, None)>>)
      [] r.op = "renamed" -> ApplyRenamed(r.a, r.b) \o <<Do("nudge_both", r.a, r.b, None)>>
      [] r.op = "self_removed" -> ApplySelfRemoved(r)

\* on_journal takes the next record: buffers it while a snapshot is staging.
TakeRecord ==
    LET r == Head(journal)
    IN  /\ journal # <<>> /\ prog["journal"] = <<>>
        /\ journal' = Tail(journal)
        /\ off' = off \cup Moved(r.op = "renamed", off, r)
        /\ cut' = cut \cup Moved(r.op = "renamed", cut, r)
        /\ IF staging.on
           THEN /\ staging' = [staging EXCEPT !.buf = Append(@, r)]
                /\ UNCHANGED <<prog, call>>
           ELSE /\ prog' = [prog EXCEPT !["journal"] = JournalSteps(r)]
                /\ call' = Mixing("journal", DirsOf(r.a, r.b))
                /\ UNCHANGED staging
        /\ UNCHANGED <<gvars, rvars, chg, late, dirty, cached, bounds, excuse>>

-----------------------------------------------------------------------------
(***************************************************************************)
(* The steps.  Each is one lock of the replica, taken by thread t.         *)
(***************************************************************************)
Is(t, do)       == prog[t] # <<>> /\ Head(prog[t]).do = do
First(t)        == Head(prog[t])
Go(t, first)    == prog' = [prog EXCEPT ![t] = first \o Tail(@)]
Elsewhere       == <<gvars, journal, mac, dirty, staging, cached, bounds>>

UpsertNode(t) ==
    /\ Is(t, "upsert_node") /\ Go(t, <<>>)
    /\ live' = live \cup {First(t).n}
    /\ UNCHANGED <<ent, links, chg, Elsewhere, hist>>

\* A dentry that names another file now: its link is counted, and the old
\* target's dropped, after the lock of the directory.
DentrySet(t) ==
    LET p == First(t)
        old == ent[p.a]
    IN  /\ Is(t, "dentry_set")
        /\ ent' = [ent EXCEPT ![p.a] = p.n]
        /\ Go(t, IF old = p.n THEN <<>>
                 ELSE <<Do("link_inc", p.a, p.a, p.n)>> \o
                      IF old = None THEN <<>> ELSE <<Do("link_dec", p.a, p.a, old)>>)
        /\ UNCHANGED <<live, links, chg, Elsewhere, hist>>

DentryRemove(t) ==
    LET p == First(t)
        old == ent[p.a]
    IN  /\ Is(t, "dentry_remove")
        /\ ent' = [ent EXCEPT ![p.a] = None]
        /\ Go(t, IF old = None THEN <<>> ELSE <<Do("link_dec", p.a, p.a, old)>>)
        /\ UNCHANGED <<live, links, chg, Elsewhere, hist>>

\* The source of a rename: without one nothing happens.
DentryTake(t) ==
    LET p == First(t)
    IN  /\ Is(t, "dentry_take")
        /\ ent' = [ent EXCEPT ![p.a] = None]
        /\ Go(t, IF ent[p.a] = None THEN <<>> ELSE <<Do("dentry_relink", p.a, p.b, ent[p.a])>>)
        /\ UNCHANGED <<live, links, chg, Elsewhere, hist>>

DentryRelink(t) ==
    LET p == First(t)
        old == ent[p.b]
    IN  /\ Is(t, "dentry_relink")
        /\ ent' = [ent EXCEPT ![p.b] = p.n]
        /\ Go(t, IF old \in {None, p.n} THEN <<>> ELSE <<Do("link_dec", p.a, p.b, old)>>)
        /\ UNCHANGED <<live, links, chg, Elsewhere, hist>>

LinkInc(t) ==
    LET n == First(t).n
    IN  /\ Is(t, "link_inc") /\ Go(t, <<>>)
        /\ links' = IF n \in live THEN [links EXCEPT ![n] = @ + 1] ELSE links
        /\ UNCHANGED <<ent, live, chg, Elsewhere, hist>>

\* The last link gone: remove_node, in a lock of its own.
LinkDec(t) ==
    LET p == First(t)
    IN  /\ Is(t, "link_dec")
        /\ links' = [links EXCEPT ![p.n] = IF @ = 0 THEN 0 ELSE @ - 1]
        /\ Go(t, IF p.n \in live /\ links[p.n] <= 1
                 THEN <<Do("remove_node", p.a, p.b, p.n)>> ELSE <<>>)
        /\ UNCHANGED <<ent, live, chg, Elsewhere, hist>>

ForceRemove(t) ==
    LET p == First(t)
    IN  /\ Is(t, "force_remove")
        /\ links' = [links EXCEPT ![p.n] = 0]
        /\ Go(t, IF p.n \in live THEN <<Do("remove_node", p.a, p.b, p.n)>> ELSE <<>>)
        /\ UNCHANGED <<ent, live, chg, Elsewhere, hist>>

RemoveNode(t) ==
    LET n == First(t).n
    IN  /\ Is(t, "remove_node") /\ Go(t, <<>>)
        /\ live' = live \ {n}
        /\ links' = [links EXCEPT ![n] = 0]
        /\ UNCHANGED <<ent, chg, Elsewhere, hist>>

\* One nanosecond later.
Later(m) == <<m[1], m[2] + 1>>

\* bump_dir_attr
BumpDirAttr(t) ==
    /\ Is(t, "bump_dir_attr") /\ Go(t, <<>>)
    /\ chg' = [chg EXCEPT ![First(t).a[1]] = Later(@)]
    /\ UNCHANGED <<rvars, Elsewhere, hist>>

\* on_journal: a Created of a file the Mac wrote just now, a Renamed in a
\* directory the Mac changed just now, do not bump the parents.
Nudge(t) ==
    LET p == First(t)
        both == p.do = "nudge_both"
        fence == IF both THEN DirsOf(p.a, p.b) ELSE {p.n}
        bumps == <<Do("bump_dir_attr", p.a, p.a, None)>> \o
                 IF both THEN <<Do("bump_dir_attr", p.b, p.b, None)>> ELSE <<>>
        why == IF both THEN "dir fence" ELSE "node fence"
    IN  /\ Is(t, "nudge") \/ Is(t, "nudge_both")
        /\ IF fence \cap dirty = {}
           THEN Go(t, bumps) /\ UNCHANGED excuse
           ELSE /\ Go(t, <<>>)
                /\ excuse' = [d \in Dir |-> IF d \in DirsOf(p.a, p.b) THEN excuse[d] \cup {why}
                                            ELSE excuse[d]]
        /\ UNCHANGED <<rvars, chg, Elsewhere, off, cut>>

\* A Removed of a file the Mac wrote just now does not bump the parent.
Echo(t) ==
    /\ Is(t, "echo") /\ Go(t, <<>>)
    /\ excuse' = [excuse EXCEPT ![First(t).a[1]] = @ \cup {"node fence"}]
    /\ UNCHANGED <<rvars, chg, Elsewhere, off, cut>>

-----------------------------------------------------------------------------
(***************************************************************************)
(* The Mac.                                                                *)
(***************************************************************************)
\* A mutation of op begins: dir_change of the directories is read, and the
\* request goes to the guest.
Begin(c, op, a, b) ==
    /\ mutations < MaxMutation /\ mutations' = mutations + 1
    /\ call[c] = NoCall
    /\ call' = [call EXCEPT ![c] =
                  [op |-> op, a |-> a, b |-> b, at |-> "sent", n |-> Lookup(a), before |-> [d \in DirsOf(a, b) |-> chg[d]],
                   mixed |-> \E t \in Thread \ {c} : prog[t] # <<>>]]
    /\ UNCHANGED <<gvars, journal, rvars, chg, prog, late, dirty, staging, cached, seeds, hist>>

\* op_open creates a name that the replica does not have.
Open(c, a) == Lookup(a) = None /\ Begin(c, "create", a, a)

\* REMOVE and RENAME of a name the Mac has looked up.
RemoveOp(c, a)    == Lookup(a) # None /\ Begin(c, "remove", a, a)
RenameOp(c, a, b) == Lookup(a) # None /\ a # b /\ Begin(c, "rename", a, b)

\* The applier runs the operation.  O_CREAT opens a file that is there; other
\* operations may fail.
Exists(q) == q.op = "create" /\ guest[q.a] # None
Runs(q)   == Exists(q) \/ Succeeds(q.op, q.a, q.b)

\* What becomes of the guest; heard: the answer is waited for.
Serve(q, others, heard) ==
    LET S == Touched(q.op, q.a, q.b)
    IN  /\ IF Runs(q) /\ ~ Exists(q) THEN Perform(q.op, q.a, q.b, "mistd") ELSE UNCHANGED gvars
        /\ off' = IF ~ Runs(q) THEN off
                  ELSE off \cup Crossed(S, Pending \cup {<<call[e].a, call[e].b>> : e \in others})
                           \cup Moved(q.op = "rename", off, q)
                           \cup (IF Same(q.op, q.a, q.b) THEN {q.a} ELSE {})
                           \cup (IF (q.op = "rename" /\ staging.on) \/ ~ heard THEN S ELSE {})
        /\ cut' = IF Runs(q) THEN cut \cup Moved(q.op = "rename", cut, q) ELSE cut
        /\ staging' = IF staging.on /\ Runs(q)
                      THEN [staging EXCEPT !.missed = @ \cup {s \in S : s[1] \notin staging.left}]
                      ELSE staging
        /\ UNCHANGED <<journal, rvars, chg, prog, dirty, cached, bounds, excuse>>

\* A call whose operation fails ends without a change.
Apply(c) ==
    LET q == call[c]
    IN  /\ q.op # "none" /\ q.at = "sent"
        /\ Serve(q, Ran \ {c}, TRUE)
        /\ call' = [call EXCEPT ![c] = IF ~ Runs(q) THEN NoCall
                                      ELSE [@ EXCEPT !.at = IF q.op = "create" THEN "made" ELSE "ran"]]
        /\ UNCHANGED late

\* A request that was given up: the replica never hears of it.
ApplyLate(q) ==
    /\ q \in late /\ late' = late \ {q}
    /\ Serve(q, Ran, FALSE)
    /\ UNCHANGED call

\* The answer does not come, for RPC_TIMEOUT or as the lane is lost: Jukebox, and the
\* client repeats the call.  The applier has run, will run, or never hears of it (lost).
GiveUp(c, lost) ==
    LET q == call[c]
    IN  /\ q.op # "none" /\ q.at \in {"sent", "made", "ran"}
        /\ lost => q.at = "sent"
        /\ call' = [call EXCEPT ![c] = NoCall]
        /\ late' = IF q.at = "sent" /\ ~ lost THEN late \cup {[op |-> q.op, a |-> q.a, b |-> q.b]} ELSE late
        /\ off' = IF q.at = "sent" THEN off ELSE off \cup Touched(q.op, q.a, q.b)
        /\ UNCHANGED <<gvars, journal, rvars, chg, prog, dirty, staging, cached, bounds, cut, excuse>>

\* A name just made is looked up: entry_node.  Another process may have moved
\* it away by now, and the call fails, or put another file in its place.
EntryNode(c) ==
    LET q == call[c]
    IN  /\ q.op # "none" /\ q.at = "made"
        /\ call' = [call EXCEPT ![c] = IF guest[q.a] = None THEN NoCall
                                      ELSE [@ EXCEPT !.at = "ran", !.n = guest[q.a]]]
        /\ UNCHANGED <<gvars, journal, rvars, chg, prog, late, dirty, staging, cached, bounds, hist>>

\* bump_dir of each directory, after apply_rec.
Bumps(a, b) == <<Do("getattr", a, a, None)>> \o
               IF a[1] = b[1] THEN <<>> ELSE <<Do("getattr", b, b, None)>>

\* ShareSurface::create, remove, rename after the answer.
SurfaceSteps(q) ==
    CASE q.op = "create" -> ApplyCreated(q.a, q.n) \o
                            <<Do("note_mac_dirty", q.a, q.a, q.n)>> \o Bumps(q.a, q.a)
      [] q.op = "remove" -> ApplyRemoved(q.a) \o Bumps(q.a, q.a)
      [] q.op = "rename" -> ApplyRenamed(q.a, q.b) \o Bumps(q.a, q.b)

Answered(c) ==
    LET q == call[c]
    IN  /\ q.op # "none" /\ q.at = "ran"
        /\ prog' = [prog EXCEPT ![c] = SurfaceSteps(q)]
        /\ call' = [Mixing(c, DirsOf(q.a, q.b)) EXCEPT ![c].at = "apply"]
        /\ UNCHANGED <<gvars, journal, rvars, chg, late, dirty, staging, cached, bounds, hist>>

NoteMacDirty(t) ==
    /\ Is(t, "note_mac_dirty") /\ Go(t, <<>>)
    /\ dirty' = dirty \cup {First(t).n}
    /\ UNCHANGED <<gvars, journal, rvars, chg, mac, staging, cached, bounds, hist>>

\* bump_dir: the attributes are read ...
GetAttr(t) ==
    LET p == First(t)
    IN  /\ Is(t, "getattr")
        /\ Go(t, <<Do("set_mtime", p.a, p.a, chg[p.a[1]])>>)
        /\ UNCHANGED <<rvars, chg, Elsewhere, hist>>

\* ... and written with the time, or one more than was read when the clock is
\* behind (lags); then the directory is fenced.
SetMtime(t, lags) ==
    LET p == First(t)
        d == p.a[1]
        m == IF lags THEN Later(p.n) ELSE <<Clock(d), 0>>
    IN  /\ Is(t, "set_mtime") /\ Go(t, <<>>)
        /\ chg' = [chg EXCEPT ![d] = m]
        /\ dirty' = dirty \cup {d}
        /\ excuse' = IF lags /\ p.n # chg[d] THEN [excuse EXCEPT ![d] = @ \cup {"clock"}] ELSE excuse
        /\ UNCHANGED <<gvars, journal, rvars, mac, staging, cached, bounds, off, cut>>

\* What on_journal looks up in the mac_dirty table next.
LooksAt ==
    LET p == First("journal")
    IN  CASE Is("journal", "nudge")      -> {p.n}
          [] Is("journal", "nudge_both") -> DirsOf(p.a, p.b)
          [] prog["journal"] = <<>> /\ journal # <<>> /\ Head(journal).op = "removed" -> {Lookup(Head(journal).a)}
          [] OTHER -> {}

\* The MAC_DIRTY_WINDOW of x has passed; nobody can tell before it is looked at.
Expire(x) ==
    /\ x \in dirty \cap LooksAt
    /\ dirty' = dirty \ {x}
    /\ UNCHANGED <<gvars, journal, rvars, chg, prog, mac, staging, cached, bounds, hist>>

\* What the Mac makes of its own change to a listing.
Patch(q, d, view) ==
    [m \in Name |->
        CASE q.op = "create" /\ <<d, m>> = q.a -> q.n
          [] q.op # "create" /\ <<d, m>> = q.a -> None
          [] q.op = "rename" /\ <<d, m>> = q.b /\ q.a # q.b -> q.n
          [] OTHER -> view[m]]

Done(c) == call[c].op # "none" /\ call[c].at = "apply" /\ prog[c] = <<>>

\* The answer of NFSv4.1, with change_info: atomic, so a listing that came
\* with the attribute before is patched and kept under the one after.
Reply(c) ==
    LET q == call[c]
        D == DirsOf(q.a, q.b)
    IN  /\ Done(c)
        /\ call' = [call EXCEPT ![c] = NoCall]
        /\ cached' = [d \in Dir |->
              IF d \notin D THEN cached[d]
              ELSE IF cached[d].chg = q.before[d] THEN [chg |-> chg[d], view |-> Patch(q, d, cached[d].view)]
              ELSE NoListing]
        /\ excuse' = IF q.mixed THEN [d \in Dir |-> IF d \in D THEN excuse[d] \cup {"atomic"} ELSE excuse[d]]
                     ELSE excuse
        /\ UNCHANGED <<gvars, journal, rvars, chg, prog, late, dirty, staging, bounds, off, cut>>

\* The answer of NFSv3: wcc_data has no attributes of before.
Reply3(c) ==
    LET D == DirsOf(call[c].a, call[c].b)
    IN  /\ Done(c)
        /\ call' = [call EXCEPT ![c] = NoCall]
        /\ cached' = [d \in Dir |-> IF d \in D THEN NoListing ELSE cached[d]]
        /\ UNCHANGED <<gvars, journal, rvars, chg, prog, late, dirty, staging, bounds, hist>>

\* GETATTR and READDIR of a directory whose attribute has changed.
Relist(d) ==
    /\ cached[d].chg # chg[d]
    /\ cached' = [cached EXCEPT ![d] = [chg |-> chg[d], view |-> [m \in Name |-> Lookup(<<d, m>>)]]]
    /\ UNCHANGED <<gvars, journal, rvars, chg, prog, mac, dirty, staging, bounds, hist>>

-----------------------------------------------------------------------------
(***************************************************************************)
(* A reseed: the walk, and finish_seed.                                    *)
(***************************************************************************)
StartWalk ==
    /\ seeds < MaxSeed /\ seeds' = seeds + 1
    /\ ~ staging.on /\ prog["journal"] = <<>>
    /\ staging' = [on |-> TRUE, left |-> Dir, ent |-> [s \in Slot |-> None], buf |-> <<>>, missed |-> {},
                   attr |-> <<>>, seen |-> <<>>]
    /\ UNCHANGED <<gvars, journal, rvars, chg, prog, mac, dirty, cached, mutations, hist>>

\* Renames that a scan sees and the buffer will repeat (history): the source
\* is no longer what the rename moved.
Repeated(d) ==
    {events[i].b : i \in {j \in DOMAIN events :
        events[j].by = "guest" /\ events[j].op = "rename" /\ events[j].a[1] = d}}
    \cup {journal[i].b : i \in {j \in DOMAIN journal : journal[j].op = "renamed" /\ journal[j].a[1] = d}}
    \cup {staging.buf[i].b : i \in {j \in DOMAIN staging.buf :
        staging.buf[j].op = "renamed" /\ staging.buf[j].a[1] = d}}

\* The scan of the root, of which Dir are the subdirectories, takes their
\* attributes (DirJob); seen is what they held then (history).
ScanRoot ==
    /\ staging.on /\ staging.attr = <<>>
    /\ staging' = [staging EXCEPT !.attr = mtime, !.seen = guest]
    /\ UNCHANGED <<gvars, journal, rvars, chg, prog, mac, dirty, cached, bounds, hist>>

ScanDir(d) ==
    /\ staging.on /\ d \in staging.left /\ staging.attr # <<>>
    /\ staging' = [staging EXCEPT !.left = @ \ {d},
                     !.ent = [s \in Slot |-> IF s[1] = d THEN guest[s] ELSE @[s]]]
    /\ cut' = cut \cup Repeated(d)
    /\ UNCHANGED <<gvars, journal, rvars, chg, prog, mac, dirty, cached, bounds, off, excuse>>

\* The names after the buffered records, replayed in order.
Replay(f, buf) ==
    LET v[i \in 0 .. Len(buf)] ==
          IF i = 0 THEN f
          ELSE CASE buf[i].op = "created" -> [v[i - 1] EXCEPT ![buf[i].a] = buf[i].n]
                 [] buf[i].op = "removed" -> [v[i - 1] EXCEPT ![buf[i].a] = None]
                 [] buf[i].op = "renamed" /\ v[i - 1][buf[i].a] # None ->
                      [v[i - 1] EXCEPT ![buf[i].a] = None, ![buf[i].b] = v[i - 1][buf[i].a]]
                 [] OTHER -> v[i - 1]
    IN  v[Len(buf)]

\* The slots that are wrong after the buffer when those of S were before
\* (history).
Spread(S, buf) ==
    LET v[i \in 0 .. Len(buf)] ==
          IF i = 0 THEN S
          ELSE IF buf[i].op = "renamed" /\ buf[i].a \in v[i - 1] THEN v[i - 1] \cup {buf[i].b}
          ELSE v[i - 1]
    IN  v[Len(buf)]

\* SnapDone: the staging replica becomes the live one, its directories with the
\* attributes the walk took; the replay of the buffer does not bump them, so one
\* may show what it did not hold at that time, and nanoseconds the old replica had
\* added are taken back (excuse "walk").  A program under way
\* goes on with the replica it took, which nobody reads any more; bump_dir takes
\* the replica anew.
Swap ==
    LET f == Replay(staging.ent, staging.buf)
        dead == {staging.buf[i].n : i \in {j \in DOMAIN staging.buf : staging.buf[j].op = "self_removed"}}
        inold == {c \in Call : \E i \in DOMAIN prog[c] : prog[c][i].do \notin {"note_mac_dirty", "getattr", "set_mtime"}}
        torn == UNION {Touched(call[c].op, call[c].a, call[c].b) : c \in inold}
    IN  /\ staging.on /\ staging.left = {}
        /\ staging' = NoStaging
        /\ ent' = f /\ live' = Files(f) \ dead
        /\ links' = [n \in Node |-> IF n \in live' THEN Cardinality({s \in Slot : f[s] = n}) ELSE 0]
        /\ chg' = [d \in Dir |-> <<staging.attr[d], 0>>]
        /\ prog' = [t \in Thread |-> SelectSeq(prog[t], LAMBDA p : p.do \in {"note_mac_dirty", "getattr", "set_mtime"})]
        /\ excuse' = [d \in Dir |-> IF \/ (\E s \in Slot : s[1] = d /\ f[s] # staging.seen[s])
                                      \/ (chg[d][1] = staging.attr[d] /\ chg[d][2] > 0)
                                    THEN excuse[d] \cup {"walk"} ELSE excuse[d]]
        /\ off' = Spread(off \cup staging.missed \cup torn, staging.buf)
        /\ cut' = Spread(cut, staging.buf)
        /\ call' = Mixing("journal", Dir)
        /\ UNCHANGED <<gvars, journal, late, dirty, cached, bounds>>

-----------------------------------------------------------------------------
GuestOps == {"create", "remove", "rename", "link"}

Step(t) ==
    \/ UpsertNode(t) \/ DentrySet(t) \/ DentryRemove(t) \/ DentryTake(t) \/ DentryRelink(t)
    \/ LinkInc(t) \/ LinkDec(t) \/ ForceRemove(t) \/ RemoveNode(t)
    \/ BumpDirAttr(t) \/ Nudge(t) \/ Echo(t)
    \/ NoteMacDirty(t) \/ GetAttr(t) \/ \E lags \in BOOLEAN : SetMtime(t, lags)

Next ==
    \/ \E op \in GuestOps, a, b \in Slot : (op \in {"create", "remove"} => a = b) /\ Mutate(op, a, b)
    \/ ReadEvent \/ TakeRecord
    \/ \E t \in Thread : Step(t)
    \/ \E c \in Call : \/ \E a \in Slot : Open(c, a) \/ RemoveOp(c, a) \/ \E b \in Slot : RenameOp(c, a, b)
                       \/ Apply(c) \/ EntryNode(c) \/ Answered(c) \/ Reply(c) \/ Reply3(c)
                       \/ \E lost \in BOOLEAN : GiveUp(c, lost)
    \/ \E q \in late : ApplyLate(q)
    \/ \E d \in Dir : Relist(d) \/ ScanDir(d)
    \/ \E x \in dirty : Expire(x)
    \/ StartWalk \/ ScanRoot \/ Swap

Spec == Init /\ [][Next]_vars

-----------------------------------------------------------------------------
(***************************************************************************)
(* Properties.                                                             *)
(***************************************************************************)
Quiescent ==
    /\ events = <<>> /\ journal = <<>> /\ ~ staging.on
    /\ \A t \in Thread : prog[t] = <<>>
    /\ late = {} /\ \A c \in Call : call[c] = NoCall

\* Once everything has drained, a name of the replica leads to the file it
\* names in the guest, whatever renames, links and reseeds there were, unless
\* the name is one of those the history off excuses.
NamesAgree == Quiescent => \A s \in Slot \ (off \cup cut) : Lookup(s) = guest[s]

\* The same, and of a name moved during a walk too: replaying a record that
\* the walk has already seen changes nothing.
ConsistentCut == Quiescent => \A s \in Slot \ off : Lookup(s) = guest[s]

ListingFresh(d) ==
    cached[d].chg = chg[d] =>
        \A m \in Name : <<d, m>> \in off \cup cut \/ cached[d].view[m] = Lookup(<<d, m>>)

\* A listing the Mac keeps, as its change attribute is current, shows what
\* the replica has (on_journal: bump_dir_attr after apply_rec; bump_dir and
\* change_info of the Mac's own calls).
ListingsFresh == Quiescent => \A d \in Dir : excuse[d] = {} => ListingFresh(d)

\* The same where the only excuse is a fence of the directory: a guest's
\* rename shows although the Mac changed the directory just before.
\* The code does not keep it: README, Known exceptions.
RenamesShow == Quiescent => \A d \in Dir : excuse[d] \subseteq {"dir fence"} => ListingFresh(d)

=============================================================================
