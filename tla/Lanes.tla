------------------------------- MODULE Lanes -------------------------------
(***************************************************************************)
(* The life of a session between the host daemon and the guest: supervise  *)
(* and run_session dial the control lane, exchange Hello and HelloAck,     *)
(* dial the other lanes, ask for a snapshot, and run until a lane dies or  *)
(* pings stay unanswered; the guest classifies the connections it accepts, *)
(* attaches them to a session of its table and walks its tree.  Lanes are  *)
(* lost one by one or fall silent, and both daemons restart.               *)
(*                                                                         *)
(* One share; both rpc lanes are one here, and both bulk lanes.  What a    *)
(* tree contains is a number, the changes made to it so far: Sync has the  *)
(* trees, and the assembly of a snapshot.                                  *)
(***************************************************************************)
EXTENDS Integers, Sequences, FiniteSets, FiniteSetsExt

CONSTANTS
    PING_MISSES,    \* unanswered pings that end a session
    BULK_WAIT,      \* seconds the guest waits for a bulk lane (bulk_sender)
    Cached,         \* the endpoints the host may have kept: "none", "good", "dead", "silent", "foreign"
    MaxFault,       \* bound: lanes lost, restarts, slow answers
    MaxChange       \* bound: changes in the guest

ASSUME LanesAssumption ==
    /\ {MaxFault, MaxChange} \subseteq Nat /\ {PING_MISSES, BULK_WAIT} \subseteq Nat \ {0}
    /\ PING_MISSES < BULK_WAIT     \* 3 pings a second apart, and five seconds
    /\ Cached \subseteq {"none", "good", "dead", "silent", "foreign"}

VARIABLES
    pc,         \* where supervise is: connect, hello, lanes, run, backoff
    sess,       \* the session of the host, numbered; 0 before the first
    todo,       \* lanes still to be dialled
    vm,         \* VmState
    rpc,        \* the session of the RpcClient in use; 0 for None
    peer,       \* who answered the dial: guest, silent, foreign
    cache,      \* endpoints_cache_path
    missed,     \* outstanding pings
    asm,        \* Assembler of a session: [staging, heard]
    blocking,   \* finish_seed on the blocking pool: [sess, ver]
    rep,        \* the replica: [sess, ver]
    held,       \* ends of connections at the host: <<session, lane>>
    hellos,     \* Hello and StreamHello not yet read by the guest
    starts,     \* SnapshotStart not yet read
    done,       \* SnapDone on a bulk lane: [sess, ver]
    jq,         \* batches on a journal lane: [sess, ver]
    cut,        \* connections that broke
    mute,       \* sessions whose frames vanish
    table,      \* sessions of the guest
    ends,       \* lanes attached at the guest
    waits,      \* control loops waiting in bulk_sender: [sess, age]
    walks,      \* walks: [sess, ver], ver = -1 before the scan
    gver,       \* changes in the guest so far
    n,          \* inputs so far
    lost,       \* history: the SnapshotStart of the running session was dropped
    late,       \* history: the walk of the running session began before its journal lane was attached
    overtaken   \* history: a replica of an older session replaced one of a newer

hostState  == <<pc, sess, todo, vm, rpc, peer, cache, missed, asm, blocking, rep>>
wire       == <<held, hellos, starts, done, jq, cut, mute>>
guestState == <<table, ends, waits, walks, gver>>
hist       == <<lost, late, overtaken>>
vars       == <<hostState, wire, guestState, n, hist>>

Lane    == {"ctl", "journal", "rpc", "bulk"}
Session == 1 .. MaxFault + 1
Of(s)   == {s} \X Lane
NoAsm   == [staging |-> FALSE, heard |-> 0]
Works(s, l) == <<s, l>> \in held /\ <<s, l>> \notin cut /\ s \notin mute

Init ==
    /\ pc = "connect" /\ sess = 0 /\ todo = <<>> /\ vm = "Connecting" /\ rpc = 0
    /\ peer = "guest" /\ cache \in Cached /\ missed = 0
    /\ asm = [s \in Session |-> NoAsm] /\ blocking = {} /\ rep = [sess |-> 0, ver |-> 0]
    /\ held = {} /\ hellos = {} /\ starts = {} /\ done = {} /\ jq = {} /\ cut = {} /\ mute = {}
    /\ table = {} /\ ends = {} /\ waits = {} /\ walks = {} /\ gver = 0
    /\ n = [fault |-> 0, change |-> 0] /\ lost = FALSE /\ late = FALSE /\ overtaken = FALSE

Fault == n.fault < MaxFault /\ n' = [n EXCEPT !.fault = @ + 1]

-----------------------------------------------------------------------------
(***************************************************************************)
(* The host: supervise and run_session.                                    *)
(***************************************************************************)
\* The control lane: a cached endpoint that accepts is taken for the guest, whoever
\* it is; one that does not gives way to the configured one.
Connect ==
    /\ pc = "connect"
    /\ \/ /\ sess < MaxFault + 1
          /\ pc' = "hello" /\ sess' = sess + 1
          /\ peer' = IF cache \in {"silent", "foreign"} THEN cache ELSE "guest"
          /\ held' = held \cup {<<sess + 1, "ctl">>}
          /\ hellos' = IF peer' = "guest" THEN hellos \cup {<<sess + 1, "ctl">>} ELSE hellos
          /\ late' = FALSE /\ UNCHANGED <<vm, n>>
       \/ /\ Fault /\ pc' = "backoff" /\ vm' = "Degraded"       \* nobody answers the dial
          /\ UNCHANGED <<sess, peer, held, hellos, late>>
    /\ UNCHANGED <<todo, rpc, cache, missed, asm, blocking, rep, starts, done, jq, cut, mute, guestState, lost, overtaken>>

\* The streams of a session that is still being set up are dropped with run_session.
GiveUp ==
    /\ pc' = "backoff" /\ vm' = "Degraded" /\ todo' = <<>>
    /\ held' = held \ Of(sess) /\ cut' = cut \ Of(sess)
    /\ UNCHANGED <<sess, rpc, peer, cache, missed, asm, blocking, rep, hellos, starts, done, jq, mute,
                   guestState, n, hist>>

\* HelloAck, VmIdentity and Endpoints; the announced endpoints are written to the cache.
HelloAck ==
    /\ pc = "hello" /\ peer = "guest" /\ sess \in table /\ Works(sess, "ctl")
    /\ pc' = "lanes" /\ todo' = <<"journal", "rpc", "bulk">> /\ cache' = "good"
    /\ UNCHANGED <<sess, vm, rpc, peer, missed, asm, blocking, rep, wire, guestState, n, hist>>

\* AuthFail, or the end of the connection.
HelloFails ==
    /\ pc = "hello" /\ (peer = "foreign" \/ <<sess, "ctl">> \in cut)
    /\ GiveUp

DialLane ==
    /\ pc = "lanes" /\ todo # <<>> /\ sess \notin mute
    /\ held' = held \cup {<<sess, Head(todo)>>} /\ hellos' = hellos \cup {<<sess, Head(todo)>>}
    /\ todo' = Tail(todo)
    /\ UNCHANGED <<pc, sess, vm, rpc, peer, cache, missed, asm, blocking, rep, starts, done, jq, cut, mute,
                   guestState, n, hist>>

\* The dial of a lane times out.
DialFails == pc = "lanes" /\ todo # <<>> /\ sess \in mute /\ GiveUp

\* All lanes are there: the RpcClient is installed, the Assembler begins, and the
\* guest is asked for a snapshot.
Begin ==
    /\ pc = "lanes" /\ todo = <<>>
    /\ pc' = "run" /\ vm' = "Ready" /\ rpc' = sess /\ missed' = 0
    /\ asm' = [asm EXCEPT ![sess].staging = TRUE]
    /\ starts' = starts \cup {sess}
    /\ UNCHANGED <<sess, todo, peer, cache, blocking, rep, held, hellos, done, jq, cut, mute, guestState, n, hist>>

\* The end of a session: its tasks are aborted.  The readers of the rpc and control
\* lanes run in tasks of their own and keep their connections, unless these ended.
Ended(byPing) ==
    LET kept == {c \in {<<sess, "rpc">>, <<sess, "ctl">>} : c \notin cut /\ ~(byPing /\ c[2] = "ctl")}
    IN  /\ pc' = "backoff" /\ vm' = "Degraded" /\ rpc' = 0
        /\ held' = (held \ Of(sess)) \cup kept /\ cut' = cut \ Of(sess)
        /\ done' = {d \in done : d.sess # sess} /\ jq' = {b \in jq : b.sess # sess}
        /\ asm' = [asm EXCEPT ![sess] = NoAsm]

\* A wire task ends: a reader finds its connection closed, or the rpc client tells
\* that its lane died.
EndSessionSansRpc ==
    /\ pc = "run" /\ \E l \in Lane \ {"rpc"} : <<sess, l>> \in cut
    /\ Ended(FALSE)
    /\ UNCHANGED <<sess, todo, peer, cache, missed, blocking, rep, hellos, starts, mute, guestState, n, hist>>
EndSession ==
    /\ pc = "run" /\ Of(sess) \cap cut # {}
    /\ Ended(FALSE)
    /\ UNCHANGED <<sess, todo, peer, cache, missed, blocking, rep, hellos, starts, mute, guestState, n, hist>>

Waiting(s) == \E w \in waits : w.sess = s

\* Pings that follow a guest falling silent, or being slow to attach a lane.  A ping that
\* is answered within the second is not represented; one that is not counts as a fault.
Expected == sess \in mute \/ \E w \in waits : w.sess = sess /\ w.age > 0

\* A second passes: a ping, or the end of the session when too many are unanswered.
Tick ==
    /\ pc = "run"
    /\ \/ Expected /\ UNCHANGED n
       \/ ~Expected /\ Fault
    /\ waits' = {IF w.sess = sess /\ w.age < BULK_WAIT THEN [w EXCEPT !.age = @ + 1] ELSE w : w \in waits}
    /\ IF missed >= PING_MISSES
       THEN Ended(TRUE) /\ missed' = 0
       ELSE missed' = missed + 1 /\ UNCHANGED <<pc, vm, rpc, held, cut, done, jq, asm>>
    /\ UNCHANGED <<sess, todo, peer, cache, blocking, rep, hellos, starts, mute, table, ends, walks, gver, hist>>

Backoff ==
    /\ pc = "backoff" /\ pc' = "connect" /\ vm' = "Connecting"
    /\ UNCHANGED <<sess, todo, rpc, peer, cache, missed, asm, blocking, rep, wire, guestState, n, hist>>

\* Journal batches are kept while a snapshot is staged, and applied after it.
TakeJournalLive(b) ==
    /\ b \in jq /\ b.sess = sess /\ pc = "run" /\ jq' = jq \ {b}
    /\ IF asm[sess].staging THEN UNCHANGED rep ELSE rep' = [rep EXCEPT !.ver = b.ver]
    /\ UNCHANGED <<pc, sess, todo, vm, rpc, peer, cache, missed, asm, blocking, held, hellos, starts, done, cut,
                   mute, guestState, n, hist>>
TakeJournal(b) ==
    /\ b \in jq /\ b.sess = sess /\ pc = "run" /\ jq' = jq \ {b}
    /\ \A c \in jq : c.sess = sess => b.ver <= c.ver
    /\ asm' = [asm EXCEPT ![sess].heard = b.ver]
    /\ IF asm[sess].staging THEN UNCHANGED rep ELSE rep' = [rep EXCEPT !.ver = b.ver]
    /\ UNCHANGED <<pc, sess, todo, vm, rpc, peer, cache, missed, blocking, held, hellos, starts, done, cut, mute,
                   guestState, n, hist>>

\* The end of a snapshot is handed to the blocking pool, which no abort stops.
TakeDone(d) ==
    /\ d \in done /\ d.sess = sess /\ pc = "run"
    /\ done' = done \ {d} /\ blocking' = blocking \cup {d}
    /\ UNCHANGED <<pc, sess, todo, vm, rpc, peer, cache, missed, asm, rep, held, hellos, starts, jq, cut, mute,
                   guestState, n, hist>>

Swap(b) ==
    /\ b \in blocking /\ blocking' = blocking \ {b}
    /\ rep' = [sess |-> b.sess, ver |-> Max({b.ver, asm[b.sess].heard})]
    /\ asm' = [asm EXCEPT ![b.sess].staging = FALSE]
    /\ overtaken' = (overtaken \/ b.sess < rep.sess)
    /\ UNCHANGED <<pc, sess, todo, vm, rpc, peer, cache, missed, wire, guestState, n, lost, late>>

-----------------------------------------------------------------------------
(***************************************************************************)
(* The guest: spawn_conn, ctl_session, attach_lane.                        *)
(***************************************************************************)
\* A new connection is a session's control lane, or another lane of a session in
\* the table; the connection of an unknown session is dropped.
Accept(h) ==
    /\ h \in hellos /\ hellos' = hellos \ {h}
    /\ IF h[2] = "ctl" \/ h[1] \in table
       THEN /\ ends' = ends \cup {h} /\ UNCHANGED cut
            /\ table' = IF h[2] = "ctl" THEN table \cup {h[1]} ELSE table
       ELSE cut' = cut \cup {h} /\ UNCHANGED <<ends, table>>
    /\ UNCHANGED <<hostState, held, starts, done, jq, mute, waits, walks, gver, n, hist>>

\* The control loop answers a ping unless it waits for a bulk lane.
PongWaiting ==
    /\ pc = "run" /\ missed > 0 /\ Works(sess, "ctl") /\ <<sess, "ctl">> \in ends
    /\ missed' = missed - 1
    /\ UNCHANGED <<pc, sess, todo, vm, rpc, peer, cache, asm, blocking, rep, wire, guestState, n, hist>>
Pong ==
    /\ pc = "run" /\ missed > 0 /\ Works(sess, "ctl") /\ <<sess, "ctl">> \in ends /\ ~Waiting(sess)
    /\ missed' = missed - 1
    /\ UNCHANGED <<pc, sess, todo, vm, rpc, peer, cache, asm, blocking, rep, wire, guestState, n, hist>>

ReadStart(s) ==
    /\ s \in starts /\ <<s, "ctl">> \in ends /\ Works(s, "ctl")
    /\ starts' = starts \ {s} /\ waits' = waits \cup {[sess |-> s, age |-> 0]}
    /\ UNCHANGED <<hostState, held, hellos, done, jq, cut, mute, table, ends, walks, gver, n, hist>>

\* bulk_sender: the walk begins when a bulk lane is there; after a while the request
\* is dropped.
StartWalk(w) ==
    /\ w \in waits /\ <<w.sess, "bulk">> \in ends /\ waits' = waits \ {w}
    /\ walks' = walks \cup {[sess |-> w.sess, ver |-> -1]}
    /\ late' = (late \/ (w.sess = sess /\ <<w.sess, "journal">> \notin ends))
    /\ UNCHANGED <<hostState, wire, table, ends, gver, n, lost, overtaken>>

DropStart(w) ==
    /\ w \in waits /\ <<w.sess, "bulk">> \notin ends
    /\ w.age >= BULK_WAIT \/ w.sess # sess \/ pc # "run"
    /\ waits' = waits \ {w} /\ lost' = (lost \/ (w.sess = sess /\ pc = "run"))
    /\ UNCHANGED <<hostState, wire, table, ends, walks, gver, n, late, overtaken>>

Scan(w) ==
    /\ w \in walks /\ w.ver = -1
    /\ walks' = (walks \ {w}) \cup {[w EXCEPT !.ver = gver]}
    /\ UNCHANGED <<hostState, wire, table, ends, waits, gver, n, hist>>

\* The end of a walk; a bulk lane that the host has closed is found out here.
SendDone(w) ==
    /\ w \in walks /\ w.ver # -1 /\ walks' = walks \ {w}
    /\ IF Works(w.sess, "bulk") THEN done' = done \cup {w} /\ UNCHANGED ends
       ELSE ends' = ends \ {<<w.sess, "bulk">>} /\ UNCHANGED done
    /\ UNCHANGED <<hostState, held, hellos, starts, jq, cut, mute, table, waits, gver, n, hist>>

\* A change reaches every journal lane that is attached.
Change ==
    LET subs == {s \in Session : <<s, "journal">> \in ends}
        live == {s \in subs : Works(s, "journal")}
    IN  /\ n.change < MaxChange /\ n' = [n EXCEPT !.change = @ + 1]
        /\ gver' = gver + 1
        /\ jq' = jq \cup {[sess |-> s, ver |-> gver + 1] : s \in live}
        /\ ends' = ends \ {<<s, "journal">> : s \in subs \ live}
        /\ UNCHANGED <<hostState, held, hellos, starts, done, cut, mute, table, waits, walks, hist>>

\* The rpc and control loops find their connection closed; with its control lane
\* the session leaves the table.
Notice(s, l) ==
    /\ <<s, l>> \in ends /\ l \in {"ctl", "rpc"} /\ s \notin mute
    /\ <<s, l>> \notin held \/ <<s, l>> \in cut
    /\ l = "ctl" => ~Waiting(s)
    /\ ends' = ends \ {<<s, l>>}
    /\ table' = IF l = "ctl" THEN table \ {s} ELSE table
    /\ UNCHANGED <<hostState, wire, waits, walks, gver, n, hist>>

-----------------------------------------------------------------------------
(***************************************************************************)
(* Faults.                                                                 *)
(***************************************************************************)
LaneDies(l) ==
    /\ Fault /\ Works(sess, l) /\ cut' = cut \cup {<<sess, l>>}
    /\ hellos' = hellos \ {<<sess, l>>}
    /\ UNCHANGED <<hostState, held, starts, done, jq, mute, guestState, hist>>

\* Frames vanish without a sign.
FallSilent ==
    /\ Fault /\ sess \notin mute /\ peer = "guest" /\ held \cap Of(sess) # {} /\ mute' = mute \cup {sess}
    /\ hellos' = hellos \ Of(sess)
    /\ done' = {d \in done : d.sess # sess} /\ jq' = {b \in jq : b.sess # sess}
    /\ UNCHANGED <<hostState, held, starts, cut, guestState, hist>>

GuestRestart ==
    /\ Fault /\ table' = {} /\ ends' = {} /\ waits' = {} /\ walks' = {}
    /\ cut' = cut \cup {c \in held : c[1] \notin mute} /\ hellos' = {} /\ starts' = {} /\ done' = {} /\ jq' = {}
    /\ UNCHANGED <<hostState, held, mute, gver, hist>>

HostRestart ==
    /\ Fault /\ pc' = "connect" /\ todo' = <<>> /\ vm' = "Connecting" /\ rpc' = 0 /\ missed' = 0
    /\ asm' = [s \in Session |-> NoAsm] /\ blocking' = {} /\ rep' = [sess |-> 0, ver |-> 0]
    /\ held' = {} /\ cut' = {} /\ done' = {} /\ jq' = {}
    /\ UNCHANGED <<sess, peer, cache, hellos, starts, mute, guestState, hist>>

HostStep ==
    \/ Connect \/ HelloAck \/ HelloFails \/ DialLane \/ DialFails \/ Begin \/ EndSession \/ Backoff
    \/ \E b \in jq : TakeJournal(b)
    \/ \E d \in done : TakeDone(d)

GuestStep ==
    \/ Pong
    \/ \E h \in hellos : Accept(h)
    \/ \E s \in starts : ReadStart(s)
    \/ \E w \in waits : StartWalk(w) \/ DropStart(w)
    \/ \E w \in walks : Scan(w) \/ SendDone(w)
    \/ \E s \in Session, l \in Lane : Notice(s, l)

Next ==
    \/ HostStep \/ GuestStep \/ Tick \/ Change
    \/ \E b \in blocking : Swap(b)
    \/ \E l \in Lane : LaneDies(l)
    \/ FallSilent \/ GuestRestart \/ HostRestart

Spec == Init /\ [][Next]_vars

\* The runtimes of both daemons run what is ready, and the ticker ticks.
FairSpec ==
    /\ Spec
    /\ WF_vars(Connect) /\ WF_vars(HelloAck \/ HelloFails) /\ WF_vars(DialLane \/ DialFails)
    /\ WF_vars(Begin) /\ WF_vars(EndSession) /\ WF_vars(Backoff) /\ WF_vars(Tick)
    /\ WF_vars(\E b \in jq : TakeJournal(b)) /\ WF_vars(\E d \in done : TakeDone(d))
    /\ WF_vars(\E b \in blocking : Swap(b))
    /\ WF_vars(\E h \in hellos : Accept(h)) /\ WF_vars(\E s \in starts : ReadStart(s))
    /\ WF_vars(\E w \in waits : StartWalk(w) \/ DropStart(w))
    /\ WF_vars(\E w \in walks : Scan(w) \/ SendDone(w))
    /\ WF_vars(\E s \in Session, l \in Lane : Notice(s, l))

-----------------------------------------------------------------------------
(***************************************************************************)
(* Properties.                                                             *)
(***************************************************************************)
\* The state is well formed: the rpc client is that of the running session, a replica
\* is that of a session there has been, and a walk belongs to a session that had a
\* bulk lane.
TypeOK ==
    /\ pc \in {"connect", "hello", "lanes", "run", "backoff"} /\ sess \in 0 .. MaxFault + 1
    /\ rpc = (IF pc = "run" THEN sess ELSE 0) /\ (vm = "Ready") <=> (pc = "run")
    /\ missed \in 0 .. PING_MISSES /\ rep.sess \in 0 .. sess /\ rep.ver \in 0 .. gver
    /\ held \subseteq Session \X Lane /\ ends \subseteq Session \X Lane /\ cut \subseteq Session \X Lane
    /\ table = {s \in Session : <<s, "ctl">> \in ends}
    /\ \A w \in walks : w.ver \in -1 .. gver
    /\ \A w \in waits : w.age \in 0 .. BULK_WAIT

\* The host never waits for a snapshot that the guest will not send: a request is
\* dropped for want of a bulk lane only after the host has given the session up, as
\* the control loop answers no ping while it waits.
StartHeard == ~lost

\* Once a snapshot is in and nothing is on its way, the host has what the guest has;
\* unless the walk began before the journal lane was attached, or the end of an older
\* session's snapshot was still to come on the blocking pool.
SeededIsCurrent ==
    \/ pc # "run" \/ asm[sess].staging \/ blocking # {} \/ late \/ overtaken
    \/ sess \in mute \/ Of(sess) \cap cut # {} \/ \E b \in jq : b.sess = sess
    \/ rep = [sess |-> sess, ver |-> gver]

\* The host waits for a HelloAck that will not come.
Wedged == pc = "hello" /\ (peer = "silent" \/ sess \in mute)

\* A session that works: connected, seeded, and its lanes alive.
Served == pc = "run" /\ ~asm[sess].staging /\ Of(sess) \cap cut = {} /\ sess \notin mute

\* Whatever lane is lost or falls silent and whoever restarts, the host ends up with
\* a session that works; unless the guest falls silent before its HelloAck, for which
\* there is no timeout.
Recovers == <>[](Served \/ Wedged)
=============================================================================
