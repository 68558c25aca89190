---------------------------- MODULE Delegations ----------------------------
(***************************************************************************)
(* Read delegations of the NFSv4.1 server (crates/mist-nfs/src/nfs41) and  *)
(* the recall pipeline that ends them: the journal announces a change of   *)
(* a node (on_journal, session.rs) on a broadcast, a task of the mount     *)
(* turns each announcement into recall_node, and a task per recall writes  *)
(* CB_RECALL to the connection the session is bound to and revokes after   *)
(* two seconds.                                                            *)
(*                                                                         *)
(* The content of a node is the number of changes made to it.  The client  *)
(* is the one loopback client: it keeps what the compound of the OPEN said *)
(* as long as it believes in the delegation, gives a delegation it knows   *)
(* back when told, and answers a recall of one it does not know with an    *)
(* error.  Its own writes, whose echoes are not announced, are left out.   *)
(* The two seconds may be over at any time.  A reply that is lost with its *)
(* connection stays lost: the reply cache is not in this module.           *)
(***************************************************************************)
EXTENDS Integers, Sequences, FiniteSets, SequencesExt

CONSTANTS
    Node,           \* files
    Conn,           \* connections, each made once
    DELEG_CAP,      \* most delegations
    INVAL_CAP,      \* announcements the broadcast holds
    MaxChange,      \* bound: guest changes
    MaxSession,     \* bound: sessions made
    MaxOther        \* bound: stateids of delegations handed out

None == "none"

ASSUME DelegationsAssumption ==
    /\ IsFiniteSet(Node) /\ IsFiniteSet(Conn) /\ None \notin Node \cup Conn
    /\ {DELEG_CAP, INVAL_CAP} \subseteq Nat \ {0}
    /\ {MaxChange, MaxSession, MaxOther} \subseteq Nat

VARIABLES
    ver,        \* the replica's content of each node
    rec,        \* the node whose record is announced and not yet applied
    inval,      \* announcements on their way to the recall task
    sessions,   \* live sessions
    minted,     \* guest changes, sessions and delegation stateids so far
    bc,         \* backchannels: the connection each session is bound to
    bound,      \* the sessions each connection has carried
    conn,       \* "new", "up", "broken" (the server has not seen it) or "closed"
    deleg,      \* the delegation of each node: [other, recalling]
    recalls,    \* recall tasks: [sid, other, node, pc]
    wire,       \* what the server has written to each connection
    opens,      \* OPEN compounds being served: [conn, sid, node, other, val, pc]
    cl,         \* the client's session and connection
    held,       \* the delegations the client believes in: [other, val]
    returning,  \* stateids on their way back
    recalled,   \* history: stateids recall_node has marked
    swept,      \* history: stateids taken away with the node's, without a recall
    missed      \* history: stateids a change has passed by without a recall

srvvars == <<sessions, bc, bound, deleg>>
clvars  == <<cl, held, returning>>
hist    == <<recalled, swept, missed>>
vars == <<ver, rec, inval, srvvars, minted, conn, recalls, wire, opens, clvars, hist>>

NoDeleg == [other |-> 0, recalling |-> FALSE]
NoHeld  == [other |-> 0, val |-> 0]
Others(n) == {deleg[n].other} \ {0}
NoSession == 0

Init ==
    /\ ver = [n \in Node |-> 0] /\ rec = None /\ inval = <<>>
    /\ sessions = {} /\ minted = [change |-> 0, session |-> 0, other |-> 0]
    /\ bc = <<>> /\ bound = [c \in Conn |-> {}] /\ conn = [c \in Conn |-> "new"]
    /\ deleg = [n \in Node |-> NoDeleg]
    /\ recalls = {} /\ wire = [c \in Conn |-> <<>>] /\ opens = {}
    /\ cl = [sid |-> NoSession, conn |-> None] /\ held = [n \in Node |-> NoHeld]
    /\ returning = {}
    /\ recalled = {} /\ swept = {} /\ missed = {}

-----------------------------------------------------------------------------
(***************************************************************************)
(* The journal.                                                            *)
(***************************************************************************)
\* One more guest change.
Changes == minted.change < MaxChange /\ minted' = [minted EXCEPT !.change = @ + 1]

\* on_journal announces the node before it applies the record.  A broadcast
\* that is full drops its oldest announcement, and the receiver goes on.
Announce(n) ==
    LET full == Len(inval) >= INVAL_CAP
    IN  /\ rec = None /\ Changes
        /\ rec' = n
        /\ inval' = Append(IF full THEN Tail(inval) ELSE inval, n)
        /\ missed' = IF full THEN missed \cup Others(Head(inval)) ELSE missed
        /\ UNCHANGED <<ver, srvvars, conn, recalls, wire, opens, clvars, recalled, swept>>

\* apply_rec.  A delegation granted since the announcement was taken is not
\* recalled for this change.
Apply ==
    /\ rec # None
    /\ ver' = [ver EXCEPT ![rec] = @ + 1]
    /\ missed' = IF deleg[rec].recalling \/ Contains(inval, rec) THEN missed
                 ELSE missed \cup Others(rec)
    /\ rec' = None
    /\ UNCHANGED <<inval, srvvars, minted, conn, recalls, wire, opens, clvars, recalled, swept>>

\* finish_seed: the replica is replaced, and nothing is announced.
Reseed(n) ==
    /\ rec = None /\ Changes
    /\ ver' = [ver EXCEPT ![n] = @ + 1]
    /\ missed' = missed \cup Others(n)
    /\ UNCHANGED <<rec, inval, srvvars, conn, recalls, wire, opens, clvars, recalled, swept>>

-----------------------------------------------------------------------------
(***************************************************************************)
(* Connections and sessions.                                               *)
(***************************************************************************)
\* The client connects, the first time or again.
Connect(c) ==
    /\ conn[c] = "new" /\ cl.conn = None
    /\ conn' = [conn EXCEPT ![c] = "up"] /\ cl' = [cl EXCEPT !.conn = c]
    /\ UNCHANGED <<ver, rec, inval, srvvars, minted, recalls, wire, opens, held, returning, hist>>

\* The connection breaks; what was on it is lost, and the client's OPENs on it.
Break(c) ==
    /\ conn[c] = "up"
    /\ conn' = [conn EXCEPT ![c] = "broken"] /\ wire' = [wire EXCEPT ![c] = <<>>]
    /\ cl' = [cl EXCEPT !.conn = None]
    /\ UNCHANGED <<ver, rec, inval, srvvars, minted, recalls, opens, held, returning, hist>>

Unbind(sids) == [s \in DOMAIN bc \ sids |-> bc[s]]

\* serve_conn at end of file: the sessions it has carried lose their
\* backchannel, whichever connection that is by now.
Eof(c) ==
    /\ conn[c] = "broken"
    /\ conn' = [conn EXCEPT ![c] = "closed"]
    /\ bc' = Unbind(bound[c])
    /\ UNCHANGED <<ver, rec, inval, sessions, bound, deleg, minted, recalls, wire, opens, clvars, hist>>

\* EXCHANGE_ID with a new verifier, on a connection not used yet: the client has
\* restarted; its sessions and delegations go, the backchannels of its sessions
\* stay.
ExchangeId ==
    /\ cl.conn # None /\ cl.sid # NoSession
    /\ wire[cl.conn] = <<>> /\ \A o \in opens : o.conn # cl.conn
    /\ sessions' = {} /\ deleg' = [n \in Node |-> NoDeleg]
    /\ cl' = [cl EXCEPT !.sid = NoSession]
    /\ held' = [n \in Node |-> NoHeld] /\ returning' = {}
    /\ UNCHANGED <<ver, rec, inval, bc, bound, minted, conn, recalls, wire, opens, hist>>

\* CREATE_SESSION.
CreateSession ==
    /\ cl.conn # None /\ cl.sid = NoSession /\ minted.session < MaxSession
    /\ minted' = [minted EXCEPT !.session = @ + 1]
    /\ sessions' = sessions \cup {minted'.session}
    /\ cl' = [cl EXCEPT !.sid = minted'.session]
    /\ UNCHANGED <<ver, rec, inval, bc, bound, deleg, conn, recalls, wire, opens, held, returning, hist>>

\* DESTROY_SESSION, when the client has nothing under way; the delegations stay.
DestroySession ==
    /\ cl.conn # None /\ cl.sid # NoSession /\ returning = {}
    /\ \A o \in opens : o.conn # cl.conn
    /\ sessions' = sessions \ {cl.sid} /\ bc' = Unbind({cl.sid})
    /\ cl' = [cl EXCEPT !.sid = NoSession]
    /\ UNCHANGED <<ver, rec, inval, bound, deleg, minted, conn, recalls, wire, opens, held, returning, hist>>

\* Mutant: the connection does not remember the session it carries.
BindUnrecorded(c, s) ==
    /\ bc' = [k \in DOMAIN bc \cup {s} |-> IF k = s THEN c ELSE bc[k]]
    /\ UNCHANGED bound

\* op_sequence of a compound on connection c: the first time the connection
\* carries the session it becomes the session's backchannel.
Bind(c, s) ==
    IF s \in bound[c]
    THEN UNCHANGED <<bc, bound>>
    ELSE /\ bound' = [bound EXCEPT ![c] = @ \cup {s}]
         /\ bc' = [k \in DOMAIN bc \cup {s} |-> IF k = s THEN c ELSE bc[k]]

-----------------------------------------------------------------------------
(***************************************************************************)
(* OPEN: SEQUENCE, OPEN, GETATTR in one compound, served by a task of its  *)
(* own that goes on when the connection is gone.                           *)
(***************************************************************************)
\* The client sends the compound; it does not open what it has delegated.
SendOpen(n) ==
    /\ cl.conn # None /\ cl.sid # NoSession /\ held[n] = NoHeld
    /\ \A o \in opens : ~ (o.conn = cl.conn /\ o.node = n)
    /\ \A m \in Range(wire[cl.conn]) : ~ (m.type = "open" /\ m.node = n)
    /\ minted.other < MaxOther
    /\ opens' = opens \cup {[conn |-> cl.conn, sid |-> cl.sid, node |-> n, other |-> 0,
                             val |-> 0, pc |-> "call"]}
    /\ UNCHANGED <<ver, rec, inval, srvvars, minted, conn, recalls, wire, clvars, hist>>

\* maybe_grant_delegation: under the cap, and none on the node yet.
Grantable(n) ==
    /\ deleg[n] = NoDeleg
    /\ Cardinality({k \in Node : deleg[k] # NoDeleg}) < DELEG_CAP

\* SEQUENCE and OPEN: BADSESSION ends the compound, otherwise a delegation is
\* granted when it can be.
OpenOp(o) ==
    /\ o.pc = "call" /\ o.sid \in sessions
    /\ Bind(o.conn, o.sid)
    /\ IF Grantable(o.node)
       THEN /\ minted.other < MaxOther
            /\ deleg' = [deleg EXCEPT ![o.node] = [other |-> minted.other + 1, recalling |-> FALSE]]
            /\ minted' = [minted EXCEPT !.other = @ + 1]
            /\ opens' = (opens \ {o}) \cup {[o EXCEPT !.other = minted'.other, !.pc = "attr"]}
       ELSE /\ opens' = opens \ {o}
            /\ UNCHANGED <<deleg, minted>>
    /\ UNCHANGED <<ver, rec, inval, sessions, conn, recalls, wire, clvars, hist>>

OpenBadSession(o) ==
    /\ o.pc = "call" /\ o.sid \notin sessions
    /\ opens' = opens \ {o}
    /\ UNCHANGED <<ver, rec, inval, srvvars, minted, conn, recalls, wire, clvars, hist>>

GetAttr(o) ==
    /\ o.pc = "attr"
    /\ opens' = (opens \ {o}) \cup {[o EXCEPT !.val = ver[o.node], !.pc = "reply"]}
    /\ UNCHANGED <<ver, rec, inval, srvvars, minted, conn, recalls, wire, clvars, hist>>

\* write_reply; after the connection has broken it goes nowhere.
WriteReply(o) ==
    LET m == [type |-> "open", node |-> o.node, other |-> o.other, val |-> o.val]
    IN  /\ o.pc = "reply"
        /\ opens' = opens \ {o}
        /\ wire' = IF conn[o.conn] = "up" THEN [wire EXCEPT ![o.conn] = Append(@, m)] ELSE wire
        /\ UNCHANGED <<ver, rec, inval, srvvars, minted, conn, recalls, clvars, hist>>

-----------------------------------------------------------------------------
(***************************************************************************)
(* The client: what it receives, and what it gives back.                   *)
(***************************************************************************)
Receive(c) ==
    LET m == Head(wire[c])
    IN  /\ wire[c] # <<>>
        /\ wire' = [wire EXCEPT ![c] = Tail(@)]
        /\ CASE m.type = "open" ->
                  /\ held' = [held EXCEPT ![m.node] = [other |-> m.other, val |-> m.val]]
                  /\ UNCHANGED returning
             [] m.type = "recall" /\ held[m.node].other = m.other ->
                  /\ held' = [held EXCEPT ![m.node] = NoHeld]
                  /\ returning' = returning \cup {m.other}
             [] OTHER -> UNCHANGED <<held, returning>>
        /\ UNCHANGED <<ver, rec, inval, srvvars, minted, conn, recalls, opens, cl, hist>>

\* The client gives a delegation back of its own accord.
GiveBack(n) ==
    /\ held[n] # NoHeld
    /\ held' = [held EXCEPT ![n] = NoHeld] /\ returning' = returning \cup {held[n].other}
    /\ UNCHANGED <<ver, rec, inval, srvvars, minted, conn, recalls, wire, opens, cl, hist>>

\* DELEGRETURN: the delegation with this stateid goes, if there is one.
DelegReturn(x) ==
    /\ x \in returning /\ cl.conn # None /\ cl.sid \in sessions
    /\ Bind(cl.conn, cl.sid)
    /\ deleg' = [n \in Node |-> IF deleg[n].other = x THEN NoDeleg ELSE deleg[n]]
    /\ returning' = returning \ {x}
    /\ UNCHANGED <<ver, rec, inval, sessions, minted, conn, recalls, wire, opens, cl, held, hist>>

-----------------------------------------------------------------------------
(***************************************************************************)
(* Recalls.                                                                *)
(***************************************************************************)
\* The recall task takes the next announcement once recall_node has returned.
Revoking == \E k \in recalls : k.pc = "revoke"
Task(s, n, pc) == [sid |-> s, other |-> deleg[n].other, node |-> n, pc |-> pc]

\* Mutant: without a backchannel recall_node returns as if there were nothing to
\* recall.
RecallNodeNeedsChannel ==
    LET n == Head(inval)
        idle == deleg[n] = NoDeleg \/ deleg[n].recalling \/ DOMAIN bc = {}
    IN  /\ inval # <<>> /\ ~ Revoking
        /\ inval' = Tail(inval)
        /\ \/ idle /\ UNCHANGED <<deleg, recalls, recalled>>
           \/ /\ ~ idle
              /\ deleg' = [deleg EXCEPT ![n] = [other |-> @.other, recalling |-> TRUE]]
              /\ recalled' = recalled \cup Others(n)
              /\ \E s \in DOMAIN bc : recalls' = recalls \cup {Task(s, n, "send")}
        /\ UNCHANGED <<ver, rec, sessions, bc, bound, minted, conn, wire, opens, clvars, swept, missed>>

\* recall_node: nothing to recall, a recall under way, or a new one over any
\* backchannel there is; without one the delegation is about to be revoked.
RecallNode ==
    LET n == Head(inval)
        idle == deleg[n] = NoDeleg \/ deleg[n].recalling
    IN  /\ inval # <<>> /\ ~ Revoking
        /\ inval' = Tail(inval)
        /\ \/ idle /\ UNCHANGED <<deleg, recalls, recalled>>
           \/ /\ ~ idle
              /\ deleg' = [deleg EXCEPT ![n] = [other |-> @.other, recalling |-> TRUE]]
              /\ recalled' = recalled \cup Others(n)
              /\ \/ \E s \in DOMAIN bc : recalls' = recalls \cup {Task(s, n, "send")}
                 \/ DOMAIN bc = {} /\ recalls' = recalls \cup {Task(NoSession, n, "revoke")}
        /\ UNCHANGED <<ver, rec, sessions, bc, bound, minted, conn, wire, opens, clvars, swept, missed>>

\* recall_node without a backchannel: the node's delegation goes, whichever it
\* is by now.
RevokeUnbound(k) ==
    /\ k.pc = "revoke"
    /\ deleg' = [deleg EXCEPT ![k.node] = NoDeleg]
    /\ swept' = swept \cup (Others(k.node) \ {k.other})
    /\ recalls' = recalls \ {k}
    /\ UNCHANGED <<ver, rec, inval, sessions, bc, bound, minted, conn, wire, opens, clvars, recalled, missed>>

Sent(k) == recalls' = (recalls \ {k}) \cup {[k EXCEPT !.pc = "wait"]}

\* send_cb_recall: gives up when the session or its backchannel is gone or the
\* write fails; a write to a broken connection may fail or be lost.
SendRecall(k) ==
    LET c == bc[k.sid]
        m == [type |-> "recall", node |-> k.node, other |-> k.other, val |-> 0]
    IN  /\ k.pc = "send"
        /\ \/ /\ k.sid \notin DOMAIN bc \cap sessions
              /\ recalls' = recalls \ {k} /\ UNCHANGED wire
           \/ /\ k.sid \in DOMAIN bc \cap sessions
              /\ \/ conn[c] = "up" /\ Sent(k) /\ wire' = [wire EXCEPT ![c] = Append(@, m)]
                 \/ conn[c] = "broken" /\ Sent(k) /\ UNCHANGED wire
                 \/ conn[c] # "up" /\ recalls' = recalls \ {k} /\ UNCHANGED wire
        /\ UNCHANGED <<ver, rec, inval, srvvars, minted, conn, opens, clvars, hist>>

\* Mutant: the deadline does not ask which delegation the node has now.
RevokeAny(k) ==
    /\ k.pc = "wait"
    /\ deleg' = [deleg EXCEPT ![k.node] = NoDeleg]
    /\ recalls' = recalls \ {k}
    /\ UNCHANGED <<ver, rec, inval, sessions, bc, bound, minted, conn, wire, opens, clvars, hist>>

\* send_cb_recall at its deadline: the delegation goes if it is still the one
\* that was recalled.  The client is not told (sr_status_flags is 0).
Revoke(k) ==
    /\ k.pc = "wait"
    /\ deleg' = IF deleg[k.node].other = k.other THEN [deleg EXCEPT ![k.node] = NoDeleg] ELSE deleg
    /\ recalls' = recalls \ {k}
    /\ UNCHANGED <<ver, rec, inval, sessions, bc, bound, minted, conn, wire, opens, clvars, hist>>

-----------------------------------------------------------------------------
Serve == \E o \in opens : OpenOp(o) \/ OpenBadSession(o) \/ GetAttr(o) \/ WriteReply(o)
Recall == \E k \in recalls : RevokeUnbound(k) \/ SendRecall(k) \/ Revoke(k)

Next ==
    \/ \E n \in Node : Announce(n) \/ Reseed(n) \/ SendOpen(n) \/ GiveBack(n)
    \/ Apply
    \/ \E c \in Conn : Connect(c) \/ Break(c) \/ Eof(c) \/ Receive(c)
    \/ ExchangeId \/ CreateSession \/ DestroySession
    \/ Serve
    \/ \E x \in returning : DelegReturn(x)
    \/ RecallNode \/ Recall

Spec == Init /\ [][Next]_vars

-----------------------------------------------------------------------------
(***************************************************************************)
(* Properties.                                                             *)
(***************************************************************************)
\* Every variable has its type; a session is bound to a connection that has
\* carried it; there are no more delegations than the cap.
TypeOK ==
    /\ ver \in [Node -> 0 .. MaxChange] /\ rec \in Node \cup {None}
    /\ inval \in Seq(Node) /\ Len(inval) <= INVAL_CAP
    /\ sessions \subseteq 1 .. minted.session
    /\ DOMAIN bc \subseteq 1 .. minted.session /\ \A s \in DOMAIN bc : s \in bound[bc[s]]
    /\ bound \in [Conn -> SUBSET (1 .. minted.session)]
    /\ conn \in [Conn -> {"new", "up", "broken", "closed"}]
    /\ \A n \in Node : deleg[n].other \in 0 .. minted.other /\ deleg[n].recalling \in BOOLEAN
    /\ Cardinality({n \in Node : deleg[n] # NoDeleg}) <= DELEG_CAP
    /\ \A k \in recalls : k.node \in Node /\ k.pc \in {"send", "wait", "revoke"}
    /\ \A o \in opens : o.node \in Node /\ o.pc \in {"call", "attr", "reply"}
    /\ cl.sid \in 0 .. minted.session /\ cl.conn \in Conn \cup {None}
    /\ \A n \in Node : held[n].other \in 0 .. minted.other

\* The client and the server agree on who holds what: a delegation the client
\* believes in is in the table under the same stateid, unless a recall was
\* made for it (or it was swept away in the place of another).  A late
\* DELEGRETURN or the deadline of an old recall does not take a new
\* delegation of the same node (delegreturn, send_cb_recall).
HeldIsKnown ==
    \A n \in Node : held[n] # NoHeld =>
        held[n].other \in Others(n) \cup recalled \cup swept

Quiescent ==
    /\ rec = None /\ inval = <<>> /\ recalls = {} /\ opens = {} /\ returning = {}
    /\ \A c \in Conn : wire[c] = <<>>

\* A delegation the server has neither recalled nor lost is fresh: once every
\* announcement, recall and reply has been dealt with, what its holder keeps is
\* what the replica has, unless a change passed the delegation by (the journal
\* driven recall of design 05).
Coherent ==
    Quiescent => \A n \in Node :
        held[n] # NoHeld /\ held[n].other \in Others(n) /\ ~ deleg[n].recalling
        /\ held[n].other \notin missed => held[n].val = ver[n]

\* The backchannel of a session rides the connection that carries it
\* (op_sequence): while the client's connection is up and has carried the
\* client's session, the server can send it a recall.
\* The code does not keep it: README, Known exceptions.
BackchannelRides ==
    /\ cl.conn # None
    /\ cl.sid \in sessions \cap bound[cl.conn]
    => cl.sid \in DOMAIN bc

=============================================================================
