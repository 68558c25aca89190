------------------------- MODULE DelegationsProofs -------------------------
(***************************************************************************)
(* What holds of the delegations with any number of files, connections,    *)
(* sessions and changes: the client and the server agree on who holds      *)
(* what, and what a holder keeps is fresh.                                 *)
(*                                                                         *)
(* A grant travels: from the compound that serves the OPEN to the wire, to *)
(* the client, and back.  Its stateid is in one place at a time (Once), so *)
(* that a DELEGRETURN takes nothing a client is yet to receive; wherever   *)
(* it is, the table has it or a recall was made for it (Known), and the    *)
(* attributes that travel with it are those of the replica, or somebody    *)
(* will hear that they are not (Fresh).                                    *)
(***************************************************************************)
EXTENDS Delegations, FiniteSetTheorems, SequenceTheorems, TLAPS

Mints    == [change : 0 .. MaxChange, session : Nat, other : Nat]
Delegs   == [other : Nat, recalling : BOOLEAN]
Helds    == [other : Nat, val : Nat]
Msgs     == [type : {"open", "recall"}, node : Node, other : Nat \ {0}, val : Nat]
Compounds == [conn : Conn, sid : Nat, node : Node, other : Nat, val : Nat, pc : {"call", "attr", "reply"}]
Tasks    == [sid : Nat, other : Nat \ {0}, node : Node, pc : {"send", "wait", "revoke"}]
Links    == {"new", "up", "broken", "closed"}

\* The replica is no further than the changes, one of which may be announced only.
Journal ==
    /\ ver \in [Node -> Nat] /\ rec \in Node \cup {None}
    /\ inval \in Seq(Node) /\ Len(inval) <= INVAL_CAP /\ minted \in Mints
    /\ \A n \in Node : ver[n] <= minted.change /\ (rec = n => ver[n] < minted.change)

Server ==
    /\ sessions \subseteq 1 .. minted.session
    /\ bc \in [DOMAIN bc -> Conn] /\ DOMAIN bc \subseteq 1 .. minted.session
    /\ \A s \in DOMAIN bc : s \in bound[bc[s]]
    /\ bound \in [Conn -> SUBSET (1 .. minted.session)]

\* The one connection that is up is the client's, and only on it is anything on its way.
Linked ==
    /\ conn \in [Conn -> Links] /\ cl \in [sid : Nat, conn : Conn \cup {None}]
    /\ cl.sid <= minted.session
    /\ \A c \in Conn : conn[c] = "up" <=> cl.conn = c
    /\ \A c \in Conn : wire[c] # <<>> => conn[c] = "up"
    /\ \A o \in opens : conn[o.conn] # "new"

Table ==
    /\ deleg \in [Node -> Delegs]
    /\ \A n \in Node : deleg[n].other <= minted.other /\ (deleg[n].other = 0 => deleg[n] = NoDeleg)
    /\ Cardinality({n \in Node : deleg[n] # NoDeleg}) <= DELEG_CAP

\* What travels, and the tasks.
Granted(o)  == o.pc \in {"attr", "reply"}
Places ==
    /\ opens \subseteq Compounds /\ wire \in [Conn -> Seq(Msgs)]
    /\ held \in [Node -> Helds] /\ returning \subseteq 1 .. minted.other
    /\ \A o \in opens : o.sid <= minted.session /\ (Granted(o) => o.other \in 1 .. minted.other)
    /\ \A c \in Conn : \A i \in DOMAIN wire[c] : wire[c][i].type = "open" => wire[c][i].other \in 1 .. minted.other
    /\ \A n \in Node : held[n].other <= minted.other /\ (held[n].other = 0 => held[n] = NoHeld)

Told == recalls \subseteq Tasks /\ \A k \in recalls : k.other \in recalled

\* A stateid is in one place.
AtOpen(x) == \E o \in opens : Granted(o) /\ o.other = x
AtWire(x) == \E c \in Conn : \E i \in DOMAIN wire[c] : wire[c][i].type = "open" /\ wire[c][i].other = x
AtHeld(x) == \E n \in Node : held[n].other = x
Apart ==
    \A x \in 1 .. minted.other :
        /\ AtOpen(x) => ~ AtWire(x) /\ ~ AtHeld(x) /\ x \notin returning
        /\ AtWire(x) => ~ AtHeld(x) /\ x \notin returning
        /\ AtHeld(x) => x \notin returning
OneOpen == \A o, p \in opens : Granted(o) /\ Granted(p) /\ o.other = p.other => o = p
OneWire ==
    \A c, d \in Conn : \A i \in DOMAIN wire[c], j \in DOMAIN wire[d] :
        wire[c][i].type = "open" /\ wire[d][j].type = "open" /\ wire[c][i].other = wire[d][j].other
            => c = d /\ i = j
OneHeld == \A n, m \in Node : held[n].other = held[m].other /\ held[n].other # 0 => n = m
Once == Apart /\ OneOpen /\ OneWire /\ OneHeld

\* Where a grant of node n under stateid x travels that its client hears of, and where
\* the value v travels that came with it.
OpenHas(n, x) == \E o \in opens : Granted(o) /\ conn[o.conn] = "up" /\ o.node = n /\ o.other = x
WireHas(n, x) ==
    \E c \in Conn : \E i \in DOMAIN wire[c] : wire[c][i].type = "open" /\ wire[c][i].node = n /\ wire[c][i].other = x
HeldHas(n, x) == held[n] # NoHeld /\ held[n].other = x
OpenSays(n, x, v) == \E o \in opens : o.pc = "reply" /\ o.node = n /\ o.other = x /\ o.val = v
WireSays(n, x, v) ==
    \E c \in Conn : \E i \in DOMAIN wire[c] :
        wire[c][i].type = "open" /\ wire[c][i].node = n /\ wire[c][i].other = x /\ wire[c][i].val = v
HeldSays(n, x, v) == held[n] # NoHeld /\ held[n].other = x /\ held[n].val = v

\* The table has it, or a recall was made for it, or it was swept away.
Has(n, x) == x \in Others(n) \cup recalled \cup swept
Known ==
    \A n \in Node, x \in 1 .. minted.other : OpenHas(n, x) \/ WireHas(n, x) \/ HeldHas(n, x) => Has(n, x)

\* The value v that came with stateid x is the replica's, unless the delegation is not
\* x any more, is being recalled, is about to be, or was passed by.
Valid(n, x, v) ==
    \/ v = ver[n] \/ deleg[n].other # x \/ deleg[n].recalling \/ x \in missed
    \/ \E i \in DOMAIN inval : inval[i] = n
Fresh ==
    \A n \in Node, x \in 1 .. minted.other, v \in Nat :
        OpenSays(n, x, v) \/ WireSays(n, x, v) \/ HeldSays(n, x, v) => Valid(n, x, v)

IInv == Journal /\ Server /\ Linked /\ Table /\ Places /\ Told /\ Once /\ Known /\ Fresh

-----------------------------------------------------------------------------
(***************************************************************************)
(* Messages, compounds, counters.                                          *)
(***************************************************************************)
\* A message is added at the end of a wire.
LEMMA Appended ==
    ASSUME wire \in [Conn -> Seq(Msgs)], NEW c \in Conn, NEW m \in Msgs, wire' = [wire EXCEPT ![c] = Append(@, m)]
    PROVE  /\ wire' \in [Conn -> Seq(Msgs)] /\ \A d \in Conn : d # c => wire'[d] = wire[d]
           /\ \A d \in Conn : \A i \in DOMAIN wire'[d] :
                 \/ i \in DOMAIN wire[d] /\ wire'[d][i] = wire[d][i]
                 \/ d = c /\ i = Len(wire[c]) + 1 /\ i \notin DOMAIN wire[c] /\ wire'[d][i] = m
<1>1. PICK s \in Seq(Msgs) : s = wire[c]
  OBVIOUS
<1>2. PICK r \in Seq(Msgs) : r = Append(s, m) /\ DOMAIN r = 1 .. Len(s) + 1 /\ r[Len(s) + 1] = m
                            /\ \A i \in 1 .. Len(s) : r[i] = s[i]
  <2>1. Append(s, m) \in Seq(Msgs) /\ DOMAIN Append(s, m) = 1 .. Len(s) + 1
        /\ Append(s, m)[Len(s) + 1] = m /\ \A i \in 1 .. Len(s) : Append(s, m)[i] = s[i]
    OBVIOUS
  <2> QED
    BY <2>1
<1>3. DOMAIN s = 1 .. Len(s) /\ Len(s) \in Nat
  OBVIOUS
<1>4. wire' = [wire EXCEPT ![c] = r]
  BY <1>1, <1>2
<1>5. wire' \in [Conn -> Seq(Msgs)] /\ wire'[c] = r /\ \A d \in Conn : d # c => wire'[d] = wire[d]
  BY <1>4
<1>6. ASSUME NEW i \in DOMAIN r PROVE (i \in DOMAIN s /\ r[i] = s[i]) \/ (i = Len(s) + 1 /\ i \notin DOMAIN s /\ r[i] = m)
  BY <1>2, <1>3
<1> QED
  BY <1>1, <1>5, <1>6

\* The first message of a wire is taken.
LEMMA Tailed ==
    ASSUME wire \in [Conn -> Seq(Msgs)], NEW c \in Conn, wire[c] # <<>>, wire' = [wire EXCEPT ![c] = Tail(@)]
    PROVE  /\ wire' \in [Conn -> Seq(Msgs)] /\ \A d \in Conn : d # c => wire'[d] = wire[d]
           /\ 1 \in DOMAIN wire[c] /\ Head(wire[c]) = wire[c][1] /\ Head(wire[c]) \in Msgs
           /\ \A i \in DOMAIN wire'[c] :
                 i \in Nat /\ i # 0 /\ i + 1 \in DOMAIN wire[c] /\ wire'[c][i] = wire[c][i + 1]
<1>1. PICK s \in Seq(Msgs) : s = wire[c]
  OBVIOUS
<1>2. s # <<>>
  BY <1>1
<1>3. Head(s) = s[1] /\ 1 \in DOMAIN s /\ Head(s) \in Msgs /\ DOMAIN s = 1 .. Len(s) /\ Len(s) \in Nat
  BY <1>2
<1>4. PICK r \in Seq(Msgs) : r = Tail(s) /\ DOMAIN r = 1 .. Len(s) - 1 /\ \A i \in 1 .. Len(s) - 1 : r[i] = s[i + 1]
  <2>1. Tail(s) \in Seq(Msgs) /\ DOMAIN Tail(s) = 1 .. Len(s) - 1 /\ \A i \in 1 .. Len(s) - 1 : Tail(s)[i] = s[i + 1]
    BY <1>2
  <2> QED
    BY <2>1
<1>5. wire' = [wire EXCEPT ![c] = r]
  BY <1>1, <1>4
<1>6. wire' \in [Conn -> Seq(Msgs)] /\ wire'[c] = r /\ \A d \in Conn : d # c => wire'[d] = wire[d]
  BY <1>5
<1>7. ASSUME NEW i \in DOMAIN r PROVE i \in Nat /\ i # 0 /\ i + 1 \in DOMAIN s /\ r[i] = s[i + 1]
  BY <1>3, <1>4
<1> QED
  BY <1>1, <1>3, <1>6, <1>7

\* A compound as it goes on: with a delegation, and with the attributes it will answer with.
AttrOf(o, x)  == [o EXCEPT !.other = x, !.pc = "attr"]
ReplyOf(o, v) == [o EXCEPT !.val = v, !.pc = "reply"]

\* Its fields.
LEMMA OpenFields ==
    ASSUME NEW o \in Compounds, NEW x \in Nat
    PROVE  /\ AttrOf(o, x) \in Compounds /\ AttrOf(o, x).conn = o.conn /\ AttrOf(o, x).sid = o.sid
           /\ AttrOf(o, x).node = o.node /\ AttrOf(o, x).other = x /\ AttrOf(o, x).pc = "attr"
           /\ ReplyOf(o, x) \in Compounds /\ ReplyOf(o, x).conn = o.conn /\ ReplyOf(o, x).sid = o.sid
           /\ ReplyOf(o, x).node = o.node /\ ReplyOf(o, x).other = o.other /\ ReplyOf(o, x).val = x
           /\ ReplyOf(o, x).pc = "reply"
<1>1. AttrOf(o, x) \in Compounds
  BY DEF Compounds, AttrOf
<1>2. /\ AttrOf(o, x).conn = o.conn /\ AttrOf(o, x).sid = o.sid /\ AttrOf(o, x).node = o.node
      /\ AttrOf(o, x).other = x /\ AttrOf(o, x).pc = "attr"
  BY DEF Compounds, AttrOf
<1>3. ReplyOf(o, x) \in Compounds
  BY DEF Compounds, ReplyOf
<1>4. /\ ReplyOf(o, x).conn = o.conn /\ ReplyOf(o, x).sid = o.sid /\ ReplyOf(o, x).node = o.node
      /\ ReplyOf(o, x).other = o.other /\ ReplyOf(o, x).val = x /\ ReplyOf(o, x).pc = "reply"
  BY DEF Compounds, ReplyOf
<1> QED
  BY <1>1, <1>2, <1>3, <1>4

\* The counters: one more change, session or stateid.
LEMMA Minted ==
    ASSUME minted \in Mints
    PROVE  /\ minted.change \in 0 .. MaxChange /\ minted.session \in Nat /\ minted.other \in Nat
           /\ minted.change < MaxChange => [minted EXCEPT !.change = @ + 1] \in Mints
           /\ [minted EXCEPT !.session = @ + 1] \in Mints /\ [minted EXCEPT !.other = @ + 1] \in Mints
           /\ [minted EXCEPT !.change = @ + 1].change = minted.change + 1
           /\ [minted EXCEPT !.change = @ + 1].session = minted.session
           /\ [minted EXCEPT !.change = @ + 1].other = minted.other
           /\ [minted EXCEPT !.session = @ + 1].change = minted.change
           /\ [minted EXCEPT !.session = @ + 1].session = minted.session + 1
           /\ [minted EXCEPT !.session = @ + 1].other = minted.other
           /\ [minted EXCEPT !.other = @ + 1].change = minted.change
           /\ [minted EXCEPT !.other = @ + 1].session = minted.session
           /\ [minted EXCEPT !.other = @ + 1].other = minted.other + 1
BY DelegationsAssumption DEF Mints

\* An OPEN is served: it is over, or goes on with a new delegation.
LEMMA OpenOpEffect ==
    ASSUME IInv, NEW o \in opens, OpenOp(o)
    PROVE  /\ o.pc = "call" /\ o.conn \in Conn /\ o.sid \in sessions /\ o.node \in Node /\ Bind(o.conn, o.sid)
           /\ \/ opens' = opens \ {o} /\ deleg' = deleg /\ minted' = minted
              \/ \E p \in Compounds :
                    /\ opens' = (opens \ {o}) \cup {p} /\ p.conn = o.conn /\ p.sid = o.sid /\ p.node = o.node
                    /\ p.other = minted.other + 1 /\ p.pc = "attr" /\ Grantable(o.node)
                    /\ deleg' = [deleg EXCEPT ![o.node] = [other |-> minted.other + 1, recalling |-> FALSE]]
                    /\ minted' \in Mints /\ minted'.other = minted.other + 1
                    /\ minted'.change = minted.change /\ minted'.session = minted.session
<1>0. minted \in Mints /\ o \in Compounds
  BY DEF IInv, Journal, Places
<1>1. minted.other + 1 \in Nat
  BY <1>0, Minted
<1>2. PICK x \in Nat : x = minted.other + 1
  BY <1>1
<1>3. PICK p \in Compounds : /\ p = AttrOf(o, x) /\ p.conn = o.conn /\ p.sid = o.sid
                             /\ p.node = o.node /\ p.other = x /\ p.pc = "attr"
  BY <1>0, OpenFields
<1>4. o.conn \in Conn /\ o.node \in Node
  BY <1>0 DEF Compounds
<1>5. CASE Grantable(o.node)
  <2>1. /\ minted' = [minted EXCEPT !.other = @ + 1]
        /\ opens' = (opens \ {o}) \cup {[o EXCEPT !.other = minted'.other, !.pc = "attr"]}
        /\ deleg' = [deleg EXCEPT ![o.node] = [other |-> minted.other + 1, recalling |-> FALSE]]
    BY <1>5 DEF OpenOp
  <2>2. /\ minted' \in Mints /\ minted'.other = x
        /\ minted'.change = minted.change /\ minted'.session = minted.session
    BY <1>0, <1>2, <2>1, Minted
  <2>3. opens' = (opens \ {o}) \cup {p}
    BY <1>3, <2>1, <2>2 DEF AttrOf
  <2> QED
    BY <1>2, <1>3, <1>4, <1>5, <2>1, <2>2, <2>3 DEF OpenOp
<1>6. CASE ~Grantable(o.node)
  BY <1>4, <1>6 DEF OpenOp
<1> QED
  BY <1>5, <1>6

\* The GETATTR of an OPEN: the compound goes on with the value of the replica.
LEMMA GetAttrEffect ==
    ASSUME IInv, NEW o \in opens, GetAttr(o)
    PROVE  /\ o.pc = "attr" /\ o.node \in Node
           /\ \E p \in Compounds :
                 /\ opens' = (opens \ {o}) \cup {p} /\ p.conn = o.conn /\ p.sid = o.sid /\ p.node = o.node
                 /\ p.other = o.other /\ p.val = ver[o.node] /\ p.pc = "reply"
<1>0. o \in Compounds /\ ver \in [Node -> Nat]
  BY DEF IInv, Journal, Places
<1>1. o.node \in Node /\ ver[o.node] \in Nat
  BY <1>0 DEF Compounds
<1>2. PICK x \in Nat : x = ver[o.node]
  BY <1>1
<1>3. PICK p \in Compounds : /\ p = ReplyOf(o, x) /\ p.conn = o.conn /\ p.sid = o.sid
                             /\ p.node = o.node /\ p.other = o.other /\ p.val = x /\ p.pc = "reply"
  BY <1>0, OpenFields
<1>4. o.pc = "attr" /\ opens' = (opens \ {o}) \cup {p}
  BY <1>2, <1>3 DEF GetAttr, ReplyOf
<1> QED
  BY <1>1, <1>2, <1>3, <1>4

\* The reply is written, or lost.
LEMMA WriteReplyEffect ==
    ASSUME IInv, NEW o \in opens, WriteReply(o)
    PROVE  /\ o.pc = "reply" /\ opens' = opens \ {o} /\ o.conn \in Conn /\ o.node \in Node
           /\ \/ wire' = wire
              \/ \E m \in Msgs : /\ conn[o.conn] = "up" /\ wire' = [wire EXCEPT ![o.conn] = Append(@, m)]
                                /\ m.type = "open" /\ m.node = o.node /\ m.other = o.other /\ m.val = o.val
<1>0. o \in Compounds
  BY DEF IInv, Places
<1>1. o.conn \in Conn /\ o.node \in Node /\ o.other \in Nat \ {0} /\ o.val \in Nat
  <2>1. o.other \in 1 .. minted.other
    BY DEF IInv, Places, Granted, WriteReply
  <2> QED
    BY <1>0, <2>1 DEF Compounds
<1>2. PICK m \in Msgs : /\ m = [type |-> "open", node |-> o.node, other |-> o.other, val |-> o.val]
                        /\ m.type = "open" /\ m.node = o.node /\ m.other = o.other /\ m.val = o.val
  <2>1. [type |-> "open", node |-> o.node, other |-> o.other, val |-> o.val] \in Msgs
    BY <1>1 DEF Msgs
  <2> QED
    BY <2>1
<1>3. /\ o.pc = "reply" /\ opens' = opens \ {o}
      /\ wire' = IF conn[o.conn] = "up" THEN [wire EXCEPT ![o.conn] = Append(@, m)] ELSE wire
  BY <1>2 DEF WriteReply
<1> QED
  BY <1>1, <1>2, <1>3

\* The recall that send_cb_recall writes is no grant.
LEMMA SendRecallEffect ==
    ASSUME IInv, NEW k \in recalls, SendRecall(k)
    PROVE  /\ k.pc = "send" /\ (recalls' = recalls \ {k} \/ Sent(k))
           /\ \/ wire' = wire
              \/ \E c \in Conn, m \in Msgs : /\ conn[c] = "up" /\ wire' = [wire EXCEPT ![c] = Append(@, m)]
                                          /\ m.type = "recall"
<1>0. k \in Tasks /\ bc \in [DOMAIN bc -> Conn]
  BY DEF IInv, Told, Server
<1>1. k.node \in Node /\ k.other \in Nat \ {0}
  BY <1>0 DEF Tasks
<1>2. PICK m \in Msgs : m = [type |-> "recall", node |-> k.node, other |-> k.other, val |-> 0] /\ m.type = "recall"
  <2>1. [type |-> "recall", node |-> k.node, other |-> k.other, val |-> 0] \in Msgs
    BY <1>1 DEF Msgs
  <2> QED
    BY <2>1
<1>3. CASE wire' = wire
  BY <1>3 DEF SendRecall
<1>4. CASE wire' # wire
  <2>1. /\ k.sid \in DOMAIN bc /\ conn[bc[k.sid]] = "up" /\ Sent(k)
        /\ wire' = [wire EXCEPT ![bc[k.sid]] = Append(@, m)]
    BY <1>2, <1>4 DEF SendRecall
  <2>2. bc[k.sid] \in Conn
    BY <1>0, <2>1
  <2> QED
    BY <1>2, <2>1, <2>2 DEF SendRecall
<1> QED
  BY <1>3, <1>4

-----------------------------------------------------------------------------
(***************************************************************************)
(* The journal, the sessions and the connections.                          *)
(***************************************************************************)
\* The replica does not get ahead of the changes, and the broadcast stays within its size.
LEMMA JournalStep ==
    ASSUME IInv, [Next]_vars
    PROVE  Journal'
<1>0. /\ ver \in [Node -> Nat] /\ rec \in Node \cup {None} /\ inval \in Seq(Node) /\ Len(inval) <= INVAL_CAP
      /\ minted \in Mints /\ \A n \in Node : ver[n] <= minted.change /\ (rec = n => ver[n] < minted.change)
  BY DEF IInv, Journal
<1>1. minted.change \in Nat
  BY <1>0, Minted
<1>t. ASSUME inval # <<>>
      PROVE  Tail(inval) \in Seq(Node) /\ Len(Tail(inval)) = Len(inval) - 1 /\ Len(inval) \in Nat
  BY <1>0, <1>t
<1>a. ASSUME NEW s \in Seq(Node), NEW n \in Node
      PROVE  Append(s, n) \in Seq(Node) /\ Len(Append(s, n)) = Len(s) + 1 /\ Len(s) \in Nat
  OBVIOUS
<1>2. ASSUME NEW n \in Node, Announce(n) PROVE Journal'
  <2>1. /\ rec' = n /\ ver' = ver /\ minted' = [minted EXCEPT !.change = @ + 1] /\ minted.change < MaxChange
        /\ inval' = Append(IF Len(inval) >= INVAL_CAP THEN Tail(inval) ELSE inval, n)
    BY <1>2 DEF Announce, Changes
  <2>2. minted' \in Mints /\ minted'.change = minted.change + 1
    BY <1>0, <2>1, Minted
  <2>3. inval' \in Seq(Node) /\ Len(inval') <= INVAL_CAP
    <3>1. CASE Len(inval) >= INVAL_CAP
      <4>1. inval # <<>>
        BY <3>1, DelegationsAssumption
      <4> QED
        BY <1>0, <1>t, <1>a, <2>1, <3>1, <4>1, DelegationsAssumption
    <3>2. CASE ~(Len(inval) >= INVAL_CAP)
      BY <1>0, <1>a, <2>1, <3>2, DelegationsAssumption
    <3> QED
      BY <3>1, <3>2
  <2> QED
    BY <1>0, <1>1, <2>1, <2>2, <2>3 DEF Journal
<1>3. CASE Apply
  <2>1. rec # None /\ ver' = [ver EXCEPT ![rec] = @ + 1] /\ rec' = None /\ inval' = inval /\ minted' = minted
    BY <1>3 DEF Apply
  <2>2. PICK r \in Node : r = rec
    BY <1>0, <2>1
  <2>3. ver' \in [Node -> Nat] /\ ver'[r] = ver[r] + 1 /\ \A n \in Node : n # r => ver'[n] = ver[n]
    BY <1>0, <2>1, <2>2
  <2>4. \A n \in Node : ver'[n] <= minted.change
    BY <1>0, <1>1, <2>2, <2>3, SMTT(60)
  <2> QED
    BY <1>0, <2>1, <2>3, <2>4, DelegationsAssumption DEF Journal
<1>4. ASSUME NEW n \in Node, Reseed(n) PROVE Journal'
  <2>1. /\ rec = None /\ rec' = rec /\ ver' = [ver EXCEPT ![n] = @ + 1] /\ inval' = inval
        /\ minted' = [minted EXCEPT !.change = @ + 1] /\ minted.change < MaxChange
    BY <1>4 DEF Reseed, Changes
  <2>2. minted' \in Mints /\ minted'.change = minted.change + 1
    BY <1>0, <2>1, Minted
  <2>3. ver' \in [Node -> Nat] /\ \A m \in Node : ver'[m] <= minted.change + 1
    BY <1>0, <1>1, <2>1
  <2> QED
    BY <1>0, <2>1, <2>2, <2>3, DelegationsAssumption DEF Journal
<1>5. CASE RecallNode
  <2>1. inval # <<>> /\ inval' = Tail(inval) /\ UNCHANGED <<ver, rec, minted>>
    BY <1>5 DEF RecallNode
  <2>2. inval' \in Seq(Node) /\ Len(inval') <= INVAL_CAP
    BY <1>0, <1>t, <2>1, DelegationsAssumption
  <2> QED
    BY <1>0, <2>1, <2>2 DEF Journal
<1>6. CASE CreateSession
  <2>1. minted' = [minted EXCEPT !.session = @ + 1] /\ UNCHANGED <<ver, rec, inval>>
    BY <1>6 DEF CreateSession
  <2>2. minted' \in Mints /\ minted'.change = minted.change
    BY <1>0, <2>1, Minted
  <2> QED
    BY <1>0, <2>1, <2>2 DEF Journal
<1>7. ASSUME NEW o \in opens, OpenOp(o) PROVE Journal'
  <2>1. minted' \in Mints /\ minted'.change = minted.change
    BY <1>0, <1>7, OpenOpEffect
  <2>2. UNCHANGED <<ver, rec, inval>>
    BY <1>7 DEF OpenOp
  <2> QED
    BY <1>0, <2>1, <2>2 DEF Journal
<1>8. ASSUME UNCHANGED <<ver, rec, inval, minted>> PROVE Journal'
  BY <1>0, <1>8 DEF Journal
<1>9. CASE \/ \E n \in Node : SendOpen(n) \/ GiveBack(n)
           \/ \E c \in Conn : Connect(c) \/ Break(c) \/ Eof(c) \/ Receive(c)
           \/ ExchangeId \/ DestroySession \/ UNCHANGED vars
           \/ \E o \in opens : OpenBadSession(o) \/ GetAttr(o) \/ WriteReply(o)
           \/ \E x \in returning : DelegReturn(x)
           \/ \E k \in recalls : RevokeUnbound(k) \/ SendRecall(k) \/ Revoke(k)
  BY <1>8, <1>9 DEF SendOpen, GiveBack, Connect, Break, Eof, Receive, ExchangeId, DestroySession, vars,
     OpenBadSession, GetAttr, WriteReply, DelegReturn, RevokeUnbound, SendRecall, Revoke
<1> QED
  BY <1>2, <1>3, <1>4, <1>5, <1>6, <1>7, <1>9 DEF Next, Serve, Recall

\* The counters only grow.
LEMMA MintedGrows ==
    ASSUME IInv, [Next]_vars
    PROVE  /\ minted.session \in Nat /\ minted.other \in Nat /\ minted'.session \in Nat /\ minted'.other \in Nat
           /\ minted.session <= minted'.session /\ minted.other <= minted'.other
<1>0. minted \in Mints
  BY DEF IInv, Journal
<1>1. minted.session \in Nat /\ minted.other \in Nat
  BY <1>0, Minted
<1>2. ASSUME minted' = minted PROVE minted.session <= minted'.session /\ minted.other <= minted'.other
  BY <1>1, <1>2
<1>3. CASE CreateSession \/ (\E n \in Node : Announce(n) \/ Reseed(n)) \/ (\E o \in opens : OpenOp(o))
  <2>1. \/ minted' = [minted EXCEPT !.session = @ + 1] \/ minted' = [minted EXCEPT !.change = @ + 1]
        \/ minted' = [minted EXCEPT !.other = @ + 1] \/ minted' = minted
    BY <1>3 DEF CreateSession, Announce, Reseed, Changes, OpenOp
  <2>2. minted'.session \in {minted.session, minted.session + 1} /\ minted'.other \in {minted.other, minted.other + 1}
    BY <1>0, <2>1, Minted
  <2> QED
    BY <1>1, <2>2
<1>4. CASE \/ \E n \in Node : SendOpen(n) \/ GiveBack(n)
           \/ \E c \in Conn : Connect(c) \/ Break(c) \/ Eof(c) \/ Receive(c)
           \/ Apply \/ ExchangeId \/ DestroySession \/ UNCHANGED vars
           \/ \E o \in opens : OpenBadSession(o) \/ GetAttr(o) \/ WriteReply(o)
           \/ \E x \in returning : DelegReturn(x)
           \/ \E k \in recalls : RevokeUnbound(k) \/ SendRecall(k) \/ Revoke(k)
           \/ RecallNode
  <2>1. minted' = minted
    BY <1>4 DEF SendOpen, GiveBack, Apply, Connect, Break, Eof, Receive, ExchangeId, DestroySession, vars,
       OpenBadSession, GetAttr, WriteReply, DelegReturn, RevokeUnbound, SendRecall, Revoke, RecallNode
  <2> QED
    BY <1>1, <2>1
<1>5. minted'.session \in Nat /\ minted'.other \in Nat
  <2>1. minted' \in Mints
    BY JournalStep DEF Journal
  <2> QED
    BY <2>1 DEF Mints
<1> QED
  BY <1>1, <1>3, <1>4, <1>5 DEF Next, Serve, Recall

\* A session is bound to the connection of its compound.
LEMMA BindServer ==
    ASSUME Server, NEW c \in Conn, NEW s \in 1 .. minted.session, Bind(c, s),
           minted'.session = minted.session, sessions' = sessions
    PROVE  Server'
<1>1. CASE s \in bound[c]
  BY <1>1 DEF Bind, Server
<1>2. CASE s \notin bound[c]
  <2>1. /\ bound' = [bound EXCEPT ![c] = @ \cup {s}]
        /\ bc' = [k \in DOMAIN bc \cup {s} |-> IF k = s THEN c ELSE bc[k]]
    BY <1>2 DEF Bind
  <2>2. /\ bound' \in [Conn -> SUBSET (1 .. minted'.session)] /\ s \in bound'[c]
        /\ \A d \in Conn : bound[d] \subseteq bound'[d]
    BY <2>1 DEF Server
  <2>3. /\ DOMAIN bc' = DOMAIN bc \cup {s} /\ bc'[s] = c
        /\ \A k \in DOMAIN bc : k # s => bc'[k] = bc[k]
    BY <2>1
  <2>4. bc' \in [DOMAIN bc' -> Conn] /\ \A k \in DOMAIN bc' : k \in bound'[bc'[k]]
    BY <2>1, <2>2, <2>3 DEF Server
  <2> QED
    BY <2>2, <2>3, <2>4 DEF Server
<1> QED
  BY <1>1, <1>2

\* Sessions lose their backchannel.
LEMMA UnbindServer ==
    ASSUME Server, NEW S, bc' = Unbind(S), bound' = bound, sessions' \subseteq sessions,
           minted'.session = minted.session
    PROVE  Server'
<1>1. bc' = [s \in DOMAIN bc \ S |-> bc[s]]
  BY DEF Unbind
<1>2. DOMAIN bc' = DOMAIN bc \ S /\ \A s \in DOMAIN bc' : bc'[s] = bc[s]
  BY <1>1
<1>3. bc' \in [DOMAIN bc' -> Conn]
  BY <1>1, <1>2 DEF Server
<1> QED
  BY <1>2, <1>3 DEF Server

\* A backchannel is a connection that has carried its session.
LEMMA ServerStep ==
    ASSUME IInv, [Next]_vars
    PROVE  Server'
<1>0. Server /\ minted \in Mints /\ minted.session \in Nat
  BY Minted DEF IInv, Journal
<1>1. ASSUME UNCHANGED <<sessions, bc, bound>>, minted'.session = minted.session PROVE Server'
  BY <1>0, <1>1 DEF Server
<1>2. ASSUME NEW c \in Conn, Eof(c) PROVE Server'
  <2>1. bc' = Unbind(bound[c]) /\ UNCHANGED <<bound, sessions, minted>>
    BY <1>2 DEF Eof
  <2> QED
    BY <1>0, <2>1, UnbindServer
<1>3. CASE DestroySession
  <2>1. bc' = Unbind({cl.sid}) /\ UNCHANGED <<bound, minted>> /\ sessions' \subseteq sessions
    BY <1>3 DEF DestroySession
  <2> QED
    BY <1>0, <2>1, UnbindServer
<1>4. CASE ExchangeId
  BY <1>0, <1>4 DEF ExchangeId, Server
<1>5. CASE CreateSession
  <2>1. /\ minted' = [minted EXCEPT !.session = @ + 1] /\ UNCHANGED <<bc, bound>>
        /\ sessions' = sessions \cup {minted'.session}
    BY <1>5 DEF CreateSession
  <2>2. minted'.session = minted.session + 1
    BY <1>0, <2>1, Minted
  <2>3. 1 .. minted.session \subseteq 1 .. minted'.session /\ minted'.session \in 1 .. minted'.session
    BY <1>0, <2>2
  <2> QED
    BY <1>0, <2>1, <2>3 DEF Server
<1>6. ASSUME NEW o \in opens, OpenOp(o) PROVE Server'
  <2>1. o.conn \in Conn /\ o.sid \in sessions /\ Bind(o.conn, o.sid) /\ minted'.session = minted.session
    BY <1>6, OpenOpEffect
  <2>2. o.sid \in 1 .. minted.session /\ sessions' = sessions
    BY <1>0, <1>6, <2>1 DEF OpenOp, Server
  <2> QED
    BY <1>0, <2>1, <2>2, BindServer
<1>7. ASSUME NEW x \in returning, DelegReturn(x) PROVE Server'
  <2>1. cl.conn \in Conn
    BY <1>7 DEF DelegReturn, IInv, Linked
  <2>2. cl.sid \in 1 .. minted.session /\ sessions' = sessions /\ minted' = minted /\ Bind(cl.conn, cl.sid)
    BY <1>0, <1>7 DEF DelegReturn, Server
  <2> QED
    BY <1>0, <2>1, <2>2, BindServer
<1>8. CASE \E n \in Node : Announce(n) \/ Reseed(n)
  <2>1. minted' = [minted EXCEPT !.change = @ + 1] /\ UNCHANGED <<sessions, bc, bound>>
    BY <1>8 DEF Announce, Reseed, Changes, srvvars
  <2>2. minted'.session = minted.session
    BY <1>0, <2>1, Minted
  <2> QED
    BY <1>1, <2>1, <2>2
<1>9. CASE \/ \E n \in Node : SendOpen(n) \/ GiveBack(n)
           \/ \E c \in Conn : Connect(c) \/ Break(c) \/ Receive(c)
           \/ Apply \/ RecallNode \/ UNCHANGED vars
           \/ \E o \in opens : OpenBadSession(o) \/ GetAttr(o) \/ WriteReply(o)
           \/ \E k \in recalls : RevokeUnbound(k) \/ SendRecall(k) \/ Revoke(k)
  <2>1. UNCHANGED <<sessions, bc, bound, minted>>
    BY <1>9 DEF SendOpen, GiveBack, Connect, Break, Receive, Apply, RecallNode, vars, srvvars,
       OpenBadSession, GetAttr, WriteReply, RevokeUnbound, SendRecall, Revoke
  <2> QED
    BY <1>1, <2>1
<1> QED
  BY <1>2, <1>3, <1>4, <1>5, <1>6, <1>7, <1>8, <1>9 DEF Next, Serve, Recall

\* Messages are only on the connection that is up, which is the client's.
LEMMA LinkedStep ==
    ASSUME IInv, [Next]_vars
    PROVE  Linked'
<1>0. /\ conn \in [Conn -> Links] /\ cl \in [sid : Nat, conn : Conn \cup {None}]
      /\ cl.sid \in Nat /\ cl.conn \in Conn \cup {None} /\ cl.sid <= minted.session
      /\ \A c \in Conn : conn[c] = "up" <=> cl.conn = c
      /\ \A c \in Conn : wire[c] # <<>> => conn[c] = "up"
      /\ \A o \in opens : conn[o.conn] # "new"
      /\ opens \subseteq Compounds /\ wire \in [Conn -> Seq(Msgs)]
  BY DEF IInv, Linked, Places
<1>1. /\ minted.session \in Nat /\ minted'.session \in Nat /\ minted.session <= minted'.session
  BY MintedGrows
<1>2. ASSUME conn' = conn, cl' = cl, wire' = wire,
             \A o \in opens' : \E p \in opens : p.conn = o.conn
      PROVE  Linked'
  <2>1. \A o \in opens' : conn[o.conn] # "new"
    BY <1>0, <1>2
  <2> QED
    BY <1>0, <1>1, <1>2, <2>1 DEF Linked
<1>3. ASSUME conn' = conn, cl' = cl, opens' \subseteq opens,
             \A c \in Conn : wire'[c] # <<>> => conn[c] = "up"
      PROVE  Linked'
  BY <1>0, <1>1, <1>3 DEF Linked
<1>c. ASSUME NEW s \in Nat, NEW c \in Conn \cup {None}
      PROVE  /\ [cl EXCEPT !.sid = s] \in [sid : Nat, conn : Conn \cup {None}]
             /\ [cl EXCEPT !.sid = s].sid = s /\ [cl EXCEPT !.sid = s].conn = cl.conn
             /\ [cl EXCEPT !.conn = c] \in [sid : Nat, conn : Conn \cup {None}]
             /\ [cl EXCEPT !.conn = c].sid = cl.sid /\ [cl EXCEPT !.conn = c].conn = c
  BY <1>0
<1>4. ASSUME NEW s \in Nat, cl' = [cl EXCEPT !.sid = s], s <= minted'.session, UNCHANGED <<conn, wire, opens>>
      PROVE  Linked'
  <2>1. cl' \in [sid : Nat, conn : Conn \cup {None}] /\ cl'.sid = s /\ cl'.conn = cl.conn
    BY <1>4, <1>c
  <2> QED
    BY <1>0, <1>4, <2>1 DEF Linked
<1>5. ASSUME NEW c \in Conn, Connect(c) PROVE Linked'
  <2>1. /\ conn[c] = "new" /\ cl.conn = None /\ conn' = [conn EXCEPT ![c] = "up"]
        /\ cl' = [cl EXCEPT !.conn = c] /\ UNCHANGED <<wire, opens>>
    BY <1>5 DEF Connect
  <2>2. cl' \in [sid : Nat, conn : Conn \cup {None}] /\ cl'.sid = cl.sid /\ cl'.conn = c
    BY <1>c, <2>1
  <2>3. conn' \in [Conn -> Links] /\ conn'[c] = "up" /\ \A d \in Conn : d # c => conn'[d] = conn[d]
    BY <1>0, <2>1 DEF Links
  <2>4. \A o \in opens : o.conn \in Conn
    BY <1>0 DEF Compounds
  <2>5. \A o \in opens' : conn'[o.conn] # "new"
    BY <1>0, <2>1, <2>3, <2>4
  <2>6. \A d \in Conn : conn'[d] = "up" <=> cl'.conn = d
    BY <1>0, <2>1, <2>2, <2>3, DelegationsAssumption
  <2>7. \A d \in Conn : wire'[d] # <<>> => conn'[d] = "up"
    BY <1>0, <2>1, <2>3
  <2> QED
    BY <1>0, <1>1, <2>2, <2>3, <2>5, <2>6, <2>7 DEF Linked
<1>6. ASSUME NEW c \in Conn, Break(c) PROVE Linked'
  <2>1. /\ conn[c] = "up" /\ conn' = [conn EXCEPT ![c] = "broken"] /\ wire' = [wire EXCEPT ![c] = <<>>]
        /\ cl' = [cl EXCEPT !.conn = None] /\ opens' = opens
    BY <1>6 DEF Break
  <2>2. cl' \in [sid : Nat, conn : Conn \cup {None}] /\ cl'.sid = cl.sid /\ cl'.conn = None
    BY <1>c, <2>1
  <2>3. conn' \in [Conn -> Links] /\ conn'[c] = "broken" /\ \A d \in Conn : d # c => conn'[d] = conn[d]
    BY <1>0, <2>1 DEF Links
  <2>4. \A o \in opens : o.conn \in Conn
    BY <1>0 DEF Compounds
  <2>5. \A o \in opens' : conn'[o.conn] # "new"
    BY <1>0, <2>1, <2>3, <2>4
  <2>6. \A d \in Conn : conn'[d] = "up" <=> cl'.conn = d
    BY <1>0, <2>1, <2>2, <2>3, DelegationsAssumption
  <2>7. \A d \in Conn : wire'[d] # <<>> => conn'[d] = "up"
    BY <1>0, <2>1, <2>3
  <2> QED
    BY <1>0, <1>1, <2>2, <2>3, <2>5, <2>6, <2>7 DEF Linked
<1>7. ASSUME NEW c \in Conn, Eof(c) PROVE Linked'
  <2>1. conn[c] = "broken" /\ conn' = [conn EXCEPT ![c] = "closed"] /\ UNCHANGED <<cl, wire, opens>>
    BY <1>7 DEF Eof, clvars
  <2>2. conn' \in [Conn -> Links] /\ conn'[c] = "closed" /\ \A d \in Conn : d # c => conn'[d] = conn[d]
    BY <1>0, <2>1 DEF Links
  <2>3. \A o \in opens : o.conn \in Conn
    BY <1>0 DEF Compounds
  <2> QED
    BY <1>0, <1>1, <2>1, <2>2, <2>3 DEF Linked
<1>8. CASE ExchangeId \/ DestroySession
  <2>1. cl' = [cl EXCEPT !.sid = NoSession] /\ UNCHANGED <<conn, wire, opens>>
    BY <1>8 DEF ExchangeId, DestroySession
  <2> QED
    BY <1>1, <1>4, <2>1 DEF NoSession
<1>9. CASE CreateSession
  <2>1. cl' = [cl EXCEPT !.sid = minted'.session] /\ UNCHANGED <<conn, wire, opens>>
    BY <1>9 DEF CreateSession
  <2> QED
    BY <1>1, <1>4, <2>1
<1>10. ASSUME NEW n \in Node, SendOpen(n) PROVE Linked'
  <2>1. /\ cl.conn # None /\ UNCHANGED <<conn, cl, wire>>
        /\ opens' = opens \cup {[conn |-> cl.conn, sid |-> cl.sid, node |-> n, other |-> 0, val |-> 0, pc |-> "call"]}
    BY <1>10 DEF SendOpen, clvars
  <2>2. cl.conn \in Conn /\ conn[cl.conn] = "up"
    BY <1>0, <2>1
  <2>3. \A o \in opens' : conn[o.conn] # "new"
    BY <1>0, <2>1, <2>2
  <2> QED
    BY <1>0, <1>1, <2>1, <2>3 DEF Linked
<1>11. ASSUME NEW o \in opens, OpenOp(o) \/ GetAttr(o) PROVE Linked'
  <2>1. \A q \in opens' : \E p \in opens : p.conn = q.conn
    BY <1>11, OpenOpEffect, GetAttrEffect
  <2>2. UNCHANGED <<conn, cl, wire>>
    BY <1>11 DEF OpenOp, GetAttr, clvars
  <2> QED
    BY <1>2, <2>1, <2>2
<1>12. ASSUME NEW c \in Conn, conn[c] = "up", NEW m \in Msgs, wire' = [wire EXCEPT ![c] = Append(@, m)]
       PROVE  \A d \in Conn : wire'[d] # <<>> => conn[d] = "up"
  <2>1. \A d \in Conn : d # c => wire'[d] = wire[d]
    BY <1>0, <1>12, Appended
  <2> QED
    BY <1>0, <1>12, <2>1
<1>13. ASSUME NEW o \in opens, WriteReply(o) PROVE Linked'
  <2>1. opens' \subseteq opens /\ \A d \in Conn : wire'[d] # <<>> => conn[d] = "up"
    BY <1>0, <1>12, <1>13, WriteReplyEffect
  <2>2. UNCHANGED <<conn, cl>>
    BY <1>13 DEF WriteReply, clvars
  <2> QED
    BY <1>3, <2>1, <2>2
<1>14. ASSUME NEW k \in recalls, SendRecall(k) PROVE Linked'
  <2>1. \A d \in Conn : wire'[d] # <<>> => conn[d] = "up"
    BY <1>0, <1>12, <1>14, SendRecallEffect
  <2>2. UNCHANGED <<conn, cl, opens>>
    BY <1>14 DEF SendRecall, clvars
  <2> QED
    BY <1>3, <2>1, <2>2
<1>15. ASSUME NEW c \in Conn, Receive(c) PROVE Linked'
  <2>1. wire[c] # <<>> /\ wire' = [wire EXCEPT ![c] = Tail(@)] /\ UNCHANGED <<conn, cl, opens>>
    BY <1>15 DEF Receive
  <2>2. \A d \in Conn : d # c => wire'[d] = wire[d]
    BY <1>0, <2>1, Tailed
  <2> QED
    BY <1>0, <1>3, <2>1, <2>2
<1>16. CASE \/ \E n \in Node : Announce(n) \/ Reseed(n) \/ GiveBack(n)
            \/ Apply \/ RecallNode \/ UNCHANGED vars
            \/ \E o \in opens : OpenBadSession(o)
            \/ \E x \in returning : DelegReturn(x)
            \/ \E k \in recalls : RevokeUnbound(k) \/ Revoke(k)
  <2>1. UNCHANGED <<conn, cl, wire>> /\ opens' \subseteq opens
    BY <1>16 DEF Announce, Reseed, GiveBack, Apply, RecallNode, vars, clvars, OpenBadSession, DelegReturn,
       RevokeUnbound, Revoke
  <2> QED
    BY <1>2, <2>1
<1> QED
  BY <1>5, <1>6, <1>7, <1>8, <1>9, <1>10, <1>11, <1>13, <1>14, <1>15, <1>16 DEF Next, Serve, Recall

-----------------------------------------------------------------------------
(***************************************************************************)
(* The table, and what travels.                                            *)
(***************************************************************************)
\* The nodes with a delegation.
Taken == {n \in Node : deleg[n] # NoDeleg}

\* Fewer nodes have a delegation: the cap holds.
LEMMA TakenFewer ==
    ASSUME Table, \A n \in Node : deleg'[n] # NoDeleg => deleg[n] # NoDeleg
    PROVE  Cardinality({n \in Node : deleg'[n] # NoDeleg}) <= DELEG_CAP
<1> DEFINE S == {n \in Node : deleg'[n] # NoDeleg}
<1>1. S \subseteq Taken /\ Taken \subseteq Node
  BY DEF Taken
<1>2. IsFiniteSet(Taken)
  BY <1>1, DelegationsAssumption, FS_Subset
<1>3. Cardinality(S) <= Cardinality(Taken) /\ IsFiniteSet(S)
  BY <1>1, <1>2, FS_Subset
<1>4. Cardinality(S) \in Nat /\ Cardinality(Taken) \in Nat /\ Cardinality(Taken) <= DELEG_CAP
  BY <1>2, <1>3, FS_CardinalityType DEF Table, Taken
<1> QED
  BY <1>3, <1>4, DelegationsAssumption

\* One more node has one, below the cap.
LEMMA TakenMore ==
    ASSUME NEW m \in Node, Cardinality(Taken) < DELEG_CAP,
           \A n \in Node : n # m => (deleg'[n] # NoDeleg <=> deleg[n] # NoDeleg)
    PROVE  Cardinality({n \in Node : deleg'[n] # NoDeleg}) <= DELEG_CAP
<1> DEFINE S == {n \in Node : deleg'[n] # NoDeleg}
<1>1. S \subseteq Taken \cup {m} /\ Taken \subseteq Node
  BY DEF Taken
<1>2. IsFiniteSet(Taken)
  BY <1>1, DelegationsAssumption, FS_Subset
<1>3. /\ IsFiniteSet(Taken \cup {m}) /\ Cardinality(Taken) \in Nat
      /\ Cardinality(Taken \cup {m}) \in {Cardinality(Taken), Cardinality(Taken) + 1}
  BY <1>2, FS_AddElement, FS_CardinalityType
<1>4. Cardinality(S) <= Cardinality(Taken \cup {m}) /\ IsFiniteSet(S)
  BY <1>1, <1>3, FS_Subset
<1>5. Cardinality(S) \in Nat
  BY <1>4, FS_CardinalityType
<1> QED
  BY <1>3, <1>4, <1>5, DelegationsAssumption

\* The delegation of a node stays, goes, or is marked.
Mark(d)  == [other |-> d.other, recalling |-> TRUE]
Stays(n) == deleg'[n] = deleg[n] \/ deleg'[n] = NoDeleg \/ (deleg[n] # NoDeleg /\ deleg'[n] = Mark(deleg[n]))

\* One is granted to node m.
Grants(m) ==
    /\ Grantable(m) /\ minted'.other = minted.other + 1
    /\ deleg' = [deleg EXCEPT ![m] = [other |-> minted.other + 1, recalling |-> FALSE]]

\* A delegation is granted to a node without one; otherwise delegations are marked or go.
LEMMA DelegStep ==
    ASSUME IInv, [Next]_vars
    PROVE  /\ deleg' \in [Node -> Delegs]
           /\ (\A n \in Node : Stays(n)) \/ (\E o \in opens : OpenOp(o) /\ Grants(o.node))
<1>0. deleg \in [Node -> Delegs] /\ NoDeleg \in Delegs /\ minted \in Mints /\ minted.other \in Nat /\ inval \in Seq(Node)
  BY Minted DEF IInv, Table, Journal, Delegs, NoDeleg
<1>1. ASSUME deleg' = deleg PROVE deleg' \in [Node -> Delegs] /\ \A n \in Node : Stays(n)
  BY <1>0, <1>1 DEF Stays
<1>2. ASSUME NEW n \in Node, deleg' = [deleg EXCEPT ![n] = NoDeleg]
      PROVE  deleg' \in [Node -> Delegs] /\ \A m \in Node : Stays(m)
  BY <1>0, <1>2 DEF Stays
<1>3. CASE ExchangeId
  <2>1. deleg' = [n \in Node |-> NoDeleg]
    BY <1>3 DEF ExchangeId
  <2> QED
    BY <1>0, <2>1 DEF Stays
<1>4. ASSUME NEW x \in returning, DelegReturn(x) PROVE deleg' \in [Node -> Delegs] /\ \A n \in Node : Stays(n)
  <2>1. deleg' = [n \in Node |-> IF deleg[n].other = x THEN NoDeleg ELSE deleg[n]]
    BY <1>4 DEF DelegReturn
  <2>2. \A n \in Node : deleg'[n] = deleg[n] \/ deleg'[n] = NoDeleg
    BY <2>1
  <2>3. deleg' \in [Node -> Delegs]
    BY <1>0, <2>1
  <2> QED
    BY <2>2, <2>3 DEF Stays
<1>5. CASE RecallNode
  <2>1. PICK n \in Node : n = Head(inval)
    BY <1>0, <1>5 DEF RecallNode
  <2>2. deleg' = deleg \/ (deleg[n] # NoDeleg /\ deleg' = [deleg EXCEPT ![n] = Mark(deleg[n])])
    BY <1>5, <2>1 DEF RecallNode, Mark
  <2>3. PICK d \in Delegs : d = Mark(deleg[n])
    BY <1>0 DEF Delegs, Mark
  <2>4. deleg' = deleg \/ (deleg[n] # NoDeleg /\ deleg' = [deleg EXCEPT ![n] = d])
    BY <2>2, <2>3
  <2>5. deleg' \in [Node -> Delegs] /\ \A m \in Node : deleg'[m] = deleg[m] \/ (m = n /\ deleg[n] # NoDeleg /\ deleg'[m] = d)
    BY <1>0, <2>4
  <2> QED
    BY <2>3, <2>5 DEF Stays
<1>6. ASSUME NEW k \in recalls, RevokeUnbound(k) \/ Revoke(k)
      PROVE  deleg' \in [Node -> Delegs] /\ \A n \in Node : Stays(n)
  <2>1. k.node \in Node
    BY DEF IInv, Told, Tasks
  <2>2. deleg' = deleg \/ deleg' = [deleg EXCEPT ![k.node] = NoDeleg]
    BY <1>6 DEF RevokeUnbound, Revoke
  <2> QED
    BY <1>1, <1>2, <2>1, <2>2
<1>7. ASSUME NEW o \in opens, OpenOp(o)
      PROVE  deleg' \in [Node -> Delegs] /\ ((\A n \in Node : Stays(n)) \/ Grants(o.node))
  <2>1. CASE deleg' = deleg
    BY <1>1, <2>1
  <2>2. CASE Grants(o.node)
    <3>1. PICK d : d = [other |-> minted.other + 1, recalling |-> FALSE]
      OBVIOUS
    <3>2. d \in Delegs
      <4>1. minted.other + 1 \in Nat /\ FALSE \in BOOLEAN
        BY <1>0
      <4> QED
        BY <3>1, <4>1 DEF Delegs
    <3>3. deleg' = [deleg EXCEPT ![o.node] = d]
      BY <2>2, <3>1 DEF Grants
    <3>4. deleg' \in [Node -> Delegs]
      BY <1>0, <3>2, <3>3
    <3> QED
      BY <2>2, <3>4
  <2>3. deleg' = deleg \/ Grants(o.node)
    BY <1>7, OpenOpEffect DEF Grants
  <2> QED
    BY <2>1, <2>2, <2>3
<1>8. CASE \/ \E n \in Node : Announce(n) \/ Reseed(n) \/ SendOpen(n) \/ GiveBack(n)
           \/ \E c \in Conn : Connect(c) \/ Break(c) \/ Eof(c) \/ Receive(c)
           \/ Apply \/ CreateSession \/ DestroySession \/ UNCHANGED vars
           \/ \E o \in opens : OpenBadSession(o) \/ GetAttr(o) \/ WriteReply(o)
           \/ \E k \in recalls : SendRecall(k)
  <2>1. deleg' = deleg
    BY <1>8 DEF Announce, Reseed, SendOpen, GiveBack, Connect, Break, Eof, Receive, Apply, CreateSession,
       DestroySession, vars, srvvars, OpenBadSession, GetAttr, WriteReply, SendRecall
  <2> QED
    BY <1>1, <2>1
<1> QED
  BY <1>3, <1>4, <1>5, <1>6, <1>7, <1>8 DEF Next, Serve, Recall

\* No more delegations than the cap, and each has a stateid handed out.
LEMMA TableStep ==
    ASSUME IInv, [Next]_vars
    PROVE  Table'
<1>0. Table /\ deleg \in [Node -> Delegs]
  BY DEF IInv, Table
<1>1. minted.other \in Nat /\ minted'.other \in Nat /\ minted.other <= minted'.other
  BY MintedGrows
<1>2. deleg' \in [Node -> Delegs]
  BY DelegStep
<1>a. \A n \in Node : deleg[n].other <= minted.other /\ (deleg[n].other = 0 => deleg[n] = NoDeleg)
  BY <1>0 DEF Table
<1>b. NoDeleg.other = 0 /\ \A n \in Node : deleg[n].other \in Nat
  BY <1>0 DEF NoDeleg, Delegs
<1>c. ASSUME NEW n \in Node, NEW x \in Nat, x <= minted.other, deleg'[n].other = x, x = 0 => deleg'[n] = NoDeleg
      PROVE  deleg'[n].other <= minted'.other /\ (deleg'[n].other = 0 => deleg'[n] = NoDeleg)
  BY <1>1, <1>c
<1>3. CASE \A n \in Node : Stays(n)
  <2>1. ASSUME NEW n \in Node PROVE deleg'[n].other <= minted'.other /\ (deleg'[n].other = 0 => deleg'[n] = NoDeleg)
    <3>1. CASE deleg'[n] = deleg[n]
      BY <1>a, <1>b, <1>c, <3>1
    <3>2. CASE deleg'[n] = NoDeleg
      BY <1>1, <1>b, <1>c, <3>2
    <3>3. CASE deleg[n] # NoDeleg /\ deleg'[n] = Mark(deleg[n])
      <4>1. deleg'[n].other = deleg[n].other
        BY <3>3 DEF Mark
      <4> QED
        BY <1>a, <1>b, <1>c, <3>3, <4>1
    <3> QED
      BY <1>3, <3>1, <3>2, <3>3 DEF Stays
  <2>2. \A n \in Node : deleg'[n] # NoDeleg => deleg[n] # NoDeleg
    BY <1>3 DEF Stays
  <2>3. Cardinality({n \in Node : deleg'[n] # NoDeleg}) <= DELEG_CAP
    BY <1>0, <2>2, TakenFewer
  <2> QED
    BY <1>2, <2>1, <2>3 DEF Table
<1>4. ASSUME NEW o \in opens, OpenOp(o), Grants(o.node)
      PROVE  Table'
  <2>1. o.node \in Node
    BY <1>4, OpenOpEffect
  <2>2. deleg'[o.node].other = minted.other + 1 /\ minted'.other = minted.other + 1
        /\ \A n \in Node : n # o.node => deleg'[n] = deleg[n]
    BY <1>0, <1>4, <2>1 DEF Grants
  <2>3. ASSUME NEW n \in Node PROVE deleg'[n].other <= minted'.other /\ (deleg'[n].other = 0 => deleg'[n] = NoDeleg)
    <3>1. CASE n = o.node
      BY <1>1, <2>2, <3>1
    <3>2. CASE n # o.node
      BY <1>a, <1>b, <1>c, <2>2, <3>2
    <3> QED
      BY <3>1, <3>2
  <2>4. Cardinality(Taken) < DELEG_CAP
    BY <1>4 DEF Grants, Grantable, Taken
  <2>5. Cardinality({n \in Node : deleg'[n] # NoDeleg}) <= DELEG_CAP
    BY <2>1, <2>2, <2>4, TakenMore
  <2> QED
    BY <1>2, <2>3, <2>5 DEF Table
<1> QED
  BY <1>3, <1>4, DelegStep

\* A recall is made for every task of send_cb_recall.
LEMMA ToldStep ==
    ASSUME IInv, [Next]_vars
    PROVE  Told' /\ recalled \subseteq recalled' /\ swept \subseteq swept'
<1>0. Told /\ Table /\ inval \in Seq(Node) /\ recalls \subseteq Tasks /\ deleg \in [Node -> Delegs]
  BY DEF IInv, Told, Table, Journal
<1>1. ASSUME recalls' \subseteq recalls, recalled' = recalled PROVE Told'
  BY <1>0, <1>1 DEF Told
<1>2. ASSUME NEW k \in recalls, Sent(k), recalled' = recalled PROVE Told'
  <2>1. k \in Tasks /\ k.other \in recalled
    BY <1>0 DEF Told
  <2>2. PICK j \in Tasks : j = [k EXCEPT !.pc = "wait"] /\ j.other = k.other
    <3>1. [k EXCEPT !.pc = "wait"] \in Tasks /\ [k EXCEPT !.pc = "wait"].other = k.other
      BY <2>1 DEF Tasks
    <3> QED
      BY <3>1
  <2>3. recalls' = (recalls \ {k}) \cup {j}
    BY <1>2, <2>2 DEF Sent
  <2> QED
    BY <1>0, <1>2, <2>1, <2>2, <2>3 DEF Told
<1>3. CASE RecallNode
  <2>1. PICK n \in Node : n = Head(inval)
    BY <1>0, <1>3 DEF RecallNode
  <2>2. CASE UNCHANGED <<deleg, recalls, recalled>>
    BY <1>1, <1>3, <2>2 DEF RecallNode
  <2>3. CASE ~UNCHANGED <<deleg, recalls, recalled>>
    <3>1. /\ deleg[n] # NoDeleg /\ recalled' = recalled \cup Others(n) /\ swept' = swept
          /\ \/ \E s \in DOMAIN bc : recalls' = recalls \cup {Task(s, n, "send")}
             \/ recalls' = recalls \cup {Task(NoSession, n, "revoke")}
      BY <1>3, <2>1, <2>3 DEF RecallNode
    <3>2. deleg[n].other \in Nat /\ deleg[n].other # 0
      BY <1>0, <3>1 DEF Table, Delegs
    <3>3. deleg[n].other \in recalled'
      BY <3>1, <3>2 DEF Others
    <3>4. \A s \in DOMAIN bc : s \in Nat
      BY DEF IInv, Server
    <3>5. ASSUME NEW s \in Nat, NEW pc \in {"send", "revoke"}
          PROVE  Task(s, n, pc) \in Tasks /\ Task(s, n, pc).other = deleg[n].other
      BY <3>2 DEF Task, Tasks
    <3>6. PICK j \in Tasks : recalls' = recalls \cup {j} /\ j.other = deleg[n].other
      BY <3>1, <3>4, <3>5 DEF NoSession
    <3>7. Told'
      BY <1>0, <3>1, <3>3, <3>6 DEF Told
    <3> QED
      BY <3>1, <3>7
  <2> QED
    BY <2>2, <2>3
<1>4. ASSUME NEW k \in recalls, RevokeUnbound(k) \/ Revoke(k)
      PROVE  Told' /\ recalled \subseteq recalled' /\ swept \subseteq swept'
  BY <1>1, <1>4 DEF RevokeUnbound, Revoke, hist
<1>5. ASSUME NEW k \in recalls, SendRecall(k)
      PROVE  Told' /\ recalled \subseteq recalled' /\ swept \subseteq swept'
  <2>1. recalled' = recalled /\ swept' = swept
    BY <1>5 DEF SendRecall, hist
  <2> QED
    BY <1>1, <1>2, <1>5, <2>1, SendRecallEffect
<1>6. CASE \/ \E n \in Node : Announce(n) \/ Reseed(n) \/ SendOpen(n) \/ GiveBack(n)
           \/ \E c \in Conn : Connect(c) \/ Break(c) \/ Eof(c) \/ Receive(c)
           \/ Apply \/ ExchangeId \/ CreateSession \/ DestroySession \/ UNCHANGED vars
           \/ \E o \in opens : OpenOp(o) \/ OpenBadSession(o) \/ GetAttr(o) \/ WriteReply(o)
           \/ \E x \in returning : DelegReturn(x)
  <2>1. UNCHANGED <<recalls, recalled, swept>>
    BY <1>6 DEF Announce, Reseed, SendOpen, GiveBack, Connect, Break, Eof, Receive, Apply, ExchangeId, CreateSession,
       DestroySession, vars, hist, OpenOp, OpenBadSession, GetAttr, WriteReply, DelegReturn
  <2> QED
    BY <1>1, <2>1
<1> QED
  BY <1>3, <1>4, <1>5, <1>6 DEF Next, Serve, Recall

-----------------------------------------------------------------------------
(***************************************************************************)
(* How a grant travels.                                                    *)
(***************************************************************************)
\* Nothing new travels: some of it may be lost.
OpensKeep == \A o \in opens' : Granted(o) => o \in opens
WireKeeps ==
    \A c \in Conn : \A i \in DOMAIN wire'[c] :
        wire'[c][i].type = "open" => i \in DOMAIN wire[c] /\ wire'[c][i] = wire[c][i]
HeldKeeps == \A n \in Node : held'[n] = held[n] \/ held'[n] = NoHeld
Rests ==
    /\ opens' \subseteq Compounds /\ \A o \in opens' : o.sid <= minted'.session
    /\ wire' \in [Conn -> Seq(Msgs)] /\ held' \in [Node -> Helds]
    /\ OpensKeep /\ WireKeeps /\ HeldKeeps /\ returning' \subseteq returning
    /\ minted'.other = minted.other

\* All that is neither the service of an OPEN nor the client's doing.
Elsewhere ==
    \/ \E n \in Node : Announce(n) \/ Reseed(n) \/ SendOpen(n)
    \/ Apply
    \/ \E c \in Conn : Connect(c) \/ Break(c) \/ Eof(c)
    \/ ExchangeId \/ CreateSession \/ DestroySession
    \/ \E o \in opens : OpenBadSession(o) \/ (OpenOp(o) /\ ~ Grants(o.node))
    \/ \E x \in returning : DelegReturn(x)
    \/ RecallNode \/ Recall \/ UNCHANGED vars

\* It moves no grant.
LEMMA ElsewhereRests ==
    ASSUME IInv, [Next]_vars, Elsewhere
    PROVE  Rests
<1>0. /\ Places /\ opens \subseteq Compounds /\ wire \in [Conn -> Seq(Msgs)] /\ held \in [Node -> Helds]
      /\ minted \in Mints /\ \A o \in opens : o.sid <= minted.session
  BY DEF IInv, Places, Journal
<1>1. minted.session \in Nat /\ minted'.session \in Nat /\ minted.session <= minted'.session
  BY MintedGrows
<1>2. \A o \in opens : o.sid <= minted'.session
  <2>1. \A o \in opens : o.sid \in Nat
    BY <1>0 DEF Compounds
  <2> QED
    BY <1>0, <1>1, <2>1
<1>3. minted'.other = minted.other
  <2>1. CASE \E n \in Node : Announce(n) \/ Reseed(n)
    <3>1. minted' = [minted EXCEPT !.change = @ + 1]
      BY <2>1 DEF Announce, Reseed, Changes
    <3> QED
      BY <1>0, <3>1, Minted
  <2>2. CASE CreateSession
    <3>1. minted' = [minted EXCEPT !.session = @ + 1]
      BY <2>2 DEF CreateSession
    <3> QED
      BY <1>0, <3>1, Minted
  <2>3. ASSUME NEW o \in opens, OpenOp(o), ~ Grants(o.node) PROVE minted'.other = minted.other
    BY <2>3, OpenOpEffect DEF Grants
  <2>4. CASE \/ \E n \in Node : SendOpen(n)
             \/ Apply \/ (\E c \in Conn : Connect(c) \/ Break(c) \/ Eof(c))
             \/ ExchangeId \/ DestroySession \/ (\E o \in opens : OpenBadSession(o))
             \/ (\E x \in returning : DelegReturn(x)) \/ RecallNode \/ Recall \/ UNCHANGED vars
    BY <2>4 DEF SendOpen, Apply, Connect, Break, Eof, ExchangeId, DestroySession, OpenBadSession, DelegReturn, RecallNode,
       Recall, RevokeUnbound, SendRecall, Revoke, vars
  <2> QED
    BY <2>1, <2>2, <2>3, <2>4 DEF Elsewhere
<1>4. opens' \subseteq Compounds /\ OpensKeep /\ \A o \in opens' : o.sid <= minted'.session
  <2>1. ASSUME opens' \subseteq opens
        PROVE  opens' \subseteq Compounds /\ OpensKeep /\ \A o \in opens' : o.sid <= minted'.session
    BY <1>0, <1>2, <2>1 DEF OpensKeep
  <2>2. ASSUME NEW n \in Node, SendOpen(n)
        PROVE  opens' \subseteq Compounds /\ OpensKeep /\ \A o \in opens' : o.sid <= minted'.session
    <3>1. cl.conn \in Conn /\ cl.sid \in Nat /\ cl.sid <= minted.session
      BY <2>2 DEF SendOpen, IInv, Linked
    <3>2. PICK p \in Compounds :
            /\ p = [conn |-> cl.conn, sid |-> cl.sid, node |-> n, other |-> 0, val |-> 0, pc |-> "call"]
            /\ p.sid = cl.sid /\ p.pc = "call"
      <4>1. [conn |-> cl.conn, sid |-> cl.sid, node |-> n, other |-> 0, val |-> 0, pc |-> "call"] \in Compounds
        BY <3>1 DEF Compounds
      <4> QED
        BY <4>1
    <3>3. opens' = opens \cup {p}
      BY <2>2, <3>2 DEF SendOpen
    <3>4. ~ Granted(p) /\ p.sid <= minted'.session
      BY <1>1, <3>1, <3>2 DEF Granted
    <3> QED
      BY <1>0, <1>2, <3>3, <3>4 DEF OpensKeep
  <2>3. ASSUME NEW o \in opens, OpenOp(o), ~ Grants(o.node) PROVE opens' \subseteq opens
    BY <2>3, OpenOpEffect DEF Grants
  <2>4. CASE \/ \E n \in Node : Announce(n) \/ Reseed(n)
             \/ Apply \/ (\E c \in Conn : Connect(c) \/ Break(c) \/ Eof(c))
             \/ ExchangeId \/ CreateSession \/ DestroySession \/ (\E o \in opens : OpenBadSession(o))
             \/ (\E x \in returning : DelegReturn(x)) \/ RecallNode \/ Recall \/ UNCHANGED vars
    <3>1. opens' \subseteq opens
      BY <2>4 DEF Announce, Reseed, Apply, Connect, Break, Eof, ExchangeId, CreateSession, DestroySession, OpenBadSession,
         DelegReturn, RecallNode, Recall, RevokeUnbound, SendRecall, Revoke, vars
    <3> QED
      BY <2>1, <3>1
  <2> QED
    BY <2>1, <2>2, <2>3, <2>4 DEF Elsewhere
<1>5. wire' \in [Conn -> Seq(Msgs)] /\ WireKeeps
  <2>1. ASSUME wire' = wire PROVE wire' \in [Conn -> Seq(Msgs)] /\ WireKeeps
    BY <1>0, <2>1 DEF WireKeeps
  <2>2. ASSUME NEW c \in Conn, Break(c) PROVE wire' \in [Conn -> Seq(Msgs)] /\ WireKeeps
    <3>1. wire' = [wire EXCEPT ![c] = <<>>] /\ <<>> \in Seq(Msgs) /\ DOMAIN <<>> = {}
      BY <2>2 DEF Break
    <3>2. wire' \in [Conn -> Seq(Msgs)] /\ wire'[c] = <<>> /\ \A d \in Conn : d # c => wire'[d] = wire[d]
      BY <1>0, <3>1
    <3> QED
      BY <3>1, <3>2 DEF WireKeeps
  <2>3. ASSUME NEW k \in recalls, SendRecall(k) PROVE wire' \in [Conn -> Seq(Msgs)] /\ WireKeeps
    <3>1. ASSUME NEW c \in Conn, NEW m \in Msgs, wire' = [wire EXCEPT ![c] = Append(@, m)], m.type = "recall"
          PROVE  wire' \in [Conn -> Seq(Msgs)] /\ WireKeeps
      <4>1. /\ wire' \in [Conn -> Seq(Msgs)]
            /\ \A d \in Conn : \A i \in DOMAIN wire'[d] :
                 (i \in DOMAIN wire[d] /\ wire'[d][i] = wire[d][i]) \/ wire'[d][i] = m
        BY <1>0, <3>1, Appended
      <4> QED
        BY <3>1, <4>1 DEF WireKeeps
    <3> QED
      BY <2>1, <2>3, <3>1, SendRecallEffect
  <2>4. CASE \/ \E n \in Node : Announce(n) \/ Reseed(n) \/ SendOpen(n)
             \/ Apply \/ (\E c \in Conn : Connect(c) \/ Eof(c))
             \/ ExchangeId \/ CreateSession \/ DestroySession \/ (\E o \in opens : OpenBadSession(o) \/ OpenOp(o))
             \/ (\E x \in returning : DelegReturn(x)) \/ RecallNode
             \/ (\E k \in recalls : RevokeUnbound(k) \/ Revoke(k)) \/ UNCHANGED vars
    <3>1. wire' = wire
      BY <2>4 DEF Announce, Reseed, SendOpen, Apply, Connect, Eof, ExchangeId, CreateSession, DestroySession, OpenBadSession,
         OpenOp, DelegReturn, RecallNode, RevokeUnbound, Revoke, vars
    <3> QED
      BY <2>1, <3>1
  <2> QED
    BY <2>2, <2>3, <2>4 DEF Elsewhere, Recall
<1>6. held' \in [Node -> Helds] /\ HeldKeeps
  <2>1. CASE ExchangeId
    <3>1. held' = [n \in Node |-> NoHeld] /\ NoHeld \in Helds
      BY <2>1 DEF ExchangeId, NoHeld, Helds
    <3> QED
      BY <3>1 DEF HeldKeeps
  <2>2. CASE ~ExchangeId
    <3>1. held' = held
      BY <2>2 DEF Elsewhere, Announce, Reseed, SendOpen, Apply, Connect, Break, Eof, CreateSession, DestroySession, OpenBadSession,
         OpenOp, DelegReturn, RecallNode, Recall, RevokeUnbound, SendRecall, Revoke, vars, clvars
    <3> QED
      BY <1>0, <3>1 DEF HeldKeeps
  <2> QED
    BY <2>1, <2>2
<1>7. returning' \subseteq returning
  BY DEF Elsewhere, Announce, Reseed, SendOpen, Apply, Connect, Break, Eof, ExchangeId, CreateSession, DestroySession, OpenBadSession,
     OpenOp, DelegReturn, RecallNode, Recall, RevokeUnbound, SendRecall, Revoke, vars, clvars
<1> QED
  BY <1>3, <1>4, <1>5, <1>6, <1>7 DEF Rests

\* Every step is one that moves no grant, or one of those that do.
LEMMA Moving ==
    ASSUME [Next]_vars
    PROVE  \/ Elsewhere
           \/ \E o \in opens : (OpenOp(o) /\ Grants(o.node)) \/ GetAttr(o) \/ WriteReply(o)
           \/ \E c \in Conn : Receive(c)
           \/ \E n \in Node : GiveBack(n)
BY DEF Next, Serve, Elsewhere

\* What the client does with the first message of a connection.
LEMMA ReceiveEffect ==
    ASSUME IInv, NEW c \in Conn, Receive(c)
    PROVE  /\ wire[c] # <<>> /\ wire' = [wire EXCEPT ![c] = Tail(@)] /\ UNCHANGED <<opens, minted, conn, deleg>>
           /\ \E m \in Msgs :
                /\ m = wire[c][1] /\ 1 \in DOMAIN wire[c] /\ m.node \in Node /\ m.other \in Nat \ {0} /\ m.val \in Nat
                /\ \/ m.type = "open" /\ returning' = returning
                      /\ held' = [held EXCEPT ![m.node] = [other |-> m.other, val |-> m.val]]
                   \/ m.type # "open" /\ held[m.node].other = m.other /\ returning' = returning \cup {m.other}
                      /\ held' = [held EXCEPT ![m.node] = NoHeld]
                   \/ held' = held /\ returning' = returning
<1>1. /\ wire[c] # <<>> /\ wire' = [wire EXCEPT ![c] = Tail(@)] /\ UNCHANGED <<opens, minted, conn, deleg>>
  BY DEF Receive, srvvars
<1>2. 1 \in DOMAIN wire[c] /\ Head(wire[c]) = wire[c][1] /\ Head(wire[c]) \in Msgs
  BY <1>1, Tailed DEF IInv, Places
<1>3. PICK m \in Msgs : m = Head(wire[c])
  BY <1>2
<1>4. m.node \in Node /\ m.other \in Nat \ {0} /\ m.val \in Nat /\ m.type \in {"open", "recall"}
  BY DEF Msgs
<1>5. CASE m.type = "open"
  <2>1. returning' = returning /\ held' = [held EXCEPT ![m.node] = [other |-> m.other, val |-> m.val]]
    BY <1>3, <1>5 DEF Receive
  <2> QED
    BY <1>1, <1>2, <1>3, <1>4, <1>5, <2>1
<1>6. CASE m.type # "open"
  <2>1. \/ held[m.node].other = m.other /\ returning' = returning \cup {m.other}
           /\ held' = [held EXCEPT ![m.node] = NoHeld]
        \/ held' = held /\ returning' = returning
    BY <1>3, <1>4, <1>6 DEF Receive
  <2> QED
    BY <1>1, <1>2, <1>3, <1>4, <1>6, <2>1
<1> QED
  BY <1>5, <1>6

\* A stateid on its way is one that was handed out, and a record has its fields.
LEMMA PlacesStep ==
    ASSUME IInv, [Next]_vars
    PROVE  Places'
<1>0. /\ opens \subseteq Compounds /\ wire \in [Conn -> Seq(Msgs)] /\ held \in [Node -> Helds]
      /\ returning \subseteq 1 .. minted.other
      /\ \A o \in opens : o.sid <= minted.session /\ (Granted(o) => o.other \in 1 .. minted.other)
      /\ \A c \in Conn : \A i \in DOMAIN wire[c] : wire[c][i].type = "open" => wire[c][i].other \in 1 .. minted.other
      /\ \A n \in Node : held[n].other <= minted.other /\ (held[n].other = 0 => held[n] = NoHeld)
  BY DEF IInv, Places
<1>1. /\ minted.session \in Nat /\ minted'.session \in Nat /\ minted.session <= minted'.session
      /\ minted.other \in Nat /\ minted'.other \in Nat /\ minted.other <= minted'.other
  BY MintedGrows
<1>h. NoHeld.other = 0 /\ NoHeld \in Helds /\ \A n \in Node : held[n].other \in Nat
  BY <1>0 DEF NoHeld, Helds
<1>s. \A o \in opens : o.sid \in Nat /\ o.sid <= minted'.session
  <2>1. \A o \in opens : o.sid \in Nat
    BY <1>0 DEF Compounds
  <2> QED
    BY <1>0, <1>1, <2>1
<1>2. CASE Rests
  BY <1>0, <1>1, <1>h, <1>2 DEF Rests, OpensKeep, WireKeeps, HeldKeeps, Places
<1>3. ASSUME NEW o \in opens, OpenOp(o), Grants(o.node) PROVE Places'
  <2>1. PICK p \in Compounds : opens' = (opens \ {o}) \cup {p} /\ p.sid = o.sid /\ p.other = minted.other + 1
    <3>1. minted' # minted
      BY <1>1, <1>3 DEF Grants
    <3> QED
      BY <1>3, <3>1, OpenOpEffect
  <2>2. UNCHANGED <<wire, held, returning>> /\ minted'.other = minted.other + 1
    BY <1>3 DEF OpenOp, Grants, clvars
  <2>3. 1 .. minted.other \subseteq 1 .. minted'.other /\ p.other \in 1 .. minted'.other
    BY <1>1, <2>1, <2>2
  <2>4. \A n \in Node : held[n].other <= minted'.other
    BY <1>0, <1>1, <1>h
  <2>5. p.sid <= minted'.session
    BY <1>s, <2>1
  <2>6. opens' \subseteq Compounds /\ \A q \in opens' : q.sid <= minted'.session /\ (Granted(q) => q.other \in 1 .. minted'.other)
    BY <1>0, <1>s, <2>1, <2>3, <2>5
  <2>7. \A c \in Conn : \A i \in DOMAIN wire[c] : wire[c][i].type = "open" => wire[c][i].other \in 1 .. minted'.other
    BY <1>0, <2>3
  <2> QED
    BY <1>0, <2>2, <2>3, <2>4, <2>6, <2>7 DEF Places
<1>4. ASSUME NEW o \in opens, GetAttr(o) PROVE Places'
  <2>1. PICK p \in Compounds : opens' = (opens \ {o}) \cup {p} /\ p.sid = o.sid /\ p.other = o.other
    BY <1>4, GetAttrEffect
  <2>2. UNCHANGED <<wire, held, returning, minted>> /\ o.pc = "attr"
    BY <1>4 DEF GetAttr, clvars
  <2>3. p.other \in 1 .. minted.other
    BY <1>0, <2>1, <2>2 DEF Granted
  <2> QED
    BY <1>0, <2>1, <2>2, <2>3 DEF Places
<1>5. ASSUME NEW o \in opens, WriteReply(o) PROVE Places'
  <2>1. opens' = opens \ {o} /\ UNCHANGED <<held, returning, minted>> /\ o.pc = "reply"
    BY <1>5 DEF WriteReply, clvars
  <2>2. CASE wire' = wire
    BY <1>0, <2>1, <2>2 DEF Places
  <2>3. ASSUME NEW m \in Msgs, wire' = [wire EXCEPT ![o.conn] = Append(@, m)], m.other = o.other, o.conn \in Conn
        PROVE  Places'
    <3>1. /\ wire' \in [Conn -> Seq(Msgs)]
          /\ \A d \in Conn : \A i \in DOMAIN wire'[d] :
                 (i \in DOMAIN wire[d] /\ wire'[d][i] = wire[d][i]) \/ wire'[d][i] = m
      BY <1>0, <2>3, Appended
    <3>2. m.other \in 1 .. minted.other
      BY <1>0, <2>1, <2>3 DEF Granted
    <3> QED
      BY <1>0, <2>1, <3>1, <3>2 DEF Places
  <2> QED
    BY <1>5, <2>2, <2>3, WriteReplyEffect
<1>6. ASSUME NEW c \in Conn, Receive(c) PROVE Places'
  <2>1. PICK m \in Msgs :
                /\ m = wire[c][1] /\ 1 \in DOMAIN wire[c] /\ m.node \in Node /\ m.other \in Nat \ {0} /\ m.val \in Nat
                /\ \/ m.type = "open" /\ returning' = returning
                      /\ held' = [held EXCEPT ![m.node] = [other |-> m.other, val |-> m.val]]
                   \/ m.type # "open" /\ held[m.node].other = m.other /\ returning' = returning \cup {m.other}
                      /\ held' = [held EXCEPT ![m.node] = NoHeld]
                   \/ held' = held /\ returning' = returning
    BY <1>6, ReceiveEffect
  <2>2. wire[c] # <<>> /\ wire' = [wire EXCEPT ![c] = Tail(@)] /\ UNCHANGED <<opens, minted>>
    BY <1>6, ReceiveEffect
  <2>3. /\ wire' \in [Conn -> Seq(Msgs)] /\ \A d \in Conn : d # c => wire'[d] = wire[d]
        /\ \A i \in DOMAIN wire'[c] : i + 1 \in DOMAIN wire[c] /\ wire'[c][i] = wire[c][i + 1]
    BY <1>0, <2>2, Tailed
  <2>4. \A d \in Conn : \A i \in DOMAIN wire'[d] : wire'[d][i].type = "open" => wire'[d][i].other \in 1 .. minted.other
    BY <1>0, <2>3, ZenonT(60)
  <2>5. /\ held' \in [Node -> Helds] /\ returning' \subseteq 1 .. minted.other
        /\ \A n \in Node : held'[n].other <= minted.other /\ (held'[n].other = 0 => held'[n] = NoHeld)
    <3>1. CASE m.type = "open" /\ returning' = returning /\ held' = [held EXCEPT ![m.node] = [other |-> m.other, val |-> m.val]]
      <4>1. PICK h \in Helds : h = [other |-> m.other, val |-> m.val] /\ h.other = m.other
        <5>1. [other |-> m.other, val |-> m.val] \in Helds
          BY <2>1 DEF Helds
        <5> QED
          BY <5>1
      <4>2. held' = [held EXCEPT ![m.node] = h]
        BY <3>1, <4>1
      <4>3. held' \in [Node -> Helds] /\ \A n \in Node : held'[n] = IF n = m.node THEN h ELSE held[n]
        BY <1>0, <2>1, <4>2
      <4>4. m.other \in 1 .. minted.other
        BY <1>0, <2>1, <3>1
      <4>5. h.other # 0 /\ h.other <= minted.other
        BY <1>1, <4>1, <4>4
      <4> QED
        BY <1>0, <3>1, <4>3, <4>5
    <3>2. CASE m.type # "open" /\ held[m.node].other = m.other /\ returning' = returning \cup {m.other}
               /\ held' = [held EXCEPT ![m.node] = NoHeld]
      <4>1. m.other \in 1 .. minted.other
        BY <1>0, <1>1, <2>1, <3>2
      <4>2. held' \in [Node -> Helds] /\ \A n \in Node : held'[n] = IF n = m.node THEN NoHeld ELSE held[n]
        BY <1>0, <1>h, <3>2
      <4>3. \A n \in Node : held'[n].other <= minted.other /\ (held'[n].other = 0 => held'[n] = NoHeld)
        BY <1>0, <1>1, <1>h, <4>2
      <4> QED
        BY <1>0, <3>2, <4>1, <4>2, <4>3
    <3>3. CASE held' = held /\ returning' = returning
      BY <1>0, <3>3
    <3> QED
      BY <2>1, <3>1, <3>2, <3>3
  <2> QED
    BY <1>0, <2>2, <2>3, <2>4, <2>5 DEF Places
<1>7. ASSUME NEW n \in Node, GiveBack(n) PROVE Places'
  <2>1. /\ held[n] # NoHeld /\ held' = [held EXCEPT ![n] = NoHeld] /\ returning' = returning \cup {held[n].other}
        /\ UNCHANGED <<opens, wire, minted>>
    BY <1>7 DEF GiveBack
  <2>2. held[n].other \in 1 .. minted.other
    BY <1>0, <1>1, <1>h, <2>1
  <2>3. held' \in [Node -> Helds] /\ \A m \in Node : held'[m] = IF m = n THEN NoHeld ELSE held[m]
    BY <1>0, <1>h, <2>1
  <2>4. \A m \in Node : held'[m].other <= minted.other /\ (held'[m].other = 0 => held'[m] = NoHeld)
    BY <1>0, <1>1, <1>h, <2>3
  <2> QED
    BY <1>0, <2>1, <2>2, <2>3, <2>4 DEF Places
<1> QED
  BY <1>2, <1>3, <1>4, <1>5, <1>6, <1>7, Moving, ElsewhereRests

\* A grant is in one place, at each step of its way.
LEMMA OnceStep ==
    ASSUME IInv, [Next]_vars
    PROVE  Once'
<1>0. /\ Apart /\ OneOpen /\ OneWire /\ OneHeld /\ Places /\ minted.other \in Nat
      /\ opens \subseteq Compounds /\ wire \in [Conn -> Seq(Msgs)] /\ held \in [Node -> Helds]
  BY MintedGrows DEF IInv, Once, Places
<1>h. NoHeld.other = 0
  BY DEF NoHeld
<1>1. CASE Rests
  <2>1. ASSUME NEW x \in 1 .. minted.other
        PROVE  /\ AtOpen(x)' => AtOpen(x)
               /\ AtWire(x)' => AtWire(x)
               /\ AtHeld(x)' => AtHeld(x)
               /\ x \in returning' => x \in returning
    <3>1. AtOpen(x)' => AtOpen(x)
      BY <1>1 DEF Rests, OpensKeep, AtOpen
    <3>2. AtWire(x)' => AtWire(x)
      BY <1>1 DEF Rests, WireKeeps, AtWire
    <3>3. AtHeld(x)' => AtHeld(x)
      BY <1>1, <1>h DEF Rests, HeldKeeps, AtHeld
    <3> QED
      BY <1>1, <3>1, <3>2, <3>3 DEF Rests
  <2>2. Apart'
    BY <1>0, <1>1, <2>1 DEF Apart, Rests
  <2>3. OneOpen'
    BY <1>0, <1>1 DEF OneOpen, Rests, OpensKeep
  <2>4. OneWire'
    BY <1>0, <1>1 DEF OneWire, Rests, WireKeeps
  <2>5. OneHeld'
    BY <1>0, <1>1, <1>h DEF OneHeld, Rests, HeldKeeps
  <2> QED
    BY <2>2, <2>3, <2>4, <2>5 DEF Once
<1>2. ASSUME NEW o \in opens, OpenOp(o), Grants(o.node) PROVE Once'
  <2>1. PICK p \in Compounds : opens' = (opens \ {o}) \cup {p} /\ p.other = minted.other + 1
    <3>1. minted' # minted
      BY <1>0, <1>2 DEF Grants
    <3> QED
      BY <1>2, <3>1, OpenOpEffect
  <2>2. UNCHANGED <<wire, held, returning>> /\ minted'.other = minted.other + 1
    BY <1>2 DEF OpenOp, Grants, clvars
  <2>3. ASSUME NEW x \in 1 .. minted'.other
        PROVE  /\ AtOpen(x)' => AtOpen(x) \/ x = minted.other + 1
               /\ AtWire(x)' => AtWire(x) /\ x \in 1 .. minted.other /\ x # minted.other + 1
               /\ AtHeld(x)' => AtHeld(x) /\ x \in 1 .. minted.other /\ x # minted.other + 1
               /\ x \in returning' => x \in returning /\ x \in 1 .. minted.other /\ x # minted.other + 1
    <3>0. x \in 1 .. minted.other => x # minted.other + 1
      BY <1>0
    <3>1. AtOpen(x)' => AtOpen(x) \/ x = minted.other + 1
      BY <2>1 DEF AtOpen
    <3>2. AtWire(x)' => AtWire(x) /\ x \in 1 .. minted.other
      BY <1>0, <2>2 DEF AtWire, Places
    <3>3. AtHeld(x)' => AtHeld(x)
      BY <2>2 DEF AtHeld
    <3>4. AtHeld(x) => x \in 1 .. minted.other
      BY <1>0 DEF AtHeld, Places
    <3>5. x \in returning' => x \in returning /\ x \in 1 .. minted.other
      BY <1>0, <2>2 DEF Places
    <3> QED
      BY <3>0, <3>1, <3>2, <3>3, <3>4, <3>5
  <2>4. ASSUME NEW x \in 1 .. minted'.other, AtOpen(x) PROVE x \in 1 .. minted.other
    BY <1>0, <2>4 DEF AtOpen, Places
  <2>5. Apart'
    BY <1>0, <2>3, <2>4 DEF Apart
  <2>6. OneOpen'
    <3>1. \A q \in opens : Granted(q) => q.other # minted.other + 1
      BY <1>0 DEF Places
    <3> QED
      BY <1>0, <2>1, <3>1 DEF OneOpen
  <2> QED
    BY <1>0, <2>2, <2>5, <2>6 DEF Once, OneWire, OneHeld
<1>3. ASSUME NEW o \in opens, GetAttr(o) PROVE Once'
  <2>1. PICK p \in Compounds : opens' = (opens \ {o}) \cup {p} /\ p.other = o.other /\ p.pc = "reply"
    BY <1>3, GetAttrEffect
  <2>2. UNCHANGED <<wire, held, returning, minted>> /\ Granted(o)
    BY <1>3 DEF GetAttr, clvars, Granted
  <2>3. \A x \in 1 .. minted.other : AtOpen(x)' => AtOpen(x)
    BY <2>1, <2>2 DEF AtOpen
  <2>4. Apart'
    BY <1>0, <2>2, <2>3 DEF Apart, AtWire, AtHeld
  <2>5. OneOpen'
    BY <1>0, <2>1, <2>2 DEF OneOpen
  <2> QED
    BY <1>0, <2>2, <2>4, <2>5 DEF Once, OneWire, OneHeld
<1>4. ASSUME NEW o \in opens, WriteReply(o) PROVE Once'
  <2>1. opens' = opens \ {o} /\ UNCHANGED <<held, returning, minted>> /\ Granted(o)
    BY <1>4 DEF WriteReply, clvars, Granted
  <2>2. OneOpen'
    BY <1>0, <2>1 DEF OneOpen
  <2>3. \A x \in 1 .. minted.other : AtOpen(x)' => AtOpen(x) /\ x # o.other
    BY <1>0, <2>1 DEF AtOpen, OneOpen
  <2>4. CASE wire' = wire
    <3>1. Apart'
      BY <1>0, <2>1, <2>3, <2>4 DEF Apart, AtWire, AtHeld
    <3> QED
      BY <1>0, <2>1, <2>2, <2>4, <3>1 DEF Once, OneWire, OneHeld
  <2>5. ASSUME NEW m \in Msgs, wire' = [wire EXCEPT ![o.conn] = Append(@, m)], m.other = o.other, o.conn \in Conn
        PROVE  Once'
    <3>1. /\ wire' \in [Conn -> Seq(Msgs)]
          /\ \A d \in Conn : \A i \in DOMAIN wire'[d] :
                 \/ i \in DOMAIN wire[d] /\ wire'[d][i] = wire[d][i]
                 \/ d = o.conn /\ i = Len(wire[o.conn]) + 1 /\ wire'[d][i] = m
      BY <1>0, <2>5, Appended
    <3>2. \A x \in 1 .. minted.other : AtWire(x)' => AtWire(x) \/ x = o.other
      BY <2>5, <3>1 DEF AtWire
    <3>3. o.other \in 1 .. minted.other /\ AtOpen(o.other)
      BY <1>0, <2>1 DEF AtOpen, Places
    <3>4. Apart'
      BY <1>0, <2>1, <2>3, <3>2, <3>3 DEF Apart, AtHeld
    <3>5. ~ AtWire(o.other)
      BY <1>0, <3>3 DEF Apart
    <3>6. \A c \in Conn : \A i \in DOMAIN wire[c] : wire[c][i].type = "open" => wire[c][i].other # m.other
      BY <2>5, <3>5 DEF AtWire
    <3>7. OneWire'
      <4> SUFFICES ASSUME NEW d \in Conn, NEW e \in Conn, NEW i \in DOMAIN wire'[d], NEW j \in DOMAIN wire'[e],
                          wire'[d][i].type = "open", wire'[e][j].type = "open", wire'[d][i].other = wire'[e][j].other
                   PROVE  d = e /\ i = j
        BY DEF OneWire
      <4>1. CASE i \in DOMAIN wire[d] /\ wire'[d][i] = wire[d][i] /\ j \in DOMAIN wire[e] /\ wire'[e][j] = wire[e][j]
        BY <1>0, <4>1 DEF OneWire
      <4>2. CASE wire'[d][i] = m \/ wire'[e][j] = m
        BY <3>1, <3>6, <4>2
      <4> QED
        BY <3>1, <4>1, <4>2
    <3> QED
      BY <1>0, <2>1, <2>2, <3>4, <3>7 DEF Once, OneHeld
  <2> QED
    BY <1>4, <2>4, <2>5, WriteReplyEffect
<1>5. ASSUME NEW c \in Conn, Receive(c) PROVE Once'
  <2>1. PICK m \in Msgs :
                /\ m = wire[c][1] /\ 1 \in DOMAIN wire[c] /\ m.node \in Node /\ m.other \in Nat \ {0} /\ m.val \in Nat
                /\ \/ m.type = "open" /\ returning' = returning
                      /\ held' = [held EXCEPT ![m.node] = [other |-> m.other, val |-> m.val]]
                   \/ m.type # "open" /\ held[m.node].other = m.other /\ returning' = returning \cup {m.other}
                      /\ held' = [held EXCEPT ![m.node] = NoHeld]
                   \/ held' = held /\ returning' = returning
    BY <1>5, ReceiveEffect
  <2>2. wire[c] # <<>> /\ wire' = [wire EXCEPT ![c] = Tail(@)] /\ UNCHANGED <<opens, minted>>
    BY <1>5, ReceiveEffect
  <2>3. /\ wire' \in [Conn -> Seq(Msgs)] /\ \A d \in Conn : d # c => wire'[d] = wire[d]
        /\ \A i \in DOMAIN wire'[c] : i \in Nat /\ i # 0 /\ i + 1 \in DOMAIN wire[c] /\ wire'[c][i] = wire[c][i + 1]
    BY <1>0, <2>2, Tailed
  <2>w. \A i, j \in Nat : (i + 1 = j + 1 => i = j) /\ (i # 0 => i + 1 # 1)
    OBVIOUS
  <2>4. OneWire'
    <3> SUFFICES ASSUME NEW d \in Conn, NEW e \in Conn, NEW i \in DOMAIN wire'[d], NEW j \in DOMAIN wire'[e],
                        wire'[d][i].type = "open", wire'[e][j].type = "open", wire'[d][i].other = wire'[e][j].other
                 PROVE  d = e /\ i = j
      BY DEF OneWire
    <3>1. CASE d = c /\ e = c
      <4>1. /\ i + 1 \in DOMAIN wire[c] /\ j + 1 \in DOMAIN wire[c] /\ i \in Nat /\ j \in Nat
            /\ wire'[d][i] = wire[c][i + 1] /\ wire'[e][j] = wire[c][j + 1]
        BY <2>3, <3>1
      <4>2. i + 1 = j + 1
        BY <1>0, <4>1 DEF OneWire
      <4> QED
        BY <2>w, <3>1, <4>1, <4>2
    <3>2. CASE d # c /\ e # c
      BY <1>0, <2>3, <3>2 DEF OneWire
    <3>3. CASE d = c /\ e # c
      BY <1>0, <2>3, <3>3 DEF OneWire
    <3>4. CASE d # c /\ e = c
      BY <1>0, <2>3, <3>4 DEF OneWire
    <3> QED
      BY <3>1, <3>2, <3>3, <3>4
  <2>5. ASSUME NEW x \in 1 .. minted.other, AtWire(x)' PROVE AtWire(x) /\ (m.type = "open" => x # m.other)
    <3>1. PICK d \in Conn : \E i \in DOMAIN wire'[d] : wire'[d][i].type = "open" /\ wire'[d][i].other = x
      BY <2>5 DEF AtWire
    <3>2. PICK i \in DOMAIN wire'[d] : wire'[d][i].type = "open" /\ wire'[d][i].other = x
      BY <3>1
    <3>3. CASE d = c
      <4>1. PICK j \in DOMAIN wire[c] : j = i + 1 /\ wire[c][j] = wire'[d][i] /\ j # 1
        BY <2>3, <2>w, <3>3
      <4> QED
        BY <1>0, <2>1, <3>2, <4>1 DEF AtWire, OneWire
    <3>4. CASE d # c
      <4>1. i \in DOMAIN wire[d] /\ wire[d][i] = wire'[d][i]
        BY <2>3, <3>4
      <4> QED
        BY <1>0, <2>1, <3>2, <3>4, <4>1 DEF AtWire, OneWire
    <3> QED
      BY <3>3, <3>4
  <2>6. CASE m.type = "open" /\ returning' = returning /\ held' = [held EXCEPT ![m.node] = [other |-> m.other, val |-> m.val]]
    <3>1. PICK h : h = [other |-> m.other, val |-> m.val] /\ h.other = m.other
      <4>1. [other |-> m.other, val |-> m.val].other = m.other
        OBVIOUS
      <4> QED
        BY <4>1
    <3>2. \A n \in Node : held'[n] = IF n = m.node THEN h ELSE held[n]
      BY <1>0, <2>1, <2>6, <3>1
    <3>3. \A x \in 1 .. minted.other : AtHeld(x)' => AtHeld(x) \/ x = m.other
      BY <3>1, <3>2 DEF AtHeld
    <3>4. m.other \in 1 .. minted.other /\ AtWire(m.other)
      BY <1>0, <2>1, <2>6 DEF AtWire, Places
    <3>5. Apart'
      BY <1>0, <2>2, <2>5, <2>6, <3>3, <3>4 DEF Apart, AtOpen
    <3>6. \A n \in Node : held[n].other # m.other
      BY <1>0, <3>4 DEF Apart, AtHeld
    <3>7. OneHeld'
      BY <1>0, <3>1, <3>2, <3>6 DEF OneHeld
    <3> QED
      BY <1>0, <2>2, <2>4, <3>5, <3>7 DEF Once, OneOpen
  <2>7. CASE m.type # "open" /\ held[m.node].other = m.other /\ returning' = returning \cup {m.other}
             /\ held' = [held EXCEPT ![m.node] = NoHeld]
    <3>1. \A n \in Node : held'[n] = IF n = m.node THEN NoHeld ELSE held[n]
      BY <1>0, <2>7
    <3>2. AtHeld(m.other) /\ m.other \in 1 .. minted.other
      BY <1>0, <2>1, <2>7 DEF AtHeld, Places
    <3>3. \A x \in 1 .. minted.other : AtHeld(x)' => AtHeld(x) /\ x # m.other
      BY <1>0, <1>h, <2>1, <2>7, <3>1 DEF AtHeld, OneHeld
    <3>4. Apart'
      BY <1>0, <2>2, <2>5, <2>7, <3>2, <3>3 DEF Apart, AtOpen
    <3>5. OneHeld'
      BY <1>0, <1>h, <3>1 DEF OneHeld
    <3> QED
      BY <1>0, <2>2, <2>4, <3>4, <3>5 DEF Once, OneOpen
  <2>8. CASE held' = held /\ returning' = returning
    <3>1. Apart'
      BY <1>0, <2>2, <2>5, <2>8 DEF Apart, AtOpen, AtHeld
    <3> QED
      BY <1>0, <2>2, <2>4, <2>8, <3>1 DEF Once, OneOpen, OneHeld
  <2> QED
    BY <2>1, <2>6, <2>7, <2>8
<1>6. ASSUME NEW n \in Node, GiveBack(n) PROVE Once'
  <2>1. /\ held[n] # NoHeld /\ held' = [held EXCEPT ![n] = NoHeld] /\ returning' = returning \cup {held[n].other}
        /\ UNCHANGED <<opens, wire, minted>>
    BY <1>6 DEF GiveBack
  <2>2. PICK y : y = held[n].other
    OBVIOUS
  <2>3. \A m \in Node : held'[m] = IF m = n THEN NoHeld ELSE held[m]
    BY <1>0, <2>1
  <2>4. y # 0 /\ AtHeld(y)
    BY <1>0, <2>1, <2>2 DEF AtHeld, Places
  <2>5. \A x \in 1 .. minted.other : AtHeld(x)' => AtHeld(x) /\ x # y
    BY <1>0, <1>h, <2>2, <2>3, <2>4 DEF AtHeld, OneHeld
  <2>6. Apart'
    BY <1>0, <2>1, <2>2, <2>4, <2>5 DEF Apart, AtOpen, AtWire
  <2>7. OneHeld'
    BY <1>0, <1>h, <2>3 DEF OneHeld
  <2> QED
    BY <1>0, <2>1, <2>6, <2>7 DEF Once, OneOpen, OneWire
<1> QED
  BY <1>1, <1>2, <1>3, <1>4, <1>5, <1>6, Moving, ElsewhereRests

-----------------------------------------------------------------------------
(***************************************************************************)
(* What the client has the server knows, and what it has is fresh.         *)
(***************************************************************************)
\* What the table knows of a stateid that is not on its way back it goes on knowing,
\* or a recall was made, unless the client starts afresh.
LEMMA HasKept ==
    ASSUME IInv, [Next]_vars, ~ ExchangeId, NEW n \in Node, NEW x \in 1 .. minted.other, x \notin returning, Has(n, x)
    PROVE  Has(n, x)'
<1>0. /\ deleg \in [Node -> Delegs] /\ inval \in Seq(Node) /\ Told /\ minted.other \in Nat
      /\ recalls \subseteq Tasks
  BY MintedGrows DEF IInv, Table, Journal, Told
<1>1. recalled \subseteq recalled' /\ swept \subseteq swept'
  BY ToldStep
<1>2. CASE x \in recalled \cup swept
  BY <1>1, <1>2 DEF Has
<1>3. CASE x = deleg[n].other /\ x # 0
  <2>1. ASSUME deleg'[n].other = x PROVE Has(n, x)'
    BY <1>3, <2>1 DEF Has, Others
  <2>2. ASSUME NEW y \in returning, DelegReturn(y) PROVE Has(n, x)'
    <3>1. deleg' = [m \in Node |-> IF deleg[m].other = y THEN NoDeleg ELSE deleg[m]]
      BY <2>2 DEF DelegReturn
    <3>2. deleg'[n] = deleg[n]
      BY <1>3, <3>1
    <3> QED
      BY <1>3, <2>1, <3>2
  <2>3. CASE RecallNode
    <3>1. PICK m \in Node : m = Head(inval)
      BY <1>0, <2>3 DEF RecallNode
    <3>2. deleg' = deleg \/ deleg' = [deleg EXCEPT ![m] = Mark(deleg[m])]
      BY <2>3, <3>1 DEF RecallNode, Mark
    <3>3. deleg'[n] = deleg[n] \/ deleg'[n] = Mark(deleg[n])
      BY <1>0, <3>2
    <3>4. Mark(deleg[n]).other = deleg[n].other
      BY DEF Mark
    <3> QED
      BY <1>3, <2>1, <3>3, <3>4
  <2>4. ASSUME NEW k \in recalls, RevokeUnbound(k) PROVE Has(n, x)'
    <3>1. k.node \in Node /\ k.other \in recalled
      BY <1>0 DEF Told, Tasks
    <3>2. deleg' = [deleg EXCEPT ![k.node] = NoDeleg] /\ swept' = swept \cup (Others(k.node) \ {k.other})
      BY <2>4 DEF RevokeUnbound
    <3>3. CASE n = k.node
      <4>1. x \in recalled \/ x \in swept'
        BY <1>3, <3>1, <3>2, <3>3 DEF Others
      <4> QED
        BY <1>1, <4>1 DEF Has
    <3>4. CASE n # k.node
      BY <1>0, <1>3, <2>1, <3>1, <3>2, <3>4
    <3> QED
      BY <3>3, <3>4
  <2>5. ASSUME NEW k \in recalls, Revoke(k) PROVE Has(n, x)'
    <3>1. k.node \in Node /\ k.other \in recalled
      BY <1>0 DEF Told, Tasks
    <3>2. deleg' = deleg \/ (deleg[k.node].other = k.other /\ deleg' = [deleg EXCEPT ![k.node] = NoDeleg])
      BY <2>5 DEF Revoke
    <3>3. CASE deleg'[n] = deleg[n]
      BY <1>3, <2>1, <3>3
    <3>4. CASE deleg'[n] # deleg[n]
      <4>1. n = k.node /\ deleg[n].other = k.other
        BY <1>0, <3>1, <3>2, <3>4
      <4> QED
        BY <1>1, <1>3, <3>1, <4>1 DEF Has
    <3> QED
      BY <3>3, <3>4
  <2>6. ASSUME NEW o \in opens, OpenOp(o) PROVE Has(n, x)'
    <3>1. CASE deleg' = deleg
      BY <1>3, <2>1, <3>1
    <3>2. CASE deleg' # deleg
      <4>1. /\ o.node \in Node /\ Grantable(o.node)
            /\ deleg' = [deleg EXCEPT ![o.node] = [other |-> minted.other + 1, recalling |-> FALSE]]
        BY <2>6, <3>2, OpenOpEffect
      <4>2. deleg[o.node].other = 0
        BY <4>1 DEF Grantable, NoDeleg
      <4>3. deleg'[n] = deleg[n]
        BY <1>0, <1>3, <4>1, <4>2
      <4> QED
        BY <1>3, <2>1, <4>3
    <3> QED
      BY <3>1, <3>2
  <2>7. CASE \/ \E m \in Node : Announce(m) \/ Reseed(m) \/ SendOpen(m) \/ GiveBack(m)
             \/ \E c \in Conn : Connect(c) \/ Break(c) \/ Eof(c) \/ Receive(c)
             \/ Apply \/ CreateSession \/ DestroySession \/ UNCHANGED vars
             \/ \E o \in opens : OpenBadSession(o) \/ GetAttr(o) \/ WriteReply(o)
             \/ \E k \in recalls : SendRecall(k)
    <3>1. deleg' = deleg
      BY <2>7 DEF Announce, Reseed, SendOpen, GiveBack, Connect, Break, Eof, Receive, Apply, CreateSession,
         DestroySession, vars, srvvars, OpenBadSession, GetAttr, WriteReply, SendRecall
    <3> QED
      BY <1>3, <2>1, <3>1
  <2> QED
    BY <2>2, <2>3, <2>4, <2>5, <2>6, <2>7 DEF Next, Serve, Recall
<1> QED
  BY <1>2, <1>3 DEF Has, Others


\* A connection an OPEN came on does not come up again.
LEMMA UpStays ==
    ASSUME IInv, [Next]_vars, NEW o \in opens, conn'[o.conn] = "up"
    PROVE  conn[o.conn] = "up"
<1>1. o.conn \in Conn /\ conn[o.conn] # "new" /\ conn \in [Conn -> Links]
  BY DEF IInv, Linked, Places, Compounds
<1>2. \/ \E c \in Conn : conn[c] = "new" /\ conn' = [conn EXCEPT ![c] = "up"]
      \/ \E c \in Conn : conn' = [conn EXCEPT ![c] = "broken"] \/ conn' = [conn EXCEPT ![c] = "closed"]
      \/ conn' = conn
  <2>1. CASE \E c \in Conn : Connect(c) \/ Break(c) \/ Eof(c)
    BY <2>1 DEF Connect, Break, Eof
  <2>2. CASE ~ \E c \in Conn : Connect(c) \/ Break(c) \/ Eof(c)
    BY <2>2 DEF Next, Serve, Recall, Announce, Reseed, SendOpen, GiveBack, Apply, Receive, ExchangeId, CreateSession,
       DestroySession, OpenOp, OpenBadSession, GetAttr, WriteReply, DelegReturn, RecallNode, RevokeUnbound, SendRecall,
       Revoke, vars
  <2> QED
    BY <2>1, <2>2
<1> QED
  BY <1>1, <1>2

\* What a step adds to what travels is granted in it, or says what the replica has.
LEMMA Travels ==
    ASSUME IInv, [Next]_vars, NEW n \in Node, NEW x \in Nat, NEW v \in Nat
    PROVE  /\ OpenHas(n, x)' => OpenHas(n, x) \/ deleg'[n].other = x
           /\ WireHas(n, x)' => WireHas(n, x) \/ OpenHas(n, x)
           /\ HeldHas(n, x)' => HeldHas(n, x) \/ WireHas(n, x)
           /\ OpenSays(n, x, v)' => OpenSays(n, x, v) \/ (v = ver[n] /\ ver' = ver)
           /\ WireSays(n, x, v)' => WireSays(n, x, v) \/ OpenSays(n, x, v)
           /\ HeldSays(n, x, v)' => HeldSays(n, x, v) \/ WireSays(n, x, v)
<1>0. /\ opens \subseteq Compounds /\ wire \in [Conn -> Seq(Msgs)] /\ held \in [Node -> Helds]
      /\ deleg \in [Node -> Delegs]
  BY DEF IInv, Places, Table
<1>1. CASE Elsewhere
  <2>1. OpensKeep /\ WireKeeps /\ HeldKeeps
    BY <1>1, ElsewhereRests DEF Rests
  <2>2. OpenHas(n, x)' => OpenHas(n, x)
    BY <2>1, UpStays DEF OpenHas, OpensKeep
  <2>3. OpenSays(n, x, v)' => OpenSays(n, x, v)
    BY <2>1 DEF OpenSays, OpensKeep, Granted
  <2>4. (WireHas(n, x)' => WireHas(n, x)) /\ (WireSays(n, x, v)' => WireSays(n, x, v))
    BY <2>1 DEF WireHas, WireSays, WireKeeps
  <2>5. (HeldHas(n, x)' => HeldHas(n, x)) /\ (HeldSays(n, x, v)' => HeldSays(n, x, v))
    BY <2>1 DEF HeldHas, HeldSays, HeldKeeps
  <2> QED
    BY <2>2, <2>3, <2>4, <2>5
<1>2. ASSUME NEW o \in opens, OpenOp(o), Grants(o.node)
      PROVE  /\ OpenHas(n, x)' => OpenHas(n, x) \/ deleg'[n].other = x
             /\ OpenSays(n, x, v)' => OpenSays(n, x, v)
             /\ UNCHANGED <<wire, held>>
  <2>0. minted' # minted /\ UNCHANGED <<wire, held>>
    BY <1>2, MintedGrows DEF Grants, OpenOp, clvars
  <2>1. PICK p \in Compounds : /\ opens' = (opens \ {o}) \cup {p} /\ p.node = o.node /\ p.pc = "attr"
                               /\ p.other = minted.other + 1 /\ o.node \in Node
                               /\ deleg' = [deleg EXCEPT ![o.node] = [other |-> minted.other + 1, recalling |-> FALSE]]
    BY <1>2, <2>0, OpenOpEffect
  <2>2. deleg'[o.node].other = p.other
    BY <1>0, <2>1
  <2>3. OpenHas(n, x)' => OpenHas(n, x) \/ deleg'[n].other = x
    BY <2>1, <2>2, UpStays DEF OpenHas
  <2>4. OpenSays(n, x, v)' => OpenSays(n, x, v)
    BY <2>1 DEF OpenSays
  <2> QED
    BY <2>0, <2>3, <2>4
<1>3. ASSUME NEW o \in opens, GetAttr(o)
      PROVE  /\ OpenHas(n, x)' => OpenHas(n, x)
             /\ OpenSays(n, x, v)' => OpenSays(n, x, v) \/ (v = ver[n] /\ ver' = ver)
             /\ UNCHANGED <<wire, held>>
  <2>1. PICK p \in Compounds : /\ opens' = (opens \ {o}) \cup {p} /\ p.conn = o.conn /\ p.node = o.node
                               /\ p.other = o.other /\ p.val = ver[o.node] /\ p.pc = "reply"
    BY <1>3, GetAttrEffect
  <2>2. UNCHANGED <<wire, held, ver, conn>> /\ Granted(o)
    BY <1>3 DEF GetAttr, clvars, Granted
  <2>3. OpenHas(n, x)' => OpenHas(n, x)
    BY <2>1, <2>2 DEF OpenHas
  <2>4. OpenSays(n, x, v)' => OpenSays(n, x, v) \/ v = ver[n]
    BY <2>1 DEF OpenSays
  <2> QED
    BY <2>2, <2>3, <2>4
<1>4. ASSUME NEW o \in opens, WriteReply(o)
      PROVE  /\ OpenHas(n, x)' => OpenHas(n, x)
             /\ OpenSays(n, x, v)' => OpenSays(n, x, v)
             /\ WireHas(n, x)' => WireHas(n, x) \/ OpenHas(n, x)
             /\ WireSays(n, x, v)' => WireSays(n, x, v) \/ OpenSays(n, x, v)
             /\ UNCHANGED held
  <2>1. /\ o.pc = "reply" /\ opens' = opens \ {o} /\ o.conn \in Conn /\ UNCHANGED <<held, conn>> /\ Granted(o)
    BY <1>4, WriteReplyEffect DEF WriteReply, clvars, Granted
  <2>2. (OpenHas(n, x)' => OpenHas(n, x)) /\ (OpenSays(n, x, v)' => OpenSays(n, x, v))
    BY <2>1 DEF OpenHas, OpenSays
  <2>3. CASE wire' = wire
    BY <2>1, <2>2, <2>3 DEF WireHas, WireSays
  <2>4. ASSUME NEW m \in Msgs, conn[o.conn] = "up", wire' = [wire EXCEPT ![o.conn] = Append(@, m)],
               m.type = "open", m.node = o.node, m.other = o.other, m.val = o.val
        PROVE  /\ WireHas(n, x)' => WireHas(n, x) \/ OpenHas(n, x)
               /\ WireSays(n, x, v)' => WireSays(n, x, v) \/ OpenSays(n, x, v)
    <3>1. \A d \in Conn : \A i \in DOMAIN wire'[d] :
             (i \in DOMAIN wire[d] /\ wire'[d][i] = wire[d][i]) \/ wire'[d][i] = m
      BY <1>0, <2>1, <2>4, Appended
    <3>2. WireHas(n, x)' => WireHas(n, x) \/ OpenHas(n, x)
      BY <2>1, <2>4, <3>1 DEF WireHas, OpenHas
    <3>3. WireSays(n, x, v)' => WireSays(n, x, v) \/ OpenSays(n, x, v)
      BY <2>1, <2>4, <3>1 DEF WireSays, OpenSays
    <3> QED
      BY <3>2, <3>3
  <2> QED
    BY <1>4, <2>1, <2>2, <2>3, <2>4, WriteReplyEffect
<1>5. ASSUME NEW c \in Conn, Receive(c)
      PROVE  /\ UNCHANGED <<opens, conn>>
             /\ WireHas(n, x)' => WireHas(n, x)
             /\ WireSays(n, x, v)' => WireSays(n, x, v)
             /\ HeldHas(n, x)' => HeldHas(n, x) \/ WireHas(n, x)
             /\ HeldSays(n, x, v)' => HeldSays(n, x, v) \/ WireSays(n, x, v)
  <2>1. wire[c] # <<>> /\ wire' = [wire EXCEPT ![c] = Tail(@)] /\ UNCHANGED <<opens, conn>>
    BY <1>5, ReceiveEffect
  <2>2. /\ \A d \in Conn : d # c => wire'[d] = wire[d]
        /\ \A i \in DOMAIN wire'[c] : i + 1 \in DOMAIN wire[c] /\ wire'[c][i] = wire[c][i + 1]
    BY <1>0, <2>1, Tailed
  <2>3. \A d \in Conn : \A i \in DOMAIN wire'[d] : \E j \in DOMAIN wire[d] : wire'[d][i] = wire[d][j]
    BY <2>2
  <2>4. (WireHas(n, x)' => WireHas(n, x)) /\ (WireSays(n, x, v)' => WireSays(n, x, v))
    BY <2>3 DEF WireHas, WireSays
  <2>5. PICK m \in Msgs :
                /\ m = wire[c][1] /\ 1 \in DOMAIN wire[c] /\ m.node \in Node
                /\ \/ m.type = "open" /\ held' = [held EXCEPT ![m.node] = [other |-> m.other, val |-> m.val]]
                   \/ held' = [held EXCEPT ![m.node] = NoHeld]
                   \/ held' = held
    BY <1>5, ReceiveEffect
  <2>6. CASE held'[n] = held[n] \/ held'[n] = NoHeld
    BY <2>1, <2>4, <2>6 DEF HeldHas, HeldSays
  <2>7. CASE m.type = "open" /\ n = m.node /\ held'[n] = [other |-> m.other, val |-> m.val]
    <3>1. held'[n].other = m.other /\ held'[n].val = m.val
      BY <2>7
    <3>2. (HeldHas(n, x)' => WireHas(n, x)) /\ (HeldSays(n, x, v)' => WireSays(n, x, v))
      BY <2>5, <2>7, <3>1 DEF HeldHas, HeldSays, WireHas, WireSays
    <3> QED
      BY <2>1, <2>4, <3>2
  <2> QED
    BY <1>0, <2>5, <2>6, <2>7
<1>6. ASSUME NEW m \in Node, GiveBack(m)
      PROVE  /\ UNCHANGED <<opens, conn, wire>>
             /\ HeldHas(n, x)' => HeldHas(n, x)
             /\ HeldSays(n, x, v)' => HeldSays(n, x, v)
  <2>1. UNCHANGED <<opens, conn, wire>> /\ held' = [held EXCEPT ![m] = NoHeld]
    BY <1>6 DEF GiveBack
  <2>2. held'[n] = held[n] \/ held'[n] = NoHeld
    BY <1>0, <2>1
  <2> QED
    BY <2>1, <2>2 DEF HeldHas, HeldSays
<1>7. ASSUME UNCHANGED <<wire>> PROVE (WireHas(n, x)' => WireHas(n, x)) /\ (WireSays(n, x, v)' => WireSays(n, x, v))
  BY <1>7 DEF WireHas, WireSays
<1>8. ASSUME UNCHANGED <<held>> PROVE (HeldHas(n, x)' => HeldHas(n, x)) /\ (HeldSays(n, x, v)' => HeldSays(n, x, v))
  BY <1>8 DEF HeldHas, HeldSays
<1>9. ASSUME UNCHANGED <<opens, conn>> PROVE (OpenHas(n, x)' => OpenHas(n, x)) /\ (OpenSays(n, x, v)' => OpenSays(n, x, v))
  BY <1>9 DEF OpenHas, OpenSays
<1> QED
  <2>1. CASE \E o \in opens : (OpenOp(o) /\ Grants(o.node)) \/ GetAttr(o) \/ WriteReply(o)
    BY <1>2, <1>3, <1>4, <1>7, <1>8, <2>1
  <2>2. CASE (\E c \in Conn : Receive(c)) \/ (\E m \in Node : GiveBack(m))
    BY <1>5, <1>6, <1>7, <1>9, <2>2
  <2> QED
    BY <1>1, <2>1, <2>2, Moving

\* A stateid that travels was handed out, and is not on its way back.
LEMMA OutIsOut ==
    ASSUME IInv, [Next]_vars, NEW n \in Node, NEW x \in 1 .. minted'.other, OpenHas(n, x) \/ WireHas(n, x) \/ HeldHas(n, x)
    PROVE  x \in 1 .. minted.other /\ x \notin returning
<1>0. minted.other \in Nat /\ Places /\ Apart /\ held \in [Node -> Helds]
  BY MintedGrows DEF IInv, Once, Places
<1>1. CASE OpenHas(n, x)
  BY <1>0, <1>1 DEF OpenHas, Places, Apart, AtOpen
<1>2. CASE WireHas(n, x)
  BY <1>0, <1>2 DEF WireHas, Places, Apart, AtWire
<1>3. CASE HeldHas(n, x)
  <2>1. x \in Nat /\ x # 0 /\ x <= minted.other
    BY <1>0, <1>3, MintedGrows DEF HeldHas, Places
  <2> QED
    BY <1>0, <1>3, <2>1 DEF HeldHas, Apart, AtHeld
<1> QED
  BY <1>1, <1>2, <1>3

\* What the client is told of or believes in the server knows.
LEMMA KnownStep ==
    ASSUME IInv, [Next]_vars
    PROVE  Known'
<1>0. minted'.other \in Nat /\ minted.other \in Nat /\ minted.other <= minted'.other
  BY MintedGrows
<1> SUFFICES ASSUME NEW n \in Node, NEW x \in 1 .. minted'.other, OpenHas(n, x)' \/ WireHas(n, x)' \/ HeldHas(n, x)'
             PROVE  Has(n, x)'
  BY DEF Known
<1>1. CASE deleg'[n].other = x
  BY <1>0, <1>1 DEF Has, Others
<1>2. CASE deleg'[n].other # x
  <2>1. OpenHas(n, x) \/ WireHas(n, x) \/ HeldHas(n, x)
    BY <1>0, <1>2, Travels
  <2>2. x \in 1 .. minted.other /\ x \notin returning
    BY <2>1, OutIsOut
  <2>3. Has(n, x)
    BY <2>1, <2>2 DEF IInv, Known
  <2>4. CASE ExchangeId
    <3>1. /\ cl.conn # None /\ wire[cl.conn] = <<>> /\ (\A o \in opens : o.conn # cl.conn)
          /\ held' = [m \in Node |-> NoHeld] /\ UNCHANGED <<opens, wire, conn>>
      BY <2>4 DEF ExchangeId
    <3>2. \A c \in Conn : wire[c] = <<>>
      BY <3>1 DEF IInv, Linked
    <3>3. ~ OpenHas(n, x)'
      BY <3>1 DEF OpenHas, IInv, Linked, Places, Compounds
    <3>4. ~ WireHas(n, x)'
      <4>1. \A c \in Conn : DOMAIN wire'[c] = {}
        BY <3>1, <3>2
      <4> QED
        BY <4>1 DEF WireHas
    <3>5. ~ HeldHas(n, x)'
      BY <3>1 DEF HeldHas
    <3> QED
      BY <3>3, <3>4, <3>5
  <2>5. CASE ~ ExchangeId
    BY <2>2, <2>3, <2>5, HasKept
  <2> QED
    BY <2>4, <2>5
<1> QED
  BY <1>1, <1>2

\* What makes a value valid, apart from the value itself, lasts: the stateid is gone
\* for good, a recall goes on, a change that was missed stays missed, and an
\* announcement ends in a recall or is lost and counted.
LEMMA ExcusedKept ==
    ASSUME IInv, [Next]_vars, NEW n \in Node, NEW x \in 1 .. minted.other, NEW v \in Nat,
           deleg[n].other # x \/ deleg[n].recalling \/ x \in missed \/ \E i \in DOMAIN inval : inval[i] = n
    PROVE  Valid(n, x, v)'
<1>0. /\ deleg \in [Node -> Delegs] /\ minted.other \in Nat /\ inval \in Seq(Node) /\ Len(inval) <= INVAL_CAP
      /\ NoDeleg.other = 0 /\ NoDeleg.recalling = FALSE
  BY MintedGrows DEF IInv, Table, Journal, NoDeleg
<1>1. (\A m \in Node : Stays(m)) \/ (\E o \in opens : OpenOp(o) /\ Grants(o.node))
  BY DelegStep
<1>m. Mark(deleg[n]).other = deleg[n].other /\ Mark(deleg[n]).recalling = TRUE
  BY DEF Mark
<1>g. ASSUME NEW o \in opens, OpenOp(o), Grants(o.node)
      PROVE  /\ o.node = n => deleg[n] = NoDeleg /\ deleg'[n].other = minted.other + 1
             /\ o.node # n => deleg'[n] = deleg[n]
             /\ UNCHANGED <<missed, inval>>
  <2>1. o.node \in Node
    BY <1>g, OpenOpEffect
  <2> QED
    BY <1>0, <1>g, <2>1 DEF Grants, Grantable, OpenOp, hist
<1>2. CASE deleg[n].other # x
  <2>1. deleg'[n].other # x
    BY <1>0, <1>1, <1>2, <1>m, <1>g DEF Stays
  <2> QED
    BY <2>1 DEF Valid
<1>3. CASE deleg[n].other = x /\ deleg[n].recalling
  <2>1. deleg'[n].recalling \/ deleg'[n].other # x
    BY <1>0, <1>1, <1>3, <1>m, <1>g DEF Stays
  <2> QED
    BY <2>1 DEF Valid
<1>4. CASE x \in missed
  <2>1. x \in missed'
    <3>1. CASE \/ \E m \in Node : Announce(m) \/ Reseed(m)
               \/ Apply
      BY <1>4, <3>1 DEF Announce, Reseed, Apply
    <3>2. CASE ~ \/ \E m \in Node : Announce(m) \/ Reseed(m)
                 \/ Apply
      BY <1>4, <3>2 DEF Next, Serve, Recall, SendOpen, GiveBack, Connect, Break, Eof, Receive, ExchangeId, CreateSession,
         DestroySession, OpenOp, OpenBadSession, GetAttr, WriteReply, DelegReturn, RecallNode, RevokeUnbound, SendRecall,
         Revoke, vars, hist
    <3> QED
      BY <3>1, <3>2
  <2> QED
    BY <2>1 DEF Valid
<1>5. CASE deleg[n].other = x /\ \E i \in DOMAIN inval : inval[i] = n
  <2>0. PICK i \in DOMAIN inval : inval[i] = n
    BY <1>5
  <2>d. DOMAIN inval = 1 .. Len(inval) /\ Len(inval) \in Nat /\ inval # <<>> /\ i \in 1 .. Len(inval)
    BY <1>0, <2>0
  <2>h. Head(inval) = inval[1] /\ Tail(inval) \in Seq(Node) /\ Len(Tail(inval)) = Len(inval) - 1
        /\ \A j \in 1 .. Len(inval) - 1 : Tail(inval)[j] = inval[j + 1]
    BY <1>0, <2>d
  <2>t. ASSUME i # 1 PROVE i - 1 \in 1 .. Len(inval) - 1 /\ Tail(inval)[i - 1] = n
    BY <2>0, <2>d, <2>h, <2>t
  <2>a. ASSUME NEW s \in Seq(Node), NEW m \in Node, NEW j \in 1 .. Len(s), s[j] = n
        PROVE  \E l \in DOMAIN Append(s, m) : Append(s, m)[l] = n
    <3>1. j \in DOMAIN Append(s, m) /\ Append(s, m)[j] = s[j]
      OBVIOUS
    <3> QED
      BY <2>a, <3>1
  <2>1. ASSUME NEW m \in Node, Announce(m) PROVE Valid(n, x, v)'
    <3>1. CASE Len(inval) >= INVAL_CAP
      <4>1. inval' = Append(Tail(inval), m) /\ missed' = missed \cup Others(Head(inval))
        BY <2>1, <3>1 DEF Announce
      <4>2. CASE i = 1
        <5>1. x \in missed'
          BY <1>0, <1>5, <2>0, <2>h, <4>1, <4>2 DEF Others
        <5> QED
          BY <5>1 DEF Valid
      <4>3. CASE i # 1
        <5>1. \E l \in DOMAIN inval' : inval'[l] = n
          BY <2>a, <2>h, <2>t, <4>1, <4>3
        <5> QED
          BY <5>1 DEF Valid
      <4> QED
        BY <4>2, <4>3
    <3>2. CASE ~(Len(inval) >= INVAL_CAP)
      <4>1. inval' = Append(inval, m)
        BY <2>1, <3>2 DEF Announce
      <4>2. \E l \in DOMAIN inval' : inval'[l] = n
        BY <1>0, <2>0, <2>a, <2>d, <4>1
      <4> QED
        BY <4>2 DEF Valid
    <3> QED
      BY <3>1, <3>2
  <2>2. CASE RecallNode
    <3>1. inval' = Tail(inval)
      BY <2>2 DEF RecallNode
    <3>2. CASE i = 1
      <4>1. Head(inval) = n
        BY <2>0, <2>h, <3>2
      <4>2. \/ deleg[n] = NoDeleg \/ (deleg[n].recalling /\ deleg' = deleg)
            \/ deleg' = [deleg EXCEPT ![n] = Mark(deleg[n])]
        BY <2>2, <4>1 DEF RecallNode, Mark
      <4>3. deleg[n] # NoDeleg
        BY <1>0, <1>5
      <4>4. deleg'[n].recalling
        BY <1>0, <1>m, <4>2, <4>3
      <4> QED
        BY <4>4 DEF Valid
    <3>3. CASE i # 1
      <4>1. i - 1 \in DOMAIN inval' /\ inval'[i - 1] = n
        BY <2>h, <2>t, <3>1, <3>3
      <4> QED
        BY <4>1 DEF Valid
    <3> QED
      BY <3>2, <3>3
  <2>3. CASE ~ RecallNode /\ ~ \E m \in Node : Announce(m)
    <3>1. inval' = inval
      BY <2>3 DEF Next, Serve, Recall, Reseed, SendOpen, GiveBack, Apply, Connect, Break, Eof, Receive, ExchangeId,
         CreateSession, DestroySession, OpenOp, OpenBadSession, GetAttr, WriteReply, DelegReturn, RevokeUnbound,
         SendRecall, Revoke, vars
    <3> QED
      BY <2>0, <3>1 DEF Valid
  <2> QED
    BY <2>1, <2>2, <2>3
<1> QED
  BY <1>2, <1>3, <1>4, <1>5

\* A value that is the replica's stays valid: a change of the node is announced before it
\* is applied, or counted as missed.
LEMMA ValidKept ==
    ASSUME IInv, [Next]_vars, NEW n \in Node, NEW x \in 1 .. minted.other, NEW v \in Nat, Valid(n, x, v)
    PROVE  Valid(n, x, v)'
<1>0. /\ ver \in [Node -> Nat] /\ rec \in Node \cup {None} /\ inval \in Seq(Node) /\ DOMAIN inval = 1 .. Len(inval)
      /\ minted.other \in Nat
  BY MintedGrows DEF IInv, Journal
<1>1. CASE deleg[n].other # x \/ deleg[n].recalling \/ x \in missed \/ \E i \in DOMAIN inval : inval[i] = n
  BY <1>1, ExcusedKept
<1>2. CASE v = ver[n] /\ ~(deleg[n].other # x \/ deleg[n].recalling \/ \E i \in DOMAIN inval : inval[i] = n)
  <2>1. ASSUME ver'[n] = ver[n] PROVE Valid(n, x, v)'
    BY <1>2, <2>1 DEF Valid
  <2>2. ASSUME x \in missed' PROVE Valid(n, x, v)'
    BY <2>2 DEF Valid
  <2>3. x \in Others(n)
    BY <1>0, <1>2 DEF Others
  <2>4. CASE Apply
    <3>1. rec \in Node /\ ver' = [ver EXCEPT ![rec] = @ + 1]
      BY <1>0, <2>4 DEF Apply
    <3>2. CASE rec = n
      <4>1. missed' = missed \cup Others(n)
        BY <1>0, <1>2, <2>4, <3>2 DEF Apply, Contains
      <4> QED
        BY <2>2, <2>3, <4>1
    <3>3. CASE rec # n
      BY <1>0, <2>1, <3>1, <3>3
    <3> QED
      BY <3>2, <3>3
  <2>5. ASSUME NEW m \in Node, Reseed(m) PROVE Valid(n, x, v)'
    <3>1. ver' = [ver EXCEPT ![m] = @ + 1] /\ missed' = missed \cup Others(m)
      BY <2>5 DEF Reseed
    <3> QED
      BY <1>0, <2>1, <2>2, <2>3, <3>1
  <2>6. CASE ~ Apply /\ ~ \E m \in Node : Reseed(m)
    <3>1. ver' = ver
      BY <2>6 DEF Next, Serve, Recall, Announce, SendOpen, GiveBack, Connect, Break, Eof, Receive, ExchangeId,
         CreateSession, DestroySession, OpenOp, OpenBadSession, GetAttr, WriteReply, DelegReturn, RecallNode,
         RevokeUnbound, SendRecall, Revoke, vars
    <3> QED
      BY <2>1, <3>1
  <2> QED
    BY <2>4, <2>5, <2>6
<1> QED
  BY <1>1, <1>2 DEF Valid

\* A value that travels belongs to a grant that was handed out.
LEMMA SaidIsOut ==
    ASSUME IInv, [Next]_vars, NEW n \in Node, NEW x \in 1 .. minted'.other, NEW v \in Nat,
           OpenSays(n, x, v) \/ WireSays(n, x, v) \/ HeldSays(n, x, v)
    PROVE  x \in 1 .. minted.other
<1>0. minted.other \in Nat /\ Places
  BY MintedGrows DEF IInv
<1>1. CASE OpenSays(n, x, v)
  BY <1>0, <1>1 DEF OpenSays, Places, Granted
<1>2. CASE WireSays(n, x, v)
  BY <1>0, <1>2 DEF WireSays, Places
<1>3. CASE HeldSays(n, x, v)
  BY <1>3, OutIsOut DEF HeldSays, HeldHas
<1> QED
  BY <1>1, <1>2, <1>3

\* What came with a grant stays valid, wherever it is.
LEMMA FreshStep ==
    ASSUME IInv, [Next]_vars
    PROVE  Fresh'
<1>0. minted'.other \in Nat /\ minted.other \in Nat /\ minted.other <= minted'.other
  BY MintedGrows
<1> SUFFICES ASSUME NEW n \in Node, NEW x \in 1 .. minted'.other, NEW v \in Nat,
                    OpenSays(n, x, v)' \/ WireSays(n, x, v)' \/ HeldSays(n, x, v)'
             PROVE  Valid(n, x, v)'
  BY DEF Fresh
<1>1. CASE v = ver[n] /\ ver' = ver
  BY <1>1 DEF Valid
<1>2. CASE ~(v = ver[n] /\ ver' = ver)
  <2>1. OpenSays(n, x, v) \/ WireSays(n, x, v) \/ HeldSays(n, x, v)
    BY <1>0, <1>2, Travels
  <2>2. x \in 1 .. minted.other
    BY <2>1, SaidIsOut
  <2>3. Valid(n, x, v)
    BY <2>1, <2>2 DEF IInv, Fresh
  <2> QED
    BY <2>2, <2>3, ValidKept
<1> QED
  BY <1>1, <1>2

-----------------------------------------------------------------------------
(***************************************************************************)
(* The theorems.                                                           *)
(***************************************************************************)
\* Nothing is delegated at the start.
LEMMA InitIInv == Init => IInv
<1> SUFFICES ASSUME Init PROVE IInv
  OBVIOUS
<1>0. minted \in Mints /\ minted.change = 0 /\ minted.session = 0 /\ minted.other = 0
  BY DelegationsAssumption DEF Init, Mints
<1>e. <<>> \in Seq(Node) /\ Len(<<>>) = 0 /\ <<>> \in Seq(Msgs) /\ DOMAIN <<>> = {}
  OBVIOUS
<1>1. Journal
  BY <1>0, <1>e, DelegationsAssumption DEF Init, Journal
<1>2. Server
  BY <1>0, <1>e DEF Init, Server
<1>3. Linked
  BY <1>0, DelegationsAssumption DEF Init, Linked, Links, NoSession
<1>4. Table
  <2>1. {n \in Node : deleg[n] # NoDeleg} = {} /\ Cardinality({}) = 0
    BY FS_EmptySet DEF Init
  <2>2. Cardinality({n \in Node : deleg[n] # NoDeleg}) <= DELEG_CAP
    BY <2>1, DelegationsAssumption
  <2>3. NoDeleg \in Delegs /\ NoDeleg.other = 0
    BY DEF NoDeleg, Delegs
  <2>4. deleg \in [Node -> Delegs] /\ \A n \in Node : deleg[n] = NoDeleg
    BY <2>3 DEF Init
  <2> QED
    BY <1>0, <2>2, <2>3, <2>4 DEF Table
<1>h. held \in [Node -> Helds] /\ (\A n \in Node : held[n] = NoHeld) /\ NoHeld.other = 0
  <2>1. NoHeld \in Helds /\ NoHeld.other = 0
    BY DEF NoHeld, Helds
  <2> QED
    BY <2>1 DEF Init
<1>w. wire \in [Conn -> Seq(Msgs)] /\ (\A c \in Conn : DOMAIN wire[c] = {}) /\ opens = {} /\ returning = {}
  BY <1>e DEF Init
<1>5. Places
  BY <1>0, <1>h, <1>w DEF Places
<1>6. Told
  BY DEF Init, Told
<1>7. Once
  BY <1>0, <1>h, <1>w DEF Once, Apart, OneOpen, OneWire, OneHeld
<1>8. Known /\ Fresh
  BY <1>0 DEF Known, Fresh
<1> QED
  BY <1>1, <1>2, <1>3, <1>4, <1>5, <1>6, <1>7, <1>8 DEF IInv

\* Every step keeps the inductive invariant.
LEMMA NextIInv == IInv /\ [Next]_vars => IInv'
BY JournalStep, ServerStep, LinkedStep, TableStep, PlacesStep, ToldStep, OnceStep, KnownStep, FreshStep DEF IInv

\* It holds in every state.
LEMMA Invariance == Spec => []IInv
BY InitIInv, NextIInv, PTL DEF Spec

\* Every variable keeps its type, a session is bound to a connection that has carried
\* it, and the cap on delegations holds (maybe_grant_delegation, op_sequence).
THEOREM TypeCorrect == Spec => []TypeOK
<1>1. ASSUME IInv PROVE TypeOK
  <2>0. minted.change \in 0 .. MaxChange /\ minted.session \in Nat /\ minted.other \in Nat
    BY <1>1, Minted DEF IInv, Journal
  <2>1. ver \in [Node -> 0 .. MaxChange]
    BY <1>1, <2>0, DelegationsAssumption DEF IInv, Journal
  <2>2. \A n \in Node : deleg[n].other \in 0 .. minted.other /\ deleg[n].recalling \in BOOLEAN
    BY <1>1, <2>0 DEF IInv, Table, Delegs
  <2>3. \A k \in recalls : k.node \in Node /\ k.pc \in {"send", "wait", "revoke"}
    BY <1>1 DEF IInv, Told, Tasks
  <2>4. \A o \in opens : o.node \in Node /\ o.pc \in {"call", "attr", "reply"}
    BY <1>1 DEF IInv, Places, Compounds
  <2>5. cl.sid \in 0 .. minted.session /\ cl.conn \in Conn \cup {None}
    BY <1>1, <2>0 DEF IInv, Linked
  <2>6. \A n \in Node : held[n].other \in 0 .. minted.other
    BY <1>1, <2>0 DEF IInv, Places, Helds
  <2>7. /\ rec \in Node \cup {None} /\ inval \in Seq(Node) /\ Len(inval) <= INVAL_CAP
        /\ sessions \subseteq 1 .. minted.session /\ DOMAIN bc \subseteq 1 .. minted.session
        /\ (\A s \in DOMAIN bc : s \in bound[bc[s]]) /\ bound \in [Conn -> SUBSET (1 .. minted.session)]
        /\ conn \in [Conn -> {"new", "up", "broken", "closed"}]
        /\ Cardinality({n \in Node : deleg[n] # NoDeleg}) <= DELEG_CAP
    BY <1>1 DEF IInv, Journal, Server, Linked, Links, Table
  <2> QED
    BY <2>1, <2>2, <2>3, <2>4, <2>5, <2>6, <2>7 DEF TypeOK
<1> QED
  BY <1>1, Invariance, PTL

\* A delegation the client believes in is in the table under its stateid, or was
\* recalled, or swept away: a late DELEGRETURN or the deadline of an old recall takes
\* no new delegation (delegreturn, send_cb_recall).
THEOREM HolderIsKnown == Spec => []HeldIsKnown
<1>1. ASSUME IInv PROVE HeldIsKnown
  <2> SUFFICES ASSUME NEW n \in Node, held[n] # NoHeld PROVE held[n].other \in Others(n) \cup recalled \cup swept
    BY DEF HeldIsKnown
  <2>1. minted.other \in Nat /\ held[n].other \in Nat
    BY <1>1, Minted DEF IInv, Journal, Places, Helds
  <2>2. PICK x \in 1 .. minted.other : x = held[n].other
    BY <1>1, <2>1 DEF IInv, Places
  <2>3. HeldHas(n, x)
    BY <2>2 DEF HeldHas
  <2> QED
    BY <1>1, <2>2, <2>3 DEF IInv, Known, Has
<1> QED
  BY <1>1, Invariance, PTL

\* Once everything announced, recalled and answered has been dealt with, what the holder
\* of a delegation keeps is what the replica has, unless a change passed it by
\* (on_journal, recall_node, maybe_grant_delegation).
THEOREM HolderIsCoherent == Spec => []Coherent
<1>1. ASSUME IInv PROVE Coherent
  <2> SUFFICES ASSUME Quiescent, NEW n \in Node, held[n] # NoHeld, held[n].other \in Others(n), ~ deleg[n].recalling,
                      held[n].other \notin missed
               PROVE  held[n].val = ver[n]
    BY DEF Coherent
  <2>1. minted.other \in Nat /\ held[n].other \in Nat /\ held[n].val \in Nat
    BY <1>1, Minted DEF IInv, Journal, Places, Helds
  <2>2. PICK x \in 1 .. minted.other, v \in Nat : x = held[n].other /\ v = held[n].val
    BY <1>1, <2>1 DEF IInv, Places
  <2>3. HeldSays(n, x, v)
    BY <2>2 DEF HeldSays
  <2>4. Valid(n, x, v)
    BY <1>1, <2>3 DEF IInv, Fresh
  <2>5. DOMAIN inval = {}
    BY DEF Quiescent
  <2> QED
    BY <2>2, <2>4, <2>5 DEF Valid, Others
<1> QED
  BY <1>1, Invariance, PTL

=============================================================================
