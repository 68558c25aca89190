--------------------------- MODULE SessionsProofs ---------------------------
(***************************************************************************)
(* What holds of the slots, the opens and the client for any number of     *)
(* slots, requests and faults: a request is run once, its answers agree,   *)
(* and the open the client holds is open.                                  *)
(*                                                                         *)
(* The first half is about the slots alone, whatever the client sends: as  *)
(* long as no request arrived while it was running, a slot has at most one *)
(* compound under way, the one after its sequence id, and what was run is  *)
(* at most that.  The second half adds the client: which session is the    *)
(* client's, that its sequence ids are those of the slots or one ahead,    *)
(* and what its one stateful request will make of the open it holds.       *)
(***************************************************************************)
EXTENDS Sessions, FiniteSetTheorems, TLAPS

AnyId    == Ids \cup {NoId}
Answers  == [top : Status \cup OwnErrors, status : Status \cup OwnErrors, id : AnyId, access : Access]
Tags     == [sess : Nat, slot : Slot, seqid : Nat]
Runs     == [req : Requests, pc : {"eval", "end"}, res : Results]
Replies  == [req : Requests, res : Answers]
Entries  == [tag : Tags, res : Results]
Cells    == [seqid : Nat, reply : Results \cup {NoReq}, uncached : BOOLEAN]
Opens    == [id : Ids, seqid : Nat, access : Access]
Macs     == [verf : Nat, conn : Nat, id : Nat, sess : Nat, seqid : [Slot -> Nat],
             req : [Slot -> Requests \cup {NoReq}], open : AnyId, access : Access, lock : AnyId]

Types ==
    /\ boot \in Nat /\ client \in [id : Nat, verf : Nat] /\ next \in [other : Nat, client : Nat, sess : Nat]
    /\ DOMAIN slots \subseteq Nat /\ \A s \in DOMAIN slots : slots[s] \in [Slot -> Cells]
    /\ opens \subseteq Opens /\ locks \subseteq Ids /\ runs \subseteq Runs
    /\ wire \subseteq Requests /\ back \subseteq Replies /\ mac \in Macs
    /\ n \in [req : Nat, fault : Nat] /\ result \subseteq Entries /\ made \subseteq Nat
    /\ raced \subseteq Nat \X Slot /\ twice \subseteq Tags

\* A stateid below a bound, of an instance there has been; and a request of a session
\* and a connection there has been.
Old(id, o, b)       == id = NoId \/ (id[2] < o /\ id[1] <= b)
Sent(r, s, o, b, c) == r.sess >= 1 /\ r.sess < s /\ r.conn <= c /\ Old(r.id, o, b)

\* The numbers in use have been given.
MacNumbers   ==
    client.id < next.client /\ mac.sess < next.sess /\ Old(mac.open, next.other, boot) /\ Old(mac.lock, next.other, boot)
SlotNumbers  ==
    \A s \in DOMAIN slots :
        s >= 1 /\ s < next.sess /\ \A k \in Slot : slots[s][k].reply # NoReq => Old(slots[s][k].reply.id, next.other, boot)
WireNumbers  == \A r \in wire : Sent(r, next.sess, next.other, boot, mac.conn)
CallNumbers  == \A k \in Slot : mac.req[k] # NoReq => Sent(mac.req[k], next.sess, next.other, boot, mac.conn)
RunNumbers   == \A c \in runs : Sent(c.req, next.sess, next.other, boot, mac.conn) /\ Old(c.res.id, next.other, boot)
ReplyNumbers == \A m \in back : Sent(m.req, next.sess, next.other, boot, mac.conn) /\ Old(m.res.id, next.other, boot)
EntryNumbers == \A e \in result : e.tag.sess >= 1 /\ e.tag.sess < next.sess /\ Old(e.res.id, next.other, boot)
OpenNumbers  ==
    /\ \A o \in opens : o.id[2] < next.other /\ o.id[1] = boot
    /\ \A i \in locks : i[1] = boot
    /\ \A o, p \in opens : o = p
Numbered ==
    MacNumbers /\ SlotNumbers /\ WireNumbers /\ CallNumbers /\ RunNumbers /\ ReplyNumbers /\ EntryNumbers /\ OpenNumbers

-----------------------------------------------------------------------------
\* The slots.
Cell(r) == slots[r.sess][r.slot]
Live(r) == r.sess \in DOMAIN slots
OneRun  == \A c, d \in runs : Place(c.req) = Place(d.req) /\ Place(c.req) \notin raced => c = d
NextUp  == \A c \in runs : Live(c.req) /\ Place(c.req) \notin raced => c.req.seqid = Cell(c.req).seqid + 1
NotRan  == \A c \in runs : c.pc = "eval" /\ Place(c.req) \notin raced => ~ Ran(c.req)
Recorded ==
    \A e \in result : Live(e.tag) /\ Place(e.tag) \notin raced =>
        e.tag.seqid <= Cell(e.tag).seqid \/ \E c \in runs : c.pc = "end" /\ Tag(c.req) = e.tag
Kept ==
    /\ \A c \in runs : c.pc = "end" /\ Place(c.req) \notin raced => \E e \in result : e.tag = Tag(c.req) /\ e.res = c.res
    /\ \A s \in DOMAIN slots, k \in Slot : <<s, k>> \notin raced /\ slots[s][k].reply # NoReq =>
          \E e \in result : e.tag = [sess |-> s, slot |-> k, seqid |-> slots[s][k].seqid] /\ e.res = slots[s][k].reply

-----------------------------------------------------------------------------
\* The client's incarnation and its sessions.
Joined == client.id # 0 /\ client.verf = mac.verf
Fresh  ==
    /\ mac.id = 0 /\ mac.sess = 0 /\ mac.open = NoId /\ mac.lock = NoId /\ Busy = {} /\ wire = {} /\ back = {}
    /\ \A c \in runs : c.req.conn < mac.conn
Incarnation ==
    /\ mac.verf >= 1 /\ client.verf <= mac.verf /\ next.client >= 1 /\ (client.id = 0 => client.verf = 0)
    /\ mac.id # 0 /\ mac.id = client.id => client.verf = mac.verf
    /\ mac.id < next.client
    /\ client.id = 0 => DOMAIN slots = {} /\ runs = {} /\ opens = {}
    /\ client.id # 0 /\ client.verf # mac.verf => Fresh

Ours(r) == Live(r) => r.sess = mac.sess
OurSessions ==
    Joined => /\ \A r \in wire : Ours(r)
              /\ \A c \in runs : Ours(c.req)
              /\ \A m \in back : Ours(m.req)
              /\ \A k \in Busy : Ours(mac.req[k])
Dead ==
    /\ \A m \in back : m.res.status = "BADSESSION" <=> ~ Live(m.req)
    /\ \A c \in runs : ~ Live(c.req) => c.req.conn < mac.conn /\ \A o \in opens : o.id # c.req.id

-----------------------------------------------------------------------------
\* The sequence ids of the client.
Same(r, q) == q # NoReq /\ q.sess = r.sess /\ q.op = r.op /\ q.id = r.id /\ q.access = r.access /\ q.cache = r.cache
Follows(r) ==
    r.sess = mac.sess => /\ r.seqid <= mac.seqid[r.slot]
                         /\ r.seqid = mac.seqid[r.slot] => Same(r, mac.req[r.slot])
Sequenced ==
    /\ \A k \in Slot : mac.seqid[k] >= 1
    /\ \A k \in Busy : mac.req[k].slot = k /\ (mac.req[k].sess = mac.sess => mac.req[k].seqid = mac.seqid[k])
    /\ \A r \in wire : Follows(r)
    /\ \A c \in runs : Follows(c.req)
    /\ \A m \in back : Follows(m.req)
    /\ \A e \in result : e.tag.sess = mac.sess =>
          /\ e.tag.seqid <= mac.seqid[e.tag.slot]
          /\ e.tag.seqid = mac.seqid[e.tag.slot] => e.tag.slot \in Busy /\ mac.req[e.tag.slot].sess = mac.sess
Filled == \A s \in DOMAIN slots, k \in Slot : slots[s][k].seqid >= 1 => slots[s][k].reply # NoReq \/ slots[s][k].uncached
InStep ==
    raced = {} /\ mac.sess \in DOMAIN slots =>
        \A k \in Slot :
            /\ slots[mac.sess][k].seqid \in {mac.seqid[k] - 1, mac.seqid[k]}
            /\ slots[mac.sess][k].seqid = mac.seqid[k] =>
                  k \in Busy /\ mac.req[k].sess = mac.sess /\ (slots[mac.sess][k].uncached => ~ mac.req[k].cache)
Answering ==
    raced = {} => \A m \in back :
        Live(m.req) /\ m.req.sess = mac.sess /\ m.req.seqid = mac.seqid[m.req.slot] =>
            /\ Cell(m.req).seqid = m.req.seqid /\ m.res.status # "MISORDERED"
            /\ m.res.status = "UNCACHED" => ~ mac.req[m.req.slot].cache

-----------------------------------------------------------------------------
\* The open the client holds.
Changer == {k \in Busy : mac.req[k].op \in Stateful}
Clear   == mac.open = NoId \/ Stale(mac.open)
Orderly ==
    /\ \A j, k \in Changer : j = k
    /\ \A k \in Changer :
          /\ mac.req[k].cache
          /\ mac.req[k].op \in {"close", "downgrade"} => mac.req[k].id = mac.open
          /\ mac.req[k].op = "free" => mac.req[k].id = mac.lock
          /\ ~ Live(mac.req[k]) => Clear
    /\ mac.sess \notin DOMAIN slots => Clear

\* Among opens os of instance b, an open i with access a is there; or it went with its server.
Covers(os, i, a)  == \E o \in os : o.id = i /\ a \subseteq o.access
Safe(os, b, i, a) == i = NoId \/ i[1] # b \/ Covers(os, i, a)
\* What a stateful request has come to at the server fits the open i held with access a.
Fits(op, acc, res, os, b, i, a) ==
    /\ res.status # "ok" \/ op \in {"lock", "unlock", "free"} => Safe(os, b, i, a)
    /\ res.status = "ok" /\ op = "open" => Covers(os, res.id, acc) /\ (res.id = i => Covers(os, i, acc \cup a))
    /\ res.status = "ok" /\ op = "downgrade" => Safe(os, b, i, acc)
    /\ op = "lock" => \A o \in os : o.id # res.id
Holding ==
    raced = {} /\ Joined =>
        /\ \A o \in opens : o.id # mac.lock
        /\ Changer = {} => Safe(opens, boot, mac.open, mac.access)
        /\ \A k \in Changer : Live(mac.req[k]) =>
              /\ ~ Ran(mac.req[k]) => Safe(opens, boot, mac.open, mac.access)
              /\ \A e \in result : e.tag = Tag(mac.req[k]) =>
                    Fits(mac.req[k].op, mac.req[k].access, e.res, opens, boot, mac.open, mac.access)

Slotted == OneRun /\ NextUp /\ NotRan /\ Recorded /\ AtMostOnce
Agreed  == Kept /\ AnswersAgree
IInv ==
    /\ Types /\ Numbered /\ Slotted /\ Agreed
    /\ Incarnation /\ OurSessions /\ Dead /\ Sequenced /\ Filled /\ InStep /\ Answering /\ Orderly /\ Holding
-----------------------------------------------------------------------------
(***************************************************************************)
(* The records and what the steps do to them.                              *)
(***************************************************************************)
WithId(m, x)       == [m EXCEPT !.id = x]
WithSess(m, s)     == [m EXCEPT !.sess = s]
InSession(m, s)    == [m EXCEPT !.sess = s, !.seqid = [k \in Slot |-> 1]]
WithReq(m, k, r)   == [m EXCEPT !.req[k] = r]
Reconnected(m, q)  == [m EXCEPT !.conn = @ + 1, !.req = q]
Through(m, k)      == [m EXCEPT !.req[k] = NoReq, !.seqid[k] = @ + 1]
Renewed(r, c)      == [r EXCEPT !.conn = c]
Moved(r, s, q)     == [r EXCEPT !.sess = s, !.seqid = q]
Ended(c, x)        == [c EXCEPT !.pc = "end", !.res = x]

\* The client's own record: another id, or another session.
LEMMA MacMoves ==
    ASSUME NEW m \in Macs, NEW x \in Nat
    PROVE  /\ WithId(m, x) \in Macs /\ WithId(m, x).id = x /\ WithId(m, x).verf = m.verf /\ WithId(m, x).conn = m.conn
           /\ WithId(m, x).sess = m.sess /\ WithId(m, x).seqid = m.seqid /\ WithId(m, x).req = m.req
           /\ WithId(m, x).open = m.open /\ WithId(m, x).access = m.access /\ WithId(m, x).lock = m.lock
           /\ WithSess(m, x) \in Macs /\ WithSess(m, x).id = m.id /\ WithSess(m, x).verf = m.verf /\ WithSess(m, x).conn = m.conn
           /\ WithSess(m, x).sess = x /\ WithSess(m, x).seqid = m.seqid /\ WithSess(m, x).req = m.req
           /\ WithSess(m, x).open = m.open /\ WithSess(m, x).access = m.access /\ WithSess(m, x).lock = m.lock
BY DEF Macs, WithId, WithSess

\* A session of its own, with sequence ids that begin at 1.
LEMMA MacBegins ==
    ASSUME NEW m \in Macs, NEW x \in Nat
    PROVE  /\ InSession(m, x) \in Macs /\ InSession(m, x).id = m.id /\ InSession(m, x).verf = m.verf /\ InSession(m, x).conn = m.conn
           /\ InSession(m, x).sess = x /\ InSession(m, x).req = m.req /\ \A k \in Slot : InSession(m, x).seqid[k] = 1
           /\ InSession(m, x).open = m.open /\ InSession(m, x).access = m.access /\ InSession(m, x).lock = m.lock
BY DEF Macs, InSession

\* A request in a slot, and its end.
LEMMA MacAsks ==
    ASSUME NEW m \in Macs, NEW k \in Slot, NEW r \in Requests \cup {NoReq}
    PROVE  /\ WithReq(m, k, r) \in Macs /\ WithReq(m, k, r).id = m.id /\ WithReq(m, k, r).verf = m.verf
           /\ WithReq(m, k, r).conn = m.conn /\ WithReq(m, k, r).sess = m.sess /\ WithReq(m, k, r).seqid = m.seqid
           /\ WithReq(m, k, r).open = m.open /\ WithReq(m, k, r).access = m.access /\ WithReq(m, k, r).lock = m.lock
           /\ WithReq(m, k, r).req[k] = r /\ \A j \in Slot \ {k} : WithReq(m, k, r).req[j] = m.req[j]
BY DEF Macs, WithReq

\* The end of a request in a slot.
LEMMA MacThrough ==
    ASSUME NEW m \in Macs, NEW k \in Slot
    PROVE  /\ Through(m, k) \in Macs /\ Through(m, k).id = m.id /\ Through(m, k).verf = m.verf
           /\ Through(m, k).conn = m.conn /\ Through(m, k).sess = m.sess
           /\ Through(m, k).open = m.open /\ Through(m, k).access = m.access /\ Through(m, k).lock = m.lock
           /\ Through(m, k).req[k] = NoReq /\ (\A j \in Slot \ {k} : Through(m, k).req[j] = m.req[j])
           /\ Through(m, k).seqid[k] = m.seqid[k] + 1 /\ \A j \in Slot \ {k} : Through(m, k).seqid[j] = m.seqid[j]
<1>1. PICK f \in [Slot -> Requests \cup {NoReq}] : f = [m.req EXCEPT ![k] = NoReq]
  BY DEF Macs
<1>2. PICK g \in [Slot -> Nat] : g = [m.seqid EXCEPT ![k] = @ + 1]
  <2>1. PICK h \in [Slot -> Nat] : h = m.seqid
    BY DEF Macs
  <2>2. [h EXCEPT ![k] = @ + 1] \in [Slot -> Nat]
    OBVIOUS
  <2> QED
    BY <2>1, <2>2
<1>3. Through(m, k) = [m EXCEPT !.req = f, !.seqid = g]
  BY <1>1, <1>2 DEF Macs, Through
<1>4. f[k] = NoReq /\ g[k] = m.seqid[k] + 1 /\ \A j \in Slot \ {k} : f[j] = m.req[j] /\ g[j] = m.seqid[j]
  BY <1>1, <1>2 DEF Macs
<1> QED
  BY <1>3, <1>4 DEF Macs

\* Another connection.
LEMMA MacAgain ==
    ASSUME NEW m \in Macs, NEW q \in [Slot -> Requests \cup {NoReq}]
    PROVE  /\ Reconnected(m, q) \in Macs /\ Reconnected(m, q).id = m.id /\ Reconnected(m, q).verf = m.verf
           /\ Reconnected(m, q).conn = m.conn + 1 /\ Reconnected(m, q).sess = m.sess /\ Reconnected(m, q).seqid = m.seqid
           /\ Reconnected(m, q).open = m.open /\ Reconnected(m, q).access = m.access /\ Reconnected(m, q).lock = m.lock
           /\ Reconnected(m, q).req = q
<1>1. /\ Reconnected(m, q).id = m.id /\ Reconnected(m, q).verf = m.verf /\ Reconnected(m, q).conn = m.conn + 1
      /\ Reconnected(m, q).sess = m.sess /\ Reconnected(m, q).seqid = m.seqid /\ Reconnected(m, q).open = m.open
      /\ Reconnected(m, q).access = m.access /\ Reconnected(m, q).lock = m.lock /\ Reconnected(m, q).req = q
  BY DEF Macs, Reconnected
<1>2. PICK c \in Nat : c = m.conn + 1
  BY DEF Macs
<1>3. Reconnected(m, q) = [m EXCEPT !.conn = c, !.req = q]
  BY <1>2 DEF Macs, Reconnected
<1>4. Reconnected(m, q) \in Macs
  BY <1>3 DEF Macs
<1> QED
  BY <1>1, <1>4

\* The client at its start.
LEMMA MacStarts ==
    ASSUME NEW v \in Nat, NEW c \in Nat
    PROVE  /\ Startup(v, c) \in Macs /\ Startup(v, c).id = 0 /\ Startup(v, c).verf = v /\ Startup(v, c).conn = c /\ Startup(v, c).sess = 0
           /\ (\A k \in Slot : Startup(v, c).req[k] = NoReq /\ Startup(v, c).seqid[k] = 1)
           /\ Startup(v, c).open = NoId /\ Startup(v, c).access = {} /\ Startup(v, c).lock = NoId
BY DEF Macs, Startup, AnyId, Access

\* A request's fields.
LEMMA ReqFields ==
    ASSUME NEW r \in Requests
    PROVE  /\ r # NoReq /\ r.sess \in Nat /\ r.slot \in Slot /\ r.seqid \in Nat /\ r.op \in Ops /\ r.id \in AnyId /\ r.access \in Access
           /\ r.cache \in BOOLEAN /\ r.num \in Nat /\ r.conn \in Nat
           /\ Tag(r) \in Tags /\ Tag(r).sess = r.sess /\ Tag(r).slot = r.slot /\ Tag(r).seqid = r.seqid /\ Place(Tag(r)) = Place(r)
BY SessionsAssumption DEF Requests, AnyId, Tag, Tags, Place

\* The same request on another connection, or of another session.
LEMMA ReqAgain ==
    ASSUME NEW r \in Requests, NEW c \in Nat, NEW s \in Nat
    PROVE  /\ Renewed(r, c) \in Requests /\ Renewed(r, c).sess = r.sess /\ Renewed(r, c).slot = r.slot /\ Renewed(r, c).seqid = r.seqid
           /\ Renewed(r, c).op = r.op /\ Renewed(r, c).id = r.id /\ Renewed(r, c).access = r.access /\ Renewed(r, c).cache = r.cache
           /\ Renewed(r, c).conn = c
           /\ Moved(r, s, c) \in Requests /\ Moved(r, s, c).sess = s /\ Moved(r, s, c).slot = r.slot /\ Moved(r, s, c).seqid = c
           /\ Moved(r, s, c).op = r.op /\ Moved(r, s, c).id = r.id /\ Moved(r, s, c).access = r.access /\ Moved(r, s, c).cache = r.cache
           /\ Moved(r, s, c).conn = r.conn
BY DEF Requests, Renewed, Moved

\* Tags are what their fields say.
LEMMA TagIs ==
    /\ \A t \in Tags : t.sess \in Nat /\ t.slot \in Slot /\ t.seqid \in Nat
    /\ \A t, u \in Tags : t.sess = u.sess /\ t.slot = u.slot /\ t.seqid = u.seqid => t = u
    /\ \A s \in Nat, k \in Slot, q \in Nat : /\ [sess |-> s, slot |-> k, seqid |-> q] \in Tags
                                             /\ [sess |-> s, slot |-> k, seqid |-> q].sess = s
                                             /\ [sess |-> s, slot |-> k, seqid |-> q].slot = k
                                             /\ [sess |-> s, slot |-> k, seqid |-> q].seqid = q
BY DEF Tags

\* Compounds, replies and what was run.
LEMMA RunFields ==
    /\ \A c \in Runs : c.req \in Requests /\ c.pc \in {"eval", "end"} /\ c.res \in Results
    /\ \A m \in Replies : m.req \in Requests /\ m.res \in Answers
    /\ \A e \in Entries : e.tag \in Tags /\ e.res \in Results
    /\ \A x \in Results : x \in Answers /\ x # NoReq /\ x.status \in Status /\ x.status \notin OwnErrors /\ x.id \in AnyId /\ x.access \in Access
    /\ \A x \in Answers : x.id \in AnyId /\ x.access \in Access
    /\ \A c \in Runs, x \in Results : Ended(c, x) \in Runs /\ Ended(c, x).req = c.req /\ Ended(c, x).pc = "end" /\ Ended(c, x).res = x
<1>2. \A x \in Results : x \in Answers /\ x.status \in Status /\ x.status \notin OwnErrors /\ x.id \in AnyId /\ x.access \in Access
  BY DEF Results, Answers, Status, OwnErrors, AnyId
<1>3. \A x \in Results : x # NoReq
  BY SessionsAssumption
<1>4. \A x \in Answers : x.id \in AnyId /\ x.access \in Access
  BY DEF Answers
<1>5. \A c \in Runs, x \in Results : Ended(c, x) \in Runs /\ Ended(c, x).req = c.req /\ Ended(c, x).pc = "end" /\ Ended(c, x).res = x
  BY DEF Runs, Ended
<1> QED
  BY <1>2, <1>3, <1>4, <1>5 DEF Runs, Replies, Entries

\* What an operation can come to, and what the server says of itself.
LEMMA Says ==
    /\ \A st \in Status, i \in AnyId, a \in Access :
          Res(st, i, a) \in Results /\ Res(st, i, a).status = st /\ Res(st, i, a).id = i /\ Res(st, i, a).access = a
    /\ \A st \in Status : Fail(st) \in Results /\ Fail(st).status = st /\ Fail(st).id = NoId
    /\ \A st \in OwnErrors : Fail(st) \in Answers /\ Fail(st).status = st /\ Fail(st).id = NoId
    /\ \A x \in Results : /\ Replayed(x) \in Answers /\ Replayed(x).status = x.status /\ Replayed(x).id = x.id
                           /\ Replayed(x).access = x.access
<1>1. {} \in Access /\ NoId \in AnyId
  BY DEF Access, AnyId
<1>2. \A st \in Status, i \in AnyId, a \in Access :
         Res(st, i, a) \in Results /\ Res(st, i, a).status = st /\ Res(st, i, a).id = i /\ Res(st, i, a).access = a
  BY DEF Res, Results, AnyId
<1>3. \A st \in Status : Fail(st) \in Results /\ Fail(st).status = st /\ Fail(st).id = NoId
  BY <1>1, <1>2 DEF Fail
<1>4. \A st \in OwnErrors : Fail(st) \in Answers /\ Fail(st).status = st /\ Fail(st).id = NoId
  BY <1>1 DEF Fail, Res, Answers
<1>5. \A x \in Results : /\ Replayed(x) \in Answers /\ Replayed(x).status = x.status /\ Replayed(x).id = x.id
                          /\ Replayed(x).access = x.access
  BY DEF Replayed, Results, Answers, Status, AnyId
<1> QED
  BY <1>2, <1>3, <1>4, <1>5

\* Slots and opens.
LEMMA CellFields ==
    /\ \A c \in Cells : c.seqid \in Nat /\ c.reply \in Results \cup {NoReq} /\ c.uncached \in BOOLEAN
    /\ FreshTable \in [Slot -> Cells]
    /\ \A k \in Slot : FreshTable[k].seqid = 0 /\ FreshTable[k].reply = NoReq /\ ~ FreshTable[k].uncached
    /\ \A o \in Opens : o.id \in Ids /\ o.id # NoId /\ o.access \in Access /\ o.seqid \in Nat
<1>1. \A o \in Opens : o.id \in Ids /\ o.access \in Access /\ o.seqid \in Nat
  BY DEF Opens
<1>2. FreshTable \in [Slot -> Cells] /\ \A k \in Slot : FreshTable[k].seqid = 0 /\ FreshTable[k].reply = NoReq /\ ~ FreshTable[k].uncached
  BY DEF FreshTable, FreshSlot, Cells
<1> QED
  BY <1>1, <1>2, SessionsAssumption DEF Cells

-----------------------------------------------------------------------------
(***************************************************************************)
(* What the steps do.                                                      *)
(***************************************************************************)
\* The parts of the client that most steps leave alone.
Apart(m)   == m.verf = mac.verf /\ m.conn = mac.conn /\ m.open = mac.open /\ m.access = mac.access /\ m.lock = mac.lock
Counters   == [other : Nat, client : Nat, sess : Nat]
Clients    == [id : Nat, verf : Nat]

\* Numbers that grow.
LEMMA Counting ==
    ASSUME NEW x \in Counters
    PROVE  /\ x.other \in Nat /\ x.client \in Nat /\ x.sess \in Nat
           /\ [x EXCEPT !.client = @ + 1] \in Counters /\ [x EXCEPT !.client = @ + 1].client = x.client + 1
           /\ [x EXCEPT !.client = @ + 1].other = x.other /\ [x EXCEPT !.client = @ + 1].sess = x.sess
           /\ [x EXCEPT !.sess = @ + 1] \in Counters /\ [x EXCEPT !.sess = @ + 1].sess = x.sess + 1
           /\ [x EXCEPT !.sess = @ + 1].other = x.other /\ [x EXCEPT !.sess = @ + 1].client = x.client
           /\ [x EXCEPT !.other = @ + 1] \in Counters /\ [x EXCEPT !.other = @ + 1].other = x.other + 1
           /\ [x EXCEPT !.other = @ + 1].client = x.client /\ [x EXCEPT !.other = @ + 1].sess = x.sess
BY DEF Counters

\* EXCHANGE_ID: the record is that of the incarnation, or a new one.
LEMMA ExchangeEffect ==
    ASSUME Types, ExchangeId
    PROVE  /\ mac.id = 0 /\ mac' \in Macs /\ mac'.id = client'.id /\ Apart(mac')
           /\ mac'.sess = mac.sess /\ mac'.seqid = mac.seqid /\ mac'.req = mac.req
           /\ next' \in Counters /\ next'.other = next.other /\ next'.sess = next.sess /\ client' \in Clients
           /\ \/ client.verf = mac.verf /\ UNCHANGED <<client, next, slots, opens>>
              \/ /\ client.verf # mac.verf /\ client'.id = next.client /\ client'.verf = mac.verf /\ next'.client = next.client + 1
                 /\ \/ client.id = 0 /\ UNCHANGED <<slots, opens>>
                    \/ client.id # 0 /\ DOMAIN slots' = {} /\ opens' = {}
           /\ UNCHANGED <<boot, locks, made, runs, wire, back, n, hist>>
<1>1. mac \in Macs /\ next \in Counters /\ client \in Clients /\ mac.verf \in Nat /\ next.client \in Nat
  BY DEF Types, Macs, Counters, Clients
<1>2. /\ mac.id = 0 /\ mac' = WithId(mac, client'.id) /\ UNCHANGED <<boot, locks, made, runs, wire, back, n, hist>>
  BY DEF ExchangeId, WithId
<1>3. CASE client.verf = mac.verf
  <2>1. UNCHANGED <<client, next, slots, opens>>
    BY <1>3 DEF ExchangeId
  <2>2. client'.id \in Nat
    BY <1>1, <2>1 DEF Clients
  <2> QED
    BY <1>1, <1>2, <1>3, <2>1, <2>2, MacMoves DEF Apart
<1>4. CASE client.verf # mac.verf
  <2>1. /\ client' = [id |-> next.client, verf |-> mac.verf] /\ next' = [next EXCEPT !.client = @ + 1]
        /\ \/ client.id = 0 /\ UNCHANGED <<slots, opens>>
           \/ client.id # 0 /\ slots' = <<>> /\ opens' = {}
    BY <1>4 DEF ExchangeId
  <2>2. client' \in Clients /\ client'.id = next.client /\ client'.verf = mac.verf
    BY <1>1, <2>1 DEF Clients
  <2>3. mac' \in Macs /\ mac'.id = client'.id /\ Apart(mac') /\ mac'.sess = mac.sess /\ mac'.seqid = mac.seqid /\ mac'.req = mac.req
    <3>1. PICK x \in Nat : x = client'.id
      BY <1>1, <2>2
    <3>2. mac' = WithId(mac, x)
      BY <1>2, <3>1
    <3> QED
      BY <1>1, <3>1, <3>2, MacMoves DEF Apart
  <2>4. next' \in Counters /\ next'.other = next.other /\ next'.sess = next.sess /\ next'.client = next.client + 1
    BY <1>1, <2>1, Counting
  <2> QED
    BY <1>2, <1>4, <2>1, <2>2, <2>3, <2>4
<1> QED
  BY <1>3, <1>4

\* CREATE_SESSION: a new session, that the client may not hear of.
LEMMA CreateEffect ==
    ASSUME Types, CreateSession
    PROVE  /\ mac.id # 0 /\ mac.sess = 0 /\ mac' \in Macs /\ Apart(mac') /\ mac'.req = mac.req
           /\ next' \in Counters /\ next'.other = next.other /\ next'.client = next.client
           /\ \/ /\ client.id = mac.id /\ mac'.id = mac.id /\ next'.sess = next.sess + 1
                 /\ DOMAIN slots' = DOMAIN slots \cup {next.sess} /\ slots'[next.sess] = FreshTable
                 /\ \A s \in DOMAIN slots \ {next.sess} : slots'[s] = slots[s]
                 /\ mac' = mac \/ (mac'.sess = next.sess /\ \A k \in Slot : mac'.seqid[k] = 1)
              \/ /\ client.id # mac.id /\ mac'.id = 0 /\ mac'.sess = mac.sess /\ mac'.seqid = mac.seqid
                 /\ UNCHANGED <<slots, next>>
           /\ n' \in [req : Nat, fault : Nat]
           /\ UNCHANGED <<boot, client, opens, locks, made, runs, wire, back, hist>>
<1>1. mac \in Macs /\ next \in Counters /\ next.sess \in Nat
  BY DEF Types, Counters
<1>2. mac.id # 0 /\ mac.sess = 0 /\ UNCHANGED <<boot, client, opens, locks, made, runs, wire, back, hist>>
  BY DEF CreateSession
<1>3. CASE client.id = mac.id
  <2>1. /\ slots' = [s \in DOMAIN slots \cup {next.sess} |-> IF s = next.sess THEN FreshTable ELSE slots[s]]
        /\ next' = [next EXCEPT !.sess = @ + 1]
        /\ mac' = InSession(mac, next.sess) \/ mac' = mac
    BY <1>3 DEF CreateSession, InSession
  <2>2. /\ mac' \in Macs /\ Apart(mac') /\ mac'.req = mac.req /\ mac'.id = mac.id
        /\ mac' = mac \/ (mac'.sess = next.sess /\ \A k \in Slot : mac'.seqid[k] = 1)
    BY <1>1, <2>1, MacBegins DEF Apart
  <2>3. next' \in Counters /\ next'.other = next.other /\ next'.client = next.client /\ next'.sess = next.sess + 1
    BY <1>1, <2>1, Counting
  <2>4. n' \in [req : Nat, fault : Nat]
    BY <1>3 DEF CreateSession, Fault, Types
  <2> QED
    BY <1>2, <1>3, <2>1, <2>2, <2>3, <2>4
<1>4. CASE client.id # mac.id
  <2>1. mac' = WithId(mac, 0) /\ UNCHANGED <<slots, next, n>>
    BY <1>4 DEF CreateSession, WithId
  <2>2. 0 \in Nat
    OBVIOUS
  <2>3. mac' \in Macs /\ Apart(mac') /\ mac'.id = 0 /\ mac'.req = mac.req /\ mac'.sess = mac.sess /\ mac'.seqid = mac.seqid
    BY <1>1, <2>1, <2>2, MacMoves DEF Apart
  <2>4. n' \in [req : Nat, fault : Nat] /\ next' \in Counters /\ next'.other = next.other /\ next'.client = next.client
    BY <1>1, <2>1 DEF Types
  <2> QED
    BY <1>2, <1>4, <2>1, <2>3, <2>4
<1> QED
  BY <1>3, <1>4

\* What the client asks again after a lost connection.
Again == [k \in Slot |-> IF k \in Busy THEN [mac.req[k] EXCEPT !.conn = mac.conn + 1] ELSE NoReq]

\* Two requests that differ in their connections at most.
Alike(r, q) ==
    /\ r.sess = q.sess /\ r.slot = q.slot /\ r.seqid = q.seqid /\ r.op = q.op /\ r.id = q.id
    /\ r.access = q.access /\ r.cache = q.cache

\* Every request is asked again as it was, on the new connection.
LEMMA AgainEffect ==
    ASSUME Types, mac' = Reconnected(mac, Again)
    PROVE  /\ mac' \in Macs /\ mac'.id = mac.id /\ mac'.verf = mac.verf /\ mac'.conn = mac.conn + 1 /\ mac'.sess = mac.sess
           /\ mac'.seqid = mac.seqid /\ mac'.open = mac.open /\ mac'.access = mac.access /\ mac'.lock = mac.lock
           /\ \A k \in Slot \ Busy : mac.req[k] = NoReq /\ mac'.req[k] = NoReq
           /\ \A k \in Busy : /\ mac.req[k] \in Requests /\ mac'.req[k] \in Requests
                             /\ Alike(mac'.req[k], mac.req[k]) /\ mac'.req[k].conn = mac.conn + 1
           /\ Busy' = Busy /\ Busy \subseteq Slot /\ mac'.req = Again
<1>1. mac \in Macs /\ mac.conn \in Nat /\ mac.req \in [Slot -> Requests \cup {NoReq}]
  BY DEF Types, Macs
<1>2. ASSUME NEW k \in Busy
      PROVE  /\ mac.req[k] \in Requests /\ Again[k] \in Requests /\ Again[k] # NoReq
             /\ Alike(Again[k], mac.req[k]) /\ Again[k].conn = mac.conn + 1
  <2>1. k \in Slot /\ mac.req[k] \in Requests
    BY <1>1 DEF Busy
  <2>2. Again[k] = Renewed(mac.req[k], mac.conn + 1)
    BY <2>1 DEF Again, Renewed
  <2>3. PICK x \in Nat : x = mac.conn + 1
    BY <1>1
  <2>4. Again[k] \in Requests /\ Alike(Again[k], mac.req[k]) /\ Again[k].conn = mac.conn + 1
    <3>1. PICK r \in Requests : r = mac.req[k]
      BY <2>1
    <3>2. Renewed(r, x) \in Requests /\ Alike(Renewed(r, x), r) /\ Renewed(r, x).conn = x
      BY ReqAgain DEF Alike
    <3> QED
      BY <2>2, <2>3, <3>1, <3>2
  <2> QED
    BY <2>1, <2>2, <2>4, ReqFields
<1>3. ASSUME NEW k \in Slot \ Busy PROVE mac.req[k] = NoReq /\ Again[k] = NoReq
  BY DEF Busy, Again
<1>4. Again \in [Slot -> Requests \cup {NoReq}]
  <2>1. \A k \in Slot : Again[k] \in Requests \cup {NoReq}
    BY <1>2, <1>3
  <2> QED
    BY <2>1 DEF Again
<1>5. /\ mac' \in Macs /\ mac'.id = mac.id /\ mac'.verf = mac.verf /\ mac'.conn = mac.conn + 1 /\ mac'.sess = mac.sess
      /\ mac'.seqid = mac.seqid /\ mac'.open = mac.open /\ mac'.access = mac.access /\ mac'.lock = mac.lock /\ mac'.req = Again
  BY <1>1, <1>4, MacAgain
<1>6. Busy \subseteq Slot /\ Busy' = {k \in Slot : Again[k] # NoReq}
  BY <1>5 DEF Busy
<1>7. Busy' = Busy
  BY <1>2, <1>3, <1>6
<1> QED
  BY <1>2, <1>3, <1>5, <1>6, <1>7

\* A lost connection.
LEMMA LoseEffect ==
    ASSUME Types, LoseConn
    PROVE  /\ mac' = Reconnected(mac, Again) /\ back' = {} /\ UNCHANGED <<server, hist>> /\ n' \in [req : Nat, fault : Nat]
           /\ \A r \in wire' : r \in wire \/ \E k \in Busy : r = mac'.req[k]
<1>1. mac' = Reconnected(mac, Again) /\ back' = {} /\ UNCHANGED <<server, hist>>
  BY DEF LoseConn, Reconnected, Again
<1>2. n' \in [req : Nat, fault : Nat]
  BY DEF LoseConn, Fault, Types
<1>3. PICK kept \in SUBSET wire : wire' = kept \cup {[mac.req[k] EXCEPT !.conn = mac.conn + 1] : k \in Busy}
  BY DEF LoseConn
<1>4. \A k \in Busy : mac'.req[k] = [mac.req[k] EXCEPT !.conn = mac.conn + 1]
  BY <1>1, AgainEffect DEF Again, Busy
<1> QED
  BY <1>1, <1>2, <1>3, <1>4

\* The server begins anew.
LEMMA RestartEffect ==
    ASSUME Types, ServerRestart
    PROVE  /\ mac' = Reconnected(mac, Again) /\ back' = {} /\ boot' = boot + 1 /\ client'.id = 0 /\ client'.verf = 0
           /\ client' \in Clients
           /\ DOMAIN slots' = {} /\ opens' = {} /\ locks' = {} /\ runs' = {} /\ UNCHANGED <<next, made, hist>>
           /\ n' \in [req : Nat, fault : Nat]
           /\ \A r \in wire' : \E k \in Busy : r = mac'.req[k]
<1>1. /\ mac' = Reconnected(mac, Again) /\ back' = {} /\ boot' = boot + 1 /\ client' = NoClient /\ slots' = <<>>
      /\ opens' = {} /\ locks' = {} /\ runs' = {} /\ UNCHANGED <<next, made, hist>>
  BY DEF ServerRestart, Reconnected, Again
<1>2. n' \in [req : Nat, fault : Nat]
  BY DEF ServerRestart, Fault, Types
<1>3. wire' = {mac'.req[k] : k \in Busy}
  BY DEF ServerRestart
<1> QED
  BY <1>1, <1>2, <1>3 DEF NoClient, Clients

\* A request of the client.
LEMMA CallEffect ==
    ASSUME Types, NEW k \in Slot, Call(k)
    PROVE  \E r \in Requests :
             /\ mac' \in Macs /\ mac'.id = mac.id /\ Apart(mac') /\ mac'.sess = mac.sess /\ mac'.seqid = mac.seqid
             /\ mac'.req[k] = r /\ (\A j \in Slot \ {k} : mac'.req[j] = mac.req[j]) /\ wire' = wire \cup {r}
             /\ mac.sess # 0 /\ mac.req[k] = NoReq
             /\ r.sess = mac.sess /\ r.slot = k /\ r.seqid = mac.seqid[k] /\ r.conn = mac.conn
             /\ (r.op \in Stateful => r.cache /\ \A j \in Busy : mac.req[j].op \notin Stateful)
             /\ r.id \in {NoId, mac.open, mac.lock}
             /\ (r.op \in {"close", "downgrade"} => r.id = mac.open) /\ (r.op = "free" => r.id = mac.lock)
             /\ n' \in [req : Nat, fault : Nat] /\ UNCHANGED <<server, back, hist>>
<1>1. /\ mac \in Macs /\ mac.sess \in Nat /\ mac.seqid \in [Slot -> Nat] /\ mac.conn \in Nat /\ mac.open \in AnyId /\ mac.lock \in AnyId
      /\ n.req \in Nat
  BY DEF Types, Macs
<1>2. mac.sess # 0 /\ mac.req[k] = NoReq /\ UNCHANGED <<server, back, hist>>
  BY DEF Call, Busy
<1>3. n' \in [req : Nat, fault : Nat]
  BY DEF Call, Types
<1>4. PICK op \in Ops, acc \in {{"read"}, {"read", "write"}} :
         LET id == IF op \in {"unlock", "free"} THEN mac.lock ELSE mac.open
             r  == [sess |-> mac.sess, slot |-> k, seqid |-> mac.seqid[k], op |-> op,
                    id |-> IF op \in {"open", "make"} THEN NoId ELSE id,
                    access |-> IF op \in {"open", "downgrade"} THEN acc ELSE {},
                    cache |-> op # "io", num |-> n.req, conn |-> mac.conn]
         IN  /\ op \in Stateful => \A j \in Busy : mac.req[j].op \notin Stateful
             /\ mac' = [mac EXCEPT !.req[k] = r] /\ wire' = wire \cup {r}
  BY ZenonT(60) DEF Call
<1> DEFINE i == IF op \in {"open", "make"} THEN NoId ELSE IF op \in {"unlock", "free"} THEN mac.lock ELSE mac.open
           a == IF op \in {"open", "downgrade"} THEN acc ELSE {}
           q == [sess |-> mac.sess, slot |-> k, seqid |-> mac.seqid[k], op |-> op, id |-> i, access |-> a,
                 cache |-> op # "io", num |-> n.req, conn |-> mac.conn]
<1>5. /\ op \in Stateful => \A j \in Busy : mac.req[j].op \notin Stateful
      /\ mac' = WithReq(mac, k, q) /\ wire' = wire \cup {q}
  BY <1>4 DEF WithReq
<1>6. i \in Ids \cup {NoId} /\ a \in Access /\ (op # "io") \in BOOLEAN
  BY <1>1 DEF AnyId, Access
<1>7. (op \in {"close", "downgrade"} => i = mac.open) /\ (op = "free" => i = mac.lock) /\ i \in {NoId, mac.open, mac.lock}
  OBVIOUS
<1>8. op \in Stateful => op # "io"
  BY DEF Stateful
<1> HIDE DEF i, a
<1>9. q \in Requests
  BY <1>1, <1>6 DEF Requests
<1>10. /\ q.sess = mac.sess /\ q.slot = k /\ q.seqid = mac.seqid[k] /\ q.op = op /\ q.id = i /\ q.conn = mac.conn
       /\ q.cache = (op # "io")
  OBVIOUS
<1> HIDE DEF q
<1>11. /\ mac' \in Macs /\ mac'.id = mac.id /\ Apart(mac') /\ mac'.sess = mac.sess /\ mac'.seqid = mac.seqid
       /\ mac'.req[k] = q /\ \A j \in Slot \ {k} : mac'.req[j] = mac.req[j]
  BY <1>1, <1>5, <1>9, MacAsks DEF Apart
<1> QED
  BY <1>2, <1>3, <1>5, <1>7, <1>8, <1>9, <1>10, <1>11

\* A request of a session that has gone, asked again on the new one.
LEMMA ResendEffect ==
    ASSUME Types, NEW k \in Slot, Resend(k)
    PROVE  \E r \in Requests :
             /\ mac' \in Macs /\ mac'.id = mac.id /\ Apart(mac') /\ mac'.sess = mac.sess /\ mac'.seqid = mac.seqid
             /\ mac'.req[k] = r /\ (\A j \in Slot \ {k} : mac'.req[j] = mac.req[j]) /\ wire' = wire \cup {r}
             /\ mac.sess # 0 /\ mac.req[k] \in Requests /\ mac.req[k] # NoReq /\ mac.req[k].sess # mac.sess
             /\ r.sess = mac.sess /\ r.slot = mac.req[k].slot /\ r.seqid = mac.seqid[k] /\ r.conn = mac.req[k].conn
             /\ r.op = mac.req[k].op /\ r.id = mac.req[k].id /\ r.access = mac.req[k].access /\ r.cache = mac.req[k].cache
             /\ UNCHANGED <<server, back, n, hist>>
<1>1. mac \in Macs /\ mac.sess \in Nat /\ mac.seqid[k] \in Nat /\ mac.req[k] \in Requests \cup {NoReq}
  BY DEF Types, Macs
<1>2. PICK r : r = Moved(mac.req[k], mac.sess, mac.seqid[k])
  OBVIOUS
<1>3. /\ mac.sess # 0 /\ mac.req[k] # NoReq /\ mac.req[k].sess # mac.sess /\ mac' = WithReq(mac, k, r) /\ wire' = wire \cup {r}
      /\ UNCHANGED <<server, back, n, hist>>
  BY <1>2 DEF Resend, Busy, Moved, WithReq
<1>4. mac.req[k] \in Requests
  BY <1>1, <1>3
<1>5. /\ r \in Requests /\ r.sess = mac.sess /\ r.slot = mac.req[k].slot /\ r.seqid = mac.seqid[k] /\ r.conn = mac.req[k].conn
      /\ r.op = mac.req[k].op /\ r.id = mac.req[k].id /\ r.access = mac.req[k].access /\ r.cache = mac.req[k].cache
  <2>1. PICK q \in Requests, s \in Nat, c \in Nat : q = mac.req[k] /\ s = mac.sess /\ c = mac.seqid[k]
    BY <1>1, <1>4
  <2>2. r = Moved(q, s, c)
    BY <1>2, <2>1
  <2>3. /\ Moved(q, s, c) \in Requests /\ Moved(q, s, c).sess = s /\ Moved(q, s, c).slot = q.slot /\ Moved(q, s, c).seqid = c
        /\ Moved(q, s, c).op = q.op /\ Moved(q, s, c).id = q.id /\ Moved(q, s, c).access = q.access /\ Moved(q, s, c).cache = q.cache
        /\ Moved(q, s, c).conn = q.conn
    BY ReqAgain
  <2> QED
    BY <2>1, <2>2, <2>3, Zenon
<1>6. /\ mac' \in Macs /\ mac'.id = mac.id /\ Apart(mac') /\ mac'.sess = mac.sess /\ mac'.seqid = mac.seqid
      /\ mac'.req[k] = r /\ \A j \in Slot \ {k} : mac'.req[j] = mac.req[j]
  BY <1>1, <1>3, <1>5, MacAsks DEF Apart
<1> QED
  BY <1>3, <1>4, <1>5, <1>6

\* The client begins anew.
LEMMA ClientEffect ==
    ASSUME Types, ClientRestart
    PROVE  /\ mac' \in Macs /\ mac'.verf = mac.verf + 1 /\ mac'.conn = mac.conn + 1 /\ mac'.id = 0 /\ mac'.sess = 0
           /\ (\A k \in Slot : mac'.req[k] = NoReq /\ mac'.seqid[k] = 1) /\ mac'.open = NoId /\ mac'.access = {} /\ mac'.lock = NoId
           /\ wire' = {} /\ back' = {} /\ n' \in [req : Nat, fault : Nat] /\ UNCHANGED <<server, hist>>
<1>1. mac.verf \in Nat /\ mac.conn \in Nat
  BY DEF Types, Macs
<1>2. PICK v \in Nat, c \in Nat : v = mac.verf + 1 /\ c = mac.conn + 1
  BY <1>1
<1>3. mac' = Startup(v, c) /\ wire' = {} /\ back' = {} /\ UNCHANGED <<server, hist>>
  BY <1>2 DEF ClientRestart
<1>4. n' \in [req : Nat, fault : Nat]
  BY DEF ClientRestart, Fault, Types
<1> QED
  BY <1>2, <1>3, <1>4, MacStarts

\* A reply is on its way, or its connection is gone.
Replies1(r, res) == back' = back \/ (r.conn = mac.conn /\ \E m \in Replies : back' = back \cup {m} /\ m.req = r /\ m.res = res)

\* An answer to the request's connection.
LEMMA SendEffect ==
    ASSUME NEW r \in Requests, NEW res \in Answers, Send(r, res)
    PROVE  Replies1(r, res)
<1>1. [req |-> r, res |-> res] \in Replies /\ [req |-> r, res |-> res].req = r /\ [req |-> r, res |-> res].res = res
  BY DEF Replies
<1> QED
  BY <1>1 DEF Send, Replies1

\* op_sequence: the request is the next of its slot, or the last, or something is wrong.
LEMMA SeenIs ==
    ASSUME Types, NEW r \in Requests
    PROVE  /\ Seen(r) = "new" => Live(r) /\ r.seqid = Cell(r).seqid + 1
           /\ Seen(r) = "replay" => Live(r) /\ r.seqid = Cell(r).seqid /\ Cell(r).reply # NoReq
           /\ Seen(r) \notin {"new", "replay"} => Seen(r) \in OwnErrors
           /\ Seen(r) = "BADSESSION" <=> ~ Live(r)
           /\ Seen(r) = "UNCACHED" => Live(r) /\ r.seqid = Cell(r).seqid /\ Cell(r).uncached
           /\ Seen(r) = "MISORDERED" =>
                 \/ r.seqid = Cell(r).seqid /\ Cell(r).reply = NoReq /\ ~ Cell(r).uncached
                 \/ r.seqid # Cell(r).seqid /\ r.seqid # Cell(r).seqid + 1
<1>1. CASE ~ Live(r)
  <2>1. Seen(r) = "BADSESSION"
    BY <1>1 DEF Seen, Live
  <2> QED
    BY <1>1, <2>1 DEF OwnErrors
<1>2. CASE Live(r)
  <2>1. PICK q : q = Cell(r).seqid
    OBVIOUS
  <2>2. q \in Nat /\ r.seqid \in Nat /\ r.slot \in Slot
    <3>1. slots[r.sess] \in [Slot -> Cells]
      BY <1>2 DEF Types, Live
    <3> QED
      BY <2>1, <3>1, ReqFields, CellFields DEF Cell
  <2>3. CASE r.seqid = q
    <3>1. Seen(r) = IF Cell(r).reply # NoReq THEN "replay" ELSE IF Cell(r).uncached THEN "UNCACHED" ELSE "MISORDERED"
      BY <1>2, <2>1, <2>2, <2>3 DEF Seen, Live, Cell
    <3> QED
      BY <1>2, <2>1, <2>2, <2>3, <3>1 DEF OwnErrors
  <2>4. CASE r.seqid # q /\ r.seqid = q + 1
    <3>1. Seen(r) = "new"
      BY <1>2, <2>1, <2>2, <2>4 DEF Seen, Live, Cell
    <3> QED
      BY <1>2, <2>1, <2>4, <3>1
  <2>5. CASE r.seqid # q /\ r.seqid # q + 1
    <3>1. Seen(r) = "MISORDERED"
      BY <1>2, <2>1, <2>2, <2>5 DEF Seen, Live, Cell
    <3> QED
      BY <1>2, <2>1, <2>5, <3>1 DEF OwnErrors
  <2> QED
    BY <2>3, <2>4, <2>5
<1> QED
  BY <1>1, <1>2

\* A request arrives.
LEMMA ReceiveEffect ==
    ASSUME Types, NEW r \in wire, Receive(r)
    PROVE  /\ r \in Requests /\ wire' = wire \ {r}
           /\ UNCHANGED <<boot, client, slots, opens, locks, next, made, mac, n, twice, result>>
           /\ \/ /\ Seen(r) = "new" /\ back' = back
                 /\ \E d \in Runs : runs' = runs \cup {d} /\ d.req = r /\ d.pc = "eval" /\ d.res.id = NoId
                 /\ \/ (\E c \in runs : Tag(c.req) = Tag(r)) /\ raced' = raced \cup {Place(r)}
                    \/ ~(\E c \in runs : Tag(c.req) = Tag(r)) /\ raced' = raced
              \/ Seen(r) = "replay" /\ Replies1(r, Replayed(Cell(r).reply)) /\ UNCHANGED <<runs, raced>>
              \/ Seen(r) \in OwnErrors /\ Replies1(r, Fail(Seen(r))) /\ UNCHANGED <<runs, raced>>
<1>1. r \in Requests
  BY DEF Types
<1>2. wire' = wire \ {r} /\ UNCHANGED <<boot, client, slots, opens, locks, next, made, mac, n, twice, result>>
  BY DEF Receive
<1>3. CASE Seen(r) = "new"
  <2>1. /\ runs' = runs \cup {[req |-> r, pc |-> "eval", res |-> Fail("none")]} /\ back' = back
        /\ raced' = IF \E c \in runs : Tag(c.req) = Tag(r) THEN raced \cup {Place(r)} ELSE raced
    BY <1>3 DEF Receive
  <2>2. Fail("none") \in Results /\ Fail("none").id = NoId
    BY Says DEF Status
  <2>3. PICK f \in Results : f = Fail("none") /\ f.id = NoId
    BY <2>2
  <2>4. PICK d : d = [req |-> r, pc |-> "eval", res |-> f]
    OBVIOUS
  <2>5. d \in Runs /\ d.req = r /\ d.pc = "eval" /\ d.res.id = NoId
    BY <1>1, <2>3, <2>4 DEF Runs
  <2>6. runs' = runs \cup {d}
    BY <2>1, <2>3, <2>4
  <2> QED
    BY <1>1, <1>2, <1>3, <2>1, <2>5, <2>6
<1>4. CASE Seen(r) = "replay"
  <2>1. Send(r, Replayed(Cell(r).reply)) /\ UNCHANGED <<runs, raced>>
    BY <1>4 DEF Receive, Cell
  <2>2. Live(r) /\ Cell(r).reply # NoReq
    BY <1>1, <1>4, SeenIs
  <2>3. Cell(r).reply \in Results
    BY <1>1, <2>2, CellFields, ReqFields DEF Types, Live, Cell
  <2>4. Replayed(Cell(r).reply) \in Answers
    BY <2>3, Says
  <2> QED
    BY <1>1, <1>2, <1>4, <2>1, <2>4, SendEffect
<1>5. CASE Seen(r) \notin {"new", "replay"}
  <2>1. Send(r, Fail(Seen(r))) /\ UNCHANGED <<runs, raced>>
    BY <1>5 DEF Receive
  <2>2. Seen(r) \in OwnErrors
    BY <1>1, <1>5, SeenIs
  <2>3. Fail(Seen(r)) \in Answers
    BY <2>2, Says
  <2> QED
    BY <1>1, <1>2, <2>1, <2>2, <2>3, SendEffect
<1> QED
  BY <1>3, <1>4, <1>5

Widen(o, a)  == [o EXCEPT !.seqid = @ + 1, !.access = @ \cup a]
Narrow(o, a) == [o EXCEPT !.seqid = @ + 1, !.access = a]

\* An open with more access, or with less.
LEMMA OpenFields ==
    ASSUME NEW o \in Opens, NEW a \in Access
    PROVE  /\ Widen(o, a) \in Opens /\ Widen(o, a).id = o.id /\ Widen(o, a).access = o.access \cup a
           /\ Narrow(o, a) \in Opens /\ Narrow(o, a).id = o.id /\ Narrow(o, a).access = a
<1>1. /\ Widen(o, a).id = o.id /\ Widen(o, a).access = o.access \cup a /\ Widen(o, a).seqid = o.seqid + 1
      /\ Narrow(o, a).id = o.id /\ Narrow(o, a).access = a /\ Narrow(o, a).seqid = o.seqid + 1
  BY DEF Opens, Widen, Narrow
<1>2. PICK q \in Nat, b \in Access : q = o.seqid + 1 /\ b = o.access \cup a
  <2>1. o.seqid \in Nat /\ o.access \in Access
    BY DEF Opens
  <2>2. o.seqid + 1 \in Nat
    BY <2>1
  <2>3. o.access \cup a \in Access
    BY <2>1 DEF Access
  <2> QED
    BY <2>2, <2>3, Zenon
<1>3. Widen(o, a) = [o EXCEPT !.seqid = q, !.access = b] /\ Narrow(o, a) = [o EXCEPT !.seqid = q, !.access = a]
  BY <1>2 DEF Opens, Widen, Narrow
<1>4. Widen(o, a) \in Opens /\ Narrow(o, a) \in Opens
  BY <1>3 DEF Opens
<1> QED
  BY <1>1, <1>4

\* The kinds of operations.
LEMMA OpIs ==
    ASSUME NEW r \in Requests
    PROVE  r.op \in {"open", "close", "downgrade", "lock", "unlock", "free", "io", "make"}
BY SessionsAssumption DEF Requests

\* The open file: a new open, the one there is with more or less access, or none.
LEMMA OpensEffect ==
    ASSUME Types, NEW c \in runs, Eval(c)
    PROVE  /\ c.req \in Requests /\ next' \in Counters /\ next'.sess = next.sess /\ next'.client = next.client
           /\ next'.other >= next.other /\ opens' \subseteq Opens /\ locks' \subseteq Ids /\ made' \subseteq Nat
           /\ \A i \in locks' : i \in locks \/ i = NewOther
           /\ \/ /\ c.req.op = "open" /\ opens = {} /\ next'.other = next.other + 1
                 /\ \E o \in Opens : opens' = {o} /\ o.id = NewOther /\ o.access = c.req.access
              \/ /\ c.req.op = "open" /\ opens # {} /\ opens' = {Widen(o, c.req.access) : o \in opens}
              \/ /\ c.req.op = "downgrade"
                 /\ opens' = {IF o.id = c.req.id THEN Narrow(o, c.req.access) ELSE o : o \in opens}
              \/ c.req.op \in {"close", "free"} /\ opens' = {o \in opens : o.id # c.req.id}
              \/ c.req.op \in {"lock", "unlock", "io", "make"} /\ opens' = opens
           /\ \A i \in locks' \ locks : next'.other = next.other + 1
<1>0. /\ c.req \in Requests /\ c.req.access \in Access /\ c.req.num \in Nat /\ opens \subseteq Opens /\ locks \subseteq Ids
      /\ next \in Counters /\ made \subseteq Nat
  BY RunFields, ReqFields DEF Types, Counters
<1>1. NewOther \in Ids /\ next.other \in Nat
  BY <1>0 DEF Types, Counters, NewOther, Ids
<1>2. PICK up : up = [next EXCEPT !.other = @ + 1]
  OBVIOUS
<1>3. up \in Counters /\ up.other = next.other + 1 /\ up.client = next.client /\ up.sess = next.sess
  BY <1>0, <1>2, Counting
<1>4. next.other + 1 >= next.other /\ next.other >= next.other
  BY <1>1
<1>5. CASE c.req.op = "open"
  <2>1. EvalOpen(c.req)
    BY <1>5 DEF Eval
  <2>2. CASE opens = {}
    <3>1. opens' = {[id |-> NewOther, seqid |-> 1, access |-> c.req.access]} /\ next' = up /\ UNCHANGED <<locks, made>>
      BY <1>2, <2>1, <2>2 DEF EvalOpen
    <3>2. PICK o : o = [id |-> NewOther, seqid |-> 1, access |-> c.req.access]
      OBVIOUS
    <3>3. o \in Opens /\ o.id = NewOther /\ o.access = c.req.access
      BY <1>0, <1>1, <3>2 DEF Opens
    <3> QED
      BY <1>0, <1>3, <1>4, <1>5, <2>2, <3>1, <3>2, <3>3
  <2>3. CASE opens # {}
    <3>1. opens' = {Widen(o, c.req.access) : o \in opens} /\ UNCHANGED <<next, locks, made>>
      BY <2>1, <2>3 DEF EvalOpen, Widen
    <3>2. opens' \subseteq Opens
      BY <1>0, <3>1, OpenFields
    <3> QED
      BY <1>0, <1>4, <1>5, <2>3, <3>1, <3>2
  <2> QED
    BY <2>2, <2>3
<1>6. CASE c.req.op = "downgrade"
  <2>1. opens' = {IF o.id = c.req.id THEN Narrow(o, c.req.access) ELSE o : o \in opens} /\ UNCHANGED <<next, locks, made>>
    BY <1>6 DEF Eval, EvalDowngrade, Narrow
  <2>2. opens' \subseteq Opens
    BY <1>0, <2>1, OpenFields
  <2> QED
    BY <1>0, <1>4, <1>6, <2>1, <2>2
<1>7. CASE c.req.op = "close"
  <2>1. opens' = {o \in opens : o.id # c.req.id} /\ UNCHANGED <<next, locks, made>>
    BY <1>7 DEF Eval, EvalClose
  <2> QED
    BY <1>0, <1>4, <1>7, <2>1
<1>8. CASE c.req.op = "free"
  <2>1. opens' = {o \in opens : o.id # c.req.id} /\ locks' = locks \ {c.req.id} /\ UNCHANGED <<next, made>>
    BY <1>8 DEF Eval, EvalFree
  <2> QED
    BY <1>0, <1>4, <1>8, <2>1
<1>9. CASE c.req.op = "lock"
  <2>1. /\ opens' = opens /\ made' = made
        /\ (locks' = locks \cup {NewOther} /\ next' = up) \/ UNCHANGED <<locks, next>>
    BY <1>2, <1>9 DEF Eval, EvalLock
  <2> QED
    BY <1>0, <1>1, <1>3, <1>4, <1>9, <2>1
<1>10. CASE c.req.op = "make"
  <2>1. made' = made \cup {c.req.num} /\ UNCHANGED <<opens, locks, next>>
    BY <1>10 DEF Eval, EvalMake
  <2> QED
    BY <1>0, <1>4, <1>10, <2>1
<1>11. CASE c.req.op \in {"unlock", "io"}
  <2>1. UNCHANGED <<opens, locks, next, made>>
    BY <1>11 DEF Eval
  <2> QED
    BY <1>0, <1>4, <1>11, <2>1
<1> QED
  BY <1>0, <1>5, <1>6, <1>7, <1>8, <1>9, <1>10, <1>11, OpIs

\* What an operation comes to.
LEMMA ResultIs ==
    ASSUME Types, NEW c \in runs, Eval(c)
    PROVE  /\ Result(c.req) \in Results
           /\ c.req.op = "open" => Result(c.req).status = "ok" /\ \E o \in opens' : Result(c.req).id = o.id
           /\ c.req.op \in {"close", "downgrade"} => (Result(c.req).status = "ok" <=> \E o \in opens : o.id = c.req.id)
           /\ c.req.op = "lock" /\ Result(c.req).status = "ok" => Result(c.req).id = NewOther /\ next'.other = next.other + 1
           /\ c.req.op \notin {"open", "lock"} => Result(c.req).id \in {NoId, c.req.id}
           /\ c.req.op = "lock" /\ Result(c.req).status # "ok" => Result(c.req).id = NoId
<1>0. /\ c.req \in Requests /\ c.req.access \in Access /\ c.req.id \in AnyId /\ NewOther \in AnyId /\ NoId \in AnyId
      /\ {} \in Access /\ opens' \subseteq Opens
  BY RunFields, ReqFields, OpensEffect DEF Types, NewOther, Ids, AnyId, Counters, Access
<1>1. PICK bad \in Results : bad = Fail("BAD_STATEID") /\ bad.status # "ok" /\ bad.id = NoId
  BY Says DEF Status
<1>2. PICK res \in Results : res = Res("ok", c.req.id, {}) /\ res.status = "ok" /\ res.id = c.req.id
  BY <1>0, Says DEF Status
<1>3. CASE c.req.op = "open"
  <2>1. opens' # {}
    BY <1>3, OpensEffect
  <2>2. PICK o \in opens' : o = CHOOSE p \in opens' : TRUE
    BY <2>1
  <2>3. Result(c.req) = Res("ok", o.id, o.access)
    BY <1>3, <2>2 DEF Result
  <2>4. o.id \in AnyId /\ o.access \in Access
    BY <1>0, CellFields DEF AnyId
  <2>5. PICK x \in Results : x = Res("ok", o.id, o.access) /\ x.status = "ok" /\ x.id = o.id
    BY <2>4, Says DEF Status
  <2> QED
    BY <1>3, <2>3, <2>5
<1>4. CASE c.req.op = "close"
  <2>1. Result(c.req) = IF \E o \in opens : o.id = c.req.id THEN res ELSE bad
    BY <1>1, <1>2, <1>4 DEF Result
  <2> QED
    BY <1>1, <1>2, <1>4, <2>1
<1>5. CASE c.req.op = "downgrade"
  <2>1. PICK x \in Results : x = Res("ok", c.req.id, c.req.access) /\ x.status = "ok" /\ x.id = c.req.id
    BY <1>0, Says DEF Status
  <2>2. Result(c.req) = IF \E o \in opens : o.id = c.req.id THEN x ELSE bad
    BY <1>1, <1>5, <2>1 DEF Result
  <2> QED
    BY <1>1, <1>5, <2>1, <2>2
<1>6. CASE c.req.op = "lock"
  <2>1. PICK x \in Results : x = Res("ok", NewOther, {}) /\ x.status = "ok" /\ x.id = NewOther
    BY <1>0, Says DEF Status
  <2>2. Result(c.req) = IF \E o \in opens : o.id = c.req.id THEN x ELSE bad
    BY <1>1, <1>6, <2>1 DEF Result
  <2>3. (\E o \in opens : o.id = c.req.id) => next' = [next EXCEPT !.other = @ + 1]
    BY <1>6 DEF Eval, EvalLock
  <2>4. (\E o \in opens : o.id = c.req.id) => next'.other = next.other + 1
    BY <2>3 DEF Types
  <2> QED
    BY <1>1, <1>6, <2>1, <2>2, <2>4
<1>7. CASE c.req.op = "unlock"
  <2>1. Result(c.req) = IF c.req.id \in locks THEN res ELSE bad
    BY <1>1, <1>2, <1>7 DEF Result
  <2> QED
    BY <1>1, <1>2, <1>7, <2>1
<1>8. CASE c.req.op = "free"
  <2>1. Result(c.req) = res
    BY <1>2, <1>8 DEF Result
  <2> QED
    BY <1>2, <1>8, <2>1
<1>9. CASE c.req.op = "io"
  <2>1. PICK x \in Results : x = Fail("STALE_STATEID") /\ x.id = NoId
    BY Says DEF Status
  <2>2. Result(c.req) \in {res, x, bad}
    BY <1>1, <1>2, <1>9, <2>1 DEF Result
  <2> QED
    BY <1>1, <1>2, <1>9, <2>1, <2>2
<1>10. CASE c.req.op = "make"
  <2>1. PICK x \in Results, y \in Results : x = Fail("EXIST") /\ x.id = NoId /\ y = Res("ok", NoId, {}) /\ y.id = NoId
    BY <1>0, Says DEF Status
  <2>2. Result(c.req) \in {x, y}
    BY <1>10, <2>1 DEF Result
  <2> QED
    BY <1>10, <2>1, <2>2
<1> QED
  BY <1>0, <1>3, <1>4, <1>5, <1>6, <1>7, <1>8, <1>9, <1>10, OpIs

\* A compound is evaluated, and what it came to is noted the first time.
LEMMA EvalEffect ==
    ASSUME Types, NEW c \in runs, Eval(c)
    PROVE  \E d \in Runs :
             /\ c \in Runs /\ c.pc = "eval" /\ runs' = (runs \ {c}) \cup {d} /\ d.req = c.req /\ d.pc = "end" /\ d.res = Result(c.req)
             /\ \/ Ran(c.req) /\ twice' = twice \cup {Tag(c.req)} /\ result' = result
                \/ /\ ~ Ran(c.req) /\ twice' = twice
                   /\ \E e \in Entries : result' = result \cup {e} /\ e.tag = Tag(c.req) /\ e.res = Result(c.req)
             /\ UNCHANGED <<boot, client, slots, wire, back, mac, n, raced>>
<1>1. c \in Runs /\ c.req \in Requests
  BY RunFields DEF Types
<1>2. PICK x \in Results : x = Result(c.req)
  BY ResultIs
<1>3. PICK d : d = Ended(c, x)
  OBVIOUS
<1>4. d \in Runs /\ d.req = c.req /\ d.pc = "end" /\ d.res = x
  BY <1>1, <1>3, RunFields
<1>5. PICK e : e = [tag |-> Tag(c.req), res |-> x]
  OBVIOUS
<1>6. e \in Entries /\ e.tag = Tag(c.req) /\ e.res = x
  BY <1>1, <1>5, ReqFields DEF Entries
<1>7. runs' = (runs \ {c}) \cup {d}
  BY <1>2, <1>3 DEF Eval, Ended
<1>8. /\ c.pc = "eval" /\ twice' = (IF Ran(c.req) THEN twice \cup {Tag(c.req)} ELSE twice)
      /\ result' = (IF Ran(c.req) THEN result ELSE result \cup {e})
      /\ UNCHANGED <<boot, client, slots, wire, back, mac, n, raced>>
  BY <1>2, <1>5 DEF Eval
<1> QED
  BY <1>1, <1>2, <1>4, <1>6, <1>7, <1>8

\* The end of a compound: its slot takes the sequence id and the reply.
LEMMA FinishEffect ==
    ASSUME Types, NEW c \in runs, Finish(c)
    PROVE  /\ c \in Runs /\ c.req \in Requests /\ c.res \in Results /\ c.pc = "end" /\ runs' = runs \ {c}
           /\ DOMAIN slots' = DOMAIN slots
           /\ \A s \in DOMAIN slots, k \in Slot :
                 IF s = c.req.sess /\ k = c.req.slot
                 THEN /\ slots'[s][k].seqid = c.req.seqid /\ slots'[s][k].reply = (IF c.req.cache THEN c.res ELSE NoReq)
                      /\ slots'[s][k].uncached = ~ c.req.cache
                 ELSE slots'[s][k] = slots[s][k]
           /\ \A s \in DOMAIN slots : slots'[s] \in [Slot -> Cells]
           /\ Replies1(c.req, c.res)
           /\ UNCHANGED <<boot, client, opens, locks, next, made, wire, mac, n, hist>>
<1>1. c \in Runs /\ c.req \in Requests /\ c.res \in Results /\ c.res \in Answers
  BY RunFields DEF Types
<1>2. c.req.slot \in Slot /\ c.req.seqid \in Nat /\ c.req.cache \in BOOLEAN
  BY <1>1, ReqFields
<1>3. PICK cell : cell = Record(c.req, c.res)
  OBVIOUS
<1>4. /\ cell.seqid = c.req.seqid /\ cell.reply = (IF c.req.cache THEN c.res ELSE NoReq) /\ cell.uncached = ~ c.req.cache
      /\ cell \in Cells
  <2>1. PICK rep \in Results \cup {NoReq} : rep = IF c.req.cache THEN c.res ELSE NoReq
    BY <1>1
  <2>2. PICK un \in BOOLEAN : un = ~ c.req.cache
    BY <1>2
  <2>3. cell = [seqid |-> c.req.seqid, reply |-> rep, uncached |-> un]
    BY <1>3, <2>1, <2>2 DEF Record
  <2> QED
    BY <1>2, <2>1, <2>2, <2>3 DEF Cells
<1>5. /\ c.pc = "end" /\ runs' = runs \ {c} /\ Send(c.req, c.res)
      /\ slots' = [s \in DOMAIN slots |-> IF s = c.req.sess THEN [slots[s] EXCEPT ![c.req.slot] = cell] ELSE slots[s]]
      /\ UNCHANGED <<boot, client, opens, locks, next, made, wire, mac, n, hist>>
  BY <1>3 DEF Finish
<1>6. \A s \in DOMAIN slots : slots[s] \in [Slot -> Cells]
  BY DEF Types
<1>7. Replies1(c.req, c.res)
  BY <1>1, <1>5, SendEffect
<1>8. DOMAIN slots' = DOMAIN slots
  BY <1>5
<1>9. ASSUME NEW s \in DOMAIN slots
      PROVE  /\ slots'[s] \in [Slot -> Cells]
             /\ \A k \in Slot : slots'[s][k] = IF s = c.req.sess /\ k = c.req.slot THEN cell ELSE slots[s][k]
  <2>1. slots'[s] = IF s = c.req.sess THEN [slots[s] EXCEPT ![c.req.slot] = cell] ELSE slots[s]
    BY <1>5
  <2>2. PICK f \in [Slot -> Cells] : f = slots[s]
    BY <1>6
  <2>3. [f EXCEPT ![c.req.slot] = cell] \in [Slot -> Cells]
    BY <1>4
  <2>4. \A k \in Slot : [f EXCEPT ![c.req.slot] = cell][k] = IF k = c.req.slot THEN cell ELSE f[k]
    OBVIOUS
  <2> QED
    BY <2>1, <2>2, <2>3, <2>4
<1> QED
  BY <1>1, <1>4, <1>5, <1>7, <1>8, <1>9

\* What the client keeps of an answer.
Keeping(m, i, a, l) == [m EXCEPT !.open = i, !.access = a, !.lock = l]

\* It leaves the rest of the client alone.
LEMMA MacKeeps ==
    ASSUME NEW m \in Macs, NEW i \in AnyId, NEW a \in Access, NEW l \in AnyId
    PROVE  /\ Keeping(m, i, a, l) \in Macs /\ Keeping(m, i, a, l).verf = m.verf /\ Keeping(m, i, a, l).conn = m.conn
           /\ Keeping(m, i, a, l).id = m.id /\ Keeping(m, i, a, l).sess = m.sess /\ Keeping(m, i, a, l).seqid = m.seqid
           /\ Keeping(m, i, a, l).req = m.req /\ Keeping(m, i, a, l).open = i /\ Keeping(m, i, a, l).access = a
           /\ Keeping(m, i, a, l).lock = l
BY DEF Macs, Keeping

\* What the client makes of an answer.
LEMMA AfterIs ==
    ASSUME Types, NEW r \in Requests, NEW res \in Answers
    PROVE  \E i \in AnyId, a \in Access, l \in AnyId :
             /\ After(r, res) = Keeping(mac, i, a, l)
             /\ \/ /\ res.status # "ok" \/ r.op \notin {"open", "close", "downgrade", "lock", "free"}
                   /\ i = mac.open /\ a = mac.access /\ l = mac.lock
                \/ /\ res.status = "ok" /\ r.op = "open" /\ i = res.id /\ l = mac.lock
                   /\ a = IF res.id = mac.open THEN mac.access \cup r.access ELSE r.access
                \/ res.status = "ok" /\ r.op = "close" /\ i = NoId /\ a = {} /\ l = mac.lock
                \/ res.status = "ok" /\ r.op = "downgrade" /\ i = mac.open /\ a = r.access /\ l = mac.lock
                \/ res.status = "ok" /\ r.op = "lock" /\ i = mac.open /\ a = mac.access /\ l = res.id
                \/ res.status = "ok" /\ r.op = "free" /\ i = mac.open /\ a = mac.access /\ l = NoId
<1>0. /\ mac \in Macs /\ res.id \in AnyId /\ r.access \in Access /\ NoId \in AnyId /\ {} \in Access
      /\ mac.access \in Access /\ mac.open \in AnyId /\ mac.lock \in AnyId
  BY RunFields, ReqFields DEF Types, Macs, AnyId, Access
<1>1. mac = Keeping(mac, mac.open, mac.access, mac.lock)
  BY <1>0 DEF Macs, Keeping
<1>2. CASE res.status = "ok" /\ r.op = "open"
  <2>1. PICK a \in Access : a = IF res.id = mac.open THEN mac.access \cup r.access ELSE r.access
    BY <1>0 DEF Access
  <2>2. After(r, res) = [mac EXCEPT !.open = res.id, !.access = a]
    BY <1>0, <1>2, <2>1 DEF After, Macs
  <2>3. [mac EXCEPT !.open = res.id, !.access = a] = Keeping(mac, res.id, a, mac.lock)
    BY <1>0 DEF Macs, Keeping
  <2> QED
    BY <1>0, <1>2, <2>1, <2>2, <2>3
<1>3. CASE res.status = "ok" /\ r.op = "close"
  <2>1. After(r, res) = [mac EXCEPT !.open = NoId, !.access = {}]
    BY <1>3 DEF After
  <2>2. [mac EXCEPT !.open = NoId, !.access = {}] = Keeping(mac, NoId, {}, mac.lock)
    BY <1>0 DEF Macs, Keeping
  <2> QED
    BY <1>0, <1>3, <2>1, <2>2
<1>4. CASE res.status = "ok" /\ r.op = "downgrade"
  <2>1. After(r, res) = [mac EXCEPT !.access = r.access]
    BY <1>4 DEF After
  <2>2. [mac EXCEPT !.access = r.access] = Keeping(mac, mac.open, r.access, mac.lock)
    BY <1>0 DEF Macs, Keeping
  <2> QED
    BY <1>0, <1>4, <2>1, <2>2
<1>5. CASE res.status = "ok" /\ r.op = "lock"
  <2>1. After(r, res) = [mac EXCEPT !.lock = res.id]
    BY <1>5 DEF After
  <2>2. [mac EXCEPT !.lock = res.id] = Keeping(mac, mac.open, mac.access, res.id)
    BY <1>0 DEF Macs, Keeping
  <2> QED
    BY <1>0, <1>5, <2>1, <2>2
<1>6. CASE res.status = "ok" /\ r.op = "free"
  <2>1. After(r, res) = [mac EXCEPT !.lock = NoId]
    BY <1>6 DEF After
  <2>2. [mac EXCEPT !.lock = NoId] = Keeping(mac, mac.open, mac.access, NoId)
    BY <1>0 DEF Macs, Keeping
  <2> QED
    BY <1>0, <1>6, <2>1, <2>2
<1>7. CASE res.status # "ok" \/ r.op \notin {"open", "close", "downgrade", "lock", "free"}
  <2>1. After(r, res) = mac
    BY <1>7 DEF After
  <2> QED
    BY <1>0, <1>1, <1>7, <2>1
<1> QED
  BY <1>2, <1>3, <1>4, <1>5, <1>6, <1>7

\* The client reads an answer: to nothing it waits for, of a session that has gone, or
\* the end of its request.
LEMMA AcceptEffect ==
    ASSUME Types, NEW m \in back, Accept(m)
    PROVE  /\ m.req \in Requests /\ m.res \in Answers /\ back' = back \ {m} /\ UNCHANGED <<server, wire, n, hist>>
           /\ \/ mac' = mac
              \/ /\ mac.req[m.req.slot] = m.req /\ m.res.status = "BADSESSION" /\ mac' \in Macs /\ Apart(mac') /\ mac'.id = mac.id
                 /\ mac'.sess = (IF mac.sess = m.req.sess THEN 0 ELSE mac.sess) /\ mac'.seqid = mac.seqid /\ mac'.req = mac.req
              \/ /\ mac.req[m.req.slot] = m.req /\ m.res.status # "BADSESSION"
                 /\ mac' = Through(After(m.req, m.res), m.req.slot)
<1>1. m.req \in Requests /\ m.res \in Answers /\ mac \in Macs
  BY RunFields DEF Types
<1>2. back' = back \ {m} /\ UNCHANGED <<server, wire, n, hist>>
  BY DEF Accept
<1>3. CASE mac.req[m.req.slot] # m.req
  BY <1>1, <1>2, <1>3 DEF Accept
<1>4. CASE mac.req[m.req.slot] = m.req /\ m.res.status = "BADSESSION"
  <2>1. PICK x \in Nat : x = IF mac.sess = m.req.sess THEN 0 ELSE mac.sess
    BY <1>1 DEF Macs
  <2>2. mac' = WithSess(mac, x)
    BY <1>1, <1>4, <2>1 DEF Accept, WithSess, Macs
  <2> QED
    BY <1>1, <1>2, <1>4, <2>1, <2>2, MacMoves DEF Apart
<1>5. CASE mac.req[m.req.slot] = m.req /\ m.res.status # "BADSESSION"
  BY <1>1, <1>2, <1>5 DEF Accept, Through
<1> QED
  BY <1>3, <1>4, <1>5

\* The kinds of steps.
LEMMA Kinds ==
    ASSUME [Next]_vars
    PROVE  \/ ExchangeId \/ CreateSession \/ LoseConn \/ ClientRestart \/ ServerRestart
           \/ (\E k \in Slot : Call(k)) \/ (\E k \in Slot : Resend(k)) \/ (\E r \in wire : Receive(r))
           \/ (\E c \in runs : Eval(c)) \/ (\E c \in runs : Finish(c)) \/ (\E m \in back : Accept(m)) \/ UNCHANGED vars
BY DEF Next


-----------------------------------------------------------------------------
(***************************************************************************)
(* The types are kept.                                                     *)
(***************************************************************************)
\* A step of the server's records, the client and the wires keeps the types.
LEMMA TypesKept ==
    ASSUME Types, [Next]_vars
    PROVE  Types'
<1>0. /\ next \in Counters /\ client \in Clients /\ mac \in Macs /\ boot \in Nat /\ mac.req \in [Slot -> Requests \cup {NoReq}]
      /\ \A k \in Slot : mac.req[k] # NoReq => mac.req[k] \in Requests
  BY DEF Types, Counters, Clients, Macs
<1>1. CASE ExchangeId
  BY <1>1, ExchangeEffect DEF Types, hist, Counters, Clients
<1>2. CASE CreateSession
  <2>1. DOMAIN slots' \subseteq Nat /\ \A s \in DOMAIN slots' : slots'[s] \in [Slot -> Cells]
    BY <1>0, <1>2, CreateEffect, CellFields, Counting, ZenonT(60) DEF Types
  <2> QED
    BY <1>2, <2>1, CreateEffect DEF Types, hist, Counters
<1>3. CASE LoseConn
  <2>1. mac' \in Macs /\ \A k \in Busy : mac'.req[k] \in Requests
    BY <1>3, LoseEffect, AgainEffect
  <2> QED
    BY <1>3, <2>1, LoseEffect DEF Types, hist, server
<1>4. CASE ClientRestart
  BY <1>4, ClientEffect DEF Types, hist, server
<1>5. CASE ServerRestart
  <2>1. mac' \in Macs /\ \A k \in Busy : mac'.req[k] \in Requests
    BY <1>5, RestartEffect, AgainEffect
  <2>2. wire' \subseteq Requests /\ boot' \in Nat
    BY <1>0, <1>5, <2>1, RestartEffect
  <2>3. /\ client' \in Clients /\ DOMAIN slots' = {} /\ opens' = {} /\ locks' = {} /\ runs' = {} /\ back' = {}
        /\ n' \in [req : Nat, fault : Nat] /\ UNCHANGED <<next, made, hist>>
    BY <1>5, RestartEffect
  <2> QED
    BY <2>1, <2>2, <2>3 DEF Types, hist, Clients
<1>6. ASSUME NEW k \in Slot, Call(k) PROVE Types'
  <2>1. PICK r \in Requests : wire' = wire \cup {r} /\ mac' \in Macs /\ n' \in [req : Nat, fault : Nat] /\ UNCHANGED <<server, back, hist>>
    BY <1>6, CallEffect
  <2> QED
    BY <2>1 DEF Types, hist, server
<1>7. ASSUME NEW k \in Slot, Resend(k) PROVE Types'
  <2>1. PICK r \in Requests : wire' = wire \cup {r} /\ mac' \in Macs /\ UNCHANGED <<server, back, n, hist>>
    BY <1>7, ResendEffect
  <2> QED
    BY <2>1 DEF Types, hist, server
<1>8. ASSUME NEW r \in wire, Receive(r) PROVE Types'
  <2>1. back' \subseteq Replies /\ runs' \subseteq Runs
    BY <1>8, ReceiveEffect DEF Types, Replies1
  <2>2. raced' \subseteq Nat \X Slot
    <3>1. Place(r) \in Nat \X Slot
      BY ReqFields DEF Types, Place
    <3> QED
      BY <1>8, <3>1, ReceiveEffect DEF Types
  <2> QED
    BY <1>8, <2>1, <2>2, ReceiveEffect DEF Types
<1>9. ASSUME NEW c \in runs, Eval(c) PROVE Types'
  <2>1. PICK d \in Runs :
             /\ runs' = (runs \ {c}) \cup {d}
             /\ \/ Ran(c.req) /\ twice' = twice \cup {Tag(c.req)} /\ result' = result
                \/ /\ ~ Ran(c.req) /\ twice' = twice
                   /\ \E e \in Entries : result' = result \cup {e}
             /\ UNCHANGED <<boot, client, slots, wire, back, mac, n, raced>>
    BY <1>9, EvalEffect
  <2>2. Tag(c.req) \in Tags
    BY RunFields, ReqFields DEF Types
  <2>3. /\ next' \in Counters /\ opens' \subseteq Opens /\ locks' \subseteq Ids /\ made' \subseteq Nat
    BY <1>9, OpensEffect
  <2> QED
    BY <2>1, <2>2, <2>3 DEF Types, Counters
<1>10. ASSUME NEW c \in runs, Finish(c) PROVE Types'
  <2>1. back' \subseteq Replies /\ runs' \subseteq Runs
    BY <1>10, FinishEffect DEF Types, Replies1
  <2> QED
    BY <1>10, <2>1, FinishEffect DEF Types, hist
<1>11. ASSUME NEW m \in back, Accept(m) PROVE Types'
  <2>1. mac' \in Macs
    <3>1. CASE mac' = Through(After(m.req, m.res), m.req.slot)
      <4>1. m.req \in Requests /\ m.res \in Answers /\ m.req.slot \in Slot
        BY RunFields, ReqFields DEF Types
      <4>2. PICK i \in AnyId, a \in Access, l \in AnyId : After(m.req, m.res) = Keeping(mac, i, a, l)
        BY <4>1, AfterIs
      <4>3. After(m.req, m.res) \in Macs
        BY <1>0, <4>2, MacKeeps
      <4> QED
        BY <3>1, <4>1, <4>3, MacThrough
    <3> QED
      BY <1>0, <1>11, <3>1, AcceptEffect
  <2> QED
    BY <1>11, <2>1, AcceptEffect DEF Types, hist, server
<1>12. CASE UNCHANGED vars
  BY <1>12 DEF Types, vars, hist, server
<1> QED
  BY <1>1, <1>2, <1>3, <1>4, <1>5, <1>6, <1>7, <1>8, <1>9, <1>10, <1>11, <1>12, Kinds

-----------------------------------------------------------------------------
(***************************************************************************)
(* The numbers in use have been given.                                     *)
(***************************************************************************)
\* What was numbered stays so.
Onwards == next'.other >= next.other /\ next'.sess >= next.sess /\ boot' >= boot /\ mac'.conn >= mac.conn
Sent1(r) == Sent(r, next'.sess, next'.other, boot', mac'.conn)
Old1(i) == Old(i, next'.other, boot')
\* Every number in use is still below the counters.
LEMMA StillNumbered ==
    ASSUME Types, Types', Numbered, Onwards
    PROVE  /\ mac.sess < next'.sess /\ Old1(mac.open) /\ Old1(mac.lock) /\ Old1(NoId)
           /\ \A s \in DOMAIN slots :
                 s >= 1 /\ s < next'.sess /\ \A k \in Slot : slots[s][k].reply # NoReq => Old1(slots[s][k].reply.id)
           /\ (\A r \in wire : Sent1(r)) /\ (\A k \in Slot : mac.req[k] # NoReq => Sent1(mac.req[k]))
           /\ (\A c \in runs : Sent1(c.req) /\ Old1(c.res.id))
           /\ (\A m \in back : Sent1(m.req) /\ Old1(m.res.id))
           /\ (\A e \in result : e.tag.sess >= 1 /\ e.tag.sess < next'.sess /\ Old1(e.res.id))
<1>1. PICK o \in Nat, p \in Nat, s \in Nat, t \in Nat, a \in Nat, b \in Nat, c \in Nat, d \in Nat :
         a = boot /\ b = boot' /\ o = next.other /\ p = next'.other /\ s = next.sess /\ t = next'.sess /\ c = mac.conn /\ d = mac'.conn
  BY DEF Types, Macs
<1>2. p >= o /\ t >= s /\ b >= a /\ d >= c
  BY <1>1 DEF Onwards
<1>3. /\ \A i \in AnyId : Old(i, o, a) => Old1(i)
      /\ \A r \in Requests : Sent(r, s, o, a, c) => Sent1(r)
  <2>1. \A i \in AnyId : i # NoId => i[2] \in Nat /\ i[1] \in Nat
    BY DEF AnyId, Ids
  <2>2. \A i \in AnyId : Old(i, o, a) => Old1(i)
    BY <1>1, <1>2, <2>1 DEF Old, Old1
  <2>3. \A r \in Requests : r.sess \in Nat /\ r.conn \in Nat /\ r.id \in AnyId
    BY ReqFields
  <2>4. \A r \in Requests : Sent(r, s, o, a, c) => Sent1(r)
    BY <1>1, <1>2, <2>2, <2>3 DEF Sent, Sent1, Old1
  <2> QED
    BY <2>2, <2>4
<1>4. mac.open \in AnyId /\ mac.lock \in AnyId /\ mac.sess \in Nat /\ \A k \in Slot : mac.req[k] # NoReq => mac.req[k] \in Requests
  BY DEF Types, Macs
<1>5. \A z \in DOMAIN slots : z \in Nat /\ \A k \in Slot : slots[z][k].reply # NoReq => slots[z][k].reply.id \in AnyId
  BY CellFields, RunFields DEF Types
<1>6. mac.sess < t /\ Old1(mac.open) /\ Old1(mac.lock)
  BY <1>1, <1>2, <1>3, <1>4 DEF Numbered, MacNumbers
<1>7. \A z \in DOMAIN slots : z >= 1 /\ z < t /\ \A k \in Slot : slots[z][k].reply # NoReq => Old1(slots[z][k].reply.id)
  BY <1>1, <1>2, <1>3, <1>5 DEF Numbered, SlotNumbers
<1>8. (\A r \in wire : Sent1(r)) /\ \A k \in Slot : mac.req[k] # NoReq => Sent1(mac.req[k])
  BY <1>1, <1>3, <1>4 DEF Numbered, WireNumbers, CallNumbers, Types
<1>9. \A x \in runs : Sent1(x.req) /\ Old1(x.res.id)
  BY <1>1, <1>3, RunFields DEF Numbered, RunNumbers, Types
<1>10. \A m \in back : Sent1(m.req) /\ Old1(m.res.id)
  BY <1>1, <1>3, RunFields DEF Numbered, ReplyNumbers, Types
<1>11. \A e \in result : e.tag.sess >= 1 /\ e.tag.sess < t /\ Old1(e.res.id)
  <2>1. \A e \in result : e.tag.sess \in Nat /\ e.res.id \in AnyId
    BY RunFields, TagIs DEF Types
  <2> QED
    BY <1>1, <1>2, <1>3, <2>1 DEF Numbered, EntryNumbers
<1>12. Old1(NoId)
  BY DEF Old, Old1
<1> QED
  BY <1>1, <1>6, <1>7, <1>8, <1>9, <1>10, <1>11, <1>12

\* The numbers in use have been given, after every step.
LEMMA NumberedKept ==
    ASSUME Types, Types', Numbered, [Next]_vars
    PROVE  Numbered'
<1>0. /\ next \in Counters /\ client \in Clients /\ mac \in Macs /\ boot \in Nat /\ mac.conn \in Nat /\ mac.id \in Nat /\ mac.sess \in Nat
      /\ next.client \in Nat /\ next.sess \in Nat /\ next.other \in Nat /\ client.id \in Nat
      /\ \A k \in Slot : mac.req[k] # NoReq => mac.req[k] \in Requests
  BY DEF Types, Counters, Clients, Macs
<1> USE DEF Numbered, MacNumbers, SlotNumbers, WireNumbers, CallNumbers, RunNumbers, ReplyNumbers, EntryNumbers, OpenNumbers, Sent1, Old1
<1>1. CASE ExchangeId
  <2>1. Onwards
    BY <1>0, <1>1, ExchangeEffect DEF Onwards, Apart
  <2>2. client'.id < next'.client /\ OpenNumbers'
    BY <1>0, <1>1, ExchangeEffect
  <2> QED
    BY <1>1, <2>1, <2>2, StillNumbered, ExchangeEffect DEF Apart, hist
<1>2. CASE CreateSession
  <2>1. Onwards
    BY <1>0, <1>2, CreateEffect DEF Onwards, Apart
  <2>2. MacNumbers' /\ SlotNumbers'
    BY <1>0, <1>2, <2>1, StillNumbered, CreateEffect, CellFields DEF Apart
  <2> QED
    BY <1>2, <2>1, <2>2, StillNumbered, CreateEffect DEF Apart, hist
<1>3. CASE LoseConn
  <2>1. Onwards
    BY <1>0, <1>3, LoseEffect, AgainEffect DEF Onwards, server
  <2>2. \A k \in Slot : mac'.req[k] # NoReq => Sent1(mac'.req[k])
    <3>1. /\ mac'.conn = mac.conn + 1 /\ mac'.sess = mac.sess /\ mac'.open = mac.open /\ mac'.lock = mac.lock
          /\ (\A k \in Slot \ Busy : mac'.req[k] = NoReq) /\ Busy \subseteq Slot
          /\ \A k \in Busy : mac.req[k] # NoReq /\ Alike(mac'.req[k], mac.req[k]) /\ mac'.req[k].conn = mac.conn + 1
      BY <1>3, LoseEffect, AgainEffect DEF Busy
    <3>2. \A k \in Busy : Sent1(mac.req[k])
      BY <2>1, <3>1, StillNumbered
    <3>3. \A k \in Busy : Sent1(mac'.req[k])
      BY <1>0, <3>1, <3>2 DEF Sent, Alike
    <3> QED
      BY <3>1, <3>3
  <2>3. /\ mac'.sess = mac.sess /\ mac'.open = mac.open /\ mac'.lock = mac.lock /\ back' = {} /\ UNCHANGED <<server, hist>>
        /\ (\A k \in Busy : k \in Slot /\ mac'.req[k] \in Requests)
        /\ \A r \in wire' : r \in wire \/ \E k \in Busy : r = mac'.req[k]
    BY <1>3, LoseEffect, AgainEffect
  <2>4. WireNumbers'
    BY <2>1, <2>2, <2>3, StillNumbered, ReqFields
  <2> QED
    BY <2>1, <2>2, <2>3, <2>4, StillNumbered DEF hist, server
<1>4. CASE ClientRestart
  <2>1. Onwards
    BY <1>0, <1>4, ClientEffect DEF Onwards, server
  <2> QED
    BY <1>0, <1>4, <2>1, StillNumbered, ClientEffect DEF hist, server
<1>5. CASE ServerRestart
  <2>1. Onwards
    BY <1>0, <1>5, RestartEffect, AgainEffect DEF Onwards
  <2>2. \A k \in Slot : mac'.req[k] # NoReq => Sent1(mac'.req[k])
    <3>1. /\ mac'.conn = mac.conn + 1 /\ mac'.sess = mac.sess /\ mac'.open = mac.open /\ mac'.lock = mac.lock
          /\ (\A k \in Slot \ Busy : mac'.req[k] = NoReq) /\ Busy \subseteq Slot
          /\ \A k \in Busy : mac.req[k] # NoReq /\ Alike(mac'.req[k], mac.req[k]) /\ mac'.req[k].conn = mac.conn + 1
      BY <1>5, RestartEffect, AgainEffect DEF Busy
    <3>2. \A k \in Busy : Sent1(mac.req[k])
      BY <2>1, <3>1, StillNumbered
    <3>3. \A k \in Busy : Sent1(mac'.req[k])
      BY <1>0, <3>1, <3>2 DEF Sent, Alike
    <3> QED
      BY <3>1, <3>3
  <2>3. /\ mac'.sess = mac.sess /\ mac'.open = mac.open /\ mac'.lock = mac.lock /\ back' = {} /\ UNCHANGED <<next, hist>>
        /\ (\A k \in Busy : k \in Slot /\ mac'.req[k] \in Requests)
        /\ (\A r \in wire' : \E k \in Busy : r = mac'.req[k])
        /\ client'.id = 0 /\ DOMAIN slots' = {} /\ opens' = {} /\ locks' = {} /\ runs' = {}
    BY <1>5, RestartEffect, AgainEffect
  <2>4. WireNumbers' /\ client'.id < next'.client
    BY <1>0, <2>2, <2>3, ReqFields
  <2> QED
    BY <2>1, <2>2, <2>3, <2>4, StillNumbered DEF hist
<1>6. ASSUME NEW k \in Slot, Call(k) PROVE Numbered'
  <2>1. PICK r \in Requests :
             /\ Apart(mac') /\ mac'.sess = mac.sess
             /\ mac'.req[k] = r /\ (\A j \in Slot \ {k} : mac'.req[j] = mac.req[j]) /\ wire' = wire \cup {r}
             /\ mac.sess # 0 /\ r.sess = mac.sess /\ r.conn = mac.conn
             /\ r.id \in {NoId, mac.open, mac.lock} /\ UNCHANGED <<server, back, hist>>
    BY <1>6, CallEffect
  <2>2. Onwards
    BY <1>0, <2>1 DEF Onwards, Apart, server
  <2>3. Sent1(r)
    BY <1>0, <2>1, <2>2, StillNumbered DEF Sent, Apart, server
  <2> QED
    BY <2>1, <2>2, <2>3, StillNumbered DEF Apart, hist, server
<1>7. ASSUME NEW k \in Slot, Resend(k) PROVE Numbered'
  <2>1. PICK r \in Requests :
             /\ Apart(mac') /\ mac'.sess = mac.sess
             /\ mac'.req[k] = r /\ (\A j \in Slot \ {k} : mac'.req[j] = mac.req[j]) /\ wire' = wire \cup {r}
             /\ mac.sess # 0 /\ mac.req[k] # NoReq /\ r.sess = mac.sess /\ r.conn = mac.req[k].conn
             /\ r.id = mac.req[k].id /\ UNCHANGED <<server, back, hist>>
    BY <1>7, ResendEffect
  <2>2. Onwards
    BY <1>0, <2>1 DEF Onwards, Apart, server
  <2>3. Sent1(r)
    BY <1>0, <2>1, <2>2, StillNumbered DEF Sent, Apart, server
  <2> QED
    BY <2>1, <2>2, <2>3, StillNumbered DEF Apart, hist, server
<1>8. ASSUME NEW r \in wire, Receive(r) PROVE Numbered'
  <2>1. Onwards
    BY <1>0, <1>8, ReceiveEffect DEF Onwards
  <2>2. UNCHANGED <<boot, client, slots, opens, locks, next, mac, result>> /\ wire' = wire \ {r}
    BY <1>8, ReceiveEffect
  <2>3. Sent1(r) /\ Sent(r, next.sess, next.other, boot, mac.conn)
    BY <2>1, StillNumbered
  <2>4. \A d \in runs' : d \in runs \/ (d.req = r /\ d.res.id = NoId)
    BY <1>8, ReceiveEffect
  <2>5. \A m \in back' : m \in back \/ (m.req = r /\ Old1(m.res.id))
    <3>1. Seen(r) = "replay" => Live(r) /\ Cell(r).reply # NoReq /\ Cell(r).reply \in Results /\ Old1(Cell(r).reply.id)
      <4>1. r \in Requests /\ r.slot \in Slot
        BY ReqFields DEF Types
      <4> QED
        BY <2>1, <4>1, StillNumbered, SeenIs, CellFields DEF Cell, Live, Types
    <3>2. Old1(NoId)
      BY DEF Old
    <3>3. Seen(r) = "replay" => Old1(Replayed(Cell(r).reply).id)
      BY <3>1, Says
    <3>4. Seen(r) \in OwnErrors => Old1(Fail(Seen(r)).id)
      BY <3>2, Says
    <3> QED
      BY <1>8, <3>3, <3>4, ReceiveEffect DEF Replies1
  <2> QED
    BY <2>1, <2>2, <2>3, <2>4, <2>5, StillNumbered
<1>9. ASSUME NEW c \in runs, Eval(c) PROVE Numbered'
  <2>1. PICK d \in Runs :
             /\ runs' = (runs \ {c}) \cup {d} /\ d.req = c.req /\ d.res = Result(c.req)
             /\ \/ result' = result
                \/ \E e \in Entries : result' = result \cup {e} /\ e.tag = Tag(c.req) /\ e.res = Result(c.req)
             /\ UNCHANGED <<boot, client, slots, wire, back, mac, n, raced>>
    BY <1>9, EvalEffect
  <2>2. Onwards
    BY <1>0, <1>9, <2>1, OpensEffect DEF Onwards
  <2>3. OpenNumbers'
    <3>1. NewOther[1] = boot /\ NewOther[2] = next.other
      BY DEF NewOther
    <3>2. \A i \in locks' : i[1] = boot'
      BY <1>9, <2>1, <3>1, OpensEffect
    <3>3. (\A o \in opens' : o.id[2] < next'.other /\ o.id[1] = boot') /\ (\A o, p \in opens' : o = p)
      <4>1. \A o \in opens : o \in Opens /\ o.id[2] \in Nat
        BY CellFields DEF Types, Ids
      <4>2. c.req.access \in Access
        BY RunFields, ReqFields DEF Types
      <4>3. \A o \in opens : Widen(o, c.req.access).id = o.id /\ Narrow(o, c.req.access).id = o.id
        BY <4>1, <4>2, OpenFields
      <4>4. (\A o \in opens : o.id[2] < next'.other /\ o.id[1] = boot') /\ (\A o, p \in opens : o = p)
        <5>1. next'.other \in Nat
          BY DEF Types
        <5> QED
          BY <1>0, <2>1, <2>2, <4>1, <5>1 DEF Onwards
      <4> QED
        <5>1. CASE c.req.op = "open" /\ opens = {} /\ next'.other = next.other + 1 /\ \E o \in Opens : opens' = {o} /\ o.id = NewOther
          BY <1>0, <2>1, <3>1, <5>1
        <5>2. CASE opens' = {Widen(o, c.req.access) : o \in opens}
          BY <4>3, <4>4, <5>2
        <5>3. CASE opens' = {IF o.id = c.req.id THEN Narrow(o, c.req.access) ELSE o : o \in opens}
          BY <4>3, <4>4, <5>3
        <5>4. CASE opens' \subseteq opens
          BY <4>3, <4>4, <5>4
        <5> QED
          BY <1>9, <5>1, <5>2, <5>3, <5>4, OpensEffect
    <3> QED
      BY <3>2, <3>3
  <2>4. Old1(Result(c.req).id)
    <3>1. CASE c.req.op = "open"
      BY <1>0, <1>9, <2>1, <2>3, <3>1, ResultIs DEF Old
    <3>2. CASE c.req.op # "open"
      <4>1. Old1(c.req.id)
        BY <2>2, StillNumbered DEF Sent
      <4>2. Old1(NoId)
        BY DEF Old
      <4>3. CASE c.req.op # "lock"
        BY <1>9, <3>2, <4>1, <4>2, <4>3, ResultIs
      <4>4. CASE c.req.op = "lock" /\ Result(c.req).status # "ok"
        BY <1>9, <4>2, <4>4, ResultIs
      <4>5. CASE c.req.op = "lock" /\ Result(c.req).status = "ok"
        <5>1. Result(c.req).id = NewOther /\ next'.other = next.other + 1
          BY <1>9, <4>5, ResultIs
        <5> QED
          BY <1>0, <2>1, <5>1 DEF Old, NewOther
      <4> QED
        BY <4>3, <4>4, <4>5
    <3> QED
      BY <3>1, <3>2
  <2>5. c.req \in Requests /\ next'.sess = next.sess /\ next'.client = next.client /\ Tag(c.req).sess = c.req.sess
    BY <1>9, OpensEffect, ReqFields
  <2>6. EntryNumbers'
    BY <2>1, <2>2, <2>4, <2>5, StillNumbered DEF Sent
  <2>7. RunNumbers'
    BY <2>1, <2>2, <2>4, StillNumbered
  <2> QED
    BY <2>1, <2>2, <2>3, <2>5, <2>6, <2>7, StillNumbered
<1>10. ASSUME NEW c \in runs, Finish(c) PROVE Numbered'
  <2>1. Onwards
    BY <1>0, <1>10, FinishEffect DEF Onwards
  <2>2. SlotNumbers'
    BY <1>10, <2>1, StillNumbered, FinishEffect
  <2>3. ReplyNumbers'
    BY <1>10, <2>1, StillNumbered, FinishEffect DEF Replies1
  <2>4. UNCHANGED <<boot, client, opens, locks, next, wire, mac, result>> /\ runs' \subseteq runs
    BY <1>10, FinishEffect DEF hist
  <2> QED
    BY <2>1, <2>2, <2>3, <2>4, StillNumbered
<1>11. ASSUME NEW m \in back, Accept(m) PROVE Numbered'
  <2>1. /\ mac'.conn = mac.conn /\ mac'.sess \in {0, mac.sess} /\ (\A k \in Slot : mac'.req[k] \in {NoReq, mac.req[k]})
        /\ mac'.open \in {NoId, mac.open, m.res.id} /\ mac'.lock \in {NoId, mac.lock, m.res.id}
    <3>1. CASE mac' = Through(After(m.req, m.res), m.req.slot)
      <4>1. m.req \in Requests /\ m.res \in Answers /\ m.req.slot \in Slot
        BY RunFields, ReqFields DEF Types
      <4>2. PICK i \in AnyId, a \in Access, l \in AnyId :
              /\ After(m.req, m.res) = Keeping(mac, i, a, l)
              /\ i \in {NoId, mac.open, m.res.id} /\ l \in {NoId, mac.lock, m.res.id}
        BY <4>1, AfterIs
      <4>3. PICK x \in Macs : x = After(m.req, m.res) /\ x.conn = mac.conn /\ x.sess = mac.sess /\ x.req = mac.req /\ x.open = i /\ x.lock = l
        BY <1>0, <4>2, MacKeeps
      <4> QED
        BY <3>1, <4>1, <4>2, <4>3, MacThrough
    <3> QED
      BY <1>0, <1>11, <3>1, AcceptEffect DEF Apart
  <2>2. Onwards
    BY <1>0, <1>11, <2>1, AcceptEffect DEF Onwards, server
  <2>3. UNCHANGED <<boot, client, opens, locks, next, wire, runs, result, slots>> /\ back' \subseteq back
    BY <1>11, AcceptEffect DEF server, hist
  <2>4. MacNumbers'
    BY <1>0, <2>1, <2>2, <2>3, StillNumbered
  <2> QED
    BY <2>1, <2>2, <2>3, <2>4, StillNumbered
<1>12. CASE UNCHANGED vars
  BY <1>12 DEF vars, hist, server
<1> QED
  BY <1>1, <1>2, <1>3, <1>4, <1>5, <1>6, <1>7, <1>8, <1>9, <1>10, <1>11, <1>12, Kinds

-----------------------------------------------------------------------------
(***************************************************************************)
(* The slots: one compound at a time, and what was run is recorded.        *)
(***************************************************************************)
\* What the slots and the compounds under way are, and what is known of them.
LEMMA SlotFacts ==
    ASSUME Types, Numbered
    PROVE  /\ \A c \in runs : /\ c.req \in Requests /\ c.req.sess \in Nat /\ c.req.slot \in Slot /\ c.req.seqid \in Nat /\ c.req.sess < next.sess
                              /\ c.pc \in {"eval", "end"} /\ c.res \in Results
           /\ \A e \in result : /\ e.tag \in Tags /\ e.tag.sess \in Nat /\ e.tag.slot \in Slot /\ e.tag.seqid \in Nat /\ e.tag.sess < next.sess
                                /\ e.res \in Results
           /\ \A s \in DOMAIN slots : s \in Nat /\ s < next.sess /\ \A k \in Slot : slots[s][k].seqid \in Nat
           /\ next.sess \in Nat
<1>1. \A c \in runs : /\ c.req \in Requests /\ c.req.sess \in Nat /\ c.req.slot \in Slot /\ c.req.seqid \in Nat
                      /\ c.pc \in {"eval", "end"} /\ c.res \in Results
  BY RunFields, ReqFields DEF Types
<1>2. \A c \in runs : c.req.sess < next.sess
  BY DEF Numbered, RunNumbers, Sent
<1>3. \A e \in result : /\ e.tag \in Tags /\ e.tag.sess \in Nat /\ e.tag.slot \in Slot /\ e.tag.seqid \in Nat /\ e.tag.sess < next.sess
                         /\ e.res \in Results
  BY RunFields, TagIs DEF Types, Numbered, EntryNumbers
<1>4. \A s \in DOMAIN slots : s \in Nat /\ s < next.sess /\ \A k \in Slot : slots[s][k].seqid \in Nat
  BY CellFields DEF Types, Numbered, SlotNumbers
<1> QED
  BY <1>1, <1>2, <1>3, <1>4 DEF Types

\* Sessions that end or begin, and answers that go, change nothing of it.
LEMMA SlotsLeft ==
    ASSUME Types, Numbered, Slotted, Agreed, UNCHANGED <<runs, result, raced, twice>>, back' \subseteq back,
           \A s \in DOMAIN slots' : (s \in DOMAIN slots /\ slots'[s] = slots[s]) \/ (s = next.sess /\ slots'[s] = FreshTable)
    PROVE  Slotted' /\ Agreed'
<1>1. OneRun' /\ AtMostOnce'
  BY DEF Slotted, OneRun, AtMostOnce
<1>2. NextUp'
  BY SlotFacts DEF Slotted, NextUp, Live, Cell
<1>3. NotRan'
  BY DEF Slotted, NotRan, Ran
<1>4. Recorded'
  BY SlotFacts DEF Slotted, Recorded, Live, Cell
<1>5. Kept'
  BY CellFields DEF Agreed, Kept
<1>6. AnswersAgree'
  BY DEF Agreed, AnswersAgree
<1> QED
  BY <1>1, <1>2, <1>3, <1>4, <1>5, <1>6 DEF Slotted, Agreed

\* A request arrives: it is the next one of its slot and nobody runs it, or it is answered
\* from the slot.
LEMMA ReceiveSlotted ==
    ASSUME Types, Numbered, Slotted, Agreed, NEW r \in wire, Receive(r)
    PROVE  Slotted' /\ Agreed'
<1>0. /\ r \in Requests /\ r.sess \in Nat /\ r.slot \in Slot /\ r.seqid \in Nat /\ UNCHANGED <<slots, twice, result>>
      /\ Tag(r) \in Tags /\ Tag(r).sess = r.sess /\ Tag(r).slot = r.slot /\ Tag(r).seqid = r.seqid
  BY ReceiveEffect, ReqFields
<1>1. CASE Seen(r) = "new"
  <2>1. PICK d \in Runs : runs' = runs \cup {d} /\ d.req = r /\ d.pc = "eval"
    BY <1>1, ReceiveEffect DEF OwnErrors
  <2>2. /\ back' = back /\ raced \subseteq raced'
        /\ (\E c \in runs : Tag(c.req) = Tag(r)) => Place(r) \in raced'
    BY <1>1, ReceiveEffect DEF OwnErrors
  <2>3. Live(r) /\ r.seqid = Cell(r).seqid + 1
    BY <1>0, <1>1, SeenIs
  <2>4. ASSUME NEW c \in runs, Place(c.req) = Place(r), Place(r) \notin raced' PROVE FALSE
    <3>1. c.req.sess = r.sess /\ c.req.slot = r.slot /\ Live(c.req) /\ Cell(c.req) = Cell(r)
      BY <2>3, <2>4 DEF Place, Live, Cell
    <3>2. c.req.seqid = r.seqid
      BY <2>2, <2>3, <2>4, <3>1 DEF Slotted, NextUp
    <3>3. Tag(c.req) = Tag(r)
      BY <3>1, <3>2 DEF Tag
    <3> QED
      BY <2>2, <2>4, <3>3
  <2>5. OneRun'
    BY <2>1, <2>2, <2>4 DEF Slotted, OneRun
  <2>6. NextUp'
    BY <1>0, <2>1, <2>2, <2>3 DEF Slotted, NextUp, Live, Cell
  <2>7. Place(r) \notin raced' => ~ Ran(r)
    <3> SUFFICES ASSUME Place(r) \notin raced', NEW e \in result, e.tag = Tag(r) PROVE FALSE
      BY DEF Ran
    <3>1. Live(e.tag) /\ Place(e.tag) \notin raced /\ Cell(e.tag) = Cell(r) /\ e.tag.seqid = r.seqid
      BY <1>0, <2>2, <2>3 DEF Live, Cell, Place
    <3>2. Cell(r).seqid \in Nat
      BY <1>0, <2>3, SlotFacts DEF Live, Cell
    <3>3. PICK c \in runs : Tag(c.req) = e.tag
      BY <1>0, <2>3, <3>1, <3>2 DEF Slotted, Recorded
    <3> QED
      BY <2>2, <3>3
  <2>8. NotRan'
    BY <1>0, <2>1, <2>2, <2>7 DEF Slotted, NotRan, Ran
  <2>9. Recorded' /\ AtMostOnce'
    BY <1>0, <2>1, <2>2 DEF Slotted, Recorded, AtMostOnce, Live, Cell
  <2>10. Kept'
    BY <1>0, <2>1, <2>2 DEF Agreed, Kept
  <2>11. AnswersAgree'
    BY <1>0, <2>2 DEF Agreed, AnswersAgree
  <2> QED
    BY <2>5, <2>6, <2>8, <2>9, <2>10, <2>11 DEF Slotted, Agreed
<1>2. CASE Seen(r) # "new"
  <2>1. UNCHANGED <<runs, raced>>
    BY <1>2, ReceiveEffect
  <2>2. Slotted' /\ Kept'
    <3>1. OneRun' /\ AtMostOnce' /\ NotRan'
      BY <1>0, <2>1 DEF Slotted, OneRun, AtMostOnce, NotRan, Ran
    <3>2. NextUp' /\ Recorded' /\ Kept'
      BY <1>0, <2>1 DEF Slotted, NextUp, Recorded, Agreed, Kept, Live, Cell
    <3> QED
      BY <3>1, <3>2 DEF Slotted
  <2>3. CASE Seen(r) = "replay"
    <3>1. Live(r) /\ r.seqid = Cell(r).seqid /\ Cell(r).reply # NoReq /\ Cell(r).reply \in Results
      BY <1>0, <2>3, SeenIs, CellFields DEF Live, Cell, Types
    <3>2. /\ Replayed(Cell(r).reply).status = Cell(r).reply.status /\ Replayed(Cell(r).reply).id = Cell(r).reply.id
          /\ Replayed(Cell(r).reply).access = Cell(r).reply.access
      BY <3>1, Says
    <3>3. Place(r) \in raced \/ \E e \in result : e.tag = Tag(r) /\ e.res = Cell(r).reply
      BY <3>1, <1>0 DEF Agreed, Kept, Live, Cell, Place, Tag
    <3>4. \A m \in back' : m \in back \/ (m.req = r /\ m.res = Replayed(Cell(r).reply))
      BY <2>3, ReceiveEffect DEF Replies1, OwnErrors
    <3>5. AnswersAgree'
      BY <1>0, <2>1, <3>2, <3>3, <3>4 DEF Agreed, AnswersAgree
    <3> QED
      BY <2>2, <3>5 DEF Agreed
  <2>4. CASE Seen(r) \in OwnErrors
    <3>1. \A m \in back' : m \in back \/ m.res.status \in OwnErrors
      BY <1>2, <2>4, ReceiveEffect, Says DEF Replies1, OwnErrors
    <3>2. AnswersAgree'
      BY <1>0, <2>1, <3>1 DEF Agreed, AnswersAgree
    <3> QED
      BY <2>2, <3>2 DEF Agreed
  <2> QED
    BY <1>0, <1>2, <2>3, <2>4, SeenIs
<1> QED
  BY <1>1, <1>2

\* A compound is evaluated: it was not run before, unless it was running twice.
LEMMA EvalSlotted ==
    ASSUME Types, Numbered, Slotted, Agreed, NEW c \in runs, Eval(c)
    PROVE  Slotted' /\ Agreed'
<1>1. PICK d \in Runs :
         /\ c.pc = "eval" /\ runs' = (runs \ {c}) \cup {d} /\ d.req = c.req /\ d.pc = "end" /\ d.res = Result(c.req)
         /\ \/ Ran(c.req) /\ twice' = twice \cup {Tag(c.req)} /\ result' = result
            \/ /\ ~ Ran(c.req) /\ twice' = twice
               /\ \E e \in Entries : result' = result \cup {e} /\ e.tag = Tag(c.req) /\ e.res = Result(c.req)
         /\ UNCHANGED <<slots, back, raced>>
  BY EvalEffect
<1>2. /\ c.req \in Requests /\ Place(Tag(c.req)) = Place(c.req)
  BY SlotFacts, ReqFields
<1>3. Ran(c.req) => Place(c.req) \in raced
  BY <1>1 DEF Slotted, NotRan
<1>4. result \subseteq result' /\ \A e \in result' : e \in result \/ (e.tag = Tag(c.req) /\ e.res = Result(c.req))
  BY <1>1
<1>5. OneRun'
  BY <1>1 DEF Slotted, OneRun
<1>6. NextUp'
  BY <1>1 DEF Slotted, NextUp, Live, Cell
<1>7. NotRan'
  <2> SUFFICES ASSUME NEW x \in runs', x.pc = "eval", Place(x.req) \notin raced', NEW e \in result', e.tag = Tag(x.req)
               PROVE  FALSE
    BY DEF NotRan, Ran
  <2>1. x \in runs /\ x # c /\ Place(x.req) \notin raced
    BY <1>1
  <2>2. e \notin result
    BY <2>1 DEF Slotted, NotRan, Ran
  <2>3. Tag(x.req) = Tag(c.req)
    BY <1>4, <2>2
  <2>4. Place(x.req) = Place(c.req)
    BY <1>2, <2>1, <2>3, SlotFacts, ReqFields
  <2> QED
    BY <2>1, <2>4 DEF Slotted, OneRun
<1>8. Recorded'
  BY <1>1, <1>4 DEF Slotted, Recorded, Live, Cell
<1>9. AtMostOnce'
  BY <1>1, <1>2, <1>3 DEF Slotted, AtMostOnce
<1>10. Kept'
  <2>1. \A x \in runs' : x.pc = "end" /\ Place(x.req) \notin raced' => \E e \in result' : e.tag = Tag(x.req) /\ e.res = x.res
    <3>1. Place(c.req) \notin raced => \E e \in result' : e.tag = Tag(d.req) /\ e.res = d.res
      BY <1>1, <1>3
    <3> QED
      BY <1>1, <1>4, <3>1 DEF Agreed, Kept
  <2> QED
    BY <1>1, <1>4, <2>1 DEF Agreed, Kept
<1>11. AnswersAgree'
  BY <1>1, <1>4 DEF Agreed, AnswersAgree
<1> QED
  BY <1>5, <1>6, <1>7, <1>8, <1>9, <1>10, <1>11 DEF Slotted, Agreed

\* The end of a compound: the slot takes its sequence id, and the answer it will repeat.
LEMMA FinishSlotted ==
    ASSUME Types, Numbered, Slotted, Agreed, NEW c \in runs, Finish(c)
    PROVE  Slotted' /\ Agreed'
<1>1. /\ c.req \in Requests /\ c.res \in Results /\ c.pc = "end" /\ runs' = runs \ {c} /\ DOMAIN slots' = DOMAIN slots
      /\ \A s \in DOMAIN slots, k \in Slot :
            IF s = c.req.sess /\ k = c.req.slot
            THEN slots'[s][k].seqid = c.req.seqid /\ slots'[s][k].reply = (IF c.req.cache THEN c.res ELSE NoReq)
            ELSE slots'[s][k] = slots[s][k]
      /\ Replies1(c.req, c.res) /\ UNCHANGED <<result, raced, twice>>
  BY FinishEffect DEF hist
<1>2. /\ c.req.sess \in Nat /\ c.req.slot \in Slot /\ c.req.seqid \in Nat
      /\ Tag(c.req).sess = c.req.sess /\ Tag(c.req).slot = c.req.slot /\ Tag(c.req).seqid = c.req.seqid
  BY <1>1, ReqFields
<1>3. OneRun' /\ AtMostOnce' /\ NotRan'
  BY <1>1 DEF Slotted, OneRun, AtMostOnce, NotRan, Ran
<1>4. NextUp'
  <2> SUFFICES ASSUME NEW x \in runs', x.req.sess \in DOMAIN slots', Place(x.req) \notin raced'
               PROVE  x.req.seqid = slots'[x.req.sess][x.req.slot].seqid + 1
    BY DEF NextUp, Live, Cell
  <2>1. x \in runs /\ x # c /\ x.req.slot \in Slot /\ x.req.sess \in DOMAIN slots /\ Place(x.req) \notin raced
    BY <1>1, SlotFacts
  <2>2. Place(x.req) # Place(c.req)
    BY <2>1 DEF Slotted, OneRun
  <2>3. slots'[x.req.sess][x.req.slot] = slots[x.req.sess][x.req.slot]
    BY <1>1, <2>1, <2>2 DEF Place
  <2> QED
    BY <2>1, <2>3 DEF Slotted, NextUp, Live, Cell
<1>5. Recorded'
  <2> SUFFICES ASSUME NEW e \in result', e.tag.sess \in DOMAIN slots', Place(e.tag) \notin raced'
               PROVE  \/ e.tag.seqid <= slots'[e.tag.sess][e.tag.slot].seqid
                      \/ \E x \in runs' : x.pc = "end" /\ Tag(x.req) = e.tag
    BY DEF Recorded, Live, Cell
  <2>1. e \in result /\ e.tag.sess \in DOMAIN slots /\ Place(e.tag) \notin raced /\ e.tag.slot \in Slot /\ e.tag.seqid \in Nat
    BY <1>1, SlotFacts
  <2>2. CASE Place(e.tag) = Place(c.req)
    <3>1. e.tag.sess = c.req.sess /\ e.tag.slot = c.req.slot
      BY <2>2 DEF Place
    <3>2. slots'[e.tag.sess][e.tag.slot].seqid = c.req.seqid
      BY <1>1, <2>1, <3>1
    <3>3. c.req.seqid = slots[e.tag.sess][e.tag.slot].seqid + 1 /\ slots[e.tag.sess][e.tag.slot].seqid \in Nat
      BY <2>1, <2>2, <3>1, SlotFacts DEF Slotted, NextUp, Live, Cell
    <3>4. e.tag.seqid <= slots[e.tag.sess][e.tag.slot].seqid \/ \E x \in runs : x.pc = "end" /\ Tag(x.req) = e.tag
      BY <2>1 DEF Slotted, Recorded, Live, Cell
    <3>5. CASE \E x \in runs : x.pc = "end" /\ Tag(x.req) = e.tag
      <4>1. PICK x \in runs : x.pc = "end" /\ Tag(x.req) = e.tag
        BY <3>5
      <4>2. CASE x = c
        BY <1>2, <2>1, <3>2, <4>1, <4>2
      <4>3. CASE x # c
        BY <1>1, <4>1, <4>3
      <4> QED
        BY <4>2, <4>3
    <3>6. CASE e.tag.seqid <= slots[e.tag.sess][e.tag.slot].seqid
      BY <2>1, <3>2, <3>3, <3>6
    <3> QED
      BY <3>4, <3>5, <3>6
  <2>3. CASE Place(e.tag) # Place(c.req)
    <3>1. slots'[e.tag.sess][e.tag.slot] = slots[e.tag.sess][e.tag.slot]
      BY <1>1, <2>1, <2>3 DEF Place
    <3>2. \A x \in runs : Tag(x.req) = e.tag => x # c
      BY <1>2, <2>3 DEF Place
    <3> QED
      BY <1>1, <2>1, <3>1, <3>2 DEF Slotted, Recorded, Live, Cell
  <2> QED
    BY <2>2, <2>3
<1>6. Place(c.req) \notin raced => \E e \in result : e.tag = Tag(c.req) /\ e.res = c.res
  BY <1>1 DEF Agreed, Kept
<1>7. Kept'
  <2>1. \A x \in runs' : x.pc = "end" /\ Place(x.req) \notin raced' => \E e \in result' : e.tag = Tag(x.req) /\ e.res = x.res
    BY <1>1 DEF Agreed, Kept
  <2>2. ASSUME NEW s \in DOMAIN slots', NEW k \in Slot, <<s, k>> \notin raced', slots'[s][k].reply # NoReq
        PROVE  \E e \in result' : e.tag = [sess |-> s, slot |-> k, seqid |-> slots'[s][k].seqid] /\ e.res = slots'[s][k].reply
    <3>1. CASE s = c.req.sess /\ k = c.req.slot
      <4>1. slots'[s][k].seqid = c.req.seqid /\ slots'[s][k].reply = c.res
        BY <1>1, <2>2, <3>1
      <4>2. Place(c.req) = <<s, k>> /\ Tag(c.req) = [sess |-> s, slot |-> k, seqid |-> slots'[s][k].seqid]
        BY <3>1, <4>1 DEF Place, Tag
      <4> QED
        BY <1>1, <1>6, <2>2, <4>1, <4>2
    <3>2. CASE ~(s = c.req.sess /\ k = c.req.slot)
      <4>1. slots'[s][k] = slots[s][k] /\ s \in DOMAIN slots
        BY <1>1, <3>2
      <4> QED
        BY <1>1, <2>2, <4>1 DEF Agreed, Kept
    <3> QED
      BY <3>1, <3>2
  <2> QED
    BY <2>1, <2>2 DEF Kept
<1>8. AnswersAgree'
  <2>1. \A m \in back' : m \in back \/ (m.req = c.req /\ m.res = c.res)
    BY <1>1 DEF Replies1
  <2> QED
    BY <1>1, <1>6, <2>1 DEF Agreed, AnswersAgree
<1> QED
  BY <1>3, <1>4, <1>5, <1>7, <1>8 DEF Slotted, Agreed

\* The slots' part of the invariant is kept by every step.
LEMMA SlottedKept ==
    ASSUME Types, Numbered, Slotted, Agreed, [Next]_vars
    PROVE  Slotted' /\ Agreed'
<1>1. CASE ExchangeId
  BY <1>1, ExchangeEffect, SlotsLeft DEF hist
<1>2. CASE CreateSession
  BY <1>2, CreateEffect, SlotsLeft DEF hist
<1>3. CASE LoseConn
  BY <1>3, LoseEffect, SlotsLeft DEF hist, server
<1>4. CASE ClientRestart
  BY <1>4, ClientEffect, SlotsLeft DEF hist, server
<1>5. CASE ServerRestart
  <2>1. runs' = {} /\ back' = {} /\ DOMAIN slots' = {} /\ UNCHANGED <<result, raced, twice>>
    BY <1>5, RestartEffect DEF hist
  <2> QED
    BY <2>1 DEF Slotted, Agreed, OneRun, NextUp, NotRan, Recorded, AtMostOnce, Kept, AnswersAgree, Live
<1>6. ASSUME NEW k \in Slot, Call(k) PROVE Slotted' /\ Agreed'
  BY <1>6, CallEffect, SlotsLeft DEF hist, server
<1>7. ASSUME NEW k \in Slot, Resend(k) PROVE Slotted' /\ Agreed'
  BY <1>7, ResendEffect, SlotsLeft DEF hist, server
<1>11. ASSUME NEW m \in back, Accept(m) PROVE Slotted' /\ Agreed'
  BY <1>11, AcceptEffect, SlotsLeft DEF hist, server
<1>12. CASE UNCHANGED vars
  BY <1>12, SlotsLeft DEF vars, hist, server
<1> QED
  BY <1>1, <1>2, <1>3, <1>4, <1>5, <1>6, <1>7, <1>11, <1>12, ReceiveSlotted, EvalSlotted, FinishSlotted, Kinds

-----------------------------------------------------------------------------
(***************************************************************************)
(* The client's incarnation, its sessions, and those that are gone.        *)
(***************************************************************************)
\* What the client and the messages are, and what is known of them.
LEMMA ClientFacts ==
    ASSUME Types, Numbered
    PROVE  /\ mac \in Macs /\ mac.verf \in Nat /\ mac.conn \in Nat /\ mac.id \in Nat /\ mac.sess \in Nat
           /\ client.id \in Nat /\ client.verf \in Nat /\ next.client \in Nat /\ next.sess \in Nat /\ next.other \in Nat /\ boot \in Nat
           /\ mac.sess < next.sess /\ client.id < next.client
           /\ \A s \in DOMAIN slots : s \in Nat /\ s >= 1 /\ s < next.sess
           /\ \A r \in wire : r \in Requests /\ r.sess \in Nat /\ r.sess >= 1 /\ r.sess < next.sess /\ r.conn \in Nat /\ r.conn <= mac.conn
           /\ \A c \in runs : /\ c.req \in Requests /\ c.req.sess \in Nat /\ c.req.sess >= 1 /\ c.req.sess < next.sess
                              /\ c.req.conn \in Nat /\ c.req.conn <= mac.conn
           /\ \A m \in back : /\ m.req \in Requests /\ m.req.sess \in Nat /\ m.req.sess >= 1 /\ m.req.sess < next.sess
                              /\ m.req.conn \in Nat /\ m.req.conn <= mac.conn
           /\ \A k \in Busy : /\ k \in Slot /\ mac.req[k] \in Requests /\ mac.req[k].sess \in Nat /\ mac.req[k].sess >= 1
                              /\ mac.req[k].sess < next.sess
<1>1. /\ mac \in Macs /\ mac.verf \in Nat /\ mac.conn \in Nat /\ mac.id \in Nat /\ mac.sess \in Nat
      /\ client.id \in Nat /\ client.verf \in Nat /\ next.client \in Nat /\ next.sess \in Nat /\ next.other \in Nat /\ boot \in Nat
      /\ \A k \in Busy : k \in Slot /\ mac.req[k] \in Requests /\ mac.req[k] # NoReq
  BY DEF Types, Macs, Busy
<1>2. (\A c \in runs : c.req \in Requests) /\ (\A m \in back : m.req \in Requests) /\ \A r \in wire : r \in Requests
  BY RunFields DEF Types
<1>3. \A s \in DOMAIN slots : s \in Nat /\ s >= 1 /\ s < next.sess
  BY DEF Types, Numbered, SlotNumbers
<1>4. \A r \in wire : r.sess \in Nat /\ r.sess >= 1 /\ r.sess < next.sess /\ r.conn \in Nat /\ r.conn <= mac.conn
  BY <1>2, ReqFields DEF Numbered, WireNumbers, Sent
<1>5. \A c \in runs : c.req.sess \in Nat /\ c.req.sess >= 1 /\ c.req.sess < next.sess /\ c.req.conn \in Nat /\ c.req.conn <= mac.conn
  BY <1>2, ReqFields DEF Numbered, RunNumbers, Sent
<1>6. \A m \in back : m.req.sess \in Nat /\ m.req.sess >= 1 /\ m.req.sess < next.sess /\ m.req.conn \in Nat /\ m.req.conn <= mac.conn
  BY <1>2, ReqFields DEF Numbered, ReplyNumbers, Sent
<1>7. \A k \in Busy : mac.req[k].sess \in Nat /\ mac.req[k].sess >= 1 /\ mac.req[k].sess < next.sess
  BY <1>1, ReqFields DEF Numbered, CallNumbers, Sent
<1> QED
  BY <1>1, <1>2, <1>3, <1>4, <1>5, <1>6, <1>7 DEF Numbered, MacNumbers

\* The last effect of a reply, in the terms of the client's record.
LEMMA AcceptIs ==
    ASSUME Types, NEW m \in back, Accept(m)
    PROVE  /\ m.req \in Requests /\ m.req.slot \in Slot /\ m.res \in Answers /\ back' = back \ {m}
           /\ UNCHANGED <<server, wire, n, hist>> /\ mac'.id = mac.id /\ mac'.verf = mac.verf /\ mac'.conn = mac.conn
           /\ \/ mac' = mac
              \/ /\ mac.req[m.req.slot] = m.req /\ m.res.status = "BADSESSION" /\ Apart(mac') /\ mac'.seqid = mac.seqid /\ mac'.req = mac.req
                 /\ mac'.sess = (IF mac.sess = m.req.sess THEN 0 ELSE mac.sess)
              \/ /\ mac.req[m.req.slot] = m.req /\ m.res.status # "BADSESSION" /\ mac'.sess = mac.sess
                 /\ mac'.req[m.req.slot] = NoReq /\ mac'.seqid[m.req.slot] = mac.seqid[m.req.slot] + 1
                 /\ \A j \in Slot \ {m.req.slot} : mac'.req[j] = mac.req[j] /\ mac'.seqid[j] = mac.seqid[j]
                 /\ \/ /\ m.res.status # "ok" \/ m.req.op \notin {"open", "close", "downgrade", "lock", "free"}
                       /\ mac'.open = mac.open /\ mac'.access = mac.access /\ mac'.lock = mac.lock
                    \/ /\ m.res.status = "ok" /\ m.req.op = "open" /\ mac'.open = m.res.id /\ mac'.lock = mac.lock
                       /\ mac'.access = IF m.res.id = mac.open THEN mac.access \cup m.req.access ELSE m.req.access
                    \/ m.res.status = "ok" /\ m.req.op = "close" /\ mac'.open = NoId /\ mac'.lock = mac.lock
                    \/ /\ m.res.status = "ok" /\ m.req.op = "downgrade" /\ mac'.open = mac.open
                       /\ mac'.access = m.req.access /\ mac'.lock = mac.lock
                    \/ /\ m.res.status = "ok" /\ m.req.op = "lock" /\ mac'.open = mac.open
                       /\ mac'.access = mac.access /\ mac'.lock = m.res.id
                    \/ /\ m.res.status = "ok" /\ m.req.op = "free" /\ mac'.open = mac.open
                       /\ mac'.access = mac.access /\ mac'.lock = NoId
<1>1. m.req \in Requests /\ m.res \in Answers /\ m.req.slot \in Slot /\ mac \in Macs
  BY RunFields, ReqFields DEF Types
<1>2. back' = back \ {m} /\ UNCHANGED <<server, wire, n, hist>>
  BY AcceptEffect
<1>3. CASE mac' = mac
  BY <1>1, <1>2, <1>3
<1>4. CASE mac.req[m.req.slot] = m.req /\ m.res.status # "BADSESSION" /\ mac' = Through(After(m.req, m.res), m.req.slot)
  <2>1. PICK i \in AnyId, a \in Access, l \in AnyId :
             /\ After(m.req, m.res) = Keeping(mac, i, a, l)
             /\ \/ /\ m.res.status # "ok" \/ m.req.op \notin {"open", "close", "downgrade", "lock", "free"}
                   /\ i = mac.open /\ a = mac.access /\ l = mac.lock
                \/ /\ m.res.status = "ok" /\ m.req.op = "open" /\ i = m.res.id /\ l = mac.lock
                   /\ a = IF m.res.id = mac.open THEN mac.access \cup m.req.access ELSE m.req.access
                \/ m.res.status = "ok" /\ m.req.op = "close" /\ i = NoId /\ a = {} /\ l = mac.lock
                \/ m.res.status = "ok" /\ m.req.op = "downgrade" /\ i = mac.open /\ a = m.req.access /\ l = mac.lock
                \/ m.res.status = "ok" /\ m.req.op = "lock" /\ i = mac.open /\ a = mac.access /\ l = m.res.id
                \/ m.res.status = "ok" /\ m.req.op = "free" /\ i = mac.open /\ a = mac.access /\ l = NoId
    BY <1>1, AfterIs
  <2>2. PICK x \in Macs : /\ x = After(m.req, m.res) /\ x.verf = mac.verf /\ x.conn = mac.conn /\ x.id = mac.id /\ x.sess = mac.sess
                          /\ x.seqid = mac.seqid /\ x.req = mac.req /\ x.open = i /\ x.access = a /\ x.lock = l
    BY <1>1, <2>1, MacKeeps
  <2>3. /\ mac'.id = x.id /\ mac'.verf = x.verf /\ mac'.conn = x.conn /\ mac'.sess = x.sess
        /\ mac'.open = x.open /\ mac'.access = x.access /\ mac'.lock = x.lock /\ mac'.req[m.req.slot] = NoReq
        /\ mac'.seqid[m.req.slot] = x.seqid[m.req.slot] + 1
        /\ \A j \in Slot \ {m.req.slot} : mac'.req[j] = x.req[j] /\ mac'.seqid[j] = x.seqid[j]
    BY <1>1, <1>4, <2>2, MacThrough
  <2> QED
    BY <1>1, <1>2, <1>4, <2>1, <2>2, <2>3
<1> QED
  BY <1>1, <1>2, <1>3, <1>4, AcceptEffect DEF Apart

\* The record at the server is that of the client's incarnation, or of an earlier one of
\* which nothing is under way.
LEMMA IncarnationKept ==
    ASSUME Types, Types', Numbered, Incarnation, [Next]_vars
    PROVE  Incarnation'
<1> USE DEF Incarnation
<1>1. CASE ExchangeId
  BY <1>1, ExchangeEffect, ClientFacts DEF Apart
<1>2. CASE CreateSession
  BY <1>2, CreateEffect, ClientFacts DEF Apart, Fresh
<1>3. CASE LoseConn
  <2>1. Fresh => Fresh'
    BY <1>3, LoseEffect, AgainEffect, ClientFacts DEF Fresh, server
  <2> QED
    BY <1>3, <2>1, LoseEffect, AgainEffect DEF server
<1>4. CASE ClientRestart
  <2>1. Fresh'
    BY <1>4, ClientEffect, ClientFacts, SMTT(60) DEF Fresh, Busy, server
  <2> QED
    BY <1>4, <2>1, ClientEffect, ClientFacts, SMTT(60) DEF server
<1>5. CASE ServerRestart
  BY <1>5, RestartEffect, AgainEffect, ClientFacts, SMTT(60)
<1>6. ASSUME NEW k \in Slot, Call(k) PROVE Incarnation'
  BY <1>6, CallEffect DEF Fresh, Apart, server
<1>7. ASSUME NEW k \in Slot, Resend(k) PROVE Incarnation'
  BY <1>7, ResendEffect DEF Fresh, Apart, server
<1>8. ASSUME NEW r \in wire, Receive(r) PROVE Incarnation'
  <2>1. Seen(r) = "new" => DOMAIN slots # {}
    BY <1>8, ReceiveEffect, SeenIs DEF Live
  <2> QED
    BY <1>8, <2>1, ReceiveEffect DEF Fresh
<1>9. ASSUME NEW c \in runs, Eval(c) PROVE Incarnation'
  <2>1. PICK d \in Runs : runs' = (runs \ {c}) \cup {d} /\ d.req = c.req /\ UNCHANGED <<boot, client, slots, wire, back, mac>>
    BY <1>9, EvalEffect
  <2>2. next'.client = next.client
    BY <1>9, OpensEffect
  <2> QED
    BY <2>1, <2>2 DEF Fresh, Busy
<1>10. ASSUME NEW c \in runs, Finish(c) PROVE Incarnation'
  <2>1. c.req.conn < mac.conn => back' = back
    BY <1>10, FinishEffect, ClientFacts DEF Replies1
  <2> QED
    BY <1>10, <2>1, FinishEffect DEF Fresh, Busy
<1>11. ASSUME NEW m \in back, Accept(m) PROVE Incarnation'
  BY <1>11, AcceptIs DEF Fresh, server
<1>12. CASE UNCHANGED vars
  BY <1>12 DEF vars, hist, server, Fresh, Busy
<1> QED
  BY <1>1, <1>2, <1>3, <1>4, <1>5, <1>6, <1>7, <1>8, <1>9, <1>10, <1>11, <1>12, Kinds

\* Of the sessions there are, the requests under way are in the client's own.
LEMMA OurSessionsKept ==
    ASSUME Types, Types', Numbered, Incarnation, OurSessions, Dead, [Next]_vars
    PROVE  OurSessions'
<1> USE DEF OurSessions, Ours, Live, Joined
<1>1. CASE ExchangeId
  <2>1. UNCHANGED <<runs, wire, back>> /\ mac'.sess = mac.sess /\ mac'.req = mac.req /\ mac'.verf = mac.verf
    BY <1>1, ExchangeEffect DEF Apart
  <2>2. CASE client.verf = mac.verf /\ UNCHANGED <<client, slots>>
    BY <2>1, <2>2, ClientFacts DEF Incarnation, Busy
  <2>3. CASE DOMAIN slots' = {}
    BY <2>1, <2>3
  <2> QED
    BY <1>1, <2>2, <2>3, ExchangeEffect DEF Incarnation
<1>2. CASE CreateSession
  <2>1. UNCHANGED <<client, runs, wire, back>> /\ mac'.req = mac.req /\ mac'.verf = mac.verf /\ mac.sess = 0
    BY <1>2, CreateEffect DEF Apart
  <2>2. \A s \in DOMAIN slots' : s \in DOMAIN slots \/ s = next.sess
    BY <1>2, CreateEffect
  <2>3. Busy' = Busy
    BY <2>1 DEF Busy
  <2> QED
    BY <2>1, <2>2, <2>3, ClientFacts
<1>3. CASE LoseConn
  <2>1. /\ UNCHANGED <<client, slots, runs>> /\ back' = {} /\ mac'.sess = mac.sess /\ mac'.verf = mac.verf /\ Busy' = Busy
        /\ (\A k \in Busy : mac'.req[k].sess = mac.req[k].sess)
        /\ \A r \in wire' : r \in wire \/ \E k \in Busy : r = mac'.req[k]
    BY <1>3, LoseEffect, AgainEffect DEF server, Alike
  <2> QED
    BY <2>1
<1>4. CASE ClientRestart
  <2>1. client.verf # mac'.verf /\ client' = client
    BY <1>4, ClientEffect, ClientFacts DEF Incarnation, server
  <2> QED
    BY <2>1
<1>5. CASE ServerRestart
  BY <1>5, RestartEffect
<1>6. ASSUME NEW k \in Slot, Call(k) PROVE OurSessions'
  <2>1. PICK r \in Requests :
             /\ mac'.verf = mac.verf /\ mac'.sess = mac.sess
             /\ mac'.req[k] = r /\ (\A j \in Slot \ {k} : mac'.req[j] = mac.req[j]) /\ wire' = wire \cup {r}
             /\ r.sess = mac.sess /\ UNCHANGED <<server, back>>
    BY <1>6, CallEffect DEF Apart
  <2> QED
    BY <2>1 DEF Busy, server
<1>7. ASSUME NEW k \in Slot, Resend(k) PROVE OurSessions'
  <2>1. PICK r \in Requests :
             /\ mac'.verf = mac.verf /\ mac'.sess = mac.sess
             /\ mac'.req[k] = r /\ (\A j \in Slot \ {k} : mac'.req[j] = mac.req[j]) /\ wire' = wire \cup {r}
             /\ r.sess = mac.sess /\ UNCHANGED <<server, back>>
    BY <1>7, ResendEffect DEF Apart
  <2> QED
    BY <2>1 DEF Busy, server
<1>8. ASSUME NEW r \in wire, Receive(r) PROVE OurSessions'
  <2>1. UNCHANGED <<client, slots, mac>> /\ wire' \subseteq wire
    BY <1>8, ReceiveEffect
  <2>2. (\A d \in runs' : d \in runs \/ d.req = r) /\ \A m \in back' : m \in back \/ m.req = r
    BY <1>8, ReceiveEffect DEF Replies1
  <2> QED
    BY <2>1, <2>2 DEF Busy
<1>9. ASSUME NEW c \in runs, Eval(c) PROVE OurSessions'
  <2>1. PICK d \in Runs : runs' = (runs \ {c}) \cup {d} /\ d.req = c.req /\ UNCHANGED <<client, slots, wire, back, mac>>
    BY <1>9, EvalEffect
  <2> QED
    BY <2>1 DEF Busy
<1>10. ASSUME NEW c \in runs, Finish(c) PROVE OurSessions'
  <2>1. DOMAIN slots' = DOMAIN slots /\ runs' \subseteq runs /\ UNCHANGED <<client, wire, mac>> /\ \A m \in back' : m \in back \/ m.req = c.req
    BY <1>10, FinishEffect DEF Replies1
  <2> QED
    BY <2>1 DEF Busy
<1>11. ASSUME NEW m \in back, Accept(m) PROVE OurSessions'
  <2>1. /\ UNCHANGED <<client, slots, wire, runs>> /\ back' \subseteq back /\ mac'.verf = mac.verf
        /\ m.req.slot \in Slot /\ \A k \in Slot : mac'.req[k] \in {NoReq, mac.req[k]}
    BY <1>11, AcceptIs DEF server
  <2>2. CASE mac'.sess = mac.sess
    BY <2>1, <2>2 DEF Busy
  <2>3. CASE m.res.status = "BADSESSION" /\ mac.sess = m.req.sess
    <3>1. mac.sess \notin DOMAIN slots
      BY <2>3 DEF Dead
    <3> QED
      BY <2>1, <3>1 DEF Busy
  <2> QED
    BY <1>11, <2>2, <2>3, AcceptIs
<1>12. CASE UNCHANGED vars
  BY <1>12 DEF vars, server, Busy
<1> QED
  BY <1>1, <1>2, <1>3, <1>4, <1>5, <1>6, <1>7, <1>8, <1>9, <1>10, <1>11, <1>12, Kinds

\* A session that is gone is what the server says of it; compounds of one come from an
\* earlier connection, and name no open there is.
LEMMA DeadKept ==
    ASSUME Types, Types', Numbered, Incarnation, Dead, [Next]_vars
    PROVE  Dead'
<1> USE DEF Dead, Live
<1>1. CASE ExchangeId
  <2>1. UNCHANGED <<runs, back>> /\ mac'.conn = mac.conn
    BY <1>1, ExchangeEffect DEF Apart
  <2>2. CASE UNCHANGED <<slots, opens>>
    BY <2>1, <2>2
  <2>3. CASE client.id # 0 /\ client.verf # mac.verf /\ opens' = {}
    BY <2>1, <2>3 DEF Incarnation, Fresh
  <2> QED
    BY <1>1, <2>2, <2>3, ExchangeEffect
<1>2. CASE CreateSession
  <2>1. UNCHANGED <<runs, back, opens>> /\ mac'.conn = mac.conn /\ DOMAIN slots' \in {DOMAIN slots, DOMAIN slots \cup {next.sess}}
    BY <1>2, CreateEffect DEF Apart
  <2> QED
    BY <2>1, ClientFacts
<1>3. CASE LoseConn
  BY <1>3, LoseEffect, AgainEffect, ClientFacts DEF server
<1>4. CASE ClientRestart
  BY <1>4, ClientEffect, ClientFacts DEF server
<1>5. CASE ServerRestart
  BY <1>5, RestartEffect
<1>6. ASSUME NEW k \in Slot, Call(k) PROVE Dead'
  BY <1>6, CallEffect DEF server, Apart
<1>7. ASSUME NEW k \in Slot, Resend(k) PROVE Dead'
  BY <1>7, ResendEffect DEF server, Apart
<1>8. ASSUME NEW r \in wire, Receive(r) PROVE Dead'
  <2>0. UNCHANGED <<slots, opens, mac>> /\ r \in Requests
    BY <1>8, ReceiveEffect
  <2>1. CASE Seen(r) = "new"
    <3>1. back' = back /\ \E d \in Runs : runs' = runs \cup {d} /\ d.req = r
      BY <1>8, <2>1, ReceiveEffect DEF OwnErrors
    <3>2. Live(r)
      BY <2>0, <2>1, SeenIs
    <3> QED
      BY <2>0, <3>1, <3>2
  <2>2. CASE Seen(r) = "replay"
    <3>1. runs' = runs /\ \A m \in back' : m \in back \/ (m.req = r /\ m.res = Replayed(Cell(r).reply))
      BY <1>8, <2>2, ReceiveEffect DEF OwnErrors, Replies1
    <3>2. Live(r) /\ Cell(r).reply \in Results
      BY <2>0, <2>2, SeenIs, CellFields, ReqFields DEF Cell, Types
    <3>3. Replayed(Cell(r).reply).status # "BADSESSION"
      BY <3>2, Says, RunFields DEF OwnErrors
    <3> QED
      BY <2>0, <3>1, <3>2, <3>3
  <2>3. CASE Seen(r) \in OwnErrors
    <3>1. runs' = runs /\ \A m \in back' : m \in back \/ (m.req = r /\ m.res = Fail(Seen(r)))
      BY <1>8, <2>3, ReceiveEffect DEF OwnErrors, Replies1
    <3>2. Fail(Seen(r)).status = Seen(r)
      BY <2>3, Says
    <3>3. Seen(r) = "BADSESSION" <=> ~ Live(r)
      BY <2>0, SeenIs
    <3> QED
      BY <2>0, <3>1, <3>2, <3>3
  <2> QED
    BY <2>0, <2>1, <2>2, <2>3, SeenIs
<1>9. ASSUME NEW c \in runs, Eval(c) PROVE Dead'
  <2>1. PICK d \in Runs : runs' = (runs \ {c}) \cup {d} /\ d.req = c.req /\ UNCHANGED <<slots, back, mac>>
    BY <1>9, EvalEffect
  <2>2. \A o \in opens' : o.id = NewOther \/ \E p \in opens : p.id = o.id
    <3>1. c.req.access \in Access /\ \A o \in opens : o \in Opens
      BY RunFields, ReqFields DEF Types
    <3>2. \A o \in opens : Widen(o, c.req.access).id = o.id /\ Narrow(o, c.req.access).id = o.id
      BY <3>1, OpenFields
    <3> QED
      BY <1>9, <3>2, OpensEffect
  <2>3. \A x \in runs : x.req.id # NewOther
    <3>1. \A x \in runs : Old(x.req.id, next.other, boot)
      BY DEF Numbered, RunNumbers, Sent
    <3>2. NewOther \in Ids /\ NewOther[2] = next.other /\ next.other \in Nat
      BY ClientFacts DEF NewOther, Ids
    <3> QED
      BY <3>1, <3>2, SessionsAssumption DEF Old
  <2> QED
    BY <2>1, <2>2, <2>3
<1>10. ASSUME NEW c \in runs, Finish(c) PROVE Dead'
  <2>1. DOMAIN slots' = DOMAIN slots /\ runs' \subseteq runs /\ UNCHANGED <<opens, mac>> /\ c.res \in Results /\ Replies1(c.req, c.res)
    BY <1>10, FinishEffect
  <2>2. \A m \in back' : m \in back \/ (m.req = c.req /\ m.res = c.res /\ c.req.conn = mac.conn)
    BY <2>1 DEF Replies1
  <2>3. c.res.status # "BADSESSION"
    BY <2>1, RunFields DEF OwnErrors
  <2>4. c.req.conn = mac.conn => Live(c.req)
    BY ClientFacts
  <2> QED
    BY <2>1, <2>2, <2>3, <2>4
<1>11. ASSUME NEW m \in back, Accept(m) PROVE Dead'
  <2>1. UNCHANGED <<slots, opens, runs>> /\ mac'.conn = mac.conn /\ back' \subseteq back
    BY <1>11, AcceptIs DEF server
  <2> QED
    BY <2>1
<1>12. CASE UNCHANGED vars
  BY <1>12 DEF vars, server
<1> QED
  BY <1>1, <1>2, <1>3, <1>4, <1>5, <1>6, <1>7, <1>8, <1>9, <1>10, <1>11, <1>12, Kinds

-----------------------------------------------------------------------------
(***************************************************************************)
(* The client's sequence ids and those of the slots.                       *)
(***************************************************************************)
\* The requests of which the client's sequence ids are known.
Under == wire \cup {c.req : c \in runs} \cup {m.req : m \in back}

\* Sequenced in terms of the requests under way.
LEMMA SequencedIs ==
    /\ Sequenced <=> /\ \A k \in Slot : mac.seqid[k] >= 1
                     /\ \A k \in Busy : mac.req[k].slot = k /\ (mac.req[k].sess = mac.sess => mac.req[k].seqid = mac.seqid[k])
                     /\ \A r \in Under : Follows(r)
                     /\ \A e \in result : e.tag.sess = mac.sess =>
                           /\ e.tag.seqid <= mac.seqid[e.tag.slot]
                           /\ e.tag.seqid = mac.seqid[e.tag.slot] => e.tag.slot \in Busy /\ mac.req[e.tag.slot].sess = mac.sess
BY DEF Sequenced, Under

\* The requests under way are numbered, and the client's sequence ids are numbers.
LEMMA UnderFacts ==
    ASSUME Types, Numbered
    PROVE  /\ \A r \in Under : r \in Requests /\ r.sess >= 1 /\ r.sess < next.sess /\ r.slot \in Slot /\ r.seqid \in Nat
           /\ \A k \in Slot : mac.seqid[k] \in Nat
           /\ \A e \in result : e.tag.sess >= 1 /\ e.tag.sess < next.sess /\ e.tag.slot \in Slot /\ e.tag.seqid \in Nat /\ e.tag.sess \in Nat
<1>1. \A r \in Under : r \in Requests /\ r.sess >= 1 /\ r.sess < next.sess
  BY ClientFacts DEF Under
<1>2. \A k \in Slot : mac.seqid[k] \in Nat
  BY DEF Types, Macs
<1>3. \A e \in result : e.tag.sess >= 1 /\ e.tag.sess < next.sess /\ e.tag.slot \in Slot /\ e.tag.seqid \in Nat /\ e.tag.sess \in Nat
  BY RunFields, TagIs DEF Types, Numbered, EntryNumbers
<1> QED
  BY <1>1, <1>2, <1>3, ReqFields

\* Nothing of the session carries the sequence id of a slot that asks for nothing there.
LEMMA Unused ==
    ASSUME Types, Numbered, Sequenced, NEW k \in Slot, mac.req[k] = NoReq \/ mac.req[k].sess # mac.sess
    PROVE  /\ \A r \in Under : r.sess = mac.sess /\ r.slot = k => r.seqid < mac.seqid[k]
           /\ \A e \in result : e.tag.sess = mac.sess /\ e.tag.slot = k => e.tag.seqid < mac.seqid[k]
<1>1. \A r \in Under : r.sess = mac.sess /\ r.slot = k => r.seqid # mac.seqid[k] /\ r.seqid <= mac.seqid[k]
  BY SequencedIs DEF Follows, Same
<1>2. \A e \in result : e.tag.sess = mac.sess /\ e.tag.slot = k => e.tag.seqid # mac.seqid[k] /\ e.tag.seqid <= mac.seqid[k]
  BY SequencedIs DEF Busy
<1> QED
  BY <1>1, <1>2, UnderFacts

\* A request asked anew in a slot.
LEMMA AskedSequenced ==
    ASSUME Types, Numbered, Sequenced, NEW k \in Slot, mac.req[k] = NoReq \/ mac.req[k].sess # mac.sess, NEW r \in Requests,
           mac'.sess = mac.sess, mac'.seqid = mac.seqid, mac'.req[k] = r, \A j \in Slot \ {k} : mac'.req[j] = mac.req[j],
           r.sess = mac.sess, r.slot = k, r.seqid = mac.seqid[k], wire' = wire \cup {r}, UNCHANGED <<runs, back, result>>
    PROVE  Sequenced'
<1>1. Under' = Under \cup {r} /\ Busy' = Busy \cup {k}
  BY ReqFields DEF Under, Busy
<1>2. \A k1 \in Busy' : mac'.req[k1].slot = k1 /\ (mac'.req[k1].sess = mac'.sess => mac'.req[k1].seqid = mac'.seqid[k1])
  BY <1>1, SequencedIs DEF Busy
<1>3. ASSUME NEW x \in Under', x.sess = mac'.sess PROVE x.seqid <= mac'.seqid[x.slot] /\ (x.seqid = mac'.seqid[x.slot] => Same(x, mac'.req[x.slot]))
  <2>1. CASE x = r
    <3>1. Same(r, r)
      BY ReqFields DEF Same
    <3> QED
      BY <2>1, <3>1, UnderFacts
  <2>2. CASE x \in Under /\ x.slot = k
    BY <1>3, <2>2, Unused, UnderFacts
  <2>3. CASE x \in Under /\ x.slot # k
    BY <1>3, <2>3, UnderFacts, SequencedIs DEF Follows
  <2> QED
    BY <1>1, <2>1, <2>2, <2>3
<1>4. ASSUME NEW e \in result', e.tag.sess = mac'.sess
      PROVE  e.tag.seqid <= mac'.seqid[e.tag.slot] /\ (e.tag.seqid = mac'.seqid[e.tag.slot] => e.tag.slot \in Busy' /\ mac'.req[e.tag.slot].sess = mac'.sess)
  <2>1. CASE e.tag.slot = k
    BY <1>4, <2>1, Unused, UnderFacts
  <2>2. CASE e.tag.slot # k
    BY <1>1, <1>4, <2>2, UnderFacts, SequencedIs
  <2> QED
    BY <2>1, <2>2
<1>5. \A j \in Slot : mac'.seqid[j] >= 1
  BY SequencedIs
<1> QED
  BY <1>1, <1>2, <1>3, <1>4, <1>5 DEF Sequenced, Follows, Under

\* Sequence ids are at most the client's, and those equal to it are its requests.
LEMMA SequencedKept ==
    ASSUME Types, Types', Numbered, Sequenced, [Next]_vars
    PROVE  Sequenced'
<1>1. CASE ExchangeId
  <2>1. UNCHANGED <<wire, runs, back, result>> /\ mac'.sess = mac.sess /\ mac'.seqid = mac.seqid /\ mac'.req = mac.req
    BY <1>1, ExchangeEffect DEF hist
  <2> QED
    BY <2>1 DEF Sequenced, Follows, Busy
<1>2. CASE CreateSession
  <2>1. UNCHANGED <<wire, runs, back, result>> /\ mac'.req = mac.req
    BY <1>2, CreateEffect DEF hist
  <2>2. CASE mac'.sess = mac.sess /\ mac'.seqid = mac.seqid
    BY <2>1, <2>2 DEF Sequenced, Follows, Busy
  <2>3. CASE mac'.sess = next.sess /\ \A k \in Slot : mac'.seqid[k] = 1
    <3>1. Busy' = Busy
      BY <2>1 DEF Busy
    <3> QED
      BY <2>1, <2>3, <3>1, ClientFacts, UnderFacts DEF Sequenced, Follows
  <2> QED
    BY <1>2, <2>2, <2>3, CreateEffect
<1>3. CASE LoseConn
  <2>1. /\ mac'.sess = mac.sess /\ mac'.seqid = mac.seqid /\ Busy' = Busy /\ Busy \subseteq Slot /\ back' = {} /\ UNCHANGED <<runs, result>>
        /\ \A k \in Busy : mac'.req[k] \in Requests /\ Alike(mac'.req[k], mac.req[k])
        /\ \A r \in wire' : r \in wire \/ \E k \in Busy : r = mac'.req[k]
    BY <1>3, LoseEffect, AgainEffect DEF hist, server
  <2>2. \A r, q : q \in Slot /\ Same(r, mac.req[q]) => Same(r, mac'.req[q])
    BY <2>1, ReqFields DEF Same, Alike, Busy
  <2>3. \A k \in Busy : Same(mac'.req[k], mac'.req[k]) /\ mac'.req[k].slot = k /\ (mac'.req[k].sess = mac.sess => mac'.req[k].seqid = mac.seqid[k])
    BY <2>1, ReqFields DEF Same, Alike, Sequenced
  <2>4. \A r \in wire' : Follows(r)'
    <3>1. \A r \in wire : r.slot \in Slot /\ Follows(r)
      BY UnderFacts DEF Sequenced, Under
    <3> QED
      BY <2>1, <2>2, <2>3, <3>1, UnderFacts DEF Follows
  <2>5. \A c \in runs' : Follows(c.req)'
    <3>1. \A c \in runs : c.req.slot \in Slot /\ Follows(c.req)
      BY UnderFacts DEF Sequenced, Under
    <3> QED
      BY <2>1, <2>2, <3>1 DEF Follows
  <2>6. \A e \in result' : e.tag.sess = mac'.sess =>
           /\ e.tag.seqid <= mac'.seqid[e.tag.slot]
           /\ e.tag.seqid = mac'.seqid[e.tag.slot] => e.tag.slot \in Busy' /\ mac'.req[e.tag.slot].sess = mac'.sess
    BY <2>1 DEF Sequenced, Alike
  <2>7. \A k \in Slot : mac'.seqid[k] >= 1
    BY <2>1 DEF Sequenced
  <2> QED
    BY <2>1, <2>3, <2>4, <2>5, <2>6, <2>7 DEF Sequenced
<1>4. CASE ClientRestart
  <2>1. /\ mac'.sess = 0 /\ (\A k \in Slot : mac'.req[k] = NoReq /\ mac'.seqid[k] = 1) /\ wire' = {} /\ back' = {} /\ UNCHANGED <<runs, result>>
    BY <1>4, ClientEffect DEF hist, server
  <2> QED
    BY <2>1, ClientFacts, UnderFacts DEF Sequenced, Follows, Busy
<1>5. CASE ServerRestart
  <2>1. /\ mac'.sess = mac.sess /\ mac'.seqid = mac.seqid /\ Busy' = Busy /\ Busy \subseteq Slot /\ back' = {} /\ runs' = {} /\ result' = result
        /\ \A k \in Busy : mac'.req[k] \in Requests /\ Alike(mac'.req[k], mac.req[k])
        /\ \A r \in wire' : \E k \in Busy : r = mac'.req[k]
    BY <1>5, RestartEffect, AgainEffect DEF hist
  <2>2. \A k \in Busy : Same(mac'.req[k], mac'.req[k]) /\ mac'.req[k].slot = k /\ (mac'.req[k].sess = mac.sess => mac'.req[k].seqid = mac.seqid[k])
    BY <2>1, ReqFields DEF Same, Alike, Sequenced
  <2>3. \A r \in wire' : Follows(r)'
    BY <2>1, <2>2, UnderFacts DEF Follows
  <2>4. \A e \in result' : e.tag.sess = mac'.sess =>
           /\ e.tag.seqid <= mac'.seqid[e.tag.slot]
           /\ e.tag.seqid = mac'.seqid[e.tag.slot] => e.tag.slot \in Busy' /\ mac'.req[e.tag.slot].sess = mac'.sess
    BY <2>1 DEF Sequenced, Alike
  <2>5. \A k \in Slot : mac'.seqid[k] >= 1
    BY <2>1 DEF Sequenced
  <2> QED
    BY <2>1, <2>2, <2>3, <2>4, <2>5 DEF Sequenced
<1>6. ASSUME NEW k \in Slot, Call(k) PROVE Sequenced'
  <2>1. PICK r \in Requests :
             /\ mac'.sess = mac.sess /\ mac'.seqid = mac.seqid
             /\ mac'.req[k] = r /\ (\A j \in Slot \ {k} : mac'.req[j] = mac.req[j]) /\ wire' = wire \cup {r}
             /\ mac.req[k] = NoReq /\ r.sess = mac.sess /\ r.slot = k /\ r.seqid = mac.seqid[k] /\ UNCHANGED <<runs, back, result>>
    BY <1>6, CallEffect DEF server, hist
  <2> QED
    BY <2>1, AskedSequenced
<1>7. ASSUME NEW k \in Slot, Resend(k) PROVE Sequenced'
  <2>1. PICK r \in Requests :
             /\ mac'.sess = mac.sess /\ mac'.seqid = mac.seqid
             /\ mac'.req[k] = r /\ (\A j \in Slot \ {k} : mac'.req[j] = mac.req[j]) /\ wire' = wire \cup {r}
             /\ mac.req[k] # NoReq /\ mac.req[k].sess # mac.sess /\ r.sess = mac.sess /\ r.slot = mac.req[k].slot
             /\ r.seqid = mac.seqid[k] /\ UNCHANGED <<runs, back, result>>
    BY <1>7, ResendEffect DEF server, hist
  <2>2. r.slot = k
    BY <2>1 DEF Sequenced, Busy
  <2> QED
    BY <2>1, <2>2, AskedSequenced
<1>8. ASSUME NEW r \in wire, Receive(r) PROVE Sequenced'
  <2>1. UNCHANGED <<mac, result>> /\ wire' \subseteq wire
    BY <1>8, ReceiveEffect
  <2>2. (\A d \in runs' : d \in runs \/ d.req = r) /\ \A m \in back' : m \in back \/ m.req = r
    BY <1>8, ReceiveEffect DEF Replies1
  <2> QED
    BY <2>1, <2>2 DEF Sequenced, Follows, Busy
<1>9. ASSUME NEW c \in runs, Eval(c) PROVE Sequenced'
  <2>1. PICK d \in Runs :
             /\ runs' = (runs \ {c}) \cup {d} /\ d.req = c.req /\ UNCHANGED <<wire, back, mac>>
             /\ \A e \in result' : e \in result \/ e.tag = Tag(c.req)
    BY <1>9, EvalEffect
  <2>2. c.req \in Under /\ c.req \in Requests
    BY UnderFacts DEF Under
  <2>3. Tag(c.req).sess = c.req.sess /\ Tag(c.req).slot = c.req.slot /\ Tag(c.req).seqid = c.req.seqid /\ c.req.slot \in Slot
    BY <2>2, ReqFields
  <2>4. ASSUME NEW e \in result', e.tag.sess = mac'.sess
        PROVE  /\ e.tag.seqid <= mac'.seqid[e.tag.slot]
               /\ e.tag.seqid = mac'.seqid[e.tag.slot] => e.tag.slot \in Busy' /\ mac'.req[e.tag.slot].sess = mac'.sess
    <3>1. CASE e \in result
      BY <2>1, <2>4, <3>1 DEF Sequenced, Busy
    <3>2. CASE e.tag = Tag(c.req)
      BY <2>1, <2>2, <2>3, <2>4, <3>2, SequencedIs DEF Follows, Same, Busy
    <3> QED
      BY <2>1, <3>1, <3>2
  <2> QED
    BY <2>1, <2>4 DEF Sequenced, Follows, Busy
<1>10. ASSUME NEW c \in runs, Finish(c) PROVE Sequenced'
  <2>1. UNCHANGED <<mac, result, wire>> /\ runs' \subseteq runs /\ \A m \in back' : m \in back \/ m.req = c.req
    BY <1>10, FinishEffect DEF Replies1, hist
  <2> QED
    BY <2>1 DEF Sequenced, Follows, Busy
<1>11. ASSUME NEW m \in back, Accept(m) PROVE Sequenced'
  <2>1. UNCHANGED <<runs, result, wire>> /\ back' \subseteq back /\ m.req.slot \in Slot
    BY <1>11, AcceptIs DEF server, hist
  <2>2. CASE mac'.sess = mac.sess /\ mac'.seqid = mac.seqid /\ mac'.req = mac.req
    BY <2>1, <2>2 DEF Sequenced, Follows, Busy
  <2>3. CASE mac'.sess = 0 /\ mac'.seqid = mac.seqid /\ mac'.req = mac.req
    <3>1. Under' \subseteq Under /\ Busy' = Busy
      BY <2>1, <2>3 DEF Under, Busy
    <3>2. \A r \in Under : r.sess # 0
      BY UnderFacts
    <3>3. \A e \in result : e.tag.sess # 0
      BY UnderFacts
    <3>4. \A k \in Busy : mac.req[k].sess # 0
      BY ClientFacts
    <3> QED
      BY <2>1, <2>3, <3>1, <3>2, <3>3, <3>4 DEF Sequenced, Follows, Under
  <2>4. CASE /\ mac'.sess = mac.sess /\ mac'.req[m.req.slot] = NoReq /\ mac'.seqid[m.req.slot] = mac.seqid[m.req.slot] + 1
             /\ \A j \in Slot \ {m.req.slot} : mac'.req[j] = mac.req[j] /\ mac'.seqid[j] = mac.seqid[j]
    <3>1. Under' \subseteq Under /\ Busy' = Busy \ {m.req.slot} /\ Busy \subseteq Slot
      BY <2>1, <2>4 DEF Under, Busy
    <3>2. \A k \in Slot : mac'.seqid[k] >= 1
      BY <2>1, <2>4, UnderFacts DEF Sequenced
    <3>3. \A k \in Busy' : mac'.req[k].slot = k /\ (mac'.req[k].sess = mac'.sess => mac'.req[k].seqid = mac'.seqid[k])
      BY <2>4, <3>1 DEF Sequenced
    <3>4. ASSUME NEW x \in Under', x.sess = mac'.sess
          PROVE  x.seqid <= mac'.seqid[x.slot] /\ (x.seqid = mac'.seqid[x.slot] => Same(x, mac'.req[x.slot]))
      <4>1. x \in Under /\ x.slot \in Slot /\ x.seqid \in Nat /\ mac.seqid[x.slot] \in Nat /\ Follows(x)
        BY <3>1, UnderFacts, SequencedIs
      <4>2. x.seqid <= mac.seqid[x.slot] /\ (x.seqid = mac.seqid[x.slot] => Same(x, mac.req[x.slot]))
        BY <2>4, <3>4, <4>1 DEF Follows
      <4> QED
        BY <2>4, <4>1, <4>2
    <3>5. ASSUME NEW e \in result', e.tag.sess = mac'.sess
          PROVE  /\ e.tag.seqid <= mac'.seqid[e.tag.slot]
                 /\ e.tag.seqid = mac'.seqid[e.tag.slot] => e.tag.slot \in Busy' /\ mac'.req[e.tag.slot].sess = mac'.sess
      <4>1. e \in result /\ e.tag.slot \in Slot /\ e.tag.seqid \in Nat /\ mac.seqid[e.tag.slot] \in Nat
        BY <2>1, UnderFacts
      <4>2. e.tag.seqid <= mac.seqid[e.tag.slot] /\ (e.tag.seqid = mac.seqid[e.tag.slot] => e.tag.slot \in Busy /\ mac.req[e.tag.slot].sess = mac.sess)
        BY <2>4, <3>5, <4>1 DEF Sequenced
      <4> QED
        BY <2>4, <3>1, <4>1, <4>2
    <3> QED
      BY <3>2, <3>3, <3>4, <3>5 DEF Sequenced, Follows, Under
  <2> QED
    BY <1>11, <2>2, <2>3, <2>4, AcceptIs
<1>12. CASE UNCHANGED vars
  BY <1>12 DEF vars, server, hist, Sequenced, Follows, Busy
<1> QED
  BY <1>1, <1>2, <1>3, <1>4, <1>5, <1>6, <1>7, <1>8, <1>9, <1>10, <1>11, <1>12, Kinds

\* A slot that was used holds a reply, or knows that it does not.
LEMMA FilledKept ==
    ASSUME Types, Filled, [Next]_vars
    PROVE  Filled'
<1>1. ASSUME \A s \in DOMAIN slots' : (s \in DOMAIN slots /\ slots'[s] = slots[s]) \/ slots'[s] = FreshTable
      PROVE  Filled'
  BY <1>1, CellFields DEF Filled
<1>2. CASE ExchangeId
  BY <1>1, <1>2, ExchangeEffect
<1>3. CASE CreateSession
  BY <1>1, <1>3, CreateEffect
<1>4. CASE LoseConn \/ ClientRestart
  BY <1>1, <1>4, LoseEffect, ClientEffect DEF server
<1>5. CASE ServerRestart
  BY <1>1, <1>5, RestartEffect
<1>6. ASSUME NEW c \in runs, Finish(c) PROVE Filled'
  <2>1. c.res # NoReq /\ c.req.cache \in BOOLEAN
    BY <1>6, FinishEffect, RunFields, ReqFields
  <2> QED
    <3>1. /\ DOMAIN slots' = DOMAIN slots
          /\ \A s \in DOMAIN slots, k \in Slot :
                IF s = c.req.sess /\ k = c.req.slot
                THEN slots'[s][k].reply = (IF c.req.cache THEN c.res ELSE NoReq) /\ slots'[s][k].uncached = ~ c.req.cache
                ELSE slots'[s][k] = slots[s][k]
      BY <1>6, FinishEffect
    <3>2. ASSUME NEW s \in DOMAIN slots, NEW k \in Slot, slots'[s][k].seqid >= 1
          PROVE  slots'[s][k].reply # NoReq \/ slots'[s][k].uncached
      <4>1. CASE s = c.req.sess /\ k = c.req.slot /\ c.req.cache
        BY <2>1, <3>1, <4>1
      <4>2. CASE s = c.req.sess /\ k = c.req.slot /\ ~ c.req.cache
        BY <3>1, <4>2
      <4>3. CASE ~(s = c.req.sess /\ k = c.req.slot)
        <5>1. slots'[s][k] = slots[s][k]
          BY <3>1, <4>3
        <5> QED
          BY <3>2, <5>1 DEF Filled
      <4> QED
        BY <4>1, <4>2, <4>3
    <3> QED
      BY <3>1, <3>2 DEF Filled
<1>7. CASE slots' = slots
  BY <1>1, <1>7
<1> QED
  BY <1>2, <1>3, <1>4, <1>5, <1>6, <1>7, Kinds, CallEffect, ResendEffect, ReceiveEffect, EvalEffect, AcceptEffect DEF server, vars

\* An answer of a session there is belongs to the client's own session.
LEMMA AnswerIsOurs ==
    ASSUME Types, Numbered, Incarnation, OurSessions, NEW m \in back, Live(m.req)
    PROVE  Joined /\ m.req.sess = mac.sess
<1>1. DOMAIN slots # {} /\ client.id # 0
  BY DEF Live, Incarnation
<1>2. Joined
  BY <1>1 DEF Incarnation, Fresh, Joined
<1> QED
  BY <1>2 DEF OurSessions, Ours

\* A compound of the client's session runs the request of its slot, unless one was run twice.
LEMMA RunIsCurrent ==
    ASSUME Types, Numbered, Slotted, Sequenced, InStep, raced = {}, NEW c \in runs, c.req.sess = mac.sess, Live(c.req)
    PROVE  /\ c.req.slot \in Busy /\ c.req.seqid = mac.seqid[c.req.slot] /\ Same(c.req, mac.req[c.req.slot])
           /\ Tag(c.req) = Tag(mac.req[c.req.slot]) /\ Cell(c.req).seqid = mac.seqid[c.req.slot] - 1
<1>1. c.req \in Requests /\ c.req.slot \in Slot /\ c.req.seqid \in Nat /\ mac.seqid[c.req.slot] \in Nat /\ Cell(c.req).seqid \in Nat
  BY UnderFacts, SlotFacts DEF Live, Cell
<1>2. c.req.seqid = Cell(c.req).seqid + 1
  BY DEF Slotted, NextUp
<1>3. Cell(c.req).seqid \in {mac.seqid[c.req.slot] - 1, mac.seqid[c.req.slot]}
  BY <1>1 DEF InStep, Live, Cell
<1>4. c.req.seqid <= mac.seqid[c.req.slot] /\ (c.req.seqid = mac.seqid[c.req.slot] => Same(c.req, mac.req[c.req.slot]))
  BY DEF Sequenced, Follows
<1>5. c.req.seqid = mac.seqid[c.req.slot] /\ Cell(c.req).seqid = mac.seqid[c.req.slot] - 1
  BY <1>1, <1>2, <1>3, <1>4
<1>6. Same(c.req, mac.req[c.req.slot])
  BY <1>4, <1>5
<1>7. c.req.slot \in Busy
  BY <1>1, <1>6 DEF Same, Busy
<1>8. mac.req[c.req.slot].slot = c.req.slot /\ mac.req[c.req.slot].seqid = mac.seqid[c.req.slot] /\ mac.req[c.req.slot].sess = c.req.sess
  BY <1>6, <1>7 DEF Sequenced, Same
<1> QED
  BY <1>5, <1>6, <1>7, <1>8 DEF Tag

\* Slots of the client's session are at its sequence id, or one behind.
LEMMA InStepKept ==
    ASSUME Types, Types', Numbered, Slotted, Incarnation, OurSessions, Dead, Sequenced, InStep, Answering, [Next]_vars
    PROVE  InStep'
<1>0. (\A k \in Slot : mac.seqid[k] \in Nat) /\ (\A s \in DOMAIN slots : s >= 1 /\ s < next.sess /\ \A k \in Slot : slots[s][k].seqid \in Nat)
      /\ mac.sess < next.sess /\ next.sess \in Nat /\ mac.sess \in Nat
  BY UnderFacts, SlotFacts, ClientFacts
<1>1. CASE ExchangeId
  <2>1. raced' = raced /\ mac'.sess = mac.sess /\ mac'.seqid = mac.seqid /\ mac'.req = mac.req /\ (slots' = slots \/ DOMAIN slots' = {})
    BY <1>1, ExchangeEffect DEF hist
  <2> QED
    BY <2>1 DEF InStep, Busy
<1>2. CASE CreateSession
  <2>1. /\ raced' = raced /\ mac.sess = 0 /\ mac'.req = mac.req
        /\ mac'.sess = 0 \/ (mac'.sess = next.sess /\ slots'[next.sess] = FreshTable /\ \A k \in Slot : mac'.seqid[k] = 1)
        /\ DOMAIN slots' \in {DOMAIN slots, DOMAIN slots \cup {next.sess}} /\ next.sess >= 1
    BY <1>0, <1>2, CreateEffect DEF hist
  <2>2. CASE mac'.sess = 0
    BY <1>0, <2>1, <2>2 DEF InStep
  <2>3. CASE mac'.sess = next.sess /\ slots'[next.sess] = FreshTable /\ \A k \in Slot : mac'.seqid[k] = 1
    BY <2>1, <2>3, CellFields DEF InStep
  <2> QED
    BY <2>1, <2>2, <2>3
<1>3. CASE LoseConn
  <2>1. /\ UNCHANGED <<slots, raced>> /\ mac'.sess = mac.sess /\ mac'.seqid = mac.seqid /\ Busy' = Busy
        /\ \A k \in Busy : Alike(mac'.req[k], mac.req[k])
    BY <1>3, LoseEffect, AgainEffect DEF hist, server
  <2> QED
    BY <2>1 DEF InStep, Alike
<1>4. CASE ClientRestart
  BY <1>0, <1>4, ClientEffect DEF InStep, server
<1>5. CASE ServerRestart
  BY <1>5, RestartEffect DEF InStep
<1>6. ASSUME NEW k \in Slot, Call(k) PROVE InStep'
  <2>1. /\ mac.req[k] = NoReq /\ mac'.sess = mac.sess /\ mac'.seqid = mac.seqid /\ (\A j \in Slot \ {k} : mac'.req[j] = mac.req[j])
        /\ UNCHANGED <<slots, raced>>
    BY <1>6, CallEffect DEF server, hist
  <2> QED
    BY <1>0, <2>1 DEF InStep, Busy
<1>7. ASSUME NEW k \in Slot, Resend(k) PROVE InStep'
  <2>1. /\ mac.req[k].sess # mac.sess /\ mac'.sess = mac.sess /\ mac'.seqid = mac.seqid /\ (\A j \in Slot \ {k} : mac'.req[j] = mac.req[j])
        /\ UNCHANGED <<slots, raced>>
    BY <1>7, ResendEffect DEF server, hist
  <2> QED
    BY <1>0, <2>1 DEF InStep, Busy
<1>8. ASSUME NEW r \in wire, Receive(r) PROVE InStep'
  <2>1. UNCHANGED <<slots, mac>> /\ raced \subseteq raced'
    BY <1>8, ReceiveEffect
  <2> QED
    BY <2>1 DEF InStep, Busy
<1>9. ASSUME NEW c \in runs, Eval(c) PROVE InStep'
  <2>1. UNCHANGED <<slots, mac, raced>>
    BY <1>9, EvalEffect
  <2> QED
    BY <2>1 DEF InStep, Busy
<1>10. ASSUME NEW c \in runs, Finish(c) PROVE InStep'
  <2> SUFFICES ASSUME raced = {}, mac.sess \in DOMAIN slots, NEW k \in Slot
               PROVE  /\ slots'[mac.sess][k].seqid \in {mac.seqid[k] - 1, mac.seqid[k]}
                      /\ slots'[mac.sess][k].seqid = mac.seqid[k] =>
                            k \in Busy /\ mac.req[k].sess = mac.sess /\ (slots'[mac.sess][k].uncached => ~ mac.req[k].cache)
    <3>1. UNCHANGED <<mac, raced>> /\ DOMAIN slots' = DOMAIN slots
      BY <1>10, FinishEffect DEF hist
    <3> QED
      BY <3>1 DEF InStep, Busy
  <2>1. CASE mac.sess = c.req.sess /\ k = c.req.slot
    <3>1. slots'[mac.sess][k].seqid = c.req.seqid /\ slots'[mac.sess][k].uncached = ~ c.req.cache
      BY <1>10, <2>1, FinishEffect
    <3>2. c.req.slot \in Busy /\ c.req.seqid = mac.seqid[c.req.slot] /\ Same(c.req, mac.req[c.req.slot])
      BY <2>1, RunIsCurrent DEF Live
    <3> QED
      BY <2>1, <3>1, <3>2 DEF Same
  <2>2. CASE ~(mac.sess = c.req.sess /\ k = c.req.slot)
    <3>1. slots'[mac.sess][k] = slots[mac.sess][k]
      BY <1>10, <2>2, FinishEffect
    <3> QED
      BY <3>1 DEF InStep
  <2> QED
    BY <2>1, <2>2
<1>11. ASSUME NEW m \in back, Accept(m) PROVE InStep'
  <2>1. UNCHANGED <<slots, raced>> /\ m.req.slot \in Slot
    BY <1>11, AcceptIs DEF server, hist
  <2>2. CASE mac'.sess = mac.sess /\ mac'.seqid = mac.seqid /\ mac'.req = mac.req
    BY <2>1, <2>2 DEF InStep, Busy
  <2>3. CASE mac'.sess = 0
    BY <1>0, <2>1, <2>3 DEF InStep
  <2>4. CASE /\ mac'.sess = mac.sess /\ mac'.req[m.req.slot] = NoReq /\ mac'.seqid[m.req.slot] = mac.seqid[m.req.slot] + 1
             /\ mac.req[m.req.slot] = m.req /\ m.res.status # "BADSESSION"
             /\ \A j \in Slot \ {m.req.slot} : mac'.req[j] = mac.req[j] /\ mac'.seqid[j] = mac.seqid[j]
    <3>1. Live(m.req) /\ m.req.sess = mac.sess
      BY <2>4, AnswerIsOurs DEF Dead
    <3>2. m.req.slot \in Busy /\ m.req.seqid = mac.seqid[m.req.slot]
      BY <2>1, <2>4, <3>1, ClientFacts, ReqFields DEF Busy, Sequenced
    <3>3. raced = {} => slots[mac.sess][m.req.slot].seqid = mac.seqid[m.req.slot]
      BY <3>1, <3>2 DEF Answering, Cell
    <3> QED
      BY <1>0, <2>1, <2>4, <3>1, <3>3 DEF InStep, Busy, Live
  <2> QED
    BY <1>11, <2>2, <2>3, <2>4, AcceptIs
<1>12. CASE UNCHANGED vars
  BY <1>12 DEF vars, server, hist, InStep, Busy
<1> QED
  BY <1>1, <1>2, <1>3, <1>4, <1>5, <1>6, <1>7, <1>8, <1>9, <1>10, <1>11, <1>12, Kinds

\* The answers to the client's requests are those of the slots, and never that the
\* request was out of order.
LEMMA AnsweringKept ==
    ASSUME Types, Types', Numbered, Slotted, Incarnation, OurSessions, Sequenced, Filled, InStep, Answering, [Next]_vars
    PROVE  Answering'
<1>0. (\A k \in Slot : mac.seqid[k] \in Nat) /\ \A m \in back : m.req \in Requests /\ m.req.slot \in Slot /\ m.req.seqid \in Nat /\ m.req.sess >= 1 /\ m.req.sess < next.sess
  BY UnderFacts, ClientFacts, ReqFields
<1>1. CASE ExchangeId
  <2>1. UNCHANGED <<raced, back>> /\ mac'.sess = mac.sess /\ mac'.seqid = mac.seqid /\ mac'.req = mac.req /\ (slots' = slots \/ DOMAIN slots' = {})
    BY <1>1, ExchangeEffect DEF hist
  <2> QED
    BY <2>1 DEF Answering, Live, Cell
<1>2. CASE CreateSession
  <2>1. UNCHANGED <<raced, back>> /\ mac.sess = 0 /\ mac'.sess \in {0, next.sess} /\ next.sess \in Nat
    BY <1>2, CreateEffect, ClientFacts DEF hist
  <2>2. \A m \in back : m.req.sess # mac'.sess
    BY <1>0, <2>1, ClientFacts
  <2> QED
    BY <2>1, <2>2 DEF Answering
<1>3. CASE LoseConn \/ ClientRestart \/ ServerRestart
  <2>1. back' = {}
    BY <1>3, LoseEffect, ClientEffect, RestartEffect
  <2> QED
    BY <2>1 DEF Answering
<1>6. ASSUME NEW k \in Slot, Call(k) PROVE Answering'
  <2>1. /\ mac.req[k] = NoReq /\ mac'.sess = mac.sess /\ mac'.seqid = mac.seqid /\ (\A j \in Slot \ {k} : mac'.req[j] = mac.req[j])
        /\ UNCHANGED <<slots, raced, back>>
    BY <1>6, CallEffect DEF server, hist
  <2>2. \A m \in back : m.req.sess = mac.sess /\ m.req.seqid = mac.seqid[m.req.slot] => m.req.slot # k
    BY <2>1 DEF Sequenced, Follows, Same
  <2> QED
    BY <1>0, <2>1, <2>2 DEF Answering, Live, Cell
<1>7. ASSUME NEW k \in Slot, Resend(k) PROVE Answering'
  <2>1. /\ mac.req[k].sess # mac.sess /\ mac'.sess = mac.sess /\ mac'.seqid = mac.seqid /\ (\A j \in Slot \ {k} : mac'.req[j] = mac.req[j])
        /\ UNCHANGED <<slots, raced, back>>
    BY <1>7, ResendEffect DEF server, hist
  <2>2. \A m \in back : m.req.sess = mac.sess /\ m.req.seqid = mac.seqid[m.req.slot] => m.req.slot # k
    BY <2>1 DEF Sequenced, Follows, Same
  <2> QED
    BY <1>0, <2>1, <2>2 DEF Answering, Live, Cell
<1>8. ASSUME NEW r \in wire, Receive(r) PROVE Answering'
  <2>1. UNCHANGED <<slots, mac>> /\ raced \subseteq raced' /\ r \in Requests
    BY <1>8, ReceiveEffect
  <2>2. ASSUME NEW m \in back', m \notin back, raced = {}, Live(r), r.sess = mac.sess, r.seqid = mac.seqid[r.slot]
        PROVE  /\ m.req = r /\ Cell(r).seqid = r.seqid /\ m.res.status # "MISORDERED"
               /\ m.res.status = "UNCACHED" => ~ mac.req[r.slot].cache
    <3>0. r.slot \in Slot /\ r.seqid \in Nat /\ r.seqid >= 1 /\ Cell(r).seqid \in Nat
      BY <2>1, <2>2, ReqFields, SlotFacts DEF Sequenced, Live, Cell
    <3>1. Cell(r).seqid \in {r.seqid - 1, r.seqid} /\ (Cell(r).seqid = r.seqid /\ Cell(r).uncached => ~ mac.req[r.slot].cache)
      BY <2>2, <3>0 DEF InStep, Live, Cell
    <3>2. CASE Seen(r) = "replay"
      <4>1. m.req = r /\ m.res = Replayed(Cell(r).reply)
        BY <1>8, <2>2, <3>2, ReceiveEffect DEF OwnErrors, Replies1
      <4>2. r.seqid = Cell(r).seqid /\ Cell(r).reply \in Results
        BY <2>1, <2>2, <3>0, <3>2, SeenIs, CellFields DEF Live, Cell, Types
      <4>3. m.res.status = Cell(r).reply.status
        BY <4>1, <4>2, Says
      <4>4. m.res.status \notin OwnErrors
        BY <4>2, <4>3, RunFields
      <4> QED
        BY <4>1, <4>2, <4>4 DEF OwnErrors
    <3>3. CASE Seen(r) \in OwnErrors
      <4>1. m.req = r /\ m.res = Fail(Seen(r)) /\ m.res.status = Seen(r)
        BY <1>8, <2>2, <3>3, ReceiveEffect, Says DEF OwnErrors, Replies1
      <4>2. Seen(r) # "BADSESSION"
        BY <2>1, <2>2, SeenIs
      <4>3. Seen(r) # "MISORDERED"
        <5>1. Cell(r).seqid = r.seqid => Cell(r).reply # NoReq \/ Cell(r).uncached
          BY <2>2, <3>0 DEF Filled, Live, Cell
        <5> QED
          BY <2>1, <3>0, <3>1, <5>1, SeenIs
      <4>4. Seen(r) = "UNCACHED"
        BY <3>3, <4>2, <4>3 DEF OwnErrors
      <4>5. r.seqid = Cell(r).seqid /\ Cell(r).uncached
        BY <2>1, <4>4, SeenIs
      <4> QED
        BY <3>1, <4>1, <4>4, <4>5
    <3>4. CASE Seen(r) = "new"
      BY <1>8, <2>2, <3>4, ReceiveEffect DEF OwnErrors
    <3> QED
      BY <2>1, <3>2, <3>3, <3>4, SeenIs
  <2>3. \A m \in back' : m \in back \/ m.req = r
    BY <1>8, ReceiveEffect DEF Replies1
  <2> QED
    BY <2>1, <2>2, <2>3 DEF Answering, Live, Cell
<1>9. ASSUME NEW c \in runs, Eval(c) PROVE Answering'
  <2>1. UNCHANGED <<slots, mac, raced, back>>
    BY <1>9, EvalEffect
  <2> QED
    BY <2>1 DEF Answering, Live, Cell
<1>10. ASSUME NEW c \in runs, Finish(c) PROVE Answering'
  <2>1. /\ UNCHANGED <<mac, raced>> /\ DOMAIN slots' = DOMAIN slots /\ c.res \in Results /\ Replies1(c.req, c.res)
        /\ \A s \in DOMAIN slots, k \in Slot :
              IF s = c.req.sess /\ k = c.req.slot THEN slots'[s][k].seqid = c.req.seqid ELSE slots'[s][k] = slots[s][k]
    BY <1>10, FinishEffect DEF hist
  <2>2. c.req.slot \in Slot /\ c.res.status \notin OwnErrors
    BY <2>1, SlotFacts, RunFields
  <2> SUFFICES ASSUME raced = {}, NEW m \in back', Live(m.req), m.req.sess = mac.sess, m.req.seqid = mac.seqid[m.req.slot]
               PROVE  /\ slots'[m.req.sess][m.req.slot].seqid = m.req.seqid /\ m.res.status # "MISORDERED"
                      /\ m.res.status = "UNCACHED" => ~ mac.req[m.req.slot].cache
    BY <2>1 DEF Answering, Live, Cell
  <2>3. CASE m \notin back
    <3>1. m.req = c.req /\ m.res = c.res
      BY <2>1, <2>3 DEF Replies1
    <3> QED
      BY <2>1, <2>2, <3>1 DEF Live, OwnErrors
  <2>4. CASE m \in back
    <3>1. /\ Cell(m.req).seqid = m.req.seqid /\ m.res.status # "MISORDERED"
          /\ m.res.status = "UNCACHED" => ~ mac.req[m.req.slot].cache
      BY <2>4 DEF Answering
    <3>2. CASE m.req.sess = c.req.sess /\ m.req.slot = c.req.slot
      <4>1. Live(c.req) /\ Cell(c.req) = Cell(m.req) /\ c.req.sess = mac.sess
        BY <3>2 DEF Live, Cell
      <4>2. Cell(c.req).seqid = mac.seqid[c.req.slot] - 1
        BY <4>1, RunIsCurrent
      <4> QED
        BY <1>0, <2>2, <3>1, <3>2, <4>1, <4>2
    <3>3. CASE ~(m.req.sess = c.req.sess /\ m.req.slot = c.req.slot)
      BY <1>0, <2>1, <2>4, <3>1, <3>3 DEF Live, Cell
    <3> QED
      BY <3>2, <3>3
  <2> QED
    BY <2>3, <2>4
<1>11. ASSUME NEW m \in back, Accept(m) PROVE Answering'
  <2>1. UNCHANGED <<slots, raced>> /\ back' \subseteq back /\ m.req.slot \in Slot
    BY <1>11, AcceptIs DEF server, hist
  <2>2. CASE mac'.sess = mac.sess /\ mac'.seqid = mac.seqid /\ mac'.req = mac.req
    BY <2>1, <2>2 DEF Answering, Live, Cell
  <2>3. CASE mac'.sess = 0
    <3>1. \A x \in back : x.req.sess # 0
      BY <1>0
    <3> QED
      BY <2>1, <2>3, <3>1 DEF Answering
  <2>4. CASE /\ mac'.sess = mac.sess /\ mac'.seqid[m.req.slot] = mac.seqid[m.req.slot] + 1
             /\ \A j \in Slot \ {m.req.slot} : mac'.req[j] = mac.req[j] /\ mac'.seqid[j] = mac.seqid[j]
    <3>1. \A x \in back : x.req.sess = mac.sess => x.req.seqid <= mac.seqid[x.req.slot]
      BY DEF Sequenced, Follows
    <3>2. \A x \in back : x.req.sess = mac.sess /\ x.req.seqid = mac'.seqid[x.req.slot] => x.req.slot # m.req.slot
      BY <1>0, <2>4, <3>1
    <3> QED
      BY <1>0, <2>1, <2>4, <3>2 DEF Answering, Live, Cell
  <2> QED
    BY <1>11, <2>2, <2>3, <2>4, AcceptIs
<1>12. CASE UNCHANGED vars
  BY <1>12 DEF vars, server, hist, Answering, Live, Cell
<1> QED
  BY <1>1, <1>2, <1>3, <1>6, <1>7, <1>8, <1>9, <1>10, <1>11, <1>12, Kinds

-----------------------------------------------------------------------------
(***************************************************************************)
(* The open the client holds.                                              *)
(***************************************************************************)
\* The client's stateful request is one of its requests.
LEMMA ChangerFacts ==
    ASSUME Types
    PROVE  \A k \in Changer : /\ k \in Busy /\ k \in Slot /\ mac.req[k] \in Requests /\ mac.req[k] # NoReq
                              /\ mac.req[k].op \in Stateful
BY DEF Changer, Busy, Types, Macs

\* The client has one stateful request; it names what the client holds, and is only of a
\* session that is gone when the open has gone with it.
LEMMA OrderlyKept ==
    ASSUME Types, Types', Numbered, Incarnation, OurSessions, Dead, Sequenced, Orderly, [Next]_vars
    PROVE  Orderly'
<1>1. CASE ExchangeId
  <2>1. mac'.open = mac.open /\ mac'.lock = mac.lock /\ mac'.req = mac.req /\ mac'.sess = mac.sess /\ boot' = boot
    BY <1>1, ExchangeEffect DEF Apart
  <2>2. CASE slots' = slots
    BY <2>1, <2>2 DEF Orderly, Changer, Busy, Clear, Stale, Live
  <2>3. CASE client.id # 0 /\ client.verf # mac.verf
    <3>1. mac.open = NoId /\ Busy = {}
      BY <2>3 DEF Incarnation, Fresh
    <3> QED
      BY <2>1, <3>1 DEF Orderly, Changer, Busy, Clear
  <2> QED
    BY <1>1, <2>2, <2>3, ExchangeEffect
<1>2. CASE CreateSession
  <2>1. /\ mac'.open = mac.open /\ mac'.lock = mac.lock /\ mac'.req = mac.req /\ boot' = boot /\ mac.sess = 0
        /\ DOMAIN slots \subseteq DOMAIN slots' /\ (mac'.sess = 0 \/ mac'.sess \in DOMAIN slots')
    BY <1>2, CreateEffect DEF Apart
  <2>2. 0 \notin DOMAIN slots
    BY ClientFacts
  <2> QED
    BY <2>1, <2>2 DEF Orderly, Changer, Busy, Clear, Stale, Live
<1>3. CASE LoseConn
  <2>1. /\ mac'.open = mac.open /\ mac'.lock = mac.lock /\ mac'.sess = mac.sess /\ Busy' = Busy
        /\ UNCHANGED <<slots, boot>> /\ \A k \in Busy : Alike(mac'.req[k], mac.req[k])
    BY <1>3, LoseEffect, AgainEffect DEF server
  <2>2. Changer' = Changer /\ Changer \subseteq Busy
    BY <2>1 DEF Changer, Alike
  <2> QED
    BY <2>1, <2>2 DEF Orderly, Alike, Clear, Stale, Live
<1>4. CASE ClientRestart
  BY <1>4, ClientEffect DEF Orderly, Changer, Busy, Clear
<1>5. CASE ServerRestart
  <2>1. /\ mac'.open = mac.open /\ mac'.lock = mac.lock /\ Busy' = Busy /\ boot' = boot + 1
        /\ \A k \in Busy : Alike(mac'.req[k], mac.req[k])
    BY <1>5, RestartEffect, AgainEffect
  <2>2. Changer' = Changer /\ Changer \subseteq Busy
    BY <2>1 DEF Changer, Alike
  <2>3. Clear'
    <3>1. boot \in Nat /\ mac.open \in AnyId /\ Old(mac.open, next.other, boot)
      BY DEF Types, Macs, Numbered, MacNumbers
    <3>2. mac.open # NoId => mac.open[1] \in Nat
      BY <3>1 DEF AnyId, Ids
    <3> QED
      BY <2>1, <3>1, <3>2 DEF Clear, Stale, Old
  <2> QED
    BY <2>1, <2>2, <2>3 DEF Orderly, Alike
<1>6. ASSUME NEW k \in Slot, Call(k) PROVE Orderly'
  <2>1. PICK r \in Requests :
             /\ mac'.open = mac.open /\ mac'.lock = mac.lock /\ mac'.sess = mac.sess /\ UNCHANGED <<slots, boot>>
             /\ mac'.req[k] = r /\ (\A j \in Slot \ {k} : mac'.req[j] = mac.req[j]) /\ mac.req[k] = NoReq /\ r.sess = mac.sess
             /\ (r.op \in Stateful => r.cache /\ \A j \in Busy : mac.req[j].op \notin Stateful)
             /\ (r.op \in {"close", "downgrade"} => r.id = mac.open) /\ (r.op = "free" => r.id = mac.lock)
    BY <1>6, CallEffect DEF server, Apart
  <2>2. CASE r.op \notin Stateful
    <3>1. Changer' = Changer /\ \A j \in Changer : j # k /\ j \in Slot
      BY <2>1, <2>2 DEF Changer, Busy
    <3> QED
      BY <2>1, <3>1 DEF Orderly, Clear, Stale, Live
  <2>3. CASE r.op \in Stateful
    <3>1. Changer' = {k}
      BY <2>1, <2>3, ReqFields DEF Changer, Busy
    <3> QED
      BY <2>1, <2>3, <3>1 DEF Orderly, Clear, Stale, Live
  <2> QED
    BY <2>2, <2>3
<1>7. ASSUME NEW k \in Slot, Resend(k) PROVE Orderly'
  <2>1. PICK r \in Requests :
             /\ mac'.open = mac.open /\ mac'.lock = mac.lock /\ mac'.sess = mac.sess /\ UNCHANGED <<slots, boot>>
             /\ mac'.req[k] = r /\ (\A j \in Slot \ {k} : mac'.req[j] = mac.req[j]) /\ mac.req[k] # NoReq /\ r.sess = mac.sess
             /\ r.op = mac.req[k].op /\ r.id = mac.req[k].id /\ r.cache = mac.req[k].cache
    BY <1>7, ResendEffect DEF server, Apart
  <2>2. Changer' = Changer /\ Changer \subseteq Slot
    BY <2>1, ReqFields DEF Changer, Busy
  <2> QED
    BY <2>1, <2>2 DEF Orderly, Clear, Stale, Live
<1>8. ASSUME NEW r \in wire, Receive(r) PROVE Orderly'
  <2>1. UNCHANGED <<slots, boot, mac>>
    BY <1>8, ReceiveEffect
  <2> QED
    BY <2>1 DEF Orderly, Changer, Busy, Clear, Stale, Live
<1>9. ASSUME NEW c \in runs, Eval(c) PROVE Orderly'
  <2>1. UNCHANGED <<slots, boot, mac>>
    BY <1>9, EvalEffect
  <2> QED
    BY <2>1 DEF Orderly, Changer, Busy, Clear, Stale, Live
<1>10. ASSUME NEW c \in runs, Finish(c) PROVE Orderly'
  <2>1. UNCHANGED <<boot, mac>> /\ DOMAIN slots' = DOMAIN slots
    BY <1>10, FinishEffect
  <2> QED
    BY <2>1 DEF Orderly, Changer, Busy, Clear, Stale, Live
<1>11. ASSUME NEW m \in back, Accept(m) PROVE Orderly'
  <2>1. UNCHANGED <<slots, boot>> /\ m.req.slot \in Slot /\ m.req \in Requests
    BY <1>11, AcceptIs DEF server
  <2>2. CASE mac' = mac
    BY <2>1, <2>2 DEF Orderly, Changer, Busy, Clear, Stale, Live
  <2>3. CASE /\ m.res.status = "BADSESSION" /\ Apart(mac') /\ mac'.req = mac.req
             /\ mac'.sess = (IF mac.sess = m.req.sess THEN 0 ELSE mac.sess)
    <3>1. mac.sess = m.req.sess => mac.sess \notin DOMAIN slots
      BY <2>3 DEF Dead, Live
    <3>2. mac'.sess \notin DOMAIN slots => Clear
      BY <2>3, <3>1 DEF Orderly
    <3> QED
      BY <2>1, <2>3, <3>2 DEF Orderly, Changer, Busy, Clear, Stale, Live, Apart
  <2>4. CASE /\ mac.req[m.req.slot] = m.req /\ m.res.status # "BADSESSION" /\ mac'.sess = mac.sess /\ mac'.req[m.req.slot] = NoReq
             /\ \A j \in Slot \ {m.req.slot} : mac'.req[j] = mac.req[j]
    <3>1. mac.sess \in DOMAIN slots
      BY <2>4, AnswerIsOurs DEF Dead, Live
    <3>2. Changer' = Changer \ {m.req.slot} /\ Changer \subseteq Slot
      BY <2>1, <2>4 DEF Changer, Busy
    <3>3. CASE m.req.slot \in Changer
      <4>1. Changer' = {}
        BY <3>2, <3>3 DEF Orderly
      <4> QED
        BY <2>1, <2>4, <3>1, <4>1 DEF Orderly
    <3>4. CASE m.req.slot \notin Changer
      <4>1. m.req.op \notin Stateful
        BY <2>1, <2>4, <3>4, ReqFields DEF Changer, Busy
      <4>2. m.req.op \notin {"open", "close", "downgrade", "lock", "free"}
        BY <2>1, <4>1, ReqFields DEF Stateful
      <4>3. mac'.open = mac.open /\ mac'.lock = mac.lock
        BY <1>11, <2>4, <4>2, AcceptIs DEF Apart
      <4> QED
        BY <2>1, <2>4, <3>1, <3>2, <3>4, <4>3 DEF Orderly, Clear, Stale, Live
    <3> QED
      BY <3>3, <3>4
  <2> QED
    BY <1>11, <2>2, <2>3, <2>4, AcceptIs
<1>12. CASE UNCHANGED vars
  BY <1>12 DEF vars, server, hist, Orderly, Changer, Busy, Clear, Stale, Live
<1> QED
  BY <1>1, <1>2, <1>3, <1>4, <1>5, <1>6, <1>7, <1>8, <1>9, <1>10, <1>11, <1>12, Kinds

\* Steps that change neither the opens nor what the client holds.
LEMMA HoldingLeft ==
    ASSUME Types, Holding, raced \subseteq raced', Joined' => Joined, UNCHANGED <<opens, boot, result>>,
           mac'.open = mac.open, mac'.access = mac.access, mac'.lock = mac.lock, Changer' = Changer,
           \A k \in Changer : /\ mac'.req[k].sess \in DOMAIN slots' => mac.req[k].sess \in DOMAIN slots
                              /\ Tag(mac'.req[k]) = Tag(mac.req[k]) /\ mac'.req[k].op = mac.req[k].op
                              /\ mac'.req[k].access = mac.req[k].access
    PROVE  Holding'
<1>1. /\ Safe(opens', boot', mac'.open, mac'.access) <=> Safe(opens, boot, mac.open, mac.access)
      /\ \A k \in Changer, e \in result :
            Fits(mac'.req[k].op, mac'.req[k].access, e.res, opens', boot', mac'.open, mac'.access)
               <=> Fits(mac.req[k].op, mac.req[k].access, e.res, opens, boot, mac.open, mac.access)
  OBVIOUS
<1> QED
  BY <1>1 DEF Holding, Live, Ran

\* Opens that widen, and new ones, take nothing from the client.
LEMMA Growing ==
    ASSUME Types, NEW c \in runs, Eval(c),
           c.req.op \in {"open", "lock", "unlock", "io", "make"} \/ \A o \in opens : o.id # c.req.id
    PROVE  /\ \A o \in opens : \E p \in opens' : p.id = o.id /\ o.access \subseteq p.access
           /\ \A p \in opens' : p.id = NewOther \/ \E o \in opens : o.id = p.id
<1>0. c.req.access \in Access /\ \A o \in opens : o \in Opens
  BY RunFields, ReqFields DEF Types
<1>1. \A o \in opens : Widen(o, c.req.access).id = o.id /\ Widen(o, c.req.access).access = o.access \cup c.req.access
  BY <1>0, OpenFields
<1>2. CASE opens' = {Widen(o, c.req.access) : o \in opens}
  BY <1>1, <1>2
<1>3. CASE opens = {} /\ \E o \in Opens : opens' = {o} /\ o.id = NewOther
  BY <1>3
<1>4. CASE opens' = opens
  BY <1>4
<1>5. CASE (\A o \in opens : o.id # c.req.id) /\ opens' = {IF o.id = c.req.id THEN Narrow(o, c.req.access) ELSE o : o \in opens}
  BY <1>5
<1>6. CASE (\A o \in opens : o.id # c.req.id) /\ opens' = {o \in opens : o.id # c.req.id}
  BY <1>6
<1> QED
  BY <1>2, <1>3, <1>4, <1>5, <1>6, OpensEffect

\* What fits goes on fitting while opens widen and new ones come.
LEMMA FitsGrowing ==
    ASSUME NEW os, NEW ps, NEW b, NEW i, NEW a, NEW op, NEW acc, NEW res,
           \A o \in os : \E p \in ps : p.id = o.id /\ o.access \subseteq p.access
    PROVE  /\ Safe(os, b, i, a) => Safe(ps, b, i, a)
           /\ Fits(op, acc, res, os, b, i, a) /\ (\A p \in ps : p.id = res.id => \E o \in os : o.id = res.id)
                 => Fits(op, acc, res, ps, b, i, a)
<1>1. \A j, x : Covers(os, j, x) => Covers(ps, j, x)
  BY DEF Covers
<1>2. \A x : Safe(os, b, i, x) => Safe(ps, b, i, x)
  BY <1>1 DEF Safe
<1> QED
  BY <1>1, <1>2 DEF Fits

\* The client's stateful request is run: what it comes to fits.
LEMMA EvalFits ==
    ASSUME Types, Numbered, NEW c \in runs, Eval(c), NEW i \in AnyId, NEW a \in Access, NEW l, Old(i, next.other, boot),
           Safe(opens, boot, i, a), \A o \in opens : o.id # l,
           c.req.op \in {"close", "downgrade"} => c.req.id = i, c.req.op = "free" => c.req.id = l, c.req.op \in Stateful
    PROVE  Fits(c.req.op, c.req.access, Result(c.req), opens', boot, i, a)
<1>0. /\ c.req \in Requests /\ c.req.access \in Access /\ (\A o \in opens : o \in Opens /\ o.id \in Ids /\ o.id # NoId) /\ next.other \in Nat
      /\ \A o \in opens : o.id[2] < next.other /\ o.id[1] = boot
  BY RunFields, ReqFields, CellFields DEF Types, Numbered, OpenNumbers
<1>1. NewOther \in Ids /\ NewOther[2] = next.other /\ NewOther # NoId /\ NewOther # i
  <2>1. NewOther \in Ids /\ NewOther[2] = next.other
    BY ClientFacts DEF NewOther, Ids
  <2> QED
    BY <1>0, <2>1, SessionsAssumption DEF Old
<1>2. CASE c.req.op = "open"
  <2>1. PICK p \in opens' : Result(c.req).id = p.id
    BY <1>2, ResultIs
  <2>2. Result(c.req).status = "ok"
    BY <1>2, ResultIs
  <2>3. CASE opens = {} /\ \E o \in Opens : opens' = {o} /\ o.id = NewOther /\ o.access = c.req.access
    BY <1>1, <1>2, <2>1, <2>2, <2>3 DEF Fits, Covers
  <2>4. CASE opens' = {Widen(o, c.req.access) : o \in opens}
    <3>1. PICK o \in opens : p = Widen(o, c.req.access)
      BY <2>1, <2>4
    <3>2. p.id = o.id /\ p.access = o.access \cup c.req.access
      BY <1>0, <3>1, OpenFields, SMTT(60)
    <3>3. p.id = i => a \subseteq o.access
      <4>1. \A x, y \in opens : x = y
        BY DEF Numbered, OpenNumbers
      <4> QED
        BY <1>0, <3>2, <4>1 DEF Safe, Covers
    <3> QED
      BY <1>2, <2>1, <2>2, <3>2, <3>3 DEF Fits, Covers
  <2> QED
    BY <1>2, <2>3, <2>4, OpensEffect
<1>3. CASE c.req.op = "close"
  <2>1. Result(c.req).status # "ok" => \A o \in opens : o.id # i
    BY <1>3, ResultIs
  <2>2. opens' = {o \in opens : o.id # i}
    BY <1>3, OpensEffect
  <2> QED
    BY <1>3, <2>1, <2>2 DEF Fits, Safe, Covers
<1>4. CASE c.req.op = "downgrade"
  <2>1. Result(c.req).status = "ok" <=> \E o \in opens : o.id = i
    BY <1>4, ResultIs
  <2>2. opens' = {IF o.id = i THEN Narrow(o, c.req.access) ELSE o : o \in opens}
    BY <1>4, OpensEffect
  <2>3. \A o \in opens : Narrow(o, c.req.access).id = o.id /\ Narrow(o, c.req.access).access = c.req.access
    BY <1>0, OpenFields
  <2>4. Result(c.req).status = "ok" => Covers(opens', i, c.req.access)
    BY <2>1, <2>2, <2>3 DEF Covers
  <2>5. Result(c.req).status # "ok" => Safe(opens', boot, i, a)
    BY <2>1, <2>2 DEF Safe, Covers
  <2> QED
    BY <1>4, <2>4, <2>5 DEF Fits, Safe
<1>5. CASE c.req.op = "lock"
  <2>1. opens' = opens
    BY <1>5, OpensEffect
  <2>2. Result(c.req).id \in {NewOther, NoId}
    BY <1>5, ResultIs
  <2>3. \A o \in opens : o.id # Result(c.req).id
    BY <1>0, <1>1, <2>2
  <2> QED
    BY <1>5, <2>1, <2>3 DEF Fits
<1>6. CASE c.req.op \in {"unlock", "free"}
  <2>1. opens' = opens
    BY <1>6, OpensEffect
  <2> QED
    BY <1>6, <2>1 DEF Fits
<1> QED
  BY <1>0, <1>2, <1>3, <1>4, <1>5, <1>6, OpIs DEF Stateful

\* A compound is run: the client's stateful request, or one that takes nothing from it.
LEMMA EvalHolding ==
    ASSUME Types, Numbered, Slotted, OurSessions, Dead, Sequenced, InStep, Orderly, Holding, NEW c \in runs, Eval(c)
    PROVE  Holding'
<1>1. PICK d \in Runs :
         /\ c.pc = "eval" /\ d.req = c.req
         /\ \/ Ran(c.req) /\ result' = result
            \/ /\ ~ Ran(c.req)
               /\ \E e \in Entries : result' = result \cup {e} /\ e.tag = Tag(c.req) /\ e.res = Result(c.req)
         /\ UNCHANGED <<boot, client, slots, mac, raced>>
  BY EvalEffect
<1>2. Changer' = Changer /\ (Joined' <=> Joined)
  BY <1>1 DEF Changer, Busy, Joined
<1> SUFFICES ASSUME raced = {}, Joined
             PROVE  /\ \A o \in opens' : o.id # mac.lock
                    /\ Changer = {} => Safe(opens', boot, mac.open, mac.access)
                    /\ \A k \in Changer : Live(mac.req[k]) =>
                          /\ ~ (\E e \in result' : e.tag = Tag(mac.req[k])) => Safe(opens', boot, mac.open, mac.access)
                          /\ \A e \in result' : e.tag = Tag(mac.req[k]) =>
                                Fits(mac.req[k].op, mac.req[k].access, e.res, opens', boot, mac.open, mac.access)
  BY <1>1, <1>2 DEF Holding, Live, Ran
<1>3. c.req \in Requests /\ ~ Ran(c.req)
  BY <1>1, SlotFacts DEF Slotted, NotRan
<1>4. PICK n1 \in Entries : result' = result \cup {n1} /\ n1.tag = Tag(c.req) /\ n1.res = Result(c.req)
  BY <1>1, <1>3
<1>5. Live(c.req) => /\ c.req.sess = mac.sess /\ c.req.slot \in Busy /\ Same(c.req, mac.req[c.req.slot])
                     /\ Tag(c.req) = Tag(mac.req[c.req.slot])
  BY RunIsCurrent DEF OurSessions, Ours
<1>6. \A k \in Changer : Live(mac.req[k]) /\ Tag(mac.req[k]) = Tag(c.req) => Live(c.req) /\ k = c.req.slot
  <2>1. \A k \in Changer : mac.req[k] \in Requests /\ mac.req[k].slot = k
    BY ChangerFacts DEF Sequenced
  <2> QED
    BY <1>3, <2>1, ReqFields DEF Live
<1>7. /\ mac.open \in AnyId /\ mac.access \in Access /\ Old(mac.open, next.other, boot) /\ Old(mac.lock, next.other, boot)
      /\ \A e \in result : Old(e.res.id, next.other, boot)
  BY DEF Types, Macs, Numbered, MacNumbers, EntryNumbers
<1>8. \A i : Old(i, next.other, boot) => i # NewOther
  <2>1. NewOther \in Ids /\ NewOther[2] = next.other /\ next.other \in Nat
    BY ClientFacts DEF NewOther, Ids
  <2> QED
    BY <2>1, SessionsAssumption DEF Old
<1>9. CASE Live(c.req) /\ c.req.slot \in Changer
  <2>1. /\ c.req.op = mac.req[c.req.slot].op /\ c.req.id = mac.req[c.req.slot].id /\ c.req.access = mac.req[c.req.slot].access
        /\ mac.req[c.req.slot].sess = c.req.sess
    BY <1>5, <1>9 DEF Same
  <2>2. ~ Ran(mac.req[c.req.slot])
    BY <1>3, <1>5, <1>9 DEF Ran
  <2>3. Safe(opens, boot, mac.open, mac.access) /\ \A o \in opens : o.id # mac.lock
    BY <1>9, <2>1, <2>2 DEF Holding, Live
  <2>4. /\ c.req.op \in {"close", "downgrade"} => c.req.id = mac.open
        /\ c.req.op = "free" => c.req.id = mac.lock
        /\ c.req.op \in Stateful
    BY <1>9, <2>1, ChangerFacts DEF Orderly
  <2>5. Fits(c.req.op, c.req.access, Result(c.req), opens', boot, mac.open, mac.access)
    BY <1>7, <2>3, <2>4, EvalFits
  <2>6. Changer = {c.req.slot}
    BY <1>9 DEF Orderly
  <2>7. \A o \in opens' : o.id # mac.lock
    <3>1. \A o \in opens' : o.id = NewOther \/ \E p \in opens : p.id = o.id
      <4>1. c.req.access \in Access /\ \A o \in opens : o \in Opens
        BY RunFields, ReqFields DEF Types
      <4>2. \A o \in opens : Widen(o, c.req.access).id = o.id /\ Narrow(o, c.req.access).id = o.id
        BY <4>1, OpenFields
      <4> QED
        BY <4>2, OpensEffect
    <3> QED
      BY <1>7, <1>8, <2>3, <3>1
  <2>8. \A e \in result : e.tag # Tag(c.req)
    BY <1>3 DEF Ran
  <2> QED
    BY <1>4, <1>5, <1>9, <2>1, <2>5, <2>6, <2>7, <2>8
<1>10. CASE ~(Live(c.req) /\ c.req.slot \in Changer)
  <2>1. c.req.op \in {"open", "lock", "unlock", "io", "make"} \/ \A o \in opens : o.id # c.req.id
    <3>1. CASE ~ Live(c.req)
      BY <3>1 DEF Dead
    <3>2. CASE Live(c.req)
      <4>1. mac.req[c.req.slot].op \notin Stateful /\ c.req.op = mac.req[c.req.slot].op
        BY <1>5, <1>10, <3>2 DEF Changer, Same
      <4> QED
        BY <1>3, <4>1, ReqFields DEF Stateful
    <3> QED
      BY <3>1, <3>2
  <2>2. /\ \A o \in opens : \E p \in opens' : p.id = o.id /\ o.access \subseteq p.access
        /\ \A p \in opens' : p.id = NewOther \/ \E o \in opens : o.id = p.id
    BY <2>1, Growing
  <2>3. \A o \in opens' : o.id # mac.lock
    BY <1>7, <1>8, <2>2 DEF Holding
  <2>4. Safe(opens, boot, mac.open, mac.access) => Safe(opens', boot, mac.open, mac.access)
    BY <2>2, FitsGrowing
  <2>5. ASSUME NEW k \in Changer, Live(mac.req[k])
        PROVE  /\ ~ (\E e \in result' : e.tag = Tag(mac.req[k])) => Safe(opens', boot, mac.open, mac.access)
               /\ \A e \in result' : e.tag = Tag(mac.req[k]) =>
                     Fits(mac.req[k].op, mac.req[k].access, e.res, opens', boot, mac.open, mac.access)
    <3>1. Tag(mac.req[k]) # Tag(c.req)
      BY <1>6, <1>10, <2>5
    <3>2. ~ (\E e \in result' : e.tag = Tag(mac.req[k])) => Safe(opens', boot, mac.open, mac.access)
      BY <1>4, <2>4, <2>5 DEF Holding, Ran
    <3>3. ASSUME NEW e \in result', e.tag = Tag(mac.req[k])
          PROVE  Fits(mac.req[k].op, mac.req[k].access, e.res, opens', boot, mac.open, mac.access)
      <4>1. e \in result
        BY <1>4, <3>1, <3>3
      <4>2. Fits(mac.req[k].op, mac.req[k].access, e.res, opens, boot, mac.open, mac.access)
        BY <2>5, <3>3, <4>1 DEF Holding
      <4>3. \A p \in opens' : p.id = e.res.id => \E o \in opens : o.id = e.res.id
        BY <1>7, <1>8, <2>2, <4>1
      <4> QED
        BY <2>2, <4>2, <4>3, FitsGrowing
    <3> QED
      BY <3>2, <3>3
  <2> QED
    BY <2>3, <2>4, <2>5 DEF Holding
<1> QED
  BY <1>9, <1>10

\* The client's answer to its stateful request leaves it with an open that is there.
LEMMA AcceptHolding ==
    ASSUME Types, Numbered, Agreed, Incarnation, OurSessions, Dead, Sequenced, Answering, Orderly, Holding, NEW m \in back, Accept(m)
    PROVE  Holding'
<1>1. /\ UNCHANGED <<opens, boot, result, slots, raced, client>> /\ m.req.slot \in Slot /\ m.req \in Requests /\ mac'.verf = mac.verf
      /\ (Joined' <=> Joined)
  BY AcceptIs DEF server, hist, Joined
<1>2. CASE mac'.open = mac.open /\ mac'.access = mac.access /\ mac'.lock = mac.lock /\ mac'.req = mac.req
  <2>1. Changer' = Changer
    BY <1>2 DEF Changer, Busy
  <2> QED
    BY <1>1, <1>2, <2>1, HoldingLeft
<1>3. CASE /\ mac.req[m.req.slot] = m.req /\ m.res.status # "BADSESSION" /\ mac'.req[m.req.slot] = NoReq
           /\ \A j \in Slot \ {m.req.slot} : mac'.req[j] = mac.req[j]
  <2>1. Changer' = Changer \ {m.req.slot} /\ Changer \subseteq Slot
    BY <1>1, <1>3 DEF Changer, Busy
  <2>2. Live(m.req) /\ m.req.sess = mac.sess /\ Joined
    BY <1>3, AnswerIsOurs DEF Dead
  <2>3. m.req.slot \in Busy /\ m.req.seqid = mac.seqid[m.req.slot]
    BY <1>1, <1>3, <2>2, ReqFields DEF Busy, Sequenced
  <2>4. CASE m.req.slot \notin Changer
    <3>1. m.req.op \notin {"open", "close", "downgrade", "lock", "free"}
      BY <1>1, <1>3, <2>3, <2>4, ReqFields DEF Changer, Stateful
    <3>2. mac'.open = mac.open /\ mac'.access = mac.access /\ mac'.lock = mac.lock
      BY <1>3, <3>1, AcceptIs DEF Apart
    <3>3. Changer' = Changer /\ \A k \in Changer : k \in Slot /\ k # m.req.slot
      BY <2>1, <2>4
    <3> QED
      BY <1>1, <1>3, <3>2, <3>3, HoldingLeft
  <2>5. CASE m.req.slot \in Changer
    <3>1. Changer' = {}
      BY <2>1, <2>5 DEF Orderly
    <3> SUFFICES ASSUME raced = {}
                 PROVE  (\A o \in opens : o.id # mac'.lock) /\ Safe(opens, boot, mac'.open, mac'.access)
      BY <1>1, <3>1 DEF Holding
    <3>2. m.res.status \notin OwnErrors
      <4>1. m.res.status # "MISORDERED" /\ (m.res.status = "UNCACHED" => ~ mac.req[m.req.slot].cache)
        BY <2>2, <2>3 DEF Answering
      <4>2. mac.req[m.req.slot].cache
        BY <2>5 DEF Orderly
      <4> QED
        BY <1>3, <4>1, <4>2 DEF OwnErrors
    <3>3. PICK e \in result : e.tag = Tag(m.req) /\ e.res.status = m.res.status /\ e.res.id = m.res.id
      BY <3>2 DEF Agreed, AnswersAgree
    <3>4. Fits(m.req.op, m.req.access, e.res, opens, boot, mac.open, mac.access) /\ \A o \in opens : o.id # mac.lock
      BY <1>3, <2>2, <2>5, <3>3 DEF Holding
    <3>5. m.req.op \in {"open", "close", "downgrade", "lock", "unlock", "free"}
      BY <1>1, <1>3, <2>5, ChangerFacts, OpIs DEF Stateful
    <3>6. \A o \in opens : o.id # NoId
      BY CellFields DEF Types
    <3>7. CASE m.res.status # "ok" \/ m.req.op = "unlock"
      <4>1. mac'.open = mac.open /\ mac'.access = mac.access /\ mac'.lock = mac.lock
        BY <1>3, <3>7, AcceptIs DEF Apart
      <4> QED
        BY <3>3, <3>4, <3>7, <4>1 DEF Fits
    <3>8. CASE m.res.status = "ok" /\ m.req.op = "open"
      <4>1. /\ mac'.open = m.res.id /\ mac'.lock = mac.lock
            /\ mac'.access = IF m.res.id = mac.open THEN mac.access \cup m.req.access ELSE m.req.access
        BY <1>3, <3>8, AcceptIs, ReqFields DEF Apart
      <4>2. Covers(opens, m.res.id, m.req.access) /\ (m.res.id = mac.open => Covers(opens, m.res.id, m.req.access \cup mac.access))
        BY <3>3, <3>4, <3>8 DEF Fits
      <4> QED
        BY <3>4, <4>1, <4>2 DEF Safe, Covers
    <3>9. CASE m.res.status = "ok" /\ m.req.op = "close"
      <4>1. mac'.open = NoId /\ mac'.lock = mac.lock
        BY <1>3, <3>9, AcceptIs, ReqFields DEF Apart
      <4> QED
        BY <3>4, <4>1 DEF Safe
    <3>10. CASE m.res.status = "ok" /\ m.req.op = "downgrade"
      <4>1. mac'.open = mac.open /\ mac'.access = m.req.access /\ mac'.lock = mac.lock
        BY <1>3, <3>10, AcceptIs, ReqFields DEF Apart
      <4> QED
        BY <3>3, <3>4, <3>10, <4>1 DEF Fits
    <3>11. CASE m.res.status = "ok" /\ m.req.op = "lock"
      <4>1. mac'.open = mac.open /\ mac'.access = mac.access /\ mac'.lock = m.res.id
        BY <1>3, <3>11, AcceptIs, ReqFields DEF Apart
      <4> QED
        BY <3>3, <3>4, <3>11, <4>1 DEF Fits
    <3>12. CASE m.res.status = "ok" /\ m.req.op = "free"
      <4>1. mac'.open = mac.open /\ mac'.access = mac.access /\ mac'.lock = NoId
        BY <1>3, <3>12, AcceptIs, ReqFields DEF Apart
      <4> QED
        BY <3>3, <3>4, <3>6, <3>12, <4>1 DEF Fits
    <3> QED
      BY <3>5, <3>7, <3>8, <3>9, <3>10, <3>11, <3>12
  <2> QED
    BY <2>4, <2>5
<1> QED
  BY <1>1, <1>2, <1>3, AcceptIs DEF Apart

\* The open the client holds stays open, with its stateful request in mind.
LEMMA HoldingKept ==
    ASSUME Types, Types', Numbered, Slotted, Agreed, Incarnation, OurSessions, Dead, Sequenced, InStep, Answering, Orderly, Holding,
           [Next]_vars
    PROVE  Holding'
<1>1. CASE ExchangeId
  <2>1. /\ UNCHANGED <<boot, result, raced>> /\ mac'.open = mac.open /\ mac'.access = mac.access /\ mac'.lock = mac.lock
        /\ mac'.req = mac.req /\ mac'.verf = mac.verf
    BY <1>1, ExchangeEffect DEF hist, Apart
  <2>2. Changer' = Changer
    BY <2>1 DEF Changer, Busy
  <2>3. CASE client.verf = mac.verf /\ UNCHANGED <<client, slots, opens>>
    BY <2>1, <2>2, <2>3, HoldingLeft DEF Joined
  <2>4. CASE DOMAIN slots' = {} /\ opens' = {} /\ (mac.open = NoId \/ Stale(mac.open))
    BY <2>1, <2>4 DEF Holding, Live, Safe, Stale
  <2>5. client.id = 0 => DOMAIN slots = {} /\ opens = {} /\ (mac.open = NoId \/ Stale(mac.open))
    BY DEF Incarnation, Orderly, Clear
  <2>6. client.id # 0 /\ client.verf # mac.verf => mac.open = NoId
    BY DEF Incarnation, Fresh
  <2> QED
    BY <1>1, <2>3, <2>4, <2>5, <2>6, ExchangeEffect
<1>2. CASE CreateSession
  <2>1. /\ UNCHANGED <<boot, client, opens, result, raced>> /\ mac'.open = mac.open /\ mac'.access = mac.access /\ mac'.lock = mac.lock
        /\ mac'.req = mac.req /\ mac'.verf = mac.verf /\ DOMAIN slots' \in {DOMAIN slots, DOMAIN slots \cup {next.sess}}
    BY <1>2, CreateEffect DEF hist, Apart
  <2>2. Changer' = Changer /\ Changer \subseteq Busy
    BY <2>1 DEF Changer, Busy
  <2>3. \A k \in Changer : mac.req[k].sess # next.sess
    BY <2>2, ClientFacts
  <2> QED
    BY <2>1, <2>2, <2>3, HoldingLeft DEF Joined
<1>3. CASE LoseConn
  <2>1. /\ mac'.open = mac.open /\ mac'.access = mac.access /\ mac'.lock = mac.lock /\ mac'.verf = mac.verf /\ Busy' = Busy
        /\ UNCHANGED <<client, opens, slots, boot, result, raced>> /\ \A k \in Busy : Alike(mac'.req[k], mac.req[k])
    BY <1>3, LoseEffect, AgainEffect DEF server, hist
  <2>2. Changer' = Changer /\ \A k \in Changer : k \in Busy /\ Tag(mac'.req[k]) = Tag(mac.req[k])
    BY <2>1 DEF Changer, Alike, Tag
  <2> QED
    BY <2>1, <2>2, HoldingLeft DEF Joined, Alike
<1>4. CASE ClientRestart
  <2>1. client.verf # mac'.verf /\ client' = client
    BY <1>4, ClientEffect, ClientFacts DEF Incarnation, server
  <2> QED
    BY <2>1 DEF Holding, Joined
<1>5. CASE ServerRestart
  BY <1>5, RestartEffect DEF Holding, Joined
<1>6. ASSUME NEW k \in Slot, Call(k) PROVE Holding'
  <2>1. PICK r \in Requests :
             /\ mac'.open = mac.open /\ mac'.access = mac.access /\ mac'.lock = mac.lock /\ mac'.verf = mac.verf
             /\ UNCHANGED <<client, opens, slots, boot, result, raced>>
             /\ mac'.req[k] = r /\ (\A j \in Slot \ {k} : mac'.req[j] = mac.req[j]) /\ mac.req[k] = NoReq
             /\ r.sess = mac.sess /\ r.slot = k /\ r.seqid = mac.seqid[k]
             /\ (r.op \in Stateful => \A j \in Busy : mac.req[j].op \notin Stateful)
    BY <1>6, CallEffect DEF server, hist, Apart
  <2>2. CASE r.op \notin Stateful
    <3>1. Changer' = Changer /\ \A j \in Changer : j # k /\ j \in Slot
      BY <2>1, <2>2 DEF Changer, Busy
    <3> QED
      BY <2>1, <3>1, HoldingLeft DEF Joined
  <2>3. CASE r.op \in Stateful
    <3>1. Changer' = {k} /\ Changer = {}
      BY <2>1, <2>3, ReqFields DEF Changer, Busy
    <3>2. \A e \in result : e.tag # Tag(r)
      <4>1. Tag(r).sess = mac.sess /\ Tag(r).slot = k /\ Tag(r).seqid = mac.seqid[k]
        BY <2>1, ReqFields
      <4> QED
        BY <2>1, <4>1, Unused, UnderFacts
    <3> QED
      BY <2>1, <3>1, <3>2 DEF Holding, Joined
  <2> QED
    BY <2>2, <2>3
<1>7. ASSUME NEW k \in Slot, Resend(k) PROVE Holding'
  <2>1. PICK r \in Requests :
             /\ mac'.open = mac.open /\ mac'.access = mac.access /\ mac'.lock = mac.lock /\ mac'.verf = mac.verf
             /\ UNCHANGED <<client, opens, slots, boot, result, raced>>
             /\ mac'.req[k] = r /\ (\A j \in Slot \ {k} : mac'.req[j] = mac.req[j]) /\ mac.req[k] # NoReq /\ mac.req[k].sess # mac.sess
             /\ r.sess = mac.sess /\ r.slot = mac.req[k].slot /\ r.seqid = mac.seqid[k] /\ r.op = mac.req[k].op
    BY <1>7, ResendEffect DEF server, hist, Apart
  <2>2. Changer' = Changer /\ Changer \subseteq Slot
    BY <2>1, ReqFields DEF Changer, Busy
  <2>3. CASE k \notin Changer
    <3>1. \A j \in Changer : j # k /\ j \in Slot
      BY <2>2, <2>3
    <3> QED
      BY <2>1, <2>2, <3>1, HoldingLeft DEF Joined
  <2>4. CASE k \in Changer
    <3>1. Changer = {k}
      BY <2>4 DEF Orderly
    <3>2. Joined => Safe(opens, boot, mac.open, mac.access)
      <4>1. Joined => ~ Live(mac.req[k])
        BY <2>1, <2>4, ChangerFacts DEF OurSessions, Ours
      <4> QED
        BY <2>4, <4>1 DEF Orderly, Clear, Stale, Safe
    <3>3. \A e \in result : e.tag # Tag(r)
      <4>1. Tag(r).sess = mac.sess /\ Tag(r).slot = k /\ Tag(r).seqid = mac.seqid[k]
        BY <2>1, <2>4, ReqFields, ChangerFacts DEF Sequenced
      <4> QED
        BY <2>1, <4>1, Unused, UnderFacts
    <3> QED
      BY <2>1, <2>2, <3>1, <3>2, <3>3 DEF Holding, Joined
  <2> QED
    BY <2>3, <2>4
<1>8. ASSUME NEW r \in wire, Receive(r) PROVE Holding'
  <2>1. UNCHANGED <<boot, client, slots, opens, mac, result>> /\ raced \subseteq raced'
    BY <1>8, ReceiveEffect
  <2>2. Changer' = Changer
    BY <2>1 DEF Changer, Busy
  <2> QED
    BY <2>1, <2>2, HoldingLeft DEF Joined
<1>10. ASSUME NEW c \in runs, Finish(c) PROVE Holding'
  <2>1. UNCHANGED <<boot, client, opens, mac, result, raced>> /\ DOMAIN slots' = DOMAIN slots
    BY <1>10, FinishEffect DEF hist
  <2>2. Changer' = Changer
    BY <2>1 DEF Changer, Busy
  <2> QED
    BY <2>1, <2>2, HoldingLeft DEF Joined
<1>12. CASE UNCHANGED vars
  <2>1. UNCHANGED <<boot, client, opens, mac, result, raced, slots>>
    BY <1>12 DEF vars, server, hist
  <2>2. Changer' = Changer
    BY <2>1 DEF Changer, Busy
  <2> QED
    BY <2>1, <2>2, HoldingLeft DEF Joined
<1> QED
  BY <1>1, <1>2, <1>3, <1>4, <1>5, <1>6, <1>7, <1>8, <1>10, <1>12, EvalHolding, AcceptHolding, Kinds

-----------------------------------------------------------------------------
(***************************************************************************)
(* The invariant and the theorems.                                         *)
(***************************************************************************)
\* A server and a client that have just begun.
LEMMA Starting ==
    ASSUME Init
    PROVE  IInv
<1>1. /\ mac = Startup(1, 1) /\ boot = 1 /\ client = NoClient /\ slots = <<>> /\ opens = {} /\ locks = {}
      /\ next = [other |-> 1, client |-> 1, sess |-> 1] /\ made = {} /\ runs = {} /\ wire = {} /\ back = {}
      /\ n = [req |-> 0, fault |-> 0] /\ twice = {} /\ raced = {} /\ result = {}
  BY DEF Init
<1>2. /\ mac \in Macs /\ mac.id = 0 /\ mac.verf = 1 /\ mac.conn = 1 /\ mac.sess = 0 /\ mac.open = NoId /\ mac.lock = NoId
      /\ \A k \in Slot : mac.req[k] = NoReq /\ mac.seqid[k] = 1
  BY <1>1, MacStarts
<1>3. client \in [id : Nat, verf : Nat] /\ client.id = 0 /\ client.verf = 0 /\ DOMAIN slots = {}
  BY <1>1 DEF NoClient
<1>4. next \in [other : Nat, client : Nat, sess : Nat] /\ next.other = 1 /\ next.client = 1 /\ next.sess = 1
  BY <1>1
<1>5. Busy = {} /\ Changer = {}
  BY <1>2 DEF Busy, Changer
<1>6. Types
  BY <1>1, <1>2, <1>3, <1>4 DEF Types
<1>7. Numbered
  BY <1>1, <1>2, <1>3, <1>4
     DEF Numbered, MacNumbers, SlotNumbers, WireNumbers, CallNumbers, RunNumbers, ReplyNumbers, EntryNumbers, OpenNumbers, Old
<1>8. Slotted /\ Agreed
  BY <1>1, <1>3 DEF Slotted, Agreed, OneRun, NextUp, NotRan, Recorded, AtMostOnce, Kept, AnswersAgree
<1>9. Incarnation /\ OurSessions /\ Dead
  BY <1>1, <1>2, <1>3, <1>4 DEF Incarnation, OurSessions, Joined, Dead
<1>10. Sequenced /\ Filled /\ InStep /\ Answering
  BY <1>1, <1>2, <1>3, <1>5 DEF Sequenced, Filled, InStep, Answering
<1>11. Orderly /\ Holding
  BY <1>2, <1>3, <1>5 DEF Orderly, Clear, Holding, Joined
<1> QED
  BY <1>6, <1>7, <1>8, <1>9, <1>10, <1>11 DEF IInv

\* Every step keeps the invariant.
LEMMA Stepping ==
    ASSUME IInv, [Next]_vars
    PROVE  IInv'
<1>1. /\ Types /\ Numbered /\ Slotted /\ Agreed
      /\ Incarnation /\ OurSessions /\ Dead /\ Sequenced /\ Filled /\ InStep /\ Answering /\ Orderly /\ Holding
  BY DEF IInv
<1>2. Types'
  BY <1>1, TypesKept
<1>3. Numbered' /\ Slotted' /\ Agreed' /\ Incarnation'
  BY <1>1, <1>2, NumberedKept, SlottedKept, IncarnationKept
<1>4. OurSessions' /\ Dead' /\ Sequenced' /\ Filled'
  BY <1>1, <1>2, OurSessionsKept, DeadKept, SequencedKept, FilledKept
<1>5. InStep' /\ Answering' /\ Orderly' /\ Holding'
  BY <1>1, <1>2, InStepKept, AnsweringKept, OrderlyKept, HoldingKept
<1> QED
  BY <1>2, <1>3, <1>4, <1>5 DEF IInv

\* The invariant holds at all times.
LEMMA Invariance == Spec => []IInv
BY Starting, Stepping, PTL DEF Spec

\* A set whose elements are all the same is finite and has at most one.
LEMMA AtMostOne ==
    ASSUME NEW S, \A x, y \in S : x = y
    PROVE  Cardinality(S) <= 1
<1>1. CASE S = {}
  BY <1>1, FS_EmptySet
<1>2. CASE S # {}
  <2>1. PICK x : S = {x}
    BY <1>2
  <2> QED
    BY <2>1, FS_Singleton
<1> QED
  BY <1>1, <1>2

\* The state is well formed: an owner has one open of a file (op_open finds the one there
\* is), stateids are of this instance, and compounds are of sessions there have been.
THEOREM TypeCorrect == Spec => []TypeOK
<1>1. ASSUME IInv PROVE TypeOK
  <2>1. Types /\ Numbered /\ Sequenced
    BY <1>1 DEF IInv
  <2>2. client.id \in 0 .. next.client - 1 /\ DOMAIN slots \subseteq 1 .. next.sess - 1
    BY <2>1, ClientFacts
  <2>3. \A s \in DOMAIN slots : \A k \in Slot : slots[s][k].seqid \in Nat
    BY <2>1, SlotFacts
  <2>4. Cardinality(opens) <= 1
    BY <2>1, AtMostOne DEF Numbered, OpenNumbers
  <2>5. (\A o \in opens : o.access \in Access /\ ~ Stale(o.id)) /\ \A i \in locks : ~ Stale(i)
    BY <2>1, CellFields DEF Types, Numbered, OpenNumbers, Stale
  <2>6. \A c \in runs : c.pc \in {"eval", "end"} /\ c.req.sess \in 1 .. next.sess - 1
    BY <2>1, ClientFacts, SlotFacts
  <2>7. \A r \in wire \cup {m.req : m \in back} : r.slot \in Slot /\ r.op \in Ops
    BY <2>1, ClientFacts, ReqFields
  <2>8. \A k \in Slot : mac.req[k] # NoReq => mac.req[k].slot = k
    BY <2>1 DEF Sequenced, Busy
  <2> QED
    BY <2>2, <2>3, <2>4, <2>5, <2>6, <2>7, <2>8 DEF TypeOK
<1> QED
  BY <1>1, Invariance, PTL

\* A request is run once however often it is repeated, unless it arrived again while it was
\* running: op_sequence against the slots of the session.
THEOREM RunsOnce == Spec => []AtMostOnce
<1>1. IInv => AtMostOnce
  BY DEF IInv, Slotted
<1> QED
  BY <1>1, Invariance, PTL

\* Every answer on its way is what its request came to when it was run first: the reply
\* cache of a slot never answers with another request's reply.
THEOREM AnswersStayTrue == Spec => []AnswersAgree
<1>1. IInv => AnswersAgree
  BY DEF IInv, Agreed
<1> QED
  BY <1>1, Invariance, PTL

\* The open the client holds is open at the server, with at least the access it has,
\* whatever was repeated, lost or answered late: the slots, op_open, op_close and
\* op_open_downgrade together.
THEOREM OpenIsHeld == Spec => []HeldIsOpen
<1>1. ASSUME IInv PROVE HeldIsOpen
  <2>1. Incarnation /\ Orderly /\ Holding
    BY <1>1 DEF IInv
  <2>2. CASE raced # {} \/ client.verf # mac.verf \/ Changer # {} \/ mac.open = NoId \/ Stale(mac.open)
    BY <2>2 DEF HeldIsOpen, Changer
  <2>3. CASE raced = {} /\ client.verf = mac.verf /\ Changer = {} /\ mac.open # NoId /\ ~ Stale(mac.open)
    <3>1. Joined
      <4>1. client.id # 0
        BY <1>1, <2>1, <2>3 DEF Incarnation
      <4> QED
        BY <2>3, <4>1 DEF Joined
    <3>2. Safe(opens, boot, mac.open, mac.access)
      BY <2>1, <2>3, <3>1 DEF Holding
    <3> QED
      BY <2>3, <3>2 DEF Safe, Stale, Covers, HeldIsOpen
  <2> QED
    BY <2>2, <2>3
<1> QED
  BY <1>1, Invariance, PTL

=============================================================================
