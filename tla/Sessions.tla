------------------------------ MODULE Sessions ------------------------------
(***************************************************************************)
(* The NFSv4.1 server's sessions: EXCHANGE_ID and CREATE_SESSION, the      *)
(* slots of a session with their reply cache, the compounds that run       *)
(* concurrently, and the opens and locks they leave behind; with its one   *)
(* client, the Mac, that repeats a call when a connection is lost, finds   *)
(* its session gone when the server has restarted, and may restart itself. *)
(*                                                                         *)
(* A compound is SEQUENCE and one operation.  There is one file and one    *)
(* open-owner: of the calls that change their state (open, close,          *)
(* downgrade, lock, unlock, free) the client has one in progress at a      *)
(* time, as an open-owner's calls are ordered.  "make" stands for the      *)
(* calls that act once: a second MKDIR of a name fails.  Delegations are   *)
(* in Delegations, encoding and file handles are left out.                 *)
(***************************************************************************)
EXTENDS Integers, FiniteSets

CONSTANTS
    Slot,           \* slots of a session the client uses (FORE_SLOTS)
    NoId, NoReq,    \* no stateid, no request
    Ops,            \* operations the client uses
    MaxReq,         \* bound: requests of the client
    MaxFault        \* bound: connections lost, restarts of the server and of the client

\* Stateids, the requests of the client, and what an operation comes to.
Ids      == Nat \X Nat
Access   == SUBSET {"read", "write"}
Requests == [sess : Nat, slot : Slot, seqid : Nat, op : Ops, id : Ids \cup {NoId}, access : Access,
             cache : BOOLEAN, num : Nat, conn : Nat]
Status   == {"none", "ok", "BAD_STATEID", "STALE_STATEID", "EXIST"}
Results  == [top : Status, status : Status, id : Ids \cup {NoId}, access : Access]

ASSUME SessionsAssumption ==
    /\ IsFiniteSet(Slot) /\ {MaxReq, MaxFault} \subseteq Nat
    /\ Ops \subseteq {"open", "close", "downgrade", "lock", "unlock", "free", "io", "make"}
    /\ NoId \notin Ids /\ NoReq \notin Requests /\ NoReq \notin Results

VARIABLES
    boot,       \* boot_verifier: the instance of the server
    client,     \* State.clients: the record of the Mac, [id, verf]; id 0 when there is none
    slots,      \* State.sessions, fore_slots: [seqid, reply, uncached] by session and slot
    opens,      \* State.opens: [id, seqid, access]
    locks,      \* State.locks
    next,       \* next_other, next_clientid and the numbers of sessions
    made,       \* requests whose effect is there
    runs,       \* compounds being evaluated: [req, pc, res]
    wire,       \* requests on their way
    back,       \* replies on their way
    mac,        \* the client
    n,          \* inputs so far
    twice,      \* history: those that were run more than once
    raced,      \* history: slots in which a request arrived again while it was running
    result      \* history: what each request came to, the first time

server == <<boot, client, slots, opens, locks, next, made, runs>>
hist   == <<twice, raced, result>>
vars   == <<server, wire, back, mac, n, hist>>

Stateful   == Ops \ {"io", "make"}
FreshSlot  == [seqid |-> 0, reply |-> NoReq, uncached |-> FALSE]
FreshTable == [k \in Slot |-> FreshSlot]
NoClient   == [id |-> 0, verf |-> 0]
\* A reply: the status of the compound, that of its operation, and what it returns.
Res(st, id, acc) == [top |-> st, status |-> st, id |-> id, access |-> acc]
Fail(st)   == Res(st, NoId, {})

\* What names a request for good: its session, slot and sequence id.
Tag(r) == [sess |-> r.sess, slot |-> r.slot, seqid |-> r.seqid]
Place(r) == <<r.sess, r.slot>>

\* The client before it has a session, with an incarnation of its own.
Startup(v, c) ==
    [verf |-> v, conn |-> c, id |-> 0, sess |-> 0, seqid |-> [k \in Slot |-> 1],
     req |-> [k \in Slot |-> NoReq], open |-> NoId, access |-> {}, lock |-> NoId]

Init ==
    /\ boot = 1 /\ client = NoClient /\ slots = <<>>
    /\ opens = {} /\ locks = {} /\ next = [other |-> 1, client |-> 1, sess |-> 1]
    /\ made = {} /\ runs = {} /\ wire = {} /\ back = {}
    /\ mac = Startup(1, 1)
    /\ n = [req |-> 0, fault |-> 0]
    /\ twice = {} /\ raced = {} /\ result = {}

-----------------------------------------------------------------------------
(***************************************************************************)
(* The client's calls (external: how a client of NFSv4.1 uses the server). *)
(***************************************************************************)
Fault == n.fault < MaxFault /\ n' = [n EXCEPT !.fault = @ + 1]

Busy == {k \in Slot : mac.req[k] # NoReq}

\* EXCHANGE_ID: the answer may be lost with its connection, and the call repeated.
\* The record of a former incarnation goes, with its sessions and opens.
ExchangeId ==
    /\ mac.id = 0
    /\ IF client.verf = mac.verf
       THEN UNCHANGED <<client, next, slots, opens>>
       ELSE /\ client' = [id |-> next.client, verf |-> mac.verf]
            /\ next' = [next EXCEPT !.client = @ + 1]
            /\ IF client.id = 0 THEN UNCHANGED <<slots, opens>> ELSE slots' = <<>> /\ opens' = {}
    /\ mac' = [mac EXCEPT !.id = client'.id]
    /\ UNCHANGED <<boot, locks, made, runs, wire, back, n, hist>>

\* CREATE_SESSION: a new session at every call, whatever its sequence number.
CreateSession ==
    /\ mac.id # 0 /\ mac.sess = 0
    /\ IF client.id = mac.id
       THEN /\ \/ mac' = [mac EXCEPT !.sess = next.sess, !.seqid = [k \in Slot |-> 1]] /\ UNCHANGED n
               \/ Fault /\ UNCHANGED mac    \* no answer
            /\ slots' = [s \in DOMAIN slots \cup {next.sess} |-> IF s = next.sess THEN FreshTable ELSE slots[s]]
            /\ next' = [next EXCEPT !.sess = @ + 1]
       ELSE mac' = [mac EXCEPT !.id = 0] /\ UNCHANGED <<slots, next, n>>   \* STALE_CLIENTID
    /\ UNCHANGED <<boot, client, opens, locks, made, runs, wire, back, hist>>

\* A request on a free slot.  Those that need a stateid name the one the client
\* has; a reply is to be cached unless the request may as well be run again.
Call(k) ==
    /\ mac.sess # 0 /\ k \notin Busy /\ n.req < MaxReq /\ n' = [n EXCEPT !.req = @ + 1]
    /\ \E op \in Ops, acc \in {{"read"}, {"read", "write"}} :
         LET id == IF op \in {"unlock", "free"} THEN mac.lock ELSE mac.open
             r  == [sess |-> mac.sess, slot |-> k, seqid |-> mac.seqid[k], op |-> op,
                    id |-> IF op \in {"open", "make"} THEN NoId ELSE id,
                    access |-> IF op \in {"open", "downgrade"} THEN acc ELSE {},
                    cache |-> op # "io", num |-> n.req, conn |-> mac.conn]
         IN  /\ op \in Stateful => \A j \in Busy : mac.req[j].op \notin Stateful
             /\ op \in {"close", "downgrade", "lock", "unlock", "free", "io"} => id # NoId
             /\ op = "downgrade" => acc \subseteq mac.access
             /\ op \in {"open", "downgrade"} \/ acc = {"read"}
             /\ mac' = [mac EXCEPT !.req[k] = r] /\ wire' = wire \cup {r}
    /\ UNCHANGED <<server, back, hist>>

\* A lost connection: what is on it may be lost, or still be read by the server;
\* replies to it are lost.  The client connects again and repeats what is not answered.
LoseConn ==
    /\ Fault
    /\ \E kept \in SUBSET wire :
         LET again == {[mac.req[k] EXCEPT !.conn = mac.conn + 1] : k \in Busy}
         IN  wire' = kept \cup again
    /\ mac' = [mac EXCEPT !.conn = @ + 1,
                          !.req = [k \in Slot |-> IF k \in Busy THEN [mac.req[k] EXCEPT !.conn = mac.conn + 1] ELSE NoReq]]
    /\ back' = {}
    /\ UNCHANGED <<server, hist>>

ClientRestart ==
    /\ Fault
    /\ mac' = Startup(mac.verf + 1, mac.conn + 1)
    /\ wire' = {} /\ back' = {}
    /\ UNCHANGED <<server, hist>>

\* The server restarts: nothing of its state is kept, and every connection ends.
ServerRestart ==
    /\ Fault
    /\ boot' = boot + 1 /\ client' = NoClient /\ slots' = <<>>
    /\ opens' = {} /\ locks' = {} /\ runs' = {}
    /\ mac' = [mac EXCEPT !.conn = @ + 1,
                          !.req = [k \in Slot |-> IF k \in Busy THEN [mac.req[k] EXCEPT !.conn = mac.conn + 1] ELSE NoReq]]
    /\ wire' = {mac'.req[k] : k \in Busy} /\ back' = {}
    /\ UNCHANGED <<next, made, hist>>

-----------------------------------------------------------------------------
(***************************************************************************)
(* Compounds.                                                              *)
(***************************************************************************)
\* A reply goes to the connection the request came on; to another one it is lost.
Send(r, res) == back' = IF r.conn = mac.conn THEN back \cup {[req |-> r, res |-> res]} ELSE back

\* op_sequence: what the slot says of a request.
SeenRetried(r) ==
    IF r.sess \notin DOMAIN slots THEN "BADSESSION"
    ELSE IF r.seqid \in {slots[r.sess][r.slot].seqid, slots[r.sess][r.slot].seqid + 1} THEN "new"
    ELSE "MISORDERED"
Seen(r) ==
    IF r.sess \notin DOMAIN slots THEN "BADSESSION"
    ELSE LET s == slots[r.sess][r.slot]
         IN  CASE r.seqid = s.seqid -> IF s.reply # NoReq THEN "replay"
                                       ELSE IF s.uncached THEN "UNCACHED" ELSE "MISORDERED"
               [] r.seqid = s.seqid + 1 -> "new"
               [] OTHER -> "MISORDERED"

\* The top-level status of a replayed reply is always NFS4_OK.
Replayed(res) == [res EXCEPT !.top = "ok"]

ReceiveSilent(r) ==
    /\ r \in wire /\ wire' = wire \ {r} /\ Seen(r) \in {"new", "replay"}
    /\ runs' = IF Seen(r) = "new" THEN runs \cup {[req |-> r, pc |-> "eval", res |-> Fail("none")]} ELSE runs
    /\ UNCHANGED <<boot, client, slots, opens, locks, next, made, mac, n, hist, back>>

\* The request is answered from the slot, or its evaluation begins.  Nothing is
\* noted in the slot yet.
Receive(r) ==
    /\ r \in wire /\ wire' = wire \ {r}
    /\ CASE Seen(r) = "new" ->
              /\ runs' = runs \cup {[req |-> r, pc |-> "eval", res |-> Fail("none")]}
              /\ raced' = IF \E c \in runs : Tag(c.req) = Tag(r) THEN raced \cup {Place(r)} ELSE raced
              /\ UNCHANGED back
         [] Seen(r) = "replay" ->
              Send(r, Replayed(slots[r.sess][r.slot].reply)) /\ UNCHANGED <<runs, raced>>
         [] OTHER -> Send(r, Fail(Seen(r))) /\ UNCHANGED <<runs, raced>>
    /\ UNCHANGED <<boot, client, slots, opens, locks, next, made, mac, n, twice, result>>

\* A stateid of the server's own making; one of an earlier instance is stale.
NewOther == <<boot, next.other>>
Stale(id) == id[1] # boot
Known(id) == id \in locks \/ \E o \in opens : o.id = id

\* What the operation does to the opens and locks, and its result.
EvalOpenReplaces(r) ==
    /\ opens' = {[id |-> IF opens = {} THEN NewOther ELSE (CHOOSE o \in opens : TRUE).id,
                  seqid |-> 1, access |-> r.access]}
    /\ next' = [next EXCEPT !.other = @ + 1]
    /\ UNCHANGED <<locks, made>>

\* A second OPEN of the owner finds the open it has, and adds to its access.
EvalOpen(r) ==
    /\ IF opens = {}
       THEN /\ opens' = {[id |-> NewOther, seqid |-> 1, access |-> r.access]}
            /\ next' = [next EXCEPT !.other = @ + 1]
       ELSE /\ opens' = {[o EXCEPT !.seqid = @ + 1, !.access = @ \cup r.access] : o \in opens}
            /\ UNCHANGED next
    /\ UNCHANGED <<locks, made>>

EvalClose(r)     == opens' = {o \in opens : o.id # r.id} /\ UNCHANGED <<locks, next, made>>
EvalDowngrade(r) ==
    /\ opens' = {IF o.id = r.id THEN [o EXCEPT !.seqid = @ + 1, !.access = r.access] ELSE o : o \in opens}
    /\ UNCHANGED <<locks, next, made>>
EvalLock(r) ==
    /\ IF \E o \in opens : o.id = r.id THEN locks' = locks \cup {NewOther} /\ next' = [next EXCEPT !.other = @ + 1]
       ELSE UNCHANGED <<locks, next>>
    /\ UNCHANGED <<opens, made>>
EvalFree(r) ==
    /\ opens' = {o \in opens : o.id # r.id} /\ locks' = locks \ {r.id} /\ UNCHANGED <<next, made>>
EvalMake(r) == made' = made \cup {r.num} /\ UNCHANGED <<opens, locks, next>>

Result(r) ==
    LET open == \E o \in opens : o.id = r.id
        bad  == Fail("BAD_STATEID")
    IN  CASE r.op = "open"      -> LET o == CHOOSE o \in opens' : TRUE IN Res("ok", o.id, o.access)
          [] r.op = "close"     -> IF open THEN Res("ok", r.id, {}) ELSE bad
          [] r.op = "downgrade" -> IF open THEN Res("ok", r.id, r.access) ELSE bad
          [] r.op = "lock"      -> IF open THEN Res("ok", NewOther, {}) ELSE bad
          [] r.op = "unlock"    -> IF r.id \in locks THEN Res("ok", r.id, {}) ELSE bad
          [] r.op = "free"      -> Res("ok", r.id, {})
          [] r.op = "io"        -> IF Known(r.id) THEN Res("ok", r.id, {})
                                   ELSE IF Stale(r.id) THEN Fail("STALE_STATEID") ELSE bad
          [] r.op = "make"      -> IF r.num \in made THEN Fail("EXIST") ELSE Res("ok", NoId, {})

Ran(r) == \E e \in result : e.tag = Tag(r)

\* eval_op.
Eval(c) ==
    LET r == c.req
    IN  /\ c \in runs /\ c.pc = "eval"
        /\ CASE r.op = "open"      -> EvalOpen(r)
             [] r.op = "close"     -> EvalClose(r)
             [] r.op = "downgrade" -> EvalDowngrade(r)
             [] r.op = "lock"      -> EvalLock(r)
             [] r.op = "free"      -> EvalFree(r)
             [] r.op = "make"      -> EvalMake(r)
             [] OTHER              -> UNCHANGED <<opens, locks, next, made>>
        /\ runs' = (runs \ {c}) \cup {[c EXCEPT !.pc = "end", !.res = Result(r)]}
        /\ twice' = IF Ran(r) THEN twice \cup {Tag(r)} ELSE twice
        /\ result' = IF Ran(r) THEN result ELSE result \cup {[tag |-> Tag(r), res |-> Result(r)]}
        /\ UNCHANGED <<boot, client, slots, wire, back, mac, n, raced>>

\* The end of the compound: the slot takes its sequence id and, when the client
\* asked for it, the reply.
RecordOverOld(r, res) ==
    [seqid |-> r.seqid, reply |-> IF r.cache THEN res ELSE slots[r.sess][r.slot].reply, uncached |-> ~r.cache]
Record(r, res) ==
    [seqid |-> r.seqid, reply |-> IF r.cache THEN res ELSE NoReq, uncached |-> ~r.cache]

Finish(c) ==
    LET r == c.req
    IN  /\ c \in runs /\ c.pc = "end" /\ runs' = runs \ {c}
        /\ slots' = [s \in DOMAIN slots |-> IF s = r.sess THEN [slots[s] EXCEPT ![r.slot] = Record(r, c.res)] ELSE slots[s]]
        /\ Send(r, c.res)
        /\ UNCHANGED <<boot, client, opens, locks, next, made, wire, mac, n, hist>>

-----------------------------------------------------------------------------
(***************************************************************************)
(* Replies at the client (external).                                       *)
(***************************************************************************)
\* What the client keeps of a successful answer.
After(r, res) ==
    IF res.status # "ok" THEN mac
    ELSE CASE r.op = "open"      -> [mac EXCEPT !.open = res.id,
                                                 !.access = IF res.id = mac.open THEN @ \cup r.access ELSE r.access]
           [] r.op = "close"     -> [mac EXCEPT !.open = NoId, !.access = {}]
           [] r.op = "downgrade" -> [mac EXCEPT !.access = r.access]
           [] r.op = "lock"      -> [mac EXCEPT !.lock = res.id]
           [] r.op = "free"      -> [mac EXCEPT !.lock = NoId]
           [] OTHER              -> mac

\* A session that has gone is made anew, and the request sent again on it; any
\* other answer ends the request.
Accept(m) ==
    LET r == m.req
    IN  /\ m \in back /\ back' = back \ {m}
        /\ IF mac.req[r.slot] # r THEN UNCHANGED mac
           ELSE IF m.res.status = "BADSESSION" THEN mac' = [mac EXCEPT !.sess = IF @ = r.sess THEN 0 ELSE @]
           ELSE mac' = [After(r, m.res) EXCEPT !.req[r.slot] = NoReq, !.seqid[r.slot] = @ + 1]
        /\ UNCHANGED <<server, wire, n, hist>>

Resend(k) ==
    LET r == [mac.req[k] EXCEPT !.sess = mac.sess, !.seqid = mac.seqid[k]]
    IN  /\ mac.sess # 0 /\ k \in Busy /\ mac.req[k].sess # mac.sess
        /\ mac' = [mac EXCEPT !.req[k] = r] /\ wire' = wire \cup {r}
        /\ UNCHANGED <<server, back, n, hist>>

Next ==
    \/ ExchangeId \/ CreateSession \/ LoseConn \/ ClientRestart \/ ServerRestart
    \/ \E k \in Slot : Call(k) \/ Resend(k)
    \/ \E r \in wire : Receive(r)
    \/ \E c \in runs : Eval(c) \/ Finish(c)
    \/ \E m \in back : Accept(m)

Spec == Init /\ [][Next]_vars

\* A client that waits goes on with its recovery; requests that have arrived are
\* read, compounds evaluated and replies delivered.
FairSpec ==
    /\ Spec
    /\ WF_vars(ExchangeId) /\ WF_vars(CreateSession) /\ WF_vars(\E k \in Slot : Resend(k))
    /\ WF_vars(\E r \in wire : Receive(r)) /\ WF_vars(\E c \in runs : Eval(c) \/ Finish(c))
    /\ WF_vars(\E m \in back : Accept(m))

-----------------------------------------------------------------------------
(***************************************************************************)
(* Properties.                                                             *)
(***************************************************************************)
\* The state is well formed: an owner has one open of a file, and a request being
\* evaluated belongs to a session there has been.
TypeOK ==
    /\ client.id \in 0 .. next.client - 1 /\ DOMAIN slots \subseteq 1 .. next.sess - 1
    /\ \A s \in DOMAIN slots : \A k \in Slot : slots[s][k].seqid \in Nat
    /\ Cardinality(opens) <= 1 /\ \A o \in opens : o.access \in Access /\ ~Stale(o.id)
    /\ \A i \in locks : ~Stale(i)
    /\ \A c \in runs : c.pc \in {"eval", "end"} /\ c.req.sess \in 1 .. next.sess - 1
    /\ \A r \in wire \cup {m.req : m \in back} : r.slot \in Slot /\ r.op \in Ops
    /\ \A k \in Slot : mac.req[k] # NoReq => mac.req[k].slot = k

\* A request is run once however often the client repeats it, over however many
\* connections: unless a repetition arrived while the first one was running, for then
\* both run, and the later end of the two may take the slot back.
AtMostOnce == \A t \in twice : Place(t) \in raced

\* What the server says of itself rather than of the operation.
OwnErrors == {"BADSESSION", "MISORDERED", "UNCACHED"}

\* Every answer on its way is what the request came to when it was run first, not
\* that of another request of the slot; unless one was running twice there.
AnswersAgree ==
    \A m \in back : \/ m.res.status \in OwnErrors \/ Place(m.req) \in raced
                    \/ \E e \in result : /\ e.tag = Tag(m.req)
                                         /\ <<e.res.status, e.res.id, e.res.access>>
                                                = <<m.res.status, m.res.id, m.res.access>>

\* A replayed reply is the reply.
\* The code does not keep it: README, Known exceptions.
ReplayIsReply ==
    \A m \in back : \A e \in result : e.tag = Tag(m.req) /\ m.res.status = e.res.status => m.res.top = e.res.top

\* A stateid of an earlier instance of the server is answered STALE_STATEID, not BAD_STATEID.
\* The code does not keep it: README, Known exceptions.
StaleIsSaid == \A m \in back : m.res.status = "BAD_STATEID" => m.req.id[1] = boot

\* The open the client holds is open at the server, with at least the access the
\* client has, whatever was repeated, lost or answered late; unless the server has
\* restarted since, or a request was running twice.
HeldIsOpen ==
    \/ mac.open = NoId \/ Stale(mac.open) \/ raced # {} \/ client.verf # mac.verf
    \/ \E k \in Busy : mac.req[k].op \in Stateful
    \/ \E o \in opens : o.id = mac.open /\ mac.access \subseteq o.access

\* Every request is answered in the end, also when connections are lost and client
\* and server restart.
Answered == \A k \in Slot : (k \in Busy) ~> (k \notin Busy)
=============================================================================
