-------------------------------- MODULE Rpc --------------------------------
(***************************************************************************)
(* Calls and reads of the host over an rpc lane and the bulk lanes: the    *)
(* RpcClient with its writer and reader tasks, its table of waiters and of *)
(* sinks for the bytes of reads; at the guest rpc_loop, which takes a      *)
(* permit for every request, the tasks of dispatch, and stream_read, which *)
(* sends the bytes in frames on a bulk lane.                               *)
(*                                                                         *)
(* A request is its sequence number.  Every read is of the whole file,     *)
(* which may shrink meanwhile; a frame carries one block of it.            *)
(***************************************************************************)
EXTENDS Integers, Sequences, FiniteSets

CONSTANTS
    N,          \* requests, numbered from 1 (next_seq)
    Reads,      \* those that are reads; the others are mutations
    Size,       \* blocks of the file at first
    Permits,    \* limits.inflight_rpc
    OutCap,     \* capacity of the queue to the writer task, and of the lane
    MaxShrink,  \* bound: truncations of the file
    NoHead      \* no answer yet

ASSUME RpcAssumption ==
    /\ N \in Nat /\ Reads \subseteq 1 .. N /\ {Size, MaxShrink} \subseteq Nat
    /\ {Permits, OutCap} \subseteq Nat \ {0}

VARIABLES
    req,        \* the tasks of call and read: [pc, head, got, res]
    nextSeq,    \* next_seq
    resp,       \* Pending.resp: waiters
    answers,    \* answers handed to a waiter: [seq, head]
    sinks,      \* Pending.reads: reads whose sink is there
    chan,       \* bytes in a sink's channel
    out,        \* requests in the queue to the writer task and on the lane
    writer,     \* the writer task runs
    reader,     \* the reader task runs
    lane,       \* the rpc connection is up
    toHost,     \* responses on the lane
    tasks,      \* dispatched requests: [seq, pc, head, sent]; each holds a permit
    bulk,       \* frames on the bulk lanes: [seq, more, data]
    size,       \* blocks of the file
    short       \* history: reads whose file shrank, or failed, while it was sent

host  == <<req, nextSeq, resp, answers, sinks, chan, out, writer, reader>>
net   == <<lane, toHost>>
guest == <<tasks, bulk, size, short>>
vars  == <<host, net, guest>>

Seqs     == 1 .. N
BulkLane == {0, 1}
\* The head of an answer: Ok for one to a mutation, an error or not (call returns it
\* without a look at it); to a read ReadStart with the length to come, or an error.
Ok       == [kind |-> "ok", len |-> 0]
Err      == [kind |-> "err", len |-> 0]
ReadStart(len) == [kind |-> "start", len |-> len]

Init ==
    /\ req = [s \in Seqs |-> [pc |-> "idle", head |-> NoHead, got |-> <<>>, res |-> "none"]]
    /\ nextSeq = 1 /\ resp = {} /\ answers = {} /\ sinks = {} /\ chan = [s \in Seqs |-> <<>>]
    /\ out = <<>> /\ writer = TRUE /\ reader = TRUE /\ lane = TRUE
    /\ toHost = <<>> /\ tasks = {} /\ bulk = [l \in BulkLane |-> <<>>]
    /\ size = Size /\ short = {}

-----------------------------------------------------------------------------
(***************************************************************************)
(* RpcClient.                                                              *)
(***************************************************************************)
\* call, read: the waiter, and for a read the sink, are there before the request is sent.
Call ==
    /\ nextSeq <= N /\ nextSeq' = nextSeq + 1
    /\ resp' = resp \cup {nextSeq}
    /\ sinks' = IF nextSeq \in Reads THEN sinks \cup {nextSeq} ELSE sinks
    /\ req' = [req EXCEPT ![nextSeq].pc = "send"]
    /\ UNCHANGED <<answers, chan, out, writer, reader, net, guest>>

Return(s, res) == req' = [req EXCEPT ![s].pc = "done", ![s].res = res]
Fail(s) == req' = [req EXCEPT ![s].pc = "done", ![s].res = "error", ![s].head = NoHead, ![s].got = <<>>]

\* There is no timeout on the wait for room in the queue.
Enqueue(s) ==
    /\ req[s].pc = "send" /\ writer /\ Len(out) < OutCap
    /\ out' = Append(out, s) /\ req' = [req EXCEPT ![s].pc = "wait"]
    /\ UNCHANGED <<nextSeq, resp, answers, sinks, chan, writer, reader, net, guest>>

\* The lane is closed: a read takes its sink away, a call leaves its waiter.
SendFails(s) ==
    /\ req[s].pc = "send" /\ ~writer
    /\ Fail(s) /\ sinks' = sinks \ {s}
    /\ UNCHANGED <<nextSeq, resp, answers, chan, out, writer, reader, net, guest>>

\* A failed write ends the writer task.
WriteFails ==
    /\ writer /\ out # <<>> /\ ~lane
    /\ writer' = FALSE /\ out' = <<>>
    /\ UNCHANGED <<req, nextSeq, resp, answers, sinks, chan, reader, net, guest>>

\* The reader task hands an answer to its waiter, if there is still one.
Receive ==
    /\ reader /\ toHost # <<>> /\ toHost' = Tail(toHost)
    /\ LET a == Head(toHost)
       IN  IF a.seq \in resp THEN resp' = resp \ {a.seq} /\ answers' = answers \cup {a}
           ELSE UNCHANGED <<resp, answers>>
    /\ UNCHANGED <<req, nextSeq, sinks, chan, out, writer, reader, lane, guest>>

\* Its end: everyone who waits is dropped, the writer stopped, and the connection closed.
ReaderEnds ==
    /\ reader /\ ~lane /\ reader' = FALSE /\ writer' = FALSE /\ out' = <<>>
    /\ resp' = {} /\ sinks' = {} /\ toHost' = <<>>
    /\ UNCHANGED <<req, nextSeq, answers, chan, lane, guest>>

\* deliver_chunk, from a bulk reader: the last frame takes the sink away.
Deliver(l) ==
    /\ bulk[l] # <<>> /\ bulk' = [bulk EXCEPT ![l] = Tail(@)]
    /\ LET f == Head(bulk[l])
       IN  IF f.seq \in sinks
           THEN /\ chan' = IF req[f.seq].pc = "done" THEN chan ELSE [chan EXCEPT ![f.seq] = @ \o f.data]
                /\ sinks' = IF f.more THEN sinks ELSE sinks \ {f.seq}
           ELSE UNCHANGED <<chan, sinks>>
    /\ UNCHANGED <<req, nextSeq, resp, answers, out, writer, reader, net, tasks, size, short>>

\* The answer: a call returns it, whatever it is, and so does a read of nothing; its sink stays.
TakeAnswer(s) ==
    /\ req[s].pc = "wait"
    /\ \E a \in answers :
          /\ a.seq = s /\ answers' = answers \ {a} /\ (s \in Reads => a.head.kind = "start")
          /\ req' = [req EXCEPT ![s] = [pc   |-> IF a.head.len > 0 THEN "body" ELSE "done",
                                        head |-> a.head, got |-> @.got,
                                        res  |-> IF a.head.len > 0 THEN "none" ELSE "ok"]]
    /\ UNCHANGED <<nextSeq, resp, sinks, chan, out, writer, reader, net, guest>>

\* An answer to a read that is no ReadStart: the read fails, and its sink goes.
RefusedKeeping(s) ==
    /\ req[s].pc = "wait" /\ s \in Reads /\ Fail(s)
    /\ \E a \in answers : a.seq = s /\ a.head.kind # "start" /\ answers' = answers \ {a}
    /\ UNCHANGED <<nextSeq, resp, sinks, chan, out, writer, reader, net, guest>>
Refused(s) ==
    /\ req[s].pc = "wait" /\ s \in Reads /\ Fail(s) /\ sinks' = sinks \ {s}
    /\ \E a \in answers : a.seq = s /\ a.head.kind # "start" /\ answers' = answers \ {a}
    /\ UNCHANGED <<nextSeq, resp, chan, out, writer, reader, net, guest>>

Answered(s) == \E a \in answers : a.seq = s

\* The waiter was dropped, or ten seconds have passed.
WaitFails(s) ==
    /\ req[s].pc = "wait" /\ ~Answered(s)
    /\ Fail(s) /\ resp' = resp \ {s} /\ sinks' = sinks \ {s} /\ chan' = [chan EXCEPT ![s] = <<>>]
    /\ UNCHANGED <<nextSeq, answers, out, writer, reader, net, guest>>

\* A chunk of the body; the read is complete when it has the length announced.
TakeChunk(s) ==
    /\ req[s].pc = "body" /\ chan[s] # <<>>
    /\ LET got == Append(req[s].got, Head(chan[s]))
           all == Len(got) >= req[s].head.len
       IN  req' = [req EXCEPT ![s] = [pc   |-> IF all THEN "done" ELSE @.pc, head |-> @.head,
                                      got  |-> got,
                                      res  |-> IF all THEN "ok" ELSE @.res]]
    /\ chan' = [chan EXCEPT ![s] = Tail(@)]
    /\ UNCHANGED <<nextSeq, resp, answers, sinks, out, writer, reader, net, guest>>

\* The channel ends: a short read, and a success.
BodyEnds(s) ==
    /\ req[s].pc = "body" /\ chan[s] = <<>> /\ s \notin sinks
    /\ Return(s, "ok")
    /\ UNCHANGED <<nextSeq, resp, answers, sinks, chan, out, writer, reader, net, guest>>

BodyTimeout(s) ==
    /\ req[s].pc = "body" /\ chan[s] = <<>> /\ s \in sinks
    /\ Fail(s) /\ sinks' = sinks \ {s}
    /\ UNCHANGED <<nextSeq, resp, answers, chan, out, writer, reader, net, guest>>

-----------------------------------------------------------------------------
(***************************************************************************)
(* The guest.                                                              *)
(***************************************************************************)

\* The writer task has sent a request; rpc_loop takes a permit for it and dispatches it.
Dispatch ==
    /\ lane /\ out # <<>> /\ Cardinality(tasks) < Permits
    /\ out' = Tail(out)
    /\ tasks' = tasks \cup {[seq |-> Head(out), pc |-> "run", head |-> NoHead, sent |-> 0]}
    /\ UNCHANGED <<req, nextSeq, resp, answers, sinks, chan, writer, reader, net, bulk, size, short>>

Update(t, u) == tasks' = (tasks \ {t}) \cup u

\* The operation: a mutation, or the size of what is read (read_plan), or an error for a
\* read: an unknown share or node, a failed system call.
Run(t) ==
    /\ t \in tasks /\ t.pc = "run"
    /\ \E head \in IF t.seq \in Reads THEN {ReadStart(size), Err} ELSE {Ok} :
          Update(t, {[seq |-> t.seq, pc |-> "reply", sent |-> t.sent, head |-> head]})
    /\ UNCHANGED <<host, net, bulk, size, short>>

\* The answer, and the end of the task unless there are bytes to send.
ReplyHolding(t) ==
    /\ t \in tasks /\ t.pc = "reply"
    /\ toHost' = IF lane THEN Append(toHost, [seq |-> t.seq, head |-> t.head]) ELSE toHost
    /\ Update(t, {[t EXCEPT !.pc = IF t.head.len > 0 THEN "stream" ELSE "held"]})
    /\ UNCHANGED <<host, lane, bulk, size, short>>
Reply(t) ==
    /\ t \in tasks /\ t.pc = "reply"
    /\ toHost' = IF lane THEN Append(toHost, [seq |-> t.seq, head |-> t.head]) ELSE toHost
    /\ Update(t, IF t.head.len > 0 THEN {[t EXCEPT !.pc = "stream"]} ELSE {})
    /\ UNCHANGED <<host, lane, bulk, size, short>>

\* bulk_sender: the lane of a read is that of its sequence number.
LaneOfFrame(t) == t.sent % 2
LaneOf(t) == t.seq % 2

\* stream_read: a frame with the next block; an empty last one when the file ended early
\* or cannot be read.
Stream(t) == \E failed \in BOOLEAN :
    LET last  == t.sent + 1 = t.head.len
        gone  == t.sent + 1 > size \/ failed
        frame == [seq |-> t.seq, more |-> ~(last \/ gone), data |-> IF gone THEN <<>> ELSE <<<<t.seq, t.sent + 1>>>>]
    IN  /\ t \in tasks /\ t.pc = "stream"
        /\ bulk' = [bulk EXCEPT ![LaneOf(t)] = Append(@, frame)]
        /\ Update(t, IF last \/ gone THEN {} ELSE {[t EXCEPT !.sent = @ + 1]})
        /\ short' = IF gone THEN short \cup {t.seq} ELSE short
        /\ UNCHANGED <<host, net, size>>

\* There is no bulk lane, or it is lost: stream_read returns, and no last frame is sent.
StreamLost(t) ==
    /\ t \in tasks /\ t.pc = "stream" /\ Update(t, {})
    /\ UNCHANGED <<host, net, bulk, size, short>>

\* A process of the guest truncates the file; nobody can tell before a task looks at it.
Shrink ==
    /\ \E t \in tasks : t.pc \in {"run", "stream"}
    /\ size > Size - MaxShrink /\ size > 0 /\ size' = size - 1
    /\ UNCHANGED <<host, net, tasks, bulk, short>>

LaneDies ==
    /\ lane /\ lane' = FALSE
    /\ UNCHANGED <<host, toHost, guest>>

HostStep ==
    \/ Call \/ WriteFails \/ Receive \/ ReaderEnds
    \/ \E s \in Seqs : \/ Enqueue(s) \/ SendFails(s) \/ TakeAnswer(s) \/ Refused(s) \/ WaitFails(s)
                       \/ TakeChunk(s) \/ BodyEnds(s) \/ BodyTimeout(s)
    \/ \E l \in BulkLane : Deliver(l)

GuestStep == Dispatch \/ \E t \in tasks : Run(t) \/ Reply(t) \/ Stream(t) \/ StreamLost(t)

Next == HostStep \/ GuestStep \/ Shrink \/ LaneDies

Spec == Init /\ [][Next]_vars

\* Tasks that can go on do; timers expire; operations of the guest's kernel end.
FairSpec ==
    /\ Spec /\ WF_vars(WriteFails) /\ WF_vars(Receive) /\ WF_vars(ReaderEnds) /\ WF_vars(GuestStep)
    /\ WF_vars(\E s \in Seqs : TakeAnswer(s) \/ Refused(s) \/ WaitFails(s))
    /\ WF_vars(\E s \in Seqs : TakeChunk(s) \/ BodyEnds(s) \/ BodyTimeout(s))
    /\ WF_vars(\E l \in BulkLane : Deliver(l))
    /\ \A s \in Seqs : WF_vars(Enqueue(s) \/ SendFails(s))

-----------------------------------------------------------------------------
(***************************************************************************)
(* Properties.                                                             *)
(***************************************************************************)
\* The state is well formed: the client queues no more than it has room for, the guest
\* runs no more than it has permits for, and works on no request twice.
TypeOK ==
    /\ \A s \in Seqs : req[s].pc \in {"idle", "send", "wait", "body", "done"}
    /\ resp \subseteq 1 .. nextSeq - 1 /\ sinks \subseteq Reads
    /\ Len(out) <= OutCap /\ Cardinality(tasks) <= Permits
    /\ \A t, u \in tasks : t.seq = u.seq => t = u
    /\ \A t \in tasks : t.seq \notin {out[i] : i \in DOMAIN out}

\* A read that succeeds has the blocks of the file from its start and in their order,
\* none of another read, and all of them: unless the file shrank, or could not be read
\* on, while it was sent, or the lane was lost, when what has come so far is returned as
\* if it were all.
ReadExact ==
    \A s \in Reads : req[s].res = "ok" =>
        /\ req[s].got = [i \in 1 .. Len(req[s].got) |-> <<s, i>>]
        /\ Len(req[s].got) = req[s].head.len \/ s \in short \/ ~lane

\* A sink goes with the read it belongs to, however the read ends (all bytes, a short
\* file, an error for an answer, a timeout of the answer or of the body, a lost lane) and
\* whatever frames come late; except that of a read of nothing, which stays as long as the
\* session.
SinksGo == \A s \in sinks : req[s].pc # "done" \/ req[s].head = ReadStart(0)

\* Every call and every read returns, though there is no timeout on the wait for room
\* in the queue: requests that the guest has taken give their permits back.
AllReturn == <>[](\A s \in Seqs : req[s].pc \in {"idle", "done"})
=============================================================================
