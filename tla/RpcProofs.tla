----------------------------- MODULE RpcProofs -----------------------------
(***************************************************************************)
(* What holds of the calls and reads of every client: any number of        *)
(* requests, permits and blocks, any capacity of the queue.                *)
(*                                                                         *)
(* A read is a conversation whose parts are in several places at once: its *)
(* request in the queue or in a task, the length it was promised on its    *)
(* way back, its bytes in frames on a bulk lane, in its sink's channel and *)
(* in its buffer.  The inductive invariant follows one request through     *)
(* them: Life says where it can be, Announced what length it was promised, *)
(* Numbered that its frames continue what it has got, Sunk what it means   *)
(* that its sink is there, or gone.                                        *)
(***************************************************************************)
EXTENDS Rpc, FiniteSetTheorems, SequenceTheorems, TLAPS

Heads  == [kind : {"ok", "start", "err"}, len : Nat]
Blocks == Seqs \X Nat
Frames == [seq : Seqs, more : BOOLEAN, data : Seq(Blocks)]
Reqs   == [pc : {"idle", "send", "wait", "body", "done"}, head : Heads \cup {NoHead},
           got : Seq(Blocks), res : {"none", "ok", "error"}]
Answer == [seq : Seqs, head : Heads]
Tasks  == [seq : Seqs, pc : {"run", "reply", "stream"}, head : Heads \cup {NoHead}, sent : Nat]

Types ==
    /\ req \in [Seqs -> Reqs]
    /\ nextSeq \in Nat \ {0} /\ resp \subseteq 1 .. nextSeq - 1
    /\ answers \subseteq Answer /\ sinks \subseteq Reads
    /\ chan \in [Seqs -> Seq(Blocks)] /\ out \in Seq(Seqs)
    /\ writer \in BOOLEAN /\ reader \in BOOLEAN /\ lane \in BOOLEAN
    /\ toHost \in Seq(Answer)
    /\ tasks \subseteq Tasks /\ IsFiniteSet(tasks)
    /\ bulk \in [BulkLane -> Seq(Frames)]
    /\ size \in Nat /\ short \subseteq Seqs

\* Where request s is.
InOut(s)   == \E i \in DOMAIN out : out[i] = s
HasTask(s) == \E t \in tasks : t.seq = s
Lane(s)    == s % 2
OnLane(s)  == \E i \in DOMAIN bulk[Lane(s)] : bulk[Lane(s)][i].seq = s

\* The answer h to request s is decided, and has not been used up yet.
Announced(s, h) ==
    \/ \E t \in tasks : t.seq = s /\ t.pc # "run" /\ t.head = h
    \/ \E i \in DOMAIN toHost : toHost[i].seq = s /\ toHost[i].head = h
    \/ \E a \in answers : a.seq = s /\ a.head = h
    \/ req[s].pc = "body" /\ req[s].head = h
Answerless(s) == \A h \in Heads : ~Announced(s, h)

\* Blocks that request s has received, taken from its channel or not.
Fresh(s) == req[s].got = <<>> /\ chan[s] = <<>>
Base(s)  == Len(req[s].got) + Len(chan[s])

\* The queue and the tasks hold a request once.
Single ==
    /\ Len(out) <= OutCap /\ Cardinality(tasks) <= Permits
    /\ \A i, j \in DOMAIN out : out[i] = out[j] => i = j
    /\ \A t, u \in tasks : t.seq = u.seq => t = u

Life(s) ==
    /\ s >= nextSeq => req[s].pc = "idle"
    /\ req[s].pc \in {"idle", "send"} =>
          Fresh(s) /\ ~InOut(s) /\ ~HasTask(s) /\ ~OnLane(s) /\ Answerless(s)
    /\ InOut(s) => (req[s].pc = "done" \/ Fresh(s)) /\ ~HasTask(s) /\ ~OnLane(s) /\ Answerless(s)

TaskLife(t) ==
    /\ t.pc # "stream" => (req[t.seq].pc = "done" \/ Fresh(t.seq)) /\ ~OnLane(t.seq) /\ t.sent = 0
    /\ t.pc = "run" => Answerless(t.seq)
    /\ t.pc # "run" => t.head \in Heads
    /\ t.pc = "stream" => t.sent < t.head.len

Agreed(s) ==
    \A h \in Heads : Announced(s, h) =>
        /\ h \in {IF s \in Reads THEN ReadStart(h.len) ELSE Ok, Err}
        /\ \A g \in Heads : Announced(s, g) => g = h

\* What a request has got are the blocks from the first, without a gap.
Gapless(s) ==
    /\ req[s].pc = "wait" => req[s].got = <<>>
    /\ req[s].pc = "body" => req[s].head \in Heads /\ Len(req[s].got) < req[s].head.len
    /\ \A i \in DOMAIN req[s].got : req[s].got[i] = <<s, i>>
    /\ req[s].pc # "done" => \A i \in DOMAIN chan[s] : chan[s][i] = <<s, Len(req[s].got) + i>>

\* c counts the frames of s on its lane, from what s has on.
Counts(c, s) ==
    /\ s \in sinks /\ req[s].pc # "done" => c[0] = Base(s)
    /\ \A i \in 1 .. Len(bulk[Lane(s)]) :
          /\ c[i] = IF bulk[Lane(s)][i].seq = s THEN c[i - 1] + 1 ELSE c[i - 1]
          /\ bulk[Lane(s)][i].seq = s /\ bulk[Lane(s)][i].data # <<>> =>
                bulk[Lane(s)][i].data = <<<<s, c[i]>>>>
    /\ \A t \in tasks : t.seq = s => t.sent = c[Len(bulk[Lane(s)])]
Numbered(s) == \E c \in [0 .. Len(bulk[Lane(s)]) -> Nat] : Counts(c, s)

\* A frame of s: the last one ends the task, an empty one means the file shrank or failed.
FrameOK(l, i) ==
    LET f == bulk[l][i]
    IN  /\ f.seq \in Reads /\ l = Lane(f.seq)
        /\ ~f.more => ~HasTask(f.seq) /\ \A j \in DOMAIN bulk[l] : j > i => bulk[l][j].seq # f.seq
        /\ f.data = <<>> => ~f.more /\ f.seq \in short
        /\ f.data # <<>> => \A h \in Heads : Announced(f.seq, h) =>
              IF f.more THEN f.data[1][2] < h.len ELSE f.data[1][2] = h.len

\* While the sink of a read is there more is to come; once it is gone, all has come.
Sunk(s) ==
    /\ s \in sinks /\ req[s].pc # "done" =>
          \A h \in Heads : Announced(s, h) /\ h.len > 0 => Base(s) < h.len
    /\ s \notin sinks /\ req[s].pc = "send" => ~lane
    /\ s \notin sinks /\ req[s].pc \in {"wait", "body"} =>
          \/ ~lane
          \/ /\ ~HasTask(s) /\ ~InOut(s)
             /\ s \in short \/ \A h \in Heads : Announced(s, h) => Base(s) = h.len

\* SinksGo and ReadExact, of one request.
Ended(s) ==
    /\ s \in sinks => req[s].pc # "done" \/ req[s].head = ReadStart(0)
    /\ s \in Reads /\ req[s].res = "ok" =>
          /\ req[s].pc = "done"
          /\ Len(req[s].got) = req[s].head.len \/ s \in short \/ ~lane

ReqOK(s) == Life(s) /\ Agreed(s) /\ Gapless(s) /\ Ended(s) /\ (s \in Reads => Sunk(s))
LanesOK  == \A l \in BulkLane : \A i \in DOMAIN bulk[l] : FrameOK(l, i)
TasksOK  == \A t \in tasks : TaskLife(t)

IInv ==
    /\ Types /\ Single /\ TasksOK /\ LanesOK
    /\ \A s \in Seqs : ReqOK(s) /\ Numbered(s)

-----------------------------------------------------------------------------
\* Each request has one of the two bulk lanes.
LEMMA LaneType == \A s \in Seqs : Lane(s) \in BulkLane
BY DEF Seqs, Lane, BulkLane

\* A sequence with one more element.
LEMMA AppendFacts ==
    ASSUME NEW S, NEW q \in Seq(S), NEW x \in S
    PROVE  /\ Append(q, x) \in Seq(S) /\ Len(q) \in Nat /\ Len(Append(q, x)) = Len(q) + 1
           /\ DOMAIN q = 1 .. Len(q) /\ DOMAIN Append(q, x) = 1 .. Len(q) + 1
           /\ Append(q, x)[Len(q) + 1] = x
           /\ \A i \in 1 .. Len(q) : Append(q, x)[i] = q[i]
OBVIOUS

\* A sequence without its first element.
LEMMA TailFacts ==
    ASSUME NEW S, NEW q \in Seq(S), q # <<>>
    PROVE  /\ Tail(q) \in Seq(S) /\ Len(q) \in Nat \ {0} /\ Len(Tail(q)) = Len(q) - 1
           /\ DOMAIN q = 1 .. Len(q) /\ DOMAIN Tail(q) = 1 .. Len(q) - 1
           /\ Head(q) = q[1] /\ q[1] \in S
           /\ \A i \in 1 .. Len(q) - 1 : Tail(q)[i] = q[i + 1]
OBVIOUS

\* The initial state.
LEMMA InitIInv == Init => IInv
<1> SUFFICES ASSUME Init PROVE IInv
  OBVIOUS
<1>1. Types
  BY FS_EmptySet, RpcAssumption DEF Init, Types, Reqs
<1>2. Single
  BY FS_EmptySet, RpcAssumption DEF Init, Single
<1>3. \A s \in Seqs : /\ req[s].pc = "idle" /\ req[s].got = <<>> /\ req[s].res = "none"
                      /\ chan[s] = <<>> /\ bulk[Lane(s)] = <<>>
  BY LaneType DEF Init
<1>4. out = <<>> /\ tasks = {} /\ toHost = <<>> /\ answers = {} /\ sinks = {}
  BY DEF Init
<1>5. ASSUME NEW s \in Seqs PROVE ReqOK(s)
  BY <1>3, <1>4 DEF ReqOK, Life, Agreed, Gapless, Ended, Sunk, Fresh, InOut, HasTask, OnLane,
                    Answerless, Announced
<1>6. ASSUME NEW s \in Seqs PROVE Numbered(s)
  <2>1. bulk[Lane(s)] = <<>>
    BY <1>3
  <2>2. Counts([i \in 0 .. Len(bulk[Lane(s)]) |-> 0], s)
    BY <1>4, <2>1 DEF Counts
  <2> QED
    BY <2>2 DEF Numbered
<1>7. TasksOK /\ LanesOK
  BY DEF Init, TasksOK, LanesOK
<1> QED
  BY <1>1, <1>2, <1>5, <1>6, <1>7 DEF IInv

\* What the steps of one request make of it.
Made(s, pc, head, got, res) ==
    req' = [req EXCEPT ![s] = [pc |-> pc, head |-> head, got |-> got, res |-> res]]

\* Each step of a request replaces its record.
LEMMA ReqSteps ==
    ASSUME Types, NEW s \in Seqs
    PROVE  /\ s = nextSeq /\ Call => Made(s, "send", req[s].head, req[s].got, req[s].res)
           /\ Enqueue(s) => Made(s, "wait", req[s].head, req[s].got, req[s].res)
           /\ SendFails(s) \/ Refused(s) \/ WaitFails(s) \/ BodyTimeout(s) => Made(s, "done", NoHead, <<>>, "error")
           /\ BodyEnds(s) => Made(s, "done", req[s].head, req[s].got, "ok")
           /\ TakeAnswer(s) => \E a \in answers :
                 /\ a.seq = s /\ answers' = answers \ {a} /\ (s \in Reads => a.head.kind = "start")
                 /\ IF a.head.len > 0 THEN Made(s, "body", a.head, req[s].got, "none")
                                      ELSE Made(s, "done", a.head, req[s].got, "ok")
           /\ TakeChunk(s) =>
                 LET got == Append(req[s].got, Head(chan[s]))
                 IN  IF Len(got) >= req[s].head.len
                     THEN Made(s, "done", req[s].head, got, "ok")
                     ELSE Made(s, req[s].pc, req[s].head, got, req[s].res)
<1>1. /\ req \in [Seqs -> Reqs]
      /\ req[s] = [pc |-> req[s].pc, head |-> req[s].head, got |-> req[s].got, res |-> req[s].res]
  BY DEF Types, Reqs
<1>2. s = nextSeq /\ Call => Made(s, "send", req[s].head, req[s].got, req[s].res)
  <2>1. s = nextSeq /\ Call => req' = [req EXCEPT ![s].pc = "send"]
    BY DEF Call
  <2> QED
    BY <1>1, <2>1 DEF Made
<1>3. Enqueue(s) => Made(s, "wait", req[s].head, req[s].got, req[s].res)
  BY <1>1 DEF Enqueue, Made
<1>4. SendFails(s) \/ Refused(s) \/ WaitFails(s) \/ BodyTimeout(s) => Made(s, "done", NoHead, <<>>, "error")
  BY <1>1 DEF SendFails, Refused, WaitFails, BodyTimeout, Fail, Made
<1>5. BodyEnds(s) => Made(s, "done", req[s].head, req[s].got, "ok")
  BY <1>1 DEF BodyEnds, Return, Made
<1>6. ASSUME TakeAnswer(s)
      PROVE \E a \in answers :
                 /\ a.seq = s /\ answers' = answers \ {a} /\ (s \in Reads => a.head.kind = "start")
                 /\ IF a.head.len > 0 THEN Made(s, "body", a.head, req[s].got, "none")
                                      ELSE Made(s, "done", a.head, req[s].got, "ok")
  BY <1>1, <1>6 DEF TakeAnswer, Made
<1>7. ASSUME TakeChunk(s)
      PROVE  LET got == Append(req[s].got, Head(chan[s]))
             IN  IF Len(got) >= req[s].head.len
                 THEN Made(s, "done", req[s].head, got, "ok")
                 ELSE Made(s, req[s].pc, req[s].head, got, req[s].res)
  BY <1>1, <1>7 DEF TakeChunk, Made
<1> QED
  BY <1>2, <1>3, <1>4, <1>5, <1>6, <1>7

\* What replacing the record of a request says, field by field.
LEMMA MadeFacts ==
    ASSUME Types, NEW s \in Seqs, NEW pc \in {"idle", "send", "wait", "body", "done"},
           NEW head \in Heads \cup {NoHead}, NEW got \in Seq(Blocks),
           NEW res \in {"none", "ok", "error"}, Made(s, pc, head, got, res)
    PROVE  /\ req' \in [Seqs -> Reqs]
           /\ req'[s].pc = pc /\ req'[s].head = head /\ req'[s].got = got /\ req'[s].res = res
           /\ \A r \in Seqs : r # s => req'[r] = req[r]
<1>1. [pc |-> pc, head |-> head, got |-> got, res |-> res] \in Reqs
  BY DEF Reqs
<1> QED
  BY <1>1 DEF Types, Made

-----------------------------------------------------------------------------
(***************************************************************************)
(* What a step leaves alone.                                               *)
(***************************************************************************)
\* Request s does not come anywhere by this step.
Stays(s) ==
    /\ InOut(s)' => InOut(s)
    /\ HasTask(s)' => HasTask(s)
    /\ OnLane(s)' => OnLane(s)
    /\ \A h \in Heads : Announced(s, h)' => Announced(s, h)

Quiet(s) == Stays(s) /\ req'[s] = req[s] /\ chan'[s] = chan[s] /\ (s \in sinks' <=> s \in sinks)

\* The counters and flags only go one way.
Onward ==
    /\ nextSeq \in Nat /\ nextSeq' \in Nat /\ nextSeq <= nextSeq'
    /\ lane' => lane
    /\ short \subseteq short'

\* A request that a step leaves alone keeps what is known of it.
LEMMA QuietKeeps ==
    ASSUME NEW s \in Seqs, ReqOK(s), Quiet(s), Onward
    PROVE  ReqOK(s)'
<1> USE DEF Quiet, Stays, Onward
<1>0. Life(s) /\ Agreed(s) /\ Gapless(s) /\ Ended(s) /\ (s \in Reads => Sunk(s))
  BY DEF ReqOK
<1>1. Life(s)'
  BY <1>0 DEF Life, Fresh, Answerless, Seqs
<1>2. Agreed(s)'
  BY <1>0 DEF Agreed
<1>3. Gapless(s)'
  BY <1>0 DEF Gapless
<1>4. Ended(s)'
  BY <1>0 DEF Ended
<1>5. (s \in Reads => Sunk(s))'
  BY <1>0 DEF Sunk, Base
<1> QED
  BY <1>1, <1>2, <1>3, <1>4, <1>5 DEF ReqOK

\* What is on a bulk lane are frames.
LEMMA FrameType ==
    ASSUME Types, NEW l \in BulkLane
    PROVE  /\ bulk[l] \in Seq(Frames)
           /\ \A i \in DOMAIN bulk[l] : bulk[l][i] \in Frames
<1>1. bulk[l] \in Seq(Frames)
  BY DEF Types
<1> QED
  BY <1>1

\* So do the frames when lanes and tasks are left alone and nothing is announced.
LEMMA LanesKeep ==
    ASSUME Types, LanesOK, bulk' = bulk, tasks' = tasks, short \subseteq short',
           \A s \in Seqs, h \in Heads : Announced(s, h)' => Announced(s, h)
    PROVE  LanesOK'
<1>1. ASSUME NEW l \in BulkLane, NEW i \in DOMAIN bulk[l] PROVE bulk[l][i].seq \in Seqs
  BY FrameType DEF Frames
<1>2. \A s : HasTask(s)' <=> HasTask(s)
  BY DEF HasTask
<1> QED
  BY <1>1, <1>2 DEF LanesOK, FrameOK

\* And the tasks, when no request that has received nothing receives something.
LEMMA TasksKeep ==
    ASSUME Types, TasksOK, bulk' = bulk, tasks' = tasks,
           \A s \in Seqs, h \in Heads : Announced(s, h)' => Announced(s, h),
           \A s \in Seqs : (req[s].pc = "done" \/ Fresh(s)) => (req[s].pc = "done" \/ Fresh(s))'
    PROVE  TasksOK'
<1>1. \A t \in tasks : t.seq \in Seqs
  BY DEF Types, Tasks
<1>2. \A s : OnLane(s)' <=> OnLane(s)
  BY DEF OnLane
<1> QED
  BY <1>1, <1>2 DEF TasksOK, TaskLife, Answerless

\* The frames are counted as before when the tasks have sent as much as before.
LEMMA NumberedTasks ==
    ASSUME NEW s \in Seqs, Numbered(s), bulk' = bulk,
           \A t \in tasks' : t.seq = s => \E u \in tasks : u.seq = s /\ u.sent = t.sent,
           s \in sinks' /\ req'[s].pc # "done" =>
              s \in sinks /\ req[s].pc # "done" /\ Base(s)' = Base(s)
    PROVE  Numbered(s)'
<1>1. PICK c \in [0 .. Len(bulk[Lane(s)]) -> Nat] : Counts(c, s)
  BY DEF Numbered
<1>2. Counts(c, s)'
  BY <1>1 DEF Counts, Lane
<1> QED
  BY <1>1, <1>2 DEF Numbered, Lane

\* The frames are counted as before when neither the lanes nor the tasks change.
LEMMA NumberedKeeps ==
    ASSUME NEW s \in Seqs, Numbered(s), bulk' = bulk, tasks' = tasks,
           s \in sinks' /\ req'[s].pc # "done" =>
              s \in sinks /\ req[s].pc # "done" /\ Base(s)' = Base(s)
    PROVE  Numbered(s)'
<1>1. \A t \in tasks' : t.seq = s => \E u \in tasks : u.seq = s /\ u.sent = t.sent
  OBVIOUS
<1> QED
  BY <1>1, NumberedTasks

-----------------------------------------------------------------------------
(***************************************************************************)
(* The steps of the host.                                                  *)
(***************************************************************************)
\* A step of request s at the host: everything else is quiet.
LEMMA HostRequestStep ==
    ASSUME IInv, NEW s \in Seqs, Types', ReqOK(s)', Onward, Len(out') <= OutCap,
           \A i, j \in DOMAIN out' : out'[i] = out'[j] => i = j,
           \A r \in Seqs : r # s => Quiet(r),
           \A h \in Heads : Announced(s, h)' => Announced(s, h),
           bulk' = bulk, tasks' = tasks,
           (req[s].pc = "done" \/ Fresh(s)) => (req[s].pc = "done" \/ Fresh(s))',
           s \in sinks' /\ req'[s].pc # "done" =>
              s \in sinks /\ req[s].pc # "done" /\ Base(s)' = Base(s)
    PROVE  IInv'
<1>0. /\ Types /\ Single /\ TasksOK /\ LanesOK
      /\ \A r \in Seqs : ReqOK(r) /\ Numbered(r)
  BY DEF IInv
<1>1. Single'
  BY <1>0 DEF Single
<1>2. \A r \in Seqs, h \in Heads : Announced(r, h)' => Announced(r, h)
  BY DEF Quiet, Stays
<1>3. \A r \in Seqs : (req[r].pc = "done" \/ Fresh(r)) => (req[r].pc = "done" \/ Fresh(r))'
  BY DEF Quiet, Fresh
<1>4. TasksOK' /\ LanesOK'
  BY <1>0, <1>2, <1>3, TasksKeep, LanesKeep DEF Onward
<1>5. \A r \in Seqs : ReqOK(r)'
  BY <1>0, QuietKeeps
<1>6. \A r \in Seqs : Numbered(r)'
  <2> SUFFICES ASSUME NEW r \in Seqs PROVE Numbered(r)'
    OBVIOUS
  <2>1. r \in sinks' /\ req'[r].pc # "done" =>
           r \in sinks /\ req[r].pc # "done" /\ Base(r)' = Base(r)
    BY DEF Quiet, Base
  <2> QED
    BY <1>0, <2>1, NumberedKeeps
<1> QED
  BY <1>1, <1>4, <1>5, <1>6 DEF IInv

\* The request waits for room in the queue, and is put in it.
LEMMA EnqueueStep ==
    ASSUME IInv, NEW s \in Seqs, Enqueue(s)
    PROVE  IInv'
<1>0. Types /\ Single /\ ReqOK(s) /\ \A r \in Seqs : ReqOK(r)
  BY DEF IInv
<1>1. /\ req[s].pc = "send" /\ Len(out) < OutCap /\ out' = Append(out, s)
      /\ UNCHANGED <<nextSeq, resp, answers, sinks, chan, writer, reader, lane, toHost,
                     tasks, bulk, size, short>>
  BY DEF Enqueue, net, guest
<1>2. Made(s, "wait", req[s].head, req[s].got, req[s].res)
  BY <1>0, ReqSteps
<1>3. req[s].head \in Heads \cup {NoHead} /\ req[s].got \in Seq(Blocks) /\ req[s].res \in {"none", "ok", "error"}
  BY <1>0 DEF Types, Reqs
<1>4. /\ req' \in [Seqs -> Reqs] /\ req'[s].pc = "wait" /\ req'[s].head = req[s].head
      /\ req'[s].got = req[s].got /\ req'[s].res = req[s].res
      /\ \A r \in Seqs : r # s => req'[r] = req[r]
  BY <1>0, <1>2, <1>3, MadeFacts
<1>5. /\ out' \in Seq(Seqs) /\ Len(out') = Len(out) + 1 /\ Len(out) \in Nat
      /\ DOMAIN out' = 1 .. Len(out) + 1 /\ DOMAIN out = 1 .. Len(out)
      /\ out'[Len(out) + 1] = s /\ \A i \in 1 .. Len(out) : out'[i] = out[i]
  <2>1. out \in Seq(Seqs)
    BY <1>0 DEF Types
  <2> QED
    BY <1>1, <2>1, AppendFacts
<1>6. Types'
  BY <1>0, <1>1, <1>4, <1>5 DEF Types
<1>7. \A r \in Seqs, h \in Heads : Announced(r, h)' => Announced(r, h)
  BY <1>1, <1>4 DEF Announced
<1>8. ASSUME NEW r \in Seqs, r # s PROVE Quiet(r)
  <2>1. InOut(r)' => InOut(r)
    BY <1>5, <1>8 DEF InOut
  <2> QED
    BY <1>1, <1>4, <1>7, <1>8, <2>1 DEF Quiet, Stays, HasTask, OnLane
<1>9. ~InOut(s)
  BY <1>0, <1>1 DEF ReqOK, Life
<1>10. \A i, j \in DOMAIN out' : out'[i] = out'[j] => i = j
  <2>1. \A i, j \in 1 .. Len(out) : out[i] = out[j] => i = j
    BY <1>0, <1>5 DEF Single
  <2>2. \A i \in 1 .. Len(out) : out[i] # s
    BY <1>5, <1>9 DEF InOut
  <2>3. \A i \in DOMAIN out' : i \in 1 .. Len(out) \/ i = Len(out) + 1
    BY <1>5
  <2> QED
    BY <1>5, <2>1, <2>2, <2>3
<1>11. Onward
  BY <1>0, <1>1 DEF Onward, Types
<1>12. ReqOK(s)'
  <2>0. Life(s) /\ Agreed(s) /\ Gapless(s) /\ Ended(s) /\ (s \in Reads => Sunk(s))
    BY <1>0 DEF ReqOK
  <2>1. Fresh(s) /\ ~HasTask(s) /\ ~OnLane(s) /\ Answerless(s)
    BY <1>1, <2>0 DEF Life
  <2>2. Fresh(s)' /\ ~HasTask(s)' /\ ~OnLane(s)' /\ Answerless(s)'
    BY <1>1, <1>4, <1>7, <2>1 DEF Fresh, HasTask, OnLane, Answerless
  <2>3. Life(s)'
    BY <1>1, <1>4, <2>0, <2>2 DEF Life
  <2>4. Agreed(s)'
    BY <2>2 DEF Agreed, Answerless
  <2>5. Gapless(s)' /\ Ended(s)'
    BY <1>1, <1>4, <2>0, <2>2 DEF Gapless, Ended, Fresh
  <2>6. (s \in Reads => Sunk(s))'
    BY <1>1, <1>4, <2>0, <2>2 DEF Sunk, Answerless
  <2> QED
    BY <2>3, <2>4, <2>5, <2>6 DEF ReqOK
<1>13. /\ Len(out') <= OutCap
       /\ (req[s].pc = "done" \/ Fresh(s)) => (req[s].pc = "done" \/ Fresh(s))'
       /\ s \in sinks' /\ req'[s].pc # "done" =>
              s \in sinks /\ req[s].pc # "done" /\ Base(s)' = Base(s)
  BY <1>1, <1>4, <1>5, RpcAssumption DEF Fresh, Base
<1> QED
  BY <1>1, <1>6, <1>7, <1>8, <1>10, <1>11, <1>12, <1>13, HostRequestStep

\* The types of a request's fields.
LEMMA ReqType ==
    ASSUME Types, NEW s \in Seqs
    PROVE  /\ req[s].pc \in {"idle", "send", "wait", "body", "done"}
           /\ req[s].head \in Heads \cup {NoHead} /\ req[s].got \in Seq(Blocks)
           /\ req[s].res \in {"none", "ok", "error"} /\ chan[s] \in Seq(Blocks)
           /\ Len(req[s].got) \in Nat /\ Len(chan[s]) \in Nat /\ Base(s) \in Nat
<1>1. req[s] \in Reqs /\ chan[s] \in Seq(Blocks)
  BY DEF Types
<1>2. /\ req[s].pc \in {"idle", "send", "wait", "body", "done"}
      /\ req[s].head \in Heads \cup {NoHead} /\ req[s].got \in Seq(Blocks)
      /\ req[s].res \in {"none", "ok", "error"}
  BY <1>1 DEF Reqs
<1>3. Len(req[s].got) \in Nat /\ Len(chan[s]) \in Nat
  BY <1>1, <1>2
<1>4. \A a, b \in Nat : a + b \in Nat
  OBVIOUS
<1>5. Base(s) \in Nat
  BY <1>3, <1>4 DEF Base
<1> QED
  BY <1>1, <1>2, <1>3, <1>5

\* A request fails: the lane is closed, the answer is an error, or nothing came in time.
LEMMA FailStep ==
    ASSUME IInv, NEW s \in Seqs, SendFails(s) \/ Refused(s) \/ WaitFails(s) \/ BodyTimeout(s)
    PROVE  IInv'
<1>0. Types /\ Single /\ ReqOK(s)
  BY DEF IInv
<1>1. /\ req[s].pc \in {"send", "wait", "body"} /\ sinks' = sinks \ {s} /\ resp' \subseteq resp
      /\ chan' = chan \/ chan' = [chan EXCEPT ![s] = <<>>]
      /\ answers' \subseteq answers
      /\ UNCHANGED <<nextSeq, out, writer, reader, lane, toHost, tasks, bulk, size, short>>
  BY DEF SendFails, Refused, WaitFails, BodyTimeout, net, guest
<1>2. Made(s, "done", NoHead, <<>>, "error")
  BY <1>0, ReqSteps
<1>3. /\ req' \in [Seqs -> Reqs] /\ req'[s].pc = "done" /\ req'[s].head = NoHead
      /\ req'[s].got = <<>> /\ req'[s].res = "error"
      /\ \A r \in Seqs : r # s => req'[r] = req[r]
  <2>1. <<>> \in Seq(Blocks)
    OBVIOUS
  <2> QED
    BY <1>0, <1>2, <2>1, MadeFacts
<1>4. chan' \in [Seqs -> Seq(Blocks)] /\ \A r \in Seqs : r # s => chan'[r] = chan[r]
  <2>1. chan \in [Seqs -> Seq(Blocks)] /\ <<>> \in Seq(Blocks)
    BY <1>0 DEF Types
  <2>2. CASE chan' = chan
    BY <2>1, <2>2
  <2>3. CASE chan' = [chan EXCEPT ![s] = <<>>]
    BY <2>1, <2>3
  <2> QED
    BY <1>1, <2>2, <2>3
<1>5. Types'
  BY <1>0, <1>1, <1>3, <1>4 DEF Types
<1>6. \A r \in Seqs, h \in Heads : Announced(r, h)' => Announced(r, h)
  BY <1>1, <1>3 DEF Announced
<1>7. ASSUME NEW r \in Seqs PROVE Stays(r)
  BY <1>1, <1>6 DEF Stays, HasTask, OnLane, InOut
<1>8. ASSUME NEW r \in Seqs, r # s PROVE Quiet(r)
  BY <1>1, <1>3, <1>4, <1>7, <1>8 DEF Quiet
<1>9. Onward
  BY <1>0, <1>1 DEF Onward, Types
<1>10. ReqOK(s)'
  <2>0. Life(s) /\ Agreed(s) /\ Gapless(s) /\ Ended(s)
    BY <1>0 DEF ReqOK
  <2>1. Life(s)'
    BY <1>1, <1>3, <1>7, <2>0 DEF Life, Stays, Answerless
  <2>2. Agreed(s)'
    BY <1>6, <2>0 DEF Agreed
  <2>3. Gapless(s)' /\ Ended(s)' /\ Sunk(s)'
    BY <1>1, <1>3 DEF Gapless, Ended, Sunk
  <2> QED
    BY <2>1, <2>2, <2>3 DEF ReqOK
<1>11. /\ Len(out') <= OutCap /\ \A i, j \in DOMAIN out' : out'[i] = out'[j] => i = j
       /\ (req[s].pc = "done" \/ Fresh(s)) => (req[s].pc = "done" \/ Fresh(s))'
       /\ s \in sinks' /\ req'[s].pc # "done" =>
              s \in sinks /\ req[s].pc # "done" /\ Base(s)' = Base(s)
  BY <1>0, <1>1, <1>3 DEF Single
<1> QED
  BY <1>1, <1>5, <1>6, <1>8, <1>9, <1>10, <1>11, HostRequestStep

\* The answer: the length of what is to come, or the end.
LEMMA TakeAnswerStep ==
    ASSUME IInv, NEW s \in Seqs, TakeAnswer(s)
    PROVE  IInv'
<1>0. Types /\ Single /\ ReqOK(s)
  BY DEF IInv
<1>1. /\ req[s].pc = "wait"
      /\ UNCHANGED <<nextSeq, resp, sinks, chan, out, writer, reader, lane, toHost, tasks, bulk, size, short>>
  BY DEF TakeAnswer, net, guest
<1>2. PICK a \in answers :
        /\ a.seq = s /\ answers' = answers \ {a} /\ (s \in Reads => a.head.kind = "start")
        /\ IF a.head.len > 0 THEN Made(s, "body", a.head, req[s].got, "none")
                             ELSE Made(s, "done", a.head, req[s].got, "ok")
  BY <1>0, ReqSteps
<1> DEFINE more == a.head.len > 0
<1>3. a.head \in Heads /\ a.head.len \in Nat /\ Announced(s, a.head)
  BY <1>0, <1>2 DEF Types, Answer, Heads, Announced
<1>4. /\ req' \in [Seqs -> Reqs] /\ req'[s].pc = (IF more THEN "body" ELSE "done")
      /\ req'[s].head = a.head /\ req'[s].got = req[s].got
      /\ req'[s].res = (IF more THEN "none" ELSE "ok")
      /\ \A r \in Seqs : r # s => req'[r] = req[r]
  <2>1. req[s].got \in Seq(Blocks)
    BY <1>0, ReqType
  <2> QED
    BY <1>0, <1>2, <1>3, <2>1, MadeFacts
<1>5. Types'
  BY <1>0, <1>1, <1>2, <1>4 DEF Types
<1>6. \A r \in Seqs, h \in Heads : Announced(r, h)' => Announced(r, h)
  BY <1>1, <1>2, <1>3, <1>4 DEF Announced
<1>7. ASSUME NEW r \in Seqs PROVE Stays(r)
  BY <1>1, <1>6 DEF Stays, HasTask, OnLane, InOut
<1>8. ASSUME NEW r \in Seqs, r # s PROVE Quiet(r)
  BY <1>1, <1>4, <1>7, <1>8 DEF Quiet
<1>9. Onward
  BY <1>0, <1>1 DEF Onward, Types
<1>10. Fresh(s) => Fresh(s)'
  BY <1>1, <1>4 DEF Fresh
<1>11. ReqOK(s)'
  <2>0. Life(s) /\ Agreed(s) /\ Gapless(s) /\ Ended(s) /\ (s \in Reads => Sunk(s))
    BY <1>0 DEF ReqOK
  <2>1. Life(s)'
    BY <1>1, <1>4, <1>7, <1>10, <2>0 DEF Life, Stays, Answerless
  <2>2. Agreed(s)'
    BY <1>6, <2>0 DEF Agreed
  <2>3. req[s].got = <<>> /\ Len(req[s].got) = 0
    BY <1>1, <2>0 DEF Gapless
  <2>4. Gapless(s)'
    BY <1>1, <1>3, <1>4, <2>0, <2>3 DEF Gapless
  <2>5. s \in Reads => a.head = ReadStart(a.head.len)
    <3>1. Err.kind # "start"
      BY DEF Err
    <3> QED
      BY <1>2, <1>3, <2>0, <3>1 DEF Agreed
  <2>6. Ended(s)'
    <3>1. s \in sinks' => s \in Reads
      BY <1>0, <1>1 DEF Types
    <3> QED
      BY <1>1, <1>3, <1>4, <2>3, <2>5, <3>1 DEF Ended
  <2>7. ASSUME s \in Reads PROVE Sunk(s)'
    BY <1>1, <1>4, <1>6, <1>7, <2>0, <2>7 DEF Sunk, Base, Stays
  <2> QED
    BY <2>1, <2>2, <2>4, <2>6, <2>7 DEF ReqOK
<1>12. /\ Len(out') <= OutCap /\ \A i, j \in DOMAIN out' : out'[i] = out'[j] => i = j
       /\ (req[s].pc = "done" \/ Fresh(s)) => (req[s].pc = "done" \/ Fresh(s))'
       /\ s \in sinks' /\ req'[s].pc # "done" =>
              s \in sinks /\ req[s].pc # "done" /\ Base(s)' = Base(s)
  BY <1>0, <1>1, <1>4, <1>10 DEF Single, Base
<1> QED
  BY <1>1, <1>5, <1>6, <1>8, <1>9, <1>11, <1>12, HostRequestStep

\* A chunk of the body.  The last one finds the sink gone.
LEMMA TakeChunkStep ==
    ASSUME IInv, NEW s \in Seqs, TakeChunk(s)
    PROVE  IInv'
<1> DEFINE got == Append(req[s].got, Head(chan[s]))
           all == Len(got) >= req[s].head.len
<1>0. Types /\ Single /\ ReqOK(s)
  BY DEF IInv
<1>1. /\ req[s].pc = "body" /\ chan[s] # <<>> /\ chan' = [chan EXCEPT ![s] = Tail(@)]
      /\ UNCHANGED <<nextSeq, resp, answers, sinks, out, writer, reader, lane, toHost, tasks, bulk, size, short>>
  BY DEF TakeChunk, net, guest
<1>2. IF all THEN Made(s, "done", req[s].head, got, "ok")
             ELSE Made(s, req[s].pc, req[s].head, got, req[s].res)
  BY <1>0, ReqSteps
<1>3. /\ req[s].got \in Seq(Blocks) /\ chan[s] \in Seq(Blocks) /\ Len(req[s].got) \in Nat
      /\ req[s].head \in Heads \cup {NoHead} /\ req[s].res \in {"none", "ok", "error"}
  BY <1>0, ReqType
<1>4. /\ Tail(chan[s]) \in Seq(Blocks) /\ Len(Tail(chan[s])) = Len(chan[s]) - 1
      /\ Len(chan[s]) \in Nat \ {0} /\ DOMAIN chan[s] = 1 .. Len(chan[s])
      /\ DOMAIN Tail(chan[s]) = 1 .. Len(chan[s]) - 1
      /\ Head(chan[s]) = chan[s][1] /\ chan[s][1] \in Blocks
      /\ \A i \in 1 .. Len(chan[s]) - 1 : Tail(chan[s])[i] = chan[s][i + 1]
  BY <1>1, <1>3, TailFacts
<1>5. /\ got \in Seq(Blocks) /\ Len(got) = Len(req[s].got) + 1
      /\ DOMAIN req[s].got = 1 .. Len(req[s].got) /\ DOMAIN got = 1 .. Len(req[s].got) + 1
      /\ got[Len(req[s].got) + 1] = chan[s][1]
      /\ \A i \in 1 .. Len(req[s].got) : got[i] = req[s].got[i]
  BY <1>3, <1>4, AppendFacts
<1> HIDE DEF got
<1>6. /\ req' \in [Seqs -> Reqs] /\ req'[s].pc = (IF all THEN "done" ELSE "body")
      /\ req'[s].head = req[s].head /\ req'[s].got = got
      /\ req'[s].res = (IF all THEN "ok" ELSE req[s].res)
      /\ \A r \in Seqs : r # s => req'[r] = req[r]
  <2>1. CASE all
    <3> HIDE DEF all
    <3> QED
      BY <1>0, <1>2, <1>3, <1>5, <2>1, MadeFacts
  <2>2. CASE ~ all
    <3> HIDE DEF all
    <3> QED
      <4>1. Made(s, "body", req[s].head, got, req[s].res)
        BY <1>1, <1>2, <2>2
      <4>2. got \in Seq(Blocks)
        BY <1>5
      <4>3. /\ req' \in [Seqs -> Reqs] /\ req'[s].pc = "body"
            /\ req'[s].head = req[s].head /\ req'[s].got = got /\ req'[s].res = req[s].res
            /\ \A r \in Seqs : r # s => req'[r] = req[r]
        <5> DEFINE head == req[s].head
                   res == req[s].res
        <5>1. head \in Heads \cup {NoHead} /\ res \in {"none", "ok", "error"}
          BY <1>3
        <5>2. Made(s, "body", head, got, res)
          BY <4>1
        <5> HIDE DEF head, res
        <5>3. /\ req' \in [Seqs -> Reqs] /\ req'[s].pc = "body"
              /\ req'[s].head = head /\ req'[s].got = got /\ req'[s].res = res
              /\ \A r \in Seqs : r # s => req'[r] = req[r]
          BY <1>0, <4>2, <5>1, <5>2, MadeFacts
        <5> QED
          BY <5>3 DEF head, res
      <4> QED
        BY <2>2, <4>3
  <2> QED
    BY <2>1, <2>2
<1>7. /\ chan' \in [Seqs -> Seq(Blocks)] /\ chan'[s] = Tail(chan[s])
      /\ \A r \in Seqs : r # s => chan'[r] = chan[r]
  BY <1>0, <1>1, <1>4 DEF Types
<1>8. Types'
  BY <1>0, <1>1, <1>6, <1>7 DEF Types
<1>9. \A r \in Seqs, h \in Heads : Announced(r, h)' => Announced(r, h)
  BY <1>1, <1>6 DEF Announced
<1>10. ASSUME NEW r \in Seqs PROVE Stays(r)
  BY <1>1, <1>9 DEF Stays, HasTask, OnLane, InOut
<1>11. ASSUME NEW r \in Seqs, r # s PROVE Quiet(r)
  BY <1>1, <1>6, <1>7, <1>10, <1>11 DEF Quiet
<1>12. Onward
  BY <1>0, <1>1 DEF Onward, Types
<1>13. Base(s)' = Base(s)
  <2>1. Len(req'[s].got) = Len(req[s].got) + 1 /\ Len(chan'[s]) = Len(chan[s]) - 1
    BY <1>4, <1>5, <1>6, <1>7
  <2>2. \A a, b \in Nat : (a + 1) + (b - 1) = a + b
    OBVIOUS
  <2> QED
    BY <1>3, <1>4, <2>1, <2>2 DEF Base
<1>14. ~Fresh(s)
  BY <1>1 DEF Fresh
<1>15. ReqOK(s)'
  <2>0. Life(s) /\ Agreed(s) /\ Gapless(s) /\ Ended(s) /\ (s \in Reads => Sunk(s))
    BY <1>0 DEF ReqOK
  <2>1. Life(s)'
    BY <1>1, <1>6, <1>10, <1>14, <2>0 DEF Life, Stays, Answerless
  <2>2. Agreed(s)'
    BY <1>9, <2>0 DEF Agreed
  <2>3. /\ req[s].head \in Heads /\ req[s].head.len \in Nat /\ Len(req[s].got) < req[s].head.len
        /\ Announced(s, req[s].head)
    BY <1>1, <2>0 DEF Gapless, Heads, Announced
  <2>4. all => Len(got) = req[s].head.len
    BY <1>3, <1>5, <2>3
  <2>5. Gapless(s)'
    <3>1. req'[s].pc = "body" => req'[s].head \in Heads /\ Len(req'[s].got) < req'[s].head.len
      BY <1>3, <1>5, <1>6, <2>3
    <3>2. chan[s][1] = <<s, Len(req[s].got) + 1>>
      BY <1>1, <1>4, <2>0 DEF Gapless
    <3>3. \A i \in DOMAIN got : got[i] = <<s, i>>
      <4>1. \A i \in 1 .. Len(req[s].got) : req[s].got[i] = <<s, i>>
        BY <1>5, <2>0 DEF Gapless
      <4>2. \A i \in DOMAIN got : i \in 1 .. Len(req[s].got) \/ i = Len(req[s].got) + 1
        BY <1>3, <1>5
      <4> QED
        BY <1>5, <3>2, <4>1, <4>2
    <3>4. ASSUME NEW i \in DOMAIN chan'[s] PROVE chan'[s][i] = <<s, Len(got) + i>>
      <4>1. i \in 1 .. Len(chan[s]) - 1 /\ i + 1 \in DOMAIN chan[s]
        BY <1>4, <1>7
      <4>2. chan[s][i + 1] = <<s, Len(req[s].got) + (i + 1)>>
        BY <1>1, <2>0, <4>1 DEF Gapless
      <4>3. Len(got) + i = Len(req[s].got) + (i + 1)
        <5>1. i \in Nat
          BY <1>4, <4>1
        <5>2. \A a, b \in Nat : (a + 1) + b = a + (b + 1)
          OBVIOUS
        <5> QED
          BY <1>3, <1>5, <5>1, <5>2
      <4>4. chan'[s][i] = chan[s][i + 1]
        BY <1>4, <1>7, <4>1
      <4> QED
        BY <4>2, <4>3, <4>4
    <3> QED
      BY <1>6, <3>1, <3>3, <3>4 DEF Gapless
  <2>6. all => s \notin sinks
    <3> SUFFICES ASSUME all, s \in sinks PROVE FALSE
      OBVIOUS
    <3>1. s \in Reads
      BY <1>0 DEF Types
    <3>2. Base(s) < req[s].head.len
      BY <1>1, <1>3, <2>0, <2>3, <3>1 DEF Sunk
    <3> QED
      <4>1. Len(req[s].got) + 1 = req[s].head.len
        BY <1>5, <2>4
      <4>2. Len(req[s].got) + Len(chan[s]) < Len(req[s].got) + 1
        BY <3>2, <4>1 DEF Base
      <4>3. \A a \in Nat, b \in Nat \ {0} : ~ (a + b < a + 1)
        OBVIOUS
      <4> QED
        BY <1>3, <1>4, <4>2, <4>3
  <2>7. Ended(s)'
    BY <1>1, <1>6, <2>0, <2>4, <2>6 DEF Ended
  <2>8. ASSUME s \in Reads PROVE Sunk(s)'
    BY <1>1, <1>6, <1>9, <1>10, <1>13, <2>0, <2>8 DEF Sunk, Stays
  <2> QED
    BY <2>1, <2>2, <2>5, <2>7, <2>8 DEF ReqOK
<1>16. /\ Len(out') <= OutCap /\ \A i, j \in DOMAIN out' : out'[i] = out'[j] => i = j
       /\ (req[s].pc = "done" \/ Fresh(s)) => (req[s].pc = "done" \/ Fresh(s))'
       /\ s \in sinks' /\ req'[s].pc # "done" =>
              s \in sinks /\ req[s].pc # "done" /\ Base(s)' = Base(s)
  BY <1>0, <1>1, <1>13, <1>14 DEF Single
<1> QED
  BY <1>1, <1>8, <1>9, <1>11, <1>12, <1>15, <1>16, HostRequestStep

\* The channel ends: all that was announced is there, or the file shrank, or
\* the lane is lost.
LEMMA BodyEndsStep ==
    ASSUME IInv, NEW s \in Seqs, BodyEnds(s)
    PROVE  IInv'
<1>0. Types /\ Single /\ ReqOK(s)
  BY DEF IInv
<1>1. /\ req[s].pc = "body" /\ chan[s] = <<>> /\ s \notin sinks
      /\ UNCHANGED <<nextSeq, resp, answers, sinks, chan, out, writer, reader, lane, toHost,
                     tasks, bulk, size, short>>
  BY DEF BodyEnds, net, guest
<1>2. Made(s, "done", req[s].head, req[s].got, "ok")
  BY <1>0, ReqSteps
<1>3. /\ req' \in [Seqs -> Reqs] /\ req'[s].pc = "done" /\ req'[s].head = req[s].head
      /\ req'[s].got = req[s].got /\ req'[s].res = "ok"
      /\ \A r \in Seqs : r # s => req'[r] = req[r]
  BY <1>0, <1>2, ReqType, MadeFacts
<1>4. Types'
  BY <1>0, <1>1, <1>3 DEF Types
<1>5. \A r \in Seqs, h \in Heads : Announced(r, h)' => Announced(r, h)
  BY <1>1, <1>3 DEF Announced
<1>6. ASSUME NEW r \in Seqs PROVE Stays(r)
  BY <1>1, <1>5 DEF Stays, HasTask, OnLane, InOut
<1>7. ASSUME NEW r \in Seqs, r # s PROVE Quiet(r)
  BY <1>1, <1>3, <1>6, <1>7 DEF Quiet
<1>8. Onward
  BY <1>0, <1>1 DEF Onward, Types
<1>9. ReqOK(s)'
  <2>0. Life(s) /\ Agreed(s) /\ Gapless(s) /\ Ended(s) /\ (s \in Reads => Sunk(s))
    BY <1>0 DEF ReqOK
  <2>1. Life(s)'
    BY <1>1, <1>3, <1>6, <2>0 DEF Life, Stays, Answerless
  <2>2. Agreed(s)'
    BY <1>5, <2>0 DEF Agreed
  <2>3. Gapless(s)' /\ Sunk(s)'
    BY <1>1, <1>3, <2>0 DEF Gapless, Sunk
  <2>4. req[s].head \in Heads /\ Announced(s, req[s].head)
    BY <1>1, <2>0 DEF Gapless, Announced
  <2>5. Base(s) = Len(req[s].got)
    BY <1>0, <1>1, ReqType DEF Base
  <2>6. s \in Reads => Len(req[s].got) = req[s].head.len \/ s \in short \/ ~lane
    BY <1>1, <2>0, <2>4, <2>5 DEF Sunk
  <2>7. Ended(s)'
    BY <1>1, <1>3, <2>6 DEF Ended
  <2> QED
    BY <2>1, <2>2, <2>3, <2>7 DEF ReqOK
<1>10. /\ Len(out') <= OutCap /\ \A i, j \in DOMAIN out' : out'[i] = out'[j] => i = j
       /\ (req[s].pc = "done" \/ Fresh(s)) => (req[s].pc = "done" \/ Fresh(s))'
       /\ s \in sinks' /\ req'[s].pc # "done" =>
              s \in sinks /\ req[s].pc # "done" /\ Base(s)' = Base(s)
  BY <1>0, <1>1, <1>3 DEF Single
<1> QED
  BY <1>1, <1>4, <1>5, <1>7, <1>8, <1>9, <1>10, HostRequestStep

\* A step that leaves the guest alone.
LEMMA GuestIdle ==
    ASSUME IInv, Types', bulk' = bulk, tasks' = tasks, short \subseteq short',
           out' = out \/ out' = <<>>,
           \A r \in Seqs, h \in Heads : Announced(r, h)' => Announced(r, h),
           \A r \in Seqs : (req[r].pc = "done" \/ Fresh(r)) => (req[r].pc = "done" \/ Fresh(r))',
           \A r \in Seqs : ReqOK(r)' /\ Numbered(r)'
    PROVE  IInv'
<1>0. Types /\ Single /\ TasksOK /\ LanesOK
  BY DEF IInv
<1>1. Single'
  <2>1. Len(<<>>) <= OutCap /\ \A i, j \in DOMAIN <<>> : i = j
    BY RpcAssumption
  <2>2. Len(out') <= OutCap /\ \A i, j \in DOMAIN out' : out'[i] = out'[j] => i = j
    <3>1. CASE out' = out
      BY <1>0, <3>1 DEF Single
    <3>2. CASE out' = <<>>
      BY <2>1, <3>2
    <3> QED
      BY <3>1, <3>2
  <2> QED
    BY <1>0, <2>2 DEF Single
<1>2. TasksOK' /\ LanesOK'
  BY <1>0, TasksKeep, LanesKeep
<1> QED
  BY <1>1, <1>2 DEF IInv

\* A step that is about no request.
LEMMA AllQuiet ==
    ASSUME IInv, Types', Onward, bulk' = bulk, tasks' = tasks, out' = out \/ out' = <<>>,
           \A r \in Seqs : Quiet(r)
    PROVE  IInv'
<1>0. \A r \in Seqs : ReqOK(r) /\ Numbered(r)
  BY DEF IInv
<1>1. \A r \in Seqs, h \in Heads : Announced(r, h)' => Announced(r, h)
  BY DEF Quiet, Stays
<1>2. \A r \in Seqs : (req[r].pc = "done" \/ Fresh(r)) => (req[r].pc = "done" \/ Fresh(r))'
  BY DEF Quiet, Fresh
<1>3. ASSUME NEW r \in Seqs PROVE Numbered(r)'
  <2>1. r \in sinks' /\ req'[r].pc # "done" =>
           r \in sinks /\ req[r].pc # "done" /\ Base(r)' = Base(r)
    BY DEF Quiet, Base
  <2> QED
    BY <1>0, <2>1, NumberedKeeps
<1>4. \A r \in Seqs : ReqOK(r)'
  BY <1>0, QuietKeeps
<1> QED
  BY <1>1, <1>2, <1>3, <1>4, GuestIdle DEF Onward

\* A request that has been nowhere yet has nothing to count.
LEMMA NumberedFresh ==
    ASSUME NEW s \in Seqs, Types', ~OnLane(s)', (req[s].pc = "done" \/ Fresh(s))',
           \A t \in tasks' : t.seq = s => t.sent = 0
    PROVE  Numbered(s)'
<1> DEFINE q == bulk'[Lane(s)]
<1>1. q \in Seq(Frames) /\ DOMAIN q = 1 .. Len(q) /\ Len(q) \in Nat
  <2>1. q \in Seq(Frames)
    BY LaneType DEF Types
  <2> HIDE DEF q
  <2> QED
    BY <2>1
<1>2. \A i \in 1 .. Len(q) : q[i].seq # s
  BY <1>1 DEF OnLane, Lane
<1>3. PICK c \in [0 .. Len(q) -> Nat] :
          c[0] = 0 /\ c[Len(q)] = 0 /\ \A i \in 1 .. Len(q) : c[i] = 0 /\ c[i - 1] = 0
  <2> HIDE DEF q
  <2> DEFINE z == [i \in 0 .. Len(q) |-> 0]
  <2>1. /\ z \in [0 .. Len(q) -> Nat]
        /\ z[0] = 0 /\ z[Len(q)] = 0 /\ \A i \in 1 .. Len(q) : z[i] = 0 /\ z[i - 1] = 0
    BY <1>1
  <2> QED
    BY <2>1
<1>4. Fresh(s)' => Base(s)' = 0
  BY DEF Fresh, Base
<1>5. Counts(c, s)'
  BY <1>1, <1>2, <1>3, <1>4 DEF Counts, Lane
<1> QED
  BY <1>3, <1>5 DEF Numbered, Lane

\* A new request: its waiter, and for a read its sink, are there first.
LEMMA CallStep ==
    ASSUME IInv, NEW s \in Seqs, s = nextSeq, Call
    PROVE  IInv'
<1>0. Types /\ s \in Nat /\ \A r \in Seqs : ReqOK(r) /\ Numbered(r)
  BY DEF IInv, Seqs
<1>1. /\ nextSeq' = s + 1 /\ resp' = resp \cup {s}
      /\ sinks' = IF s \in Reads THEN sinks \cup {s} ELSE sinks
      /\ UNCHANGED <<answers, chan, out, writer, reader, lane, toHost, tasks, bulk, size, short>>
  BY DEF Call, net, guest
<1>2. Made(s, "send", req[s].head, req[s].got, req[s].res)
  BY <1>0, ReqSteps
<1>3. /\ req' \in [Seqs -> Reqs] /\ req'[s].pc = "send" /\ req'[s].head = req[s].head
      /\ req'[s].got = req[s].got /\ req'[s].res = req[s].res
      /\ \A r \in Seqs : r # s => req'[r] = req[r]
  <2>1. req[s].head \in Heads \cup {NoHead} /\ req[s].got \in Seq(Blocks) /\ req[s].res \in {"none", "ok", "error"}
    BY <1>0, ReqType
  <2> QED
    BY <1>0, <1>2, <2>1, MadeFacts
<1>4. Types'
  <2>1. nextSeq' \in Nat \ {0} /\ resp' \subseteq 1 .. nextSeq' - 1
    <3>1. resp \subseteq 1 .. s - 1 /\ s \in Nat \ {0}
      BY <1>0 DEF Types
    <3>2. nextSeq' - 1 = s
      BY <1>0, <1>1
    <3>3. \A i \in 1 .. s - 1 : i \in 1 .. s
      BY <1>0
    <3> QED
      BY <1>0, <1>1, <3>1, <3>2, <3>3
  <2>2. sinks' \subseteq Reads
    BY <1>0, <1>1 DEF Types
  <2> QED
    BY <1>0, <1>1, <1>3, <2>1, <2>2 DEF Types
<1>5. Onward
  BY <1>0, <1>1 DEF Onward, Types
<1>6. \A r \in Seqs, h \in Heads : Announced(r, h)' => Announced(r, h)
  BY <1>1, <1>3 DEF Announced
<1>7. ASSUME NEW r \in Seqs PROVE Stays(r)
  BY <1>1, <1>6 DEF Stays, HasTask, OnLane, InOut
<1>8. ASSUME NEW r \in Seqs, r # s PROVE ReqOK(r)' /\ Numbered(r)'
  <2>1. Quiet(r)
    BY <1>1, <1>3, <1>7, <1>8 DEF Quiet
  <2>2. r \in sinks' /\ req'[r].pc # "done" =>
           r \in sinks /\ req[r].pc # "done" /\ Base(r)' = Base(r)
    BY <2>1 DEF Quiet, Base
  <2> QED
    BY <1>0, <1>1, <1>5, <2>1, <2>2, QuietKeeps, NumberedKeeps
<1>9. Life(s) /\ Agreed(s) /\ Gapless(s) /\ Ended(s) /\ req[s].pc = "idle"
  BY <1>0 DEF ReqOK, Life
<1>10. Fresh(s) /\ ~InOut(s) /\ ~HasTask(s) /\ ~OnLane(s) /\ Answerless(s)
  BY <1>9 DEF Life
<1>11. Fresh(s)' /\ ~InOut(s)' /\ ~HasTask(s)' /\ ~OnLane(s)' /\ Answerless(s)'
  BY <1>0, <1>1, <1>3, <1>7, <1>10 DEF Fresh, Stays, Answerless
<1>12. ReqOK(s)'
  <2>1. Life(s)'
    BY <1>0, <1>1, <1>3, <1>11 DEF Life
  <2>2. Agreed(s)'
    BY <1>11 DEF Agreed, Answerless
  <2>3. Gapless(s)'
    BY <1>3, <1>11 DEF Gapless, Fresh
  <2>4. Ended(s)'
    BY <1>3, <1>9 DEF Ended
  <2>5. (s \in Reads => Sunk(s))'
    BY <1>1, <1>3, <1>11 DEF Sunk, Answerless
  <2> QED
    BY <2>1, <2>2, <2>3, <2>4, <2>5 DEF ReqOK
<1>13. Numbered(s)'
  <2>1. \A t \in tasks' : t.seq = s => t.sent = 0
    BY <1>11 DEF HasTask
  <2>2. (Types /\ ~OnLane(s) /\ (req[s].pc = "done" \/ Fresh(s)))'
    BY <1>4, <1>11
  <2> QED
    BY <1>0, <2>1, <2>2, NumberedFresh
<1>14. \A r \in Seqs : (req[r].pc = "done" \/ Fresh(r)) => (req[r].pc = "done" \/ Fresh(r))'
  BY <1>1, <1>3, <1>11 DEF Fresh
<1>15. \A r \in Seqs : ReqOK(r)' /\ Numbered(r)'
  BY <1>8, <1>12, <1>13
<1> QED
  BY <1>1, <1>4, <1>6, <1>14, <1>15, GuestIdle DEF Onward

\* The writer task ends; an answer is handed over; the file shrinks; the lane dies.
LEMMA QuietSteps ==
    ASSUME IInv, WriteFails \/ Receive \/ Shrink \/ LaneDies
    PROVE  IInv'
<1>0. Types
  BY DEF IInv
<1>1. /\ UNCHANGED <<req, nextSeq, sinks, chan, bulk, tasks, short>>
      /\ out' = out \/ out' = <<>>
      /\ lane' => lane
      /\ writer' \in BOOLEAN /\ reader' \in BOOLEAN /\ lane' \in BOOLEAN /\ size' \in Nat
  <2>1. CASE WriteFails
    BY <1>0, <2>1 DEF WriteFails, net, guest, Types
  <2>2. CASE Receive
    BY <1>0, <2>2 DEF Receive, guest, Types
  <2>3. CASE Shrink
    BY <1>0, <2>3 DEF Shrink, host, net, Types
  <2>4. CASE LaneDies
    BY <1>0, <2>4 DEF LaneDies, host, guest, Types
  <2> QED
    BY <2>1, <2>2, <2>3, <2>4
<1>2. CASE Receive
  <2> DEFINE a == Head(toHost)
  <2>1. /\ toHost \in Seq(Answer) /\ toHost # <<>> /\ toHost' = Tail(toHost)
        /\ \/ resp' = resp \ {a.seq} /\ answers' = answers \cup {a}
           \/ resp' = resp /\ answers' = answers
        /\ out' = out
    BY <1>0, <1>2 DEF Receive, Types
  <2>2. /\ Tail(toHost) \in Seq(Answer) /\ Len(toHost) \in Nat \ {0}
        /\ DOMAIN toHost = 1 .. Len(toHost) /\ DOMAIN Tail(toHost) = 1 .. Len(toHost) - 1
        /\ a = toHost[1] /\ a \in Answer
        /\ \A i \in 1 .. Len(toHost) - 1 : Tail(toHost)[i] = toHost[i + 1]
    BY <2>1, TailFacts
  <2> HIDE DEF a
  <2>3. Types'
    BY <1>0, <1>1, <2>1, <2>2 DEF Types
  <2>4. ASSUME NEW r \in Seqs, NEW h \in Heads, Announced(r, h)' PROVE Announced(r, h)
    <3>1. CASE \E i \in DOMAIN toHost' : toHost'[i].seq = r /\ toHost'[i].head = h
      <4>1. PICK i \in 1 .. Len(toHost) - 1 : Tail(toHost)[i].seq = r /\ Tail(toHost)[i].head = h
        BY <2>1, <2>2, <3>1
      <4>2. i + 1 \in DOMAIN toHost /\ toHost[i + 1].seq = r /\ toHost[i + 1].head = h
        BY <2>2, <4>1
      <4> QED
        BY <4>2 DEF Announced
    <3>2. CASE \E b \in answers' : b.seq = r /\ b.head = h
      <4>1. PICK b \in answers \cup {a} : b.seq = r /\ b.head = h
        BY <2>1, <3>2
      <4>2. 1 \in DOMAIN toHost
        BY <2>2
      <4> QED
        BY <2>2, <4>1, <4>2 DEF Announced
    <3> QED
      BY <1>1, <2>4, <3>1, <3>2 DEF Announced
  <2>5. ASSUME NEW r \in Seqs PROVE Quiet(r)
    BY <1>1, <2>1, <2>4 DEF Quiet, Stays, InOut, HasTask, OnLane
  <2>6. Onward
    BY <1>0, <1>1 DEF Onward, Types
  <2> QED
    BY <1>1, <2>3, <2>5, <2>6, AllQuiet
<1>3. CASE WriteFails \/ Shrink \/ LaneDies
  <2>1. UNCHANGED <<resp, answers, toHost>>
    BY <1>3 DEF WriteFails, Shrink, LaneDies, host, net, guest
  <2>2. out' \in Seq(Seqs)
    <3>1. out \in Seq(Seqs) /\ <<>> \in Seq(Seqs)
      BY <1>0 DEF Types
    <3> QED
      BY <1>1, <3>1
  <2>3. Types'
    BY <1>0, <1>1, <2>1, <2>2 DEF Types
  <2>4. ASSUME NEW r \in Seqs PROVE Quiet(r)
    BY <1>1, <2>1 DEF Quiet, Stays, InOut, HasTask, OnLane, Announced
  <2>5. Onward
    BY <1>0, <1>1 DEF Onward, Types
  <2> QED
    BY <1>1, <2>3, <2>4, <2>5, AllQuiet
<1> QED
  BY <1>2, <1>3

\* The lane is lost and the reader task ends: every waiter and sink goes.
LEMMA ReaderEndsStep ==
    ASSUME IInv, ReaderEnds
    PROVE  IInv'
<1>0. Types /\ \A r \in Seqs : ReqOK(r) /\ Numbered(r)
  BY DEF IInv
<1>1. /\ ~lane /\ reader' = FALSE /\ writer' = FALSE /\ out' = <<>> /\ resp' = {} /\ sinks' = {}
      /\ toHost' = <<>> /\ UNCHANGED <<req, nextSeq, answers, chan, lane, tasks, bulk, size, short>>
  BY DEF ReaderEnds, net, guest
<1>2. Types'
  <2>1. out' \in Seq(Seqs) /\ toHost' \in Seq(Answer)
    BY <1>1
  <2> QED
    BY <1>0, <1>1, <2>1 DEF Types
<1>3. \A r \in Seqs, h \in Heads : Announced(r, h)' => Announced(r, h)
  <2>1. DOMAIN toHost' = {}
    BY <1>1
  <2> QED
    BY <1>1, <2>1 DEF Announced
<1>4. ASSUME NEW r \in Seqs PROVE Stays(r) /\ Fresh(r)' = Fresh(r)
  BY <1>1, <1>3 DEF Stays, HasTask, OnLane, InOut, Fresh
<1>5. ASSUME NEW r \in Seqs PROVE ReqOK(r)'
  <2>0. Life(r) /\ Agreed(r) /\ Gapless(r) /\ Ended(r)
    BY <1>0 DEF ReqOK
  <2>1. Life(r)'
    BY <1>1, <1>4, <2>0 DEF Life, Stays, Answerless
  <2>2. Agreed(r)'
    BY <1>3, <2>0 DEF Agreed
  <2>3. Gapless(r)' /\ Ended(r)' /\ Sunk(r)'
    BY <1>1, <2>0 DEF Gapless, Ended, Sunk
  <2> QED
    BY <2>1, <2>2, <2>3 DEF ReqOK
<1>6. ASSUME NEW r \in Seqs PROVE Numbered(r)'
  BY <1>0, <1>1, NumberedKeeps
<1>7. \A r \in Seqs : (req[r].pc = "done" \/ Fresh(r)) => (req[r].pc = "done" \/ Fresh(r))'
  BY <1>1, <1>4
<1> QED
  BY <1>1, <1>2, <1>3, <1>5, <1>6, <1>7, GuestIdle

\* Concatenation with a sequence of one element, or of none.
LEMMA ConcatOne ==
    ASSUME NEW S, NEW q \in Seq(S), NEW x \in S
    PROVE  q \o <<x>> = Append(q, x) /\ q \o <<>> = q
OBVIOUS

\* Taking the first frame from a lane shifts the others.
LEMMA DeliverShift ==
    ASSUME Types, NEW l \in BulkLane, bulk[l] # <<>>, bulk' = [bulk EXCEPT ![l] = Tail(@)]
    PROVE  /\ bulk' \in [BulkLane -> Seq(Frames)]
           /\ \A k \in BulkLane : k # l => bulk'[k] = bulk[k]
           /\ Len(bulk[l]) \in Nat \ {0} /\ Len(bulk'[l]) = Len(bulk[l]) - 1
           /\ DOMAIN bulk[l] = 1 .. Len(bulk[l]) /\ DOMAIN bulk'[l] = 1 .. Len(bulk[l]) - 1
           /\ Head(bulk[l]) = bulk[l][1] /\ bulk[l][1] \in Frames
           /\ \A i \in 1 .. Len(bulk[l]) - 1 : bulk'[l][i] = bulk[l][i + 1]
<1>1. bulk[l] \in Seq(Frames) /\ bulk \in [BulkLane -> Seq(Frames)]
  BY DEF Types
<1>2. /\ Tail(bulk[l]) \in Seq(Frames) /\ Len(bulk[l]) \in Nat \ {0}
      /\ Len(Tail(bulk[l])) = Len(bulk[l]) - 1
      /\ DOMAIN bulk[l] = 1 .. Len(bulk[l]) /\ DOMAIN Tail(bulk[l]) = 1 .. Len(bulk[l]) - 1
      /\ Head(bulk[l]) = bulk[l][1] /\ bulk[l][1] \in Frames
      /\ \A i \in 1 .. Len(bulk[l]) - 1 : Tail(bulk[l])[i] = bulk[l][i + 1]
  BY <1>1, TailFacts
<1>3. /\ bulk' \in [BulkLane -> Seq(Frames)] /\ bulk'[l] = Tail(bulk[l])
      /\ \A k \in BulkLane : k # l => bulk'[k] = bulk[k]
  BY <1>1, <1>2
<1> QED
  BY <1>2, <1>3

\* The counting of a request's frames after the first frame of a lane is taken.
LEMMA DeliverNumbered ==
    ASSUME Types, NEW l \in BulkLane, bulk[l] # <<>>, bulk' = [bulk EXCEPT ![l] = Tail(@)],
           tasks' = tasks, NEW r \in Seqs, Lane(r) = l,
           NEW c \in [0 .. Len(bulk[l]) -> Nat], Counts(c, r),
           r \in sinks' /\ req'[r].pc # "done" => Base(r)' = c[1]
    PROVE  Numbered(r)'
<1> DEFINE n == Len(bulk[l])
           e == [i \in 0 .. n - 1 |-> c[i + 1]]
<1>1. /\ n \in Nat \ {0} /\ Len(bulk'[l]) = n - 1
      /\ \A i \in 1 .. n - 1 : bulk'[l][i] = bulk[l][i + 1]
  BY DeliverShift
<1>2. \A i \in 0 .. n - 1 : i + 1 \in 0 .. n /\ e[i] = c[i + 1]
  BY <1>1
<1>3. e \in [0 .. n - 1 -> Nat]
  BY <1>2
<1>4. e[0] = c[1] /\ e[n - 1] = c[n]
  BY <1>1, <1>2
<1>5. \A i \in 1 .. n :
          /\ c[i] = IF bulk[l][i].seq = r THEN c[i - 1] + 1 ELSE c[i - 1]
          /\ bulk[l][i].seq = r /\ bulk[l][i].data # <<>> => bulk[l][i].data = <<<<r, c[i]>>>>
  BY DEF Counts
<1>6. \A t \in tasks' : t.seq = r => t.sent = e[n - 1]
  BY <1>4 DEF Counts
<1>7. ASSUME NEW i \in 1 .. n - 1
      PROVE  /\ e[i] = IF bulk'[l][i].seq = r THEN e[i - 1] + 1 ELSE e[i - 1]
             /\ bulk'[l][i].seq = r /\ bulk'[l][i].data # <<>> => bulk'[l][i].data = <<<<r, e[i]>>>>
  <2>1. i + 1 \in 1 .. n /\ i \in 0 .. n - 1 /\ i - 1 \in 0 .. n - 1 /\ (i + 1) - 1 = i /\ (i - 1) + 1 = i
    BY <1>1
  <2>2. e[i] = c[i + 1] /\ e[i - 1] = c[i]
    BY <1>2, <2>1
  <2>3. c[i + 1] = IF bulk[l][i + 1].seq = r THEN c[i] + 1 ELSE c[i]
    BY <1>5, <2>1
  <2>4. bulk[l][i + 1].seq = r /\ bulk[l][i + 1].data # <<>> => bulk[l][i + 1].data = <<<<r, c[i + 1]>>>>
    BY <1>5, <2>1
  <2>5. bulk'[l][i] = bulk[l][i + 1]
    BY <1>1
  <2> HIDE DEF e
  <2> QED
    BY <2>2, <2>3, <2>4, <2>5
<1>8. PICK d \in [0 .. Len(bulk'[l]) -> Nat] :
        /\ d[0] = c[1]
        /\ \A i \in 1 .. Len(bulk'[l]) :
              /\ d[i] = IF bulk'[l][i].seq = r THEN d[i - 1] + 1 ELSE d[i - 1]
              /\ bulk'[l][i].seq = r /\ bulk'[l][i].data # <<>> => bulk'[l][i].data = <<<<r, d[i]>>>>
        /\ \A t \in tasks' : t.seq = r => t.sent = d[Len(bulk'[l])]
  <2> HIDE DEF e, n
  <2> QED
    BY <1>1, <1>3, <1>4, <1>6, <1>7
<1>9. Counts(d, r)'
  BY <1>8 DEF Counts, Lane
<1> QED
  BY <1>8, <1>9 DEF Numbered, Lane

\* deliver_chunk: a frame goes to its sink, the last one takes the sink away.
LEMMA DeliverStep ==
    ASSUME IInv, NEW l \in BulkLane, Deliver(l)
    PROVE  IInv'
<1>0. /\ Types /\ Single /\ TasksOK /\ LanesOK
      /\ \A r \in Seqs : ReqOK(r) /\ Numbered(r)
  BY DEF IInv
<1>1. /\ bulk[l] # <<>> /\ bulk' = [bulk EXCEPT ![l] = Tail(@)]
      /\ UNCHANGED <<req, nextSeq, resp, answers, out, writer, reader, lane, toHost, tasks, size, short>>
  BY DEF Deliver, net
<1>2. /\ bulk' \in [BulkLane -> Seq(Frames)]
      /\ \A k \in BulkLane : k # l => bulk'[k] = bulk[k]
      /\ Len(bulk[l]) \in Nat \ {0} /\ Len(bulk'[l]) = Len(bulk[l]) - 1
      /\ DOMAIN bulk[l] = 1 .. Len(bulk[l]) /\ DOMAIN bulk'[l] = 1 .. Len(bulk[l]) - 1
      /\ Head(bulk[l]) = bulk[l][1] /\ bulk[l][1] \in Frames
      /\ \A i \in 1 .. Len(bulk[l]) - 1 : bulk'[l][i] = bulk[l][i + 1]
  BY <1>0, <1>1, DeliverShift
<1>3. PICK f \in Frames : f = bulk[l][1]
  BY <1>2
<1>4. PICK s \in Seqs : s = f.seq
  BY DEF Frames
<1>5. /\ f.more \in BOOLEAN /\ f.data \in Seq(Blocks)
  BY DEF Frames
<1>6. 1 \in DOMAIN bulk[l] /\ FrameOK(l, 1)
  BY <1>0, <1>2 DEF LanesOK
<1>7. /\ s \in Reads /\ Lane(s) = l /\ OnLane(s)
      /\ f.data = <<>> => ~f.more /\ s \in short
      /\ ~f.more => ~HasTask(s)
      /\ f.data # <<>> => \A h \in Heads : Announced(s, h) =>
            IF f.more THEN f.data[1][2] < h.len ELSE f.data[1][2] = h.len
  BY <1>3, <1>4, <1>6 DEF FrameOK, OnLane
<1>8. IF s \in sinks
      THEN /\ chan' = IF req[s].pc = "done" THEN chan ELSE [chan EXCEPT ![s] = @ \o f.data]
           /\ sinks' = IF f.more THEN sinks ELSE sinks \ {s}
      ELSE chan' = chan /\ sinks' = sinks
  BY <1>2, <1>3, <1>4 DEF Deliver
<1>9. chan \in [Seqs -> Seq(Blocks)] /\ chan[s] \in Seq(Blocks) /\ chan[s] \o f.data \in Seq(Blocks)
  BY <1>0, <1>5 DEF Types
<1>10. /\ chan' \in [Seqs -> Seq(Blocks)]
       /\ \A r \in Seqs : r # s => chan'[r] = chan[r] /\ (r \in sinks' <=> r \in sinks)
       /\ chan'[s] = IF s \in sinks /\ req[s].pc # "done" THEN chan[s] \o f.data ELSE chan[s]
       /\ s \in sinks' <=> s \in sinks /\ f.more
       /\ sinks' \subseteq sinks
  BY <1>5, <1>8, <1>9
<1>11. Types'
  BY <1>0, <1>1, <1>2, <1>10 DEF Types
<1>12. Onward
  BY <1>0, <1>1 DEF Onward, Types
<1>13. \A r \in Seqs, h \in Heads : Announced(r, h)' <=> Announced(r, h)
  BY <1>1 DEF Announced
<1>14. ASSUME NEW r \in Seqs, OnLane(r)' PROVE OnLane(r)
  <2>1. Lane(r) \in BulkLane
    BY LaneType
  <2>2. PICK i \in DOMAIN bulk'[Lane(r)] : bulk'[Lane(r)][i].seq = r
    BY <1>14 DEF OnLane, Lane
  <2>3. CASE Lane(r) = l
    <3>1. i + 1 \in DOMAIN bulk[l] /\ bulk[l][i + 1].seq = r
      BY <1>2, <2>2, <2>3
    <3> QED
      BY <2>3, <3>1 DEF OnLane
  <2>4. CASE Lane(r) # l
    BY <1>2, <2>1, <2>2, <2>4 DEF OnLane
  <2> QED
    BY <2>3, <2>4
<1>15. ASSUME NEW r \in Seqs PROVE Stays(r)
  BY <1>1, <1>13, <1>14 DEF Stays, HasTask, InOut
<1>16. ASSUME NEW r \in Seqs, r # s PROVE ReqOK(r)'
  <2>1. Quiet(r)
    BY <1>1, <1>10, <1>15, <1>16 DEF Quiet
  <2> QED
    BY <1>0, <1>12, <2>1, QuietKeeps
<1>17. PICK c \in [0 .. Len(bulk[l]) -> Nat] : Counts(c, s)
  BY <1>0, <1>7 DEF Numbered
<1>18. c[1] = c[0] + 1 /\ (f.data # <<>> => f.data = <<<<s, c[1]>>>>) /\ c[0] \in Nat /\ c[1] \in Nat
  <2>1. 1 \in 1 .. Len(bulk[l]) /\ 1 - 1 = 0 /\ 0 \in 0 .. Len(bulk[l]) /\ 1 \in 0 .. Len(bulk[l])
    BY <1>2
  <2> QED
    BY <1>3, <1>4, <1>7, <1>17, <2>1 DEF Counts
<1>19. f.data # <<>> => f.data[1][2] = c[1]
  BY <1>18
\* What the sink's channel has after the frame.
<1>20. ASSUME s \in sinks, req[s].pc # "done", f.data # <<>>
       PROVE  /\ c[0] = Base(s) /\ Base(s)' = c[1]
              /\ Len(chan'[s]) = Len(chan[s]) + 1 /\ DOMAIN chan[s] = 1 .. Len(chan[s])
              /\ DOMAIN chan'[s] = 1 .. Len(chan[s]) + 1
              /\ chan'[s][Len(chan[s]) + 1] = <<s, c[1]>>
              /\ \A i \in 1 .. Len(chan[s]) : chan'[s][i] = chan[s][i]
  <2> DEFINE x == <<s, c[1]>>
  <2>1. c[0] = Base(s)
    BY <1>17, <1>20 DEF Counts
  <2>2. f.data = <<x>> /\ x \in Blocks
    BY <1>18, <1>20 DEF Blocks
  <2> HIDE DEF x
  <2>3. chan'[s] = Append(chan[s], x)
    BY <1>9, <1>10, <1>20, <2>2, ConcatOne
  <2>4. /\ Len(chan[s]) \in Nat /\ Len(chan'[s]) = Len(chan[s]) + 1 /\ DOMAIN chan[s] = 1 .. Len(chan[s])
        /\ DOMAIN chan'[s] = 1 .. Len(chan[s]) + 1 /\ chan'[s][Len(chan[s]) + 1] = x
        /\ \A i \in 1 .. Len(chan[s]) : chan'[s][i] = chan[s][i]
    BY <1>9, <2>2, <2>3, AppendFacts
  <2>5. Len(req[s].got) \in Nat
    BY <1>0, ReqType
  <2>6. Base(s)' = Base(s) + 1
    <3>1. \A a, b \in Nat : a + (b + 1) = (a + b) + 1
      OBVIOUS
    <3> QED
      BY <1>1, <2>4, <2>5, <3>1 DEF Base
  <2> QED
    BY <1>18, <2>1, <2>4, <2>6 DEF x
<1>21. ReqOK(s)'
  <2>0. Life(s) /\ Agreed(s) /\ Gapless(s) /\ Ended(s) /\ Sunk(s)
    BY <1>0, <1>7 DEF ReqOK
  <2>1. req[s].pc \notin {"idle", "send"} /\ ~InOut(s)
    BY <1>7, <2>0 DEF Life
  <2>2. Life(s)'
    BY <1>1, <1>15, <2>0, <2>1 DEF Life, Stays
  <2>3. Agreed(s)'
    BY <1>13, <2>0 DEF Agreed
  <2>4. Ended(s)'
    BY <1>1, <1>10, <2>0 DEF Ended
  <2>5. Gapless(s)'
    <3>1. CASE s \in sinks /\ req[s].pc # "done" /\ f.data # <<>>
      <4>1. c[1] = Len(req[s].got) + (Len(chan[s]) + 1)
        <5>1. Len(req[s].got) \in Nat /\ Len(chan[s]) \in Nat
          BY <1>0, ReqType
        <5>2. \A a, b \in Nat : (a + b) + 1 = a + (b + 1)
          OBVIOUS
        <5> QED
          BY <1>18, <1>20, <3>1, <5>1, <5>2 DEF Base
      <4>2. ASSUME NEW i \in DOMAIN chan'[s] PROVE chan'[s][i] = <<s, Len(req[s].got) + i>>
        <5>1. i \in 1 .. Len(chan[s]) \/ i = Len(chan[s]) + 1
          BY <1>0, <1>20, <3>1, ReqType
        <5>2. \A j \in 1 .. Len(chan[s]) : chan[s][j] = <<s, Len(req[s].got) + j>>
          BY <1>20, <2>0, <3>1 DEF Gapless
        <5> QED
          BY <1>20, <3>1, <4>1, <5>1, <5>2
      <4> QED
        BY <1>1, <2>0, <4>2 DEF Gapless
    <3>2. CASE ~ (s \in sinks /\ req[s].pc # "done" /\ f.data # <<>>)
      <4>1. chan'[s] = chan[s]
        BY <1>9, <1>10, <3>2, ConcatOne
      <4> QED
        BY <1>1, <2>0, <4>1 DEF Gapless
    <3> QED
      BY <3>1, <3>2
  <2>6. Sunk(s)'
    <3>1. ASSUME s \in sinks', req'[s].pc # "done", NEW h \in Heads, Announced(s, h)', h.len > 0
          PROVE  Base(s)' < h.len
      <4>1. s \in sinks /\ f.more /\ f.data # <<>> /\ Announced(s, h)
        BY <1>7, <1>10, <1>13, <3>1
      <4>2. f.data[1][2] < h.len
        BY <1>7, <4>1
      <4> QED
        BY <1>1, <1>19, <1>20, <3>1, <4>1, <4>2
    <3>2. s \notin sinks' /\ req'[s].pc = "send" => ~lane'
      BY <1>1, <2>1
    <3>3. ASSUME s \notin sinks', req'[s].pc \in {"wait", "body"}, lane'
          PROVE  /\ ~HasTask(s)' /\ ~InOut(s)'
                 /\ s \in short' \/ \A h \in Heads : Announced(s, h)' => Base(s)' = h.len
      <4>1. CASE s \in sinks
        <5>1. ~f.more /\ ~HasTask(s)
          BY <1>7, <1>10, <3>3, <4>1
        <5>2. ~HasTask(s)' /\ ~InOut(s)'
          BY <1>15, <2>1, <5>1 DEF Stays
        <5>3. ASSUME f.data # <<>>, NEW h \in Heads, Announced(s, h)' PROVE Base(s)' = h.len
          BY <1>1, <1>7, <1>13, <1>19, <1>20, <3>3, <4>1, <5>1, <5>3
        <5> QED
          BY <1>1, <1>7, <5>2, <5>3
      <4>2. CASE s \notin sinks
        <5>1. chan'[s] = chan[s] /\ req' = req /\ lane' = lane /\ short' = short
          BY <1>1, <1>10, <4>2
        <5>2. Base(s)' = Base(s)
          BY <5>1 DEF Base
        <5> QED
          BY <1>13, <1>15, <2>0, <3>3, <4>2, <5>1, <5>2 DEF Sunk, Stays
      <4> QED
        BY <4>1, <4>2
    <3> QED
      BY <3>1, <3>2, <3>3 DEF Sunk
  <2> QED
    BY <2>2, <2>3, <2>4, <2>5, <2>6 DEF ReqOK
<1>22. ASSUME NEW r \in Seqs PROVE Numbered(r)'
  <2>0. Lane(r) \in BulkLane
    BY LaneType
  <2>1. CASE r = s
    <3>1. s \in sinks' /\ req'[s].pc # "done" => Base(s)' = c[1]
      BY <1>1, <1>7, <1>10, <1>20
    <3> QED
      BY <1>0, <1>1, <1>7, <1>17, <2>1, <3>1, DeliverNumbered
  <2>2. CASE r # s /\ Lane(r) = l
    <3>1. PICK e \in [0 .. Len(bulk[l]) -> Nat] : Counts(e, r)
      BY <1>0, <2>2 DEF Numbered
    <3>2. e[1] = e[0]
      <4>1. 1 \in 1 .. Len(bulk[l]) /\ 1 - 1 = 0
        BY <1>2
      <4> QED
        BY <1>3, <1>4, <2>2, <3>1, <4>1 DEF Counts
    <3>3. Base(r)' = Base(r)
      BY <1>1, <1>10, <2>2 DEF Base
    <3>4. r \in sinks' /\ req'[r].pc # "done" => Base(r)' = e[1]
      BY <1>1, <1>10, <2>2, <3>1, <3>2, <3>3 DEF Counts
    <3> QED
      BY <1>0, <1>1, <2>2, <3>1, <3>4, DeliverNumbered
  <2>3. CASE Lane(r) # l
    <3>1. PICK e \in [0 .. Len(bulk[Lane(r)]) -> Nat] : Counts(e, r)
      BY <1>0 DEF Numbered
    <3>2. r # s /\ bulk'[Lane(r)] = bulk[Lane(r)]
      BY <1>2, <1>7, <2>0, <2>3
    <3>3. Base(r)' = Base(r)
      BY <1>1, <1>10, <3>2 DEF Base
    <3>4. Counts(e, r)'
      BY <1>1, <1>10, <3>1, <3>2, <3>3, ZenonT(60) DEF Counts, Lane
    <3> QED
      BY <3>1, <3>2, <3>4 DEF Numbered, Lane
  <2> QED
    BY <2>1, <2>2, <2>3
<1>23. TasksOK'
  <2> SUFFICES ASSUME NEW t \in tasks PROVE TaskLife(t)'
    BY <1>1 DEF TasksOK
  <2>1. t.seq \in Seqs /\ TaskLife(t)
    BY <1>0 DEF Types, Tasks, TasksOK
  <2>2. t.pc # "stream" => t.seq # s
    BY <1>7, <2>1 DEF TaskLife
  <2>3. t.pc # "stream" => (req[t.seq].pc = "done" \/ Fresh(t.seq))' /\ ~OnLane(t.seq)'
    BY <1>1, <1>10, <1>14, <2>1, <2>2 DEF TaskLife, Fresh
  <2> QED
    BY <1>13, <2>1, <2>3 DEF TaskLife, Answerless
<1>24. LanesOK'
  <2>0. \A r : HasTask(r)' <=> HasTask(r)
    BY <1>1 DEF HasTask
  <2>1. ASSUME NEW i \in DOMAIN bulk'[l] PROVE FrameOK(l, i)'
    <3>1. /\ i \in 1 .. Len(bulk[l]) - 1 /\ i + 1 \in DOMAIN bulk[l] /\ bulk'[l][i] = bulk[l][i + 1]
          /\ bulk[l][i + 1].seq \in Seqs
      <4>1. i \in 1 .. Len(bulk[l]) - 1 /\ i + 1 \in DOMAIN bulk[l] /\ bulk'[l][i] = bulk[l][i + 1]
        BY <1>2
      <4>2. bulk[l][i + 1] \in Frames
        BY <1>0, <4>1, FrameType
      <4> QED
        BY <4>1, <4>2 DEF Frames
    <3>2. FrameOK(l, i + 1)
      BY <1>0, <3>1 DEF LanesOK
    <3>3. ASSUME \A j \in DOMAIN bulk[l] : j > i + 1 => bulk[l][j].seq # bulk[l][i + 1].seq,
                 NEW j \in DOMAIN bulk'[l], j > i
          PROVE  bulk'[l][j].seq # bulk'[l][i].seq
      <4>1. j + 1 \in DOMAIN bulk[l] /\ j + 1 > i + 1 /\ bulk'[l][j] = bulk[l][j + 1]
        BY <1>2, <3>1, <3>3
      <4> QED
        BY <3>1, <3>3, <4>1
    <3> QED
      BY <1>1, <1>13, <2>0, <3>1, <3>2, <3>3 DEF FrameOK
  <2>2. ASSUME NEW k \in BulkLane, k # l, NEW i \in DOMAIN bulk'[k] PROVE FrameOK(k, i)'
    <3>1. bulk'[k] = bulk[k] /\ bulk[k][i].seq \in Seqs
      BY <1>0, <1>2, <2>2, FrameType DEF Frames
    <3>2. FrameOK(k, i)
      BY <1>0, <2>2, <3>1 DEF LanesOK
    <3> QED
      <4>1. short' = short
        BY <1>1
      <4>2. PICK r \in Seqs : r = bulk[k][i].seq
        BY <3>1
      <4>3. bulk'[k][i] = bulk[k][i] /\ bulk'[k][i].seq = r
        BY <3>1, <4>2
      <4>4. \A h \in Heads : Announced(r, h)' <=> Announced(r, h)
        BY <1>13
      <4> QED
        BY <2>0, <3>1, <3>2, <4>1, <4>2, <4>3, <4>4 DEF FrameOK
  <2> QED
    BY <2>1, <2>2 DEF LanesOK
<1>25. Single'
  BY <1>0, <1>1 DEF Single
<1> QED
  BY <1>11, <1>16, <1>21, <1>22, <1>23, <1>24, <1>25 DEF IInv

-----------------------------------------------------------------------------
(***************************************************************************)
(* The steps of the guest.                                                 *)
(***************************************************************************)
\* A task is replaced by what it becomes, or by nothing.
LEMMA SwapTask ==
    ASSUME NEW T, IsFiniteSet(T), NEW t \in T, NEW U, U = {} \/ \E u : U = {u}
    PROVE  /\ IsFiniteSet((T \ {t}) \cup U)
           /\ Cardinality((T \ {t}) \cup U) <= Cardinality(T)
           /\ Cardinality((T \ {t}) \cup U) \in Nat /\ Cardinality(T) \in Nat
<1>1. /\ IsFiniteSet(T \ {t}) /\ Cardinality(T \ {t}) = Cardinality(T) - 1
      /\ Cardinality(T) \in Nat /\ Cardinality(T \ {t}) \in Nat
  BY FS_RemoveElement, FS_CardinalityType
<1>2. CASE U = {}
  <2>1. (T \ {t}) \cup U = T \ {t}
    BY <1>2
  <2> QED
    BY <1>1, <2>1
<1>3. CASE \E u : U = {u}
  <2>1. PICK u : U = {u}
    BY <1>3
  <2>2. /\ IsFiniteSet((T \ {t}) \cup {u})
        /\ \/ Cardinality((T \ {t}) \cup {u}) = Cardinality(T \ {t}) + 1
           \/ Cardinality((T \ {t}) \cup {u}) = Cardinality(T \ {t})
    BY <1>1, FS_AddElement
  <2> QED
    BY <1>1, <2>1, <2>2
<1> QED
  BY <1>2, <1>3

\* A step of the guest that is about no request at the host, and after which
\* every request still is where it was.
LEMMA GuestRequestStep ==
    ASSUME IInv, Types', NEW s \in Seqs,
           UNCHANGED <<req, nextSeq, sinks, chan, bulk, short>>, lane' => lane,
           \A r \in Seqs : r # s => Quiet(r),
           ReqOK(s)', Numbered(s)', Single', TasksOK',
           \A r \in Seqs : OnLane(r) => Stays(r),
           \A t \in tasks' : t.seq # s => t \in tasks
    PROVE  IInv'
<1>0. /\ Types /\ LanesOK /\ \A r \in Seqs : ReqOK(r) /\ Numbered(r)
  BY DEF IInv
<1>1. Onward
  BY <1>0 DEF Onward, Types
<1>2. ASSUME NEW r \in Seqs, r # s PROVE ReqOK(r)' /\ Numbered(r)'
  <2>1. Quiet(r) /\ \A t \in tasks' : t.seq = r => \E u \in tasks : u.seq = r /\ u.sent = t.sent
    BY <1>2
  <2>2. Base(r)' = Base(r)
    BY DEF Base
  <2> QED
    BY <1>0, <1>1, <2>1, <2>2, QuietKeeps, NumberedTasks
<1>3. LanesOK'
  <2> SUFFICES ASSUME NEW l \in BulkLane, NEW i \in DOMAIN bulk[l] PROVE FrameOK(l, i)'
    BY DEF LanesOK
  <2>1. PICK r \in Seqs : r = bulk[l][i].seq
    BY <1>0, FrameType DEF Frames
  <2>2. FrameOK(l, i)
    BY <1>0 DEF LanesOK
  <2>3. OnLane(r)
    BY <2>1, <2>2 DEF FrameOK, OnLane
  <2>4. bulk'[l][i].seq = r /\ Stays(r)
    BY <2>1, <2>3
  <2> QED
    BY <2>1, <2>2, <2>4 DEF FrameOK, Stays
<1> QED
  BY <1>2, <1>3 DEF IInv

\* rpc_loop takes a permit for the next request and dispatches it.
LEMMA DispatchStep ==
    ASSUME IInv, Dispatch
    PROVE  IInv'
<1>0. Types /\ Single /\ TasksOK /\ \A r \in Seqs : ReqOK(r)
  BY DEF IInv
<1>1. /\ lane /\ out # <<>> /\ Cardinality(tasks) < Permits /\ out' = Tail(out)
      /\ UNCHANGED <<req, nextSeq, resp, answers, sinks, chan, writer, reader, lane, toHost,
                     bulk, size, short>>
  BY DEF Dispatch, net
<1>2. /\ Tail(out) \in Seq(Seqs) /\ Len(out) \in Nat \ {0} /\ Len(Tail(out)) = Len(out) - 1
      /\ DOMAIN out = 1 .. Len(out) /\ DOMAIN Tail(out) = 1 .. Len(out) - 1
      /\ Head(out) = out[1] /\ out[1] \in Seqs
      /\ \A i \in 1 .. Len(out) - 1 : Tail(out)[i] = out[i + 1]
  <2>1. out \in Seq(Seqs)
    BY <1>0 DEF Types
  <2> QED
    BY <1>1, <2>1, TailFacts
<1>3. PICK s \in Seqs : s = out[1]
  BY <1>2
<1> DEFINE u == [seq |-> s, pc |-> "run", head |-> NoHead, sent |-> 0]
<1>4. tasks' = tasks \cup {u}
  BY <1>2, <1>3 DEF Dispatch
<1>5. u \in Tasks /\ u.seq = s /\ u.pc = "run" /\ u.sent = 0
  BY DEF Tasks
<1> HIDE DEF u
<1>6. InOut(s)
  BY <1>2, <1>3 DEF InOut
<1>7. (req[s].pc = "done" \/ Fresh(s)) /\ ~HasTask(s) /\ ~OnLane(s) /\ Answerless(s)
  BY <1>0, <1>6 DEF ReqOK, Life
<1>8. u \notin tasks
  BY <1>5, <1>7 DEF HasTask
<1>9. /\ IsFiniteSet(tasks') /\ Cardinality(tasks') <= Permits
  <2>1. IsFiniteSet(tasks) /\ Cardinality(tasks) \in Nat
    BY <1>0, FS_CardinalityType DEF Types
  <2>2. IsFiniteSet(tasks') /\ Cardinality(tasks') = Cardinality(tasks) + 1
    BY <1>4, <1>8, <2>1, FS_AddElement
  <2> QED
    BY <1>1, <2>1, <2>2, RpcAssumption
<1>10. Types'
  BY <1>0, <1>1, <1>2, <1>4, <1>5, <1>9 DEF Types
<1>11. \A i, j \in DOMAIN out' : out'[i] = out'[j] => i = j
  <2> SUFFICES ASSUME NEW i \in DOMAIN out', NEW j \in DOMAIN out', out'[i] = out'[j] PROVE i = j
    OBVIOUS
  <2>1. i + 1 \in DOMAIN out /\ j + 1 \in DOMAIN out /\ out[i + 1] = out[j + 1] /\ i \in Int /\ j \in Int
    BY <1>1, <1>2
  <2>2. i + 1 = j + 1
    BY <1>0, <2>1 DEF Single
  <2> QED
    BY <2>1, <2>2
<1>12. Single'
  <2>1. Len(out') <= OutCap
    BY <1>0, <1>1, <1>2, RpcAssumption DEF Single
  <2>2. \A t, v \in tasks' : t.seq = v.seq => t = v
    BY <1>0, <1>4, <1>5, <1>7 DEF Single, HasTask
  <2> QED
    BY <1>9, <1>11, <2>1, <2>2 DEF Single
<1>13. ASSUME NEW r \in Seqs PROVE \A h \in Heads : Announced(r, h)' => Announced(r, h)
  BY <1>1, <1>4, <1>5 DEF Announced
<1>14. ASSUME NEW r \in Seqs PROVE InOut(r)' => InOut(r) /\ r # s
  <2> SUFFICES ASSUME NEW i \in DOMAIN out', out'[i] = r PROVE InOut(r) /\ r # s
    BY DEF InOut
  <2>1. i + 1 \in DOMAIN out /\ out[i + 1] = r /\ i + 1 # 1 /\ 1 \in DOMAIN out
    BY <1>1, <1>2
  <2> QED
    BY <1>0, <1>3, <2>1 DEF InOut, Single
<1>15. ASSUME NEW r \in Seqs, r # s PROVE Stays(r)
  BY <1>1, <1>4, <1>5, <1>13, <1>14, <1>15 DEF Stays, HasTask, OnLane
<1>16. ASSUME NEW r \in Seqs, r # s PROVE Quiet(r)
  BY <1>1, <1>15, <1>16 DEF Quiet
<1>17. \A r \in Seqs : OnLane(r) => Stays(r)
  BY <1>7, <1>15
<1>18. ReqOK(s)'
  <2>0. Life(s) /\ Agreed(s) /\ Gapless(s) /\ Ended(s) /\ (s \in Reads => Sunk(s))
    BY <1>0 DEF ReqOK
  <2>1. req[s].pc \notin {"idle", "send"}
    BY <1>6, <2>0 DEF Life
  <2>2. Life(s)'
    BY <1>1, <1>14, <2>0, <2>1 DEF Life
  <2>3. Agreed(s)'
    BY <1>13, <2>0 DEF Agreed
  <2>4. Gapless(s)' /\ Ended(s)'
    BY <1>1, <2>0 DEF Gapless, Ended
  <2>5. ASSUME s \in Reads PROVE Sunk(s)'
    BY <1>1, <1>6, <1>7, <1>13, <2>0, <2>1, <2>5 DEF Sunk, Answerless
  <2> QED
    BY <2>2, <2>3, <2>4, <2>5 DEF ReqOK
<1>19. /\ ~OnLane(s)' /\ (req[s].pc = "done" \/ Fresh(s))'
       /\ \A t \in tasks' : t.seq = s => t.sent = 0
  BY <1>1, <1>4, <1>5, <1>7 DEF OnLane, Fresh, HasTask
<1>20. Numbered(s)'
  BY <1>10, <1>19, NumberedFresh
<1>21. TasksOK'
  <2>1. ASSUME NEW t \in tasks PROVE TaskLife(t)'
    <3>1. t.seq \in Seqs /\ TaskLife(t)
      BY <1>0 DEF Types, Tasks, TasksOK
    <3>2. OnLane(t.seq)' <=> OnLane(t.seq)
      BY <1>1 DEF OnLane
    <3> QED
      BY <1>1, <1>13, <3>1, <3>2 DEF TaskLife, Answerless, Fresh
  <2>2. Answerless(s)'
    BY <1>7, <1>13 DEF Answerless
  <2>3. TaskLife(u)'
    <3>1. PICK v \in Tasks : v = u
      BY <1>5
    <3>2. v.seq = s /\ v.pc = "run" /\ v.sent = 0
      BY <1>5, <3>1
    <3>3. TaskLife(v)'
      BY <1>19, <2>2, <3>2 DEF TaskLife
    <3> QED
      BY <3>1, <3>3 DEF u
  <2> QED
    BY <1>4, <2>1, <2>3 DEF TasksOK, u
<1>22. \A t \in tasks' : t.seq # s => t \in tasks
  BY <1>4, <1>5
<1> QED
  BY <1>1, <1>10, <1>12, <1>16, <1>17, <1>18, <1>20, <1>21, <1>22, GuestRequestStep

\* A task is the record of its fields, and so is what its steps make of it.
LEMMA TaskRecord ==
    ASSUME NEW t \in Tasks, NEW pc, NEW n
    PROVE  /\ [t EXCEPT !.pc = pc] = [seq |-> t.seq, pc |-> pc, head |-> t.head, sent |-> t.sent]
           /\ [t EXCEPT !.sent = n] = [seq |-> t.seq, pc |-> t.pc, head |-> t.head, sent |-> n]
<1>1. \E a, b, c, d : t = [seq |-> a, pc |-> b, head |-> c, sent |-> d]
  BY DEF Tasks
<1>2. PICK a, b, c, d : t = [seq |-> a, pc |-> b, head |-> c, sent |-> d]
  BY <1>1
<1>3. t.seq = a /\ t.pc = b /\ t.head = c /\ t.sent = d
  BY <1>2
<1>4. /\ [t EXCEPT !.pc = pc] = [seq |-> a, pc |-> pc, head |-> c, sent |-> d]
      /\ [t EXCEPT !.sent = n] = [seq |-> a, pc |-> b, head |-> c, sent |-> n]
  BY <1>2
<1> QED
  BY <1>3, <1>4

\* What a task becomes has the request of the task, and no other task has.
LEMMA TaskSwapped ==
    ASSUME IInv, NEW t \in tasks, NEW U, U = {} \/ \E v \in Tasks : U = {v},
           \A v \in U : v.seq = t.seq, tasks' = (tasks \ {t}) \cup U, out' = out
    PROVE  /\ tasks' \subseteq Tasks /\ IsFiniteSet(tasks') /\ Single'
           /\ \A v \in tasks' : v.seq # t.seq => v \in tasks
           /\ \A v \in tasks' : v.seq = t.seq => v \in U
           /\ \A v \in tasks : v.seq # t.seq => v \in tasks'
<1>0. tasks \subseteq Tasks /\ IsFiniteSet(tasks) /\ Single
  BY DEF IInv, Types
<1>1. \A v \in tasks : v.seq = t.seq => v = t
  BY <1>0 DEF Single
<1>2. /\ IsFiniteSet(tasks') /\ Cardinality(tasks') <= Cardinality(tasks)
      /\ Cardinality(tasks') \in Nat /\ Cardinality(tasks) \in Nat
  BY <1>0, SwapTask
<1>3. \A v, w \in tasks' : v.seq = w.seq => v = w
  BY <1>0, <1>1 DEF Single
<1>4. Cardinality(tasks') <= Permits
  BY <1>0, <1>2, RpcAssumption DEF Single
<1>5. Single'
  BY <1>0, <1>3, <1>4 DEF Single
<1> QED
  BY <1>0, <1>1, <1>2, <1>5

\* The operation: what is answered is decided.
LEMMA RunStep ==
    ASSUME IInv, NEW t \in tasks, Run(t)
    PROVE  IInv'
<1>0. Types /\ TasksOK /\ \A r \in Seqs : ReqOK(r) /\ Numbered(r)
  BY DEF IInv
<1>1. PICK s \in Seqs : s = t.seq
  BY <1>0 DEF Types, Tasks
<1>2. PICK h0 \in Heads :
        /\ h0 \in {IF s \in Reads THEN ReadStart(size) ELSE Ok, Err}
        /\ Update(t, {[seq |-> t.seq, pc |-> "reply", sent |-> t.sent, head |-> h0]})
  <2>1. size \in Nat
    BY <1>0 DEF Types
  <2>2. ReadStart(size) \in Heads /\ Ok \in Heads /\ Err \in Heads
    BY <2>1 DEF Heads, ReadStart, Ok, Err
  <2>3. PICK h \in {IF s \in Reads THEN ReadStart(size) ELSE Ok, Err} :
           Update(t, {[seq |-> t.seq, pc |-> "reply", sent |-> t.sent, head |-> h]})
    BY <1>1 DEF Run
  <2>4. h \in Heads
    BY <2>2, <2>3
  <2> QED
    BY <2>3, <2>4
<1>3. t \in Tasks /\ t.pc = "run" /\ TaskLife(t)
  BY <1>0 DEF Types, TasksOK, Run
<1>4. PICK u \in Tasks : /\ u = [seq |-> t.seq, pc |-> "reply", sent |-> t.sent, head |-> h0]
                         /\ u.seq = s /\ u.pc = "reply" /\ u.head = h0 /\ u.sent = t.sent
  <2>1. t.seq \in Seqs /\ t.sent \in Nat
    BY <1>3 DEF Tasks
  <2>2. [seq |-> t.seq, pc |-> "reply", sent |-> t.sent, head |-> h0] \in Tasks
    BY <2>1 DEF Tasks
  <2> QED
    BY <1>1, <2>2
<1>5. /\ tasks' = (tasks \ {t}) \cup {u}
      /\ UNCHANGED <<req, nextSeq, resp, answers, sinks, chan, out, writer, reader, lane, toHost,
                     bulk, size, short>>
  BY <1>1, <1>2, <1>4 DEF Run, Update, host, net
<1>6. /\ tasks' \subseteq Tasks /\ IsFiniteSet(tasks') /\ Single'
      /\ \A v \in tasks' : v.seq # s => v \in tasks
      /\ \A v \in tasks' : v.seq = s => v = u
  <2>1. \A v \in {u} : v.seq = t.seq
    BY <1>1, <1>4
  <2>2. \E v \in Tasks : {u} = {v}
    OBVIOUS
  <2> DEFINE U == {u}
  <2>3. /\ U = {} \/ \E v \in Tasks : U = {v}
        /\ \A v \in U : v.seq = t.seq
        /\ tasks' = (tasks \ {t}) \cup U /\ out' = out
    BY <1>5, <2>1, <2>2
  <2>4. \A v \in U : v = u
    OBVIOUS
  <2> HIDE DEF U
  <2> QED
    BY <1>1, <2>3, <2>4, TaskSwapped
<1>7. Types'
  BY <1>0, <1>5, <1>6 DEF Types
<1>8. (req[s].pc = "done" \/ Fresh(s)) /\ ~OnLane(s) /\ t.sent = 0 /\ Answerless(s) /\ HasTask(s)
  BY <1>1, <1>3 DEF TaskLife, HasTask
<1>9. ASSUME NEW r \in Seqs, r # s, NEW h \in Heads, Announced(r, h)' PROVE Announced(r, h)
  BY <1>5, <1>6, <1>9 DEF Announced
<1>10. ASSUME NEW h \in Heads, Announced(s, h)' PROVE h = h0
  <2>1. ~Announced(s, h)
    BY <1>8 DEF Answerless
  <2>2. \E v \in tasks' : v.seq = s /\ v.pc # "run" /\ v.head = h
    BY <1>5, <1>10, <2>1 DEF Announced
  <2> QED
    BY <1>4, <1>6, <2>2
<1>11. ASSUME NEW r \in Seqs PROVE (InOut(r)' <=> InOut(r)) /\ (OnLane(r)' <=> OnLane(r)) /\ (HasTask(r)' => HasTask(r))
  <2>1. HasTask(r)' => HasTask(r)
    BY <1>6, <1>8 DEF HasTask
  <2> QED
    BY <1>5, <2>1 DEF InOut, OnLane, Lane
<1>12. ASSUME NEW r \in Seqs, r # s PROVE Stays(r) /\ Quiet(r)
  BY <1>5, <1>9, <1>11, <1>12 DEF Stays, Quiet
<1>13. \A r \in Seqs : OnLane(r) => Stays(r)
  BY <1>8, <1>12
<1>14. ReqOK(s)'
  <2>0. Life(s) /\ Agreed(s) /\ Gapless(s) /\ Ended(s) /\ (s \in Reads => Sunk(s))
    BY <1>0 DEF ReqOK
  <2>1. req[s].pc \notin {"idle", "send"} /\ ~InOut(s)
    BY <1>8, <2>0 DEF Life
  <2>2. Life(s)'
    BY <1>5, <1>11, <2>0, <2>1 DEF Life
  <2>3. Agreed(s)'
    <3>1. h0 \in {IF s \in Reads THEN ReadStart(h0.len) ELSE Ok, Err}
      BY <1>2 DEF ReadStart
    <3> QED
      BY <1>10, <3>1 DEF Agreed
  <2>4. Gapless(s)' /\ Ended(s)'
    BY <1>5, <2>0 DEF Gapless, Ended
  <2>5. ASSUME s \in Reads PROVE Sunk(s)'
    <3>1. Fresh(s) => Base(s) = 0 /\ Base(s)' = 0
      BY <1>5 DEF Fresh, Base
    <3>2. s \notin sinks /\ req[s].pc \in {"wait", "body"} => ~lane
      BY <1>8, <2>0, <2>5 DEF Sunk
    <3> QED
      BY <1>5, <1>8, <2>1, <3>1, <3>2 DEF Sunk
  <2> QED
    BY <2>2, <2>3, <2>4, <2>5 DEF ReqOK
<1>15. Numbered(s)'
  <2>1. ~OnLane(s)' /\ (req[s].pc = "done" \/ Fresh(s))'
    BY <1>5, <1>8, <1>11 DEF Fresh
  <2>2. \A v \in tasks' : v.seq = s => v.sent = 0
    BY <1>4, <1>6, <1>8
  <2> QED
    BY <1>7, <2>1, <2>2, NumberedFresh
<1>16. TasksOK'
  <2>1. ASSUME NEW v \in tasks', v.seq # s PROVE TaskLife(v)'
    <3>1. v \in tasks /\ v.seq \in Seqs /\ TaskLife(v)
      BY <1>0, <1>6, <2>1 DEF Types, Tasks, TasksOK
    <3> QED
      BY <1>5, <1>9, <1>11, <2>1, <3>1 DEF TaskLife, Answerless, Fresh
  <2>2. TaskLife(u)'
    BY <1>4, <1>5, <1>8, <1>11 DEF TaskLife, Fresh
  <2> QED
    BY <1>6, <2>1, <2>2 DEF TasksOK
<1> QED
  BY <1>5, <1>6, <1>7, <1>12, <1>13, <1>14, <1>15, <1>16, GuestRequestStep

\* The answer goes on the lane, if there is one; the task ends unless there are bytes to send.
LEMMA ReplyStep ==
    ASSUME IInv, NEW t \in tasks, Reply(t)
    PROVE  IInv'
<1>0. Types /\ TasksOK /\ \A r \in Seqs : ReqOK(r) /\ Numbered(r)
  BY DEF IInv
<1>1. PICK s \in Seqs : s = t.seq
  BY <1>0 DEF Types, Tasks
<1>2. t \in Tasks /\ t.pc = "reply" /\ TaskLife(t)
  BY <1>0 DEF Types, TasksOK, Reply
<1>3. t.head \in Heads /\ t.head.len \in Nat /\ t.sent = 0 /\ ~OnLane(s)
  BY <1>1, <1>2 DEF TaskLife, Heads
<1> DEFINE a == [seq |-> t.seq, head |-> t.head]
           w == [t EXCEPT !.pc = "stream"]
           U == IF t.head.len > 0 THEN {w} ELSE {}
<1>4. /\ toHost' = IF lane THEN Append(toHost, a) ELSE toHost
      /\ tasks' = (tasks \ {t}) \cup U
      /\ UNCHANGED <<req, nextSeq, resp, answers, sinks, chan, out, writer, reader, lane,
                     bulk, size, short>>
  BY DEF Reply, Update, host
<1>5. a \in Answer /\ a.seq = s /\ a.head = t.head
  BY <1>1, <1>3 DEF Answer
<1>6. w \in Tasks /\ w.seq = s /\ w.pc = "stream" /\ w.head = t.head /\ w.sent = 0
  <2>1. w = [seq |-> t.seq, pc |-> "stream", head |-> t.head, sent |-> t.sent]
    BY <1>2, TaskRecord
  <2>2. t.seq \in Seqs /\ t.sent \in Nat
    BY <1>2 DEF Tasks
  <2>3. [seq |-> t.seq, pc |-> "stream", head |-> t.head, sent |-> t.sent] \in Tasks
    BY <1>3, <2>2 DEF Tasks
  <2> QED
    BY <1>1, <1>3, <2>1, <2>3
<1> HIDE DEF a, w
<1>7. /\ U = {} \/ \E v \in Tasks : U = {v}
      /\ \A v \in U : v.seq = s /\ v = w /\ t.head.len > 0
  BY <1>6
<1> HIDE DEF U
<1>8. /\ tasks' \subseteq Tasks /\ IsFiniteSet(tasks') /\ Single'
      /\ \A v \in tasks' : v.seq # s => v \in tasks
      /\ \A v \in tasks' : v.seq = s => v = w /\ t.head.len > 0
  BY <1>1, <1>4, <1>7, TaskSwapped
<1>9. /\ toHost' \in Seq(Answer)
      /\ \A i \in DOMAIN toHost' : toHost'[i] = a \/ (i \in DOMAIN toHost /\ toHost'[i] = toHost[i])
  <2>1. toHost \in Seq(Answer)
    BY <1>0 DEF Types
  <2>2. CASE lane
    <3>1. /\ Append(toHost, a) \in Seq(Answer) /\ Len(toHost) \in Nat
          /\ DOMAIN toHost = 1 .. Len(toHost) /\ DOMAIN Append(toHost, a) = 1 .. Len(toHost) + 1
          /\ Append(toHost, a)[Len(toHost) + 1] = a
          /\ \A i \in 1 .. Len(toHost) : Append(toHost, a)[i] = toHost[i]
      BY <1>5, <2>1, AppendFacts
    <3>2. \A i \in 1 .. Len(toHost) + 1 : i \in 1 .. Len(toHost) \/ i = Len(toHost) + 1
      BY <3>1
    <3> QED
      BY <1>4, <2>2, <3>1, <3>2
  <2>3. CASE ~lane
    BY <1>4, <2>1, <2>3
  <2> QED
    BY <2>2, <2>3
<1>10. Types'
  BY <1>0, <1>4, <1>8, <1>9 DEF Types
<1>11. Announced(s, t.head)
  BY <1>1, <1>2 DEF Announced
<1>12. ASSUME NEW r \in Seqs, NEW h \in Heads, Announced(r, h)' PROVE Announced(r, h)
  <2>1. CASE \E v \in tasks' : v.seq = r /\ v.pc # "run" /\ v.head = h
    BY <1>6, <1>8, <1>11, <2>1 DEF Announced
  <2>2. CASE \E i \in DOMAIN toHost' : toHost'[i].seq = r /\ toHost'[i].head = h
    BY <1>5, <1>9, <1>11, <2>2 DEF Announced
  <2> QED
    BY <1>4, <1>12, <2>1, <2>2 DEF Announced
<1>13. ASSUME NEW r \in Seqs PROVE (InOut(r)' <=> InOut(r)) /\ (OnLane(r)' <=> OnLane(r)) /\ (HasTask(r)' => HasTask(r))
  <2>1. HasTask(r)' => HasTask(r)
    BY <1>1, <1>8 DEF HasTask
  <2> QED
    BY <1>4, <2>1 DEF InOut, OnLane, Lane
<1>14. ASSUME NEW r \in Seqs PROVE Stays(r) /\ Quiet(r)
  BY <1>4, <1>12, <1>13 DEF Stays, Quiet
<1>15. ReqOK(s)'
  <2>1. Onward
    BY <1>0, <1>4 DEF Onward, Types
  <2> QED
    BY <1>0, <1>14, <2>1, QuietKeeps
<1>16. Numbered(s)'
  <2>1. (req[s].pc = "done" \/ Fresh(s))' /\ ~OnLane(s)'
    BY <1>1, <1>2, <1>4, <1>13 DEF TaskLife, Fresh
  <2>2. \A v \in tasks' : v.seq = s => v.sent = 0
    BY <1>6, <1>8
  <2> QED
    BY <1>10, <2>1, <2>2, NumberedFresh
<1>17. TasksOK'
  <2>1. ASSUME NEW v \in tasks', v.seq # s PROVE TaskLife(v)'
    <3>1. v \in tasks /\ v.seq \in Seqs /\ TaskLife(v)
      BY <1>0, <1>8, <2>1 DEF Types, Tasks, TasksOK
    <3> QED
      BY <1>4, <1>12, <1>13, <3>1 DEF TaskLife, Answerless, Fresh
  <2>2. ASSUME NEW v \in tasks', v.seq = s PROVE TaskLife(v)'
    <3>1. v.pc = "stream" /\ v.head = t.head /\ v.sent = 0 /\ t.head.len > 0
      BY <1>6, <1>8, <2>2
    <3> QED
      BY <1>3, <3>1 DEF TaskLife
  <2> QED
    BY <2>1, <2>2 DEF TasksOK
<1> QED
  BY <1>4, <1>8, <1>10, <1>14, <1>15, <1>16, <1>17, GuestRequestStep

\* A frame added to a lane follows the others.
LEMMA SendShift ==
    ASSUME Types, NEW l \in BulkLane, NEW f \in Frames, bulk' = [bulk EXCEPT ![l] = Append(@, f)]
    PROVE  /\ bulk' \in [BulkLane -> Seq(Frames)]
           /\ \A k \in BulkLane : k # l => bulk'[k] = bulk[k]
           /\ Len(bulk[l]) \in Nat /\ Len(bulk'[l]) = Len(bulk[l]) + 1
           /\ DOMAIN bulk[l] = 1 .. Len(bulk[l]) /\ DOMAIN bulk'[l] = 1 .. Len(bulk[l]) + 1
           /\ bulk'[l][Len(bulk[l]) + 1] = f
           /\ \A i \in 1 .. Len(bulk[l]) : bulk'[l][i] = bulk[l][i]
           /\ \A i \in 1 .. Len(bulk[l]) + 1 : i \in 1 .. Len(bulk[l]) \/ i = Len(bulk[l]) + 1
<1>1. bulk[l] \in Seq(Frames) /\ bulk \in [BulkLane -> Seq(Frames)]
  BY DEF Types
<1>2. /\ Append(bulk[l], f) \in Seq(Frames) /\ Len(bulk[l]) \in Nat
      /\ Len(Append(bulk[l], f)) = Len(bulk[l]) + 1
      /\ DOMAIN bulk[l] = 1 .. Len(bulk[l]) /\ DOMAIN Append(bulk[l], f) = 1 .. Len(bulk[l]) + 1
      /\ Append(bulk[l], f)[Len(bulk[l]) + 1] = f
      /\ \A i \in 1 .. Len(bulk[l]) : Append(bulk[l], f)[i] = bulk[l][i]
  BY <1>1, AppendFacts
<1>3. /\ bulk' \in [BulkLane -> Seq(Frames)] /\ bulk'[l] = Append(bulk[l], f)
      /\ \A k \in BulkLane : k # l => bulk'[k] = bulk[k]
  BY <1>1, <1>2
<1>4. \A i \in 1 .. Len(bulk[l]) + 1 : i \in 1 .. Len(bulk[l]) \/ i = Len(bulk[l]) + 1
  BY <1>2
<1> QED
  BY <1>2, <1>3, <1>4

\* The counting of a request's frames after a frame, its own or not, is added to its lane.
LEMMA SendNumbered ==
    ASSUME Types, NEW l \in BulkLane, NEW f \in Frames, bulk' = [bulk EXCEPT ![l] = Append(@, f)],
           NEW r \in Seqs, Lane(r) = l,
           NEW c \in [0 .. Len(bulk[l]) -> Nat], Counts(c, r), req' = req, chan' = chan, sinks' = sinks,
           NEW m \in Nat, m = IF f.seq = r THEN c[Len(bulk[l])] + 1 ELSE c[Len(bulk[l])],
           f.seq = r /\ f.data # <<>> => f.data = <<<<r, m>>>>,
           \A v \in tasks' : v.seq = r => v.sent = m
    PROVE  Numbered(r)'
<1> DEFINE n == Len(bulk[l])
           e == [i \in 0 .. n + 1 |-> IF i = n + 1 THEN m ELSE c[i]]
<1>1. /\ n \in Nat /\ Len(bulk'[l]) = n + 1 /\ bulk'[l][n + 1] = f
      /\ \A i \in 1 .. n : bulk'[l][i] = bulk[l][i]
      /\ \A i \in 1 .. n + 1 : i \in 1 .. n \/ i = n + 1
  BY SendShift
<1>2. \A i \in 1 .. n :
          /\ c[i] = IF bulk[l][i].seq = r THEN c[i - 1] + 1 ELSE c[i - 1]
          /\ bulk[l][i].seq = r /\ bulk[l][i].data # <<>> => bulk[l][i].data = <<<<r, c[i]>>>>
  BY DEF Counts
<1>3. \A i \in 0 .. n : e[i] = c[i] /\ c[i] \in Nat
  BY <1>1
<1>4. e[n + 1] = m
  BY <1>1
<1>5. e \in [0 .. n + 1 -> Nat]
  <2>1. \A i \in 0 .. n + 1 : i = n + 1 \/ i \in 0 .. n
    BY <1>1
  <2>2. \A i \in 0 .. n + 1 : (IF i = n + 1 THEN m ELSE c[i]) \in Nat
    BY <1>3, <2>1
  <2> QED
    BY <2>2
<1>6. 0 \in 0 .. n /\ n \in 0 .. n /\ (n + 1) - 1 = n
  BY <1>1
<1>7. ASSUME NEW i \in 1 .. n + 1
      PROVE  /\ e[i] = IF bulk'[l][i].seq = r THEN e[i - 1] + 1 ELSE e[i - 1]
             /\ bulk'[l][i].seq = r /\ bulk'[l][i].data # <<>> => bulk'[l][i].data = <<<<r, e[i]>>>>
  <2>1. CASE i \in 1 .. n
    <3>1. i \in 0 .. n /\ i - 1 \in 0 .. n
      BY <1>1, <2>1
    <3>2. e[i] = c[i] /\ e[i - 1] = c[i - 1] /\ bulk'[l][i] = bulk[l][i]
      BY <1>1, <1>3, <2>1, <3>1
    <3> HIDE DEF e
    <3> QED
      BY <1>2, <2>1, <3>2
  <2>2. CASE i = n + 1
    <3>1. i - 1 = n /\ e[n] = c[n] /\ e[i] = m /\ bulk'[l][i] = f
      BY <1>1, <1>3, <1>4, <1>6, <2>2
    <3> HIDE DEF e, n
    <3>2. e[i - 1] = c[n]
      BY <3>1
    <3> QED
      BY <3>1, <3>2 DEF n
  <2> QED
    BY <1>1, <2>1, <2>2
<1>8. PICK d \in [0 .. Len(bulk'[l]) -> Nat] :
        /\ d[0] = c[0]
        /\ \A i \in 1 .. Len(bulk'[l]) :
              /\ d[i] = IF bulk'[l][i].seq = r THEN d[i - 1] + 1 ELSE d[i - 1]
              /\ bulk'[l][i].seq = r /\ bulk'[l][i].data # <<>> => bulk'[l][i].data = <<<<r, d[i]>>>>
        /\ \A v \in tasks' : v.seq = r => v.sent = d[Len(bulk'[l])]
  <2>1. e[0] = c[0]
    BY <1>3, <1>6
  <2> HIDE DEF e, n
  <2> QED
    BY <1>1, <1>4, <1>5, <1>7, <2>1
<1>9. r \in sinks' /\ req'[r].pc # "done" => d[0] = Base(r)'
  BY <1>8 DEF Counts, Base
<1>10. Counts(d, r)'
  BY <1>8, <1>9 DEF Counts, Lane
<1> QED
  BY <1>8, <1>10 DEF Numbered, Lane

\* stream_read sends a frame.  It is the next of its read on the read's lane; the one that
\* is said to be the last is, and completes the length announced unless the file shrank or
\* could not be read.
LEMMA StreamStep ==
    ASSUME IInv, NEW t \in tasks, Stream(t)
    PROVE  IInv'
<1>0. /\ Types /\ Single /\ TasksOK /\ LanesOK
      /\ \A r \in Seqs : ReqOK(r) /\ Numbered(r)
  BY DEF IInv
<1>1. PICK s \in Seqs : s = t.seq
  BY <1>0 DEF Types, Tasks
<1>2. t \in Tasks /\ t.pc = "stream" /\ TaskLife(t)
  BY <1>0 DEF Types, TasksOK, Stream
<1>3. /\ t.head \in Heads /\ t.head.len \in Nat /\ t.sent \in Nat /\ t.sent < t.head.len
      /\ Announced(s, t.head) /\ HasTask(s) /\ size \in Nat
  BY <1>0, <1>1, <1>2 DEF TaskLife, Heads, Tasks, Announced, HasTask, Types
<1>4. \A h \in Heads : Announced(s, h) => h = t.head
  BY <1>0, <1>3 DEF ReqOK, Agreed
<1>5. s \in Reads
  <2>1. t.head \in {IF s \in Reads THEN ReadStart(t.head.len) ELSE Ok, Err}
    BY <1>0, <1>3 DEF ReqOK, Agreed
  <2>2. t.head # Ok /\ t.head # Err
    BY <1>3 DEF Ok, Err
  <2> QED
    BY <2>1, <2>2
<1>6. PICK l \in BulkLane : l = Lane(s) /\ l = LaneOf(t)
  BY <1>1, LaneType DEF Lane, LaneOf
<1>7. PICK m \in Nat : m = t.sent + 1
  BY <1>3
<1>a. PICK failed \in BOOLEAN :
        LET last  == m = t.head.len
            gone  == m > size \/ failed
            frame == [seq |-> t.seq, more |-> ~(last \/ gone), data |-> IF gone THEN <<>> ELSE <<<<t.seq, m>>>>]
        IN  /\ bulk' = [bulk EXCEPT ![l] = Append(@, frame)]
            /\ Update(t, IF last \/ gone THEN {} ELSE {[t EXCEPT !.sent = @ + 1]})
            /\ short' = IF gone THEN short \cup {t.seq} ELSE short
            /\ UNCHANGED <<host, net, size>>
  BY <1>6, <1>7 DEF Stream
<1> DEFINE last == m = t.head.len
           gone == m > size \/ failed
           f == [seq |-> t.seq, more |-> ~(last \/ gone), data |-> IF gone THEN <<>> ELSE <<<<t.seq, m>>>>]
           w == [t EXCEPT !.sent = @ + 1]
           U == IF last \/ gone THEN {} ELSE {w}
<1>8. /\ bulk' = [bulk EXCEPT ![l] = Append(@, f)]
      /\ tasks' = (tasks \ {t}) \cup U
      /\ short' = IF gone THEN short \cup {s} ELSE short
      /\ UNCHANGED <<req, nextSeq, resp, answers, sinks, chan, out, writer, reader, lane, toHost, size>>
  BY <1>1, <1>a DEF Update, host, net
<1>9. /\ f \in Frames /\ f.seq = s /\ (f.more <=> ~(last \/ gone))
      /\ f.data = IF gone THEN <<>> ELSE <<<<s, m>>>>
  <2>1. <<s, m>> \in Blocks
    BY DEF Blocks
  <2>2. <<>> \in Seq(Blocks) /\ <<<<s, m>>>> \in Seq(Blocks)
    BY <2>1
  <2>3. (IF gone THEN <<>> ELSE <<<<t.seq, m>>>>) \in Seq(Blocks)
    BY <1>1, <2>2
  <2> QED
    BY <1>1, <2>3 DEF Frames
<1>10. /\ f.data = <<>> <=> gone
       /\ ~gone => f.data[1][2] = m
  BY <1>9
<1>11. w \in Tasks /\ w.seq = s /\ w.pc = "stream" /\ w.head = t.head /\ w.sent = m
  <2>1. w = [seq |-> t.seq, pc |-> t.pc, head |-> t.head, sent |-> m]
    BY <1>2, <1>7, TaskRecord
  <2>2. [seq |-> t.seq, pc |-> "stream", head |-> t.head, sent |-> m] \in Tasks
    BY <1>1, <1>3 DEF Tasks
  <2> QED
    BY <1>1, <1>2, <2>1, <2>2
<1> HIDE DEF f, w
<1>12. /\ U = {} \/ \E v \in Tasks : U = {v}
       /\ \A v \in U : v.seq = s /\ v = w /\ ~last /\ ~gone
  BY <1>11
<1>13. /\ tasks' \subseteq Tasks /\ IsFiniteSet(tasks') /\ Single'
       /\ \A v \in tasks' : v.seq # s => v \in tasks
       /\ \A v \in tasks' : v.seq = s => v = w /\ ~last /\ ~gone
  <2> HIDE DEF U
  <2>1. \A v \in U : v.seq = t.seq
    BY <1>1, <1>12
  <2>2. out' = out
    BY <1>8
  <2> QED
    BY <1>1, <1>8, <1>12, <2>1, <2>2, TaskSwapped
<1> HIDE DEF U, last, gone
<1>14. /\ bulk' \in [BulkLane -> Seq(Frames)]
       /\ \A k \in BulkLane : k # l => bulk'[k] = bulk[k]
       /\ Len(bulk[l]) \in Nat /\ Len(bulk'[l]) = Len(bulk[l]) + 1
       /\ DOMAIN bulk[l] = 1 .. Len(bulk[l]) /\ DOMAIN bulk'[l] = 1 .. Len(bulk[l]) + 1
       /\ bulk'[l][Len(bulk[l]) + 1] = f
       /\ \A i \in 1 .. Len(bulk[l]) : bulk'[l][i] = bulk[l][i]
       /\ \A i \in 1 .. Len(bulk[l]) + 1 : i \in 1 .. Len(bulk[l]) \/ i = Len(bulk[l]) + 1
  BY <1>0, <1>8, <1>9, SendShift
<1>15. short \subseteq short' /\ short' \subseteq Seqs /\ (gone => s \in short')
  BY <1>0, <1>8 DEF Types
<1>16. Types'
  BY <1>0, <1>8, <1>13, <1>14, <1>15 DEF Types
<1>17. Onward
  BY <1>0, <1>8, <1>15 DEF Onward, Types
<1>18. ASSUME NEW r \in Seqs, NEW h \in Heads, Announced(r, h)' PROVE Announced(r, h)
  <2>1. CASE \E v \in tasks' : v.seq = r /\ v.pc # "run" /\ v.head = h
    BY <1>3, <1>11, <1>13, <2>1 DEF Announced
  <2> QED
    BY <1>8, <1>18, <2>1 DEF Announced
<1>19. ASSUME NEW r \in Seqs
       PROVE  (InOut(r)' <=> InOut(r)) /\ (HasTask(r)' => HasTask(r)) /\ (r # s /\ OnLane(r)' => OnLane(r))
  <2>1. HasTask(r)' => HasTask(r)
    BY <1>3, <1>13 DEF HasTask
  <2>2. ASSUME r # s, OnLane(r)' PROVE OnLane(r)
    <3>0. Lane(r) \in BulkLane
      BY LaneType
    <3>1. PICK i \in DOMAIN bulk'[Lane(r)] : bulk'[Lane(r)][i].seq = r
      BY <2>2 DEF OnLane, Lane
    <3>2. CASE Lane(r) = l
      BY <1>9, <1>14, <2>2, <3>1, <3>2 DEF OnLane
    <3>3. CASE Lane(r) # l
      BY <1>14, <3>0, <3>1, <3>3 DEF OnLane
    <3> QED
      BY <3>2, <3>3
  <2> QED
    BY <1>8, <2>1, <2>2 DEF InOut
<1>20. ASSUME NEW r \in Seqs, r # s PROVE ReqOK(r)'
  <2>1. Quiet(r)
    BY <1>8, <1>18, <1>19, <1>20 DEF Stays, Quiet
  <2> QED
    BY <1>0, <1>17, <2>1, QuietKeeps
<1>21. ReqOK(s)'
  <2>0. Life(s) /\ Agreed(s) /\ Gapless(s) /\ Ended(s) /\ Sunk(s)
    BY <1>0, <1>5 DEF ReqOK
  <2>1. req[s].pc \notin {"idle", "send"} /\ ~InOut(s)
    BY <1>3, <2>0 DEF Life
  <2>2. Life(s)'
    BY <1>8, <1>19, <2>0, <2>1 DEF Life
  <2>3. Agreed(s)'
    BY <1>18, <2>0 DEF Agreed
  <2>4. Gapless(s)' /\ Ended(s)'
    BY <1>8, <1>15, <2>0 DEF Gapless, Ended
  <2>5. Sunk(s)'
    <3>1. s \notin sinks /\ req[s].pc \in {"wait", "body"} => ~lane
      BY <1>3, <2>0 DEF Sunk
    <3>2. Base(s)' = Base(s)
      BY <1>8 DEF Base
    <3> QED
      BY <1>8, <1>18, <2>0, <2>1, <3>1, <3>2 DEF Sunk
  <2> QED
    BY <2>2, <2>3, <2>4, <2>5 DEF ReqOK
<1>22. ASSUME NEW r \in Seqs PROVE Numbered(r)'
  <2> DEFINE sent == bulk' = [bulk EXCEPT ![l] = Append(@, f)]
  <2>a. sent /\ req' = req /\ chan' = chan /\ sinks' = sinks
    BY <1>8
  <2>0. Lane(r) \in BulkLane
    BY LaneType
  <2>1. PICK c \in [0 .. Len(bulk[Lane(r)]) -> Nat] : Counts(c, r)
    BY <1>0 DEF Numbered
  <2>2. CASE r = s
    <3>1. m = c[Len(bulk[l])] + 1
      BY <1>1, <1>6, <1>7, <2>1, <2>2 DEF Counts
    <3>2. \A v \in tasks' : v.seq = r => v.sent = m
      BY <1>11, <1>13, <2>2
    <3>3. f.seq = r /\ f.data # <<>> => f.data = <<<<r, m>>>>
      BY <1>9, <2>2
    <3>4. c \in [0 .. Len(bulk[l]) -> Nat] /\ Counts(c, r) /\ Lane(r) = l /\ f \in Frames
          /\ m = IF f.seq = r THEN c[Len(bulk[l])] + 1 ELSE c[Len(bulk[l])]
      BY <1>6, <1>9, <2>1, <2>2, <3>1
    <3> HIDE DEF sent
    <3>5. Types
      BY <1>0
    <3> QED
      BY <2>a, <3>2, <3>3, <3>4, <3>5, SendNumbered, ZenonT(60) DEF sent
  <2>3. CASE r # s /\ Lane(r) = l
    <3>1. PICK k \in Nat : k = c[Len(bulk[l])]
      <4>1. PICK n \in Nat : n = Len(bulk[l])
        BY <1>14
      <4>2. c \in [0 .. n -> Nat] /\ n \in 0 .. n
        BY <2>1, <2>3, <4>1
      <4> QED
        BY <4>1, <4>2
    <3>2. \A v \in tasks' : v.seq = r => v.sent = k
      BY <1>13, <2>1, <2>3, <3>1 DEF Counts
    <3>3. c \in [0 .. Len(bulk[l]) -> Nat] /\ Counts(c, r) /\ Lane(r) = l /\ f \in Frames
          /\ k = IF f.seq = r THEN c[Len(bulk[l])] + 1 ELSE c[Len(bulk[l])]
      BY <1>9, <2>1, <2>3, <3>1
    <3>4. f.seq # r
      BY <1>9, <2>3
    <3> QED
      BY <1>0, <2>a, <3>2, <3>3, <3>4, SendNumbered
  <2>4. CASE Lane(r) # l
    <3>1. r # s /\ bulk'[Lane(r)] = bulk[Lane(r)]
      BY <1>6, <1>14, <2>0, <2>4
    <3>2. Base(r)' = Base(r) /\ \A v \in tasks' : v.seq = r => v \in tasks
      BY <1>8, <1>13, <3>1 DEF Base
    <3>3. Counts(c, r)'
      BY <1>8, <2>1, <3>1, <3>2 DEF Counts, Lane
    <3> QED
      BY <2>1, <3>1, <3>3 DEF Numbered, Lane
  <2> QED
    BY <2>2, <2>3, <2>4
<1>23. TasksOK'
  <2>1. ASSUME NEW v \in tasks', v.seq # s PROVE TaskLife(v)'
    <3>1. v \in tasks /\ v.seq \in Seqs /\ TaskLife(v)
      BY <1>0, <1>13, <2>1 DEF Types, Tasks, TasksOK
    <3> QED
      BY <1>8, <1>18, <1>19, <2>1, <3>1 DEF TaskLife, Answerless, Fresh
  <2>2. ASSUME NEW v \in tasks', v.seq = s PROVE TaskLife(v)'
    <3>1. v.pc = "stream" /\ v.head = t.head /\ v.sent = m /\ ~last
      BY <1>11, <1>13, <2>2
    <3>2. m < t.head.len
      BY <1>3, <1>7, <3>1 DEF last
    <3> QED
      BY <1>3, <3>1, <3>2 DEF TaskLife
  <2> QED
    BY <2>1, <2>2 DEF TasksOK
<1>24. LanesOK'
  <2>0. PICK n \in Nat : n = Len(bulk[l])
    BY <1>14
  <2>1. ASSUME NEW k \in BulkLane, k # l, NEW i \in DOMAIN bulk'[k] PROVE FrameOK(k, i)'
    <3>1. bulk'[k] = bulk[k]
      BY <1>14, <2>1
    <3>2. PICK r \in Seqs : r = bulk[k][i].seq
      BY <1>0, <2>1, <3>1, FrameType DEF Frames
    <3>3. FrameOK(k, i)
      BY <1>0, <2>1, <3>1 DEF LanesOK
    <3>4. bulk'[k][i].seq = r
      BY <3>1, <3>2
    <3>5. (HasTask(r)' => HasTask(r)) /\ \A h \in Heads : Announced(r, h)' => Announced(r, h)
      BY <1>18, <1>19
    <3> QED
      BY <1>15, <3>1, <3>2, <3>3, <3>4, <3>5 DEF FrameOK
  <2>2. ASSUME NEW i \in 1 .. Len(bulk[l]) PROVE FrameOK(l, i)'
    <3>1. bulk'[l][i] = bulk[l][i] /\ i \in DOMAIN bulk[l]
      BY <1>14
    <3>2. PICK r \in Seqs : r = bulk[l][i].seq
      BY <1>0, <3>1, FrameType DEF Frames
    <3>3. FrameOK(l, i)
      BY <1>0, <3>1 DEF LanesOK
    <3>4. bulk'[l][i].seq = r
      BY <3>1, <3>2
    <3>5. (HasTask(r)' => HasTask(r)) /\ \A h \in Heads : Announced(r, h)' => Announced(r, h)
      BY <1>18, <1>19
    <3>6. ASSUME ~bulk[l][i].more, NEW j \in DOMAIN bulk'[l], j > i PROVE bulk'[l][j].seq # r
      <4>1. ~HasTask(r) /\ \A p \in DOMAIN bulk[l] : p > i => bulk[l][p].seq # r
        BY <3>2, <3>3, <3>6 DEF FrameOK
      <4>2. r # s
        BY <1>3, <4>1
      <4> QED
        BY <1>9, <1>14, <3>6, <4>1, <4>2
    <3> QED
      BY <1>15, <3>1, <3>2, <3>3, <3>4, <3>5, <3>6 DEF FrameOK
  <2>3. FrameOK(l, n + 1)'
    <3>2. bulk'[l][n + 1] = f /\ DOMAIN bulk'[l] = 1 .. n + 1
      BY <1>14, <2>0
    <3>3. ~f.more => ~HasTask(s)'
      BY <1>9, <1>13 DEF HasTask
    <3>4. \A j \in DOMAIN bulk'[l] : ~(j > n + 1)
      BY <3>2
    <3>5. f.data = <<>> => ~f.more /\ s \in short'
      BY <1>9, <1>10, <1>15
    <3>6. ASSUME f.data # <<>>, NEW h \in Heads, Announced(s, h)'
          PROVE  IF f.more THEN f.data[1][2] < h.len ELSE f.data[1][2] = h.len
      <4>1. h = t.head /\ ~gone /\ f.data[1][2] = m
        BY <1>4, <1>10, <1>18, <3>6
      <4>2. CASE last
        BY <1>9, <4>1, <4>2 DEF last
      <4>3. CASE ~last
        <5>1. m < t.head.len
          BY <1>3, <1>7, <4>3 DEF last
        <5> QED
          BY <1>9, <4>1, <4>3, <5>1
      <4> QED
        BY <4>2, <4>3
    <3> QED
      BY <1>5, <1>6, <1>9, <3>2, <3>3, <3>4, <3>5, <3>6 DEF FrameOK, Lane
  <2>4. ASSUME NEW i \in DOMAIN bulk'[l] PROVE FrameOK(l, i)'
    BY <1>14, <2>0, <2>2, <2>3
  <2> QED
    BY <2>1, <2>4 DEF LanesOK
<1> QED
  BY <1>13, <1>16, <1>20, <1>21, <1>22, <1>23, <1>24 DEF IInv

\* stream_read loses its bulk lane: the task ends, and what it has sent stays as it is.
LEMMA StreamLostStep ==
    ASSUME IInv, NEW t \in tasks, StreamLost(t)
    PROVE  IInv'
<1>0. Types /\ TasksOK /\ \A r \in Seqs : ReqOK(r) /\ Numbered(r)
  BY DEF IInv
<1>1. PICK s \in Seqs : s = t.seq
  BY <1>0 DEF Types, Tasks
<1>2. /\ tasks' = tasks \ {t}
      /\ UNCHANGED <<req, nextSeq, resp, answers, sinks, chan, out, writer, reader, lane, toHost,
                     bulk, size, short>>
  BY DEF StreamLost, Update, host, net
<1>3. tasks' \subseteq Tasks /\ IsFiniteSet(tasks') /\ Single' /\ tasks' \subseteq tasks
  <2> DEFINE U == {}
  <2>1. /\ U = {} \/ \E v \in Tasks : U = {v}
        /\ \A v \in U : v.seq = t.seq
        /\ tasks' = (tasks \ {t}) \cup U /\ out' = out
    BY <1>2
  <2> HIDE DEF U
  <2>2. tasks' \subseteq Tasks /\ IsFiniteSet(tasks') /\ Single'
    BY <2>1, TaskSwapped
  <2> QED
    BY <1>2, <2>2
<1>4. Types'
  BY <1>0, <1>2, <1>3 DEF Types
<1>5. ASSUME NEW r \in Seqs PROVE Stays(r) /\ Quiet(r)
  BY <1>2, <1>3 DEF Stays, Quiet, InOut, HasTask, OnLane, Lane, Announced
<1>6. ReqOK(s)'
  <2>1. Onward
    BY <1>0, <1>2 DEF Onward, Types
  <2> QED
    BY <1>0, <1>5, <2>1, QuietKeeps
<1>7. Numbered(s)'
  <2>1. Base(s)' = Base(s)
    BY <1>2 DEF Base
  <2> QED
    BY <1>0, <1>2, <1>3, <2>1, NumberedTasks
<1>8. TasksOK'
  <2> SUFFICES ASSUME NEW v \in tasks' PROVE TaskLife(v)'
    BY DEF TasksOK
  <2>1. v \in tasks /\ v.seq \in Seqs /\ TaskLife(v)
    BY <1>0, <1>3 DEF Types, Tasks, TasksOK
  <2>2. Stays(v.seq)
    BY <1>5, <2>1
  <2> QED
    BY <1>2, <2>1, <2>2 DEF TaskLife, Answerless, Fresh, Stays
<1> QED
  BY <1>2, <1>3, <1>4, <1>5, <1>6, <1>7, <1>8, GuestRequestStep

-----------------------------------------------------------------------------
(***************************************************************************)
(* The theorems.                                                           *)
(***************************************************************************)
\* Every step keeps the inductive invariant.
LEMMA NextIInv == IInv /\ [Next]_vars => IInv'
<1> SUFFICES ASSUME IInv, [Next]_vars PROVE IInv'
  OBVIOUS
<1>1. CASE Call
  <2>1. nextSeq \in Seqs
    BY <1>1, RpcAssumption DEF Call, IInv, Types, Seqs
  <2> QED
    BY <1>1, <2>1, CallStep
<1>2. CASE WriteFails \/ Receive \/ Shrink \/ LaneDies
  BY <1>2, QuietSteps
<1>3. CASE ReaderEnds
  BY <1>3, ReaderEndsStep
<1>4. CASE \E s \in Seqs : \/ Enqueue(s) \/ SendFails(s) \/ TakeAnswer(s) \/ Refused(s) \/ WaitFails(s)
                           \/ TakeChunk(s) \/ BodyEnds(s) \/ BodyTimeout(s)
  BY <1>4, EnqueueStep, FailStep, TakeAnswerStep, TakeChunkStep, BodyEndsStep
<1>5. CASE \E l \in BulkLane : Deliver(l)
  BY <1>5, DeliverStep
<1>6. CASE Dispatch
  BY <1>6, DispatchStep
<1>7. CASE \E t \in tasks : Run(t) \/ Reply(t) \/ Stream(t) \/ StreamLost(t)
  BY <1>7, RunStep, ReplyStep, StreamStep, StreamLostStep
<1>8. CASE UNCHANGED vars
  <2>1. UNCHANGED <<req, nextSeq, resp, answers, sinks, chan, out, writer, reader, lane, toHost,
                    tasks, bulk, size, short>>
    BY <1>8 DEF vars, host, net, guest
  <2>2. Types' /\ Onward
    BY <2>1 DEF IInv, Types, Onward
  <2>3. ASSUME NEW r \in Seqs PROVE Quiet(r)
    BY <2>1 DEF Quiet, Stays, InOut, HasTask, OnLane, Announced
  <2>4. out' = out \/ out' = <<>>
    BY <2>1
  <2> QED
    BY <2>1, <2>2, <2>3, <2>4, AllQuiet
<1> QED
  BY <1>1, <1>2, <1>3, <1>4, <1>5, <1>6, <1>7, <1>8 DEF Next, HostStep, GuestStep

\* The inductive invariant, with what it says of the properties.
LEMMA IInvImplies == IInv => TypeOK /\ ReadExact /\ SinksGo
<1> SUFFICES ASSUME IInv PROVE TypeOK /\ ReadExact /\ SinksGo
  OBVIOUS
<1>0. Types /\ Single /\ \A s \in Seqs : ReqOK(s)
  BY DEF IInv
<1>1. TypeOK
  <2>1. \A s \in Seqs : req[s].pc \in {"idle", "send", "wait", "body", "done"}
    BY <1>0, ReqType
  <2>2. ASSUME NEW t \in tasks PROVE t.seq \notin {out[i] : i \in DOMAIN out}
    <3>1. PICK s \in Seqs : s = t.seq
      BY <1>0 DEF Types, Tasks
    <3>2. HasTask(s)
      BY <3>1 DEF HasTask
    <3> QED
      BY <1>0, <3>1, <3>2 DEF ReqOK, Life, InOut
  <2> QED
    BY <1>0, <2>1, <2>2 DEF TypeOK, Types, Single
<1>2. ReadExact
  <2> SUFFICES ASSUME NEW s \in Reads, req[s].res = "ok"
               PROVE  /\ req[s].got = [i \in 1 .. Len(req[s].got) |-> <<s, i>>]
                      /\ Len(req[s].got) = req[s].head.len \/ s \in short \/ ~lane
    BY DEF ReadExact
  <2>1. s \in Seqs
    BY RpcAssumption DEF Seqs
  <2>2. Gapless(s) /\ Ended(s) /\ req[s].got \in Seq(Blocks)
    BY <1>0, <2>1, ReqType DEF ReqOK
  <2>3. PICK q \in Seq(Blocks) : q = req[s].got
    BY <2>2
  <2>4. \A i \in DOMAIN q : q[i] = <<s, i>>
    BY <2>2, <2>3 DEF Gapless
  <2>5. q = [i \in 1 .. Len(q) |-> <<s, i>>]
    BY <2>4
  <2> QED
    BY <2>2, <2>3, <2>5 DEF Ended
<1>3. SinksGo
  <2>1. sinks \subseteq Seqs
    BY <1>0, RpcAssumption DEF Types, Seqs
  <2> QED
    BY <1>0, <2>1 DEF SinksGo, ReqOK, Ended
<1> QED
  BY <1>1, <1>2, <1>3

\* The queue of the client and the permits of the guest are never overrun, and the guest
\* works on no request twice, whatever is lost and however often calls time out.
THEOREM TypeCorrect == Spec => []TypeOK
BY InitIInv, NextIInv, IInvImplies, PTL DEF Spec

\* A read that succeeds returns the blocks of its file, from the first, in their order and
\* none of another read; and all that were announced, unless the file shrank or could not
\* be read on, or the lane was lost.
THEOREM ReadsAreExact == Spec => []ReadExact
BY InitIInv, NextIInv, IInvImplies, PTL DEF Spec

\* No sink outlives its read, but that of a read of nothing: not when the read succeeds,
\* nor when it is answered by an error, times out or loses its lane.
THEOREM NoSinkLeaks == Spec => []SinksGo
BY InitIInv, NextIInv, IInvImplies, PTL DEF Spec

=============================================================================
