----------------------------- MODULE CasProofs -----------------------------
(***************************************************************************)
(* What holds of the content store with any number of threads, chunks and  *)
(* files: a chunk ingested from the guest and left alone survives an end   *)
(* of the process, a finished write-ingest has a persist coming, the count *)
(* of stored bytes is exact but for the races it notes, and the store does *)
(* what ContentStore promises its readers.                                 *)
(*                                                                         *)
(* A thread is known by its job and by where it is in it (Good): what the  *)
(* other threads do to the rows, the files and the open files between two  *)
(* of its steps is then all that its next step has to cope with.           *)
(***************************************************************************)
EXTENDS Cas, FiniteSetTheorems, SequenceTheorems, TLAPS

Jobs == {"none", "chunk", "final", "read", "scrub", "clear"}
Recs == [pc : Pcs, job : Jobs, k : Key, o : Off, h : Hash \cup {NoHash}, n : Nat, vs : SUBSET Hash]

Ingesting == {"probe", "open", "fill", "rename", "commit", "account",
              "evict", "evict_rows", "evict_txn", "evict_files", "evict_count"}
Dropping  == {"drop_file", "drop_row", "drop_count"}
Blank     == {"idle", "slow", "clear_files", "clear_count"}

\* A thread with this job is there, and has a hash to work on.
Fits(job, pc, h) ==
    /\ job = "none"  => pc = "idle"
    /\ job = "chunk" => pc \in Ingesting
    /\ job = "final" => pc \in Ingesting \cup {"rebind", "swap"}
    /\ job = "read"  => pc \in Dropping \cup {"fast", "slow", "range", "hit", "wrong"}
    /\ job = "scrub" => pc \in Dropping \cup {"scrub"}
    /\ job = "clear" => pc \in {"clear_files", "clear_count"}
    /\ pc \notin Blank => h \in Hash
Good == {x \in Recs : Fits(x.job, x.pc, x.h)}

Threads == th \in [Thread -> Good]

Warmth == [k : Key, o : Off, h : Hash]
Counters == [asleep : Nat, due : Nat]

\* The files; an open file that is the one under its hash is there.
Files ==
    /\ file \in [Hash -> Content] /\ tmp \in [Hash -> Content \ {"bad"}]
    /\ held \in [Hash -> Content \cup {"path"}] /\ fds \in Seq(Hash)
    /\ ToSet(fds) = {h \in Hash : held[h] # "none"} /\ Len(fds) <= FD_CAP
    /\ \A h \in Hash : held[h] = "path" => file[h] # "none"

Tables == db \in Store /\ disk \in Store

Others ==
    /\ total \in 0 .. WIDTH - 1 /\ hot \subseteq Hash
    /\ pend \in BOOLEAN /\ timers \in Counters /\ n \in [op : Nat, rot : Nat, kill : Nat]
    /\ raced \in BOOLEAN /\ owed \in BOOLEAN /\ warm \subseteq Warmth

\* A disk that damages only lengths makes no reader believe it.
NoLie ==
    "bad" \notin Damage =>
        /\ \A h \in Hash : file[h] # "bad" /\ held[h] # "bad"
        /\ \A t \in Thread : th[t].pc # "wrong"

\* The flag stands for a timer.
PendTimer == pend => timers.asleep > 0

IInv == Threads /\ Files /\ Tables /\ Others /\ NoLie /\ PendTimer /\ PersistComing /\ WarmSurvives

-----------------------------------------------------------------------------
(***************************************************************************)
(* The threads.                                                            *)
(***************************************************************************)
\* There is a first key and a first offset for an idle thread to hold.
LEMMA NoKeyType == NoKey \in Key /\ NoOff \in Off
<1>1. \E k \in Key : TRUE
  <2>1. PICK f : f \in Node
    BY CasAssumption
  <2>2. <<f, WIP>> \in Key
    BY <2>1, CasAssumption DEF Key
  <2> QED
    BY <2>2
<1>2. \E o \in Off : TRUE
  BY CasAssumption
<1> QED
  BY <1>1, <1>2 DEF NoKey, NoOff

\* The fields of a thread.
LEMMA ThreadType ==
    ASSUME Threads, NEW t \in Thread
    PROVE  /\ th[t] \in Good /\ th[t].pc \in Pcs /\ th[t].job \in Jobs /\ th[t].k \in Key
           /\ th[t].o \in Off /\ th[t].h \in Hash \cup {NoHash} /\ th[t].n \in Nat
           /\ th[t].vs \in SUBSET Hash /\ Fits(th[t].job, th[t].pc, th[t].h)
<1>1. th[t] \in Good
  BY DEF Threads
<1>2. th[t] \in Recs /\ Fits(th[t].job, th[t].pc, th[t].h)
  BY <1>1 DEF Good
<1>3. /\ th[t].pc \in Pcs /\ th[t].job \in Jobs /\ th[t].k \in Key /\ th[t].o \in Off
      /\ th[t].h \in Hash \cup {NoHash} /\ th[t].n \in Nat /\ th[t].vs \in SUBSET Hash
  BY <1>2 DEF Recs
<1> QED
  BY <1>1, <1>2, <1>3

\* A job as it starts, and an idle thread.
LEMMA JobType ==
    ASSUME NEW pc \in Pcs, NEW job \in Jobs, NEW k \in Key, NEW o \in Off, NEW h \in Hash \cup {NoHash},
           Fits(job, pc, h)
    PROVE  /\ Job(pc, job, k, o, h) \in Good
           /\ Job(pc, job, k, o, h).pc = pc /\ Job(pc, job, k, o, h).job = job
           /\ Job(pc, job, k, o, h).k = k /\ Job(pc, job, k, o, h).o = o
           /\ Job(pc, job, k, o, h).h = h /\ Job(pc, job, k, o, h).vs = {}
<1> DEFINE x == [pc |-> pc, job |-> job, k |-> k, o |-> o, h |-> h, n |-> 0, vs |-> {}]
<1>1. x \in Recs
  BY DEF Recs
<1>2. x.pc = pc /\ x.job = job /\ x.k = k /\ x.o = o /\ x.h = h /\ x.vs = {}
  OBVIOUS
<1>3. Job(pc, job, k, o, h) = x
  BY DEF Job
<1> HIDE DEF x
<1> QED
  BY <1>1, <1>2, <1>3 DEF Good

\* An idle thread.
LEMMA IdleType ==
    Idle \in Good /\ Idle.pc = "idle" /\ Idle.job = "none" /\ Idle.h = NoHash /\ Idle.vs = {}
<1>1. Fits("none", "idle", NoHash) /\ "idle" \in Pcs /\ "none" \in Jobs
  BY DEF Fits, Blank, Pcs, Jobs
<1> QED
  BY <1>1, NoKeyType, JobType DEF Idle

\* One thread is replaced.
LEMMA Replaced ==
    ASSUME Threads, NEW t \in Thread, NEW x \in Good, th' = [th EXCEPT ![t] = x]
    PROVE  Threads' /\ th'[t] = x /\ \A u \in Thread : u # t => th'[u] = th[u]
BY DEF Threads

\* A thread goes on with its job.
LEMMA Stepped ==
    ASSUME Threads, NEW t \in Thread, NEW pc \in Pcs, NEW h \in Hash \cup {NoHash}, NEW c \in Nat,
           NEW vs \in SUBSET Hash, Step(t, pc, h, c, vs), Fits(th[t].job, pc, h)
    PROVE  /\ Threads' /\ \A u \in Thread : u # t => th'[u] = th[u]
           /\ th'[t].pc = pc /\ th'[t].job = th[t].job /\ th'[t].h = h /\ th'[t].vs = vs
           /\ th'[t].k = th[t].k /\ th'[t].o = th[t].o
<1> DEFINE x == [pc |-> pc, job |-> th[t].job, k |-> th[t].k, o |-> th[t].o, h |-> h, n |-> c, vs |-> vs]
<1>1. th[t].job \in Jobs /\ th[t].k \in Key /\ th[t].o \in Off
  BY ThreadType
<1>2. x \in Recs
  BY <1>1 DEF Recs
<1>3. /\ x.pc = pc /\ x.job = th[t].job /\ x.k = th[t].k /\ x.o = th[t].o /\ x.h = h
      /\ x.vs = vs
  OBVIOUS
<1>4. th' = [th EXCEPT ![t] = x]
  BY DEF Step
<1> HIDE DEF x
<1>5. x \in Good
  BY <1>2, <1>3 DEF Good
<1> QED
  BY <1>3, <1>4, <1>5, Replaced

\* A thread goes to another place of its job, and nothing else of it changes.
LEMMA Gone ==
    ASSUME Threads, NEW t \in Thread, NEW pc \in Pcs, Goto(t, pc), Fits(th[t].job, pc, th[t].h)
    PROVE  /\ Threads' /\ \A u \in Thread : u # t => th'[u] = th[u]
           /\ th'[t].pc = pc /\ th'[t].job = th[t].job /\ th'[t].h = th[t].h /\ th'[t].vs = th[t].vs
           /\ th'[t].k = th[t].k /\ th'[t].o = th[t].o
<1>1. th[t].h \in Hash \cup {NoHash} /\ th[t].n \in Nat /\ th[t].vs \in SUBSET Hash
  BY ThreadType
<1>2. Step(t, pc, th[t].h, th[t].n, th[t].vs)
  BY DEF Goto
<1> QED
  BY <1>1, <1>2, Stepped

\* A thread that was idle starts a job; one that has finished is idle again.
LEMMA Started ==
    ASSUME Threads, NEW t \in Thread, NEW x \in Good, Starts(t, x)
    PROVE  /\ Threads' /\ th'[t] = x /\ \A u \in Thread : u # t => th'[u] = th[u]
           /\ th[t].pc = "idle" /\ th[t].job = "none"
           /\ n' = [n EXCEPT !.op = @ + 1]
<1>1. th[t].pc = "idle" /\ th' = [th EXCEPT ![t] = x] /\ n' = [n EXCEPT !.op = @ + 1]
  BY DEF Starts, At
<1>2. th[t].job = "none"
  BY <1>1, ThreadType DEF Fits, Jobs, Ingesting, Dropping
<1> QED
  BY <1>1, <1>2, Replaced

\* A thread that has finished is idle, and the others go on.
LEMMA Finished ==
    ASSUME Threads, NEW t \in Thread, Done(t)
    PROVE  Threads' /\ th'[t] = Idle /\ \A u \in Thread : u # t => th'[u] = th[u]
BY IdleType, Replaced DEF Done

\* Where a thread is says which job it has, and that it has a hash.
LEMMA JobAt ==
    ASSUME Threads, NEW t \in Thread
    PROVE  /\ th[t].pc \in Ingesting => th[t].job \in {"chunk", "final"} /\ th[t].h \in Hash
           /\ th[t].pc \in {"rebind", "swap"} => th[t].job = "final" /\ th[t].h \in Hash
           /\ th[t].pc \in Dropping => th[t].job \in {"read", "scrub"} /\ th[t].h \in Hash
           /\ th[t].pc \in {"fast", "range", "hit", "wrong"} => th[t].job = "read" /\ th[t].h \in Hash
           /\ th[t].pc = "slow" => th[t].job = "read"
           /\ th[t].pc = "scrub" => th[t].job = "scrub" /\ th[t].h \in Hash
           /\ th[t].pc \in {"clear_files", "clear_count"} => th[t].job = "clear"
           /\ th[t].pc = "idle" => th[t].job = "none"
<1>1. th[t].job \in Jobs /\ Fits(th[t].job, th[t].pc, th[t].h)
  BY ThreadType
<1> QED
  BY <1>1 DEF Fits, Jobs, Ingesting, Dropping, Blank

\* The work of a thread that is not a reader, seen from outside: it is none before
\* and after the step, and nothing happens to the other threads.
Works(t) ==
    \/ IngestChunk(t) \/ Finalize(t) \/ Probe(t) \/ OpenTmp(t) \/ FillTmp(t) \/ Rename(t)
    \/ CommitIngest(t) \/ AccountIngest(t) \/ Rebind(t) \/ SwapPending(t)
    \/ Scrub(t) \/ ScrubCheck(t)
    \/ EvictSee(t) \/ EvictChoose(t) \/ EvictRows(t) \/ EvictFiles(t) \/ EvictCount(t)
    \/ Clear(t) \/ ClearFiles(t) \/ ClearCount(t)

Aside(t) ==
    /\ Threads' /\ \A u \in Thread : u # t => th'[u] = th[u]
    /\ th[t].job # "read" /\ th'[t].job # "read" /\ th'[t].pc # "wrong"

\* A step to another place of an ingest, a scrub or a clear.
LEMMA AsideStep ==
    ASSUME Threads, NEW t \in Thread, NEW pc \in Pcs, NEW h \in Hash \cup {NoHash}, NEW c \in Nat,
           NEW vs \in SUBSET Hash, Step(t, pc, h, c, vs), Fits(th[t].job, pc, h), th[t].job # "read"
    PROVE  Aside(t)
<1>1. /\ Threads' /\ \A u \in Thread : u # t => th'[u] = th[u]
      /\ th'[t].pc = pc /\ th'[t].job = th[t].job
  BY Stepped
<1>2. pc # "wrong"
  BY ThreadType DEF Fits, Jobs, Ingesting, Dropping
<1> QED
  BY <1>1, <1>2 DEF Aside

\* A step to another place that keeps what the thread holds.
LEMMA AsideGo ==
    ASSUME Threads, NEW t \in Thread, NEW pc \in Pcs, Goto(t, pc), Fits(th[t].job, pc, th[t].h),
           th[t].job # "read"
    PROVE  Aside(t)
<1>1. th[t].h \in Hash \cup {NoHash} /\ th[t].n \in Nat /\ th[t].vs \in SUBSET Hash
  BY ThreadType
<1>2. Step(t, pc, th[t].h, th[t].n, th[t].vs)
  BY DEF Goto
<1> QED
  BY <1>1, <1>2, AsideStep

\* The end of a job that was not a read.
LEMMA AsideDone ==
    ASSUME Threads, NEW t \in Thread, Done(t), th[t].job # "read"
    PROVE  Aside(t)
BY Finished, IdleType DEF Aside

\* An ingest ends, or goes on to move its manifest.
LEMMA AsideEnds ==
    ASSUME Threads, NEW t \in Thread, IngestEnds(t), th[t].job \in {"chunk", "final"}, th[t].h \in Hash
    PROVE  Aside(t)
<1>1. CASE th[t].job = "final"
  <2>1. Goto(t, "rebind") /\ Fits(th[t].job, "rebind", th[t].h) /\ "rebind" \in Pcs
    BY <1>1 DEF IngestEnds, Fits, Pcs
  <2> QED
    BY <1>1, <2>1, AsideGo
<1>2. CASE th[t].job # "final"
  BY <1>2, AsideDone DEF IngestEnds
<1> QED
  BY <1>1, <1>2

\* The start of a job that is not a read.
LEMMA AsideStart ==
    ASSUME Threads, NEW t \in Thread, NEW x \in Good, Starts(t, x), x.job # "read", x.pc # "wrong"
    PROVE  Aside(t)
BY Started DEF Aside

\* A thread that ingests, scrubs, evicts or clears stays aside of the readers.
LEMMA WorksAside ==
    ASSUME IInv, NEW t \in Thread, Works(t)
    PROVE  Aside(t)
<1>0. Threads /\ Tables /\ Others
  BY DEF IInv
<1>f. ASSUME NEW job \in {"chunk", "final"}, NEW pc \in Ingesting, NEW h \in Hash
      PROVE  Fits(job, pc, h) /\ pc \in Pcs /\ h \in Hash \cup {NoHash} /\ job \in Jobs
  BY DEF Fits, Pcs, Ingesting, Jobs
<1>1. CASE IngestChunk(t)
  <2>1. PICK k \in Key, o \in Off, h \in Hash : Starts(t, Job("probe", "chunk", k, o, h))
    BY <1>1 DEF IngestChunk
  <2>2. Job("probe", "chunk", k, o, h) \in Good /\ Job("probe", "chunk", k, o, h).job = "chunk"
        /\ Job("probe", "chunk", k, o, h).pc = "probe"
    BY <1>f, JobType DEF Ingesting
  <2> QED
    BY <1>0, <2>1, <2>2, AsideStart
<1>2. CASE Finalize(t)
  <2>1. PICK k \in Key, o \in Off, h \in Hash : Starts(t, Job("probe", "final", k, o, h))
    BY <1>2 DEF Finalize
  <2>2. Job("probe", "final", k, o, h) \in Good /\ Job("probe", "final", k, o, h).job = "final"
        /\ Job("probe", "final", k, o, h).pc = "probe"
    BY <1>f, JobType DEF Ingesting
  <2> QED
    BY <1>0, <2>1, <2>2, AsideStart
<1>3. ASSUME th[t].pc \in Ingesting, NEW pc \in Ingesting, Goto(t, pc) PROVE Aside(t)
  <2>1. th[t].job \in {"chunk", "final"} /\ th[t].h \in Hash
    BY <1>0, <1>3, JobAt
  <2> QED
    BY <1>0, <1>3, <1>f, <2>1, AsideGo
<1>4. CASE Probe(t)
  <2>1. th[t].pc = "probe" /\ (Goto(t, "open") \/ Goto(t, "commit"))
    BY <1>4 DEF Probe, At
  <2> QED
    BY <1>3, <2>1 DEF Ingesting
<1>5. CASE OpenTmp(t) \/ FillTmp(t)
  <2>1. th[t].pc \in Ingesting /\ (Goto(t, "fill") \/ Goto(t, "rename"))
    BY <1>5 DEF OpenTmp, FillTmp, At, Ingesting
  <2> QED
    BY <1>3, <2>1 DEF Ingesting
<1>6. ASSUME th[t].pc \in Ingesting, IngestEnds(t) PROVE Aside(t)
  BY <1>0, <1>6, JobAt, AsideEnds
<1>7. CASE Rename(t)
  <2>1. th[t].pc \in Ingesting /\ (Goto(t, "commit") \/ IngestEnds(t))
    BY <1>7 DEF Rename, At, Ingesting
  <2> QED
    BY <1>3, <1>6, <2>1 DEF Ingesting
<1>8. ASSUME th[t].pc \in Ingesting, NEW pc \in Ingesting, NEW c \in Nat, NEW vs \in SUBSET Hash,
             Step(t, pc, th[t].h, c, vs)
      PROVE  Aside(t)
  <2>1. th[t].job \in {"chunk", "final"} /\ th[t].h \in Hash
    BY <1>0, <1>8, JobAt
  <2>2. Fits(th[t].job, pc, th[t].h) /\ pc \in Pcs
    BY <1>f, <2>1
  <2> QED
    BY <1>0, <1>8, <2>1, <2>2, AsideStep
<1>9. CASE CommitIngest(t)
  <2>1. /\ th[t].pc \in Ingesting
        /\ Step(t, "account", th[t].h, IF th[t].h \in db.rows THEN 0 ELSE 1, th[t].vs)
    BY <1>9 DEF CommitIngest, At, Ingesting
  <2>2. th[t].vs \in SUBSET Hash /\ (IF th[t].h \in db.rows THEN 0 ELSE 1) \in Nat
    BY <1>0, ThreadType
  <2> QED
    BY <1>8, <2>1, <2>2 DEF Ingesting
<1>10. CASE AccountIngest(t)
  <2>1. th[t].pc \in Ingesting /\ (Goto(t, "evict") \/ IngestEnds(t))
    BY <1>10 DEF AccountIngest, At, Ingesting
  <2> QED
    BY <1>3, <1>6, <2>1 DEF Ingesting
<1>11. CASE Rebind(t)
  <2>1. th[t].pc = "rebind" /\ Goto(t, "swap")
    BY <1>11 DEF Rebind, At
  <2>2. th[t].job = "final" /\ th[t].h \in Hash
    BY <1>0, <2>1, JobAt
  <2>3. Fits(th[t].job, "swap", th[t].h) /\ "swap" \in Pcs
    BY <2>2 DEF Fits, Pcs
  <2> QED
    BY <1>0, <2>1, <2>2, <2>3, AsideGo
<1>12. CASE SwapPending(t)
  <2>1. th[t].pc = "swap" /\ Done(t)
    BY <1>12 DEF SwapPending, At
  <2> QED
    BY <1>0, <2>1, JobAt, AsideDone
<1>13. CASE Scrub(t)
  <2>1. PICK h \in Hash : Starts(t, Job("scrub", "scrub", NoKey, NoOff, h))
    BY <1>0, <1>13 DEF Scrub, Tables, Store
  <2>2. Fits("scrub", "scrub", h) /\ "scrub" \in Pcs /\ "scrub" \in Jobs
    BY DEF Fits, Pcs, Jobs
  <2>3. /\ Job("scrub", "scrub", NoKey, NoOff, h) \in Good /\ Job("scrub", "scrub", NoKey, NoOff, h).job = "scrub"
        /\ Job("scrub", "scrub", NoKey, NoOff, h).pc = "scrub"
    BY <2>2, NoKeyType, JobType
  <2> QED
    BY <1>0, <2>1, <2>3, AsideStart
<1>14. CASE ScrubCheck(t)
  <2>1. th[t].pc = "scrub" /\ (Done(t) \/ Goto(t, "drop_file"))
    BY <1>14 DEF ScrubCheck, At
  <2>2. th[t].job = "scrub" /\ th[t].h \in Hash
    BY <1>0, <2>1, JobAt
  <2>3. Fits(th[t].job, "drop_file", th[t].h) /\ "drop_file" \in Pcs
    BY <2>2 DEF Fits, Pcs, Dropping
  <2> QED
    BY <1>0, <2>1, <2>2, <2>3, AsideDone, AsideGo
<1>15. CASE EvictSee(t)
  <2>1. th[t].pc \in Ingesting /\ (IngestEnds(t) \/ Step(t, "evict_rows", th[t].h, total, th[t].vs))
    BY <1>15 DEF EvictSee, At, Ingesting
  <2>2. total \in Nat /\ th[t].vs \in SUBSET Hash
    BY <1>0, CasAssumption, ThreadType DEF Others
  <2> QED
    BY <1>6, <1>8, <2>1, <2>2 DEF Ingesting
<1>16. CASE EvictChoose(t)
  <2>1. PICK V \in SUBSET Hash : IngestEnds(t) \/ Step(t, "evict_txn", th[t].h, 0, V)
    <3>1. PICK V \in Victims(th[t].n) : IngestEnds(t) \/ Step(t, "evict_txn", th[t].h, 0, V)
      BY <1>16 DEF EvictChoose
    <3>2. V \subseteq db.rows /\ db.rows \subseteq Hash
      BY <1>0, <3>1 DEF Victims, Tables, Store
    <3> QED
      BY <3>1, <3>2
  <2>2. th[t].pc \in Ingesting
    BY <1>16 DEF EvictChoose, At, Ingesting
  <2> QED
    BY <1>6, <1>8, <2>1, <2>2 DEF Ingesting
<1>17. CASE EvictRows(t) \/ EvictFiles(t)
  <2>1. th[t].pc \in Ingesting /\ (Goto(t, "evict_files") \/ Goto(t, "evict_count"))
    BY <1>17 DEF EvictRows, EvictFiles, At, Ingesting
  <2> QED
    BY <1>3, <2>1 DEF Ingesting
<1>18. CASE EvictCount(t)
  <2>1. /\ th[t].pc \in Ingesting
        /\ IF th[t].job = "final" THEN Step(t, "rebind", th[t].h, th[t].n, {}) ELSE Done(t)
    BY <1>18 DEF EvictCount, At, Ingesting
  <2>2. th[t].job \in {"chunk", "final"} /\ th[t].h \in Hash /\ th[t].n \in Nat
    BY <1>0, <2>1, JobAt, ThreadType
  <2>3. th[t].job = "final" => Fits(th[t].job, "rebind", th[t].h) /\ "rebind" \in Pcs
    BY <2>2 DEF Fits, Pcs
  <2> QED
    BY <1>0, <2>1, <2>2, <2>3, AsideDone, AsideStep
<1>19. CASE Clear(t)
  <2>1. Starts(t, Job("clear_files", "clear", NoKey, NoOff, NoHash))
    BY <1>19 DEF Clear
  <2>2. Fits("clear", "clear_files", NoHash) /\ "clear_files" \in Pcs /\ "clear" \in Jobs
    BY DEF Fits, Pcs, Jobs, Blank
  <2>3. /\ Job("clear_files", "clear", NoKey, NoOff, NoHash) \in Good
        /\ Job("clear_files", "clear", NoKey, NoOff, NoHash).job = "clear"
        /\ Job("clear_files", "clear", NoKey, NoOff, NoHash).pc = "clear_files"
    BY <2>2, NoKeyType, JobType
  <2> QED
    BY <1>0, <2>1, <2>3, AsideStart
<1>20. CASE ClearFiles(t)
  <2>1. th[t].pc = "clear_files" /\ Goto(t, "clear_count")
    BY <1>20 DEF ClearFiles, At
  <2>2. th[t].job = "clear"
    BY <1>0, <2>1, JobAt
  <2>3. Fits(th[t].job, "clear_count", th[t].h) /\ "clear_count" \in Pcs
    BY <2>2 DEF Fits, Pcs, Blank
  <2> QED
    BY <1>0, <2>1, <2>2, <2>3, AsideGo
<1>21. CASE ClearCount(t)
  <2>1. th[t].pc = "clear_count" /\ Done(t)
    BY <1>21 DEF ClearCount, At
  <2> QED
    BY <1>0, <2>1, JobAt, AsideDone
<1> QED
  BY <1>1, <1>2, <1>4, <1>5, <1>7, <1>9, <1>10, <1>11, <1>12, <1>13, <1>14, <1>15, <1>16, <1>17, <1>18,
     <1>19, <1>20, <1>21 DEF Works

-----------------------------------------------------------------------------
(***************************************************************************)
(* The readers, as ContentStore sees them.                                 *)
(***************************************************************************)
\* A reader looks up a chunk, is given what it found, or ends; or nothing happens.
Moves(t) ==
    \/ LookOf(t)' = LookOf(t)
    \/ LookOf(t).pc # "given" /\ \E k \in Key, o \in Off : LookOf(t)' = Seen("found", db.man[k][o])
    \/ LookOf(t) = Seen("found", th[t].h) /\ th[t].h # NoHash /\ LookOf(t)' = Seen("given", th[t].h)
    \/ LookOf(t)' = Seen("idle", NoHash)

Reads(t) ==
    \/ Read(t) \/ ReadFast(t) \/ ReadSlow(t) \/ ReadRange(t) \/ Answered(t)
    \/ DropFile(t) \/ DropRow(t) \/ DropCount(t)

\* What a step of a reader is.
Inside(t) ==
    /\ Threads' /\ \A u \in Thread : u # t => th'[u] = th[u]
    /\ "bad" \notin Damage => th'[t].pc # "wrong" /\ Moves(t)

\* The hash in a manifest, or none.
LEMMA ManType ==
    ASSUME Tables, NEW k \in Key, NEW o \in Off
    PROVE  db.man[k][o] \in Hash \cup {NoHash}
<1>1. db.man \in [Key -> [Off -> Hash \cup {NoHash}]]
  BY DEF Tables, Store
<1> QED
  BY <1>1

\* A reader's step from one place of its job to another, but to the end.
LEMMA InsideGo ==
    ASSUME Threads, NEW t \in Thread, NEW pc \in Pcs, Goto(t, pc), th[t].job \in {"read", "scrub"},
           Fits(th[t].job, pc, th[t].h), th[t].pc \notin {"hit", "wrong"},
           pc = "hit" => th[t].job = "read" /\ th[t].h \in Hash,
           "bad" \notin Damage => pc # "wrong"
    PROVE  Inside(t)
<1>1. /\ Threads' /\ \A u \in Thread : u # t => th'[u] = th[u]
      /\ th'[t].pc = pc /\ th'[t].job = th[t].job /\ th'[t].h = th[t].h
  BY Gone
<1>2. CASE pc # "wrong"
  <2>1. Moves(t)
    BY <1>1, <1>2, CasAssumption DEF Moves, LookOf
  <2> QED
    BY <1>1, <1>2, <2>1 DEF Inside
<1>3. CASE pc = "wrong"
  BY <1>1, <1>3 DEF Inside
<1> QED
  BY <1>2, <1>3

\* The end of a read.
LEMMA InsideDone ==
    ASSUME Threads, NEW t \in Thread, Done(t)
    PROVE  Inside(t)
<1>1. Threads' /\ th'[t] = Idle /\ \A u \in Thread : u # t => th'[u] = th[u]
  BY Finished
<1>2. LookOf(t)' = Seen("idle", NoHash) /\ th'[t].pc # "wrong"
  BY <1>1, IdleType DEF LookOf
<1> QED
  BY <1>1, <1>2 DEF Inside, Moves

\* Every step of a reader is one that ContentStore knows.
LEMMA ReadsInside ==
    ASSUME IInv, NEW t \in Thread, Reads(t)
    PROVE  Inside(t)
<1>0. Threads /\ Tables /\ Files /\ NoLie
  BY DEF IInv
<1>1. CASE Read(t)
  <2>1. PICK k \in Key, o \in Off :
           Starts(t, Job(IF db.man[k][o] = NoHash THEN "slow" ELSE "fast", "read", k, o, db.man[k][o]))
    BY <1>1 DEF Read
  <2>2. PICK h \in Hash \cup {NoHash} : h = db.man[k][o]
    BY <1>0, ManType
  <2>3. PICK pc \in Pcs : pc = (IF h = NoHash THEN "slow" ELSE "fast")
    BY DEF Pcs
  <2>4. Fits("read", pc, h) /\ "read" \in Jobs
    BY <2>2, <2>3 DEF Fits, Jobs, Blank
  <2>5. PICK x \in Good : x = Job(pc, "read", k, o, h) /\ x.pc = pc /\ x.job = "read" /\ x.h = h
    BY <2>4, JobType
  <2>6. Starts(t, x)
    BY <2>1, <2>2, <2>3, <2>5
  <2>7. /\ Threads' /\ th'[t] = x /\ \A u \in Thread : u # t => th'[u] = th[u]
        /\ th[t].job = "none"
    BY <1>0, <2>6, Started
  <2>8. th'[t].pc \notin {"hit", "wrong"} /\ LookOf(t)' = Seen("found", h)
    BY <2>3, <2>5, <2>7 DEF LookOf
  <2>9. LookOf(t).pc # "given"
    BY <2>7 DEF LookOf, Seen
  <2>10. Moves(t)
    BY <2>2, <2>8, <2>9 DEF Moves
  <2> QED
    BY <2>7, <2>8, <2>10 DEF Inside
<1>2. CASE ReadFast(t)
  <2>1. /\ th[t].pc = "fast"
        /\ Goto(t, CASE Opened(th[t].h) = "good" -> "hit" [] Opened(th[t].h) = "bad" -> "wrong" [] OTHER -> "slow")
    BY <1>2 DEF ReadFast, At
  <2>2. th[t].job = "read" /\ th[t].h \in Hash
    BY <1>0, <2>1, JobAt
  <2>3. "bad" \notin Damage => Opened(th[t].h) # "bad"
    BY <1>0, <2>2 DEF NoLie, Opened
  <2>4. PICK pc \in {"hit", "wrong", "slow"} : Goto(t, pc) /\ ("bad" \notin Damage => pc # "wrong")
    BY <2>1, <2>3
  <2>5. Fits(th[t].job, pc, th[t].h) /\ pc \in Pcs
    BY <2>2, <2>4 DEF Fits, Pcs
  <2> QED
    BY <1>0, <2>1, <2>2, <2>4, <2>5, InsideGo
<1>3. CASE ReadSlow(t)
  <2>1. th[t].pc = "slow" /\ th[t].job = "read"
    BY <1>0, <1>3, JobAt DEF ReadSlow, At
  <2>2. th[t].k \in Key /\ th[t].o \in Off /\ th[t].n \in Nat /\ th[t].vs \in SUBSET Hash
    BY <1>0, ThreadType
  <2>3. PICK h \in Hash \cup {NoHash} : h = db.man[th[t].k][th[t].o]
    BY <1>0, <2>2, ManType
  <2>4. IF h = NoHash THEN Done(t) ELSE Step(t, "range", h, th[t].n, th[t].vs)
    BY <1>3, <2>3 DEF ReadSlow
  <2>5. CASE h = NoHash
    BY <1>0, <2>4, <2>5, InsideDone
  <2>6. CASE h # NoHash
    <3>1. Fits(th[t].job, "range", h) /\ "range" \in Pcs
      BY <2>1, <2>6 DEF Fits, Pcs
    <3>2. /\ Threads' /\ \A u \in Thread : u # t => th'[u] = th[u]
          /\ th'[t].pc = "range" /\ th'[t].job = th[t].job /\ th'[t].h = h
      BY <1>0, <2>2, <2>4, <2>6, <3>1, Stepped
    <3>3. LookOf(t)' = Seen("found", h) /\ LookOf(t).pc # "given"
      BY <2>1, <3>2 DEF LookOf, Seen
    <3>4. Moves(t)
      BY <2>2, <2>3, <3>3 DEF Moves
    <3> QED
      BY <3>2, <3>4 DEF Inside
  <2> QED
    BY <2>5, <2>6
<1>4. CASE ReadRange(t)
  <2>1. th[t].pc = "range" /\ th[t].job = "read" /\ th[t].h \in Hash
    BY <1>0, <1>4, JobAt DEF ReadRange, At
  <2>2. file[th[t].h] \in Content /\ ("bad" \notin Damage => file[th[t].h] # "bad")
    BY <1>0, <2>1 DEF Files, NoLie
  <2>3. \/ Done(t)
        \/ \E pc \in {"hit", "wrong", "drop_file"} : Goto(t, pc) /\ ("bad" \notin Damage => pc # "wrong")
    BY <1>4, <2>2 DEF ReadRange, Content
  <2>4. \A pc \in {"hit", "wrong", "drop_file"} : Fits(th[t].job, pc, th[t].h) /\ pc \in Pcs
    BY <2>1 DEF Fits, Pcs, Dropping
  <2> QED
    BY <1>0, <2>1, <2>3, <2>4, InsideDone, InsideGo
<1>5. CASE Answered(t) \/ DropCount(t)
  BY <1>0, <1>5, InsideDone DEF Answered, DropCount
<1>6. CASE DropFile(t)
  <2>1. th[t].pc = "drop_file" /\ Goto(t, "drop_row")
    BY <1>6 DEF DropFile, At
  <2>2. th[t].job \in {"read", "scrub"} /\ th[t].h \in Hash
    BY <1>0, <2>1, JobAt DEF Dropping
  <2>3. Fits(th[t].job, "drop_row", th[t].h) /\ "drop_row" \in Pcs
    BY <2>2 DEF Fits, Pcs, Dropping
  <2> QED
    BY <1>0, <2>1, <2>2, <2>3, InsideGo
<1>7. CASE DropRow(t)
  <2>1. /\ th[t].pc = "drop_row"
        /\ Step(t, "drop_count", th[t].h, IF th[t].h \in db.rows THEN 1 ELSE 0, th[t].vs)
    BY <1>7 DEF DropRow, At
  <2>2. th[t].job \in {"read", "scrub"} /\ th[t].h \in Hash /\ th[t].vs \in SUBSET Hash
    BY <1>0, <2>1, JobAt, ThreadType DEF Dropping
  <2>3. Fits(th[t].job, "drop_count", th[t].h) /\ "drop_count" \in Pcs
    BY <2>2 DEF Fits, Pcs, Dropping
  <2>4. PICK c \in Nat : Step(t, "drop_count", th[t].h, c, th[t].vs)
    <3>1. (IF th[t].h \in db.rows THEN 1 ELSE 0) \in Nat
      OBVIOUS
    <3> QED
      BY <2>1, <3>1
  <2>5. /\ Threads' /\ \A u \in Thread : u # t => th'[u] = th[u]
        /\ th'[t].pc = "drop_count" /\ th'[t].job = th[t].job /\ th'[t].h = th[t].h
    BY <1>0, <2>2, <2>3, <2>4, Stepped
  <2>6. LookOf(t)' = LookOf(t)
    BY <2>1, <2>5 DEF LookOf
  <2> QED
    BY <2>5, <2>6 DEF Inside, Moves
<1> QED
  BY <1>1, <1>2, <1>3, <1>4, <1>5, <1>6, <1>7 DEF Reads

-----------------------------------------------------------------------------
(***************************************************************************)
(* The files.                                                              *)
(***************************************************************************)
Honest == "bad" \notin Damage => \A h \in Hash : file[h] # "bad" /\ held[h] # "bad"

\* The same files are open, and what they are, or were, is there.
LEMMA FilesKeep ==
    ASSUME Files, fds' = fds, file' \in [Hash -> Content], tmp' \in [Hash -> Content \ {"bad"}],
           held' \in [Hash -> Content \cup {"path"}],
           \A h \in Hash : held'[h] = "none" <=> held[h] = "none",
           \A h \in Hash : held'[h] = "path" => file'[h] # "none"
    PROVE  Files'
<1>1. {h \in Hash : held'[h] # "none"} = {h \in Hash : held[h] # "none"}
  OBVIOUS
<1> QED
  BY <1>1 DEF Files

\* Files are removed, or replaced: an open one that was under its hash is kept as it was.
LEMMA Unlinked ==
    ASSUME Files, NEW S \in SUBSET Hash, Unlink(S)
    PROVE  /\ held' \in [Hash -> Content \cup {"path"}]
           /\ \A h \in Hash : held'[h] = "none" <=> held[h] = "none"
           /\ \A h \in Hash : held'[h] = "path" => h \notin S /\ held[h] = "path"
           /\ \A h \in Hash : held'[h] = "bad" => held[h] = "bad" \/ file[h] = "bad"
<1>1. /\ file \in [Hash -> Content] /\ held \in [Hash -> Content \cup {"path"}]
      /\ \A h \in Hash : held[h] = "path" => file[h] # "none"
  BY DEF Files
<1>2. held' = [h \in Hash |-> IF h \in S /\ held[h] = "path" THEN file[h] ELSE held[h]]
  BY DEF Unlink
<1>3. \A h \in Hash : file[h] # "path"
  BY <1>1 DEF Content
<1> QED
  BY <1>1, <1>2, <1>3

\* Files are removed: an open one is kept as it was.
LEMMA Erased ==
    ASSUME Files, Honest, NEW S \in SUBSET Hash, Erase(S), fds' = fds,
           tmp' \in [Hash -> Content \ {"bad"}]
    PROVE  Files' /\ Honest' /\ \A h \in Hash \ S : file'[h] = file[h]
<1>1. /\ file \in [Hash -> Content] /\ held \in [Hash -> Content \cup {"path"}]
      /\ \A h \in Hash : held[h] = "path" => file[h] # "none"
  BY DEF Files
<1>2. file' = [h \in Hash |-> IF h \in S THEN "none" ELSE file[h]] /\ Unlink(S)
  BY DEF Erase
<1>3. /\ held' \in [Hash -> Content \cup {"path"}]
      /\ \A h \in Hash : held'[h] = "none" <=> held[h] = "none"
      /\ \A h \in Hash : held'[h] = "path" => h \notin S /\ held[h] = "path"
      /\ \A h \in Hash : held'[h] = "bad" => held[h] = "bad" \/ file[h] = "bad"
  BY <1>2, Unlinked
<1>4. /\ file' \in [Hash -> Content] /\ \A h \in Hash : held'[h] = "path" => file'[h] # "none"
      /\ \A h \in Hash : file'[h] = IF h \in S THEN "none" ELSE file[h]
  BY <1>1, <1>2, <1>3 DEF Content
<1>5. Files'
  BY <1>3, <1>4, FilesKeep
<1>6. Honest'
  BY <1>3, <1>4 DEF Honest
<1> QED
  BY <1>4, <1>5, <1>6

\* The open files that stay when one more is opened.
LEMMA KeptType ==
    ASSUME Files
    PROVE  Kept \in Seq(Hash) /\ Len(Kept) + 1 <= FD_CAP /\ ToSet(Kept) \subseteq ToSet(fds)
<1>1. fds \in Seq(Hash) /\ Len(fds) \in Nat /\ Len(fds) <= FD_CAP /\ FD_CAP \in Nat \ {0}
  BY CasAssumption DEF Files
<1>2. CASE Len(fds) >= FD_CAP
  <2>1. fds # <<>> /\ Kept = Tail(fds)
    BY <1>1, <1>2 DEF Kept
  <2>2. /\ Tail(fds) \in Seq(Hash) /\ Len(Tail(fds)) = Len(fds) - 1
        /\ DOMAIN Tail(fds) = 1 .. Len(fds) - 1 /\ DOMAIN fds = 1 .. Len(fds)
        /\ \A i \in 1 .. Len(fds) - 1 : Tail(fds)[i] = fds[i + 1]
    BY <1>1, <2>1
  <2>3. \A i \in 1 .. Len(fds) - 1 : i + 1 \in 1 .. Len(fds)
    BY <1>1
  <2>4. ToSet(Tail(fds)) \subseteq ToSet(fds)
    BY <2>2, <2>3 DEF ToSet
  <2> QED
    BY <1>1, <2>1, <2>2, <2>4
<1>3. CASE ~(Len(fds) >= FD_CAP)
  BY <1>1, <1>3 DEF Kept
<1> QED
  BY <1>2, <1>3

\* The set of a sequence with one more element.
LEMMA ToSetAppend ==
    ASSUME NEW q \in Seq(Hash), NEW h \in Hash
    PROVE  ToSet(Append(q, h)) = ToSet(q) \cup {h}
<1>1. /\ Len(q) \in Nat /\ DOMAIN q = 1 .. Len(q) /\ DOMAIN Append(q, h) = 1 .. Len(q) + 1
      /\ Append(q, h)[Len(q) + 1] = h /\ \A i \in 1 .. Len(q) : Append(q, h)[i] = q[i]
  OBVIOUS
<1>2. \A i \in 1 .. Len(q) + 1 : i \in 1 .. Len(q) \/ i = Len(q) + 1
  BY <1>1
<1>3. \A i \in 1 .. Len(q) : i \in 1 .. Len(q) + 1
  BY <1>1
<1>4. Len(q) + 1 \in 1 .. Len(q) + 1
  BY <1>1
<1>5. ASSUME NEW g \in ToSet(Append(q, h)) PROVE g \in ToSet(q) \cup {h}
  <2>1. PICK i \in DOMAIN Append(q, h) : g = Append(q, h)[i]
    BY <1>5 DEF ToSet
  <2> QED
    BY <1>1, <1>2, <2>1 DEF ToSet
<1>6. ASSUME NEW g \in ToSet(q) \cup {h} PROVE g \in ToSet(Append(q, h))
  <2>1. CASE g = h
    BY <1>1, <1>4, <2>1 DEF ToSet
  <2>2. CASE g # h
    <3>1. PICK i \in DOMAIN q : g = q[i]
      BY <1>6, <2>2 DEF ToSet
    <3>2. i \in DOMAIN Append(q, h) /\ Append(q, h)[i] = g
      BY <1>1, <1>3, <3>1
    <3> QED
      BY <3>2 DEF ToSet
  <2> QED
    BY <2>1, <2>2
<1> QED
  BY <1>5, <1>6

\* A file is opened, and the oldest open one perhaps closed.
LEMMA OpenedFile ==
    ASSUME Files, Honest, NEW h \in Hash, held[h] = "none", file[h] # "none",
           UNCHANGED <<file, tmp>>, fds' = Append(Kept, h),
           held' = [g \in Hash |-> CASE g = h -> "path" [] g \in ToSet(Kept) -> held[g] [] OTHER -> "none"]
    PROVE  Files' /\ Honest'
<1>1. /\ file \in [Hash -> Content] /\ tmp \in [Hash -> Content \ {"bad"}]
      /\ held \in [Hash -> Content \cup {"path"}]
      /\ ToSet(fds) = {g \in Hash : held[g] # "none"}
      /\ \A g \in Hash : held[g] = "path" => file[g] # "none"
  BY DEF Files
<1>2. Kept \in Seq(Hash) /\ Len(Kept) + 1 <= FD_CAP /\ ToSet(Kept) \subseteq ToSet(fds)
  BY KeptType
<1>3. PICK q \in Seq(Hash) : q = Kept
  BY <1>2
<1>4. Append(q, h) \in Seq(Hash) /\ Len(Append(q, h)) = Len(q) + 1 /\ ToSet(Append(q, h)) = ToSet(q) \cup {h}
  BY <1>3, ToSetAppend
<1>5. PICK K \in SUBSET Hash : K = ToSet(q) /\ \A g \in K : held[g] # "none"
  BY <1>1, <1>2, <1>3
<1>6. \A g \in Hash : held'[g] = IF g = h THEN "path" ELSE IF g \in K THEN held[g] ELSE "none"
  BY <1>3, <1>5
<1>7. held' \in [Hash -> Content \cup {"path"}]
  <2>1. \A g \in Hash : held'[g] \in Content \cup {"path"}
    BY <1>1, <1>6 DEF Content
  <2>2. held' = [g \in Hash |-> held'[g]]
    OBVIOUS
  <2> QED
    BY <2>1, <2>2
<1>8. ToSet(fds') = {g \in Hash : held'[g] # "none"}
  <2>1. K \cup {h} = {g \in Hash : held'[g] # "none"}
    BY <1>5, <1>6
  <2> QED
    BY <1>3, <1>4, <1>5, <2>1
<1>9. fds' \in Seq(Hash) /\ Len(fds') <= FD_CAP
  BY <1>2, <1>3, <1>4
<1>10. Honest'
  BY <1>6 DEF Honest
<1> QED
  BY <1>1, <1>6, <1>7, <1>8, <1>9, <1>10 DEF Files

\* Every step keeps the files in order.
LEMMA FilesStep ==
    ASSUME IInv, [Next]_vars
    PROVE  Files' /\ Honest'
<1>0. Threads /\ Files /\ Honest
  BY DEF IInv, NoLie, Honest
<1>a. /\ file \in [Hash -> Content] /\ tmp \in [Hash -> Content \ {"bad"}]
      /\ held \in [Hash -> Content \cup {"path"}]
      /\ \A h \in Hash : held[h] = "path" => file[h] # "none"
  BY <1>0 DEF Files
<1>b. ASSUME UNCHANGED <<file, tmp, fds, held>> PROVE Files' /\ Honest'
  BY <1>0, <1>b DEF Files, Honest
<1>1. ASSUME NEW t \in Thread, OpenTmp(t) PROVE Files' /\ Honest'
  <2>1. th[t].h \in Hash
    BY <1>0, <1>1, JobAt DEF OpenTmp, At, Ingesting
  <2>2. tmp' \in [Hash -> Content \ {"bad"}] /\ UNCHANGED <<file, fds, held>>
    BY <1>1, <1>a, <2>1 DEF OpenTmp, Content
  <2> QED
    BY <1>0, <1>a, <2>2, FilesKeep DEF Honest
<1>2. ASSUME NEW t \in Thread, FillTmp(t) PROVE Files' /\ Honest'
  <2>1. PICK h \in Hash : h = th[t].h
    BY <1>0, <1>2, JobAt DEF FillTmp, At, Ingesting
  <2>2. /\ tmp' = [tmp EXCEPT ![h] = "good"] \/ tmp' = tmp
        /\ file' = (IF file[h] = "short" THEN [file EXCEPT ![h] = "good"] ELSE file) \/ file' = file
        /\ UNCHANGED <<fds, held>>
    BY <1>2, <2>1 DEF FillTmp
  <2>3. tmp' \in [Hash -> Content \ {"bad"}]
    BY <1>a, <2>2 DEF Content
  <2>4. /\ file' \in [Hash -> Content]
        /\ \A g \in Hash : file'[g] = file[g] \/ file'[g] = "good"
    BY <1>a, <2>2 DEF Content
  <2>5. \A g \in Hash : held'[g] = "path" => file'[g] # "none"
    BY <1>a, <2>2, <2>4
  <2> QED
    BY <1>0, <1>a, <2>2, <2>3, <2>4, <2>5, FilesKeep DEF Honest
<1>3. ASSUME NEW t \in Thread, Rename(t) PROVE Files' /\ Honest'
  <2>1. PICK h \in Hash : h = th[t].h
    BY <1>0, <1>3, JobAt DEF Rename, At, Ingesting
  <2>2. CASE tmp[h] = "none"
    BY <1>3, <1>b, <2>1, <2>2 DEF Rename, filevars
  <2>3. CASE tmp[h] # "none"
    <3>1. /\ file' = [file EXCEPT ![h] = tmp[h]] /\ Unlink({h})
          /\ tmp' = [tmp EXCEPT ![h] = "none"] /\ fds' = fds
      BY <1>3, <2>1, <2>3 DEF Rename
    <3>2. tmp' \in [Hash -> Content \ {"bad"}] /\ file' \in [Hash -> Content]
          /\ file'[h] \notin {"none", "bad"} /\ \A g \in Hash : g # h => file'[g] = file[g]
      BY <1>a, <2>3, <3>1 DEF Content
    <3>3. {h} \in SUBSET Hash
      OBVIOUS
    <3>4. /\ held' \in [Hash -> Content \cup {"path"}]
          /\ \A g \in Hash : held'[g] = "none" <=> held[g] = "none"
          /\ \A g \in Hash : held'[g] = "path" => g \notin {h} /\ held[g] = "path"
          /\ \A g \in Hash : held'[g] = "bad" => held[g] = "bad" \/ file[g] = "bad"
      BY <1>0, <3>1, <3>3, Unlinked
    <3>5. \A g \in Hash : held'[g] = "path" => file'[g] # "none"
      BY <1>a, <3>2, <3>4
    <3>6. Honest'
      BY <1>0, <3>2, <3>4 DEF Honest
    <3> QED
      BY <1>0, <3>1, <3>2, <3>4, <3>5, <3>6, FilesKeep
  <2> QED
    BY <2>2, <2>3
<1>4. ASSUME NEW t \in Thread, ReadFast(t) PROVE Files' /\ Honest'
  <2>1. PICK h \in Hash : h = th[t].h
    BY <1>0, <1>4, JobAt DEF ReadFast, At
  <2>2. CASE held[h] # "none" \/ file[h] = "none"
    BY <1>4, <1>b, <2>1, <2>2 DEF ReadFast
  <2>3. CASE held[h] = "none" /\ file[h] # "none"
    <3>1. /\ UNCHANGED <<file, tmp>> /\ fds' = Append(Kept, h)
          /\ held' = [g \in Hash |-> CASE g = h -> "path" [] g \in ToSet(Kept) -> held[g] [] OTHER -> "none"]
      BY <1>4, <2>1, <2>3 DEF ReadFast
    <3> QED
      BY <1>0, <2>3, <3>1, OpenedFile
  <2> QED
    BY <2>2, <2>3
<1>5. ASSUME NEW t \in Thread, DropFile(t) \/ EvictFiles(t) \/ ClearFiles(t) PROVE Files' /\ Honest'
  <2>1. PICK S \in SUBSET Hash : Erase(S)
    <3>1. CASE DropFile(t)
      <4>1. th[t].h \in Hash /\ Erase({th[t].h})
        BY <1>0, <3>1, JobAt DEF DropFile, At, Dropping
      <4> QED
        BY <4>1
    <3>2. CASE EvictFiles(t)
      BY <1>0, <3>2, ThreadType DEF EvictFiles
    <3>3. CASE ClearFiles(t)
      BY <3>3 DEF ClearFiles
    <3> QED
      BY <1>5, <3>1, <3>2, <3>3
  <2>2. fds' = fds /\ tmp' \in [Hash -> Content \ {"bad"}]
    BY <1>5, <1>a DEF DropFile, EvictFiles, ClearFiles, Content
  <2> QED
    BY <1>0, <2>1, <2>2, Erased
<1>6. CASE Rot
  <2>1. PICK h \in Hash, c \in Damage : file' = [file EXCEPT ![h] = c]
    BY <1>6 DEF Rot
  <2>2. c \in Content /\ c # "none" /\ ("bad" \notin Damage => c # "bad")
    BY CasAssumption DEF Content
  <2>3. UNCHANGED <<tmp, fds, held>>
    BY <1>6 DEF Rot
  <2>4. /\ file' \in [Hash -> Content] /\ \A g \in Hash : held'[g] = "path" => file'[g] # "none"
        /\ \A g \in Hash : file'[g] = IF g = h THEN c ELSE file[g]
    BY <1>a, <2>1, <2>2, <2>3
  <2>5. Files'
    BY <1>0, <1>a, <2>3, <2>4, FilesKeep
  <2> QED
    BY <1>0, <2>2, <2>3, <2>4, <2>5 DEF Honest
<1>7. CASE Kill
  <2>1. fds' = <<>> /\ held' = [h \in Hash |-> "none"] /\ UNCHANGED <<file, tmp>>
    BY <1>7 DEF Kill
  <2>2. ToSet(fds') = {} /\ Len(fds') = 0 /\ fds' \in Seq(Hash)
    BY <2>1 DEF ToSet
  <2>3. {h \in Hash : held'[h] # "none"} = {}
    BY <2>1
  <2>4. held' \in [Hash -> Content \cup {"path"}] /\ \A h \in Hash : held'[h] = "none"
    BY <2>1 DEF Content
  <2> QED
    BY <1>0, <1>a, <2>1, <2>2, <2>3, <2>4, CasAssumption DEF Files, Honest
<1>8. ASSUME NEW t \in Thread,
             \/ IngestChunk(t) \/ Finalize(t) \/ Probe(t) \/ CommitIngest(t) \/ AccountIngest(t)
             \/ Rebind(t) \/ SwapPending(t) \/ Read(t) \/ ReadSlow(t) \/ ReadRange(t) \/ Answered(t)
             \/ DropRow(t) \/ DropCount(t) \/ Scrub(t) \/ ScrubCheck(t) \/ EvictSee(t)
             \/ EvictChoose(t) \/ EvictRows(t) \/ EvictCount(t) \/ DropNode(t) \/ Clear(t) \/ ClearCount(t)
      PROVE  Files' /\ Honest'
  <2>1. UNCHANGED <<file, tmp, fds, held>>
    BY <1>8 DEF IngestChunk, Finalize, Probe, CommitIngest, AccountIngest, Rebind, SwapPending, Read,
       ReadSlow, ReadRange, Answered, DropRow, DropCount, Scrub, ScrubCheck, EvictSee, EvictChoose,
       EvictRows, EvictCount, DropNode, Clear, ClearCount, filevars
  <2> QED
    BY <1>b, <2>1
<1>9. CASE Wake \/ Persist \/ Cool \/ UNCHANGED vars
  <2>1. UNCHANGED <<file, tmp, fds, held>>
    BY <1>9 DEF Wake, Persist, Cool, vars, filevars
  <2> QED
    BY <1>b, <2>1
<1> QED
  BY <1>1, <1>2, <1>3, <1>4, <1>5, <1>6, <1>7, <1>8, <1>9 DEF Next

-----------------------------------------------------------------------------
(***************************************************************************)
(* The tables.                                                             *)
(***************************************************************************)
Row  == [Off -> Hash \cup {NoHash}]
Mans == [Key -> Row]

\* The parts of a store, and a store with one of them replaced.
LEMMA StoreParts ==
    ASSUME NEW d \in Store, NEW R \in SUBSET Hash, NEW M \in Mans
    PROVE  /\ d.rows \in SUBSET Hash /\ d.man \in Mans
           /\ [d EXCEPT !.rows = R] \in Store /\ [d EXCEPT !.rows = R].man = d.man
           /\ [d EXCEPT !.man = M] \in Store /\ [d EXCEPT !.man = M].man = M
           /\ [rows |-> R, man |-> M] \in Store /\ [rows |-> R, man |-> M].man = M
BY DEF Store, Mans, Row

\* A manifest without chunks, one with one more chunk, and the manifests with one bound.
LEMMA BindType ==
    ASSUME NEW M \in Mans, NEW k \in Key, NEW m \in Row, NEW o \in Off, NEW h \in Hash
    PROVE  /\ NoChunk \in Row /\ M[k] \in Row /\ [m EXCEPT ![o] = h] \in Row
           /\ Bind(M, k, m) \in Mans
           /\ k[1] \in Node /\ k[2] \in Ver /\ <<k[1], WIP>> \in Key /\ k = <<k[1], k[2]>>
<1>1. NoChunk \in Row /\ M[k] \in Row /\ [m EXCEPT ![o] = h] \in Row
  BY DEF NoChunk, Row, Mans
<1>2. Bind(M, k, m) \in Mans
  BY <1>1 DEF Bind, Mans
<1>3. k[1] \in Node /\ k[2] \in Ver /\ <<k[1], WIP>> \in Key /\ k = <<k[1], k[2]>>
  BY CasAssumption DEF Key
<1> QED
  BY <1>1, <1>2, <1>3

\* The transaction of an ingest: durable, or collected under WIP.
LEMMA CommitTables ==
    ASSUME IInv, NEW t \in Thread, CommitIngest(t)
    PROVE  /\ Tables'
           /\ th[t].k \in Key /\ th[t].o \in Off /\ th[t].h \in Hash
           /\ \/ /\ th[t].job = "chunk" /\ disk' = db' /\ owed' = FALSE
                 /\ db'.man = Bind(db.man, th[t].k, [db.man[th[t].k] EXCEPT ![th[t].o] = th[t].h])
              \/ /\ th[t].job # "chunk" /\ disk' = disk /\ owed' = owed
                 /\ db'.man = Bind(db.man, <<th[t].k[1], WIP>>, [NoChunk EXCEPT ![th[t].o] = th[t].h])
           /\ warm' = Named(db'.man)
                       \cup IF th[t].job = "chunk" /\ file[th[t].h] = "good"
                            THEN {[k |-> th[t].k, o |-> th[t].o, h |-> th[t].h]} ELSE {}
<1>0. Threads /\ db \in Store /\ disk \in Store
  BY DEF IInv, Tables
<1>1. PICK k \in Key : k = th[t].k
  BY <1>0, ThreadType
<1>2. PICK o \in Off : o = th[t].o
  BY <1>0, ThreadType
<1>3. PICK h \in Hash : h = th[t].h
  BY <1>0, JobAt DEF CommitIngest, At, Ingesting
<1>4. db.rows \cup {h} \in SUBSET Hash /\ db.man \in Mans
  BY <1>0 DEF Store, Mans, Row
<1>5. NoChunk \in Row /\ db.man[k] \in Row /\ <<k[1], WIP>> \in Key
  <2>1. [g \in Off |-> NoHash] \in Row
    BY DEF Row
  <2> QED
    BY <1>4, <2>1, BindType DEF NoChunk
<1>6. warm' = Named(db'.man)
                  \cup IF th[t].job = "chunk" /\ file[th[t].h] = "good"
                       THEN {[k |-> th[t].k, o |-> th[t].o, h |-> th[t].h]} ELSE {}
  BY DEF CommitIngest
<1>7. CASE th[t].job = "chunk"
  <2>1. db' = WithChunk(db, k, o, h) /\ disk' = db' /\ owed' = FALSE
    BY <1>1, <1>2, <1>3, <1>7 DEF CommitIngest, CommitDurable
  <2>2. PICK M \in Mans : M = Bind(db.man, k, [db.man[k] EXCEPT ![o] = h])
    <3>1. [db.man[k] EXCEPT ![o] = h] \in Row
      BY <1>4, <1>5, BindType
    <3> QED
      BY <1>4, <3>1, BindType
  <2>3. db' = [rows |-> db.rows \cup {h}, man |-> M]
    BY <2>1, <2>2 DEF WithChunk
  <2>4. db' \in Store /\ db'.man = M
    BY <1>0, <1>4, <2>3, StoreParts
  <2> QED
    BY <1>1, <1>2, <1>3, <1>6, <1>7, <2>1, <2>2, <2>4 DEF Tables
<1>8. CASE th[t].job # "chunk"
  <2>1. db' = WithChunks(db, <<k[1], WIP>>, o, h) /\ disk' = disk /\ owed' = owed
    BY <1>1, <1>2, <1>3, <1>8 DEF CommitIngest, CommitVolatile
  <2>2. PICK M \in Mans : M = Bind(db.man, <<k[1], WIP>>, [NoChunk EXCEPT ![o] = h])
    <3>1. [NoChunk EXCEPT ![o] = h] \in Row
      BY <1>4, <1>5, BindType
    <3> QED
      BY <1>4, <1>5, <3>1, BindType
  <2>3. db' = [rows |-> db.rows \cup {h}, man |-> M]
    BY <2>1, <2>2 DEF WithChunks
  <2>4. db' \in Store /\ db'.man = M
    BY <1>0, <1>4, <2>3, StoreParts
  <2> QED
    BY <1>0, <1>1, <1>2, <1>3, <1>6, <1>8, <2>1, <2>2, <2>4 DEF Tables
<1> QED
  BY <1>7, <1>8

\* rebind_manifest moves what was collected, if anything was.
LEMMA RebindTables ==
    ASSUME IInv, NEW t \in Thread, Rebind(t)
    PROVE  /\ Tables' /\ disk' = disk /\ owed' = owed /\ warm' = Named(db'.man)
           /\ th[t].k \in Key /\ <<th[t].k[1], WIP>> \in Key
           /\ \/ db' = db
              \/ /\ db.man[<<th[t].k[1], WIP>>] # NoChunk
                 /\ db'.man = Bind(db.man, th[t].k, db.man[<<th[t].k[1], WIP>>])
<1>0. Threads /\ db \in Store /\ disk \in Store
  BY DEF IInv, Tables
<1>1. PICK k \in Key : k = th[t].k
  BY <1>0, ThreadType
<1>2. db.man \in Mans /\ db.rows \in SUBSET Hash
  BY <1>0 DEF Store, Mans, Row
<1>3. <<k[1], WIP>> \in Key
  BY CasAssumption DEF Key
<1>4. PICK w \in Row : w = db.man[<<k[1], WIP>>]
  BY <1>2, <1>3 DEF Mans
<1>5. /\ db' = (IF w = NoChunk THEN db ELSE [db EXCEPT !.man = Bind(db.man, k, w)])
      /\ disk' = disk /\ owed' = owed /\ warm' = Named(db'.man)
  BY <1>1, <1>4 DEF Rebind, CommitVolatile
<1>6. CASE w = NoChunk
  BY <1>0, <1>1, <1>3, <1>5, <1>6 DEF Tables
<1>7. CASE w # NoChunk
  <2>1. PICK M \in Mans : M = Bind(db.man, k, w)
    <3>1. \A j \in Key : db.man[j] \in Row
      BY <1>2 DEF Mans
    <3>2. NoChunk \in Row
      BY DEF NoChunk, Row
    <3>3. Bind(db.man, k, w) \in Mans
      BY <3>1, <3>2 DEF Bind, Mans
    <3> QED
      BY <3>3
  <2>2. db' = [db EXCEPT !.man = M]
    BY <1>5, <1>7, <2>1
  <2>3. db' \in Store /\ db'.man = M
    BY <1>0, <1>2, <2>2, StoreParts
  <2> QED
    BY <1>0, <1>1, <1>3, <1>4, <1>5, <1>7, <2>1, <2>3 DEF Tables
<1> QED
  BY <1>6, <1>7

\* A file's manifests go, or all of them.
LEMMA DropTables ==
    ASSUME IInv, NEW t \in Thread, DropNode(t) \/ Clear(t)
    PROVE  /\ Tables' /\ disk' = disk /\ owed' = owed
           /\ \/ /\ warm' = Named(db'.man)
                 /\ \E f \in Node : db'.man = [k \in Key |-> IF k[1] = f THEN NoChunk ELSE db.man[k]]
              \/ warm' = {} /\ db'.man = [k \in Key |-> NoChunk]
<1>0. db \in Store /\ disk \in Store
  BY DEF IInv, Tables
<1>1. db.man \in Mans /\ db.rows \in SUBSET Hash /\ NoChunk \in Row
  BY <1>0 DEF Store, Mans, Row, NoChunk
<1>2. CASE DropNode(t)
  <2>1. PICK f \in Node : CommitVolatile([db EXCEPT !.man = [k \in Key |-> IF k[1] = f THEN NoChunk ELSE @[k]]])
    BY <1>2 DEF DropNode
  <2>2. PICK M \in Mans : M = [k \in Key |-> IF k[1] = f THEN NoChunk ELSE db.man[k]]
    BY <1>1 DEF Mans
  <2>3. db' = [db EXCEPT !.man = M] /\ disk' = disk /\ owed' = owed /\ warm' = Named(db'.man)
    BY <1>2, <2>1, <2>2 DEF CommitVolatile, DropNode
  <2>4. db' \in Store /\ db'.man = M
    BY <1>0, <1>1, <2>3, StoreParts
  <2> QED
    BY <1>0, <2>2, <2>3, <2>4 DEF Tables
<1>3. CASE Clear(t)
  <2>1. db' = Fresh /\ disk' = disk /\ owed' = owed /\ warm' = {}
    BY <1>3 DEF Clear, CommitVolatile
  <2>2. [k \in Key |-> NoChunk] \in Mans
    BY <1>1 DEF Mans
  <2>3. Fresh \in Store /\ Fresh.man = [k \in Key |-> NoChunk]
    BY <2>2 DEF Fresh, Store, Mans, Row
  <2> QED
    BY <1>0, <2>1, <2>3 DEF Tables
<1> QED
  BY <1>2, <1>3

\* Rows go, manifests stay.
LEMMA RowTables ==
    ASSUME IInv, NEW t \in Thread, DropRow(t) \/ EvictRows(t)
    PROVE  Tables' /\ disk' = disk /\ owed' = owed /\ warm' = warm /\ db'.man = db.man
<1>0. db \in Store /\ disk \in Store
  BY DEF IInv, Tables
<1>1. db.man \in Mans /\ db.rows \in SUBSET Hash
  BY <1>0 DEF Store, Mans, Row
<1>2. PICK R \in SUBSET Hash : db' = [db EXCEPT !.rows = R]
  <2>1. CASE DropRow(t)
    BY <1>1, <2>1 DEF DropRow, CommitVolatile
  <2>2. CASE EvictRows(t)
    BY <1>1, <2>2 DEF EvictRows, CommitVolatile
  <2> QED
    BY <2>1, <2>2
<1>3. disk' = disk /\ owed' = owed /\ warm' = warm
  BY DEF DropRow, EvictRows, CommitVolatile
<1>4. db' \in Store /\ db'.man = db.man
  BY <1>0, <1>1, <1>2, StoreParts
<1> QED
  BY <1>0, <1>3, <1>4 DEF Tables

\* The steps that leave the tables alone.
Quiet(t) ==
    \/ IngestChunk(t) \/ Finalize(t) \/ Probe(t) \/ OpenTmp(t) \/ FillTmp(t) \/ Rename(t)
    \/ AccountIngest(t) \/ SwapPending(t) \/ Read(t) \/ ReadFast(t) \/ ReadSlow(t) \/ ReadRange(t)
    \/ Answered(t) \/ DropFile(t) \/ DropCount(t) \/ Scrub(t) \/ ScrubCheck(t) \/ EvictSee(t)
    \/ EvictChoose(t) \/ EvictFiles(t) \/ EvictCount(t) \/ ClearFiles(t) \/ ClearCount(t)

\* Steps that commit nothing.
LEMMA QuietTables ==
    ASSUME (\E t \in Thread : Quiet(t)) \/ Wake \/ Cool \/ Rot \/ UNCHANGED vars
    PROVE  db' = db /\ disk' = disk
<1>1. ASSUME NEW t \in Thread, Quiet(t) PROVE db' = db /\ disk' = disk
  BY <1>1 DEF Quiet, IngestChunk, Finalize, Probe, OpenTmp, FillTmp, Rename, AccountIngest, SwapPending,
     Read, ReadFast, ReadSlow, ReadRange, Answered, DropFile, DropCount, Scrub, ScrubCheck, EvictSee,
     EvictChoose, EvictFiles, EvictCount, ClearFiles, ClearCount, dbvars
<1>2. CASE Wake \/ Cool \/ Rot \/ UNCHANGED vars
  BY <1>2 DEF Wake, Cool, Rot, vars, dbvars
<1> QED
  BY <1>1, <1>2

\* The end of the process: the tables are what was durable.
LEMMA KillTables ==
    ASSUME IInv, Kill
    PROVE  Tables' /\ db' = disk /\ disk' = disk /\ warm' = warm /\ file' = file /\ owed' = FALSE
BY DEF IInv, Tables, Kill

\* The delayed persist makes the tables durable.
LEMMA PersistTables ==
    ASSUME IInv, Persist
    PROVE  Tables' /\ db' = db /\ disk' = db /\ warm' = warm /\ file' = file /\ owed' = FALSE
BY DEF IInv, Tables, Persist, CommitDurable, filevars

\* Every step keeps the tables in order.
LEMMA TablesStep ==
    ASSUME IInv, [Next]_vars
    PROVE  Tables'
<1>1. ASSUME NEW t \in Thread, CommitIngest(t) \/ Rebind(t) \/ DropNode(t) \/ Clear(t) \/ DropRow(t) \/ EvictRows(t)
      PROVE  Tables'
  BY <1>1, CommitTables, RebindTables, DropTables, RowTables
<1>2. CASE (\E t \in Thread : Quiet(t)) \/ Wake \/ Cool \/ Rot \/ UNCHANGED vars
  <2>1. db' = db /\ disk' = disk
    BY <1>2, QuietTables
  <2> QED
    BY <2>1 DEF IInv, Tables
<1>3. CASE Kill \/ Persist
  BY <1>3, KillTables, PersistTables
<1> QED
  BY <1>1, <1>2, <1>3 DEF Next, Quiet

-----------------------------------------------------------------------------
(***************************************************************************)
(* What is warm.                                                           *)
(***************************************************************************)
\* What stays warm has its file and its manifest, in the tables and on disk.
LEMMA WarmKept ==
    ASSUME IInv, \A w \in warm' : w \in warm /\ file'[w.h] = "good" /\ db'.man[w.k][w.o] = w.h,
           disk'.man = disk.man \/ disk'.man = db'.man
    PROVE  WarmSurvives' /\ warm' \subseteq Warmth
BY DEF IInv, WarmSurvives, Others

\* Steps that change files only: whoever loses its file is not warm any more.
LEMMA WarmFiles ==
    ASSUME IInv, NEW t \in Thread, Quiet(t)
    PROVE  WarmSurvives' /\ warm' \subseteq Warmth
<1>0. Threads /\ Files /\ WarmSurvives /\ db' = db /\ disk' = disk /\ warm \subseteq Warmth
  BY QuietTables DEF IInv, Others
<1>1. \A w \in warm : w.h \in Hash /\ file[w.h] = "good" /\ db'.man[w.k][w.o] = w.h
  BY <1>0 DEF WarmSurvives, Warmth
<1>2. SUFFICES \A w \in warm' : w \in warm /\ file'[w.h] = "good"
  BY <1>0, <1>1, WarmKept
<1>a. file \in [Hash -> Content]
  BY <1>0 DEF Files
<1>3. CASE FillTmp(t)
  <2>1. PICK h \in Hash : h = th[t].h
    BY <1>0, <1>3, JobAt DEF FillTmp, At, Ingesting
  <2>2. warm' = warm /\ \/ file' = [file EXCEPT ![h] = "good"]
                        \/ file' = file
    BY <1>3, <2>1 DEF FillTmp, hist
  <2>3. \A g \in Hash : file[g] = "good" => file'[g] = "good"
    BY <1>a, <2>2
  <2> QED
    BY <1>1, <2>2, <2>3
<1>4. CASE Rename(t)
  <2>1. PICK h \in Hash : h = th[t].h
    BY <1>0, <1>4, JobAt DEF Rename, At, Ingesting
  <2>2. CASE tmp[h] = "none"
    BY <1>1, <1>4, <2>1, <2>2 DEF Rename, filevars
  <2>3. CASE tmp[h] # "none"
    <3>1. /\ file' = [file EXCEPT ![h] = tmp[h]]
          /\ warm' = (IF tmp[h] = "good" THEN warm ELSE Cooled({h}))
      BY <1>4, <2>1, <2>3 DEF Rename
    <3>2. \A g \in Hash : file'[g] = IF g = h THEN tmp[h] ELSE file[g]
      BY <1>a, <3>1
    <3> QED
      BY <1>1, <3>1, <3>2 DEF Cooled
  <2> QED
    BY <2>2, <2>3
<1>5. CASE DropFile(t)
  <2>1. /\ file' = [h \in Hash |-> IF h \in {th[t].h} THEN "none" ELSE file[h]]
        /\ warm' = Cooled({th[t].h})
    BY <1>5 DEF DropFile, Erase
  <2> QED
    BY <1>1, <2>1 DEF Cooled
<1>6. CASE EvictFiles(t)
  <2>1. /\ file' = [h \in Hash |-> IF h \in th[t].vs THEN "none" ELSE file[h]]
        /\ warm' = Cooled(th[t].vs)
    BY <1>6 DEF EvictFiles, Erase
  <2> QED
    BY <1>1, <2>1 DEF Cooled
<1>7. CASE ClearFiles(t)
  BY <1>7 DEF ClearFiles
<1>8. CASE ~(FillTmp(t) \/ Rename(t) \/ DropFile(t) \/ EvictFiles(t) \/ ClearFiles(t))
  <2>1. file' = file /\ warm' = warm
    BY <1>8 DEF Quiet, IngestChunk, Finalize, Probe, OpenTmp, AccountIngest, SwapPending,
       Read, ReadFast, ReadSlow, ReadRange, Answered, DropCount, Scrub, ScrubCheck, EvictSee,
       EvictChoose, EvictCount, ClearCount, filevars, hist
  <2> QED
    BY <1>1, <2>1
<1> QED
  BY <1>3, <1>4, <1>5, <1>6, <1>7, <1>8

\* Binding a chunk of a manifest names that chunk, and nothing else of its file's others.
LEMMA BoundChunk ==
    ASSUME NEW M \in Mans, NEW k \in Key, NEW o \in Off, NEW h \in Hash
    PROVE  Bind(M, k, [M[k] EXCEPT ![o] = h])[k][o] = h
<1>1. M[k] \in Row
  BY DEF Mans
<1>2. [M[k] EXCEPT ![o] = h][o] = h
  BY <1>1 DEF Row
<1> QED
  BY <1>2 DEF Bind

\* Every step keeps what is warm alive.
LEMMA WarmStep ==
    ASSUME IInv, [Next]_vars
    PROVE  WarmSurvives' /\ warm' \subseteq Warmth
<1>0. WarmSurvives /\ Tables /\ Threads /\ warm \subseteq Warmth
  BY DEF IInv, Others
<1>1. \A w \in warm : file[w.h] = "good" /\ db.man[w.k][w.o] = w.h /\ disk.man[w.k][w.o] = w.h
  BY <1>0 DEF WarmSurvives
<1>2. ASSUME NEW t \in Thread, CommitIngest(t) PROVE WarmSurvives' /\ warm' \subseteq Warmth
  <2>1. PICK k \in Key, o \in Off, h \in Hash : k = th[t].k /\ o = th[t].o /\ h = th[t].h
    BY <1>2, CommitTables
  <2>2. file' = file
    BY <1>2 DEF CommitIngest, filevars
  <2>3. PICK new : new = [k |-> k, o |-> o, h |-> h]
    OBVIOUS
  <2>4. new \in Warmth /\ new.k = k /\ new.o = o /\ new.h = h
    BY <2>3 DEF Warmth
  <2>5. \A w \in Named(db'.man) : w \in warm /\ db'.man[w.k][w.o] = w.h
    BY DEF Named
  <2>6. CASE th[t].job = "chunk"
    <3>1. /\ disk' = db' /\ db'.man = Bind(db.man, k, [db.man[k] EXCEPT ![o] = h])
          /\ warm' = Named(db'.man) \cup (IF file[h] = "good" THEN {new} ELSE {})
      BY <1>2, <2>1, <2>3, <2>6, CommitTables
    <3>2. db.man \in Mans
      BY <1>0 DEF Tables, Store, Mans, Row
    <3>3. db'.man[new.k][new.o] = new.h
      BY <2>4, <3>1, <3>2, BoundChunk
    <3>4. \A w \in warm' : w \in Warmth /\ file[w.h] = "good" /\ db'.man[w.k][w.o] = w.h
      BY <1>0, <1>1, <2>4, <2>5, <3>1, <3>3
    <3> QED
      BY <2>2, <3>1, <3>4 DEF WarmSurvives
  <2>7. CASE th[t].job # "chunk"
    <3>1. disk' = disk /\ warm' = Named(db'.man)
      BY <1>2, <2>7, CommitTables
    <3> QED
      BY <1>1, <2>2, <2>5, <3>1, WarmKept
  <2> QED
    BY <2>6, <2>7
<1>3. ASSUME NEW t \in Thread, Rebind(t) \/ DropNode(t) \/ Clear(t) PROVE WarmSurvives' /\ warm' \subseteq Warmth
  <2>1. file' = file
    BY <1>3 DEF Rebind, DropNode, Clear, filevars
  <2>2. disk' = disk /\ (warm' = Named(db'.man) \/ warm' = {})
    BY <1>3, RebindTables, DropTables
  <2>3. \A w \in Named(db'.man) : w \in warm /\ db'.man[w.k][w.o] = w.h
    BY DEF Named
  <2> QED
    BY <1>1, <2>1, <2>2, <2>3, WarmKept
<1>4. ASSUME NEW t \in Thread, DropRow(t) \/ EvictRows(t) PROVE WarmSurvives' /\ warm' \subseteq Warmth
  <2>1. file' = file
    BY <1>4 DEF DropRow, EvictRows, filevars
  <2> QED
    BY <1>1, <1>4, <2>1, RowTables, WarmKept
<1>5. ASSUME NEW t \in Thread, Quiet(t) PROVE WarmSurvives' /\ warm' \subseteq Warmth
  BY <1>5, WarmFiles
<1>6. CASE Kill
  BY <1>1, <1>6, KillTables, WarmKept
<1>7. CASE Persist
  BY <1>1, <1>7, PersistTables, WarmKept
<1>8. CASE Rot
  <2>1. PICK h \in Hash, c \in Damage : file' = [file EXCEPT ![h] = c] /\ warm' = Cooled({h})
    BY <1>8 DEF Rot
  <2>2. file \in [Hash -> Content]
    BY DEF IInv, Files
  <2>3. \A g \in Hash : g # h => file'[g] = file[g]
    BY <2>1, <2>2
  <2>4. \A w \in warm' : w \in warm /\ w.h # h /\ w.h \in Hash
    BY <1>0, <2>1 DEF Cooled, Warmth
  <2>5. db' = db /\ disk' = disk
    BY <1>8, QuietTables
  <2> QED
    BY <1>1, <2>3, <2>4, <2>5, WarmKept
<1>9. CASE Wake \/ Cool \/ UNCHANGED vars
  <2>1. file' = file /\ warm' = warm /\ db' = db /\ disk' = disk
    BY <1>9 DEF Wake, Cool, vars, filevars, dbvars, hist
  <2> QED
    BY <1>1, <2>1, WarmKept
<1> QED
  BY <1>2, <1>3, <1>4, <1>5, <1>6, <1>7, <1>8, <1>9 DEF Next, Quiet

-----------------------------------------------------------------------------
(***************************************************************************)
(* Counts, flags and timers.                                               *)
(***************************************************************************)
\* The delayed persist: the flag stands for a timer, and what is owed for one that
\* sleeps or is due.
LEMMA PersistStep ==
    ASSUME IInv, [Next]_vars
    PROVE  PendTimer' /\ PersistComing' /\ timers' \in Counters /\ pend' \in BOOLEAN /\ owed' \in BOOLEAN
<1>0. /\ PendTimer /\ PersistComing /\ timers \in Counters /\ pend \in BOOLEAN /\ owed \in BOOLEAN
      /\ timers.asleep \in Nat /\ timers.due \in Nat
  BY DEF IInv, Others, Counters
<1>a. ASSUME NEW x \in Nat
      PROVE  /\ [timers EXCEPT !.asleep = x] \in Counters /\ [timers EXCEPT !.asleep = x].asleep = x
             /\ [timers EXCEPT !.asleep = x].due = timers.due
             /\ [timers EXCEPT !.due = x] \in Counters /\ [timers EXCEPT !.due = x].due = x
             /\ [timers EXCEPT !.due = x].asleep = timers.asleep
  BY <1>0 DEF Counters
<1>b. ASSUME NEW x \in Nat, NEW y \in Nat
      PROVE  /\ [asleep |-> x, due |-> y] \in Counters
             /\ [asleep |-> x, due |-> y].asleep = x /\ [asleep |-> x, due |-> y].due = y
  BY DEF Counters
<1>c. ASSUME pend' = pend, timers' = timers, owed' = owed \/ owed' = FALSE
      PROVE  PendTimer' /\ PersistComing' /\ timers' \in Counters /\ pend' \in BOOLEAN /\ owed' \in BOOLEAN
  <2>1. timers' \in Counters
    BY <1>0, <1>c
  <2>2. pend' \in BOOLEAN /\ PendTimer'
    BY <1>0, <1>c, Zenon DEF PendTimer
  <2>3. CASE owed' = owed
    <3>1. owed' \in BOOLEAN /\ PersistComing'
      BY <1>0, <1>c, <2>3, Zenon DEF PersistComing
    <3> QED
      BY <2>1, <2>2, <3>1
  <2>4. CASE owed' = FALSE
    BY <2>1, <2>2, <2>4 DEF PersistComing
  <2> QED
    BY <1>c, <2>3, <2>4
<1>1. ASSUME NEW t \in Thread, SwapPending(t)
      PROVE  PendTimer' /\ PersistComing' /\ timers' \in Counters /\ pend' \in BOOLEAN /\ owed' \in BOOLEAN
  <2>1. /\ pend' = TRUE /\ owed' = (db # disk)
        /\ timers' = IF pend THEN timers ELSE [timers EXCEPT !.asleep = @ + 1]
    BY <1>1 DEF SwapPending
  <2>2. PICK x \in Nat : x = timers.asleep + 1
    BY <1>0
  <2>3. timers' \in Counters /\ timers'.asleep > 0 /\ timers'.asleep \in Nat /\ timers'.due \in Nat
    <3>1. CASE pend
      BY <1>0, <2>1, <3>1 DEF PendTimer
    <3>2. CASE ~pend
      <4>1. timers' = [timers EXCEPT !.asleep = x]
        BY <2>1, <2>2, <3>2
      <4>2. timers' \in Counters /\ timers'.asleep = x /\ timers'.due = timers.due
        BY <1>a, <4>1
      <4> QED
        BY <1>0, <2>2, <4>2
    <3> QED
      BY <3>1, <3>2
  <2>4. timers'.asleep + timers'.due > 0
    BY <2>3
  <2> QED
    BY <2>1, <2>3, <2>4 DEF PendTimer, PersistComing
<1>2. CASE Wake
  <2>1. /\ pend' = FALSE /\ owed' = owed /\ timers.asleep > 0
        /\ timers' = [asleep |-> timers.asleep - 1, due |-> timers.due + 1]
    BY <1>2 DEF Wake, hist
  <2>2. PICK x \in Nat, y \in Nat : x = timers.asleep - 1 /\ y = timers.due + 1
    BY <1>0, <2>1
  <2>3. timers' \in Counters /\ timers'.asleep = x /\ timers'.due = y
    BY <1>b, <2>1, <2>2
  <2>4. timers'.asleep + timers'.due > 0
    BY <1>0, <2>2, <2>3
  <2> QED
    BY <1>0, <2>1, <2>3, <2>4 DEF PendTimer, PersistComing
<1>3. CASE Persist
  <2>1. pend' = pend /\ owed' = FALSE /\ timers.due > 0 /\ timers' = [timers EXCEPT !.due = @ - 1]
    BY <1>3 DEF Persist, CommitDurable
  <2>2. PICK x \in Nat : x = timers.due - 1
    BY <1>0, <2>1
  <2>3. timers' = [timers EXCEPT !.due = x]
    BY <2>1, <2>2
  <2>4. timers' \in Counters /\ timers'.asleep = timers.asleep
    BY <1>a, <2>3
  <2> QED
    BY <1>0, <2>1, <2>4 DEF PendTimer, PersistComing
<1>4. CASE Kill
  <2>1. pend' = FALSE /\ owed' = FALSE /\ timers' = [asleep |-> 0, due |-> 0]
    BY <1>4 DEF Kill
  <2> QED
    BY <1>b, <2>1 DEF PendTimer, PersistComing
<1>5. ASSUME NEW t \in Thread, CommitIngest(t) \/ Rebind(t) \/ DropNode(t) \/ Clear(t) \/ DropRow(t) \/ EvictRows(t)
      PROVE  PendTimer' /\ PersistComing' /\ timers' \in Counters /\ pend' \in BOOLEAN /\ owed' \in BOOLEAN
  <2>1. owed' = owed \/ owed' = FALSE
    BY <1>5, CommitTables, RebindTables, DropTables, RowTables
  <2>2. pend' = pend /\ timers' = timers
    BY <1>5 DEF CommitIngest, Rebind, DropNode, Clear, DropRow, EvictRows
  <2> QED
    BY <1>c, <2>1, <2>2
<1>6. ASSUME NEW t \in Thread, Quiet(t), ~SwapPending(t)
      PROVE  PendTimer' /\ PersistComing' /\ timers' \in Counters /\ pend' \in BOOLEAN /\ owed' \in BOOLEAN
  <2>1. pend' = pend /\ timers' = timers /\ owed' = owed
    BY <1>6 DEF Quiet, IngestChunk, Finalize, Probe, OpenTmp, FillTmp, Rename, AccountIngest,
       Read, ReadFast, ReadSlow, ReadRange, Answered, DropFile, DropCount, Scrub, ScrubCheck, EvictSee,
       EvictChoose, EvictFiles, EvictCount, ClearFiles, ClearCount, hist
  <2> QED
    BY <1>c, <2>1
<1>7. CASE Cool \/ Rot \/ UNCHANGED vars
  <2>1. pend' = pend /\ timers' = timers /\ owed' = owed
    BY <1>7 DEF Cool, Rot, vars, hist
  <2> QED
    BY <1>c, <2>1
<1> QED
  BY <1>1, <1>2, <1>3, <1>4, <1>5, <1>6, <1>7 DEF Next, Quiet

\* What is modulo WIDTH is below it.
LEMMA WrapType == \A x \in Int : Wrap(x) \in 0 .. WIDTH - 1
BY CasAssumption DEF Wrap

\* The count stays below its width, and what is hot are chunks.
LEMMA CountStep ==
    ASSUME IInv, [Next]_vars
    PROVE  /\ total' \in 0 .. WIDTH - 1 /\ hot' \subseteq Hash /\ raced' \in BOOLEAN
           /\ n' \in [op : Nat, rot : Nat, kill : Nat]
<1>0. /\ Threads /\ Tables /\ total \in 0 .. WIDTH - 1 /\ hot \subseteq Hash /\ raced \in BOOLEAN
      /\ total \in Int /\ n \in [op : Nat, rot : Nat, kill : Nat] /\ n.op \in Nat /\ n.rot \in Nat /\ n.kill \in Nat
  BY CasAssumption DEF IInv, Others
<1>1. total' \in 0 .. WIDTH - 1
  <2>1. ASSUME NEW t \in Thread, AccountIngest(t) PROVE total' \in 0 .. WIDTH - 1
    <3>1. total + th[t].n \in Int /\ total' = Wrap(total + th[t].n)
      BY <1>0, <2>1, ThreadType DEF AccountIngest
    <3> QED
      BY <3>1, WrapType
  <2>2. ASSUME NEW t \in Thread, DropCount(t) PROVE total' \in 0 .. WIDTH - 1
    <3>1. total - th[t].n \in Int /\ total' = Wrap(total - th[t].n)
      BY <1>0, <2>2, ThreadType DEF DropCount
    <3> QED
      BY <3>1, WrapType
  <2>3. ASSUME NEW t \in Thread, EvictCount(t) PROVE total' \in 0 .. WIDTH - 1
    <3>1. th[t].vs \in SUBSET Hash
      BY <1>0, ThreadType
    <3>2. Cardinality(th[t].vs) \in Nat
      BY <3>1, CasAssumption, FS_Subset, FS_CardinalityType
    <3>3. total - Cardinality(th[t].vs) \in Int /\ total' = Wrap(total - Cardinality(th[t].vs))
      BY <1>0, <2>3, <3>2 DEF EvictCount
    <3> QED
      BY <3>3, WrapType
  <2>4. CASE Kill
    <3>1. disk.rows \in SUBSET Hash
      BY <1>0 DEF Tables, Store
    <3>2. Cardinality(disk.rows) \in Nat
      BY <3>1, CasAssumption, FS_Subset, FS_CardinalityType
    <3>3. Cardinality(disk.rows) \in Int /\ total' = Wrap(Cardinality(disk.rows))
      BY <2>4, <3>2 DEF Kill
    <3> QED
      BY <3>3, WrapType
  <2>5. ASSUME NEW t \in Thread, ClearCount(t) PROVE total' \in 0 .. WIDTH - 1
    BY <2>5, CasAssumption DEF ClearCount
  <2>6. ASSUME total' = total PROVE total' \in 0 .. WIDTH - 1
    BY <1>0, <2>6
  <2>7. ASSUME NEW t \in Thread, Works(t) \/ Reads(t) \/ DropNode(t),
               ~(AccountIngest(t) \/ DropCount(t) \/ EvictCount(t) \/ ClearCount(t))
        PROVE  total' = total
    BY <2>7 DEF Works, Reads, IngestChunk, Finalize, Probe, OpenTmp, FillTmp, Rename, CommitIngest,
       Rebind, SwapPending, Read, ReadFast, ReadSlow, ReadRange, Answered, DropFile, DropRow, Scrub,
       ScrubCheck, EvictSee, EvictChoose, EvictRows, EvictFiles, DropNode, Clear, ClearFiles
  <2>8. Wake \/ Persist \/ Cool \/ Rot \/ UNCHANGED vars => total' = total
    BY DEF Wake, Persist, Cool, Rot, vars
  <2> QED
    BY <2>1, <2>2, <2>3, <2>4, <2>5, <2>6, <2>7, <2>8 DEF Next, Works, Reads
<1>2. hot' \subseteq Hash
  <2>1. ASSUME NEW t \in Thread, AccountIngest(t) \/ ReadFast(t) \/ ReadRange(t) PROVE hot' \subseteq Hash
    <3>1. th[t].h \in Hash
      BY <1>0, <2>1, JobAt DEF AccountIngest, ReadFast, ReadRange, At, Ingesting
    <3>2. hot' = hot \/ hot' = hot \cup {th[t].h}
      <4>1. CASE AccountIngest(t)
        BY <4>1 DEF AccountIngest
      <4>2. CASE ReadFast(t)
        BY <4>2 DEF ReadFast, Touch
      <4>3. CASE ReadRange(t)
        <5>1. Touch(th[t].h) \/ UNCHANGED hot
          BY <4>3 DEF ReadRange
        <5> QED
          BY <5>1 DEF Touch
      <4> QED
        BY <2>1, <4>1, <4>2, <4>3
    <3> QED
      BY <1>0, <3>1, <3>2
  <2>2. ASSUME NEW t \in Thread, Works(t) \/ Reads(t) \/ DropNode(t),
               ~(AccountIngest(t) \/ ReadFast(t) \/ ReadRange(t))
        PROVE  hot' \subseteq hot
    BY <2>2 DEF Works, Reads, IngestChunk, Finalize, Probe, OpenTmp, FillTmp, Rename, CommitIngest,
       Rebind, SwapPending, Read, ReadSlow, Answered, DropFile, DropRow, DropCount, Scrub,
       ScrubCheck, EvictSee, EvictChoose, EvictRows, EvictFiles, EvictCount, DropNode, Clear, ClearFiles, ClearCount
  <2>3. Wake \/ Persist \/ Cool \/ Rot \/ Kill \/ UNCHANGED vars => hot' \subseteq hot
    BY DEF Wake, Persist, Cool, Rot, Kill, vars
  <2> QED
    BY <1>0, <2>1, <2>2, <2>3 DEF Next, Works, Reads
<1>3. raced' \in BOOLEAN
  <2>1. ASSUME NEW t \in Thread, EvictRows(t) \/ Clear(t) \/ ClearCount(t) PROVE raced' \in BOOLEAN
    BY <2>1 DEF EvictRows, Clear, ClearCount
  <2>2. ASSUME NEW t \in Thread, Works(t) \/ Reads(t) \/ DropNode(t),
               ~(EvictRows(t) \/ Clear(t) \/ ClearCount(t))
        PROVE  raced' = raced
    BY <2>2 DEF Works, Reads, IngestChunk, Finalize, Probe, OpenTmp, FillTmp, Rename, CommitIngest, AccountIngest,
       Rebind, SwapPending, Read, ReadFast, ReadSlow, ReadRange, Answered, DropFile, DropRow, DropCount, Scrub,
       ScrubCheck, EvictSee, EvictChoose, EvictFiles, EvictCount, DropNode, ClearFiles, hist
  <2>3. Wake \/ Persist \/ Cool \/ Rot \/ UNCHANGED vars => raced' = raced
    BY DEF Wake, Persist, Cool, Rot, vars, hist
  <2>4. Kill => raced' = FALSE
    BY DEF Kill
  <2> QED
    BY <1>0, <2>1, <2>2, <2>3, <2>4 DEF Next, Works, Reads
<1>4. n' \in [op : Nat, rot : Nat, kill : Nat]
  <2>1. /\ [n EXCEPT !.op = @ + 1] \in [op : Nat, rot : Nat, kill : Nat]
        /\ [n EXCEPT !.rot = @ + 1] \in [op : Nat, rot : Nat, kill : Nat]
        /\ [n EXCEPT !.kill = @ + 1] \in [op : Nat, rot : Nat, kill : Nat]
    BY <1>0
  <2>2. ASSUME NEW t \in Thread, Works(t) \/ Reads(t) \/ DropNode(t)
        PROVE  n' = n \/ n' = [n EXCEPT !.op = @ + 1]
    BY <2>2 DEF Works, Reads, IngestChunk, Finalize, Probe, OpenTmp, FillTmp, Rename, CommitIngest, AccountIngest,
       Rebind, SwapPending, Read, ReadFast, ReadSlow, ReadRange, Answered, DropFile, DropRow, DropCount, Scrub,
       ScrubCheck, EvictSee, EvictChoose, EvictRows, EvictFiles, EvictCount, DropNode, Clear, ClearFiles,
       ClearCount, Starts
  <2>3. Wake \/ Persist \/ Cool \/ UNCHANGED vars => n' = n
    BY DEF Wake, Persist, Cool, vars
  <2>4. Rot => n' = [n EXCEPT !.rot = @ + 1]
    BY DEF Rot
  <2>5. Kill => n' = [n EXCEPT !.kill = @ + 1]
    BY DEF Kill
  <2> QED
    BY <1>0, <2>1, <2>2, <2>3, <2>4, <2>5 DEF Next, Works, Reads
<1> QED
  BY <1>1, <1>2, <1>3, <1>4

-----------------------------------------------------------------------------
(***************************************************************************)
(* The invariant.                                                          *)
(***************************************************************************)
\* Every step of a thread, whatever its job, leaves the others alone.
LEMMA ThreadsStep ==
    ASSUME IInv, [Next]_vars
    PROVE  Threads' /\ NoLie'
<1>0. Threads /\ NoLie
  BY DEF IInv
<1>h. Honest'
  BY FilesStep
<1>l. ASSUME "bad" \notin Damage => \A u \in Thread : th'[u].pc # "wrong" PROVE NoLie'
  BY <1>h, <1>l DEF NoLie, Honest
<1>1. ASSUME NEW t \in Thread, Works(t) PROVE Threads' /\ NoLie'
  <2>1. Aside(t)
    BY <1>1, WorksAside
  <2>2. Threads' /\ th'[t].pc # "wrong" /\ \A u \in Thread : u # t => th'[u] = th[u]
    BY <2>1 DEF Aside
  <2>3. "bad" \notin Damage => \A u \in Thread : th'[u].pc # "wrong"
    BY <1>0, <2>2 DEF NoLie
  <2> QED
    BY <1>l, <2>2, <2>3
<1>2. ASSUME NEW t \in Thread, Reads(t) PROVE Threads' /\ NoLie'
  <2>1. Inside(t)
    BY <1>2, ReadsInside
  <2>2. /\ Threads' /\ \A u \in Thread : u # t => th'[u] = th[u]
        /\ "bad" \notin Damage => th'[t].pc # "wrong"
    BY <2>1 DEF Inside
  <2>3. "bad" \notin Damage => \A u \in Thread : th'[u].pc # "wrong"
    BY <1>0, <2>2 DEF NoLie
  <2> QED
    BY <1>l, <2>2, <2>3
<1>3. ASSUME th' = th PROVE Threads' /\ NoLie'
  <2>1. Threads' /\ ("bad" \notin Damage => \A u \in Thread : th'[u].pc # "wrong")
    BY <1>0, <1>3 DEF Threads, NoLie
  <2> QED
    BY <1>l, <2>1
<1>4. CASE Kill
  <2>1. th' = [t \in Thread |-> Idle]
    BY <1>4 DEF Kill
  <2>2. Threads' /\ \A u \in Thread : th'[u].pc # "wrong"
    BY <2>1, IdleType DEF Threads
  <2> QED
    BY <1>l, <2>2
<1>5. Wake \/ Persist \/ Cool \/ Rot \/ (\E t \in Thread : DropNode(t)) \/ UNCHANGED vars => th' = th
  BY DEF Wake, Persist, Cool, Rot, DropNode, vars
<1> QED
  BY <1>1, <1>2, <1>3, <1>4, <1>5 DEF Next, Works, Reads

\* Every step keeps the invariant.
LEMMA NextIInv ==
    ASSUME IInv, [Next]_vars
    PROVE  IInv'
<1>1. Threads' /\ NoLie'
  BY ThreadsStep
<1>2. Files'
  BY FilesStep
<1>3. Tables'
  BY TablesStep
<1>4. WarmSurvives' /\ warm' \subseteq Warmth
  BY WarmStep
<1>5. PendTimer' /\ PersistComing' /\ timers' \in Counters /\ pend' \in BOOLEAN /\ owed' \in BOOLEAN
  BY PersistStep
<1>6. /\ total' \in 0 .. WIDTH - 1 /\ hot' \subseteq Hash /\ raced' \in BOOLEAN
      /\ n' \in [op : Nat, rot : Nat, kill : Nat]
  BY CountStep
<1>7. Others'
  BY <1>4, <1>5, <1>6 DEF Others
<1> QED
  BY <1>1, <1>2, <1>3, <1>4, <1>5, <1>7 DEF IInv

\* An empty store satisfies it.
LEMMA InitIInv == Init => IInv
<1> SUFFICES ASSUME Init PROVE IInv
  OBVIOUS
<1>1. Threads
  BY IdleType DEF Init, Threads
<1>2. Files
  <2>1. file = [h \in Hash |-> "none"] /\ tmp = file /\ fds = <<>> /\ held = file
    BY DEF Init
  <2>2. fds \in Seq(Hash) /\ Len(fds) = 0
    BY <2>1
  <2>3. ToSet(fds) = {}
    BY <2>1 DEF ToSet
  <2> QED
    BY <2>1, <2>2, <2>3, CasAssumption DEF Files, Content
<1>3. Tables
  <2>1. NoChunk \in [Off -> Hash \cup {NoHash}]
    BY DEF NoChunk
  <2>2. [k \in Key |-> NoChunk] \in [Key -> [Off -> Hash \cup {NoHash}]]
    BY <2>1
  <2>3. Fresh \in Store
    BY <2>2 DEF Fresh, Store
  <2> QED
    BY <2>3 DEF Tables, Init
<1>4. /\ total = 0 /\ hot = {} /\ pend = FALSE /\ timers = [asleep |-> 0, due |-> 0]
      /\ n = [op |-> 0, rot |-> 0, kill |-> 0] /\ raced = FALSE /\ owed = FALSE /\ warm = {}
  BY DEF Init
<1>5. Others
  <2>1. 0 \in 0 .. WIDTH - 1
    BY CasAssumption
  <2>2. timers \in Counters
    BY <1>4 DEF Counters
  <2>3. n \in [op : Nat, rot : Nat, kill : Nat]
    BY <1>4
  <2> QED
    BY <1>4, <2>1, <2>2, <2>3 DEF Others
<1>6. NoLie
  BY IdleType DEF Init, NoLie
<1>7. PendTimer /\ PersistComing /\ WarmSurvives
  BY <1>4 DEF PendTimer, PersistComing, WarmSurvives
<1> QED
  BY <1>1, <1>2, <1>3, <1>5, <1>6, <1>7 DEF IInv

\* The invariant holds of the specification.
LEMMA Invariance == Spec => []IInv
BY InitIInv, NextIInv, PTL DEF Spec

-----------------------------------------------------------------------------
(***************************************************************************)
(* What follows.                                                           *)
(***************************************************************************)
\* Type correctness: the state is well formed, and the open files the store keeps are
\* those of its queue, at most FD_CAP.
THEOREM TypeCorrect == Spec => []TypeOK
<1>1. ASSUME IInv PROVE TypeOK
  <2>1. Threads /\ Files /\ Tables /\ Others
    BY <1>1 DEF IInv
  <2>2. \A t \in Thread :
          /\ th[t].pc \in Pcs /\ th[t].job \in {"none", "chunk", "final", "read", "scrub", "clear"}
          /\ th[t].k \in Key /\ th[t].o \in Off /\ th[t].h \in Hash \cup {NoHash}
          /\ th[t].n \in Nat /\ th[t].vs \subseteq Hash
    BY <2>1, ThreadType DEF Jobs
  <2> QED
    BY <2>1, <2>2 DEF TypeOK, Files, Tables, Others, Counters, Warmth
<1> QED
  BY <1>1, Invariance, PTL

\* A chunk ingested from the guest and neither removed nor damaged since is served, and
\* would be after an end of the process now: ingest_chunk binds it durably after its
\* file is in place, and no eviction, scrub, rename or volatile commit undoes that.
THEOREM IngestedSurvives == Spec => []WarmSurvives
<1>1. IInv => WarmSurvives
  BY DEF IInv
<1> QED
  BY <1>1, Invariance, PTL

\* A write-ingest that has finished without being durable has a persist coming:
\* schedule_persist skips a timer only while another is asleep, whose flag is taken
\* back before it persists.
THEOREM PersistIsComing == Spec => []PersistComing
<1>1. IInv => PersistComing
  BY DEF IInv
<1> QED
  BY <1>1, Invariance, PTL

-----------------------------------------------------------------------------
(***************************************************************************)
(* The count of stored bytes.  It is exact but for what each thread has    *)
(* still to take or to add: a step of one thread changes the rows, the     *)
(* count and its own part of what is left by amounts that agree.           *)
(***************************************************************************)
\* Arithmetic modulo a number: what is added before is as what is added after.
LEMMA DivMod ==
    ASSUME NEW w \in Nat \ {0}, NEW x \in Int
    PROVE  \E p \in Int, r \in 0 .. w - 1 : x = w * p + r /\ r = x % w
<1>1. x % w \in 0 .. w - 1 /\ x \div w \in Int
  OBVIOUS
<1>2. x % w = x - (w * (x \div w))
  BY Z3T(60)
<1>3. PICK p \in Int, r \in 0 .. w - 1 : p = x \div w /\ r = x % w /\ r = x - (w * p)
  BY <1>1, <1>2
<1>4. w * p \in Int
  OBVIOUS
<1>5. x = w * p + r
  BY <1>3, <1>4
<1> QED
  BY <1>3, <1>5, Zenon

\* A remainder is known by its range.
LEMMA ModUnique ==
    ASSUME NEW w \in Nat \ {0}, NEW x \in Int, NEW q \in Int, NEW r \in 0 .. w - 1, x = w * q + r
    PROVE  x % w = r
<1>2. PICK p \in Int, s \in 0 .. w - 1 : x = w * p + s /\ s = x % w
  BY DivMod
<1>3. w * (p - q) = r - s
  <2>1. w * p \in Int /\ w * q \in Int /\ w * (p - q) = w * p - w * q
    BY Z3T(60)
  <2>2. w * p + s = w * q + r
    BY <1>2, Zenon
  <2> QED
    BY <2>1, <2>2
<1>4. p - q \in Int /\ r - s < w /\ s - r < w
  OBVIOUS
<1>5. ASSUME p - q >= 1 PROVE FALSE
  <2>1. PICK d \in Nat : d = p - q - 1
    BY <1>5
  <2>2. w * (p - q) = w * d + w /\ w * d >= 0
    BY <2>1
  <2> QED
    BY <1>3, <1>4, <2>2
<1>6. ASSUME q - p >= 1 PROVE FALSE
  <2>1. PICK d \in Nat : d = q - p - 1
    BY <1>6
  <2>2. w * (q - p) = w * d + w /\ w * d >= 0 /\ w * (q - p) = s - r
    BY <2>1, <1>3
  <2> QED
    BY <1>4, <2>2
<1>7. p = q
  BY <1>4, <1>5, <1>6
<1>8. r = s
  BY <1>2, <1>7
<1> QED
  BY <1>2, <1>8

\* The count may be wrapped before or after a number is added to it.
LEMMA WrapAdds ==
    ASSUME NEW x \in Int, NEW c \in Int
    PROVE  Wrap(Wrap(x) + c) = Wrap(x + c)
<1>0. WIDTH \in Nat \ {0}
  BY CasAssumption
<1>1. PICK w \in Nat \ {0} : w = WIDTH
  BY <1>0
<1>2. PICK a \in Int, y \in 0 .. w - 1 : x = w * a + y /\ y = x % w
  BY DivMod
<1>3. y + c \in Int
  OBVIOUS
<1>4. PICK b \in Int, r \in 0 .. w - 1 : y + c = w * b + r /\ r = (y + c) % w
  BY <1>3, DivMod
<1>5. x + c = w * (a + b) + r /\ a + b \in Int /\ x + c \in Int
  BY <1>2, <1>4
<1>6. (x + c) % w = r
  BY <1>5, ModUnique
<1> QED
  BY <1>1, <1>2, <1>4, <1>6 DEF Wrap

\* Only thread t moves.
Alone(t) == \A u \in Thread : u # t => th'[u] = th[u]

\* A thread counts one chunk at a time but in evictions.
Counted == \A t \in Thread : th[t].pc \in {"account", "drop_count"} => th[t].n \in {0, 1}
Exact   == total = Wrap(Cardinality(db.rows) + Cardinality(ToTake) - Cardinality(ToAdd))

\* The set of pairs of one thread is as large as its chunks.
LEMMA PairsOf ==
    ASSUME NEW t, NEW S \in SUBSET Hash
    PROVE  /\ IsFiniteSet(S) /\ Cardinality(S) \in Nat
           /\ IsFiniteSet({t} \X S) /\ Cardinality({t} \X S) = Cardinality(S)
<1>1. IsFiniteSet(S) /\ Cardinality(S) \in Nat
  BY CasAssumption, FS_Subset, FS_CardinalityType
<1>2. IsFiniteSet({t}) /\ Cardinality({t}) = 1
  BY FS_Singleton
<1>3. IsFiniteSet({t} \X S) /\ Cardinality({t} \X S) = Cardinality({t}) * Cardinality(S)
  BY <1>1, <1>2, FS_Product
<1> QED
  BY <1>1, <1>2, <1>3

\* The sets that are counted are finite.
LEMMA CountedFinite ==
    /\ IsFiniteSet(ToTake) /\ Cardinality(ToTake) \in Nat
    /\ IsFiniteSet(ToAdd) /\ Cardinality(ToAdd) \in Nat
<1>1. IsFiniteSet(Thread \X Hash) /\ IsFiniteSet(Thread)
  BY CasAssumption, FS_Product
<1>2. ToTake \in SUBSET (Thread \X Hash) /\ ToAdd \in SUBSET Thread
  BY DEF ToTake, ToAdd
<1> QED
  BY <1>1, <1>2, FS_Subset, FS_CardinalityType

\* What a thread takes are chunks.
LEMMA TakesType ==
    ASSUME Threads, NEW t \in Thread
    PROVE  Takes(t) \in SUBSET Hash
<1>1. th[t].vs \in SUBSET Hash
  BY ThreadType
<1>2. th[t].pc = "drop_count" => th[t].h \in Hash
  BY JobAt DEF Dropping
<1> QED
  BY <1>1, <1>2 DEF Takes

\* When one thread moves, what is still to be taken changes by what is its own.
LEMMA TakeMoves ==
    ASSUME Threads, Threads', NEW t \in Thread, Alone(t)
    PROVE  /\ Cardinality(ToTake') = Cardinality(ToTake) - Cardinality(Takes(t)) + Cardinality(Takes(t)')
           /\ Cardinality(Takes(t)) \in Nat /\ Cardinality(Takes(t)') \in Nat
<1> DEFINE Rest == {p \in Thread \X Hash : p[1] # t /\ p[2] \in Takes(p[1])}
<1>1. Takes(t) \in SUBSET Hash /\ Takes(t)' \in SUBSET Hash
  <2>1. Takes(t) \in SUBSET Hash
    BY TakesType
  <2>2. th'[t].vs \in SUBSET Hash /\ (th'[t].pc = "drop_count" => th'[t].h \in Hash)
    <3>1. th'[t] \in Good
      BY DEF Threads
    <3>2. th'[t] \in Recs /\ Fits(th'[t].job, th'[t].pc, th'[t].h)
      BY <3>1 DEF Good
    <3>3. th'[t].vs \in SUBSET Hash
      BY <3>2 DEF Recs
    <3>4. th'[t].pc = "drop_count" => th'[t].h \in Hash
      BY <3>2 DEF Fits, Blank
    <3> QED
      BY <3>3, <3>4
  <2>3. Takes(t)' \in SUBSET Hash
    BY <2>2 DEF Takes
  <2> QED
    BY <2>1, <2>3
<1>2. \A u \in Thread : u # t => Takes(u)' = Takes(u)
  BY DEF Alone, Takes
<1>3. ToTake = Rest \cup ({t} \X Takes(t)) /\ Rest \cap ({t} \X Takes(t)) = {}
  BY <1>1 DEF ToTake
<1>4. ToTake' = Rest \cup ({t} \X Takes(t)') /\ Rest \cap ({t} \X Takes(t)') = {}
  BY <1>1, <1>2 DEF ToTake
<1>5. IsFiniteSet(Rest) /\ Cardinality(Rest) \in Nat
  <2>1. Rest \in SUBSET (Thread \X Hash)
    OBVIOUS
  <2> QED
    BY <2>1, CasAssumption, FS_Product, FS_Subset, FS_CardinalityType
<1> HIDE DEF Rest
<1>6. ASSUME NEW S \in SUBSET Hash, Rest \cap ({t} \X S) = {}
      PROVE  Cardinality(Rest \cup ({t} \X S)) = Cardinality(Rest) + Cardinality(S) /\ Cardinality(S) \in Nat
  <2>1. IsFiniteSet({t} \X S) /\ Cardinality({t} \X S) = Cardinality(S) /\ Cardinality(S) \in Nat
    BY PairsOf
  <2>2. Cardinality(Rest \cup ({t} \X S)) = Cardinality(Rest) + Cardinality({t} \X S) - Cardinality(Rest \cap ({t} \X S))
    BY <1>5, <2>1, FS_Union
  <2>3. Cardinality(Rest \cap ({t} \X S)) = 0
    BY <1>6, FS_EmptySet
  <2> QED
    BY <1>5, <2>1, <2>2, <2>3
<1>7. Cardinality(ToTake) = Cardinality(Rest) + Cardinality(Takes(t)) /\ Cardinality(Takes(t)) \in Nat
  BY <1>1, <1>3, <1>6
<1>8. Cardinality(ToTake') = Cardinality(Rest) + Cardinality(Takes(t)') /\ Cardinality(Takes(t)') \in Nat
  BY <1>1, <1>4, <1>6
<1> QED
  BY <1>5, <1>7, <1>8

One(b) == IF b THEN 1 ELSE 0

\* When one thread moves, the number of those that have still to add changes by its own.
LEMMA AddMoves ==
    ASSUME NEW t \in Thread, Alone(t)
    PROVE  Cardinality(ToAdd') = Cardinality(ToAdd) - One(Adds(t)) + One(Adds(t)')
<1> DEFINE Rest == {u \in Thread : u # t /\ Adds(u)}
<1>1. \A u \in Thread : u # t => (Adds(u)' <=> Adds(u))
  BY DEF Alone, Adds
<1>2. ToAdd = (IF Adds(t) THEN Rest \cup {t} ELSE Rest) /\ ToAdd' = (IF Adds(t)' THEN Rest \cup {t} ELSE Rest)
  BY <1>1 DEF ToAdd
<1>3. IsFiniteSet(Rest) /\ Cardinality(Rest) \in Nat
  <2>1. Rest \in SUBSET Thread
    OBVIOUS
  <2> QED
    BY <2>1, CasAssumption, FS_Subset, FS_CardinalityType
<1>4. Cardinality(Rest \cup {t}) = Cardinality(Rest) + 1
  <2>1. t \notin Rest
    OBVIOUS
  <2> QED
    BY <1>3, <2>1, FS_AddElement
<1> HIDE DEF Rest
<1>5. Cardinality(ToAdd) = Cardinality(Rest) + One(Adds(t))
  <2>1. CASE Adds(t)
    BY <1>2, <1>3, <1>4, <2>1 DEF One
  <2>2. CASE ~ Adds(t)
    BY <1>2, <1>3, <2>2 DEF One
  <2> QED
    BY <2>1, <2>2
<1>6. Cardinality(ToAdd') = Cardinality(Rest) + One(Adds(t)')
  <2>1. CASE Adds(t)'
    BY <1>2, <1>3, <1>4, <2>1 DEF One
  <2>2. CASE ~ Adds(t)'
    BY <1>2, <1>3, <2>2 DEF One
  <2> QED
    BY <2>1, <2>2
<1>7. One(Adds(t)) \in Nat /\ One(Adds(t)') \in Nat
  BY DEF One
<1> QED
  BY <1>3, <1>5, <1>6, <1>7

\* Nothing added to the count leaves it as it is.
LEMMA ExactPlusNone == ASSUME IInv, Exact PROVE total = Wrap(total + 0)
<1>1. WIDTH \in Nat \ {0} /\ total \in 0 .. WIDTH - 1
  BY CasAssumption DEF IInv, Others
<1>2. total = WIDTH * 0 + total
  BY <1>1
<1>3. total % WIDTH = total
  <2>1. \A w \in Nat \ {0} : \A x \in 0 .. w - 1 : x % w = x
    <3>1. SUFFICES ASSUME NEW w \in Nat \ {0}, NEW x \in 0 .. w - 1 PROVE x % w = x
      OBVIOUS
    <3>2. x \in Int /\ 0 \in Int /\ x = w * 0 + x
      OBVIOUS
    <3> QED
      BY <3>2, ModUnique
  <2> QED
    BY <1>1, <2>1
<1>4. total + 0 = total
  BY <1>1
<1> QED
  BY <1>3, <1>4 DEF Wrap

\* A step of one thread that changes the rows, the count, and what it has still to
\* count by amounts that agree keeps the count exact.
LEMMA ExactMoves ==
    ASSUME IInv, IInv', NEW t \in Thread, Alone(t), Exact, NEW c \in Int, total' = Wrap(total + c),
           Cardinality(db'.rows) + Cardinality(Takes(t)') - One(Adds(t)')
               = Cardinality(db.rows) + Cardinality(Takes(t)) - One(Adds(t)) + c
    PROVE  Exact'
<1>0. Threads /\ Tables /\ Threads' /\ Tables'
  BY DEF IInv
<1>1. Cardinality(db.rows) \in Nat /\ Cardinality(db'.rows) \in Nat
  <2>1. db.rows \in SUBSET Hash /\ db'.rows \in SUBSET Hash
    BY <1>0 DEF Tables, Store
  <2> QED
    BY <2>1, PairsOf
<1>2. Cardinality(ToTake) \in Nat /\ Cardinality(ToAdd) \in Nat
  BY CountedFinite
<1>3. /\ Cardinality(ToTake') = Cardinality(ToTake) - Cardinality(Takes(t)) + Cardinality(Takes(t)')
      /\ Cardinality(Takes(t)) \in Nat /\ Cardinality(Takes(t)') \in Nat
  BY <1>0, TakeMoves
<1>4. Cardinality(ToAdd') = Cardinality(ToAdd) - One(Adds(t)) + One(Adds(t)')
  BY AddMoves
<1>5. One(Adds(t)) \in Nat /\ One(Adds(t)') \in Nat
  BY DEF One
<1> DEFINE net == Cardinality(db.rows) + Cardinality(ToTake) - Cardinality(ToAdd)
<1>6. net \in Int /\ total = Wrap(net)
  BY <1>1, <1>2 DEF Exact
<1>7. Cardinality(db'.rows) + Cardinality(ToTake') - Cardinality(ToAdd') = net + c
  BY <1>1, <1>2, <1>3, <1>4, <1>5
<1> HIDE DEF net
<1>8. total' = Wrap(net + c)
  <2>1. Wrap(Wrap(net) + c) = Wrap(net + c)
    BY <1>6, WrapAdds
  <2> QED
    BY <1>6, <2>1
<1> QED
  BY <1>7, <1>8, Zenon DEF Exact

\* A step that leaves the rows, the count and what is still to count.
LEMMA ExactStays ==
    ASSUME IInv, IInv', NEW t \in Thread, Alone(t), Exact, total' = total, db'.rows = db.rows,
           Takes(t)' = Takes(t), Adds(t)' <=> Adds(t)
    PROVE  Exact'
<1>1. total' = Wrap(total + 0) /\ 0 \in Int
  BY ExactPlusNone
<1>2. Cardinality(db.rows) \in Nat /\ Cardinality(Takes(t)) \in Nat /\ One(Adds(t)) \in Nat
  <2>1. db.rows \in SUBSET Hash /\ Takes(t) \in SUBSET Hash
    BY TakesType DEF IInv, Tables, Store
  <2> QED
    BY <2>1, PairsOf DEF One
<1>3. One(Adds(t)') = One(Adds(t))
  BY DEF One
<1>4. Cardinality(db'.rows) + Cardinality(Takes(t)') - One(Adds(t)')
        = Cardinality(db.rows) + Cardinality(Takes(t)) - One(Adds(t)) + 0
  BY <1>2, <1>3
<1> QED
  BY <1>1, <1>4, ExactMoves

Counting == {"account", "drop_count", "evict_files", "evict_count"}

\* Outside these places a thread has nothing to count.
LEMMA NothingToCount ==
    ASSUME NEW t \in Thread
    PROVE  /\ th[t].pc \notin Counting => Takes(t) = {} /\ ~ Adds(t)
           /\ th'[t].pc \notin Counting => Takes(t)' = {} /\ ~ Adds(t)'
BY DEF Takes, Adds, Counting

\* The steps of a thread, whatever they are.
LEMMA StepAt ==
    ASSUME Threads, NEW t \in Thread, NEW pc, NEW h, NEW c, NEW vs, Step(t, pc, h, c, vs)
    PROVE  /\ Alone(t) /\ th'[t].pc = pc /\ th'[t].job = th[t].job /\ th'[t].h = h /\ th'[t].n = c /\ th'[t].vs = vs
BY DEF Threads, Step, Alone

\* A thread that goes elsewhere keeps what it holds.
LEMMA GoneAt ==
    ASSUME Threads, NEW t \in Thread, NEW pc, Goto(t, pc)
    PROVE  /\ Alone(t) /\ th'[t].pc = pc /\ th'[t].job = th[t].job /\ th'[t].h = th[t].h
           /\ th'[t].n = th[t].n /\ th'[t].vs = th[t].vs
BY StepAt DEF Goto

\* A thread that has finished is idle.
LEMMA DoneAt ==
    ASSUME Threads, NEW t \in Thread, Done(t)
    PROVE  Alone(t) /\ th'[t].pc = "idle"
BY Finished, IdleType DEF Alone

\* An ingest ends, or goes on.
LEMMA EndsAt ==
    ASSUME Threads, NEW t \in Thread, IngestEnds(t)
    PROVE  Alone(t) /\ th'[t].pc \in {"idle", "rebind"}
BY GoneAt, DoneAt DEF IngestEnds

\* A thread starts.
LEMMA StartAt ==
    ASSUME Threads, NEW t \in Thread, NEW pc, NEW job, NEW k, NEW o, NEW h, Starts(t, Job(pc, job, k, o, h))
    PROVE  Alone(t) /\ th[t].pc = "idle" /\ th'[t].pc = pc /\ th'[t].job = job
BY DEF Threads, Starts, At, Alone, Job

\* What a step of thread t keeps: the other threads, a clear in progress, the note
\* of a race, and the count when there was none.
Passes(t) ==
    /\ Alone(t) /\ (raced => raced') /\ (th[t].job = "clear" => th'[t].job = "clear" \/ raced' \/ Exact')
    /\ th'[t].pc \in {"account", "drop_count"} => th'[t].n \in {0, 1}
    /\ Exact => raced' \/ Running("clear")' # {} \/ Exact'

\* A step from one place with nothing to count to another.
LEMMA PlainPasses ==
    ASSUME IInv, IInv', NEW t \in Thread, Alone(t), th[t].pc \notin Counting, th'[t].pc \notin Counting,
           th[t].job = "clear" => th'[t].job = "clear", total' = total, db'.rows = db.rows, raced' = raced
    PROVE  Passes(t)
<1>1. Takes(t)' = Takes(t) /\ (Adds(t)' <=> Adds(t))
  BY NothingToCount
<1>2. Exact => Exact'
  BY <1>1, ExactStays
<1> QED
  BY <1>2 DEF Passes, Counting

\* The steps that leave the rows and the count.
Plain(t) ==
    \/ IngestChunk(t) \/ Finalize(t) \/ Probe(t) \/ OpenTmp(t) \/ FillTmp(t) \/ Rename(t)
    \/ Rebind(t) \/ SwapPending(t) \/ Read(t) \/ ReadFast(t) \/ ReadSlow(t) \/ ReadRange(t) \/ Answered(t)
    \/ DropFile(t) \/ Scrub(t) \/ ScrubCheck(t) \/ EvictSee(t) \/ EvictChoose(t) \/ ClearFiles(t)

\* The steps that neither change the rows nor count.
LEMMA PlainStep ==
    ASSUME IInv, IInv', NEW t \in Thread, Plain(t)
    PROVE  Passes(t)
<1>0. Threads /\ Tables
  BY DEF IInv
<1>c. th[t].pc \notin {"clear_files", "clear_count"} => th[t].job # "clear"
  BY <1>0, ThreadType DEF Fits
<1>t. total' = total /\ raced' = raced
  BY DEF Plain, IngestChunk, Finalize, Probe, OpenTmp, FillTmp, Rename, Rebind, SwapPending, Read, ReadFast,
     ReadSlow, ReadRange, Answered, DropFile, Scrub, ScrubCheck, EvictSee, EvictChoose, ClearFiles, hist
<1>r. db'.rows = db.rows
  <2>1. CASE Rebind(t)
    <3>1. db' = db \/ \E m : db' = [db EXCEPT !.man = m]
      BY <2>1 DEF Rebind, CommitVolatile
    <3> QED
      BY <1>0, <3>1 DEF Tables, Store
  <2>2. CASE ~ Rebind(t)
    BY <2>2 DEF Plain, IngestChunk, Finalize, Probe, OpenTmp, FillTmp, Rename, SwapPending, Read, ReadFast,
       ReadSlow, ReadRange, Answered, DropFile, Scrub, ScrubCheck, EvictSee, EvictChoose, ClearFiles, dbvars
  <2> QED
    BY <2>1, <2>2
<1>p. ASSUME Alone(t), th[t].pc \notin Counting, th'[t].pc \notin Counting,
             th[t].pc \notin {"clear_files", "clear_count"}
      PROVE  Passes(t)
  BY <1>c, <1>t, <1>r, <1>p, PlainPasses
<1>1. CASE IngestChunk(t) \/ Finalize(t)
  <2>1. PICK job, k, o, h : Starts(t, Job("probe", job, k, o, h))
    BY <1>1 DEF IngestChunk, Finalize
  <2> QED
    BY <1>0, <1>p, <2>1, StartAt DEF Counting
<1>2. CASE Read(t)
  <2>1. PICK pc, k, o, h : pc \in {"slow", "fast"} /\ Starts(t, Job(pc, "read", k, o, h))
    <3>1. PICK k \in Key, o \in Off : Starts(t, Job(IF db.man[k][o] = NoHash THEN "slow" ELSE "fast", "read", k, o, db.man[k][o]))
      BY <1>2 DEF Read
    <3> QED
      BY <3>1
  <2> QED
    BY <1>0, <1>p, <2>1, StartAt DEF Counting
<1>3. CASE Scrub(t)
  <2>1. PICK k, o, h : Starts(t, Job("scrub", "scrub", k, o, h))
    BY <1>3 DEF Scrub
  <2> QED
    BY <1>0, <1>p, <2>1, StartAt DEF Counting
<1>4. ASSUME th[t].pc \notin Counting, th[t].pc \notin {"clear_files", "clear_count"}, NEW pc, pc \notin Counting, Goto(t, pc) PROVE Passes(t)
  BY <1>0, <1>p, <1>4, GoneAt
<1>5. ASSUME th[t].pc \notin Counting, th[t].pc \notin {"clear_files", "clear_count"}, Done(t) PROVE Passes(t)
  BY <1>0, <1>p, <1>5, DoneAt DEF Counting
<1>6. ASSUME th[t].pc \notin Counting, th[t].pc \notin {"clear_files", "clear_count"}, IngestEnds(t) PROVE Passes(t)
  BY <1>0, <1>p, <1>6, EndsAt DEF Counting
<1>7. ASSUME th[t].pc \notin Counting, th[t].pc \notin {"clear_files", "clear_count"}, NEW pc, pc \notin Counting,
             NEW h, NEW c, NEW vs, Step(t, pc, h, c, vs) PROVE Passes(t)
  BY <1>0, <1>p, <1>7, StepAt
<1>8. CASE Probe(t)
  BY <1>4, <1>8 DEF Probe, At, Counting
<1>9. CASE OpenTmp(t) \/ FillTmp(t)
  BY <1>4, <1>9 DEF OpenTmp, FillTmp, At, Counting
<1>10. CASE Rename(t)
  BY <1>4, <1>6, <1>10 DEF Rename, At, Counting
<1>11. CASE Rebind(t)
  BY <1>4, <1>11 DEF Rebind, At, Counting
<1>12. CASE SwapPending(t)
  BY <1>5, <1>12 DEF SwapPending, At, Counting
<1>13. CASE ReadFast(t)
  <2>1. PICK pc \in {"hit", "wrong", "slow"} : Goto(t, pc)
    BY <1>13 DEF ReadFast
  <2>2. th[t].pc = "fast"
    BY <1>13 DEF ReadFast, At
  <2> QED
    BY <1>4, <2>1, <2>2 DEF Counting
<1>14. CASE ReadSlow(t)
  BY <1>5, <1>7, <1>14 DEF ReadSlow, At, Counting
<1>15. CASE ReadRange(t)
  <2>1. Done(t) \/ \E pc \in {"hit", "wrong", "drop_file"} : Goto(t, pc)
    BY <1>15 DEF ReadRange
  <2>2. th[t].pc = "range"
    BY <1>15 DEF ReadRange, At
  <2> QED
    BY <1>4, <1>5, <2>1, <2>2 DEF Counting
<1>16. CASE Answered(t)
  BY <1>5, <1>16 DEF Answered, Counting
<1>17. CASE DropFile(t)
  BY <1>4, <1>17 DEF DropFile, At, Counting
<1>18. CASE ScrubCheck(t)
  BY <1>4, <1>5, <1>18 DEF ScrubCheck, At, Counting
<1>19. CASE EvictSee(t)
  BY <1>6, <1>7, <1>19 DEF EvictSee, At, Counting
<1>20. CASE EvictChoose(t)
  <2>1. IngestEnds(t) \/ \E V : Step(t, "evict_txn", th[t].h, 0, V)
    BY <1>20 DEF EvictChoose
  <2>2. th[t].pc = "evict_rows"
    BY <1>20 DEF EvictChoose, At
  <2> QED
    BY <1>6, <1>7, <2>1, <2>2 DEF Counting
<1>21. CASE ClearFiles(t)
  <2>1. th[t].pc = "clear_files" /\ Goto(t, "clear_count")
    BY <1>21 DEF ClearFiles, At
  <2>2. Alone(t) /\ th'[t].pc = "clear_count" /\ th'[t].job = th[t].job
    BY <1>0, <2>1, GoneAt
  <2> QED
    BY <1>t, <1>r, <2>1, <2>2, PlainPasses DEF Counting
<1> QED
  BY <1>1, <1>2, <1>3, <1>8, <1>9, <1>10, <1>11, <1>12, <1>13, <1>14, <1>15, <1>16, <1>17, <1>18, <1>19, <1>20, <1>21
     DEF Plain

\* The numbers of chunks before and after a row is added or removed.
LEMMA RowCounts ==
    ASSUME NEW R \in SUBSET Hash, NEW h \in Hash
    PROVE  /\ Cardinality(R) \in Nat /\ Cardinality({}) = 0 /\ Cardinality({h}) = 1
           /\ Cardinality(R \cup {h}) = IF h \in R THEN Cardinality(R) ELSE Cardinality(R) + 1
           /\ Cardinality(R \ {h}) = IF h \in R THEN Cardinality(R) - 1 ELSE Cardinality(R)
<1>1. IsFiniteSet(R) /\ Cardinality(R) \in Nat
  BY PairsOf
<1> QED
  BY <1>1, FS_EmptySet, FS_Singleton, FS_AddElement, FS_RemoveElement

\* The number of chunks after some have been evicted.
LEMMA VictimCounts ==
    ASSUME NEW R \in SUBSET Hash, NEW V \in SUBSET R
    PROVE  /\ Cardinality(R) \in Nat /\ Cardinality(V) \in Nat /\ Cardinality({}) = 0
           /\ Cardinality(R \ V) = Cardinality(R) - Cardinality(V)
<1>1. IsFiniteSet(R) /\ IsFiniteSet(V) /\ Cardinality(R) \in Nat /\ Cardinality(V) \in Nat /\ R \cap V = V
  BY PairsOf
<1>2. Cardinality(R \ V) = Cardinality(R) - Cardinality(R \cap V)
  BY <1>1, FS_Difference
<1> QED
  BY <1>1, <1>2, FS_EmptySet

\* The commit of an ingest adds a row, and the thread has it still to count.
LEMMA CommitPasses ==
    ASSUME IInv, IInv', NEW t \in Thread, CommitIngest(t)
    PROVE  Passes(t)
<1>0. Threads /\ Tables
  BY DEF IInv
<1>1. th[t].pc = "commit" /\ Step(t, "account", th[t].h, IF th[t].h \in db.rows THEN 0 ELSE 1, th[t].vs)
      /\ total' = total /\ raced' = raced
  BY DEF CommitIngest, At
<1>2. th[t].h \in Hash /\ th[t].job # "clear"
  BY <1>0, <1>1, JobAt DEF Ingesting
<1>3. Alone(t) /\ th'[t].pc = "account" /\ th'[t].n = IF th[t].h \in db.rows THEN 0 ELSE 1
  BY <1>0, <1>1, StepAt
<1>4. db'.rows = db.rows \cup {th[t].h}
  BY DEF CommitIngest, CommitVolatile, CommitDurable, WithChunk, WithChunks
<1>5. Takes(t)' = {} /\ (Adds(t)' <=> th[t].h \notin db.rows)
  BY <1>3 DEF Takes, Adds
<1>6. Takes(t) = {} /\ ~ Adds(t)
  BY <1>1, NothingToCount DEF Counting
<1>7. ASSUME Exact PROVE Exact'
  <2>1. db.rows \in SUBSET Hash
    BY <1>0 DEF Tables, Store
  <2>2. /\ Cardinality(db.rows) \in Nat /\ Cardinality({}) = 0
        /\ Cardinality(db.rows \cup {th[t].h})
             = IF th[t].h \in db.rows THEN Cardinality(db.rows) ELSE Cardinality(db.rows) + 1
    BY <1>2, <2>1, RowCounts
  <2>3. Cardinality(db'.rows) + Cardinality(Takes(t)') - One(Adds(t)')
          = Cardinality(db.rows) + Cardinality(Takes(t)) - One(Adds(t)) + 0
    BY <1>4, <1>5, <1>6, <2>2 DEF One
  <2>4. total' = Wrap(total + 0)
    BY <1>1, <1>7, ExactPlusNone
  <2> QED
    BY <1>3, <1>7, <2>3, <2>4, ExactMoves
<1> QED
  BY <1>1, <1>2, <1>3, <1>7 DEF Passes

\* What an ingest has added is counted.
LEMMA AccountPasses ==
    ASSUME IInv, IInv', Counted, NEW t \in Thread, AccountIngest(t)
    PROVE  Passes(t)
<1>0. Threads /\ Tables
  BY DEF IInv
<1>1. th[t].pc = "account" /\ total' = Wrap(total + th[t].n) /\ (Goto(t, "evict") \/ IngestEnds(t))
      /\ db' = db /\ raced' = raced
  BY DEF AccountIngest, At, dbvars, hist
<1>2. th[t].job # "clear" /\ th[t].n \in {0, 1}
  BY <1>0, <1>1, JobAt DEF Ingesting, Counted
<1>3. Alone(t) /\ th'[t].pc \notin Counting
  BY <1>0, <1>1, GoneAt, EndsAt DEF Counting
<1>4. Takes(t)' = {} /\ ~ Adds(t)' /\ Takes(t) = {} /\ One(Adds(t)) = th[t].n /\ One(Adds(t)') = 0
  BY <1>1, <1>2, <1>3, NothingToCount DEF Takes, Adds, One
<1>5. ASSUME Exact PROVE Exact'
  <2>1. db.rows \in SUBSET Hash
    BY <1>0 DEF Tables, Store
  <2>2. Cardinality(db.rows) \in Nat /\ Cardinality({}) = 0
    BY <2>1, PairsOf, FS_EmptySet
  <2>3. Cardinality(db'.rows) + Cardinality(Takes(t)') - One(Adds(t)')
          = Cardinality(db.rows) + Cardinality(Takes(t)) - One(Adds(t)) + th[t].n
    BY <1>1, <1>2, <1>4, <2>2
  <2> QED
    BY <1>1, <1>2, <1>3, <1>5, <2>3, ExactMoves
<1> QED
  BY <1>1, <1>2, <1>3, <1>5 DEF Passes, Counting

\* A dropped row is still to be taken from the count.
LEMMA DropRowPasses ==
    ASSUME IInv, IInv', NEW t \in Thread, DropRow(t)
    PROVE  Passes(t)
<1>0. Threads /\ Tables
  BY DEF IInv
<1>1. th[t].pc = "drop_row" /\ Step(t, "drop_count", th[t].h, IF th[t].h \in db.rows THEN 1 ELSE 0, th[t].vs)
      /\ total' = total /\ raced' = raced
  BY DEF DropRow, At
<1>2. th[t].h \in Hash /\ th[t].job # "clear"
  BY <1>0, <1>1, JobAt DEF Dropping
<1>3. Alone(t) /\ th'[t].pc = "drop_count" /\ th'[t].h = th[t].h /\ th'[t].n = IF th[t].h \in db.rows THEN 1 ELSE 0
  BY <1>0, <1>1, StepAt
<1>4. db'.rows = db.rows \ {th[t].h}
  BY <1>0 DEF DropRow, CommitVolatile, Tables, Store
<1>5. Takes(t)' = (IF th[t].h \in db.rows THEN {th[t].h} ELSE {}) /\ ~ Adds(t)'
  BY <1>3 DEF Takes, Adds
<1>6. Takes(t) = {} /\ ~ Adds(t)
  BY <1>1, NothingToCount DEF Counting
<1>7. ASSUME Exact PROVE Exact'
  <2>1. db.rows \in SUBSET Hash
    BY <1>0 DEF Tables, Store
  <2>2. /\ Cardinality(db.rows) \in Nat /\ Cardinality({}) = 0 /\ Cardinality({th[t].h}) = 1
        /\ Cardinality(db.rows \ {th[t].h})
             = IF th[t].h \in db.rows THEN Cardinality(db.rows) - 1 ELSE Cardinality(db.rows)
    BY <1>2, <2>1, RowCounts
  <2>3. Cardinality(db'.rows) + Cardinality(Takes(t)') - One(Adds(t)')
          = Cardinality(db.rows) + Cardinality(Takes(t)) - One(Adds(t)) + 0
    BY <1>4, <1>5, <1>6, <2>2 DEF One
  <2>4. total' = Wrap(total + 0)
    BY <1>1, <1>7, ExactPlusNone
  <2> QED
    BY <1>3, <1>7, <2>3, <2>4, ExactMoves
<1> QED
  BY <1>1, <1>2, <1>3, <1>7 DEF Passes

\* A dropped chunk is taken from the count.
LEMMA DropCountPasses ==
    ASSUME IInv, IInv', Counted, NEW t \in Thread, DropCount(t)
    PROVE  Passes(t)
<1>0. Threads /\ Tables /\ total \in Int
  BY CasAssumption DEF IInv, Others
<1>1. th[t].pc = "drop_count" /\ total' = Wrap(total - th[t].n) /\ Done(t) /\ db' = db /\ raced' = raced
  BY DEF DropCount, At, dbvars, hist
<1>2. th[t].job # "clear" /\ th[t].n \in {0, 1} /\ th[t].h \in Hash
  BY <1>0, <1>1, JobAt DEF Dropping, Counted
<1>3. Alone(t) /\ th'[t].pc \notin Counting
  BY <1>0, <1>1, DoneAt DEF Counting
<1>4. Takes(t)' = {} /\ ~ Adds(t)' /\ ~ Adds(t) /\ Takes(t) = IF th[t].n = 1 THEN {th[t].h} ELSE {}
  BY <1>1, <1>2, <1>3, NothingToCount DEF Takes, Adds
<1>5. ASSUME Exact PROVE Exact'
  <2>1. db.rows \in SUBSET Hash
    BY <1>0 DEF Tables, Store
  <2>2. Cardinality(db.rows) \in Nat /\ Cardinality({}) = 0 /\ Cardinality({th[t].h}) = 1
    BY <1>2, <2>1, RowCounts
  <2>3. Cardinality(db'.rows) + Cardinality(Takes(t)') - One(Adds(t)')
          = Cardinality(db.rows) + Cardinality(Takes(t)) - One(Adds(t)) + (- th[t].n)
    BY <1>1, <1>2, <1>4, <2>2 DEF One
  <2>4. total' = Wrap(total + (- th[t].n)) /\ - th[t].n \in Int
    BY <1>0, <1>1, <1>2
  <2> QED
    BY <1>3, <1>5, <2>3, <2>4, ExactMoves
<1> QED
  BY <1>1, <1>2, <1>3, <1>5 DEF Passes, Counting

\* An eviction whose victims are all there has them still to take from the count.
LEMMA EvictRowsPasses ==
    ASSUME IInv, IInv', NEW t \in Thread, EvictRows(t)
    PROVE  Passes(t)
<1>0. Threads /\ Tables
  BY DEF IInv
<1>1. th[t].pc = "evict_txn" /\ Goto(t, "evict_files") /\ total' = total /\ raced' = (raced \/ ~(th[t].vs \subseteq db.rows))
  BY DEF EvictRows, At
<1>2. th[t].vs \in SUBSET Hash /\ th[t].h \in Hash /\ th[t].job # "clear"
  BY <1>0, <1>1, JobAt, ThreadType DEF Ingesting
<1>3. Alone(t) /\ th'[t].pc = "evict_files" /\ th'[t].vs = th[t].vs
  BY <1>0, <1>1, GoneAt
<1>4. db'.rows = db.rows \ th[t].vs
  BY <1>0 DEF EvictRows, CommitVolatile, Tables, Store
<1>5. Takes(t)' = th[t].vs /\ ~ Adds(t)'
  BY <1>3 DEF Takes, Adds
<1>6. Takes(t) = {} /\ ~ Adds(t)
  BY <1>1, NothingToCount DEF Counting
<1>7. ASSUME Exact, th[t].vs \subseteq db.rows PROVE Exact'
  <2>1. db.rows \in SUBSET Hash /\ th[t].vs \in SUBSET Hash /\ th[t].h \in Hash
    BY <1>0, <1>2 DEF Tables, Store
  <2>2. /\ Cardinality(db.rows) \in Nat /\ Cardinality({}) = 0 /\ Cardinality(th[t].vs) \in Nat
        /\ Cardinality(db.rows \ th[t].vs) = Cardinality(db.rows) - Cardinality(th[t].vs)
    BY <1>7, <2>1, VictimCounts
  <2>3. Cardinality(db'.rows) + Cardinality(Takes(t)') - One(Adds(t)')
          = Cardinality(db.rows) + Cardinality(Takes(t)) - One(Adds(t)) + 0
    BY <1>4, <1>5, <1>6, <2>2 DEF One
  <2>4. total' = Wrap(total + 0)
    BY <1>1, <1>7, ExactPlusNone
  <2> QED
    BY <1>3, <1>7, <2>3, <2>4, ExactMoves
<1> QED
  BY <1>1, <1>2, <1>3, <1>7 DEF Passes

\* The files of the victims go.
LEMMA EvictFilesPasses ==
    ASSUME IInv, IInv', NEW t \in Thread, EvictFiles(t)
    PROVE  Passes(t)
<1>0. Threads
  BY DEF IInv
<1>1. th[t].pc = "evict_files" /\ Goto(t, "evict_count") /\ total' = total /\ raced' = raced /\ db' = db
  BY DEF EvictFiles, At, dbvars
<1>2. th[t].job # "clear"
  BY <1>0, <1>1, JobAt DEF Ingesting
<1>3. Alone(t) /\ th'[t].pc = "evict_count" /\ th'[t].vs = th[t].vs
  BY <1>0, <1>1, GoneAt
<1>4. Takes(t)' = Takes(t) /\ ~ Adds(t)' /\ ~ Adds(t)
  BY <1>1, <1>3 DEF Takes, Adds
<1>5. Exact => Exact'
  BY <1>1, <1>3, <1>4, ExactStays
<1> QED
  BY <1>1, <1>2, <1>3, <1>5 DEF Passes

\* The victims are taken from the count.
LEMMA EvictCountPasses ==
    ASSUME IInv, IInv', NEW t \in Thread, EvictCount(t)
    PROVE  Passes(t)
<1>0. Threads /\ Tables /\ total \in Int
  BY CasAssumption DEF IInv, Others
<1>1. /\ th[t].pc = "evict_count" /\ total' = Wrap(total - Cardinality(th[t].vs)) /\ db' = db /\ raced' = raced
      /\ Step(t, "rebind", th[t].h, th[t].n, {}) \/ Done(t)
  BY DEF EvictCount, At, dbvars, hist
<1>2. th[t].job # "clear" /\ th[t].vs \in SUBSET Hash
  BY <1>0, <1>1, JobAt, ThreadType DEF Ingesting
<1>3. Alone(t) /\ th'[t].pc \notin Counting
  BY <1>0, <1>1, DoneAt, StepAt DEF Counting
<1>4. Takes(t)' = {} /\ ~ Adds(t)' /\ ~ Adds(t) /\ Takes(t) = th[t].vs
  BY <1>1, <1>2, <1>3, NothingToCount DEF Takes, Adds
<1>5. ASSUME Exact PROVE Exact'
  <2>1. db.rows \in SUBSET Hash
    BY <1>0 DEF Tables, Store
  <2>2. Cardinality(db.rows) \in Nat /\ Cardinality({}) = 0 /\ Cardinality(th[t].vs) \in Nat
    BY <1>2, <2>1, PairsOf, FS_EmptySet
  <2>3. Cardinality(db'.rows) + Cardinality(Takes(t)') - One(Adds(t)')
          = Cardinality(db.rows) + Cardinality(Takes(t)) - One(Adds(t)) + (- Cardinality(th[t].vs))
    BY <1>1, <1>4, <2>2 DEF One
  <2>4. total' = Wrap(total + (- Cardinality(th[t].vs))) /\ - Cardinality(th[t].vs) \in Int
    BY <1>0, <1>1, <2>2
  <2> QED
    BY <1>3, <1>5, <2>3, <2>4, ExactMoves
<1> QED
  BY <1>1, <1>2, <1>3, <1>5 DEF Passes, Counting

\* With every thread idle there is nothing left to count.
LEMMA IdleExact ==
    ASSUME \A t \in Thread : th'[t] = Idle, total' = Wrap(Cardinality(db'.rows)), Cardinality(db'.rows) \in Nat
    PROVE  Exact'
<1>1. \A t \in Thread : Takes(t)' = {} /\ ~ Adds(t)'
  BY IdleType, NothingToCount DEF Counting
<1>2. ToTake' = {} /\ ToAdd' = {}
  BY <1>1 DEF ToTake, ToAdd
<1>3. Cardinality({}) = 0
  BY FS_EmptySet
<1>4. Cardinality(db'.rows) + Cardinality(ToTake') - Cardinality(ToAdd') = Cardinality(db'.rows)
  BY <1>2, <1>3
<1> QED
  BY <1>4 DEF Exact

\* The end of a clear: exact, or a race.
LEMMA ClearCountPasses ==
    ASSUME IInv, IInv', NEW t \in Thread, ClearCount(t)
    PROVE  Passes(t)
<1>0. Threads
  BY DEF IInv
<1>1. total' = 0 /\ Done(t) /\ db' = db /\ raced' = (raced \/ db.rows # {} \/ \E u \in Thread \ {t} : th[u] # Idle)
  BY DEF ClearCount, dbvars
<1>2. Alone(t) /\ th'[t].pc = "idle" /\ th'[t] = Idle
  BY <1>0, <1>1, DoneAt, Finished
<1>3. ASSUME ~ raced' PROVE Exact'
  <2>1. \A u \in Thread : th'[u] = Idle
    BY <1>1, <1>2, <1>3 DEF Alone
  <2>2. Cardinality(db'.rows) = 0
    BY <1>1, <1>3, FS_EmptySet
  <2>3. WIDTH \in Nat \ {0}
    BY CasAssumption
  <2>4. 0 % WIDTH = 0
    <3>1. \A w \in Nat \ {0} : 0 % w = 0
      <4>1. SUFFICES ASSUME NEW w \in Nat \ {0} PROVE 0 % w = 0
        OBVIOUS
      <4>2. 0 \in 0 .. w - 1 /\ 0 = w * 0 + 0
        OBVIOUS
      <4> QED
        BY <4>2, ModUnique
    <3> QED
      BY <2>3, <3>1
  <2>5. total' = Wrap(Cardinality(db'.rows)) /\ Cardinality(db'.rows) \in Nat
    BY <1>1, <2>2, <2>4 DEF Wrap
  <2> QED
    BY <2>1, <2>5, IdleExact
<1> QED
  BY <1>1, <1>2, <1>3 DEF Passes

\* The start of a clear.
LEMMA ClearPasses ==
    ASSUME IInv, IInv', NEW t \in Thread, Clear(t)
    PROVE  Passes(t)
<1>0. Threads
  BY DEF IInv
<1>1. Starts(t, Job("clear_files", "clear", NoKey, NoOff, NoHash)) /\ (raced => raced')
  BY DEF Clear
<1>2. Alone(t) /\ th'[t].pc = "clear_files" /\ th'[t].job = "clear"
  BY <1>0, <1>1, StartAt
<1>3. Running("clear")' # {}
  BY <1>2 DEF Running
<1> QED
  BY <1>1, <1>2, <1>3 DEF Passes

\* A step of one thread keeps the count, or notes why it does not.
LEMMA PassesKeeps ==
    ASSUME Counted, ExactUnlessRaced, NEW t \in Thread, Passes(t)
    PROVE  Counted' /\ ExactUnlessRaced'
<1>1. Counted'
  BY DEF Counted, Passes, Alone
<1>2. raced' \/ Running("clear")' # {} \/ Exact'
  <2>1. CASE raced
    BY <2>1 DEF Passes
  <2>2. CASE Running("clear") # {}
    <3>1. PICK u \in Thread : th[u].job = "clear"
      BY <2>2 DEF Running
    <3>2. CASE u = t
      <4>1. th'[t].job = "clear" \/ raced' \/ Exact'
        BY <3>1, <3>2 DEF Passes
      <4> QED
        BY <4>1 DEF Running
    <3>3. CASE u # t
      BY <3>1, <3>3 DEF Passes, Alone, Running
    <3> QED
      BY <3>2, <3>3
  <2>3. CASE Exact
    BY <2>3 DEF Passes
  <2> QED
    BY <2>1, <2>2, <2>3 DEF ExactUnlessRaced, Exact
<1> QED
  BY <1>1, <1>2 DEF ExactUnlessRaced, Exact

\* Every step keeps the count exact, or notes a race or a clear.
LEMMA CountedStep ==
    ASSUME IInv, IInv', Counted, ExactUnlessRaced, [Next]_vars
    PROVE  Counted' /\ ExactUnlessRaced'
<1>1. ASSUME UNCHANGED <<th, db, total, raced>> PROVE Counted' /\ ExactUnlessRaced'
  BY <1>1 DEF Counted, ExactUnlessRaced, Running, ToTake, ToAdd, Takes, Adds
<1>2. CASE UNCHANGED vars
  BY <1>1, <1>2 DEF vars, dbvars, hist
<1>3. CASE Wake \/ Persist \/ Cool \/ Rot
  BY <1>1, <1>3 DEF Wake, Persist, Cool, Rot, dbvars, hist, CommitDurable
<1>4. ASSUME NEW t \in Thread, DropNode(t) PROVE Counted' /\ ExactUnlessRaced'
  <2>1. th' = th /\ total' = total /\ raced' = raced /\ db'.rows = db.rows
    BY <1>4 DEF DropNode, CommitVolatile, IInv, Tables, Store
  <2> QED
    BY <2>1 DEF Counted, ExactUnlessRaced, Running, ToTake, ToAdd, Takes, Adds
<1>5. CASE Kill
  <2>1. (\A t \in Thread : th'[t] = Idle) /\ db' = disk /\ total' = Wrap(Cardinality(disk.rows))
    BY <1>5 DEF Kill
  <2>2. Cardinality(db'.rows) \in Nat
    <3>1. db'.rows \in SUBSET Hash
      BY DEF IInv, Tables, Store
    <3> QED
      BY <3>1, PairsOf
  <2>3. Exact'
    BY <2>1, <2>2, IdleExact
  <2> QED
    BY <2>1, <2>3, IdleType DEF Counted, ExactUnlessRaced, Exact
<1>6. ASSUME NEW t \in Thread, Plain(t) \/ CommitIngest(t) \/ AccountIngest(t) \/ DropRow(t) \/ DropCount(t)
             \/ EvictRows(t) \/ EvictFiles(t) \/ EvictCount(t) \/ Clear(t) \/ ClearCount(t)
      PROVE  Counted' /\ ExactUnlessRaced'
  <2>1. Passes(t)
    BY <1>6, PlainStep, CommitPasses, AccountPasses, DropRowPasses, DropCountPasses, EvictRowsPasses,
       EvictFilesPasses, EvictCountPasses, ClearPasses, ClearCountPasses
  <2> QED
    BY <2>1, PassesKeeps
<1> QED
  BY <1>2, <1>3, <1>4, <1>5, <1>6 DEF Next, Plain

\* The count (total_bytes, which account_ingest, evict, drop_corrupt and clear change with
\* atomic updates of their own, after the transactions they belong to) is the sum of the
\* rows but for what threads have still to account for, with any number of threads,
\* chunks and restarts, unless an eviction met another removal of its victim or a clear
\* met other work.
THEOREM CountStaysExact == Spec => []ExactUnlessRaced
<1>1. Init => Counted /\ ExactUnlessRaced
  <2> SUFFICES ASSUME Init PROVE Counted /\ ExactUnlessRaced
    OBVIOUS
  <2>0. th = [t \in Thread |-> Idle] /\ db = Fresh /\ total = 0
    BY DEF Init
  <2>2. \A t \in Thread : th[t].pc = "idle"
    BY <2>0, IdleType
  <2>3. ToTake = {} /\ ToAdd = {}
    BY <2>2 DEF ToTake, ToAdd, Takes, Adds
  <2>4. db.rows = {} /\ total = 0
    BY <2>0 DEF Fresh
  <2>5. Cardinality({}) = 0
    BY FS_EmptySet
  <2>6. Cardinality(db.rows) + Cardinality(ToTake) - Cardinality(ToAdd) = 0
    BY <2>3, <2>4, <2>5
  <2>7. WIDTH \in Nat \ {0}
    BY CasAssumption
  <2>8. \A w \in Nat \ {0} : 0 % w = 0
    <3>1. SUFFICES ASSUME NEW w \in Nat \ {0} PROVE 0 % w = 0
      OBVIOUS
    <3>2. 0 \in 0 .. w - 1 /\ 0 = w * 0 + 0
      OBVIOUS
    <3> QED
      BY <3>2, ModUnique
  <2>9. total = Wrap(Cardinality(db.rows) + Cardinality(ToTake) - Cardinality(ToAdd))
    BY <2>4, <2>6, <2>7, <2>8 DEF Wrap
  <2> QED
    BY <2>2, <2>9 DEF Counted, ExactUnlessRaced
<1>2. IInv /\ IInv' /\ (Counted /\ ExactUnlessRaced) /\ [Next]_vars => (Counted /\ ExactUnlessRaced)'
  BY CountedStep
<1> QED
  BY <1>1, <1>2, Invariance, PTL DEF Spec

-----------------------------------------------------------------------------
(***************************************************************************)
(* The refinement.                                                         *)
(***************************************************************************)
Shown == [t \in Thread |-> LookOf(t)]

\* What one thread does to what it shows is all that is seen of its step.
LEMMA ShownStep ==
    ASSUME NEW t \in Thread, \A u \in Thread : u # t => LookOf(u)' = LookOf(u)
    PROVE  Shown' = [Shown EXCEPT ![t] = LookOf(t)'] /\ Shown[t] = LookOf(t)
BY DEF Shown

\* Who keeps his job and place shows the same.
LEMMA SameLook ==
    ASSUME NEW u \in Thread, th'[u] = th[u]
    PROVE  LookOf(u)' = LookOf(u)
BY DEF LookOf

\* The work of a thread that does not read shows nothing.
LEMMA AsideShown ==
    ASSUME NEW t \in Thread, Aside(t)
    PROVE  Shown' = Shown
<1>1. \A u \in Thread : u # t => LookOf(u)' = LookOf(u)
  BY SameLook DEF Aside
<1>2. LookOf(t)' = LookOf(t)
  BY DEF Aside, LookOf
<1> QED
  BY <1>1, <1>2 DEF Shown

\* A reader's step is a look, an answer, an end, or nothing.
LEMMA ReaderShown ==
    ASSUME NEW t \in Thread, \A u \in Thread : u # t => th'[u] = th[u], Moves(t),
           db'.man = db.man, disk'.man = disk.man
    PROVE  [Promised!Next]_<<db.man, disk.man, Shown>>
<1>1. \A u \in Thread : u # t => LookOf(u)' = LookOf(u)
  BY SameLook
<1>2. Shown' = [Shown EXCEPT ![t] = LookOf(t)'] /\ Shown[t] = LookOf(t)
  BY <1>1, ShownStep
<1>3. CASE LookOf(t)' = LookOf(t)
  BY <1>1, <1>3 DEF Shown
<1>4. CASE LookOf(t).pc # "given" /\ \E k \in Key, o \in Off : LookOf(t)' = Seen("found", db.man[k][o])
  <2>1. PICK k \in Key, o \in Off : LookOf(t)' = Seen("found", db.man[k][o])
    BY <1>4
  <2>2. Promised!Look(t, k, o)
    BY <1>2, <1>4, <2>1 DEF Promised!Look, Seen, Shown
  <2> QED
    BY <2>2 DEF Promised!Next, Promised!Key, Key
<1>5. CASE LookOf(t) = Seen("found", th[t].h) /\ th[t].h # NoHash /\ LookOf(t)' = Seen("given", th[t].h)
  <2>1. PICK h : h = th[t].h
    OBVIOUS
  <2>2. Shown[t] = [pc |-> "found", hash |-> h] /\ h # NoHash /\ LookOf(t)' = [pc |-> "given", hash |-> h]
    BY <1>2, <1>5, <2>1 DEF Seen
  <2>3. [Shown[t] EXCEPT !.pc = "given"] = LookOf(t)'
    BY <2>2
  <2>4. Shown' = [Shown EXCEPT ![t].pc = "given"]
    BY <1>2, <2>3
  <2>5. Promised!Give(t)
    BY <2>2, <2>4 DEF Promised!Give, Shown
  <2> QED
    BY <2>5 DEF Promised!Next
<1>6. CASE LookOf(t)' = Seen("idle", NoHash)
  <2>1. Promised!End(t)
    BY <1>2, <1>6 DEF Promised!End, Promised!NoLook, Seen, Shown
  <2> QED
    BY <2>1 DEF Promised!Next
<1> QED
  BY <1>3, <1>4, <1>5, <1>6 DEF Moves

\* A transaction that changes the manifests is one the promise knows.
LEMMA TablesShown ==
    ASSUME IInv, Shown' = Shown,
           NEW t \in Thread, CommitIngest(t) \/ Rebind(t) \/ DropNode(t) \/ Clear(t) \/ EvictRows(t)
    PROVE  [Promised!Next]_<<db.man, disk.man, Shown>>
<1>k. /\ Promised!Key = Key /\ Promised!NoChunk = NoChunk
      /\ \A M, k, m : Promised!Only(M, k, m) = Bind(M, k, m)
  BY DEF Promised!Key, Key, Promised!NoChunk, NoChunk, Promised!Only, Bind
<1>1. CASE CommitIngest(t)
  <2>1. PICK k \in Key, o \in Off, h \in Hash : k = th[t].k /\ o = th[t].o /\ h = th[t].h
    BY <1>1, CommitTables
  <2>2. CASE disk' = db' /\ db'.man = Bind(db.man, k, [db.man[k] EXCEPT ![o] = h])
    <3>1. Promised!Put(k, o, h)
      BY <1>k, <2>2 DEF Promised!Put, Shown
    <3> QED
      BY <1>k, <3>1 DEF Promised!Next
  <2>3. CASE disk' = disk /\ db'.man = Bind(db.man, <<k[1], WIP>>, [NoChunk EXCEPT ![o] = h])
    <3>1. PICK m \in [Off -> Hash \cup {NoHash}] : m = [NoChunk EXCEPT ![o] = h]
      BY DEF NoChunk
    <3>2. PICK f \in Node : f = k[1]
      BY DEF Key
    <3>3. Promised!Collect(f, m)
      BY <1>k, <2>3, <3>1, <3>2 DEF Promised!Collect, Shown
    <3> QED
      BY <3>3 DEF Promised!Next
  <2> QED
    BY <1>1, <2>1, <2>2, <2>3, CommitTables
<1>2. CASE Rebind(t)
  <2>1. PICK k \in Key : k = th[t].k
    BY <1>2, RebindTables
  <2>2. CASE db' = db
    BY <1>2, <2>2, RebindTables
  <2>3. CASE /\ db.man[<<k[1], WIP>>] # NoChunk
             /\ db'.man = Bind(db.man, k, db.man[<<k[1], WIP>>])
    <3>1. PICK f \in Node, v \in Ver : k = <<f, v>> /\ k[1] = f
      BY DEF Key
    <3>2. disk' = disk
      BY <1>2, RebindTables
    <3>3. Promised!Settle(f, v)
      BY <1>k, <2>3, <3>1, <3>2 DEF Promised!Settle, Shown
    <3> QED
      BY <3>3 DEF Promised!Next
  <2> QED
    BY <1>2, <2>1, <2>2, <2>3, RebindTables
<1>3. CASE DropNode(t) \/ Clear(t)
  <2>1. disk' = disk
    BY <1>3, DropTables
  <2>2. ASSUME NEW f \in Node, db'.man = [k \in Key |-> IF k[1] = f THEN NoChunk ELSE db.man[k]]
        PROVE  Promised!Next
    <3>1. Promised!Forget(f)
      BY <1>k, <2>1, <2>2 DEF Promised!Forget, Shown
    <3> QED
      BY <3>1 DEF Promised!Next
  <2>3. CASE db'.man = [k \in Key |-> NoChunk]
    <3>1. Promised!Clear
      BY <1>k, <2>1, <2>3 DEF Promised!Clear, Promised!Empty, Shown
    <3> QED
      BY <3>1 DEF Promised!Next
  <2> QED
    BY <1>3, <2>2, <2>3, DropTables
<1>4. CASE EvictRows(t)
  BY <1>4, RowTables
<1> QED
  BY <1>1, <1>2, <1>3, <1>4

\* Every step of the store is a step of the promise, or changes nothing it speaks of.
LEMMA PromiseStep ==
    ASSUME "bad" \notin Damage, IInv, [Next]_vars
    PROVE  [Promised!Next]_<<db.man, disk.man, Shown>>
<1>1. ASSUME NEW t \in Thread, Works(t) PROVE [Promised!Next]_<<db.man, disk.man, Shown>>
  <2>1. Shown' = Shown
    BY <1>1, WorksAside, AsideShown
  <2>2. CASE CommitIngest(t) \/ Rebind(t) \/ Clear(t) \/ EvictRows(t)
    BY <2>1, <2>2, TablesShown
  <2>3. CASE ~(CommitIngest(t) \/ Rebind(t) \/ Clear(t) \/ EvictRows(t))
    <3>1. Quiet(t)
      BY <1>1, <2>3 DEF Works, Quiet
    <3>2. db' = db /\ disk' = disk
      BY <3>1, QuietTables
    <3> QED
      BY <2>1, <3>2
  <2> QED
    BY <2>2, <2>3
<1>2. ASSUME NEW t \in Thread, Reads(t) PROVE [Promised!Next]_<<db.man, disk.man, Shown>>
  <2>1. Moves(t) /\ \A u \in Thread : u # t => th'[u] = th[u]
    BY <1>2, ReadsInside DEF Inside
  <2>2. db'.man = db.man /\ disk'.man = disk.man
    <3>1. CASE DropRow(t)
      BY <3>1, RowTables
    <3>2. CASE ~DropRow(t)
      <4>1. Quiet(t)
        BY <1>2, <3>2 DEF Reads, Quiet
      <4> QED
        BY <4>1, QuietTables
    <3> QED
      BY <3>1, <3>2
  <2> QED
    BY <2>1, <2>2, ReaderShown
<1>3. ASSUME th' = th PROVE Shown' = Shown
  BY <1>3 DEF Shown, LookOf
<1>4. ASSUME NEW t \in Thread, DropNode(t) PROVE [Promised!Next]_<<db.man, disk.man, Shown>>
  <2>1. Shown' = Shown
    BY <1>3, <1>4 DEF DropNode
  <2> QED
    BY <1>4, <2>1, TablesShown
<1>5. CASE Wake \/ Cool \/ Rot \/ UNCHANGED vars
  <2>1. th' = th /\ db' = db /\ disk' = disk
    BY <1>5, QuietTables DEF Wake, Cool, Rot, vars
  <2> QED
    BY <1>3, <2>1
<1>6. CASE Persist
  <2>1. Shown' = Shown /\ db' = db /\ disk' = db
    BY <1>3, <1>6, PersistTables DEF Persist
  <2>2. Promised!Persist
    BY <2>1 DEF Promised!Persist, Shown
  <2> QED
    BY <2>2 DEF Promised!Next
<1>7. CASE Kill
  <2>1. db' = disk /\ disk' = disk /\ th' = [t \in Thread |-> Idle]
    BY <1>7, KillTables DEF Kill
  <2>2. \A t \in Thread : LookOf(t)' = Promised!NoLook
    BY <2>1, IdleType DEF LookOf, Seen, Promised!NoLook
  <2>3. Shown' = [t \in Thread |-> Promised!NoLook]
    BY <2>2 DEF Shown
  <2>4. Promised!Restart
    BY <2>1, <2>3 DEF Promised!Restart, Shown
  <2> QED
    BY <2>4 DEF Promised!Next
<1> QED
  BY <1>1, <1>2, <1>4, <1>5, <1>6, <1>7 DEF Next, Works, Reads

\* The store with its files, transactions, evictions and races is the store of
\* ContentStore: a reader gets the bytes a manifest it looked up named, or nothing, as
\* long as the disk damages chunks in their length only.
THEOREM StoreKeepsPromise ==
    ASSUME "bad" \notin Damage
    PROVE  Spec => KeepsPromise
<1>1. Init => Promised!Init
  <2> SUFFICES ASSUME Init PROVE Promised!Init
    OBVIOUS
  <2>1. db = Fresh /\ disk = Fresh /\ th = [t \in Thread |-> Idle]
    BY DEF Init
  <2>2. Fresh.man = [k \in Key |-> NoChunk]
    BY DEF Fresh
  <2>3. \A t \in Thread : LookOf(t) = Promised!NoLook
    BY <2>1, IdleType DEF LookOf, Seen, Promised!NoLook
  <2> QED
    BY <2>1, <2>2, <2>3 DEF Promised!Init, Promised!Empty, Promised!Key, Key, Promised!NoChunk, NoChunk
<1>2. IInv /\ [Next]_vars => [Promised!Next]_<<db.man, disk.man, Shown>>
  BY PromiseStep
<1> QED
  BY <1>1, <1>2, Invariance, PTL DEF Spec, KeepsPromise, Promised!Spec, Shown
=============================================================================
