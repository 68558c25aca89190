------------------------- MODULE WriteBehindProofs -------------------------
(***************************************************************************)
(* What holds of the write path with any number of blocks, permits, writes *)
(* and operations: overlapping writes reach the guest in the order of the  *)
(* client, and what a COMMIT, a FILE_SYNC write or a read vouches for was  *)
(* in the guest when it got there.                                         *)
(*                                                                         *)
(* The order rests on the chain of an entry (Chain): its tail waits, batch *)
(* by batch, for all that is queued with the entry, so the batch that may  *)
(* land is the only one that waits for none.  The barriers rest on the map *)
(* (Mapped): a batch in flight keeps the entry it is registered with in    *)
(* the map, which is where an operation looks for what it has to wait for  *)
(* (Owing).                                                                *)
(***************************************************************************)
EXTENDS WriteBehind, FiniteSetTheorems, SequenceTheorems, TLAPS

\* Where a write is: not yet answered, known to the guest or given up, or in between.
Fresh == {"slot", "held", "sync"}
Hits  == {"landed", "done", "lost"}
Pcs   == Fresh \cup Hits \cup {"queued", "refused"}

\* The types of the records.
Rec == [b : Block, sync : BOOLEAN, pc : Pcs, q : Nat, prev : Nat, orphan : BOOLEAN,
        failed : BOOLEAN, verf : Nat]
Ent == [dirty : BOOLEAN, err : BOOLEAN, tail : Nat]
Ops == [kind : Kind \cup {"none"}, r : SUBSET Block, w : Nat, pc : {"drain", "check", "rpc", "ok", "err"},
        q : Nat, skip : BOOLEAN, val : Nat, owed : SUBSET Nat]

Typed ==
    /\ wr \in Seq(Rec) /\ ent \in Seq(Ent) /\ op \in Seq(Ops) /\ map \in Nat
    /\ cache \in [Block -> Nat] /\ disk \in [Block -> Nat]
    /\ stale \in SUBSET Block /\ verf \in Nat /\ crashes \in 0 .. MaxCrash

-----------------------------------------------------------------------------
\* The fields of a write.
LEMMA WriteType ==
    ASSUME Typed, NEW w \in Writes
    PROVE  /\ wr[w] \in Rec /\ wr[w].b \in Block /\ wr[w].sync \in BOOLEAN /\ wr[w].pc \in Pcs /\ wr[w].q \in Nat
           /\ wr[w].prev \in Nat /\ wr[w].orphan \in BOOLEAN /\ wr[w].failed \in BOOLEAN /\ wr[w].verf \in Nat
<1>1. wr[w] \in Rec
  BY ElementOfSeq DEF Typed, Writes
<1> QED
  BY <1>1 DEF Rec

\* The fields of an entry, and of an operation.
LEMMA EntType ==
    ASSUME Typed, NEW q \in DOMAIN ent
    PROVE  /\ q \in 1 .. Len(ent) /\ ent[q] \in Ent /\ ent[q].dirty \in BOOLEAN /\ ent[q].err \in BOOLEAN
           /\ ent[q].tail \in Nat
<1>1. q \in 1 .. Len(ent)
  BY LenProperties DEF Typed
<1>2. ent[q] \in Ent
  BY <1>1, ElementOfSeq DEF Typed
<1> QED
  BY <1>1, <1>2 DEF Ent

\* The fields of an operation.
LEMMA OpType ==
    ASSUME Typed, NEW i \in DOMAIN op
    PROVE  /\ i \in 1 .. Len(op) /\ op[i] \in Ops /\ op[i].kind \in Kind \cup {"none"} /\ op[i].r \in SUBSET Block
           /\ op[i].w \in Nat /\ op[i].pc \in {"drain", "check", "rpc", "ok", "err"} /\ op[i].q \in Nat
           /\ op[i].skip \in BOOLEAN /\ op[i].val \in Nat /\ op[i].owed \in SUBSET Nat
<1>1. i \in 1 .. Len(op)
  BY LenProperties DEF Typed
<1>2. op[i] \in Ops
  BY <1>1, ElementOfSeq DEF Typed
<1> QED
  BY <1>1, <1>2 DEF Ops

\* The step changes write w, and to this.
Sets(w, pc, q, prev, orphan, failed, v) ==
    /\ wr' \in Seq(Rec) /\ Len(wr') = Len(wr) /\ Writes' = Writes
    /\ \A x \in Writes : x # w => wr'[x] = wr[x]
    /\ wr'[w].b = wr[w].b /\ wr'[w].sync = wr[w].sync /\ wr'[w].pc = pc /\ wr'[w].q = q /\ wr'[w].prev = prev
    /\ wr'[w].orphan = orphan /\ wr'[w].failed = failed /\ wr'[w].verf = v

\* A write is replaced by another record for the same block.
LEMMA SetsWrite ==
    ASSUME Typed, NEW w \in Writes, NEW x \in Rec, wr' = [wr EXCEPT ![w] = x], x.b = wr[w].b, x.sync = wr[w].sync
    PROVE  Sets(w, x.pc, x.q, x.prev, x.orphan, x.failed, x.verf)
<1>1. /\ wr' \in Seq(Rec) /\ Len(wr') = Len(wr)
      /\ \A y \in 1 .. Len(wr) : wr'[y] = IF y = w THEN x ELSE wr[y]
  BY ExceptSeq DEF Typed, Writes
<1> QED
  BY <1>1 DEF Sets, Writes

\* A write arrives.
Adds(x) ==
    /\ wr' \in Seq(Rec) /\ Len(wr') = Len(wr) + 1 /\ Writes' = Writes \cup {Len(wr) + 1} /\ Len(wr) + 1 \notin Writes
    /\ \A w \in Writes : wr'[w] = wr[w] /\ w < Len(wr) + 1
    /\ wr'[Len(wr) + 1] = x

\* A record is put behind the writes there are.
LEMMA AddsWrite ==
    ASSUME Typed, NEW x \in Rec, wr' = Append(wr, x)
    PROVE  Adds(x)
<1>1. /\ wr' \in Seq(Rec) /\ Len(wr') = Len(wr) + 1 /\ Len(wr) \in Nat
      /\ \A w \in 1 .. Len(wr) : wr'[w] = wr[w]
      /\ wr'[Len(wr) + 1] = x
  BY AppendProperties, LenProperties DEF Typed
<1> QED
  BY <1>1 DEF Adds, Writes

\* A write as it arrives: nothing has been done for it.
LEMMA NewType ==
    ASSUME Typed, NEW b \in Block, NEW s \in BOOLEAN
    PROVE  /\ NewWrite(b, s) \in Rec /\ NewWrite(b, s).b = b /\ NewWrite(b, s).sync = s
           /\ NewWrite(b, s).pc = (IF s THEN "sync" ELSE "slot") /\ NewWrite(b, s).q = 0 /\ NewWrite(b, s).prev = 0
           /\ NewWrite(b, s).orphan = FALSE /\ NewWrite(b, s).failed = FALSE /\ NewWrite(b, s).verf = verf
BY DEF NewWrite, Rec, Pcs, Fresh, None, Typed

-----------------------------------------------------------------------------
\* What the steps of a batch do to its write.
LEMMA TakeSlotSets ==
    ASSUME Typed, NEW w \in Writes, TakeSlot(w), map' \in Nat
    PROVE  Sets(w, "held", map', wr[w].prev, wr[w].orphan, wr[w].failed, wr[w].verf)
<1> DEFINE x == [wr[w] EXCEPT !.pc = "held", !.q = map']
<1>1. wr[w] \in Rec /\ "held" \in Pcs
  BY WriteType DEF Pcs, Fresh
<1>2. /\ x \in Rec /\ x.pc = "held" /\ x.q = map' /\ x.b = wr[w].b /\ x.sync = wr[w].sync /\ x.prev = wr[w].prev
      /\ x.orphan = wr[w].orphan /\ x.failed = wr[w].failed /\ x.verf = wr[w].verf
  BY <1>1 DEF Rec
<1>3. wr' = [wr EXCEPT ![w] = x]
  BY DEF TakeSlot
<1> HIDE DEF x
<1>4. Sets(w, x.pc, x.q, x.prev, x.orphan, x.failed, x.verf)
  BY <1>2, <1>3, SetsWrite
<1> QED
  BY <1>2, <1>4

\* A batch is queued behind the tail of its entry.
LEMMA QueueSets ==
    ASSUME Typed, NEW w \in Writes, Queue(w), wr[w].q \in DOMAIN ent
    PROVE  Sets(w, "queued", wr[w].q, ent[wr[w].q].tail, wr[w].q # map, wr[w].failed, verf)
<1> DEFINE x == [wr[w] EXCEPT !.pc = "queued", !.prev = ent[wr[w].q].tail, !.orphan = (wr[w].q # map), !.verf = verf]
<1>1. wr[w] \in Rec /\ "queued" \in Pcs /\ ent[wr[w].q].tail \in Nat /\ (wr[w].q # map) \in BOOLEAN /\ verf \in Nat
  BY WriteType, EntType DEF Pcs, Typed
<1>2. /\ x \in Rec /\ x.pc = "queued" /\ x.q = wr[w].q /\ x.b = wr[w].b /\ x.sync = wr[w].sync
      /\ x.prev = ent[wr[w].q].tail /\ x.orphan = (wr[w].q # map) /\ x.failed = wr[w].failed /\ x.verf = verf
  BY <1>1 DEF Rec
<1>3. wr' = [wr EXCEPT ![w] = x]
  BY DEF Queue
<1> HIDE DEF x
<1>4. Sets(w, x.pc, x.q, x.prev, x.orphan, x.failed, x.verf)
  BY <1>2, <1>3, SetsWrite
<1> QED
  BY <1>2, <1>4, Zenon

\* A batch has been to the guest, with or without success.
LEMMA LandSets ==
    ASSUME Typed, NEW w \in Writes, NEW r, Land(w, r)
    PROVE  Sets(w, "landed", wr[w].q, wr[w].prev, wr[w].orphan, r # "ok", wr[w].verf)
<1> DEFINE x == [wr[w] EXCEPT !.pc = "landed", !.failed = (r # "ok")]
<1>1. wr[w] \in Rec /\ "landed" \in Pcs /\ (r # "ok") \in BOOLEAN
  BY WriteType DEF Pcs, Hits
<1>2. /\ x \in Rec /\ x.pc = "landed" /\ x.q = wr[w].q /\ x.b = wr[w].b /\ x.sync = wr[w].sync
      /\ x.prev = wr[w].prev /\ x.orphan = wr[w].orphan /\ x.failed = (r # "ok") /\ x.verf = wr[w].verf
  BY <1>1 DEF Rec
<1>3. wr' = [wr EXCEPT ![w] = x]
  BY DEF Land
<1> HIDE DEF x
<1>4. Sets(w, x.pc, x.q, x.prev, x.orphan, x.failed, x.verf)
  BY <1>2, <1>3, SetsWrite
<1> QED
  BY <1>2, <1>4, Zenon

\* A batch is over and forgets what it was registered with.
LEMMA FinishSets ==
    ASSUME Typed, NEW w \in Writes, Finish(w)
    PROVE  Sets(w, "done", None, None, wr[w].orphan, wr[w].failed, wr[w].verf)
<1> DEFINE x == [wr[w] EXCEPT !.pc = "done", !.q = None, !.prev = None]
<1>1. wr[w] \in Rec /\ "done" \in Pcs /\ None \in Nat
  BY WriteType DEF Pcs, Hits, None
<1>2. /\ x \in Rec /\ x.pc = "done" /\ x.q = None /\ x.b = wr[w].b /\ x.sync = wr[w].sync
      /\ x.prev = None /\ x.orphan = wr[w].orphan /\ x.failed = wr[w].failed /\ x.verf = wr[w].verf
  BY <1>1 DEF Rec
<1>3. wr' = [wr EXCEPT ![w] = x]
  BY DEF Finish
<1> HIDE DEF x
<1>4. Sets(w, x.pc, x.q, x.prev, x.orphan, x.failed, x.verf)
  BY <1>2, <1>3, SetsWrite
<1> QED
  BY <1>2, <1>4, Zenon

\* The write of a FILE_SYNC write is done, or refused.
LEMMA SyncSets ==
    ASSUME Typed, NEW w \in Writes, NEW pc \in {"done", "refused"}, wr' = [wr EXCEPT ![w].pc = pc]
    PROVE  Sets(w, pc, wr[w].q, wr[w].prev, wr[w].orphan, wr[w].failed, wr[w].verf)
<1> DEFINE x == [wr[w] EXCEPT !.pc = pc]
<1>1. wr[w] \in Rec /\ pc \in Pcs
  BY WriteType DEF Pcs, Hits
<1>2. /\ x \in Rec /\ x.pc = pc /\ x.q = wr[w].q /\ x.b = wr[w].b /\ x.sync = wr[w].sync
      /\ x.prev = wr[w].prev /\ x.orphan = wr[w].orphan /\ x.failed = wr[w].failed /\ x.verf = wr[w].verf
  BY <1>1 DEF Rec
<1>3. wr' = [wr EXCEPT ![w] = x]
  OBVIOUS
<1> HIDE DEF x
<1>4. Sets(w, x.pc, x.q, x.prev, x.orphan, x.failed, x.verf)
  BY <1>2, <1>3, SetsWrite
<1> QED
  BY <1>2, <1>4, Zenon

\* A restart of the host: where a write is afterwards.
After(pc) == IF pc \in {"queued", "landed"} THEN "lost" ELSE IF pc \in {"done", "lost"} THEN pc ELSE "refused"

Restarts ==
    /\ wr' \in Seq(Rec) /\ Len(wr') = Len(wr) /\ Writes' = Writes
    /\ \A w \in Writes :
         /\ wr'[w].b = wr[w].b /\ wr'[w].sync = wr[w].sync /\ wr'[w].pc = After(wr[w].pc) /\ wr'[w].q = wr[w].q
         /\ wr'[w].prev = wr[w].prev /\ wr'[w].orphan = wr[w].orphan /\ wr'[w].failed = wr[w].failed
         /\ wr'[w].verf = wr[w].verf

\* What a restart of the host does to every write.
LEMMA RestartSets ==
    ASSUME Typed, HostRestart
    PROVE  Restarts
<1> DEFINE x(w) == [wr[w] EXCEPT !.pc = After(wr[w].pc)]
<1>1. ASSUME NEW w \in Writes
      PROVE  /\ x(w) \in Rec /\ x(w).pc = After(wr[w].pc) /\ x(w).q = wr[w].q /\ x(w).b = wr[w].b
             /\ x(w).sync = wr[w].sync /\ x(w).prev = wr[w].prev /\ x(w).orphan = wr[w].orphan
             /\ x(w).failed = wr[w].failed /\ x(w).verf = wr[w].verf
  <2>1. wr[w] \in Rec /\ After(wr[w].pc) \in Pcs
    BY WriteType DEF After, Pcs, Hits
  <2> QED
    BY <2>1 DEF Rec
<1>2. wr' = [w \in Writes |-> x(w)]
  BY DEF HostRestart, After
<1> HIDE DEF x
<1>3. Len(wr) \in Nat /\ Writes = 1 .. Len(wr)
  BY LenProperties DEF Typed, Writes
<1>4. \A w \in Writes : x(w) \in Rec
  BY <1>1
<1>5. wr' \in Seq(Rec) /\ Len(wr') = Len(wr)
  BY <1>2, <1>3, <1>4
<1>6. \A w \in Writes : wr'[w] = x(w)
  BY <1>2
<1> QED
  BY <1>1, <1>3, <1>5, <1>6 DEF Restarts, Writes

\* The entries, of which only the tails matter.
TailsKept ==
    /\ ent' \in Seq(Ent) /\ Len(ent') = Len(ent) /\ DOMAIN ent' = DOMAIN ent
    /\ \A q \in DOMAIN ent : ent'[q].tail = ent[q].tail

\* The entries are left alone.
LEMMA SameTails == ASSUME Typed, ent' = ent PROVE TailsKept
BY DEF Typed, TailsKept

\* An entry keeps its tail when its flags change.
LEMMA FlagTails ==
    ASSUME Typed, NEW q \in DOMAIN ent, NEW x \in Ent, x.tail = ent[q].tail, ent' = [ent EXCEPT ![q] = x]
    PROVE  TailsKept
<1>1. q \in 1 .. Len(ent)
  BY EntType
<1>2. ent' \in Seq(Ent) /\ Len(ent') = Len(ent) /\ \A j \in 1 .. Len(ent) : ent'[j] = IF j = q THEN x ELSE ent[j]
  BY <1>1, ExceptSeq DEF Typed
<1>3. DOMAIN ent = 1 .. Len(ent) /\ DOMAIN ent' = 1 .. Len(ent')
  BY <1>2, LenProperties DEF Typed
<1> QED
  BY <1>2, <1>3 DEF TailsKept

\* err is set or taken.
LEMMA ErrTails ==
    ASSUME Typed, NEW q \in DOMAIN ent, NEW e \in BOOLEAN, ent' = [ent EXCEPT ![q].err = e]
    PROVE  TailsKept
<1> DEFINE x == [ent[q] EXCEPT !.err = e]
<1>1. ent[q] \in Ent
  BY EntType
<1>2. x \in Ent /\ x.tail = ent[q].tail
  BY <1>1 DEF Ent
<1> QED
  BY <1>2, FlagTails

\* dirty is set or taken.
LEMMA DirtyTails ==
    ASSUME Typed, NEW q \in DOMAIN ent, NEW e \in BOOLEAN, ent' = [ent EXCEPT ![q].dirty = e]
    PROVE  TailsKept
<1> DEFINE x == [ent[q] EXCEPT !.dirty = e]
<1>1. ent[q] \in Ent
  BY EntType
<1>2. x \in Ent /\ x.tail = ent[q].tail
  BY <1>1 DEF Ent
<1> QED
  BY <1>2, FlagTails

\* A batch becomes the tail.
LEMMA QueueTails ==
    ASSUME Typed, NEW w \in Writes, Queue(w), wr[w].q \in DOMAIN ent
    PROVE  /\ ent' \in Seq(Ent) /\ Len(ent') = Len(ent) /\ DOMAIN ent' = DOMAIN ent
           /\ \A q \in DOMAIN ent : ent'[q].tail = IF q = wr[w].q THEN w ELSE ent[q].tail
<1> DEFINE q == wr[w].q
           x == [ent[q] EXCEPT !.dirty = TRUE, !.tail = w]
<1>1. q \in 1 .. Len(ent) /\ ent[q] \in Ent /\ w \in Nat
  BY EntType DEF Writes
<1>2. x \in Ent /\ x.tail = w
  BY <1>1 DEF Ent
<1>3. ent' = [ent EXCEPT ![q] = x]
  BY DEF Queue
<1> HIDE DEF x, q
<1>4. ent' \in Seq(Ent) /\ Len(ent') = Len(ent) /\ \A j \in 1 .. Len(ent) : ent'[j] = IF j = q THEN x ELSE ent[j]
  BY <1>1, <1>2, <1>3, ExceptSeq DEF Typed
<1>5. DOMAIN ent = 1 .. Len(ent) /\ DOMAIN ent' = 1 .. Len(ent')
  BY <1>4, LenProperties DEF Typed
<1> QED
  BY <1>2, <1>4, <1>5 DEF q

\* A new entry is clean and last.
LEMMA SlotEnts ==
    ASSUME Typed, NEW w \in Writes, TakeSlot(w)
    PROVE  /\ ent' \in Seq(Ent) /\ Len(ent) <= Len(ent') /\ map' \in Nat
           /\ map # None => map' = map
           /\ map = None => map' = Len(ent) + 1
           /\ map \in DOMAIN ent \/ map = None => map' \in DOMAIN ent'
           /\ DOMAIN ent = 1 .. Len(ent) /\ DOMAIN ent' = 1 .. Len(ent')
           /\ \A q \in DOMAIN ent : q \in DOMAIN ent' /\ ent'[q] = ent[q]
           /\ \A q \in DOMAIN ent' : q \notin DOMAIN ent => ent'[q].tail = None
<1>0. DOMAIN ent = 1 .. Len(ent) /\ Len(ent) \in Nat /\ map \in Nat
  BY LenProperties DEF Typed
<1>1. CASE map # None
  BY <1>0, <1>1 DEF TakeSlot, Typed
<1>2. CASE map = None
  <2> DEFINE x == [dirty |-> FALSE, err |-> FALSE, tail |-> None]
  <2>1. x \in Ent /\ x.tail = None
    BY DEF Ent, None
  <2>2. ent' = Append(ent, x) /\ map' = Len(ent) + 1
    BY <1>2 DEF TakeSlot
  <2> HIDE DEF x
  <2>3. /\ ent' \in Seq(Ent) /\ Len(ent') = Len(ent) + 1 /\ \A i \in 1 .. Len(ent) : ent'[i] = ent[i]
        /\ ent'[Len(ent) + 1] = x
    BY <2>1, <2>2, AppendProperties DEF Typed
  <2>4. DOMAIN ent' = 1 .. Len(ent')
    BY <2>3, LenProperties
  <2> QED
    BY <1>0, <1>2, <2>1, <2>2, <2>3, <2>4
<1> QED
  BY <1>1, <1>2

-----------------------------------------------------------------------------
\* Operation i ends, or goes on to another place.
OpEnds(i) ==
    /\ op' \in Seq(Ops) /\ Len(op') = Len(op) /\ DOMAIN op' = DOMAIN op
    /\ \A j \in DOMAIN op : j # i => op'[j] = op[j]
    /\ op'[i].kind = "none" /\ op'[i].owed = {} /\ op'[i].pc \in {"ok", "err"}
OpGoes(i, pc) ==
    /\ op' \in Seq(Ops) /\ Len(op') = Len(op) /\ DOMAIN op' = DOMAIN op
    /\ \A j \in DOMAIN op : j # i => op'[j] = op[j]
    /\ op'[i].kind = op[i].kind /\ op'[i].r = op[i].r /\ op'[i].w = op[i].w /\ op'[i].q = op[i].q
    /\ op'[i].owed = op[i].owed /\ op'[i].pc = pc

\* An operation is replaced by another record.
LEMMA OpSet ==
    ASSUME Typed, NEW i \in DOMAIN op, NEW x \in Ops, op' = [op EXCEPT ![i] = x]
    PROVE  /\ op' \in Seq(Ops) /\ Len(op') = Len(op) /\ DOMAIN op' = DOMAIN op
           /\ \A j \in DOMAIN op : op'[j] = IF j = i THEN x ELSE op[j]
<1>1. i \in 1 .. Len(op)
  BY OpType
<1>2. op' \in Seq(Ops) /\ Len(op') = Len(op) /\ \A j \in 1 .. Len(op) : op'[j] = IF j = i THEN x ELSE op[j]
  BY <1>1, ExceptSeq DEF Typed
<1>3. DOMAIN op = 1 .. Len(op) /\ DOMAIN op' = 1 .. Len(op')
  BY <1>2, LenProperties DEF Typed
<1> QED
  BY <1>2, <1>3

\* What an answered operation is.
LEMMA OverType ==
    ASSUME NEW pc \in {"ok", "err"}
    PROVE  /\ Over(pc) \in Ops /\ Over(pc).kind = "none" /\ Over(pc).owed = {} /\ Over(pc).pc = pc
           /\ Over(pc).skip = FALSE /\ Over(pc).val = 0
BY DEF Over, Ops, None

\* An operation that is answered ends.
LEMMA AnsweredEnds ==
    ASSUME Typed, NEW i \in DOMAIN op, NEW pc \in {"ok", "err"}, op' = Answered(i, pc)
    PROVE  OpEnds(i) /\ op'[i].pc = pc /\ op'[i].skip = FALSE
<1>1. op' = [op EXCEPT ![i] = Over(pc)]
  BY DEF Answered
<1> QED
  BY <1>1, OverType, OpSet DEF OpEnds

\* A COMMIT of a clean file, and a read, end with something to tell.
LEMMA SkipEnds ==
    ASSUME Typed, NEW i \in DOMAIN op, op' = [Answered(i, "ok") EXCEPT ![i].skip = TRUE]
    PROVE  OpEnds(i) /\ op'[i].pc = "ok" /\ op'[i].skip = TRUE
<1> DEFINE x == [Over("ok") EXCEPT !.skip = TRUE]
<1>1. x \in Ops /\ x.kind = "none" /\ x.owed = {} /\ x.pc = "ok" /\ x.skip = TRUE
  BY OverType DEF Ops
<1>2. Answered(i, "ok") = [op EXCEPT ![i] = Over("ok")]
  BY DEF Answered
<1>3. op' = [op EXCEPT ![i] = x]
  BY <1>2
<1> HIDE DEF x
<1> QED
  BY <1>1, <1>3, OpSet DEF OpEnds

\* A read ends with the value it found.
LEMMA ReadEnds ==
    ASSUME Typed, NEW i \in DOMAIN op, NEW v \in Nat, op' = [Answered(i, "ok") EXCEPT ![i].val = v]
    PROVE  OpEnds(i) /\ op'[i].pc = "ok" /\ op'[i].val = v
<1> DEFINE x == [Over("ok") EXCEPT !.val = v]
<1>1. x \in Ops /\ x.kind = "none" /\ x.owed = {} /\ x.pc = "ok" /\ x.val = v
  BY OverType DEF Ops
<1>2. Answered(i, "ok") = [op EXCEPT ![i] = Over("ok")]
  BY DEF Answered
<1>3. op' = [op EXCEPT ![i] = x]
  BY <1>2
<1> HIDE DEF x
<1> QED
  BY <1>1, <1>3, OpSet DEF OpEnds

\* An operation goes on and keeps what it knows.
LEMMA PcGoes ==
    ASSUME Typed, NEW i \in DOMAIN op, NEW pc \in {"check", "rpc"}, op' = [op EXCEPT ![i].pc = pc]
    PROVE  OpGoes(i, pc)
<1> DEFINE x == [op[i] EXCEPT !.pc = pc]
<1>1. op[i] \in Ops
  BY OpType
<1>2. /\ x \in Ops /\ x.kind = op[i].kind /\ x.r = op[i].r /\ x.w = op[i].w /\ x.q = op[i].q
      /\ x.owed = op[i].owed /\ x.pc = pc
  BY <1>1 DEF Ops
<1>3. op' = [op EXCEPT ![i] = x]
  OBVIOUS
<1> HIDE DEF x
<1> QED
  BY <1>2, <1>3, OpSet DEF OpGoes

-----------------------------------------------------------------------------
(***************************************************************************)
(* The chain of an entry: the batches queued, each with the one before it. *)
(***************************************************************************)
Queued(q) == {w \in Writes : wr[w].pc = "queued" /\ wr[w].q = q}
Prev == [w \in Writes |-> wr[w].prev]

\* y is among what waits are made of when one follows p from x within X.
Closed(X, p, S)   == \A y \in S : p[y] \in X => p[y] \in S
Reach(X, p, x, y) == \A S \in SUBSET X : x \in S /\ Closed(X, p, S) => y \in S

\* A batch put in front reaches what the one it follows reaches.
LEMMA ReachAdd ==
    ASSUME NEW X, NEW w, w \notin X, NEW p, NEW p2, \A z \in X : p2[z] = p[z],
           NEW x \in X, NEW y \in X, Reach(X, p, x, y)
    PROVE  /\ Reach(X \cup {w}, p2, x, y)
           /\ p2[w] = x => Reach(X \cup {w}, p2, w, y)
<1>1. ASSUME NEW S \in SUBSET (X \cup {w}), x \in S, Closed(X \cup {w}, p2, S)
      PROVE  y \in S
  <2>1. S \ {w} \in SUBSET X /\ x \in S \ {w}
    BY <1>1
  <2>2. Closed(X, p, S \ {w})
    BY <1>1 DEF Closed
  <2> QED
    BY <2>1, <2>2 DEF Reach
<1>2. ASSUME p2[w] = x, NEW S \in SUBSET (X \cup {w}), w \in S, Closed(X \cup {w}, p2, S)
      PROVE  y \in S
  <2>1. x \in S
    BY <1>2 DEF Closed
  <2> QED
    BY <1>1, <1>2, <2>1
<1> QED
  BY <1>1, <1>2 DEF Reach

\* The head of a chain reaches itself only, and the others do without it.
LEMMA ReachDrop ==
    ASSUME NEW X, NEW w \in X, NEW p, p[w] \notin X, NEW p2, \A z \in X : p2[z] = p[z],
           NEW x \in X, NEW y \in X, Reach(X, p, x, y)
    PROVE  /\ x = w => y = w
           /\ y # w => Reach(X \ {w}, p2, x, y)
<1>1. ASSUME x = w PROVE y = w
  <2>1. {w} \in SUBSET X /\ Closed(X, p, {w})
    BY DEF Closed
  <2> QED
    BY <1>1, <2>1 DEF Reach
<1>2. ASSUME y # w, NEW S \in SUBSET (X \ {w}), x \in S, Closed(X \ {w}, p2, S)
      PROVE  y \in S
  <2>1. S \cup {w} \in SUBSET X /\ x \in S \cup {w}
    BY <1>2
  <2>2. Closed(X, p, S \cup {w})
    BY <1>2 DEF Closed
  <2>3. y \in S \cup {w}
    BY <2>1, <2>2 DEF Reach
  <2> QED
    BY <1>2, <2>3
<1> QED
  BY <1>1, <1>2 DEF Reach

\* What a chain is made of decides what is reached.
LEMMA ReachSame ==
    ASSUME NEW X, NEW p, NEW p2, \A z \in X : p2[z] = p[z], NEW x, NEW y, Reach(X, p, x, y)
    PROVE  Reach(X, p2, x, y)
<1>1. ASSUME NEW S \in SUBSET X, Closed(X, p2, S) PROVE Closed(X, p, S)
  BY <1>1 DEF Closed
<1> QED
  BY <1>1 DEF Reach

\* A batch is among those it waits for.
LEMMA ReachSelf == ASSUME NEW X, NEW p, NEW x PROVE Reach(X, p, x, x)
BY DEF Reach

\* The tail waits for every batch of its entry, and a later write of a block for the
\* earlier ones.
Chain(q) ==
    /\ Queued(q) # {} => ent[q].tail \in Queued(q)
    /\ \A w \in Queued(q) : Reach(Queued(q), Prev, ent[q].tail, w)
    /\ \A w, x \in Queued(q) : w < x /\ wr[w].b = wr[x].b => Reach(Queued(q), Prev, x, w)

\* A chain stays when neither its batches nor its tail change.
LEMMA ChainKept ==
    ASSUME Typed, NEW q, Chain(q), Queued(q)' = Queued(q), Writes \subseteq Writes',
           \A w \in Queued(q) : wr'[w].b = wr[w].b /\ wr'[w].prev = wr[w].prev, ent'[q].tail = ent[q].tail
    PROVE  Chain(q)'
<1>1. \A z \in Queued(q) : Prev'[z] = Prev[z]
  BY DEF Prev, Queued
<1>2. ASSUME NEW x, NEW y, Reach(Queued(q), Prev, x, y) PROVE Reach(Queued(q)', Prev', x, y)
  BY <1>1, <1>2, ReachSame
<1>3. \A w \in Queued(q)' : Reach(Queued(q)', Prev', ent'[q].tail, w)
  BY <1>2 DEF Chain
<1>4. ASSUME NEW w \in Queued(q)', NEW x \in Queued(q)', w < x, wr'[w].b = wr'[x].b
      PROVE  Reach(Queued(q)', Prev', x, w)
  BY <1>2, <1>4 DEF Chain
<1>5. Queued(q)' # {} => ent'[q].tail \in Queued(q)'
  BY DEF Chain
<1> QED
  BY <1>3, <1>4, <1>5 DEF Chain

\* A batch joins the chain of its entry.
LEMMA ChainAdd ==
    ASSUME Typed, NEW q, Chain(q), NEW w \in Writes, w \notin Queued(q), Queued(q)' = Queued(q) \cup {w},
           Writes' = Writes, \A x \in Queued(q) : wr'[x].b = wr[x].b /\ wr'[x].prev = wr[x].prev /\ wr'[x].pc = wr[x].pc,
           wr'[w].b = wr[w].b, wr'[w].prev = ent[q].tail, ent'[q].tail = w,
           \A x \in Queued(q) : wr[w].b = wr[x].b => x < w
    PROVE  Chain(q)'
<1> DEFINE X == Queued(q)
           p == Prev
           p2 == Prev'
           t == ent[q].tail
<1>1. (\A z \in X : p2[z] = p[z]) /\ p2[w] = t
  BY DEF Prev, Queued
<1>2. (X # {} => t \in X) /\ (\A y \in X : Reach(X, p, t, y))
  BY DEF Chain
<1>3. \A x, y \in X : y < x /\ wr[y].b = wr[x].b => Reach(X, p, x, y)
  BY DEF Chain
<1>4. \A x \in X : wr'[x].b = wr[x].b /\ x \in Nat /\ w \in Nat
  BY DEF Queued, Writes
<1>5. Queued(q)' = X \cup {w} /\ w \notin X
  OBVIOUS
<1> HIDE DEF X, p, p2, t
<1>6. \A y \in X : Reach(X \cup {w}, p2, w, y)
  BY <1>1, <1>2, <1>5, ReachAdd
<1>7. ASSUME NEW y \in X \cup {w} PROVE Reach(X \cup {w}, p2, w, y)
  <2>1. CASE y \in X
    BY <1>6, <2>1
  <2>2. CASE y = w
    <3>1. Reach(X \cup {w}, p2, w, w)
      BY ReachSelf
    <3> QED
      BY <2>2, <3>1
  <2> QED
    BY <2>1, <2>2
<1>8. ASSUME NEW x \in X \cup {w}, NEW y \in X \cup {w}, y < x, wr'[y].b = wr'[x].b
      PROVE  Reach(X \cup {w}, p2, x, y)
  <2>1. CASE x = w
    BY <1>7, <2>1
  <2>2. CASE x # w /\ y = w
    <3>1. x \in X /\ wr[w].b = wr[x].b
      BY <1>4, <1>8, <2>2
    <3>2. x < w
      BY <3>1 DEF X
    <3> QED
      BY <1>4, <1>8, <2>2, <3>1, <3>2
  <2>3. CASE x # w /\ y # w
    <3>1. x \in X /\ y \in X /\ Reach(X, p, x, y)
      BY <1>3, <1>4, <1>8, <2>3
    <3> QED
      BY <1>1, <1>5, <3>1, ReachAdd
  <2> QED
    BY <2>1, <2>2, <2>3
<1> QED
  BY <1>5, <1>7, <1>8 DEF Chain, p2

\* The head of a chain leaves it.
LEMMA ChainDrop ==
    ASSUME Typed, NEW q, Chain(q), NEW w \in Queued(q), Queued(q)' = Queued(q) \ {w},
           Writes' = Writes, \A x \in Queued(q) : wr'[x].b = wr[x].b /\ wr'[x].prev = wr[x].prev,
           wr[w].prev \notin Queued(q), ent'[q].tail = ent[q].tail
    PROVE  Chain(q)'
<1> DEFINE X == Queued(q)
           p == Prev
           p2 == Prev'
           t == ent[q].tail
<1>1. (\A z \in X : p2[z] = p[z]) /\ p[w] \notin X
  BY DEF Prev, Queued
<1>2. t \in X /\ (\A y \in X : Reach(X, p, t, y))
  BY DEF Chain
<1>3. \A x, y \in X : y < x /\ wr[y].b = wr[x].b => Reach(X, p, x, y)
  BY DEF Chain
<1>4. \A x \in X : wr'[x].b = wr[x].b
  OBVIOUS
<1>5. Queued(q)' = X \ {w} /\ w \in X
  OBVIOUS
<1> HIDE DEF X, p, p2
<1>6. \A x, y \in X : Reach(X, p, x, y) /\ y # w => Reach(X \ {w}, p2, x, y)
  BY <1>1, <1>5, ReachDrop
<1>7. X \ {w} # {} => t \in X \ {w}
  <2>1. ASSUME t = w, NEW y \in X PROVE y = w
    <3>1. Reach(X, p, w, y)
      BY <1>2, <2>1
    <3> QED
      BY <1>1, <1>5, <3>1, ReachDrop
  <2> QED
    BY <1>2, <2>1
<1>8. \A y \in X \ {w} : Reach(X \ {w}, p2, t, y)
  BY <1>2, <1>6
<1>9. \A x, y \in X \ {w} : y < x /\ wr'[y].b = wr'[x].b => Reach(X \ {w}, p2, x, y)
  BY <1>3, <1>4, <1>6
<1>10. ASSUME NEW x \in Queued(q)', NEW y \in Queued(q)', y < x, wr'[y].b = wr'[x].b
       PROVE  Reach(Queued(q)', Prev', x, y)
  <2>1. x \in X \ {w} /\ y \in X \ {w}
    BY <1>5
  <2>2. Reach(X \ {w}, p2, x, y)
    BY <1>9, <1>10, <2>1
  <2>3. p2 = Prev'
    BY DEF p2
  <2> QED
    BY <1>5, <2>2, <2>3
<1>11. \A y \in Queued(q)' : Reach(Queued(q)', Prev', ent'[q].tail, y)
  BY <1>5, <1>8 DEF p2, t
<1>12. Queued(q)' # {} => ent'[q].tail \in Queued(q)'
  BY <1>5, <1>7 DEF t
<1> QED
  BY <1>10, <1>11, <1>12 DEF Chain

-----------------------------------------------------------------------------
(***************************************************************************)
(* The inductive invariant.                                                *)
(***************************************************************************)
\* A block holds nothing, or a write of that block which has reached the guest.
Arrived(b, c) == c # None => c \in Writes /\ wr[c].b = b /\ wr[c].pc \in Hits

Refs ==
    /\ \A w \in Writes :
         /\ wr[w].q <= Len(ent) /\ wr[w].prev <= Len(wr) /\ wr[w].prev # w /\ wr[w].verf <= verf
         /\ wr[w].pc \in {"held", "queued", "landed"} => wr[w].q # None
    /\ map <= Len(ent)
    /\ \A q \in DOMAIN ent : ent[q].tail # None => ent[q].tail \in Writes /\ wr[ent[q].tail].pc \notin Fresh
    /\ late \subseteq {w \in Writes : wr[w].pc \in Hits} /\ told \subseteq Writes /\ wiped \subseteq Writes
    /\ \A b \in Block : Arrived(b, cache[b]) /\ Arrived(b, disk[b])

\* No permit is lost or made: each one is free or held.
Slots == free \in Nat /\ busy \in Nat /\ free + busy + Cardinality(Holding) = WRITE_BEHIND_SLOTS

\* The client has no two writes of a block unanswered.
InTurn == \A w, x \in Writes : w < x /\ wr[w].b = wr[x].b => wr[w].pc \notin Fresh

\* A batch that is in flight, and was registered with the entry of the map, keeps it there.
Mapped == \A w \in Writes : wr[w].pc \in {"queued", "landed"} /\ ~ wr[w].orphan => map = wr[w].q

\* A later write of the block is registered with the same entry, and waits.
Before(w, x) == w < x /\ wr[w].b = wr[x].b /\ wr[w].pc = "queued" /\ ~ wr[w].orphan
Follows ==
    \A w, x \in Writes :
        Before(w, x) => (wr[x].pc \in {"held", "queued"} => wr[x].q = wr[w].q) /\ wr[x].pc \notin Hits

Chained == \A q \in DOMAIN ent : Chain(q)

\* A FILE_SYNC write goes to the guest after the batches of its block.
SyncOp(i) ==
    op[i].kind = "sync" =>
        /\ op[i].w \in Writes /\ wr[op[i].w].pc = "sync"
        /\ \A j \in DOMAIN op : j # i /\ op[j].kind = "sync" => op[j].w # op[i].w
        /\ \A w \in Writes : Before(w, op[i].w) => op[i].pc = "drain" /\ op[i].q = wr[w].q
SyncOps == \A i \in DOMAIN op : SyncOp(i)

\* What has landed is there.
Kept ==
    \A w \in Writes :
        wr[w].pc \in {"landed", "done"} /\ ~ wr[w].failed /\ w \notin wiped /\ wr[w].b \notin stale
            => cache[wr[w].b] >= w

\* A write with the verifier of now was not lost with a host.
Vouched == \A w \in Writes : BootNonce /\ wr[w].verf = verf => wr[w].pc # "lost"

\* An operation waits for what it owes.
Owes(i, w) ==
    /\ w \in Writes /\ wr[w].pc \in Hits \cup {"queued"}
    /\ wr[w].pc \in {"queued", "landed"} /\ ~ wr[w].orphan /\ (IsCommit(i) /\ op[i].pc # "drain" => wr[w].b \in op[i].r)
         => op[i].pc = "drain" /\ op[i].q = wr[w].q
Owing == \A i \in DOMAIN op : \A w \in op[i].owed : Owes(i, w)

OpKinds ==
    \A i \in DOMAIN op :
        /\ op[i].kind = "read" => \E b \in Block : op[i].r = {b}
        /\ op[i].kind = "none" <=> op[i].pc \in {"ok", "err"}
        /\ op[i].pc = "check" => op[i].kind = "commit"

IInv ==
    /\ Typed /\ Refs /\ Slots /\ InTurn /\ Mapped /\ Follows /\ Chained /\ SyncOps
    /\ Kept /\ Vouched /\ Owing /\ OpKinds

\* The batches that hold a permit can be counted.
LEMMA HoldingFinite == Typed => IsFiniteSet(Holding) /\ Cardinality(Holding) \in Nat
<1> SUFFICES ASSUME Typed PROVE IsFiniteSet(Holding) /\ Cardinality(Holding) \in Nat
  OBVIOUS
<1>1. Len(wr) \in Nat
  BY LenProperties DEF Typed
<1>2. IsFiniteSet(1 .. Len(wr))
  BY <1>1, FS_Interval
<1>3. Holding \in SUBSET (1 .. Len(wr))
  BY DEF Holding, Writes
<1> QED
  BY <1>2, <1>3, FS_Subset, FS_CardinalityType

\* The permits are as before when the same batches hold one.
LEMMA SameSlots ==
    ASSUME Slots, Holding' = Holding, UNCHANGED <<free, busy>>
    PROVE  Slots'
BY DEF Slots

\* A permit and an entry are taken: the entry of the map, or a new one that nobody waits in.
LEMMA SlotStep ==
    ASSUME IInv, NEW w \in Writes, TakeSlot(w)
    PROVE  IInv'
<1>0. Typed /\ Refs /\ Slots /\ InTurn /\ Mapped /\ Follows /\ Chained /\ SyncOps /\ Kept /\ Vouched /\ Owing /\ OpKinds
  BY DEF IInv
<1>1. wr[w].pc = "slot" /\ free > 0 /\ free' = free - 1 /\ busy' = busy
      /\ UNCHANGED <<op, cache, disk, late, verf, crashes, told, wiped, stale>>
  BY DEF TakeSlot, guestvars, slotvars
<1>2. /\ ent' \in Seq(Ent) /\ Len(ent) <= Len(ent') /\ map' \in Nat
      /\ map # None => map' = map
      /\ map = None => map' = Len(ent) + 1
      /\ DOMAIN ent = 1 .. Len(ent) /\ DOMAIN ent' = 1 .. Len(ent')
      /\ \A q \in DOMAIN ent : q \in DOMAIN ent' /\ ent'[q] = ent[q]
      /\ \A q \in DOMAIN ent' : q \notin DOMAIN ent => ent'[q].tail = None
  BY <1>0, SlotEnts
<1>3. map' \in DOMAIN ent' /\ map' # None /\ Len(ent) \in Nat /\ map \in Nat /\ Len(ent') \in Nat
  <2>1. map \in DOMAIN ent \/ map = None
    BY <1>0, <1>2 DEF Refs, Typed, None
  <2>2. map' \in DOMAIN ent'
    BY <1>0, <2>1, SlotEnts
  <2>3. Len(ent) \in Nat /\ Len(ent') \in Nat
    BY <1>0, <1>2, LenProperties DEF Typed
  <2> QED
    BY <1>0, <1>2, <2>2, <2>3 DEF None, Typed
<1>4. Sets(w, "held", map', wr[w].prev, wr[w].orphan, wr[w].failed, wr[w].verf)
  BY <1>0, <1>2, TakeSlotSets
<1>t. Typed'
  BY <1>0, <1>1, <1>2, <1>4 DEF Typed, Sets
<1>w. \A x \in Writes : /\ wr[x].q \in Nat /\ wr[x].prev \in Nat /\ wr[x].verf \in Nat /\ x \in Nat
                        /\ wr'[x].b = wr[x].b
  BY <1>0, <1>4, WriteType DEF Sets, Writes
<1>5. Refs'
  <2>1. \A x \in Writes' : /\ wr'[x].q <= Len(ent') /\ wr'[x].prev <= Len(wr') /\ wr'[x].prev # x /\ wr'[x].verf <= verf'
                           /\ wr'[x].pc \in {"held", "queued", "landed"} => wr'[x].q # None
    <3>1. ASSUME NEW x \in Writes
          PROVE  /\ wr[x].q <= Len(ent') /\ wr[x].prev <= Len(wr') /\ wr[x].prev # x /\ wr[x].verf <= verf'
                 /\ wr[x].pc \in {"held", "queued", "landed"} => wr[x].q # None
      <4>1. /\ wr[x].q <= Len(ent) /\ wr[x].prev <= Len(wr) /\ wr[x].prev # x /\ wr[x].verf <= verf
            /\ wr[x].pc \in {"held", "queued", "landed"} => wr[x].q # None
        BY <1>0 DEF Refs
      <4>2. wr[x].q <= Len(ent')
        BY <1>2, <1>3, <1>w, <4>1
      <4> QED
        BY <1>1, <1>4, <4>1, <4>2 DEF Sets
    <3>2. map' <= Len(ent')
      BY <1>2, <1>3
    <3> QED
      BY <1>3, <1>4, <3>1, <3>2 DEF Sets
  <2>2. map' <= Len(ent')
    BY <1>2, <1>3
  <2>3. \A q \in DOMAIN ent' : ent'[q].tail # None => ent'[q].tail \in Writes' /\ wr'[ent'[q].tail].pc \notin Fresh
    <3>1. ASSUME NEW q \in DOMAIN ent', ent'[q].tail # None
          PROVE  ent'[q].tail \in Writes' /\ wr'[ent'[q].tail].pc \notin Fresh
      <4>1. q \in DOMAIN ent /\ ent'[q] = ent[q]
        BY <1>2, <3>1
      <4>2. ent[q].tail \in Writes /\ wr[ent[q].tail].pc \notin Fresh
        BY <1>0, <3>1, <4>1 DEF Refs
      <4>3. ent[q].tail # w
        BY <1>1, <4>2 DEF Fresh
      <4> QED
        BY <1>4, <4>1, <4>2, <4>3 DEF Sets
    <3> QED
      BY <3>1
  <2>4. late' \subseteq {x \in Writes' : wr'[x].pc \in Hits} /\ told' \subseteq Writes' /\ wiped' \subseteq Writes'
    BY <1>0, <1>1, <1>4 DEF Refs, Sets, Hits
  <2>5. \A b \in Block : Arrived(b, cache[b])' /\ Arrived(b, disk[b])'
    BY <1>0, <1>1, <1>4 DEF Refs, Sets, Hits, Arrived
  <2> QED
    BY <2>1, <2>2, <2>3, <2>4, <2>5 DEF Refs
<1>6. Slots'
  <2>1. Holding' = Holding \cup {w} /\ w \notin Holding
    BY <1>1, <1>4 DEF Holding, Sets
  <2>2. Cardinality(Holding') = Cardinality(Holding) + 1
    BY <1>0, <2>1, HoldingFinite, FS_AddElement
  <2> QED
    BY <1>0, <1>1, <2>2, HoldingFinite, WriteBehindAssumption DEF Slots
<1>7. InTurn'
  BY <1>0, <1>1, <1>4 DEF InTurn, Sets, Fresh
<1>8. Mapped'
  BY <1>0, <1>1, <1>2, <1>4 DEF Mapped, Sets, Refs
<1>9. Follows'
  <2>1. ASSUME NEW x \in Writes, NEW y \in Writes, Before(x, y)'
        PROVE  (wr'[y].pc \in {"held", "queued"} => wr'[y].q = wr'[x].q) /\ wr'[y].pc \notin Hits
    <3>1. x # w /\ Before(x, y) /\ wr'[x] = wr[x]
      BY <1>4, <1>w, <2>1 DEF Before, Sets
    <3>2. map = wr[x].q /\ wr[x].q # None
      BY <1>0, <3>1 DEF Mapped, Before, Refs
    <3>3. CASE y = w
      BY <1>2, <1>4, <3>1, <3>2, <3>3 DEF Sets, Hits
    <3>4. CASE y # w
      BY <1>0, <1>4, <3>1, <3>4 DEF Sets, Follows
    <3> QED
      BY <3>3, <3>4
  <2> QED
    BY <1>4, <2>1 DEF Follows, Sets
<1>10. Chained'
  <2>1. ASSUME NEW q \in DOMAIN ent' PROVE Queued(q)' = Queued(q)
    BY <1>1, <1>4 DEF Queued, Sets
  <2>2. ASSUME NEW q \in DOMAIN ent' PROVE Chain(q)'
    <3>1. CASE q \in DOMAIN ent
      <4>1. Chain(q) /\ ent'[q].tail = ent[q].tail /\ Writes \subseteq Writes'
        BY <1>0, <1>2, <1>4, <3>1 DEF Chained, Sets
      <4>2. \A x \in Queued(q) : wr'[x].b = wr[x].b /\ wr'[x].prev = wr[x].prev
        BY <1>4 DEF Queued, Sets
      <4> QED
        BY <1>0, <2>1, <4>1, <4>2, ChainKept
    <3>2. CASE q \notin DOMAIN ent
      <4>1. Queued(q) = {}
        BY <1>0, <1>2, <1>3, <1>w, <3>2 DEF Queued, Refs
      <4> QED
        BY <2>1, <4>1 DEF Chain
    <3> QED
      BY <3>1, <3>2
  <2> QED
    BY <2>2 DEF Chained
<1>11. SyncOps'
  BY <1>0, <1>1, <1>4, <1>w DEF SyncOps, SyncOp, Sets, Before
<1>12. Kept'
  BY <1>0, <1>1, <1>4, <1>w DEF Kept, Sets
<1>13. Vouched'
  BY <1>0, <1>1, <1>4, <1>w DEF Vouched, Sets
<1>14. Owing'
  BY <1>0, <1>1, <1>4, <1>w DEF Owing, Owes, Sets, Hits, IsCommit
<1>15. OpKinds'
  BY <1>0, <1>1 DEF OpKinds
<1> QED
  BY <1>t, <1>5, <1>6, <1>7, <1>8, <1>9, <1>10, <1>11, <1>12, <1>13, <1>14, <1>15 DEF IInv

\* A batch joins its entry: it becomes the tail of the chain, and nothing later of its block is there.
LEMMA QueueStep ==
    ASSUME IInv, NEW w \in Writes, Queue(w)
    PROVE  IInv'
<1>0. Typed /\ Refs /\ Slots /\ InTurn /\ Mapped /\ Follows /\ Chained /\ SyncOps /\ Kept /\ Vouched /\ Owing /\ OpKinds
  BY DEF IInv
<1>1. wr[w].pc = "held" /\ UNCHANGED <<map, op, cache, disk, late, verf, crashes, told, wiped, stale, free, busy>>
  BY DEF Queue, guestvars, slotvars
<1>w. \A x \in Writes : /\ wr[x].q \in Nat /\ wr[x].prev \in Nat /\ wr[x].verf \in Nat /\ x \in Nat /\ x # None
                        /\ wr[x].orphan \in BOOLEAN
  BY <1>0, WriteType DEF Writes, None
<1>2. wr[w].q \in DOMAIN ent /\ DOMAIN ent = 1 .. Len(ent) /\ Len(ent) \in Nat
  <2>1. DOMAIN ent = 1 .. Len(ent) /\ Len(ent) \in Nat
    BY <1>0, LenProperties DEF Typed
  <2> QED
    BY <1>0, <1>1, <1>w, <2>1 DEF Refs, None
<1> DEFINE q == wr[w].q
<1>3. /\ ent' \in Seq(Ent) /\ Len(ent') = Len(ent) /\ DOMAIN ent' = DOMAIN ent
      /\ \A k \in DOMAIN ent : ent'[k].tail = IF k = q THEN w ELSE ent[k].tail
  BY <1>0, <1>2, QueueTails
<1>4. Sets(w, "queued", q, ent[q].tail, q # map, wr[w].failed, verf)
  BY <1>0, <1>2, QueueSets
<1>5. ent[q].tail # w /\ (ent[q].tail # None => ent[q].tail \in Writes) /\ ent[q].tail \in Nat
  BY <1>0, <1>1, <1>2, <1>w, EntType DEF Refs, Fresh
<1> HIDE DEF q
<1>t. Typed'
  BY <1>0, <1>1, <1>3, <1>4 DEF Typed, Sets
<1>b. \A x \in Writes : wr'[x].b = wr[x].b
  BY <1>4 DEF Sets
<1>l. Len(wr) \in Nat
  BY <1>0, LenProperties DEF Typed
<1>n. \A x \in Writes : wr[x].b = wr[w].b => ~ (w < x)
  BY <1>0, <1>1 DEF InTurn, Fresh
<1>r. Refs'
  <2>1. \A x \in Writes' : /\ wr'[x].q <= Len(ent') /\ wr'[x].prev <= Len(wr') /\ wr'[x].prev # x /\ wr'[x].verf <= verf'
                           /\ wr'[x].pc \in {"held", "queued", "landed"} => wr'[x].q # None
    <3>1. ASSUME NEW x \in Writes, x # w
          PROVE  /\ wr'[x].q <= Len(ent') /\ wr'[x].prev <= Len(wr') /\ wr'[x].prev # x /\ wr'[x].verf <= verf'
                 /\ wr'[x].pc \in {"held", "queued", "landed"} => wr'[x].q # None
      BY <1>0, <1>1, <1>3, <1>4, <3>1 DEF Refs, Sets
    <3>2. /\ wr'[w].q <= Len(ent') /\ wr'[w].prev <= Len(wr') /\ wr'[w].prev # w /\ wr'[w].verf <= verf'
          /\ wr'[w].q # None
      <4>1. wr'[w].prev <= Len(wr')
        BY <1>4, <1>5, <1>l DEF Sets, Writes, None
      <4>2. wr'[w].verf <= verf'
        BY <1>0, <1>1, <1>4 DEF Sets, Typed
      <4> QED
        BY <1>0, <1>1, <1>3, <1>4, <1>5, <4>1, <4>2 DEF Refs, Sets, q
    <3> QED
      BY <1>4, <3>1, <3>2 DEF Sets
  <2>2. \A k \in DOMAIN ent' : ent'[k].tail # None => ent'[k].tail \in Writes' /\ wr'[ent'[k].tail].pc \notin Fresh
    BY <1>0, <1>1, <1>3, <1>4 DEF Refs, Sets, Fresh
  <2>3. late' \subseteq {x \in Writes' : wr'[x].pc \in Hits} /\ told' \subseteq Writes' /\ wiped' \subseteq Writes'
    BY <1>0, <1>1, <1>4 DEF Refs, Sets, Hits
  <2>4. \A b \in Block : Arrived(b, cache[b])' /\ Arrived(b, disk[b])'
    BY <1>0, <1>1, <1>4 DEF Refs, Sets, Hits, Arrived
  <2> QED
    BY <1>0, <1>1, <1>3, <2>1, <2>2, <2>3, <2>4 DEF Refs
<1>s. Slots'
  <2>1. Holding' = Holding
    BY <1>1, <1>4 DEF Holding, Sets
  <2> QED
    BY <1>0, <1>1, <2>1, SameSlots
<1>6. InTurn'
  BY <1>0, <1>1, <1>4, <1>b DEF InTurn, Sets, Fresh
<1>7. Mapped'
  BY <1>0, <1>1, <1>4 DEF Mapped, Sets
<1>8. ASSUME NEW x \in Writes, NEW y \in Writes, Before(x, y)' PROVE x # w /\ Before(x, y) /\ wr'[x] = wr[x]
  <2>1. x # w
    BY <1>b, <1>n, <1>8 DEF Before
  <2> QED
    BY <1>4, <1>b, <1>8, <2>1 DEF Before, Sets
<1>9. Follows'
  BY <1>0, <1>1, <1>4, <1>8 DEF Follows, Sets, Hits, q
<1>10. Chained'
  <2>1. ASSUME NEW k \in DOMAIN ent, k # q PROVE Chain(k)'
    <3>1. Queued(k)' = Queued(k)
      BY <1>1, <1>4, <2>1 DEF Queued, Sets, q
    <3>2. \A x \in Queued(k) : wr'[x].b = wr[x].b /\ wr'[x].prev = wr[x].prev
      BY <1>1, <1>4 DEF Queued, Sets
    <3>3. Chain(k) /\ ent'[k].tail = ent[k].tail /\ Writes \subseteq Writes'
      BY <1>0, <1>3, <1>4, <2>1 DEF Chained, Sets
    <3> QED
      BY <1>0, <3>1, <3>2, <3>3, ChainKept
  <2>2. ASSUME NEW k \in DOMAIN ent, k = q PROVE Chain(k)'
    <3>1. w \notin Queued(k) /\ Queued(k)' = Queued(k) \cup {w}
      BY <1>1, <1>4, <2>2 DEF Queued, Sets
    <3>2. \A x \in Queued(k) : wr'[x].b = wr[x].b /\ wr'[x].prev = wr[x].prev /\ wr'[x].pc = wr[x].pc
      BY <1>1, <1>4, <2>2 DEF Queued, Sets
    <3>3. \A x \in Queued(k) : wr[w].b = wr[x].b => x < w
      <4>1. SUFFICES ASSUME NEW x \in Queued(k), wr[w].b = wr[x].b PROVE x < w
        OBVIOUS
      <4>2. x \in Writes /\ x # w /\ x \in Nat /\ w \in Nat
        BY <3>1, <1>w DEF Queued
      <4> QED
        BY <1>n, <4>1, <4>2
    <3>4. Chain(k) /\ ent'[k].tail = w /\ Writes' = Writes /\ wr'[w].b = wr[w].b /\ wr'[w].prev = ent[k].tail
      BY <1>0, <1>2, <1>3, <1>4, <2>2 DEF Chained, Sets
    <3> QED
      BY <1>0, <3>1, <3>2, <3>3, <3>4, ChainAdd
  <2> QED
    BY <1>3, <2>1, <2>2 DEF Chained
<1>11. SyncOps'
  BY <1>0, <1>1, <1>4, <1>8 DEF SyncOps, SyncOp, Sets
<1>12. Kept'
  BY <1>0, <1>1, <1>4, <1>w DEF Kept, Sets
<1>13. Vouched'
  BY <1>0, <1>1, <1>4, <1>w DEF Vouched, Sets
<1>14. Owing'
  BY <1>0, <1>1, <1>4, <1>w DEF Owing, Owes, Sets, Hits, IsCommit
<1>15. OpKinds'
  BY <1>0, <1>1 DEF OpKinds
<1> QED
  BY <1>t, <1>r, <1>s, <1>6, <1>7, <1>9, <1>10, <1>11, <1>12, <1>13, <1>14, <1>15 DEF IInv

\* A batch that may land is the first of its chain: no earlier one of its block is queued.
LEMMA LandsFirst ==
    ASSUME IInv, NEW w \in Writes, NEW r, Land(w, r), NEW x \in Writes, Before(x, w)
    PROVE  FALSE
<1>0. Typed /\ Refs /\ Follows /\ Chained
  BY DEF IInv
<1> DEFINE q == wr[w].q
<1>1. wr[w].pc = "queued" /\ (wr[w].prev # None => wr[wr[w].prev].pc \notin {"held", "queued"})
  BY DEF Land
<1>2. q \in DOMAIN ent
  <2>1. DOMAIN ent = 1 .. Len(ent) /\ Len(ent) \in Nat /\ q \in Nat
    BY <1>0, LenProperties, WriteType DEF Typed
  <2> QED
    BY <1>0, <1>1, <2>1 DEF Refs, None
<1>3. wr[x].q = q /\ x < w /\ wr[x].b = wr[w].b /\ wr[x].pc = "queued"
  BY <1>0, <1>1 DEF Follows, Before
<1>4. x \in Queued(q) /\ w \in Queued(q) /\ wr[w].prev \notin Queued(q)
  BY <1>1, <1>3 DEF Queued, Writes, None
<1>5. Reach(Queued(q), Prev, w, x)
  BY <1>0, <1>2, <1>3, <1>4 DEF Chained, Chain
<1>6. Prev[w] \notin Queued(q)
  BY <1>4 DEF Prev
<1>7. x = w
  <2> HIDE DEF q
  <2> QED
    BY <1>4, <1>5, <1>6, ReachDrop
<1> QED
  BY <1>3, <1>7 DEF Writes

\* A batch lands: it leaves the head of its chain, and takes its block back only if it was an orphan.
LEMMA LandStep ==
    ASSUME IInv, NEW w \in Writes, NEW r \in {"ok", "fail", "timeout"}, Land(w, r)
    PROVE  IInv'
<1>0. Typed /\ Refs /\ Slots /\ InTurn /\ Mapped /\ Follows /\ Chained /\ SyncOps /\ Kept /\ Vouched /\ Owing /\ OpKinds
  BY DEF IInv
<1> DEFINE b == wr[w].b
           q == wr[w].q
<1>1. /\ wr[w].pc = "queued" /\ UNCHANGED <<map, ent, op, disk, verf, crashes, told, wiped, free, busy>>
      /\ cache' = (IF r = "ok" THEN [cache EXCEPT ![b] = w] ELSE cache)
      /\ late' = (IF r = "timeout" THEN late \cup {w} ELSE late)
      /\ stale' = (IF r = "ok" /\ wr[w].orphan /\ cache[b] > w THEN stale \cup {b} ELSE stale)
      /\ wr[w].prev # None => wr[wr[w].prev].pc \notin {"held", "queued"}
  BY DEF Land, slotvars
<1>w. \A x \in Writes : /\ wr[x].q \in Nat /\ wr[x].prev \in Nat /\ wr[x].verf \in Nat /\ x \in Nat /\ x # None
                        /\ wr[x].orphan \in BOOLEAN /\ wr[x].b \in Block
  BY <1>0, WriteType DEF Writes, None
<1>4. Sets(w, "landed", q, wr[w].prev, wr[w].orphan, r # "ok", wr[w].verf)
  BY <1>0, LandSets
<1>b. (\A x \in Writes : wr'[x].b = wr[x].b) /\ b \in Block
  BY <1>4, <1>w DEF Sets
<1>c. /\ cache' \in [Block -> Nat] /\ cache \in [Block -> Nat] /\ stale' \in SUBSET Block
      /\ \A k \in Block : cache'[k] = IF r = "ok" /\ k = b THEN w ELSE cache[k]
  BY <1>0, <1>1, <1>w, <1>b DEF Typed
<1> HIDE DEF b
<1>t. Typed'
  BY <1>0, <1>1, <1>4, <1>c DEF Typed, Sets
<1>5. Refs'
  <2>1. \A x \in Writes' : /\ wr'[x].q <= Len(ent') /\ wr'[x].prev <= Len(wr') /\ wr'[x].prev # x /\ wr'[x].verf <= verf'
                           /\ wr'[x].pc \in {"held", "queued", "landed"} => wr'[x].q # None
    BY <1>0, <1>1, <1>4, <1>w DEF Refs, Sets
  <2>2. \A k \in DOMAIN ent' : ent'[k].tail # None => ent'[k].tail \in Writes' /\ wr'[ent'[k].tail].pc \notin Fresh
    BY <1>0, <1>1, <1>4 DEF Refs, Sets, Fresh
  <2>3. late' \subseteq {x \in Writes' : wr'[x].pc \in Hits} /\ told' \subseteq Writes' /\ wiped' \subseteq Writes'
    BY <1>0, <1>1, <1>4 DEF Refs, Sets, Hits
  <2>4. \A k \in Block : Arrived(k, cache[k])' /\ Arrived(k, disk[k])'
    <3>1. SUFFICES ASSUME NEW k \in Block PROVE Arrived(k, cache[k])' /\ Arrived(k, disk[k])'
      OBVIOUS
    <3>2. Arrived(k, disk[k])'
      BY <1>0, <1>1, <1>4, <1>b DEF Refs, Sets, Hits, Arrived
    <3>3. Arrived(k, cache[k])'
      BY <1>0, <1>1, <1>4, <1>b, <1>c DEF Refs, Sets, Hits, Arrived, b
    <3> QED
      BY <3>2, <3>3
  <2> QED
    BY <1>0, <1>1, <2>1, <2>2, <2>3, <2>4 DEF Refs
<1>6. Slots'
  <2>1. Holding' = Holding
    BY <1>1, <1>4 DEF Holding, Sets
  <2> QED
    BY <1>0, <1>1, <2>1, SameSlots
<1>7. InTurn'
  BY <1>0, <1>1, <1>4, <1>b DEF InTurn, Sets, Fresh
<1>8. Mapped'
  BY <1>0, <1>1, <1>4 DEF Mapped, Sets
<1>9. ASSUME NEW x \in Writes, NEW y \in Writes, Before(x, y)' PROVE x # w /\ y # w /\ Before(x, y) /\ wr'[x] = wr[x]
  <2>1. x # w /\ wr'[x] = wr[x] /\ Before(x, y)
    BY <1>4, <1>b, <1>9 DEF Before, Sets
  <2>2. y # w
    BY <2>1, LandsFirst
  <2> QED
    BY <2>1, <2>2
<1>10. Follows'
  BY <1>0, <1>4, <1>9 DEF Follows, Sets
<1>11. Chained'
  <2>1. ASSUME NEW k \in DOMAIN ent, k # q PROVE Chain(k)'
    <3>1. Queued(k)' = Queued(k)
      BY <1>1, <1>4, <2>1 DEF Queued, Sets
    <3>2. \A x \in Queued(k) : wr'[x].b = wr[x].b /\ wr'[x].prev = wr[x].prev
      BY <1>1, <1>4 DEF Queued, Sets
    <3>3. Chain(k) /\ ent'[k].tail = ent[k].tail /\ Writes \subseteq Writes'
      BY <1>0, <1>1, <1>4, <2>1 DEF Chained, Sets
    <3> QED
      BY <1>0, <3>1, <3>2, <3>3, ChainKept
  <2>2. ASSUME NEW k \in DOMAIN ent, k = q PROVE Chain(k)'
    <3>1. w \in Queued(k) /\ Queued(k)' = Queued(k) \ {w}
      BY <1>1, <1>4, <2>2 DEF Queued, Sets
    <3>2. \A x \in Queued(k) : wr'[x].b = wr[x].b /\ wr'[x].prev = wr[x].prev
      BY <1>1, <1>4, <2>2 DEF Queued, Sets
    <3>3. wr[w].prev \notin Queued(k)
      BY <1>1, <1>w DEF Queued
    <3>4. Chain(k) /\ ent'[k].tail = ent[k].tail /\ Writes' = Writes
      BY <1>0, <1>1, <1>4, <2>2 DEF Chained, Sets
    <3> QED
      BY <1>0, <3>1, <3>2, <3>3, <3>4, ChainDrop
  <2> QED
    BY <1>1, <2>1, <2>2 DEF Chained
<1>12. SyncOps'
  BY <1>0, <1>1, <1>4, <1>9 DEF SyncOps, SyncOp, Sets
<1>13. Kept'
  <2>1. ASSUME NEW y \in Writes, wr'[y].pc \in {"landed", "done"}, ~ wr'[y].failed, y \notin wiped', wr'[y].b \notin stale'
        PROVE  cache'[wr'[y].b] >= y
    <3>1. CASE y = w
      <4>1. r = "ok" /\ wr'[y].b = b
        BY <1>4, <2>1, <3>1 DEF Sets, b
      <4> QED
        BY <1>b, <1>c, <1>w, <3>1, <4>1
    <3>2. CASE y # w
      <4>1. wr'[y] = wr[y] /\ wr[y].b \in Block /\ wr[y].b \notin stale /\ cache[wr[y].b] >= y
        BY <1>0, <1>1, <1>4, <1>w, <2>1, <3>2 DEF Sets, Kept
      <4>2. CASE r = "ok" /\ wr[y].b = b
        <5>1. cache'[wr'[y].b] = w
          BY <1>c, <4>1, <4>2
        <5>2. ASSUME w < y PROVE FALSE
          <6>1. wr[w].orphan
            BY <1>0, <1>1, <2>1, <4>1, <4>2, <5>2 DEF Follows, Before, Hits, b
          <6>2. cache[b] > w
            BY <1>c, <1>w, <4>1, <4>2, <5>2
          <6> QED
            BY <1>1, <2>1, <4>1, <4>2, <6>1, <6>2
        <5> QED
          BY <1>w, <5>1, <5>2
      <4>3. CASE ~ (r = "ok" /\ wr[y].b = b)
        BY <1>c, <4>1, <4>3
      <4> QED
        BY <4>2, <4>3
    <3> QED
      BY <3>1, <3>2
  <2> QED
    BY <1>4, <2>1 DEF Kept, Sets
<1>14. Vouched'
  BY <1>0, <1>1, <1>4, <1>w DEF Vouched, Sets
<1>15. Owing'
  BY <1>0, <1>1, <1>4, <1>w DEF Owing, Owes, Sets, Hits, IsCommit
<1>16. OpKinds'
  BY <1>0, <1>1 DEF OpKinds
<1> QED
  BY <1>t, <1>5, <1>6, <1>7, <1>8, <1>10, <1>11, <1>12, <1>13, <1>14, <1>15, <1>16 DEF IInv

\* A batch is over: it was out of its chain when it landed.
LEMMA FinishStep ==
    ASSUME IInv, NEW w \in Writes, Finish(w)
    PROVE  IInv'
<1>0. Typed /\ Refs /\ Slots /\ InTurn /\ Mapped /\ Follows /\ Chained /\ SyncOps /\ Kept /\ Vouched /\ Owing /\ OpKinds
  BY DEF IInv
<1>1. wr[w].pc = "landed" /\ free' = free + 1 /\ UNCHANGED <<busy, map, op, cache, disk, late, verf, crashes, told, wiped, stale>>
  BY DEF Finish, Release, guestvars, slotvars
<1>w. \A x \in Writes : /\ wr[x].q \in Nat /\ wr[x].prev \in Nat /\ wr[x].verf \in Nat /\ x \in Nat /\ x # None
                        /\ wr[x].orphan \in BOOLEAN /\ wr[x].failed \in BOOLEAN
  BY <1>0, WriteType DEF Writes, None
<1>2. TailsKept
  <2>1. DOMAIN ent = 1 .. Len(ent) /\ Len(ent) \in Nat
    BY <1>0, LenProperties DEF Typed
  <2>2. wr[w].q \in DOMAIN ent
    BY <1>0, <1>1, <1>w, <2>1 DEF Refs, None
  <2>3. (ent[wr[w].q].err \/ wr[w].failed) \in BOOLEAN
    OBVIOUS
  <2>4. ent' = [ent EXCEPT ![wr[w].q].err = ent[wr[w].q].err \/ wr[w].failed]
    BY DEF Finish
  <2> QED
    BY <1>0, <2>2, <2>3, <2>4, ErrTails
<1>4. Sets(w, "done", None, None, wr[w].orphan, wr[w].failed, wr[w].verf)
  BY <1>0, FinishSets
<1>l. Len(wr) \in Nat /\ Len(ent) \in Nat
  BY <1>0, LenProperties DEF Typed
<1>t. Typed'
  BY <1>0, <1>1, <1>2, <1>4 DEF Typed, Sets, TailsKept
<1>5. Refs'
  <2>1. \A x \in Writes' : /\ wr'[x].q <= Len(ent') /\ wr'[x].prev <= Len(wr') /\ wr'[x].prev # x /\ wr'[x].verf <= verf'
                           /\ wr'[x].pc \in {"held", "queued", "landed"} => wr'[x].q # None
    BY <1>0, <1>1, <1>2, <1>4, <1>w, <1>l DEF Refs, Sets, TailsKept, None
  <2>2. \A k \in DOMAIN ent' : ent'[k].tail # None => ent'[k].tail \in Writes' /\ wr'[ent'[k].tail].pc \notin Fresh
    BY <1>0, <1>1, <1>2, <1>4 DEF Refs, Sets, Fresh, TailsKept
  <2>3. late' \subseteq {x \in Writes' : wr'[x].pc \in Hits} /\ told' \subseteq Writes' /\ wiped' \subseteq Writes'
    BY <1>0, <1>1, <1>4 DEF Refs, Sets, Hits
  <2>4. \A k \in Block : Arrived(k, cache[k])' /\ Arrived(k, disk[k])'
    BY <1>0, <1>1, <1>4 DEF Refs, Sets, Hits, Arrived
  <2> QED
    BY <1>0, <1>1, <1>2, <2>1, <2>2, <2>3, <2>4 DEF Refs, TailsKept
<1>6. Slots'
  <2>1. Holding' = Holding \ {w} /\ w \in Holding
    BY <1>1, <1>4 DEF Holding, Sets
  <2>2. Cardinality(Holding') = Cardinality(Holding) - 1
    BY <1>0, <2>1, HoldingFinite, FS_RemoveElement
  <2> QED
    BY <1>0, <1>1, <2>2, HoldingFinite, WriteBehindAssumption DEF Slots
<1>7. InTurn'
  BY <1>0, <1>1, <1>4 DEF InTurn, Sets, Fresh
<1>8. Mapped'
  BY <1>0, <1>1, <1>4 DEF Mapped, Sets
<1>9. ASSUME NEW x \in Writes, NEW y \in Writes, Before(x, y)' PROVE Before(x, y) /\ wr'[x] = wr[x]
  BY <1>4, <1>9 DEF Before, Sets
<1>10. Follows'
  BY <1>0, <1>1, <1>4, <1>9 DEF Follows, Sets, Hits
<1>11. Chained'
  <2>1. ASSUME NEW k \in DOMAIN ent PROVE Chain(k)'
    <3>1. Queued(k)' = Queued(k)
      BY <1>1, <1>4, <2>1 DEF Queued, Sets
    <3>2. \A x \in Queued(k) : wr'[x].b = wr[x].b /\ wr'[x].prev = wr[x].prev
      BY <1>1, <1>4 DEF Queued, Sets
    <3>3. Chain(k) /\ ent'[k].tail = ent[k].tail /\ Writes \subseteq Writes'
      BY <1>0, <1>2, <1>4, <2>1 DEF Chained, Sets, TailsKept
    <3> QED
      BY <1>0, <3>1, <3>2, <3>3, ChainKept
  <2> QED
    BY <1>2, <2>1 DEF Chained, TailsKept
<1>12. SyncOps'
  BY <1>0, <1>1, <1>4, <1>9 DEF SyncOps, SyncOp, Sets
<1>13. Kept'
  BY <1>0, <1>1, <1>4, <1>w DEF Kept, Sets
<1>14. Vouched'
  BY <1>0, <1>1, <1>4, <1>w DEF Vouched, Sets
<1>15. Owing'
  BY <1>0, <1>1, <1>4, <1>w DEF Owing, Owes, Sets, Hits, IsCommit
<1>16. OpKinds'
  BY <1>0, <1>1 DEF OpKinds
<1> QED
  BY <1>t, <1>5, <1>6, <1>7, <1>8, <1>10, <1>11, <1>12, <1>13, <1>14, <1>15, <1>16 DEF IInv

-----------------------------------------------------------------------------
(***************************************************************************)
(* The operations.                                                         *)
(***************************************************************************)
\* The chains are as before when the writes are and no tail changes.
LEMMA ChainedSame ==
    ASSUME IInv, TailsKept, UNCHANGED wr
    PROVE  Chained'
<1>0. Typed /\ Refs /\ Chained
  BY DEF IInv
<1>1. ASSUME NEW k \in DOMAIN ent PROVE Chain(k)'
  <2>1. Queued(k)' = Queued(k) /\ Writes \subseteq Writes'
    BY DEF Queued, Writes
  <2>2. \A x \in Queued(k) : wr'[x].b = wr[x].b /\ wr'[x].prev = wr[x].prev
    OBVIOUS
  <2>3. Chain(k) /\ ent'[k].tail = ent[k].tail
    BY <1>0, <1>1 DEF Chained, TailsKept
  <2> QED
    BY <1>0, <2>1, <2>2, <2>3, ChainKept
<1> QED
  BY <1>1 DEF Chained, TailsKept

\* What is only about the writes stays with them.
LEMMA WritesSame ==
    ASSUME IInv, TailsKept, UNCHANGED <<wr, verf, free, busy>>
    PROVE  Slots' /\ InTurn' /\ Follows' /\ Chained' /\ Vouched' /\ (map' = map => Mapped')
<1>0. Typed /\ Refs /\ Slots /\ InTurn /\ Mapped /\ Follows /\ Chained /\ Vouched
  BY DEF IInv
<1>1. Slots'
  BY <1>0 DEF Slots, Holding, Writes
<1>2. InTurn' /\ Follows' /\ Vouched' /\ (map' = map => Mapped')
  BY <1>0 DEF InTurn, Mapped, Follows, Vouched, Writes, Before
<1>3. Chained'
  BY ChainedSame
<1> QED
  BY <1>1, <1>2, <1>3

\* And so is what they refer to, when the guest serves its blocks from one another.
LEMMA RefsSame ==
    ASSUME IInv, TailsKept, UNCHANGED <<wr, verf, free, busy>>, map' \in {map, None}, late' \subseteq late,
           told' \subseteq Writes, wiped' \subseteq Writes,
           \A b \in Block : cache'[b] \in {cache[b], disk[b]} /\ disk'[b] \in {cache[b], disk[b]}
    PROVE  Refs'
<1>0. Typed /\ Refs
  BY DEF IInv
<1>l. Len(ent) \in Nat
  BY <1>0, LenProperties DEF Typed
<1>1. \A x \in Writes' : /\ wr'[x].q <= Len(ent') /\ wr'[x].prev <= Len(wr') /\ wr'[x].prev # x /\ wr'[x].verf <= verf'
                         /\ wr'[x].pc \in {"held", "queued", "landed"} => wr'[x].q # None
  BY <1>0 DEF Refs, TailsKept, Writes
<1>2. \A k \in DOMAIN ent' : ent'[k].tail # None => ent'[k].tail \in Writes' /\ wr'[ent'[k].tail].pc \notin Fresh
  BY <1>0 DEF Refs, TailsKept, Writes
<1>3. late' \subseteq {x \in Writes' : wr'[x].pc \in Hits} /\ told' \subseteq Writes' /\ wiped' \subseteq Writes'
  BY <1>0 DEF Refs, Writes
<1>4. \A k \in Block : Arrived(k, cache[k])' /\ Arrived(k, disk[k])'
  BY <1>0 DEF Refs, Arrived, Writes
<1>5. map' <= Len(ent')
  BY <1>0, <1>l DEF Refs, TailsKept, None
<1> QED
  BY <1>1, <1>2, <1>3, <1>4, <1>5 DEF Refs

\* An operation that is answered asks for nothing any more.
LEMMA EndsParts ==
    ASSUME IInv, NEW i \in DOMAIN op, OpEnds(i), wr' = wr
    PROVE  SyncOps' /\ Owing' /\ OpKinds'
<1>0. SyncOps /\ Owing /\ OpKinds
  BY DEF IInv
<1>1. \A j \in DOMAIN op' : j # i => op'[j] = op[j] /\ j \in DOMAIN op
  BY DEF OpEnds
<1>2. op'[i].kind = "none" /\ op'[i].owed = {} /\ op'[i].pc \in {"ok", "err"}
  BY DEF OpEnds
<1>3. SyncOps'
  BY <1>0, <1>1, <1>2 DEF SyncOps, SyncOp, Before, Writes
<1>4. Owing'
  BY <1>0, <1>1, <1>2 DEF Owing, Owes, IsCommit, Writes
<1>5. OpKinds'
  BY <1>0, <1>1, <1>2 DEF OpKinds
<1> QED
  BY <1>3, <1>4, <1>5

\* An operation that has waited goes on.
LEMMA GoesParts ==
    ASSUME IInv, NEW i \in DOMAIN op, NEW pc \in {"check", "rpc"}, OpGoes(i, pc), wr' = wr, op[i].pc \in {"drain", "check"},
           pc = "check" => op[i].kind = "commit",
           op[i].pc = "drain" =>
               \A w \in Writes : wr[w].pc \in {"queued", "landed"} /\ ~ wr[w].orphan /\ wr[w].q = op[i].q
                                 => IsCommit(i) /\ wr[w].b \notin op[i].r
    PROVE  SyncOps' /\ Owing' /\ OpKinds'
<1>0. SyncOps /\ Owing /\ OpKinds /\ Typed
  BY DEF IInv
<1>1. \A j \in DOMAIN op' : j # i => op'[j] = op[j] /\ j \in DOMAIN op
  BY DEF OpGoes
<1>2. /\ op'[i].kind = op[i].kind /\ op'[i].r = op[i].r /\ op'[i].w = op[i].w /\ op'[i].q = op[i].q
      /\ op'[i].owed = op[i].owed /\ op'[i].pc = pc /\ DOMAIN op' = DOMAIN op
  BY DEF OpGoes
<1>3. SyncOps'
  <2>1. ASSUME NEW j \in DOMAIN op, j # i PROVE SyncOp(j)'
    BY <1>0, <1>1, <1>2, <2>1 DEF SyncOps, SyncOp, Before, Writes
  <2>2. SyncOp(i)'
    <3>1. SUFFICES ASSUME op[i].kind = "sync" PROVE SyncOp(i)'
      BY <1>2 DEF SyncOp
    <3>2. /\ op[i].w \in Writes /\ wr[op[i].w].pc = "sync"
          /\ \A j \in DOMAIN op : j # i /\ op[j].kind = "sync" => op[j].w # op[i].w
          /\ \A w \in Writes : Before(w, op[i].w) => op[i].pc = "drain" /\ op[i].q = wr[w].q
      BY <1>0, <3>1 DEF SyncOps, SyncOp
    <3>3. \A w \in Writes : ~ Before(w, op[i].w)
      BY <3>1, <3>2 DEF Before, IsCommit
    <3> QED
      BY <1>1, <1>2, <3>2, <3>3 DEF SyncOp, Before, Writes
  <2> QED
    BY <1>2, <2>1, <2>2 DEF SyncOps
<1>4. Owing'
  <2>1. ASSUME NEW j \in DOMAIN op, j # i, NEW w \in op'[j].owed PROVE Owes(j, w)'
    BY <1>0, <1>1, <1>2, <2>1 DEF Owing, Owes, IsCommit, Writes
  <2>2. ASSUME NEW w \in op'[i].owed PROVE Owes(i, w)'
    <3>1. Owes(i, w)
      BY <1>0, <1>2, <2>2 DEF Owing
    <3> QED
      BY <1>2, <3>1 DEF Owes, IsCommit, Writes
  <2> QED
    BY <1>2, <2>1, <2>2 DEF Owing
<1>5. OpKinds'
  BY <1>0, <1>1, <1>2 DEF OpKinds
<1> QED
  BY <1>3, <1>4, <1>5

\* What is in the page cache is still there.
LEMMA KeptSame ==
    ASSUME IInv, UNCHANGED <<wr, cache, wiped, stale>>
    PROVE  Kept'
BY DEF IInv, Kept, Writes

\* The write of a FILE_SYNC write is over: done by the guest, or refused.
LEMMA SyncOver ==
    ASSUME IInv, NEW i \in DOMAIN op, op[i].kind = "sync", OpEnds(i), TailsKept, UNCHANGED <<map, verf, free, busy>>,
           NEW pc \in {"done", "refused"}, wr' = [wr EXCEPT ![op[i].w].pc = pc], pc = "done" => op[i].pc # "drain"
    PROVE  /\ Slots' /\ InTurn' /\ Mapped' /\ Follows' /\ Chained' /\ Vouched' /\ SyncOps' /\ Owing' /\ OpKinds'
           /\ op[i].w \in Writes /\ wr[op[i].w].pc = "sync"
           /\ Sets(op[i].w, pc, wr[op[i].w].q, wr[op[i].w].prev, wr[op[i].w].orphan, wr[op[i].w].failed, wr[op[i].w].verf)
<1>0. Typed /\ Refs /\ Slots /\ InTurn /\ Mapped /\ Follows /\ Chained /\ Vouched /\ SyncOps /\ Owing /\ OpKinds
  BY DEF IInv
<1>1. /\ op[i].w \in Writes /\ wr[op[i].w].pc = "sync"
      /\ \A j \in DOMAIN op : j # i /\ op[j].kind = "sync" => op[j].w # op[i].w
      /\ \A x \in Writes : Before(x, op[i].w) => op[i].pc = "drain" /\ op[i].q = wr[x].q
  BY <1>0 DEF SyncOps, SyncOp
<1>2. PICK w \in Writes : w = op[i].w
  BY <1>1
<1>3. Sets(w, pc, wr[w].q, wr[w].prev, wr[w].orphan, wr[w].failed, wr[w].verf)
  BY <1>0, <1>2, SyncSets
<1>4. wr[w].pc = "sync"
  BY <1>1, <1>2
<1>5. \A j \in DOMAIN op' : j # i => op'[j] = op[j] /\ j \in DOMAIN op
  BY DEF OpEnds
<1>6. op'[i].kind = "none" /\ op'[i].owed = {} /\ op'[i].pc \in {"ok", "err"}
  BY DEF OpEnds
<1>7. Slots'
  <2>1. Holding' = Holding
    BY <1>3, <1>4 DEF Holding, Sets
  <2> QED
    BY <1>0, <2>1, SameSlots
<1>8. InTurn' /\ Mapped'
  BY <1>0, <1>3 DEF InTurn, Mapped, Sets, Fresh
<1>9. ASSUME NEW x \in Writes, NEW y \in Writes, Before(x, y)' PROVE Before(x, y) /\ wr'[x] = wr[x]
  BY <1>3, <1>9 DEF Before, Sets
<1>10. Follows'
  <2>1. ASSUME NEW x \in Writes, NEW y \in Writes, Before(x, y)'
        PROVE  (wr'[y].pc \in {"held", "queued"} => wr'[y].q = wr'[x].q) /\ wr'[y].pc \notin Hits
    <3>1. CASE y = w
      BY <1>1, <1>2, <1>3, <1>9, <2>1, <3>1 DEF Sets, Hits
    <3>2. CASE y # w
      <4>1. wr'[y] = wr[y]
        BY <1>3, <3>2 DEF Sets
      <4>2. Before(x, y) /\ wr'[x] = wr[x]
        BY <1>9, <2>1
      <4> QED
        BY <1>0, <4>1, <4>2 DEF Follows
    <3> QED
      BY <3>1, <3>2
  <2> QED
    BY <1>3, <2>1 DEF Follows, Sets
<1>11. Chained'
  <2>1. ASSUME NEW k \in DOMAIN ent PROVE Chain(k)'
    <3>1. Queued(k)' = Queued(k)
      BY <1>3, <1>4 DEF Queued, Sets
    <3>2. \A x \in Queued(k) : wr'[x].b = wr[x].b /\ wr'[x].prev = wr[x].prev
      BY <1>3, <1>4 DEF Queued, Sets
    <3>3. Chain(k) /\ ent'[k].tail = ent[k].tail /\ Writes \subseteq Writes'
      BY <1>0, <1>3, <2>1 DEF Chained, Sets, TailsKept
    <3> QED
      BY <1>0, <3>1, <3>2, <3>3, ChainKept
  <2> QED
    BY <2>1 DEF Chained, TailsKept
<1>12. Vouched'
  BY <1>0, <1>3 DEF Vouched, Sets
<1>13. SyncOps'
  <2>1. ASSUME NEW j \in DOMAIN op', op'[j].kind = "sync" PROVE SyncOp(j)'
    <3>1. j # i /\ op'[j] = op[j] /\ j \in DOMAIN op /\ SyncOp(j)
      BY <1>0, <1>5, <1>6, <2>1 DEF SyncOps
    <3>2. op[j].w # w /\ op[j].w \in Writes
      BY <1>1, <1>2, <2>1, <3>1 DEF SyncOp
    <3> QED
      BY <1>3, <1>5, <1>6, <1>9, <2>1, <3>1, <3>2 DEF SyncOp, Sets
  <2> QED
    BY <2>1 DEF SyncOps, SyncOp
<1>14. Owing'
  BY <1>0, <1>3, <1>4, <1>5, <1>6 DEF Owing, Owes, Sets, Hits, IsCommit
<1>15. OpKinds'
  BY <1>0, <1>5, <1>6 DEF OpKinds
<1> QED
  BY <1>1, <1>2, <1>3, <1>7, <1>8, <1>10, <1>11, <1>12, <1>13, <1>14, <1>15

\* A failed operation; its write too, if it was a FILE_SYNC write.
LEMMA FailStep ==
    ASSUME IInv, NEW i \in DOMAIN op, Fail(i), TailsKept, op[i].pc \in {"drain", "rpc"},
           UNCHANGED <<map, cache, disk, late, verf, crashes, wiped, stale, free, busy>>
    PROVE  IInv'
<1>0. Typed /\ Refs /\ Kept /\ Owing
  BY DEF IInv
<1>1. OpEnds(i)
  BY <1>0, AnsweredEnds DEF Fail
<1>2. told' \subseteq Writes
  BY <1>0 DEF Fail, Refs, Owing, Owes
<1>3. CASE op[i].kind # "sync"
  <2>1. wr' = wr
    BY <1>3 DEF Fail
  <2>2. SyncOps' /\ Owing' /\ OpKinds'
    BY <1>1, <2>1, EndsParts
  <2>3. Slots' /\ InTurn' /\ Mapped' /\ Follows' /\ Chained' /\ Vouched'
    BY <2>1, WritesSame
  <2>4. Refs'
    BY <1>0, <1>2, <2>1, RefsSame DEF Refs
  <2>5. Typed'
    BY <1>0, <1>1, <2>1 DEF Typed, OpEnds, TailsKept
  <2>6. Kept'
    BY <2>1, KeptSame
  <2> QED
    BY <2>2, <2>3, <2>4, <2>5, <2>6 DEF IInv
<1>4. CASE op[i].kind = "sync"
  <2>1. wr' = [wr EXCEPT ![op[i].w].pc = "refused"]
    BY <1>4 DEF Fail
  <2>2. /\ Slots' /\ InTurn' /\ Mapped' /\ Follows' /\ Chained' /\ Vouched' /\ SyncOps' /\ Owing' /\ OpKinds'
        /\ op[i].w \in Writes /\ wr[op[i].w].pc = "sync"
        /\ Sets(op[i].w, "refused", wr[op[i].w].q, wr[op[i].w].prev, wr[op[i].w].orphan, wr[op[i].w].failed, wr[op[i].w].verf)
    BY <1>1, <1>4, <2>1, SyncOver
  <2>3. PICK w \in Writes : w = op[i].w
    BY <2>2
  <2>4. Sets(w, "refused", wr[w].q, wr[w].prev, wr[w].orphan, wr[w].failed, wr[w].verf) /\ wr[w].pc = "sync"
    BY <2>2, <2>3
  <2>5. Refs'
    <3>1. \A x \in Writes' : /\ wr'[x].q <= Len(ent') /\ wr'[x].prev <= Len(wr') /\ wr'[x].prev # x /\ wr'[x].verf <= verf'
                             /\ wr'[x].pc \in {"held", "queued", "landed"} => wr'[x].q # None
      BY <1>0, <2>4 DEF Refs, Sets, TailsKept
    <3>2. \A k \in DOMAIN ent' : ent'[k].tail # None => ent'[k].tail \in Writes' /\ wr'[ent'[k].tail].pc \notin Fresh
      BY <1>0, <2>4 DEF Refs, Sets, Fresh, TailsKept
    <3>3. late' \subseteq {x \in Writes' : wr'[x].pc \in Hits} /\ told' \subseteq Writes' /\ wiped' \subseteq Writes'
      BY <1>0, <1>2, <2>4 DEF Refs, Sets, Hits
    <3>4. \A k \in Block : Arrived(k, cache[k])' /\ Arrived(k, disk[k])'
      BY <1>0, <2>4 DEF Refs, Sets, Hits, Arrived
    <3> QED
      BY <1>0, <3>1, <3>2, <3>3, <3>4 DEF Refs, TailsKept
  <2>6. Typed'
    BY <1>0, <1>1, <2>4 DEF Typed, OpEnds, TailsKept, Sets
  <2>7. Kept'
    BY <1>0, <2>4 DEF Kept, Sets
  <2> QED
    BY <2>2, <2>5, <2>6, <2>7 DEF IInv
<1> QED
  BY <1>3, <1>4

\* An operation has waited: what it owes in its range is not in flight any more.
LEMMA DrainedStep ==
    ASSUME IInv, NEW i \in DOMAIN op, Drained(i)
    PROVE  IInv'
<1>0. Typed /\ Refs /\ Kept /\ Owing
  BY DEF IInv
<1> DEFINE q == op[i].q
           meets == {w \in InFlight(q) : IsCommit(i) => wr[w].b \in op[i].r}
<1>1. op[i].pc = "drain" /\ (q # None => meets = {}) /\ UNCHANGED <<map, cache, disk, late, verf, crashes, wiped, stale, free, busy>>
  BY DEF Drained, guestvars, slotvars
<1>2. CASE q # None /\ ent[q].err
  <2>1. Fail(i) /\ ent' = [ent EXCEPT ![q].err = FALSE]
    BY <1>2 DEF Drained
  <2>2. TailsKept
    <3>1. CASE q \in DOMAIN ent
      BY <1>0, <2>1, <3>1, ErrTails
    <3>2. CASE q \notin DOMAIN ent
      <4>1. ent' = ent
        BY <1>0, <2>1, <3>2 DEF Typed
      <4> QED
        BY <1>0, <4>1, SameTails
    <3> QED
      BY <3>1, <3>2
  <2> QED
    BY <1>1, <2>1, <2>2, FailStep
<1>3. CASE ~ (q # None /\ ent[q].err)
  <2>1. /\ op' = [op EXCEPT ![i].pc = IF op[i].kind = "commit" THEN "check" ELSE "rpc"]
        /\ UNCHANGED <<ent, told, wr>>
    BY <1>3 DEF Drained
  <2>2. PICK pc \in {"check", "rpc"} : pc = IF op[i].kind = "commit" THEN "check" ELSE "rpc"
    OBVIOUS
  <2>3. OpGoes(i, pc)
    BY <1>0, <2>1, <2>2, PcGoes
  <2>4. \A w \in Writes : wr[w].pc \in {"queued", "landed"} /\ ~ wr[w].orphan /\ wr[w].q = op[i].q
                          => IsCommit(i) /\ wr[w].b \notin op[i].r
    BY <1>0, <1>1 DEF InFlight, Refs
  <2>5. SyncOps' /\ Owing' /\ OpKinds'
    BY <1>1, <2>1, <2>2, <2>3, <2>4, GoesParts
  <2>6. TailsKept
    BY <1>0, <2>1, SameTails
  <2>7. Slots' /\ InTurn' /\ Mapped' /\ Follows' /\ Chained' /\ Vouched'
    BY <1>1, <2>1, <2>6, WritesSame
  <2>8. Refs'
    BY <1>0, <1>1, <2>1, <2>6, RefsSame DEF Refs
  <2>9. Typed'
    BY <1>0, <1>1, <2>1, <2>3 DEF Typed, OpGoes
  <2>10. Kept'
    BY <1>1, <2>1, KeptSame
  <2> QED
    BY <2>5, <2>7, <2>8, <2>9, <2>10 DEF IInv
<1> QED
  BY <1>2, <1>3

\* A step that ends an operation, or sends it on, and changes of the guest at most the disk.
LEMMA OpStep ==
    ASSUME IInv, TailsKept, UNCHANGED <<wr, map, cache, late, verf, crashes, told, wiped, stale, free, busy>>, op' \in Seq(Ops),
           SyncOps', Owing', OpKinds',
           disk' \in [Block -> Nat], \A b \in Block : disk'[b] \in {cache[b], disk[b]}
    PROVE  IInv'
<1>0. Typed /\ Refs
  BY DEF IInv
<1>1. Slots' /\ InTurn' /\ Mapped' /\ Follows' /\ Chained' /\ Vouched'
  BY WritesSame
<1>2. Refs'
  BY <1>0, RefsSame DEF Refs
<1>3. Typed'
  BY <1>0 DEF Typed, TailsKept
<1>4. Kept'
  BY KeptSame
<1> QED
  BY <1>1, <1>2, <1>3, <1>4 DEF IInv

\* A COMMIT looks at dirty: it goes on, or ends with nothing done.
LEMMA CheckStep ==
    ASSUME IInv, NEW i \in DOMAIN op, CheckDirty(i)
    PROVE  IInv'
<1>0. Typed
  BY DEF IInv
<1>1. op[i].pc = "check" /\ UNCHANGED <<wr, map, cache, disk, late, verf, crashes, told, wiped, stale, free, busy>>
      /\ disk' \in [Block -> Nat] /\ disk' = disk
  BY <1>0 DEF CheckDirty, guestvars, slotvars, Typed
<1>2. CASE map # None /\ ent[map].dirty
  <2>1. ent' = [ent EXCEPT ![map].dirty = FALSE] /\ op' = [op EXCEPT ![i].pc = "rpc"]
    BY <1>2 DEF CheckDirty
  <2>2. TailsKept
    <3>1. CASE map \in DOMAIN ent
      BY <1>0, <2>1, <3>1, DirtyTails
    <3>2. CASE map \notin DOMAIN ent
      <4>1. ent' = ent
        BY <1>0, <2>1, <3>2 DEF Typed
      <4> QED
        BY <1>0, <4>1, SameTails
    <3> QED
      BY <3>1, <3>2
  <2>3. OpGoes(i, "rpc")
    BY <1>0, <2>1, PcGoes
  <2>4. SyncOps' /\ Owing' /\ OpKinds'
    BY <1>1, <2>3, GoesParts
  <2>5. op' \in Seq(Ops)
    BY <2>3 DEF OpGoes
  <2> QED
    BY <1>1, <2>2, <2>4, <2>5, OpStep
<1>3. CASE ~ (map # None /\ ent[map].dirty)
  <2>1. op' = [Answered(i, "ok") EXCEPT ![i].skip = TRUE] /\ ent' = ent
    BY <1>3 DEF CheckDirty
  <2>2. OpEnds(i) /\ TailsKept
    BY <1>0, <2>1, SkipEnds, SameTails
  <2>3. SyncOps' /\ Owing' /\ OpKinds'
    BY <1>1, <2>2, EndsParts
  <2>4. op' \in Seq(Ops)
    BY <2>2 DEF OpEnds
  <2> QED
    BY <1>1, <2>2, <2>3, <2>4, OpStep
<1> QED
  BY <1>2, <1>3

\* CommitRange: the disk takes blocks from the page cache.
LEMMA CommitStep ==
    ASSUME IInv, NEW i \in DOMAIN op, CommitRpc(i)
    PROVE  IInv'
<1>0. Typed
  BY DEF IInv
<1>1. /\ op' = Answered(i, "ok")
      /\ UNCHANGED <<wr, map, ent, cache, late, verf, crashes, told, wiped, stale, free, busy>>
  BY DEF CommitRpc, slotvars
<1>2. OpEnds(i) /\ TailsKept
  BY <1>0, <1>1, AnsweredEnds, SameTails
<1>3. SyncOps' /\ Owing' /\ OpKinds'
  BY <1>1, <1>2, EndsParts
<1>4. op' \in Seq(Ops)
  BY <1>2 DEF OpEnds
<1>5. PICK out \in SUBSET op[i].r : disk' = [b \in Block |-> IF b \in out THEN cache[b] ELSE disk[b]]
  BY DEF CommitRpc
<1>6. disk' \in [Block -> Nat] /\ \A b \in Block : disk'[b] \in {cache[b], disk[b]}
  BY <1>0, <1>5 DEF Typed
<1> QED
  BY <1>1, <1>2, <1>3, <1>4, <1>6, OpStep

\* A read is served from the page cache.
LEMMA ReadStep ==
    ASSUME IInv, NEW i \in DOMAIN op, ReadRpc(i)
    PROVE  IInv'
<1>0. Typed
  BY DEF IInv
<1>1. UNCHANGED <<wr, map, ent, cache, disk, late, verf, crashes, told, wiped, stale, free, busy>>
  BY DEF ReadRpc, guestvars, slotvars
<1>2. PICK b \in op[i].r : op' = [Answered(i, "ok") EXCEPT ![i].val = cache[b]]
  BY DEF ReadRpc
<1>3. cache[b] \in Nat
  BY <1>0, <1>2, OpType DEF Typed
<1>4. OpEnds(i) /\ TailsKept
  BY <1>0, <1>1, <1>2, <1>3, ReadEnds, SameTails
<1>5. SyncOps' /\ Owing' /\ OpKinds'
  BY <1>1, <1>4, EndsParts
<1>6. op' \in Seq(Ops) /\ disk' \in [Block -> Nat] /\ disk' = disk
  BY <1>0, <1>1, <1>4 DEF OpEnds, Typed
<1> QED
  BY <1>1, <1>4, <1>5, <1>6, OpStep

\* A call of the guest fails.
LEMMA FailsStep ==
    ASSUME IInv, NEW i \in DOMAIN op, RpcFails(i)
    PROVE  IInv'
<1>0. Typed /\ Refs
  BY DEF IInv
<1>1. op[i].pc = "rpc" /\ Fail(i) /\ UNCHANGED <<map, cache, disk, late, verf, crashes, wiped, stale, free, busy>>
  BY DEF RpcFails, guestvars, slotvars
<1>2. TailsKept
  <2>1. CASE IsCommit(i) /\ map # None
    <3>1. ent' = [ent EXCEPT ![map].dirty = TRUE]
      BY <2>1 DEF RpcFails
    <3>2. map \in DOMAIN ent
      <4>1. DOMAIN ent = 1 .. Len(ent) /\ Len(ent) \in Nat /\ map \in Nat
        BY <1>0, LenProperties DEF Typed
      <4> QED
        BY <1>0, <2>1, <4>1 DEF Refs, None
    <3> QED
      BY <1>0, <3>1, <3>2, DirtyTails
  <2>2. CASE ~ (IsCommit(i) /\ map # None)
    <3>1. ent' = ent
      BY <2>2 DEF RpcFails
    <3> QED
      BY <1>0, <3>1, SameTails
  <2> QED
    BY <2>1, <2>2
<1> QED
  BY <1>1, <1>2, FailStep

\* A write whose FILE_SYNC is under way is the last of its block.
LEMMA SyncLast ==
    ASSUME IInv, NEW i \in DOMAIN op, op[i].kind = "sync"
    PROVE  /\ op[i].w \in Writes /\ wr[op[i].w].pc = "sync" /\ wr[op[i].w].b \in Block
           /\ \A x \in Writes : wr[x].b = wr[op[i].w].b => x <= op[i].w
           /\ cache[wr[op[i].w].b] <= op[i].w
<1>0. Typed /\ Refs /\ InTurn /\ SyncOps
  BY DEF IInv
<1>1. op[i].w \in Writes /\ wr[op[i].w].pc = "sync"
  BY <1>0 DEF SyncOps, SyncOp
<1>2. PICK w \in Writes : w = op[i].w
  BY <1>1
<1>3. wr[w].b \in Block /\ w \in Nat
  BY <1>0, WriteType DEF Writes
<1>4. ASSUME NEW x \in Writes, wr[x].b = wr[w].b PROVE x <= w
  <2>1. x \in Nat /\ ~ (w < x)
    BY <1>0, <1>1, <1>2, <1>4 DEF InTurn, Fresh, Writes
  <2> QED
    BY <1>3, <2>1
<1>5. cache[wr[w].b] <= w
  <2>1. Arrived(wr[w].b, cache[wr[w].b])
    BY <1>0, <1>3 DEF Refs
  <2>2. PICK c : c = cache[wr[w].b]
    OBVIOUS
  <2>3. c = None \/ (c \in Writes /\ wr[c].b = wr[w].b)
    BY <2>1, <2>2 DEF Arrived
  <2>4. c <= w
    BY <1>3, <1>4, <2>3 DEF None
  <2> QED
    BY <2>2, <2>4
<1> QED
  BY <1>1, <1>2, <1>3, <1>4, <1>5

\* A FILE_SYNC write lands: the last of its block, so nothing newer is overwritten.
LEMMA SyncStep ==
    ASSUME IInv, NEW i \in DOMAIN op, SyncRpc(i)
    PROVE  IInv'
<1>0. Typed /\ Refs /\ Kept
  BY DEF IInv
<1>1. /\ op[i].pc = "rpc" /\ op[i].kind = "sync" /\ disk' = cache' /\ op' = Answered(i, "ok")
      /\ cache' = [cache EXCEPT ![wr[op[i].w].b] = op[i].w] /\ wr' = [wr EXCEPT ![op[i].w].pc = "done"]
      /\ UNCHANGED <<map, ent, late, verf, crashes, told, wiped, stale, free, busy>>
  BY DEF SyncRpc, slotvars
<1>2. OpEnds(i) /\ TailsKept
  BY <1>0, <1>1, AnsweredEnds, SameTails
<1>3. /\ Slots' /\ InTurn' /\ Mapped' /\ Follows' /\ Chained' /\ Vouched' /\ SyncOps' /\ Owing' /\ OpKinds'
      /\ op[i].w \in Writes /\ wr[op[i].w].pc = "sync"
      /\ Sets(op[i].w, "done", wr[op[i].w].q, wr[op[i].w].prev, wr[op[i].w].orphan, wr[op[i].w].failed, wr[op[i].w].verf)
  BY <1>1, <1>2, SyncOver
<1>4. PICK w \in Writes : w = op[i].w
  BY <1>3
<1>5. Sets(w, "done", wr[w].q, wr[w].prev, wr[w].orphan, wr[w].failed, wr[w].verf) /\ wr[w].pc = "sync"
  BY <1>3, <1>4
<1> DEFINE b == wr[w].b
<1>6. b \in Block /\ w \in Nat /\ (\A x \in Writes : wr[x].b = b => x <= w) /\ \A x \in Writes : wr[x].b \in Block
  BY <1>0, <1>1, <1>4, SyncLast, WriteType DEF Writes
<1>7. cache' = [cache EXCEPT ![b] = w]
  BY <1>1, <1>4
<1> HIDE DEF b
<1>8. cache' \in [Block -> Nat] /\ \A k \in Block : cache'[k] = IF k = b THEN w ELSE cache[k]
  BY <1>0, <1>6, <1>7 DEF Typed
<1>9. Refs'
  <2>1. \A x \in Writes' : /\ wr'[x].q <= Len(ent') /\ wr'[x].prev <= Len(wr') /\ wr'[x].prev # x /\ wr'[x].verf <= verf'
                           /\ wr'[x].pc \in {"held", "queued", "landed"} => wr'[x].q # None
    BY <1>0, <1>1, <1>5 DEF Refs, Sets
  <2>2. \A k \in DOMAIN ent' : ent'[k].tail # None => ent'[k].tail \in Writes' /\ wr'[ent'[k].tail].pc \notin Fresh
    BY <1>0, <1>1, <1>5 DEF Refs, Sets, Fresh
  <2>3. late' \subseteq {x \in Writes' : wr'[x].pc \in Hits} /\ told' \subseteq Writes' /\ wiped' \subseteq Writes'
    BY <1>0, <1>1, <1>5 DEF Refs, Sets, Hits
  <2>4. ASSUME NEW k \in Block PROVE Arrived(k, cache[k])'
    <3>1. CASE k = b
      BY <1>5, <1>8, <3>1 DEF Arrived, Sets, Hits, b
    <3>2. CASE k # b
      BY <1>0, <1>5, <1>8, <3>2 DEF Refs, Arrived, Sets, Hits
    <3> QED
      BY <3>1, <3>2
  <2>5. ASSUME NEW k \in Block PROVE Arrived(k, disk[k])'
    BY <1>1, <2>4 DEF Arrived
  <2> QED
    BY <1>0, <1>1, <2>1, <2>2, <2>3, <2>4, <2>5 DEF Refs
<1>10. Typed'
  BY <1>0, <1>1, <1>2, <1>5, <1>8 DEF Typed, OpEnds, Sets
<1>11. Kept'
  <2>1. ASSUME NEW y \in Writes, wr'[y].pc \in {"landed", "done"}, ~ wr'[y].failed, y \notin wiped', wr'[y].b \notin stale'
        PROVE  cache'[wr'[y].b] >= y
    <3>1. wr'[y].b = wr[y].b /\ wr[y].b \in Block /\ y \in Nat
      BY <1>5, <1>6 DEF Sets, Writes
    <3>2. CASE wr[y].b = b
      BY <1>6, <1>8, <3>1, <3>2
    <3>3. CASE wr[y].b # b
      <4>1. y # w
        BY <3>3 DEF b
      <4>2. wr'[y] = wr[y]
        BY <1>5, <4>1 DEF Sets
      <4>u. wiped' = wiped /\ stale' = stale
        BY <1>1
      <4>3. cache[wr[y].b] >= y
        BY <1>0, <2>1, <4>u, <4>2 DEF Kept
      <4> QED
        BY <1>8, <3>1, <3>3, <4>3
    <3> QED
      BY <3>2, <3>3
  <2> QED
    BY <1>5, <2>1 DEF Kept, Sets
<1> QED
  BY <1>3, <1>9, <1>10, <1>11 DEF IInv

-----------------------------------------------------------------------------
(***************************************************************************)
(* Arrivals.                                                               *)
(***************************************************************************)

\* A write that arrives disturbs nothing: those of its block have all been answered.
LEMMA AddsParts ==
    ASSUME IInv, NEW b \in Block, NEW s \in BOOLEAN, Unanswered(b) = {}, wr' = Append(wr, NewWrite(b, s)),
           UNCHANGED <<map, ent, cache, disk, late, verf, crashes, told, wiped, stale, free, busy>>
    PROVE  /\ Adds(NewWrite(b, s)) /\ Refs' /\ Slots' /\ InTurn' /\ Mapped' /\ Follows' /\ Chained' /\ Kept' /\ Vouched'
           /\ \A x, y \in Writes' : Before(x, y)' => x \in Writes /\ (y \in Writes => Before(x, y))
<1>0. Typed /\ Refs /\ Slots /\ InTurn /\ Mapped /\ Follows /\ Chained /\ Kept /\ Vouched
  BY DEF IInv
<1>1. /\ NewWrite(b, s) \in Rec /\ NewWrite(b, s).b = b
      /\ NewWrite(b, s).pc \in {"sync", "slot"} /\ NewWrite(b, s).q = 0 /\ NewWrite(b, s).prev = 0
      /\ NewWrite(b, s).verf = verf
  BY <1>0, NewType
<1>2. Adds(NewWrite(b, s))
  BY <1>0, <1>1, AddsWrite
<1>3. PICK m \in Nat : m = Len(wr) + 1
  <2>1. Len(wr) \in Nat
    BY <1>0, LenProperties DEF Typed
  <2> QED
    BY <2>1
<1>4. /\ Writes' = Writes \cup {m} /\ m \notin Writes /\ m # 0 /\ Len(wr') = m
      /\ \A w \in Writes : wr'[w] = wr[w] /\ w < m /\ w \in Nat
      /\ wr'[m].b = b /\ wr'[m].pc \in {"sync", "slot"} /\ wr'[m].q = 0 /\ wr'[m].prev = 0 /\ wr'[m].verf = verf
  BY <1>1, <1>2, <1>3 DEF Adds, Writes
<1>5. \A w \in Writes : /\ wr[w].b = b => wr[w].pc \notin Fresh
                        /\ wr[w].q \in Nat /\ wr[w].prev \in Nat /\ wr[w].verf \in Nat
  BY <1>0, WriteType DEF Unanswered, Fresh
<1>l. Len(wr) \in Nat /\ Len(ent) \in Nat /\ Len(wr) < m
  BY <1>0, <1>3, LenProperties DEF Typed
<1>r. Refs'
  <2>1. ASSUME NEW x \in Writes
        PROVE  /\ wr'[x].q <= Len(ent') /\ wr'[x].prev <= Len(wr') /\ wr'[x].prev # x /\ wr'[x].verf <= verf'
               /\ wr'[x].pc \in {"held", "queued", "landed"} => wr'[x].q # None
    <3>1. wr'[x] = wr[x] /\ ent' = ent /\ verf' = verf /\ Len(wr') = m
      BY <1>4, <2>1
    <3>2. /\ wr[x].q <= Len(ent) /\ wr[x].prev <= Len(wr) /\ wr[x].prev # x /\ wr[x].verf <= verf
          /\ wr[x].pc \in {"held", "queued", "landed"} => wr[x].q # None
      BY <1>0, <2>1 DEF Refs
    <3>3. wr[x].prev \in Nat
      BY <1>5, <2>1
    <3>4. wr[x].prev <= m
      BY <1>l, <3>2, <3>3
    <3> QED
      BY <3>1, <3>2, <3>4
  <2>2. /\ wr'[m].q <= Len(ent') /\ wr'[m].prev <= Len(wr') /\ wr'[m].prev # m /\ wr'[m].verf <= verf'
        /\ wr'[m].pc \in {"held", "queued", "landed"} => wr'[m].q # None
    BY <1>0, <1>4, <1>l DEF Typed
  <2>3. \A k \in DOMAIN ent' : ent'[k].tail # None => ent'[k].tail \in Writes' /\ wr'[ent'[k].tail].pc \notin Fresh
    BY <1>0, <1>4 DEF Refs
  <2>4. late' \subseteq {x \in Writes' : wr'[x].pc \in Hits} /\ told' \subseteq Writes' /\ wiped' \subseteq Writes'
    BY <1>0, <1>4 DEF Refs
  <2>5. \A k \in Block : Arrived(k, cache[k])' /\ Arrived(k, disk[k])'
    <3>1. ASSUME NEW k \in Block, NEW c, Arrived(k, c) PROVE c # None => c \in Writes' /\ wr'[c].b = k /\ wr'[c].pc \in Hits
      BY <1>4, <3>1 DEF Arrived
    <3>2. ASSUME NEW k \in Block PROVE Arrived(k, cache[k])' /\ Arrived(k, disk[k])'
      <4>1. Arrived(k, cache[k]) /\ Arrived(k, disk[k])
        BY <1>0 DEF Refs
      <4> QED
        BY <3>1, <4>1 DEF Arrived
    <3> QED
      BY <3>2
  <2>6. \A x \in Writes' : /\ wr'[x].q <= Len(ent') /\ wr'[x].prev <= Len(wr') /\ wr'[x].prev # x /\ wr'[x].verf <= verf'
                           /\ wr'[x].pc \in {"held", "queued", "landed"} => wr'[x].q # None
    BY <1>4, <2>1, <2>2
  <2>7. map' <= Len(ent')
    BY <1>0 DEF Refs
  <2> QED
    BY <2>3, <2>4, <2>5, <2>6, <2>7 DEF Refs
<1>6. Slots'
  <2>1. Holding' = Holding
    BY <1>4 DEF Holding
  <2> QED
    BY <1>0, <2>1, SameSlots
<1>7. InTurn'
  <2>1. ASSUME NEW x \in Writes', NEW y \in Writes', x < y, wr'[x].b = wr'[y].b PROVE wr'[x].pc \notin Fresh
    <3>1. x \in Writes
      BY <1>3, <1>4, <2>1
    <3>2. CASE y \in Writes
      BY <1>0, <1>4, <2>1, <3>1, <3>2 DEF InTurn
    <3>3. CASE y = m
      BY <1>4, <1>5, <2>1, <3>1, <3>3
    <3> QED
      BY <1>4, <3>2, <3>3
  <2> QED
    BY <2>1 DEF InTurn
<1>8. Mapped' /\ Vouched'
  <2>1. \A x \in Writes' : x = m \/ (x \in Writes /\ wr'[x] = wr[x])
    BY <1>4
  <2>2. Mapped'
    BY <1>0, <1>4, <2>1 DEF Mapped
  <2>3. Vouched'
    <3>1. ASSUME NEW x \in Writes', BootNonce, wr'[x].verf = verf PROVE wr'[x].pc # "lost"
      <4>1. CASE x = m
        BY <1>4, <4>1
      <4>2. CASE x \in Writes /\ wr'[x] = wr[x]
        BY <1>0, <3>1, <4>2 DEF Vouched
      <4> QED
        BY <2>1, <4>1, <4>2
    <3> QED
      BY <3>1 DEF Vouched
  <2> QED
    BY <2>2, <2>3
<1>9. ASSUME NEW x \in Writes', NEW y \in Writes', Before(x, y)' PROVE x \in Writes /\ (y \in Writes => Before(x, y))
  BY <1>4, <1>9 DEF Before
<1>10. Follows'
  <2>1. ASSUME NEW x \in Writes', NEW y \in Writes', Before(x, y)'
        PROVE  (wr'[y].pc \in {"held", "queued"} => wr'[y].q = wr'[x].q) /\ wr'[y].pc \notin Hits
    <3>1. CASE y = m
      BY <1>4, <3>1 DEF Hits
    <3>2. CASE y \in Writes
      <4>1. Before(x, y) /\ x \in Writes /\ wr'[x] = wr[x] /\ wr'[y] = wr[y]
        BY <1>4, <1>9, <2>1, <3>2
      <4> QED
        BY <1>0, <3>2, <4>1 DEF Follows
    <3> QED
      BY <1>4, <3>1, <3>2
  <2> QED
    BY <2>1 DEF Follows
<1>11. Chained'
  <2>1. ASSUME NEW k \in DOMAIN ent PROVE Chain(k)'
    <3>1. Queued(k)' = Queued(k)
      BY <1>4 DEF Queued
    <3>2. \A x \in Queued(k) : wr'[x].b = wr[x].b /\ wr'[x].prev = wr[x].prev
      BY <1>4 DEF Queued
    <3>3. Chain(k) /\ ent'[k].tail = ent[k].tail /\ Writes \subseteq Writes'
      BY <1>0, <1>4, <2>1 DEF Chained
    <3> QED
      BY <1>0, <3>1, <3>2, <3>3, ChainKept
  <2> QED
    BY <2>1 DEF Chained
<1>12. Kept'
  BY <1>0, <1>4 DEF Kept
<1> QED
  BY <1>2, <1>r, <1>6, <1>7, <1>8, <1>9, <1>10, <1>11, <1>12

\* An UNSTABLE write arrives.
LEMMA ArriveStep ==
    ASSUME IInv, NEW b \in Block, Arrive(b)
    PROVE  IInv'
<1>0. Typed /\ SyncOps /\ Owing /\ OpKinds
  BY DEF IInv
<1>1. /\ Unanswered(b) = {} /\ wr' = Append(wr, NewWrite(b, FALSE)) /\ op' = op
      /\ UNCHANGED <<map, ent, cache, disk, late, verf, crashes, told, wiped, stale, free, busy>>
  BY DEF Arrive, guestvars, slotvars
<1>2. /\ Adds(NewWrite(b, FALSE)) /\ Refs' /\ Slots' /\ InTurn' /\ Mapped' /\ Follows' /\ Chained' /\ Kept' /\ Vouched'
      /\ \A x, y \in Writes' : Before(x, y)' => x \in Writes /\ (y \in Writes => Before(x, y))
  BY <1>1, AddsParts
<1>3. \A x \in Writes : wr'[x] = wr[x] /\ x \in Writes'
  BY <1>2 DEF Adds
<1>4. Typed'
  BY <1>0, <1>1, <1>2 DEF Typed, Adds
<1>5. SyncOps'
  <2>1. ASSUME NEW j \in DOMAIN op, op[j].kind = "sync" PROVE SyncOp(j)'
    <3>1. SyncOp(j) /\ op[j].w \in Writes /\ op[j].w \in Writes' /\ wr'[op[j].w] = wr[op[j].w]
      BY <1>0, <1>3, <2>1 DEF SyncOps, SyncOp
    <3>2. \A x \in Writes' : Before(x, op[j].w)' => x \in Writes /\ Before(x, op[j].w) /\ wr'[x] = wr[x]
      <4>1. ASSUME NEW x \in Writes', NEW y \in Writes', y \in Writes, Before(x, y)'
            PROVE  x \in Writes /\ Before(x, y) /\ wr'[x] = wr[x]
        BY <1>2, <1>3, <4>1
      <4> QED
        BY <1>1, <3>1, <4>1 DEF Before
    <3> QED
      BY <1>1, <2>1, <3>1, <3>2 DEF SyncOp
  <2> QED
    BY <1>1, <2>1 DEF SyncOps, SyncOp
<1>6. Owing'
  <2>1. ASSUME NEW j \in DOMAIN op, NEW w \in op[j].owed PROVE Owes(j, w)'
    <3>1. Owes(j, w) /\ w \in Writes /\ wr'[w] = wr[w] /\ w \in Writes'
      BY <1>0, <1>3, <2>1 DEF Owing, Owes
    <3> QED
      BY <1>1, <3>1 DEF Owes, IsCommit
  <2> QED
    BY <1>1, <2>1 DEF Owing
<1>7. OpKinds'
  BY <1>0, <1>1 DEF OpKinds
<1> QED
  BY <1>2, <1>4, <1>5, <1>6, <1>7 DEF IInv

\* An operation arrives.
LEMMA BeginOp ==
    ASSUME Typed, NEW k \in Kind, NEW r \in SUBSET Block, NEW w \in Nat, op' = Append(op, NewOp(k, r, w, Waits))
    PROVE  /\ op' \in Seq(Ops) /\ DOMAIN op' = DOMAIN op \cup {Len(op) + 1} /\ Len(op) + 1 \notin DOMAIN op
           /\ \A j \in DOMAIN op : op'[j] = op[j]
           /\ op'[Len(op) + 1].kind = k /\ op'[Len(op) + 1].r = r /\ op'[Len(op) + 1].w = w
           /\ op'[Len(op) + 1].pc = "drain" /\ op'[Len(op) + 1].q = Waits /\ op'[Len(op) + 1].owed = Acked \ told
<1> DEFINE x == NewOp(k, r, w, Waits)
<1>1. Waits \in Nat /\ Acked \ told \in SUBSET Nat
  BY DEF Waits, Acked, Writes, Typed, None
<1>2. /\ x \in Ops /\ x.kind = k /\ x.r = r /\ x.w = w /\ x.pc = "drain" /\ x.q = Waits /\ x.owed = Acked \ told
  BY <1>1 DEF NewOp, Ops
<1> HIDE DEF x
<1>3. /\ op' \in Seq(Ops) /\ Len(op') = Len(op) + 1 /\ Len(op) \in Nat
      /\ \A i \in 1 .. Len(op) : op'[i] = op[i]
      /\ op'[Len(op) + 1] = x
  BY <1>2, AppendProperties, LenProperties DEF Typed, x
<1>4. DOMAIN op = 1 .. Len(op) /\ DOMAIN op' = 1 .. Len(op')
  BY <1>3, LenProperties DEF Typed
<1> QED
  BY <1>2, <1>3, <1>4

\* What is in flight and not of a dropped entry is what a new operation waits for.
LEMMA WaitsFor ==
    ASSUME IInv, NEW w \in Writes, wr[w].pc \in {"queued", "landed"}, ~ wr[w].orphan
    PROVE  Waits = wr[w].q
<1>1. map = wr[w].q /\ wr[w].q # None
  BY DEF IInv, Mapped, Refs
<1>2. w \in InFlight(map)
  BY <1>1 DEF InFlight
<1> QED
  BY <1>1, <1>2 DEF Waits

\* An operation arrives: what is in flight for it is registered with the entry it waits for.
LEMMA BeginStep ==
    ASSUME IInv, NEW k \in Kind, NEW r \in SUBSET Block, Begin(k, r), k = "read" => \E b \in Block : r = {b}
    PROVE  IInv'
<1>0. Typed /\ Refs /\ SyncOps /\ Owing /\ OpKinds
  BY DEF IInv
<1>1. UNCHANGED <<map, ent, cache, disk, late, verf, crashes, told, wiped, stale, free, busy>>
  BY DEF Begin, guestvars, slotvars
<1>2. PICK v : /\ op' = Append(op, NewOp(k, r, v, Waits))
               /\ v = IF k = "sync" THEN Len(wr') ELSE None
  BY DEF Begin
<1>l. Len(wr) \in Nat
  BY <1>0, LenProperties DEF Typed
<1>n. PICK n \in Nat : n = Len(op) + 1
  <2>1. Len(op) \in Nat
    BY <1>0, LenProperties DEF Typed
  <2> QED
    BY <2>1
<1>a. Acked \subseteq {w \in Writes : wr[w].pc \in Hits \cup {"queued"}}
  BY DEF Acked, Hits
<1>3. CASE k # "sync"
  <2>1. wr' = wr /\ v \in Nat
    BY <1>2, <1>3 DEF Begin, None
  <2>2. /\ op' \in Seq(Ops) /\ DOMAIN op' = DOMAIN op \cup {n} /\ n \notin DOMAIN op
        /\ \A j \in DOMAIN op : op'[j] = op[j]
        /\ op'[n].kind = k /\ op'[n].r = r /\ op'[n].w = v
        /\ op'[n].pc = "drain" /\ op'[n].q = Waits /\ op'[n].owed = Acked \ told
    BY <1>0, <1>2, <1>n, <2>1, BeginOp
  <2>3. TailsKept
    BY <1>0, <1>1, SameTails
  <2>4. Slots' /\ InTurn' /\ Mapped' /\ Follows' /\ Chained' /\ Vouched'
    BY <1>1, <2>1, <2>3, WritesSame
  <2>5. Refs'
    BY <1>0, <1>1, <2>1, <2>3, RefsSame DEF Refs
  <2>6. Kept'
    BY <1>1, <2>1, KeptSame
  <2>7. Typed'
    BY <1>0, <1>1, <2>1, <2>2 DEF Typed
  <2>8. SyncOps'
    BY <1>0, <1>3, <2>1, <2>2 DEF SyncOps, SyncOp, Before, Writes
  <2>9. Owing'
    <3>1. ASSUME NEW j \in DOMAIN op, NEW w \in op'[j].owed PROVE Owes(j, w)'
      BY <1>0, <2>1, <2>2, <3>1 DEF Owing, Owes, IsCommit, Writes
    <3>2. ASSUME NEW w \in op'[n].owed PROVE Owes(n, w)'
      <4>1. w \in Writes /\ wr[w].pc \in Hits \cup {"queued"}
        BY <1>a, <2>2, <3>2
      <4>2. wr[w].pc \in {"queued", "landed"} /\ ~ wr[w].orphan => Waits = wr[w].q
        BY <4>1, WaitsFor
      <4> QED
        BY <2>1, <2>2, <4>1, <4>2 DEF Owes, Writes
    <3> QED
      BY <2>2, <3>1, <3>2 DEF Owing
  <2>10. OpKinds'
    BY <1>0, <2>2 DEF OpKinds, Kind
  <2> QED
    BY <2>4, <2>5, <2>6, <2>7, <2>8, <2>9, <2>10 DEF IInv
<1>4. CASE k = "sync"
  <2>1. PICK b \in r : Unanswered(b) = {} /\ wr' = Append(wr, NewWrite(b, TRUE))
    BY <1>4 DEF Begin
  <2>2. b \in Block
    BY <2>1
  <2>3. /\ Adds(NewWrite(b, TRUE)) /\ Refs' /\ Slots' /\ InTurn' /\ Mapped' /\ Follows' /\ Chained' /\ Kept' /\ Vouched'
        /\ \A x, y \in Writes' : Before(x, y)' => x \in Writes /\ (y \in Writes => Before(x, y))
    BY <1>1, <2>1, <2>2, AddsParts
  <2>4. /\ wr' \in Seq(Rec) /\ v \in Nat /\ v \in Writes' /\ v \notin Writes /\ wr'[v].pc = "sync"
        /\ \A x \in Writes : wr'[x] = wr[x] /\ x \in Writes'
    <3>1. v = Len(wr')
      BY <1>2, <1>4
    <3>2. NewWrite(b, TRUE).pc = "sync"
      BY <1>0, <2>2, NewType
    <3>3. /\ wr' \in Seq(Rec) /\ Len(wr') = Len(wr) + 1 /\ Len(wr) + 1 \in Writes' /\ Len(wr) + 1 \notin Writes
          /\ wr'[Len(wr) + 1] = NewWrite(b, TRUE) /\ \A x \in Writes : wr'[x] = wr[x] /\ x \in Writes'
      BY <2>3 DEF Adds
    <3>4. Len(wr) + 1 \in Nat
      BY <1>l
    <3> QED
      BY <3>1, <3>2, <3>3, <3>4
  <2>5. /\ op' \in Seq(Ops) /\ DOMAIN op' = DOMAIN op \cup {n} /\ n \notin DOMAIN op
        /\ \A j \in DOMAIN op : op'[j] = op[j]
        /\ op'[n].kind = k /\ op'[n].r = r /\ op'[n].w = v
        /\ op'[n].pc = "drain" /\ op'[n].q = Waits /\ op'[n].owed = Acked \ told
    BY <1>0, <1>2, <1>n, <2>4, BeginOp
  <2>6. Typed'
    BY <1>0, <1>1, <2>4, <2>5 DEF Typed
  <2>7. SyncOps'
    <3>1. ASSUME NEW j \in DOMAIN op, op[j].kind = "sync" PROVE op[j].w \in Writes
      BY <1>0, <3>1 DEF SyncOps, SyncOp
    <3>2. ASSUME NEW j \in DOMAIN op PROVE SyncOp(j)'
      <4>1. SUFFICES ASSUME op[j].kind = "sync" PROVE SyncOp(j)'
        BY <2>5 DEF SyncOp
      <4>2. SyncOp(j) /\ op'[j] = op[j] /\ op[j].w \in Writes /\ op[j].w \in Writes'
        BY <1>0, <2>4, <2>5, <3>1, <4>1 DEF SyncOps
      <4>3. \A i \in DOMAIN op' : i # j /\ op'[i].kind = "sync" => op'[i].w # op[j].w
        BY <2>4, <2>5, <4>1, <4>2 DEF SyncOp
      <4>4. \A x \in Writes' : Before(x, op[j].w)' => x \in Writes /\ Before(x, op[j].w)
        BY <2>3, <4>2
      <4> QED
        BY <2>4, <4>1, <4>2, <4>3, <4>4 DEF SyncOp
    <3>3. SyncOp(n)'
      <4>1. \A i \in DOMAIN op' : i # n /\ op'[i].kind = "sync" => op'[i].w # op'[n].w
        BY <2>4, <2>5, <3>1
      <4>2. ASSUME NEW x \in Writes', Before(x, v)' PROVE Waits = wr'[x].q
        <5>1. x \in Writes /\ wr'[x] = wr[x]
          BY <2>3, <2>4, <4>2
        <5>2. wr[x].pc = "queued" /\ ~ wr[x].orphan
          BY <4>2, <5>1 DEF Before
        <5> QED
          BY <5>1, <5>2, WaitsFor
      <4> QED
        BY <2>4, <2>5, <4>1, <4>2 DEF SyncOp
    <3> QED
      BY <2>5, <3>2, <3>3 DEF SyncOps
  <2>8. Owing'
    <3>1. ASSUME NEW j \in DOMAIN op, NEW w \in op'[j].owed PROVE Owes(j, w)'
      <4>1. Owes(j, w) /\ op'[j] = op[j]
        BY <1>0, <2>5, <3>1 DEF Owing
      <4>2. w \in Writes /\ wr'[w] = wr[w] /\ w \in Writes'
        BY <2>4, <4>1 DEF Owes
      <4> QED
        BY <4>1, <4>2 DEF Owes, IsCommit
    <3>2. ASSUME NEW w \in op'[n].owed PROVE Owes(n, w)'
      <4>1. w \in Writes /\ wr[w].pc \in Hits \cup {"queued"}
        BY <1>a, <2>5, <3>2
      <4>2. wr[w].pc \in {"queued", "landed"} /\ ~ wr[w].orphan => Waits = wr[w].q
        BY <4>1, WaitsFor
      <4> QED
        BY <2>4, <2>5, <4>1, <4>2 DEF Owes
    <3> QED
      BY <2>5, <3>1, <3>2 DEF Owing
  <2>9. OpKinds'
    BY <1>0, <1>4, <2>5 DEF OpKinds
  <2> QED
    BY <2>3, <2>6, <2>7, <2>8, <2>9 DEF IInv
<1> QED
  BY <1>3, <1>4

-----------------------------------------------------------------------------
(***************************************************************************)
(* The end of an entry, the guest, and restarts.                           *)
(***************************************************************************)
\* The entry goes when nothing is in flight (reaper, remove): no batch is mapped any more.
LEMMA DropStep ==
    ASSUME IInv, DropIdle
    PROVE  IInv'
<1>0. Typed /\ Refs /\ Mapped /\ SyncOps /\ Owing /\ OpKinds
  BY DEF IInv
<1>1. InFlight(map) = {} /\ map' = None /\ UNCHANGED <<wr, ent, op, cache, disk, late, verf, crashes, told, wiped, stale, free, busy>>
  BY DEF DropIdle, guestvars, slotvars
<1>2. TailsKept
  BY <1>0, <1>1, SameTails
<1>3. Slots' /\ InTurn' /\ Follows' /\ Chained' /\ Vouched'
  BY <1>1, <1>2, WritesSame
<1>4. Mapped'
  BY <1>0, <1>1 DEF Mapped, InFlight, Writes
<1>5. Refs'
  BY <1>0, <1>1, <1>2, RefsSame DEF Refs
<1>6. Typed'
  BY <1>0, <1>1 DEF Typed, None
<1>7. Kept'
  BY <1>1, KeptSame
<1>8. SyncOps' /\ Owing' /\ OpKinds'
  BY <1>0, <1>1 DEF SyncOps, SyncOp, Owing, Owes, OpKinds, IsCommit, Before, Writes
<1> QED
  BY <1>3, <1>4, <1>5, <1>6, <1>7, <1>8 DEF IInv

\* Nothing of the host changes.
LEMMA HostSame ==
    ASSUME IInv, UNCHANGED <<hostvars, verf>>
    PROVE  /\ Slots' /\ InTurn' /\ Mapped' /\ Follows' /\ Chained' /\ Vouched' /\ SyncOps' /\ Owing' /\ OpKinds'
           /\ TailsKept /\ Writes' = Writes
<1>0. Typed /\ SyncOps /\ Owing /\ OpKinds
  BY DEF IInv
<1>1. UNCHANGED <<wr, map, ent, op, verf, free, busy>>
  BY DEF hostvars, slotvars
<1>2. TailsKept
  BY <1>0, <1>1, SameTails
<1>3. Slots' /\ InTurn' /\ Mapped' /\ Follows' /\ Chained' /\ Vouched'
  BY <1>1, <1>2, WritesSame
<1>4. SyncOps' /\ Owing' /\ OpKinds'
  BY <1>0, <1>1 DEF SyncOps, SyncOp, Owing, Owes, OpKinds, IsCommit, Before, Writes
<1> QED
  BY <1>1, <1>2, <1>3, <1>4 DEF Writes

\* Writeback: the disk of the guest takes a block from its page cache.
LEMMA FlushStep ==
    ASSUME IInv, NEW b \in Block, Flush(b)
    PROVE  IInv'
<1>0. Typed /\ Refs /\ SyncOps /\ Owing /\ OpKinds
  BY DEF IInv
<1>1. disk' = [disk EXCEPT ![b] = cache[b]] /\ UNCHANGED <<wr, map, ent, op, cache, late, verf, crashes, told, wiped, stale, free, busy>>
  BY DEF Flush, hostvars, slotvars
<1>2. TailsKept /\ SyncOps' /\ Owing' /\ OpKinds'
  BY <1>1, HostSame DEF hostvars, slotvars
<1>3. op' \in Seq(Ops) /\ disk' \in [Block -> Nat] /\ \A k \in Block : disk'[k] \in {cache[k], disk[k]}
  BY <1>0, <1>1 DEF Typed
<1> QED
  BY <1>1, <1>2, <1>3, OpStep

\* A request the host gave up on is served after all; a block that goes back is stale.
LEMMA LateStep ==
    ASSUME IInv, NEW w \in late, LandLate(w)
    PROVE  IInv'
<1>0. Typed /\ Refs /\ Kept
  BY DEF IInv
<1>1. /\ cache' = [cache EXCEPT ![wr[w].b] = w] /\ late' = late \ {w}
      /\ stale' = (IF cache[wr[w].b] > w THEN stale \cup {wr[w].b} ELSE stale)
      /\ UNCHANGED <<wr, map, ent, op, disk, verf, crashes, told, wiped, free, busy>>
  BY DEF LandLate, hostvars, slotvars
<1>2. /\ Slots' /\ InTurn' /\ Mapped' /\ Follows' /\ Chained' /\ Vouched' /\ SyncOps' /\ Owing' /\ OpKinds'
      /\ TailsKept /\ Writes' = Writes
  BY <1>1, HostSame DEF hostvars, slotvars
<1>3. w \in Writes /\ w \in Nat /\ wr[w].pc \in Hits
  BY <1>0 DEF Refs, Writes
<1>4. \A x \in Writes : wr[x].b \in Block /\ x \in Nat
  BY <1>0, WriteType DEF Writes
<1>5. PICK b \in Block : b = wr[w].b
  BY <1>3, <1>4
<1>6. /\ cache' \in [Block -> Nat] /\ cache \in [Block -> Nat] /\ stale' \in SUBSET Block
      /\ \A k \in Block : cache'[k] = IF k = b THEN w ELSE cache[k]
  BY <1>0, <1>1, <1>3, <1>5 DEF Typed
<1>7. Typed'
  BY <1>0, <1>1, <1>6 DEF Typed
<1>8. Refs'
  <2>1. \A x \in Writes' : /\ wr'[x].q <= Len(ent') /\ wr'[x].prev <= Len(wr') /\ wr'[x].prev # x /\ wr'[x].verf <= verf'
                           /\ wr'[x].pc \in {"held", "queued", "landed"} => wr'[x].q # None
    BY <1>0, <1>1, <1>2 DEF Refs
  <2>2. /\ map' <= Len(ent') /\ late' \subseteq {x \in Writes' : wr'[x].pc \in Hits}
        /\ told' \subseteq Writes' /\ wiped' \subseteq Writes'
        /\ \A k \in DOMAIN ent' : ent'[k].tail # None => ent'[k].tail \in Writes' /\ wr'[ent'[k].tail].pc \notin Fresh
    BY <1>0, <1>1, <1>2 DEF Refs
  <2>3. ASSUME NEW k \in Block PROVE Arrived(k, cache[k])' /\ Arrived(k, disk[k])'
    <3>1. Arrived(k, disk[k])'
      BY <1>0, <1>1, <1>2 DEF Refs, Arrived
    <3>2. CASE k = b
      BY <1>1, <1>2, <1>3, <1>5, <1>6, <3>1, <3>2 DEF Arrived
    <3>3. CASE k # b
      BY <1>0, <1>1, <1>2, <1>6, <3>1, <3>3 DEF Refs, Arrived
    <3> QED
      BY <3>2, <3>3
  <2> QED
    BY <2>1, <2>2, <2>3 DEF Refs
<1>9. Kept'
  <2>1. ASSUME NEW y \in Writes, wr[y].pc \in {"landed", "done"}, ~ wr[y].failed, y \notin wiped, wr[y].b \notin stale'
        PROVE  cache'[wr[y].b] >= y
    <3>1. wr[y].b \in Block /\ y \in Nat /\ cache[wr[y].b] >= y /\ cache[wr[y].b] \in Nat
      BY <1>0, <1>1, <1>4, <1>6, <2>1 DEF Kept
    <3>2. CASE wr[y].b = b
      <4>1. ~ (cache[b] > w)
        BY <1>1, <1>5, <2>1, <3>2
      <4> QED
        BY <1>3, <1>6, <3>1, <3>2, <4>1
    <3>3. CASE wr[y].b # b
      BY <1>6, <3>1, <3>3
    <3> QED
      BY <3>2, <3>3
  <2> QED
    BY <1>1, <1>2, <2>1 DEF Kept
<1> QED
  BY <1>2, <1>7, <1>8, <1>9 DEF IInv

\* A restart of the guest: what was only in its page cache is wiped.
LEMMA GuestStep ==
    ASSUME IInv, GuestRestart
    PROVE  IInv'
<1>0. Typed /\ Refs /\ Kept
  BY DEF IInv
<1>1. /\ crashes < MaxCrash /\ crashes' = crashes + 1 /\ cache' = disk /\ late' = {}
      /\ wiped' = wiped \cup {w \in Writes : disk[wr[w].b] < w /\ w <= cache[wr[w].b]}
      /\ UNCHANGED <<wr, map, ent, op, disk, verf, told, stale, free, busy>>
  BY DEF GuestRestart, hostvars, slotvars
<1>2. /\ Slots' /\ InTurn' /\ Mapped' /\ Follows' /\ Chained' /\ Vouched' /\ SyncOps' /\ Owing' /\ OpKinds'
      /\ TailsKept /\ Writes' = Writes
  BY <1>1, HostSame DEF hostvars, slotvars
<1>3. Refs'
  BY <1>0, <1>1, <1>2, RefsSame DEF Refs
<1>4. crashes' \in 0 .. MaxCrash
  BY <1>0, <1>1, WriteBehindAssumption DEF Typed
<1>5. Typed'
  BY <1>0, <1>1, <1>4 DEF Typed
<1>6. Kept'
  <2>1. ASSUME NEW y \in Writes, wr[y].pc \in {"landed", "done"}, ~ wr[y].failed, y \notin wiped', wr[y].b \notin stale
        PROVE  disk[wr[y].b] >= y
    <3>1. wr[y].b \in Block /\ y \in Nat
      BY <1>0, WriteType DEF Writes
    <3>2. cache[wr[y].b] >= y /\ disk[wr[y].b] \in Nat /\ cache[wr[y].b] \in Nat
      BY <1>0, <1>1, <2>1, <3>1 DEF Kept, Typed
    <3>3. ~ (disk[wr[y].b] < y /\ y <= cache[wr[y].b])
      BY <1>1, <2>1
    <3> QED
      BY <3>1, <3>2, <3>3
  <2> QED
    BY <1>1, <1>2, <2>1 DEF Kept
<1> QED
  BY <1>2, <1>3, <1>5, <1>6 DEF IInv

\* The operations after a restart of the host.
LEMMA RestartOps ==
    ASSUME Typed, HostRestart
    PROVE  /\ op' \in Seq(Ops) /\ DOMAIN op' = DOMAIN op
           /\ \A i \in DOMAIN op : IF op[i].pc = "ok" THEN op'[i] = op[i]
                                   ELSE op'[i].kind = "none" /\ op'[i].pc = "err" /\ op'[i].owed = {}
<1> DEFINE x(i) == IF op[i].pc = "ok" THEN op[i] ELSE Over("err")
<1>1. op' = [i \in DOMAIN op |-> x(i)]
  BY DEF HostRestart
<1>2. \A i \in DOMAIN op : x(i) \in Ops
  BY OpType, OverType
<1>3. DOMAIN op = 1 .. Len(op) /\ Len(op) \in Nat
  BY LenProperties DEF Typed
<1>4. \A i \in DOMAIN op : op[i].pc # "ok" => x(i).kind = "none" /\ x(i).pc = "err" /\ x(i).owed = {}
  BY OverType
<1>5. \A i \in DOMAIN op : op[i].pc = "ok" => x(i) = op[i]
  OBVIOUS
<1> HIDE DEF x
<1>6. op' = [i \in 1 .. Len(op) |-> x(i)] /\ \A i \in 1 .. Len(op) : x(i) \in Ops
  BY <1>1, <1>2, <1>3
<1>7. op' \in Seq(Ops)
  BY <1>3, <1>6
<1> QED
  BY <1>1, <1>4, <1>5, <1>7

\* A restart of the host: nothing is in flight afterwards, and with a boot nonce for a
\* verifier nothing lost carries the verifier of now.
LEMMA HostStep ==
    ASSUME IInv, HostRestart
    PROVE  IInv'
<1>0. Typed /\ Refs /\ Slots /\ InTurn /\ Kept /\ Vouched /\ Owing /\ OpKinds
  BY DEF IInv
<1>1. /\ crashes < MaxCrash /\ crashes' = crashes + 1 /\ map' = None
      /\ free' = WRITE_BEHIND_SLOTS /\ busy' = 0
      /\ verf' = (IF BootNonce THEN verf + 1 ELSE verf)
      /\ UNCHANGED <<ent, cache, disk, late, told, wiped, stale>>
  BY DEF HostRestart, guestvars, slotvars
<1>2. Restarts
  BY <1>0, RestartSets
<1>3. /\ op' \in Seq(Ops) /\ DOMAIN op' = DOMAIN op
      /\ \A i \in DOMAIN op : IF op[i].pc = "ok" THEN op'[i] = op[i]
                              ELSE op'[i].kind = "none" /\ op'[i].pc = "err" /\ op'[i].owed = {}
  BY <1>0, RestartOps
<1>4. /\ Writes' = Writes /\ wr' \in Seq(Rec) /\ Len(wr') = Len(wr)
      /\ \A w \in Writes : /\ wr'[w].b = wr[w].b /\ wr'[w].q = wr[w].q /\ wr'[w].prev = wr[w].prev
                           /\ wr'[w].failed = wr[w].failed /\ wr'[w].verf = wr[w].verf
                           /\ wr'[w].pc = After(wr[w].pc)
  BY <1>2 DEF Restarts
<1>5. \A w \in Writes : /\ wr'[w].pc \in {"done", "lost", "refused"}
                        /\ wr[w].pc \in Hits \cup {"queued"} => wr'[w].pc \in {"done", "lost"}
                        /\ wr'[w].pc = "done" => wr[w].pc = "done"
  BY <1>4 DEF After, Hits
<1>6. verf \in Nat /\ verf' \in Nat /\ verf <= verf' /\ (BootNonce => verf < verf')
  BY <1>0, <1>1 DEF Typed
<1>7. \A w \in Writes : wr[w].verf \in Nat /\ wr[w].b \in Block
  BY <1>0, WriteType
<1>8. Typed'
  <2>1. crashes' \in 0 .. MaxCrash /\ map' \in Nat
    BY <1>0, <1>1, WriteBehindAssumption DEF Typed, None
  <2> QED
    BY <1>0, <1>1, <1>3, <1>4, <1>6, <2>1 DEF Typed
<1>9. Refs'
  <2>1. ASSUME NEW x \in Writes
        PROVE  /\ wr'[x].q <= Len(ent') /\ wr'[x].prev <= Len(wr') /\ wr'[x].prev # x /\ wr'[x].verf <= verf'
               /\ wr'[x].pc \in {"held", "queued", "landed"} => wr'[x].q # None
    <3>1. /\ wr[x].q <= Len(ent) /\ wr[x].prev <= Len(wr) /\ wr[x].prev # x /\ wr[x].verf <= verf
      BY <1>0 DEF Refs
    <3>2. wr[x].verf <= verf'
      BY <1>6, <1>7, <3>1
    <3> QED
      BY <1>1, <1>4, <1>5, <3>1, <3>2
  <2>2. \A k \in DOMAIN ent' : ent'[k].tail # None => ent'[k].tail \in Writes' /\ wr'[ent'[k].tail].pc \notin Fresh
    BY <1>0, <1>1, <1>4, <1>5 DEF Refs, Fresh
  <2>3. late' \subseteq {x \in Writes' : wr'[x].pc \in Hits} /\ told' \subseteq Writes' /\ wiped' \subseteq Writes'
    BY <1>0, <1>1, <1>4, <1>5 DEF Refs, Hits
  <2>4. \A k \in Block : Arrived(k, cache[k])' /\ Arrived(k, disk[k])'
    BY <1>0, <1>1, <1>4, <1>5 DEF Refs, Arrived, Hits
  <2>5. map' <= Len(ent')
    <3>1. Len(ent) \in Nat
      BY <1>0, LenProperties DEF Typed
    <3> QED
      BY <1>1, <3>1 DEF None
  <2> QED
    BY <1>4, <2>1, <2>2, <2>3, <2>4, <2>5 DEF Refs
<1>10. Slots'
  <2>1. Holding' = {}
    BY <1>4, <1>5 DEF Holding
  <2>2. Cardinality(Holding') = 0
    BY <2>1, FS_EmptySet
  <2> QED
    BY <1>1, <2>2, WriteBehindAssumption DEF Slots
<1>11. InTurn' /\ Mapped' /\ Follows'
  BY <1>4, <1>5 DEF InTurn, Mapped, Follows, Before, Fresh
<1>12. Chained'
  <2>1. ASSUME NEW k \in DOMAIN ent' PROVE Chain(k)'
    <3>1. Queued(k)' = {}
      BY <1>4, <1>5 DEF Queued
    <3> QED
      BY <3>1 DEF Chain
  <2> QED
    BY <2>1 DEF Chained
<1>13. SyncOps'
  BY <1>0, <1>3 DEF SyncOps, SyncOp, OpKinds
<1>14. Kept'
  BY <1>0, <1>1, <1>4, <1>5 DEF Kept
<1>15. Vouched'
  <2>1. ASSUME NEW w \in Writes, BootNonce PROVE wr'[w].verf # verf'
    BY <1>0, <1>4, <1>6, <1>7, <2>1 DEF Refs
  <2> QED
    BY <1>4, <2>1 DEF Vouched
<1>16. Owing'
  <2>1. ASSUME NEW i \in DOMAIN op, NEW w \in op'[i].owed PROVE Owes(i, w)'
    <3>1. w \in op[i].owed
      BY <1>3, <2>1
    <3>2. w \in Writes /\ wr[w].pc \in Hits \cup {"queued"}
      BY <1>0, <2>1, <3>1 DEF Owing, Owes
    <3>3. w \in Writes' /\ wr'[w].pc \in {"done", "lost"}
      BY <1>4, <1>5, <3>2
    <3> QED
      BY <3>3 DEF Owes, Hits
  <2> QED
    BY <1>3, <2>1 DEF Owing
<1>17. OpKinds'
  BY <1>0, <1>3 DEF OpKinds
<1> QED
  BY <1>8, <1>9, <1>10, <1>11, <1>12, <1>13, <1>14, <1>15, <1>16, <1>17 DEF IInv

\* Other files take permits and give them back.
LEMMA OtherStep ==
    ASSUME IInv, OtherTakes \/ OtherEnds
    PROVE  IInv'
<1>0. Typed /\ Refs /\ Slots /\ InTurn /\ Mapped /\ Follows /\ Chained /\ SyncOps /\ Kept /\ Vouched /\ Owing /\ OpKinds
  BY DEF IInv
<1>1. UNCHANGED <<wr, map, ent, op, cache, disk, late, verf, crashes, told, wiped, stale>>
  BY DEF OtherTakes, OtherEnds, guestvars
<1>2. Slots'
  <2>1. Holding' = Holding
    BY <1>1 DEF Holding, Writes
  <2>2. \/ free > 0 /\ free' = free - 1 /\ busy' = busy + 1
        \/ busy > 0 /\ busy' = busy - 1 /\ free' = free + 1
    BY DEF OtherTakes, OtherEnds, Release
  <2> QED
    BY <1>0, <2>1, <2>2, HoldingFinite, WriteBehindAssumption DEF Slots
<1>3. Typed' /\ Refs' /\ Kept' /\ Vouched'
  BY <1>0, <1>1 DEF Typed, Refs, Kept, Vouched, Writes, Arrived
<1>4. InTurn' /\ Mapped' /\ Follows'
  BY <1>0, <1>1 DEF InTurn, Mapped, Follows, Before, Writes
<1>5. SyncOps' /\ Owing' /\ OpKinds'
  BY <1>0, <1>1 DEF SyncOps, SyncOp, Owing, Owes, OpKinds, IsCommit, Before, Writes
<1>6. TailsKept
  BY <1>0, <1>1, SameTails
<1>7. Chained'
  BY <1>1, <1>6, ChainedSame
<1> QED
  BY <1>2, <1>3, <1>4, <1>5, <1>7 DEF IInv

-----------------------------------------------------------------------------
\* It holds at the start.
LEMMA InitIInv == Init => IInv
<1> SUFFICES ASSUME Init PROVE IInv
  OBVIOUS
<1>1. Len(wr) = 0 /\ Writes = {} /\ DOMAIN op = {} /\ DOMAIN ent = {} /\ Len(ent) = 0
  BY DEF Init, Writes
<1>2. Typed
  BY WriteBehindAssumption DEF Init, Typed, None
<1>3. Holding = {} /\ Slots
  <2>1. Holding = {}
    BY <1>1 DEF Holding
  <2> QED
    BY <2>1, FS_EmptySet, WriteBehindAssumption DEF Slots, Init
<1>4. Refs
  BY <1>1, <1>2 DEF Init, Refs, None, Arrived
<1> QED
  BY <1>1, <1>2, <1>3, <1>4
     DEF IInv, InTurn, Mapped, Follows, Chained, SyncOps, Kept, Vouched, Owing, OpKinds

\* Every step keeps it.
LEMMA NextIInv == IInv /\ [Next]_vars => IInv'
<1> SUFFICES ASSUME IInv, [Next]_vars PROVE IInv'
  OBVIOUS
<1>1. CASE UNCHANGED vars
  <2>1. /\ UNCHANGED <<wr, map, ent, op, cache, disk, late, verf, crashes, told, wiped, stale, free, busy>>
        /\ UNCHANGED <<hostvars, verf>>
        /\ disk' = disk
    BY <1>1 DEF vars, hostvars, guestvars, slotvars
  <2>2. TailsKept /\ SyncOps' /\ Owing' /\ OpKinds'
    BY <2>1, HostSame
  <2>3. op' \in Seq(Ops) /\ disk' \in [Block -> Nat]
    BY <2>1 DEF IInv, Typed
  <2> QED
    BY <2>1, <2>2, <2>3, OpStep
<1>2. ASSUME NEW b \in Block, Arrive(b) \/ Flush(b) PROVE IInv'
  BY <1>2, ArriveStep, FlushStep
<1>3. ASSUME NEW b \in Block, NEW k \in Kind \ {"commit"}, Begin(k, {b}) PROVE IInv'
  <2>1. {b} \in SUBSET Block
    OBVIOUS
  <2> QED
    BY <1>3, <2>1, BeginStep
<1>4. CASE Begin("commit", Block)
  BY <1>4, BeginStep DEF Kind
<1>5. CASE Batches
  BY <1>5, SlotStep, QueueStep, LandStep, FinishStep DEF Batches
<1>6. CASE Serves
  BY <1>6, DrainedStep, CheckStep, CommitStep, ReadStep, SyncStep, FailsStep DEF Serves
<1>7. CASE DropIdle
  BY <1>7, DropStep
<1>8. ASSUME NEW w \in late, LandLate(w) PROVE IInv'
  BY <1>8, LateStep
<1>9. CASE GuestRestart \/ HostRestart
  BY <1>9, GuestStep, HostStep
<1>10. CASE OtherTakes \/ OtherEnds
  BY <1>10, OtherStep
<1> QED
  BY <1>1, <1>2, <1>3, <1>4, <1>5, <1>6, <1>7, <1>8, <1>9, <1>10 DEF Next

\* The invariant holds throughout.
LEMMA Invariance == Spec => []IInv
BY InitIInv, NextIInv, PTL DEF Spec

-----------------------------------------------------------------------------
(***************************************************************************)
(* Theorems.                                                               *)
(***************************************************************************)
\* The state is well formed: no batch is chained to itself, every reference is to a write
\* or an entry there is, and every permit of write_slots is free or held, whatever fails.
THEOREM TypeCorrect == Spec => []TypeOK
<1>1. ASSUME IInv PROVE TypeOK
  <2>0. Typed /\ Refs /\ Slots /\ Owing
    BY <1>1 DEF IInv
  <2>1. Len(wr) \in Nat /\ Len(ent) \in Nat /\ verf \in Nat /\ Writes = 1 .. Len(wr) /\ map \in Nat
    BY <2>0, LenProperties DEF Typed, Writes
  <2>2. ASSUME NEW w \in Writes
        PROVE  /\ wr[w].b \in Block /\ wr[w].sync \in BOOLEAN /\ wr[w].failed \in BOOLEAN
               /\ wr[w].pc \in {"slot", "held", "queued", "landed", "done", "lost", "sync", "refused"}
               /\ wr[w].q \in 0 .. Len(ent) /\ wr[w].prev \in (0 .. Len(wr)) \ {w} /\ wr[w].verf \in 0 .. verf
    <3>1. /\ wr[w].b \in Block /\ wr[w].sync \in BOOLEAN /\ wr[w].failed \in BOOLEAN /\ wr[w].pc \in Pcs
          /\ wr[w].q \in Nat /\ wr[w].prev \in Nat /\ wr[w].verf \in Nat
      BY <2>0, WriteType
    <3>2. wr[w].q <= Len(ent) /\ wr[w].prev <= Len(wr) /\ wr[w].prev # w /\ wr[w].verf <= verf
      BY <2>0 DEF Refs
    <3> QED
      BY <2>1, <3>1, <3>2 DEF Pcs, Fresh, Hits
  <2>3. ASSUME NEW q \in DOMAIN ent PROVE ent[q] \in [dirty : BOOLEAN, err : BOOLEAN, tail : 0 .. Len(wr)]
    <3>1. ent[q] \in Ent /\ ent[q].tail \in Nat
      BY <2>0, EntType
    <3>2. ent[q].tail \in 0 .. Len(wr)
      BY <2>0, <2>1, <3>1 DEF Refs, None
    <3> QED
      BY <3>1, <3>2 DEF Ent
  <2>4. ASSUME NEW i \in DOMAIN op
        PROVE  /\ op[i].kind \in Kind \cup {"none"} /\ op[i].r \subseteq Block /\ op[i].owed \subseteq Writes
               /\ op[i].pc \in {"drain", "check", "rpc", "ok", "err"}
    BY <2>0, OpType DEF Owing, Owes
  <2>5. cache \in [Block -> 0 .. Len(wr)] /\ disk \in [Block -> 0 .. Len(wr)]
    <3>1. \A b \in Block : cache[b] \in 0 .. Len(wr) /\ disk[b] \in 0 .. Len(wr)
      BY <2>0, <2>1 DEF Refs, Arrived, None
    <3> QED
      BY <2>0, <3>1 DEF Typed
  <2>6. late \subseteq Writes /\ told \subseteq Writes /\ wiped \subseteq Writes /\ map \in 0 .. Len(ent)
    BY <2>0, <2>1 DEF Refs
  <2> QED
    BY <2>0, <2>1, <2>2, <2>3, <2>4, <2>5, <2>6 DEF TypeOK, Typed, Slots
<1> QED
  BY <1>1, Invariance, PTL

\* A batch that lands in order does not take its block back.
LEMMA LandsOnOlder ==
    ASSUME IInv, NEW w \in Writes, NEW r, Land(w, r), ~ wr[w].orphan
    PROVE  cache[wr[w].b] <= w
<1>0. Typed /\ Refs /\ Follows
  BY DEF IInv
<1>1. wr[w].pc = "queued" /\ w \in Nat /\ wr[w].b \in Block
  BY <1>0, WriteType DEF Land, Writes
<1>2. PICK c : c = cache[wr[w].b]
  OBVIOUS
<1>3. c \in Nat /\ (c # None => c \in Writes /\ wr[c].b = wr[w].b /\ wr[c].pc \in Hits)
  BY <1>0, <1>1, <1>2 DEF Refs, Arrived, Typed
<1>4. ASSUME w < c PROVE FALSE
  <2>1. c \in Writes /\ wr[c].b = wr[w].b /\ wr[c].pc \in Hits
    BY <1>1, <1>3, <1>4 DEF None
  <2>2. Before(w, c)
    BY <1>1, <1>4, <2>1 DEF Before
  <2> QED
    BY <1>0, <2>1, <2>2 DEF Follows
<1> QED
  BY <1>1, <1>2, <1>3, <1>4

\* No step takes a block of the guest back to an older write, but the ones it is noted for.
LEMMA OrderStep ==
    ASSUME IInv, [Next]_vars, NEW b \in Block, cache'[b] < cache[b]
    PROVE  crashes' # crashes \/ b \in stale'
<1>0. Typed /\ Refs /\ cache \in [Block -> Nat] /\ cache[b] \in Nat
  BY DEF IInv, Typed
<1>1. ASSUME cache' = cache PROVE FALSE
  BY <1>0, <1>1
<1>2. CASE UNCHANGED vars
  BY <1>1, <1>2 DEF vars, guestvars, slotvars
<1>3. ASSUME NEW k \in Block, Arrive(k) \/ Flush(k) \/ \E x \in Kind \ {"commit"} : Begin(x, {k}) PROVE FALSE
  BY <1>1, <1>3 DEF Arrive, Flush, Begin, guestvars, slotvars
<1>4. CASE Begin("commit", Block)
  BY <1>1, <1>4 DEF Begin, guestvars, slotvars
<1>5. ASSUME NEW w \in Writes, TakeSlot(w) \/ Queue(w) \/ Finish(w) PROVE FALSE
  BY <1>1, <1>5 DEF TakeSlot, Queue, Finish, guestvars, slotvars
<1>6. ASSUME NEW w \in Writes, NEW r \in {"ok", "fail", "timeout"}, Land(w, r) PROVE b \in stale'
  <2>1. cache' = (IF r = "ok" THEN [cache EXCEPT ![wr[w].b] = w] ELSE cache)
        /\ stale' = (IF r = "ok" /\ wr[w].orphan /\ cache[wr[w].b] > w THEN stale \cup {wr[w].b} ELSE stale)
    BY <1>6 DEF Land
  <2>2. r = "ok" /\ b = wr[w].b /\ cache'[b] = w
    BY <1>0, <1>1, <2>1
  <2>3. w \in Nat /\ cache[b] > w
    BY <1>0, <2>2 DEF Writes
  <2>4. wr[w].orphan
    BY <1>0, <1>6, <2>2, <2>3, LandsOnOlder
  <2> QED
    BY <2>1, <2>2, <2>3, <2>4
<1>7. ASSUME NEW i \in DOMAIN op, Drained(i) \/ CheckDirty(i) \/ CommitRpc(i) \/ ReadRpc(i) \/ RpcFails(i) PROVE FALSE
  BY <1>1, <1>7 DEF Drained, CheckDirty, CommitRpc, ReadRpc, RpcFails, guestvars, slotvars
<1>8. ASSUME NEW i \in DOMAIN op, SyncRpc(i) PROVE FALSE
  <2>1. op[i].kind = "sync" /\ cache' = [cache EXCEPT ![wr[op[i].w].b] = op[i].w]
    BY <1>8 DEF SyncRpc
  <2>2. op[i].w \in Nat /\ cache[wr[op[i].w].b] <= op[i].w /\ wr[op[i].w].b \in Block
    BY <1>0, <2>1, SyncLast DEF Writes
  <2> QED
    BY <1>0, <2>1, <2>2
<1>9. CASE DropIdle
  BY <1>1, <1>9 DEF DropIdle, guestvars, slotvars
<1>10. ASSUME NEW w \in late, LandLate(w) PROVE b \in stale'
  <2>1. cache' = [cache EXCEPT ![wr[w].b] = w]
        /\ stale' = (IF cache[wr[w].b] > w THEN stale \cup {wr[w].b} ELSE stale)
    BY <1>10 DEF LandLate
  <2>2. b = wr[w].b /\ cache'[b] = w /\ w \in Nat
    BY <1>0, <1>1, <2>1 DEF Refs, Writes
  <2>3. cache[b] > w
    BY <1>0, <2>2
  <2> QED
    BY <2>1, <2>2, <2>3
<1>11. CASE GuestRestart \/ HostRestart
  BY <1>0, <1>11 DEF GuestRestart, HostRestart, Typed
<1>12. CASE OtherTakes \/ OtherEnds
  BY <1>1, <1>12 DEF OtherTakes, OtherEnds, guestvars
<1> QED
  BY <1>2, <1>3, <1>4, <1>5, <1>6, <1>7, <1>8, <1>9, <1>10, <1>11, <1>12 DEF Next, Batches, Serves

\* Overlapping writes reach the guest in the order of the client, for any number of blocks,
\* permits, batches and failures: chain_tail, but for the batches of a dropped entry,
\* requests that timed out and restarts of the guest.
THEOREM WritesInOrder == Spec => OverlapsInOrder
<1>1. IInv /\ [Next]_vars => [\A b \in Block : cache'[b] < cache[b] => crashes' # crashes \/ b \in stale']_vars
  BY OrderStep
<1> QED
  BY <1>1, Invariance, PTL DEF Spec, OverlapsInOrder

\* Only the calls to the guest, and a COMMIT of a file found clean, end an operation well.
LEMMA SuccessBy ==
    ASSUME IInv, Next, NEW i \in DOMAIN op, Succeeds(i)
    PROVE  \/ CommitRpc(i) \/ ReadRpc(i) \/ SyncRpc(i)
           \/ CheckDirty(i) /\ op'[i].skip
<1>0. Typed
  BY DEF IInv
<1>1. op[i].pc # "ok" /\ op'[i].pc = "ok"
  BY DEF Succeeds
<1>2. ASSUME op' = op PROVE FALSE
  BY <1>1, <1>2
<1>3. ASSUME NEW k \in Block, Arrive(k) \/ Flush(k) PROVE FALSE
  BY <1>2, <1>3 DEF Arrive, Flush, hostvars, slotvars
<1>4. ASSUME NEW k \in Kind, NEW r \in SUBSET Block, Begin(k, r) PROVE FALSE
  <2>1. PICK v : op' = Append(op, NewOp(k, r, v, Waits))
    BY <1>4 DEF Begin
  <2>2. i \in 1 .. Len(op) /\ Len(op) \in Nat
    BY <1>0, OpType, LenProperties DEF Typed
  <2>3. op'[i] = op[i]
    BY <1>0, <2>1, <2>2 DEF Typed
  <2> QED
    BY <1>1, <2>3
<1>5. CASE Batches
  BY <1>2, <1>5 DEF Batches, TakeSlot, Queue, Finish, Land
<1>6. ASSUME NEW j \in DOMAIN op, Fail(j) PROVE FALSE
  <2>1. OpEnds(j) /\ op'[j].pc = "err"
    BY <1>0, <1>6, AnsweredEnds DEF Fail
  <2> QED
    BY <1>1, <2>1 DEF OpEnds
<1>7. ASSUME NEW j \in DOMAIN op, NEW pc \in {"check", "rpc"}, op' = [op EXCEPT ![j].pc = pc] PROVE FALSE
  <2>1. OpGoes(j, pc)
    BY <1>0, <1>7, PcGoes
  <2> QED
    BY <1>1, <2>1 DEF OpGoes
<1>8. ASSUME NEW j \in DOMAIN op, Drained(j) PROVE FALSE
  <2>1. PICK pc \in {"check", "rpc"} : pc = IF op[j].kind = "commit" THEN "check" ELSE "rpc"
    OBVIOUS
  <2>2. Fail(j) \/ op' = [op EXCEPT ![j].pc = pc]
    BY <1>8, <2>1 DEF Drained
  <2> QED
    BY <1>6, <1>7, <2>2
<1>9. ASSUME NEW j \in DOMAIN op, CheckDirty(j) PROVE j = i /\ op'[i].skip
  <2>1. op' = [op EXCEPT ![j].pc = "rpc"] \/ op' = [Answered(j, "ok") EXCEPT ![j].skip = TRUE]
    BY <1>9 DEF CheckDirty
  <2>2. op' = [Answered(j, "ok") EXCEPT ![j].skip = TRUE]
    BY <1>7, <2>1
  <2>3. OpEnds(j) /\ op'[j].skip = TRUE
    BY <1>0, <2>2, SkipEnds
  <2> QED
    BY <1>1, <2>3 DEF OpEnds
<1>10. ASSUME NEW j \in DOMAIN op, CommitRpc(j) \/ SyncRpc(j) PROVE j = i
  <2>1. op' = Answered(j, "ok")
    BY <1>10 DEF CommitRpc, SyncRpc
  <2>2. OpEnds(j)
    BY <1>0, <2>1, AnsweredEnds
  <2> QED
    BY <1>1, <2>2 DEF OpEnds
<1>11. ASSUME NEW j \in DOMAIN op, ReadRpc(j) PROVE j = i
  <2>1. PICK b \in op[j].r : op' = [Answered(j, "ok") EXCEPT ![j].val = cache[b]]
    BY <1>11 DEF ReadRpc
  <2>2. cache[b] \in Nat
    BY <1>0, <2>1, OpType DEF Typed
  <2>3. OpEnds(j)
    BY <1>0, <2>1, <2>2, ReadEnds
  <2> QED
    BY <1>1, <2>3 DEF OpEnds
<1>12. ASSUME NEW j \in DOMAIN op, RpcFails(j) PROVE FALSE
  BY <1>6, <1>12 DEF RpcFails
<1>13. CASE DropIdle \/ GuestRestart \/ OtherTakes \/ OtherEnds
  BY <1>2, <1>13 DEF DropIdle, GuestRestart, OtherTakes, OtherEnds, hostvars, slotvars
<1>14. ASSUME NEW w \in late, LandLate(w) PROVE FALSE
  BY <1>2, <1>14 DEF LandLate, hostvars, slotvars
<1>15. ASSUME HostRestart PROVE FALSE
  <2>1. IF op[i].pc = "ok" THEN op'[i] = op[i] ELSE op'[i].pc = "err"
    BY <1>0, <1>15, RestartOps
  <2> QED
    BY <1>1, <2>1
<1>16. CASE Serves
  <2>1. PICK j \in DOMAIN op : \/ Drained(j) \/ CheckDirty(j) \/ CommitRpc(j)
                               \/ ReadRpc(j) \/ SyncRpc(j) \/ RpcFails(j)
    BY <1>16 DEF Serves
  <2> QED
    BY <1>8, <1>9, <1>10, <1>11, <1>12, <2>1
<1>17. ASSUME NEW k \in Block, NEW x \in Kind \ {"commit"}, Begin(x, {k}) PROVE FALSE
  <2>1. {k} \in SUBSET Block
    OBVIOUS
  <2> QED
    BY <1>4, <1>17, <2>1
<1>18. ASSUME Begin("commit", Block) PROVE FALSE
  BY <1>4, <1>18 DEF Kind
<1> QED
  BY <1>3, <1>5, <1>13, <1>14, <1>15, <1>16, <1>17, <1>18 DEF Next

\* An operation that has waited finds in the page cache what it vouches for.
LEMMA CoveredThere ==
    ASSUME IInv, BootNonce, NEW i \in DOMAIN op, op[i].pc = "rpc", NEW w \in Covered(i), ~ Gone(w)
    PROVE  w \in Writes /\ wr[w].b \in Block /\ w \in Nat /\ cache[wr[w].b] >= w
<1>0. Typed /\ Kept /\ Vouched /\ Owing
  BY DEF IInv
<1>1. w \in op[i].owed /\ wr[w].verf = verf /\ (op[i].kind # "sync" => wr[w].b \in op[i].r)
  BY DEF Covered
<1>2. ~ wr[w].failed /\ ~ wr[w].orphan /\ w \notin wiped /\ wr[w].b \notin stale
  BY DEF Gone
<1>3. Owes(i, w)
  BY <1>0, <1>1 DEF Owing
<1>4. w \in Writes /\ wr[w].pc \in Hits
  BY <1>1, <1>2, <1>3 DEF Owes, IsCommit
<1>5. wr[w].pc = "done"
  BY <1>0, <1>1, <1>2, <1>3, <1>4 DEF Vouched, Hits, Owes, IsCommit
<1>6. wr[w].b \in Block /\ w \in Nat
  BY <1>0, <1>4, WriteType DEF Writes
<1> QED
  BY <1>0, <1>2, <1>4, <1>5, <1>6 DEF Kept

\* A barrier that succeeds leaves what it vouches for on the disk, a COMMIT of a
\* range finds it in the guest.
LEMMA BarrierStep ==
    ASSUME BootNonce, IInv, Next, NEW i \in DOMAIN op, Succeeds(i), ~ op'[i].skip,
           NEW w \in Covered(i), ~ Gone(w)
    PROVE  /\ op[i].kind \in {"commit", "sync"} => disk'[wr[w].b] >= w
           /\ op[i].kind = "range" => cache'[wr[w].b] >= w
<1>0. Typed
  BY DEF IInv
<1>1. CommitRpc(i) \/ SyncRpc(i) \/ ReadRpc(i)
  BY SuccessBy
<1>2. w \in Writes /\ wr[w].b \in Block /\ w \in Nat /\ cache[wr[w].b] >= w
  BY <1>1, CoveredThere DEF CommitRpc, SyncRpc, ReadRpc
<1>3. CASE CommitRpc(i)
  <2>1. cache' = cache /\ op[i].kind \in {"commit", "range"}
    BY <1>3 DEF CommitRpc, IsCommit
  <2>2. CASE op[i].kind = "commit"
    <3>1. wr[w].b \in op[i].r
      BY <2>2 DEF Covered
    <3>2. disk' = [b \in Block |-> IF b \in op[i].r THEN cache[b] ELSE disk[b]]
      BY <1>3, <2>2 DEF CommitRpc
    <3>3. disk'[wr[w].b] = cache[wr[w].b]
      BY <1>2, <3>1, <3>2
    <3> QED
      BY <1>2, <2>2, <3>3
  <2>3. CASE op[i].kind = "range"
    BY <1>2, <2>1, <2>3
  <2> QED
    BY <2>1, <2>2, <2>3
<1>4. CASE SyncRpc(i)
  <2>1. /\ op[i].kind = "sync" /\ disk' = cache' /\ cache' = [cache EXCEPT ![wr[op[i].w].b] = op[i].w]
    BY <1>4 DEF SyncRpc
  <2>2. /\ \A x \in Writes : wr[x].b = wr[op[i].w].b => x <= op[i].w
        /\ wr[op[i].w].b \in Block /\ cache \in [Block -> Nat]
    BY <1>0, <2>1, SyncLast DEF Typed
  <2>3. CASE wr[w].b = wr[op[i].w].b
    <3>1. disk'[wr[w].b] = op[i].w /\ w <= op[i].w /\ op[i].w \in Nat
      BY <1>0, <1>2, <2>1, <2>2, <2>3, OpType
    <3>2. disk'[wr[w].b] >= w
      BY <1>2, <3>1
    <3> QED
      BY <2>1, <3>2
  <2>4. CASE wr[w].b # wr[op[i].w].b
    <3>1. disk'[wr[w].b] = cache[wr[w].b]
      BY <1>2, <2>1, <2>2, <2>4
    <3>2. disk'[wr[w].b] >= w
      BY <1>2, <3>1
    <3> QED
      BY <2>1, <3>2
  <2> QED
    BY <2>3, <2>4
<1>5. CASE ReadRpc(i)
  BY <1>5 DEF ReadRpc
<1> QED
  BY <1>1, <1>3, <1>4, <1>5

\* A COMMIT of the file that went to the guest and a FILE_SYNC write that succeeded leave
\* on the guest's disk every write answered before them with the same verifier, where the
\* verifier tells the boots of the host apart (NFSv4.1); a COMMIT of a range, which is no
\* fdatasync, has those of its range in the guest: drain_writes_range and commit.
THEOREM BarriersAreDurable == BootNonce => (Spec => BarrierDurable)
<1> SUFFICES ASSUME BootNonce PROVE Spec => BarrierDurable
  OBVIOUS
<1>1. IInv /\ [Next]_vars
        => [\A i \in DOMAIN op : Succeeds(i) /\ ~ op'[i].skip =>
               \A w \in Covered(i) : \/ Gone(w)
                                     \/ /\ op[i].kind \in {"commit", "sync"} => disk'[wr[w].b] >= w
                                        /\ op[i].kind = "range" => cache'[wr[w].b] >= w]_vars
  BY BarrierStep
<1> QED
  BY <1>1, Invariance, PTL DEF Spec, BarrierDurable

\* A read that succeeds returns what it vouches for.
LEMMA FreshStep ==
    ASSUME BootNonce, IInv, Next, NEW i \in DOMAIN op, Succeeds(i), op[i].kind = "read",
           NEW w \in Covered(i), ~ Gone(w)
    PROVE  op'[i].val >= w
<1>0. Typed /\ OpKinds
  BY DEF IInv
<1>1. ReadRpc(i)
  BY <1>0, SuccessBy DEF OpKinds, CheckDirty, CommitRpc, SyncRpc, IsCommit
<1>2. w \in Nat /\ wr[w].b \in Block /\ cache[wr[w].b] >= w
  BY <1>1, CoveredThere DEF ReadRpc
<1>3. PICK b \in op[i].r : op' = [Answered(i, "ok") EXCEPT ![i].val = cache[b]]
  BY <1>1 DEF ReadRpc
<1>4. PICK k \in Block : op[i].r = {k}
  BY <1>0 DEF OpKinds
<1>5. wr[w].b \in op[i].r
  BY DEF Covered
<1>6. b = wr[w].b /\ cache[b] \in Nat
  BY <1>0, <1>2, <1>3, <1>4, <1>5 DEF Typed
<1>7. op'[i].val = cache[b]
  BY <1>0, <1>3, <1>6, ReadEnds
<1> QED
  BY <1>2, <1>6, <1>7

\* A read returns what was answered to the writer before it came: queued batches land in
\* the guest before any fetch from it (read, drain_writes_range), under the same verifier.
THEOREM ReadsAreFresh == BootNonce => (Spec => ReadFresh)
<1> SUFFICES ASSUME BootNonce PROVE Spec => ReadFresh
  OBVIOUS
<1>1. IInv /\ [Next]_vars
        => [\A i \in DOMAIN op : Succeeds(i) /\ op[i].kind = "read" =>
               \A w \in Covered(i) : Gone(w) \/ op'[i].val >= w]_vars
  BY FreshStep
<1> QED
  BY <1>1, Invariance, PTL DEF Spec, ReadFresh
=============================================================================
