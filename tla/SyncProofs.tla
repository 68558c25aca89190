----------------------------- MODULE SyncProofs -----------------------------
(***************************************************************************)
(* What holds of the way from the guest to the replica with any number of  *)
(* directories and changes and queues of any length: the types, that no    *)
(* half-built tree is ever shown, and that the host has what the guest has *)
(* once everything has drained.                                            *)
(*                                                                         *)
(* Everything the guest has said and the host has not yet applied is one   *)
(* stream: buffer, journal lane, broadcast, channel and kernel queue.  An  *)
(* Overflow, the lag sentinel and the lag itself say something of every    *)
(* directory.  The argument is about the last word in the stream on a      *)
(* directory d: it is that of d's last change, or one that makes the host  *)
(* start again (Newer); where there is no word on d (AllQuiet), what the   *)
(* stream is applied to is right already (Base).  Every queue loses from   *)
(* its front only, or leaves a mark where it lost.                         *)
(***************************************************************************)
EXTENDS Sync, SequenceTheorems, WellFoundedInduction, TLAPS

Snap     == [id : Nat, d : Dir \cup {"done"}, v : Changes]
Stagings == [id : Nat \ {0}, view : View, buf : Seq(Batch)]
Fins     == [id : {1}, view : View, buf : Seq(Batch), at : {"swap", "seq"}]
Jrns     == [id : {1}, b : Batch, at : {"pick", "apply", "replaced"}]
Lives    == [state : {"Seeding", "Live"}, view : View]

\* A record says something of d, and the last one on d in a sequence is that of d's
\* change g, or an Overflow; the same for batches.
Tells(e, d)      == e.d \in {d, "overflow"}
Current(e, d, g) == e.d = "overflow" \/ (e.d = d /\ e.v = g)
Quiet(s, d)      == \A i \in DOMAIN s : ~ Tells(s[i], d)
Ends(s, d, g)    == \E i \in DOMAIN s : Current(s[i], d, g) /\ \A j \in DOMAIN s : j > i => ~ Tells(s[j], d)
BQuiet(q, d)     == \A i \in DOMAIN q : Quiet(q[i].recs, d)
BEnds(q, d, g)   == \E i \in DOMAIN q : Ends(q[i].recs, d, g) /\ \A j \in DOMAIN q : j > i => Quiet(q[j].recs, d)

\* The guest's side, and what a lane holds before it is subscribed.
Guest ==
    /\ guest \in [Dir -> Changes] /\ kq \in Seq(Rec) /\ rfull \in BOOLEAN /\ chan \in Seq(Rec) /\ bseq \in Nat
Stream ==
    /\ sub \in BOOLEAN /\ bcast \in Seq(Batch) /\ lagged \in BOOLEAN /\ jlane \in Seq(Batch)
    /\ ~ sub => bcast = <<>> /\ jlane = <<>> /\ ~ lagged
    /\ sub => up
Host ==
    /\ session \in 0 .. MaxSession /\ up \in BOOLEAN /\ seq \in Nat \cup {SEQ_ADOPT, NoSeq}
    /\ staging \in Stagings \cup {None} /\ fin \in Fins \cup {None} /\ jrn \in Jrns \cup {None} /\ live \in Lives
    /\ (staging # None => staging.id <= snaps) /\ (jrn # None => staging = None)
    /\ ~ up => staging = None /\ fin = None /\ jrn = None
    /\ due \subseteq Lasting \cup {"overflow", "unsubscribed", "seed"}

\* A snapshot is asked for, walked, and over; a directory is scanned once in it.
Walks ==
    /\ snaps \in Nat /\ starts \subseteq 1 .. snaps
    /\ walks \in [DOMAIN walks -> SUBSET Dir] /\ DOMAIN walks \subseteq 1 .. snaps /\ starts \cap DOMAIN walks = {}
    /\ blane \in Seq(Snap)
Scanned ==
    \A i \in DOMAIN blane :
        /\ blane[i].id \in 1 .. snaps /\ blane[i].id \notin starts
        /\ blane[i].id \in DOMAIN walks => blane[i].d # "done" /\ blane[i].d \notin walks[blane[i].id]
Ordered ==
    \A i, j \in DOMAIN blane :
        i < j /\ blane[i].id = blane[j].id => blane[i].d # "done" /\ blane[i].d # blane[j].d

\* What the staged snapshot is still to be told of d.
Asked(s, d)  == s \in starts \/ (s \in DOMAIN walks /\ d \in walks[s])
OnLane(s, d) == \E i \in DOMAIN blane : blane[i].id = s /\ blane[i].d = d
Whole ==
    /\ staging # None => \A d \in Dir : Asked(staging.id, d) \/ OnLane(staging.id, d) \/ staging.view[d] # Unseen
    /\ fin # None => \A d \in Dir : fin.view[d] # Unseen
    /\ live.state = "Live" => \A d \in Dir : live.view[d] # Unseen

\* What the staged snapshot will have of d is d as it is.
Staged(d) ==
    \/ Asked(staging.id, d)
    \/ \E i \in DOMAIN blane : blane[i].id = staging.id /\ blane[i].d = d /\ blane[i].v = guest[d]
    \/ ~ OnLane(staging.id, d) /\ staging.view[d] = guest[d]

\* A batch that is being applied to a replica that goes: it is lost, and noted or made
\* up for by a snapshot.
Doomed == jrn # None /\ (jrn.at = "replaced" \/ (jrn.at = "apply" /\ SwapPending))

\* What the stream is applied to.
Under(d) ==
    IF SwapPending THEN BEnds(fin.buf, d, guest[d]) \/ (BQuiet(fin.buf, d) /\ fin.view[d] = guest[d])
    ELSE live.view[d] = guest[d]
Base(d) ==
    IF staging # None
    THEN BEnds(staging.buf, d, guest[d]) \/ (BQuiet(staging.buf, d) /\ Staged(d))
    ELSE IF jrn # None
    THEN Doomed \/ Ends(jrn.b.recs, d, guest[d]) \/ (Quiet(jrn.b.recs, d) /\ Under(d))
    ELSE Under(d)

\* The stream.
Newer(d) ==
    \/ Ends(kq, d, guest[d])
    \/ Quiet(kq, d) /\ Ends(chan, d, guest[d])
    \/ Quiet(kq, d) /\ Quiet(chan, d) /\ BEnds(bcast, d, guest[d])
    \/ Quiet(kq, d) /\ Quiet(chan, d) /\ BQuiet(bcast, d) /\ (lagged \/ BEnds(jlane, d, guest[d]))
AllQuiet(d) == Quiet(kq, d) /\ Quiet(chan, d) /\ BQuiet(bcast, d) /\ BQuiet(jlane, d)

Piped == due \cap Lasting = {} => \A d \in Dir : Newer(d) \/ AllQuiet(d)
Based == due = {} /\ up => \A d \in Dir : Newer(d) \/ (AllQuiet(d) /\ Base(d))

IInv == Guest /\ Stream /\ Walks /\ Scanned /\ Ordered /\ Host /\ Whole /\ Piped /\ Based

-----------------------------------------------------------------------------
(***************************************************************************)
(* Numbers, records and batches.                                           *)
(***************************************************************************)
Less == {p \in Nat \X Nat : p[1] < p[2]}

\* A set of naturals has a least element.
LEMMA HasMin ==
    ASSUME NEW T, T \subseteq Nat, T # {}
    PROVE  \E m \in T : \A t \in T : m <= t
<1>1. Less = OpToRel(<, Nat)
  BY DEF OpToRel, Less
<1>2. IsWellFoundedOn(Less, Nat)
  BY <1>1, NatLessThanWellFounded, Zenon
<1>3. PICK m \in T : \A y \in T : ~ (<<y, m>> \in Less)
  BY <1>2, WFMin, Zenon
<1>4. \A x, y \in Nat : x < y => <<x, y>> \in Less
  BY DEF Less
<1>5. ASSUME NEW t \in T PROVE m <= t
  <2>1. t \in Nat /\ m \in Nat /\ ~(t < m)
    BY <1>3, <1>4
  <2> QED
    BY <2>1
<1> QED
  BY <1>5

\* One with a bound has a greatest.
LEMMA HasMax ==
    ASSUME NEW n \in Nat, NEW T, T \subseteq 0 .. n, T # {}
    PROVE  \E m \in T : \A t \in T : t <= m
<1> DEFINE U == {u \in Nat : n - u \in T}
<1>1. \A a \in 0 .. n : n - a \in Nat /\ n - (n - a) = a
  OBVIOUS
<1>2. PICK u \in U : \A t \in U : u <= t
  <2>1. U \subseteq Nat /\ U # {}
    BY <1>1
  <2> HIDE DEF U
  <2> QED
    BY <2>1, HasMin
<1>3. ASSUME NEW t \in T PROVE t <= n - u
  <2>1. n - t \in U
    BY <1>1
  <2>2. u <= n - t
    BY <1>2, <2>1
  <2>3. t \in Nat /\ u \in Nat
    OBVIOUS
  <2> QED
    BY <2>2, <2>3
<1> QED
  BY <1>3

\* A record is about a directory, or an Overflow.
LEMMA RecFields ==
    /\ OVERFLOW \in Rec /\ OVERFLOW.d = "overflow"
    /\ \A e \in Rec : (e.d \in Dir /\ e.v \in Changes) \/ e = OVERFLOW
    /\ \A e \in Rec : e.d = "overflow" <=> e = OVERFLOW
    /\ \A d \in Dir, v \in Changes : [d |-> d, v |-> v] \in Rec
BY SyncAssumption DEF Rec, OVERFLOW

\* A batch has records, the sentinel an Overflow.
LEMMA BatchFields ==
    /\ \A b \in Batch : b.first \in Nat /\ b.recs \in Seq(Rec)
    /\ \A n \in Nat, s \in Seq(Rec) : [first |-> n, recs |-> s] \in Batch /\ [first |-> n, recs |-> s].recs = s
    /\ Sentinel \in Batch /\ Sentinel.recs = <<OVERFLOW>>
<1>1. <<OVERFLOW>> \in Seq(Rec)
  BY RecFields
<1> QED
  BY <1>1 DEF Batch, Sentinel

\* Of an empty sequence.
LEMMA EmptyQuiet ==
    ASSUME NEW d
    PROVE  Quiet(<<>>, d) /\ BQuiet(<<>>, d)
BY DEF Quiet, BQuiet

\* A record at the end is the last word, if it tells of d.
LEMMA RecAppend ==
    ASSUME NEW s \in Seq(Rec), NEW e \in Rec, NEW d, NEW g
    PROVE  /\ Append(s, e) \in Seq(Rec)
           /\ Current(e, d, g) => Ends(Append(s, e), d, g)
           /\ ~ Tells(e, d) /\ Ends(s, d, g) => Ends(Append(s, e), d, g)
           /\ ~ Tells(e, d) /\ Quiet(s, d) => Quiet(Append(s, e), d)
<1>1. PICK r \in Seq(Rec) : r = Append(s, e) /\ DOMAIN r = 1 .. Len(s) + 1 /\ r[Len(s) + 1] = e
                            /\ \A i \in 1 .. Len(s) : r[i] = s[i]
  <2>1. Append(s, e) \in Seq(Rec) /\ DOMAIN Append(s, e) = 1 .. Len(s) + 1
        /\ Append(s, e)[Len(s) + 1] = e /\ \A i \in 1 .. Len(s) : Append(s, e)[i] = s[i]
    OBVIOUS
  <2> QED
    BY <2>1
<1>2. DOMAIN s = 1 .. Len(s) /\ Len(s) \in Nat
  OBVIOUS
<1>3. Current(e, d, g) => Ends(r, d, g)
  BY <1>1, <1>2 DEF Ends
<1>4. ~ Tells(e, d) /\ Ends(s, d, g) => Ends(r, d, g)
  BY <1>1, <1>2 DEF Ends
<1>5. ~ Tells(e, d) /\ Quiet(s, d) => Quiet(r, d)
  BY <1>1, <1>2 DEF Quiet
<1> QED
  BY <1>1, <1>3, <1>4, <1>5

\* The first record goes: it was the last word, or the last word stays.
LEMMA RecTail ==
    ASSUME NEW s \in Seq(Rec), s # <<>>, NEW d, NEW g
    PROVE  /\ Tail(s) \in Seq(Rec) /\ Head(s) \in Rec
           /\ Ends(s, d, g) => Ends(Tail(s), d, g) \/ (Quiet(Tail(s), d) /\ Current(Head(s), d, g))
           /\ Quiet(s, d) => Quiet(Tail(s), d) /\ ~ Tells(Head(s), d)
<1>1. PICK r \in Seq(Rec) : r = Tail(s) /\ DOMAIN r = 1 .. Len(s) - 1 /\ \A i \in 1 .. Len(s) - 1 : r[i] = s[i + 1]
  <2>1. Tail(s) \in Seq(Rec) /\ DOMAIN Tail(s) = 1 .. Len(s) - 1 /\ \A i \in 1 .. Len(s) - 1 : Tail(s)[i] = s[i + 1]
    OBVIOUS
  <2> QED
    BY <2>1
<1>2. DOMAIN s = 1 .. Len(s) /\ Len(s) \in Nat /\ Len(s) # 0 /\ Head(s) = s[1] /\ Head(s) \in Rec
  OBVIOUS
<1>3. ASSUME NEW i \in DOMAIN s, Current(s[i], d, g), \A j \in DOMAIN s : j > i => ~ Tells(s[j], d)
      PROVE  Ends(r, d, g) \/ (Quiet(r, d) /\ Current(s[1], d, g))
  <2>1. CASE i = 1
    BY <1>1, <1>2, <1>3, <2>1 DEF Quiet
  <2>2. CASE i # 1
    <3>1. i - 1 \in DOMAIN r /\ r[i - 1] = s[i] /\ \A j \in DOMAIN r : j > i - 1 => ~ Tells(r[j], d)
      BY <1>1, <1>2, <1>3, <2>2
    <3> QED
      BY <1>3, <3>1 DEF Ends
  <2> QED
    BY <2>1, <2>2
<1>4. Quiet(s, d) => Quiet(r, d) /\ ~ Tells(s[1], d)
  BY <1>1, <1>2 DEF Quiet
<1> QED
  BY <1>1, <1>2, <1>3, <1>4 DEF Ends

\* A sequence is cut in two: the last word is in the rest, or in the front.
LEMMA RecSplit ==
    ASSUME NEW s \in Seq(Rec), NEW k \in 1 .. Len(s), NEW d, NEW g
    PROVE  /\ SubSeq(s, 1, k) \in Seq(Rec) /\ SubSeq(s, k + 1, Len(s)) \in Seq(Rec)
           /\ Ends(s, d, g) => \/ Ends(SubSeq(s, k + 1, Len(s)), d, g)
                               \/ Quiet(SubSeq(s, k + 1, Len(s)), d) /\ Ends(SubSeq(s, 1, k), d, g)
           /\ Quiet(s, d) => Quiet(SubSeq(s, 1, k), d) /\ Quiet(SubSeq(s, k + 1, Len(s)), d)
<1>0. DOMAIN s = 1 .. Len(s) /\ Len(s) \in Nat
  OBVIOUS
<1>1. PICK f \in Seq(Rec) : f = SubSeq(s, 1, k) /\ DOMAIN f = 1 .. k /\ \A i \in 1 .. k : f[i] = s[i]
  <2>1. SubSeq(s, 1, k) \in Seq(Rec) /\ DOMAIN SubSeq(s, 1, k) = 1 .. k /\ \A i \in 1 .. k : SubSeq(s, 1, k)[i] = s[i]
    BY <1>0
  <2> QED
    BY <2>1
<1>2. PICK r \in Seq(Rec) : /\ r = SubSeq(s, k + 1, Len(s)) /\ DOMAIN r = 1 .. Len(s) - k
                            /\ \A i \in 1 .. Len(s) - k : r[i] = s[i + k]
  <2>1. /\ SubSeq(s, k + 1, Len(s)) \in Seq(Rec) /\ DOMAIN SubSeq(s, k + 1, Len(s)) = 1 .. Len(s) - k
        /\ \A i \in 1 .. Len(s) - k : SubSeq(s, k + 1, Len(s))[i] = s[i + k]
    BY <1>0, SMTT(60)
  <2> QED
    BY <2>1
<1>3. ASSUME NEW i \in DOMAIN s, Current(s[i], d, g), \A j \in DOMAIN s : j > i => ~ Tells(s[j], d)
      PROVE  Ends(r, d, g) \/ (Quiet(r, d) /\ Ends(f, d, g))
  <2>1. CASE i <= k
    <3>1. Quiet(r, d)
      BY <1>0, <1>2, <1>3, <2>1 DEF Quiet
    <3>2. i \in DOMAIN f /\ f[i] = s[i] /\ \A j \in DOMAIN f : j > i => ~ Tells(f[j], d)
      BY <1>0, <1>1, <1>3, <2>1
    <3> QED
      BY <1>3, <3>1, <3>2 DEF Ends
  <2>2. CASE ~(i <= k)
    <3>0. i \in 1 .. Len(s) /\ Len(s) \in Nat /\ k \in Nat
      BY <1>0
    <3>a. i - k \in 1 .. Len(s) - k /\ i - k + k = i /\ i \in Nat
      BY <2>2, <3>0, SMT
    <3>1. i - k \in DOMAIN r /\ i - k + k = i /\ i \in Nat
      BY <1>2, <3>a, Zenon
    <3>2. r[i - k] = s[i]
      BY <1>2, <3>1
    <3>3. ASSUME NEW j \in DOMAIN r, j > i - k PROVE ~ Tells(r[j], d)
      <4>1. j + k \in DOMAIN s /\ j + k > i
        BY <1>0, <1>2, <3>1, <3>3
      <4> QED
        BY <1>2, <1>3, <4>1
    <3> QED
      BY <1>3, <3>1, <3>2, <3>3 DEF Ends
  <2> QED
    BY <2>1, <2>2
<1>4. Quiet(s, d) => Quiet(f, d) /\ Quiet(r, d)
  BY <1>0, <1>1, <1>2 DEF Quiet
<1> QED
  BY <1>1, <1>2, <1>3, <1>4 DEF Ends

\* The same of batches: one is added at the end.
LEMMA BatchAppend ==
    ASSUME NEW q \in Seq(Batch), NEW b \in Batch, NEW d, NEW g
    PROVE  /\ Append(q, b) \in Seq(Batch)
           /\ Ends(b.recs, d, g) => BEnds(Append(q, b), d, g)
           /\ Quiet(b.recs, d) /\ BEnds(q, d, g) => BEnds(Append(q, b), d, g)
           /\ Quiet(b.recs, d) /\ BQuiet(q, d) => BQuiet(Append(q, b), d)
<1>1. PICK r \in Seq(Batch) : r = Append(q, b) /\ DOMAIN r = 1 .. Len(q) + 1 /\ r[Len(q) + 1] = b
                              /\ \A i \in 1 .. Len(q) : r[i] = q[i]
  <2>1. Append(q, b) \in Seq(Batch) /\ DOMAIN Append(q, b) = 1 .. Len(q) + 1
        /\ Append(q, b)[Len(q) + 1] = b /\ \A i \in 1 .. Len(q) : Append(q, b)[i] = q[i]
    OBVIOUS
  <2> QED
    BY <2>1
<1>2. DOMAIN q = 1 .. Len(q) /\ Len(q) \in Nat
  OBVIOUS
<1>3. Ends(b.recs, d, g) => BEnds(r, d, g)
  BY <1>1, <1>2 DEF BEnds
<1>4. Quiet(b.recs, d) /\ BEnds(q, d, g) => BEnds(r, d, g)
  BY <1>1, <1>2 DEF BEnds
<1>5. Quiet(b.recs, d) /\ BQuiet(q, d) => BQuiet(r, d)
  BY <1>1, <1>2 DEF BQuiet
<1> QED
  BY <1>1, <1>3, <1>4, <1>5

\* The first one goes.
LEMMA BatchTail ==
    ASSUME NEW q \in Seq(Batch), q # <<>>, NEW d, NEW g
    PROVE  /\ Tail(q) \in Seq(Batch) /\ Head(q) \in Batch
           /\ BEnds(q, d, g) => BEnds(Tail(q), d, g) \/ (BQuiet(Tail(q), d) /\ Ends(Head(q).recs, d, g))
           /\ BQuiet(q, d) => BQuiet(Tail(q), d) /\ Quiet(Head(q).recs, d)
<1>1. PICK r \in Seq(Batch) : r = Tail(q) /\ DOMAIN r = 1 .. Len(q) - 1 /\ \A i \in 1 .. Len(q) - 1 : r[i] = q[i + 1]
  <2>1. Tail(q) \in Seq(Batch) /\ DOMAIN Tail(q) = 1 .. Len(q) - 1 /\ \A i \in 1 .. Len(q) - 1 : Tail(q)[i] = q[i + 1]
    OBVIOUS
  <2> QED
    BY <2>1
<1>2. DOMAIN q = 1 .. Len(q) /\ Len(q) \in Nat /\ Len(q) # 0 /\ Head(q) = q[1] /\ Head(q) \in Batch
  OBVIOUS
<1>3. ASSUME NEW i \in DOMAIN q, Ends(q[i].recs, d, g), \A j \in DOMAIN q : j > i => Quiet(q[j].recs, d)
      PROVE  BEnds(r, d, g) \/ (BQuiet(r, d) /\ Ends(q[1].recs, d, g))
  <2>1. CASE i = 1
    BY <1>1, <1>2, <1>3, <2>1 DEF BQuiet
  <2>2. CASE i # 1
    <3>1. i - 1 \in DOMAIN r /\ r[i - 1] = q[i] /\ \A j \in DOMAIN r : j > i - 1 => Quiet(r[j].recs, d)
      BY <1>1, <1>2, <1>3, <2>2
    <3> QED
      BY <1>3, <3>1 DEF BEnds
  <2> QED
    BY <2>1, <2>2
<1>4. BQuiet(q, d) => BQuiet(r, d) /\ Quiet(q[1].recs, d)
  BY <1>1, <1>2 DEF BQuiet
<1> QED
  BY <1>1, <1>2, <1>3, <1>4 DEF BEnds

-----------------------------------------------------------------------------
(***************************************************************************)
(* What applying records comes to.                                         *)
(***************************************************************************)
\* Records that tell nothing of d leave it; otherwise the last word on d counts, and
\* it is that of a change.
LEMMA ApplyRecsIs ==
    ASSUME NEW view \in View, NEW recs \in Seq(Rec), NEW d \in Dir
    PROVE  /\ ApplyRecs(view, recs)[d] = view[d] \/ ApplyRecs(view, recs)[d] \in Changes
           /\ Quiet(recs, d) => ApplyRecs(view, recs)[d] = view[d]
           /\ \A g : Ends(recs, d, g) /\ (\A i \in DOMAIN recs : recs[i] # OVERFLOW) => ApplyRecs(view, recs)[d] = g
<1>0. DOMAIN recs = 1 .. Len(recs) /\ Len(recs) \in Nat /\ \A i \in DOMAIN recs : recs[i] \in Rec
  OBVIOUS
<1> DEFINE at   == {i \in DOMAIN recs : recs[i].d = d}
           last == CHOOSE i \in at : \A k \in at : k <= i
<1>1. ApplyRecs(view, recs)[d] = IF at = {} THEN view[d] ELSE recs[last].v
  BY DEF ApplyRecs
<1>2. ASSUME at # {} PROVE last \in at /\ \A k \in at : k <= last
  <2>1. at \subseteq 0 .. Len(recs)
    BY <1>0
  <2>2. \E i \in at : \A k \in at : k <= i
    <3> HIDE DEF at
    <3> QED
      BY <1>0, <1>2, <2>1, HasMax
  <2> HIDE DEF at
  <2> QED
    BY <2>2
<1>3. ASSUME at # {} PROVE recs[last].v \in Changes
  <2>1. last \in DOMAIN recs /\ recs[last].d = d
    BY <1>2, <1>3
  <2>2. recs[last] \in Rec /\ d # "overflow"
    BY <1>0, <2>1, SyncAssumption
  <2> QED
    BY <2>1, <2>2, RecFields
<1>4. ASSUME Quiet(recs, d) PROVE at = {}
  BY <1>4 DEF Quiet, Tells
<1>5. ASSUME NEW g, Ends(recs, d, g), \A i \in DOMAIN recs : recs[i] # OVERFLOW PROVE at # {} /\ recs[last].v = g
  <2>1. PICK i \in DOMAIN recs : Current(recs[i], d, g) /\ \A j \in DOMAIN recs : j > i => ~ Tells(recs[j], d)
    BY <1>5 DEF Ends
  <2>2. recs[i].d = d /\ recs[i].v = g
    BY <1>0, <1>5, <2>1, RecFields DEF Current
  <2>3. i \in at
    BY <2>2
  <2>4. last \in at /\ i <= last
    BY <1>2, <2>3
  <2>5. last \in DOMAIN recs /\ recs[last].d = d
    BY <2>4
  <2>6. ~(last > i)
    BY <2>1, <2>5 DEF Tells
  <2>7. last = i
    BY <1>0, <2>4, <2>5, <2>6
  <2> QED
    BY <2>2, <2>3, <2>7
<1> QED
  BY <1>1, <1>3, <1>4, <1>5

\* The view stays one.
LEMMA ApplyRecsType ==
    ASSUME NEW view \in View, NEW recs \in Seq(Rec)
    PROVE  ApplyRecs(view, recs) \in View
<1>1. \A d \in Dir : ApplyRecs(view, recs)[d] \in Changes \cup {Unseen}
  BY ApplyRecsIs DEF View
<1>2. ApplyRecs(view, recs) = [d \in Dir |-> ApplyRecs(view, recs)[d]]
  BY DEF ApplyRecs
<1> QED
  BY <1>1, <1>2 DEF View

\* The same of the buffered batches.
LEMMA ReplayIs ==
    ASSUME NEW view \in View, NEW buf \in Seq(Batch), NEW d \in Dir
    PROVE  /\ Replay(view, buf)[d] = view[d] \/ Replay(view, buf)[d] \in Changes
           /\ BQuiet(buf, d) => Replay(view, buf)[d] = view[d]
           /\ \A g : BEnds(buf, d, g) /\ ~ Overflowed(buf) => Replay(view, buf)[d] = g
<1>0. DOMAIN buf = 1 .. Len(buf) /\ Len(buf) \in Nat /\ \A i \in DOMAIN buf : buf[i].recs \in Seq(Rec)
  BY BatchFields
<1> DEFINE at   == {i \in DOMAIN buf : \E k \in DOMAIN buf[i].recs : buf[i].recs[k].d = d}
           last == CHOOSE i \in at : \A j \in at : j <= i
<1>1. Replay(view, buf)[d] = IF at = {} THEN view[d] ELSE ApplyRecs(view, buf[last].recs)[d]
  BY DEF Replay
<1>2. ASSUME at # {} PROVE last \in at /\ \A k \in at : k <= last
  <2>1. at \subseteq 0 .. Len(buf)
    BY <1>0
  <2>2. \E i \in at : \A k \in at : k <= i
    <3> HIDE DEF at
    <3> QED
      BY <1>0, <1>2, <2>1, HasMax
  <2> HIDE DEF at
  <2> QED
    BY <2>2
<1>3. ASSUME at # {} PROVE ApplyRecs(view, buf[last].recs)[d] = view[d] \/ ApplyRecs(view, buf[last].recs)[d] \in Changes
  <2>1. buf[last].recs \in Seq(Rec)
    BY <1>0, <1>2, <1>3
  <2> QED
    BY <2>1, ApplyRecsIs
<1>4. ASSUME BQuiet(buf, d) PROVE at = {}
  BY <1>4 DEF BQuiet, Quiet, Tells
<1>5. ASSUME NEW g, BEnds(buf, d, g), ~ Overflowed(buf) PROVE at # {} /\ ApplyRecs(view, buf[last].recs)[d] = g
  <2>1. PICK i \in DOMAIN buf : Ends(buf[i].recs, d, g) /\ \A j \in DOMAIN buf : j > i => Quiet(buf[j].recs, d)
    BY <1>5 DEF BEnds
  <2>2. PICK s \in Seq(Rec) : s = buf[i].recs /\ (\A k \in DOMAIN s : s[k] # OVERFLOW) /\ Ends(s, d, g)
    BY <1>0, <1>5, <2>1 DEF Overflowed
  <2>3. \E k \in DOMAIN s : s[k].d = d
    <3>1. PICK k \in DOMAIN s : Current(s[k], d, g)
      BY <2>2 DEF Ends
    <3> QED
      BY <2>2, <3>1, RecFields DEF Current
  <2>4. i \in at
    BY <2>2, <2>3
  <2>5. last \in at /\ i <= last
    BY <1>2, <2>4
  <2>6. last \in DOMAIN buf /\ ~ Quiet(buf[last].recs, d)
    BY <2>5 DEF Quiet, Tells
  <2>7. last = i
    <3>1. ~(last > i)
      BY <2>1, <2>6
    <3>2. last \in Nat /\ i \in Nat
      BY <1>0, <2>6
    <3> QED
      BY <2>5, <3>1, <3>2
  <2>8. ApplyRecs(view, s)[d] = g
    BY <2>2, ApplyRecsIs
  <2> QED
    BY <2>2, <2>4, <2>7, <2>8
<1> QED
  BY <1>1, <1>3, <1>4, <1>5

\* The view stays one.
LEMMA ReplayType ==
    ASSUME NEW view \in View, NEW buf \in Seq(Batch)
    PROVE  Replay(view, buf) \in View
<1>1. \A d \in Dir : Replay(view, buf)[d] \in Changes \cup {Unseen}
  BY ReplayIs DEF View
<1>2. Replay(view, buf) = [d \in Dir |-> Replay(view, buf)[d]]
  BY DEF Replay
<1> QED
  BY <1>1, <1>2 DEF View

-----------------------------------------------------------------------------
(***************************************************************************)
(* The records of the host.                                                *)
(***************************************************************************)
Buffered(s, b) == [s EXCEPT !.buf = Append(@, b)]
Entered(s, d, v) == [s EXCEPT !.view[d] = v]
Begun(i) == [id |-> i, view |-> Fresh, buf |-> <<>>]
Over(s) == [id |-> 1, view |-> s.view, buf |-> s.buf, at |-> "swap"]

\* A staged snapshot: a batch more in its buffer, a directory more in its view.
LEMMA StagingFields ==
    ASSUME NEW s \in Stagings
    PROVE  /\ s # None /\ s.id \in Nat \ {0} /\ s.view \in View /\ s.buf \in Seq(Batch)
           /\ \A b \in Batch : /\ Buffered(s, b) \in Stagings /\ Buffered(s, b).id = s.id
                               /\ Buffered(s, b).view = s.view /\ Buffered(s, b).buf = Append(s.buf, b)
           /\ \A d \in Dir, v \in Changes :
                 /\ Entered(s, d, v) \in Stagings /\ Entered(s, d, v).id = s.id /\ Entered(s, d, v).buf = s.buf
                 /\ Entered(s, d, v).view[d] = v /\ \A e \in Dir \ {d} : Entered(s, d, v).view[e] = s.view[e]
           /\ Over(s) \in Fins /\ Over(s).view = s.view /\ Over(s).buf = s.buf /\ Over(s).at = "swap"
<1>1. s # None /\ s.id \in Nat \ {0} /\ s.view \in View /\ s.buf \in Seq(Batch)
  BY DEF Stagings, None
<1>2. ASSUME NEW b \in Batch
      PROVE  /\ Buffered(s, b) \in Stagings /\ Buffered(s, b).id = s.id
             /\ Buffered(s, b).view = s.view /\ Buffered(s, b).buf = Append(s.buf, b)
  <2>0. PICK r \in Seq(Batch) : r = s.buf
    BY <1>1
  <2>1. PICK q \in Seq(Batch) : q = Append(s.buf, b)
    <3>1. Append(r, b) \in Seq(Batch)
      BY BatchAppend
    <3> QED
      BY <2>0, <3>1
  <2>2. Buffered(s, b) = [s EXCEPT !.buf = q]
    BY <2>1 DEF Buffered
  <2> QED
    BY <2>1, <2>2 DEF Stagings
<1>3. ASSUME NEW d \in Dir, NEW v \in Changes
      PROVE  /\ Entered(s, d, v) \in Stagings /\ Entered(s, d, v).id = s.id /\ Entered(s, d, v).buf = s.buf
             /\ Entered(s, d, v).view[d] = v /\ \A e \in Dir \ {d} : Entered(s, d, v).view[e] = s.view[e]
  <2>0. PICK u \in View : u = s.view
    BY <1>1
  <2>1. PICK w \in View : w = [s.view EXCEPT ![d] = v] /\ w[d] = v /\ \A e \in Dir \ {d} : w[e] = s.view[e]
    <3>1. [u EXCEPT ![d] = v] \in View
      BY DEF View
    <3>2. [u EXCEPT ![d] = v][d] = v /\ \A e \in Dir \ {d} : [u EXCEPT ![d] = v][e] = u[e]
      BY DEF View
    <3> QED
      BY <2>0, <3>1, <3>2, ZenonT(60)
  <2>2. Entered(s, d, v) = [s EXCEPT !.view = w]
    BY <2>1 DEF Entered
  <2>3. Entered(s, d, v) \in Stagings /\ Entered(s, d, v).id = s.id /\ Entered(s, d, v).buf = s.buf
    BY <2>2 DEF Stagings
  <2>4. Entered(s, d, v).view = w
    BY <2>2 DEF Stagings
  <2> QED
    BY <2>1, <2>3, <2>4
<1>4. Over(s) \in Fins /\ Over(s).view = s.view /\ Over(s).buf = s.buf /\ Over(s).at = "swap"
  BY <1>1 DEF Over, Fins
<1> QED
  BY <1>1, <1>2, <1>3, <1>4

\* A snapshot that begins has nothing yet.
LEMMA BegunFields ==
    ASSUME NEW i \in Nat \ {0}
    PROVE  /\ Begun(i) \in Stagings /\ Begun(i).id = i /\ Begun(i).buf = <<>>
           /\ \A d \in Dir : Begun(i).view[d] = Unseen
<1>1. Fresh \in View /\ <<>> \in Seq(Batch)
  BY DEF Fresh, View
<1>2. Begun(i) \in Stagings
  BY <1>1 DEF Begun, Stagings
<1>3. Begun(i).id = i /\ Begun(i).buf = <<>> /\ Begun(i).view = Fresh
  BY DEF Begun
<1>4. \A d \in Dir : Fresh[d] = Unseen
  BY DEF Fresh
<1> QED
  BY <1>2, <1>3, <1>4

\* What finish_seed and on_journal keep between their locks.
LEMMA FinFields ==
    ASSUME NEW f \in Fins
    PROVE  /\ f # None /\ f.view \in View /\ f.buf \in Seq(Batch) /\ f.at \in {"swap", "seq"}
           /\ [f EXCEPT !.at = "seq"] \in Fins /\ [f EXCEPT !.at = "seq"].at = "seq"
           /\ [f EXCEPT !.at = "seq"].view = f.view /\ [f EXCEPT !.at = "seq"].buf = f.buf
BY DEF Fins, None

\* A batch that on_journal has taken.
LEMMA JrnFields ==
    /\ \A j \in Jrns : /\ j # None /\ j.b \in Batch /\ j.at \in {"pick", "apply", "replaced"}
                       /\ \A a \in {"apply", "replaced"} :
                             /\ [j EXCEPT !.at = a] \in Jrns /\ [j EXCEPT !.at = a].at = a
                             /\ [j EXCEPT !.at = a].b = j.b
    /\ \A b \in Batch : /\ [id |-> 1, b |-> b, at |-> "pick"] \in Jrns
                        /\ [id |-> 1, b |-> b, at |-> "pick"].b = b
                        /\ [id |-> 1, b |-> b, at |-> "pick"].at = "pick"
BY DEF Jrns, None

\* The replica.
LEMMA LiveFields ==
    ASSUME NEW l \in Lives, NEW w \in View
    PROVE  /\ l.state \in {"Seeding", "Live"} /\ l.view \in View
           /\ [l EXCEPT !.view = w] \in Lives /\ [l EXCEPT !.view = w].state = l.state /\ [l EXCEPT !.view = w].view = w
           /\ [state |-> "Live", view |-> w] \in Lives /\ [state |-> "Live", view |-> w].view = w
BY DEF Lives

\* A resync: a new snapshot, with a number of its own, that nobody has started.
LEMMA ResyncEffect ==
    ASSUME IInv, Resync
    PROVE  /\ staging' \in Stagings /\ staging'.id = snaps + 1 /\ staging'.buf = <<>> /\ snaps' = snaps + 1
           /\ starts' = starts \cup {snaps + 1} /\ seq' = NoSeq /\ due' = due \cap Lasting
           /\ (\A d \in Dir : staging'.view[d] = Unseen) /\ staging' # None
<1>1. snaps + 1 \in Nat \ {0}
  BY DEF IInv, Walks
<1>2. staging' = Begun(snaps + 1) /\ snaps' = snaps + 1 /\ starts' = starts \cup {snaps + 1} /\ seq' = NoSeq
      /\ due' = due \cap Lasting
  BY DEF Resync, Begun
<1>3. staging' \in Stagings /\ staging'.id = snaps + 1 /\ staging'.buf = <<>> /\ \A d \in Dir : staging'.view[d] = Unseen
  BY <1>1, <1>2, BegunFields
<1> QED
  BY <1>2, <1>3, StagingFields

-----------------------------------------------------------------------------
(***************************************************************************)
(* Types of the stream.                                                    *)
(***************************************************************************)
\* The number of changes so far.
LEMMA MadeIs ==
    ASSUME guest \in [Dir -> Changes]
    PROVE  Made \in Changes
<1> DEFINE T == {guest[d] : d \in Dir} \cup {0}
<1>1. T \subseteq 0 .. MaxChange /\ T # {} /\ MaxChange \in Nat
  BY SyncAssumption DEF Changes
<1>2. PICK m \in T : \A t \in T : t <= m
  <2> HIDE DEF T
  <2> QED
    BY <1>1, HasMax
<1>3. m \in Changes
  BY <1>1 DEF Changes
<1>4. \A d \in Dir : guest[d] <= m /\ (m > 0 => \E e \in Dir : guest[e] = m)
  BY <1>2
<1>5. \E n \in Changes : \A d \in Dir : guest[d] <= n /\ (n > 0 => \E e \in Dir : guest[e] = n)
  BY <1>3, <1>4
<1> QED
  BY <1>5 DEF Made

\* The guest changes a directory: the record of it is the last in the kernel queue, or
\* an overflow event is; unless the loss is hidden behind another.
LEMMA ChangeEffect ==
    ASSUME IInv, NEW d \in Dir, Change(d)
    PROVE  /\ guest' \in [Dir -> Changes] /\ kq' \in Seq(Rec) /\ \A x \in Dir : x # d => guest'[x] = guest[x]
           /\ UNCHANGED <<rfull, chan, bseq, lvars, svars, hvars>>
           /\ \/ \E e \in Rec : kq' = Append(kq, e) /\ due' = due /\ (e = OVERFLOW \/ (e.d = d /\ e.v = guest'[d]))
              \/ kq' = kq /\ due' = due /\ kq # <<>> /\ kq[Len(kq)] = OVERFLOW
              \/ kq' = kq /\ due' = due \cup {"kernel"}
<1>0. guest \in [Dir -> Changes] /\ kq \in Seq(Rec)
  BY DEF IInv, Guest
<1>1. PICK n \in Changes : n = Made + 1
  BY <1>0, MadeIs, SyncAssumption DEF Change, Changes
<1>2. guest' = [guest EXCEPT ![d] = n]
  BY <1>1 DEF Change
<1>3. guest' \in [Dir -> Changes] /\ guest'[d] = n /\ \A x \in Dir : x # d => guest'[x] = guest[x]
  BY <1>0, <1>2
<1>4. PICK e \in Rec : e = [d |-> d, v |-> n] /\ e.d = d /\ e.v = n
  <2>1. [d |-> d, v |-> n] \in Rec
    BY RecFields
  <2> QED
    BY <2>1
<1>5. \A r \in Rec : Append(kq, r) \in Seq(Rec)
  BY <1>0, RecAppend
<1>6. UNCHANGED <<rfull, chan, bseq, lvars, svars, hvars>>
  BY DEF Change
<1> DEFINE lost == \E i \in DOMAIN kq : kq[i] = OVERFLOW
<1>7. CASE Len(kq) < KERNEL_QUEUE
  <2>1. kq' = Append(kq, e)
    BY <1>1, <1>4, <1>7 DEF Change
  <2>2. due' = due
    BY <1>0, <1>7, SyncAssumption DEF Change
  <2> QED
    BY <1>3, <1>4, <1>5, <1>6, <2>1, <2>2
<1>8. CASE ~(Len(kq) < KERNEL_QUEUE) /\ ~ lost
  <2>1. kq' = Append(kq, OVERFLOW) /\ due' = due
    BY <1>8 DEF Change
  <2> QED
    BY <1>3, <1>5, <1>6, <2>1, RecFields
<1>9. CASE ~(Len(kq) < KERNEL_QUEUE) /\ lost
  <2>1. kq' = kq /\ (due' = due \cup {"kernel"} \/ (due' = due /\ kq[Len(kq)] = OVERFLOW))
    BY <1>0, <1>9, SyncAssumption DEF Change
  <2>2. kq # <<>>
    BY <1>9
  <2> QED
    BY <1>0, <1>3, <1>6, <2>1, <2>2
<1> QED
  BY <1>7, <1>8, <1>9

\* The guest's side keeps its types.
LEMMA GuestStep ==
    ASSUME IInv, [Next]_vars
    PROVE  Guest'
<1>0. /\ guest \in [Dir -> Changes] /\ kq \in Seq(Rec) /\ rfull \in BOOLEAN /\ chan \in Seq(Rec) /\ bseq \in Nat
  BY DEF IInv, Guest
<1>1. ASSUME NEW d \in Dir, Change(d) PROVE Guest'
  BY <1>0, <1>1, ChangeEffect DEF Guest
<1>2. CASE ReadEvent
  <2>1. /\ kq # <<>> /\ kq' = Tail(kq) /\ (chan' = chan \/ chan' = Append(chan, Head(kq))) /\ rfull' \in BOOLEAN
        /\ UNCHANGED <<guest, bseq>>
    BY <1>2 DEF ReadEvent
  <2>2. kq' \in Seq(Rec) /\ Head(kq) \in Rec
    BY <1>0, <2>1, RecTail
  <2>3. chan' \in Seq(Rec)
    BY <1>0, <2>1, <2>2, RecAppend
  <2> QED
    BY <1>0, <2>1, <2>2, <2>3 DEF Guest
<1>3. CASE SignalFull
  <2>1. (chan' = chan \/ chan' = Append(chan, OVERFLOW)) /\ rfull' \in BOOLEAN /\ UNCHANGED <<guest, kq, bseq>>
    BY <1>3 DEF SignalFull
  <2>2. chan' \in Seq(Rec)
    BY <1>0, <2>1, RecAppend, RecFields
  <2> QED
    BY <1>0, <2>1, <2>2 DEF Guest
<1>4. ASSUME NEW k \in 1 .. MAX_RECORDS, Broadcast(k) PROVE Guest'
  <2>1. /\ k \in 1 .. Len(chan) /\ chan' = SubSeq(chan, k + 1, Len(chan)) /\ bseq' = bseq + k /\ UNCHANGED <<guest, kq, rfull>>
    BY <1>0, <1>4, SyncAssumption DEF Broadcast
  <2>2. chan' \in Seq(Rec) /\ bseq' \in Nat
    BY <1>0, <2>1, RecSplit
  <2> QED
    BY <1>0, <2>1, <2>2 DEF Guest
<1>5. CASE UNCHANGED gvars
  BY <1>0, <1>5 DEF Guest, gvars
<1>6. CASE ~ UNCHANGED gvars /\ ~ \E d \in Dir : Change(d)
  BY <1>2, <1>3, <1>4, <1>6 DEF Next, System, EndSession, Subscribe, WriteJournal, StartWalk, EndWalk, ScanDir, TakeBatch,
     PickReplica, ApplyBatch, TakeSnap, SwapReplica, SetSeq, Connect, vars
<1> QED
  BY <1>1, <1>5, <1>6

\* The batcher: a batch of the channel's front; the subscriber may lose its oldest one
\* and is told that it did.
LEMMA BroadcastEffect ==
    ASSUME IInv, NEW k \in 1 .. MAX_RECORDS, Broadcast(k)
    PROVE  /\ k \in 1 .. Len(chan) /\ chan' = SubSeq(chan, k + 1, Len(chan)) /\ chan' \in Seq(Rec)
           /\ UNCHANGED <<guest, kq, rfull, sub, jlane, starts, walks, blane, svars, hvars>>
           /\ \E b \in Batch :
                 /\ b.recs = SubSeq(chan, 1, k)
                 /\ \/ sub /\ bcast' = Append(bcast, b) /\ lagged' = lagged /\ due' = due
                    \/ sub /\ bcast # <<>> /\ bcast' = Append(Tail(bcast), b) /\ lagged' = TRUE /\ due' = due
                    \/ ~ sub /\ UNCHANGED <<bcast, lagged>> /\ due' = due \cup {"unsubscribed"}
<1>0. chan \in Seq(Rec) /\ bseq \in Nat /\ bcast \in Seq(Batch) /\ lagged \in BOOLEAN /\ sub \in BOOLEAN
  BY DEF IInv, Guest, Stream
<1>1. k \in 1 .. Len(chan)
  BY <1>0, SyncAssumption DEF Broadcast
<1>2. SubSeq(chan, 1, k) \in Seq(Rec) /\ SubSeq(chan, k + 1, Len(chan)) \in Seq(Rec)
  BY <1>0, <1>1, RecSplit
<1>3. PICK b \in Batch : b = [first |-> bseq, recs |-> SubSeq(chan, 1, k)] /\ b.recs = SubSeq(chan, 1, k)
  BY <1>0, <1>2, BatchFields
<1>4. /\ chan' = SubSeq(chan, k + 1, Len(chan))
      /\ UNCHANGED <<guest, kq, rfull, sub, jlane, starts, walks, blane, svars, hvars>>
  BY DEF Broadcast
<1>5. CASE ~ sub
  BY <1>1, <1>2, <1>3, <1>4, <1>5 DEF Broadcast
<1>6. CASE sub /\ ~(Len(bcast) >= BROADCAST_DEPTH)
  <2>1. bcast' = Append(bcast, b) /\ lagged' = lagged /\ due' = due
    BY <1>0, <1>3, <1>6 DEF Broadcast
  <2> QED
    BY <1>1, <1>2, <1>3, <1>4, <1>6, <2>1
<1>7. CASE sub /\ Len(bcast) >= BROADCAST_DEPTH
  <2>1. bcast' = Append(Tail(bcast), b) /\ lagged' = TRUE /\ due' = due
    BY <1>0, <1>3, <1>7 DEF Broadcast
  <2>2. bcast # <<>>
    BY <1>0, <1>7, SyncAssumption
  <2> QED
    BY <1>1, <1>2, <1>3, <1>4, <1>7, <2>1, <2>2
<1> QED
  BY <1>0, <1>5, <1>6, <1>7

\* journal_writer: a batch, or the sentinel for the lag.
LEMMA WriteEffect ==
    ASSUME IInv, WriteJournal
    PROVE  /\ sub /\ UNCHANGED <<gvars, sub, starts, walks, blane, svars, hvars, due>>
           /\ \/ lagged /\ lagged' = FALSE /\ jlane' = Append(jlane, Sentinel) /\ bcast' = bcast
              \/ /\ ~ lagged /\ lagged' = lagged /\ bcast # <<>> /\ jlane' = Append(jlane, Head(bcast)) /\ bcast' = Tail(bcast)
           /\ jlane' \in Seq(Batch) /\ bcast' \in Seq(Batch)
<1>0. bcast \in Seq(Batch) /\ jlane \in Seq(Batch) /\ lagged \in BOOLEAN
  BY DEF IInv, Stream
<1>1. CASE lagged
  BY <1>0, <1>1, BatchAppend, BatchFields DEF WriteJournal
<1>2. CASE ~ lagged
  <2>1. bcast # <<>> /\ jlane' = Append(jlane, Head(bcast)) /\ bcast' = Tail(bcast) /\ lagged' = lagged
    BY <1>2 DEF WriteJournal
  <2>2. Tail(bcast) \in Seq(Batch) /\ Head(bcast) \in Batch
    BY <1>0, <2>1, BatchTail
  <2>3. Append(jlane, Head(bcast)) \in Seq(Batch)
    BY <1>0, <2>2, BatchAppend
  <2> QED
    BY <1>2, <2>1, <2>2, <2>3 DEF WriteJournal
<1> QED
  BY <1>1, <1>2

\* on_journal: the first batch of the lane starts a resync, is buffered, or is taken.
LEMMA TakeEffect ==
    ASSUME IInv, TakeBatch
    PROVE  /\ jlane # <<>> /\ jrn = None /\ jlane' = Tail(jlane) /\ jlane' \in Seq(Batch) /\ Head(jlane) \in Batch
           /\ UNCHANGED <<gvars, sub, bcast, lagged, walks, blane, session, up, fin, live>>
           /\ \/ Head(jlane).recs = <<OVERFLOW>> /\ Resync /\ jrn' = jrn
              \/ /\ staging \in Stagings /\ staging # None /\ staging' = Buffered(staging, Head(jlane))
                 /\ UNCHANGED <<seq, starts, snaps, due, jrn>>
              \/ /\ staging = None /\ jrn' = [id |-> 1, b |-> Head(jlane), at |-> "pick"]
                 /\ UNCHANGED <<staging, seq, starts, snaps, due>>
<1>0. jlane \in Seq(Batch) /\ staging \in Stagings \cup {None}
  BY DEF IInv, Stream, Host
<1>1. /\ jlane # <<>> /\ jrn = None /\ jlane' = Tail(jlane)
      /\ UNCHANGED <<gvars, sub, bcast, lagged, walks, blane, session, up, fin, live>>
  BY DEF TakeBatch
<1>2. Tail(jlane) \in Seq(Batch) /\ Head(jlane) \in Batch
  BY <1>0, <1>1, BatchTail
<1>3. CASE Head(jlane) = Sentinel
  <2>1. Resync /\ jrn' = jrn
    BY <1>3 DEF TakeBatch
  <2> QED
    BY <1>1, <1>2, <1>3, <2>1, BatchFields
<1>4. CASE Head(jlane) # Sentinel /\ staging # None
  <2>1. staging' = Buffered(staging, Head(jlane)) /\ UNCHANGED <<seq, starts, snaps, due, jrn>>
    BY <1>4 DEF TakeBatch, Buffered
  <2> QED
    BY <1>0, <1>1, <1>2, <1>4, <2>1
<1>5. CASE Head(jlane) # Sentinel /\ staging = None
  <2>1. jrn' = [id |-> 1, b |-> Head(jlane), at |-> "pick"] /\ UNCHANGED <<staging, seq, starts, snaps, due>>
    BY <1>5 DEF TakeBatch
  <2> QED
    BY <1>1, <1>2, <1>5, <2>1
<1> QED
  BY <1>3, <1>4, <1>5

\* The lanes keep their types, and are empty before they are subscribed.
LEMMA StreamStep ==
    ASSUME IInv, [Next]_vars
    PROVE  Stream'
<1>0. /\ sub \in BOOLEAN /\ bcast \in Seq(Batch) /\ lagged \in BOOLEAN /\ jlane \in Seq(Batch) /\ up \in BOOLEAN
      /\ (~ sub => bcast = <<>> /\ jlane = <<>> /\ ~ lagged) /\ (sub => up)
  BY DEF IInv, Stream, Host
<1>1. ASSUME NEW k \in 1 .. MAX_RECORDS, Broadcast(k) PROVE Stream'
  <2>1. PICK b \in Batch :
                 /\ \/ sub /\ bcast' = Append(bcast, b) /\ lagged' = lagged
                    \/ sub /\ bcast # <<>> /\ bcast' = Append(Tail(bcast), b) /\ lagged' = TRUE
                    \/ ~ sub /\ UNCHANGED <<bcast, lagged>>
    BY <1>1, BroadcastEffect
  <2>2. UNCHANGED <<sub, jlane, up>>
    BY <1>1 DEF Broadcast, svars
  <2>3. \A q \in Seq(Batch) : Append(q, b) \in Seq(Batch)
    BY BatchAppend
  <2>4. bcast # <<>> => Tail(bcast) \in Seq(Batch)
    BY <1>0, BatchTail
  <2>5. bcast' \in Seq(Batch)
    BY <1>0, <2>1, <2>3, <2>4
  <2>6. lagged' \in BOOLEAN /\ (~ sub => UNCHANGED <<bcast, lagged>>)
    BY <1>0, <2>1
  <2>7. sub' \in BOOLEAN /\ jlane' \in Seq(Batch) /\ (sub' => up') /\ (~ sub' => bcast' = <<>> /\ jlane' = <<>> /\ ~ lagged')
    BY <1>0, <2>2, <2>6
  <2> QED
    BY <2>5, <2>6, <2>7 DEF Stream
<1>2. CASE WriteJournal
  <2>1. sub /\ jlane' \in Seq(Batch) /\ bcast' \in Seq(Batch) /\ lagged' \in BOOLEAN /\ UNCHANGED <<sub, up>>
    BY <1>0, <1>2, WriteEffect DEF svars
  <2> QED
    BY <1>0, <2>1 DEF Stream
<1>3. CASE Subscribe
  BY <1>0, <1>3 DEF Subscribe, Stream, svars
<1>4. CASE TakeBatch
  <2>1. jlane # <<>> /\ jlane' \in Seq(Batch) /\ UNCHANGED <<sub, bcast, lagged, up>>
    BY <1>4, TakeEffect
  <2> QED
    BY <1>0, <2>1 DEF Stream
<1>5. CASE Connect
  BY <1>0, <1>5 DEF Connect, Stream
<1>6. CASE EndSession
  <2>1. sub' = FALSE /\ bcast' = <<>> /\ lagged' = FALSE /\ jlane' = <<>> /\ <<>> \in Seq(Batch)
    BY <1>6 DEF EndSession
  <2> QED
    BY <2>1, Zenon DEF Stream
<1>7. CASE UNCHANGED <<sub, bcast, lagged, jlane, up>>
  BY <1>0, <1>7 DEF Stream
<1>8. CASE ~ UNCHANGED <<sub, bcast, lagged, jlane, up>>
  BY <1>1, <1>2, <1>3, <1>4, <1>5, <1>6, <1>8 DEF Next, System, Change, ReadEvent, SignalFull, StartWalk, EndWalk, ScanDir,
     PickReplica, ApplyBatch, TakeSnap, SwapReplica, SetSeq, vars, lvars, svars
<1> QED
  BY <1>7, <1>8

-----------------------------------------------------------------------------
(***************************************************************************)
(* Walks.                                                                  *)
(***************************************************************************)
\* The bulk lane: a message more, a message less.
LEMMA LaneAppend ==
    ASSUME NEW l \in Seq(Snap), NEW e \in Snap
    PROVE  /\ Append(l, e) \in Seq(Snap) /\ DOMAIN l = 1 .. Len(l) /\ Len(l) \in Nat
           /\ DOMAIN Append(l, e) = 1 .. Len(l) + 1
           /\ Append(l, e)[Len(l) + 1] = e /\ \A i \in DOMAIN l : Append(l, e)[i] = l[i] /\ i \in DOMAIN Append(l, e)
           /\ \A i \in DOMAIN Append(l, e) : i = Len(l) + 1 \/ (i \in DOMAIN l /\ Append(l, e)[i] = l[i])
OBVIOUS

\* The first message is taken.
LEMMA LaneTail ==
    ASSUME NEW l \in Seq(Snap), l # <<>>
    PROVE  /\ Tail(l) \in Seq(Snap) /\ Head(l) \in Snap /\ Head(l) = l[1] /\ 1 \in DOMAIN l
           /\ \A i \in DOMAIN Tail(l) : i \in Nat /\ i + 1 \in DOMAIN l /\ i + 1 > 1 /\ Tail(l)[i] = l[i + 1]
           /\ \A i \in DOMAIN l : i # 1 => i - 1 \in DOMAIN Tail(l) /\ Tail(l)[i - 1] = l[i]
OBVIOUS

\* A message is about a directory or says that the walk is over.
LEMMA SnapFields ==
    /\ \A e \in Snap : e.id \in Nat /\ e.v \in Changes /\ (e.d # "done" => e.d \in Dir)
    /\ \A i \in Nat, d \in Dir, v \in Changes :
          /\ [id |-> i, d |-> d, v |-> v] \in Snap /\ [id |-> i, d |-> d, v |-> v].id = i
          /\ [id |-> i, d |-> d, v |-> v].d = d /\ [id |-> i, d |-> d, v |-> v].v = v
    /\ \A i \in Nat : /\ [id |-> i, d |-> "done", v |-> 0] \in Snap /\ [id |-> i, d |-> "done", v |-> 0].id = i
                      /\ [id |-> i, d |-> "done", v |-> 0].d = "done"
    /\ "done" \notin Dir
BY SyncAssumption DEF Snap, Changes

\* scan_dir and the end of a walk: a message on the lane, a directory or a walk less.
LEMMA ScanEffect ==
    ASSUME IInv, NEW i \in DOMAIN walks, NEW d \in Dir, ScanDir(i, d)
    PROVE  /\ d \in walks[i] /\ i \in 1 .. snaps /\ UNCHANGED <<gvars, sub, bcast, lagged, jlane, starts, svars, hvars, due>>
           /\ walks' \in [DOMAIN walks -> SUBSET Dir] /\ walks'[i] = walks[i] \ {d}
           /\ \A k \in DOMAIN walks \ {i} : walks'[k] = walks[k]
           /\ \E e \in Snap : e.id = i /\ e.d = d /\ e.v = guest[d] /\ blane' = Append(blane, e)
<1>0. walks \in [DOMAIN walks -> SUBSET Dir] /\ i \in 1 .. snaps /\ i \in Nat /\ guest \in [Dir -> Changes]
  BY DEF IInv, Walks, Guest
<1>1. d \in walks[i] /\ walks' = [walks EXCEPT ![i] = walks[i] \ {d}]
      /\ UNCHANGED <<gvars, sub, bcast, lagged, jlane, starts, svars, hvars, due>>
      /\ blane' = Append(blane, [id |-> i, d |-> d, v |-> guest[d]])
  BY DEF ScanDir
<1>2. walks' \in [DOMAIN walks -> SUBSET Dir] /\ walks'[i] = walks[i] \ {d} /\ \A k \in DOMAIN walks \ {i} : walks'[k] = walks[k]
  BY <1>0, <1>1
<1>3. PICK e \in Snap : e = [id |-> i, d |-> d, v |-> guest[d]] /\ e.id = i /\ e.d = d /\ e.v = guest[d]
  <2>1. PICK v \in Changes : v = guest[d]
    BY <1>0
  <2>2. [id |-> i, d |-> d, v |-> v] \in Snap
    BY <1>0, SnapFields
  <2> QED
    BY <2>1, <2>2
<1> QED
  BY <1>0, <1>1, <1>2, <1>3

\* SnapDone.
LEMMA EndEffect ==
    ASSUME IInv, NEW i \in DOMAIN walks, EndWalk(i)
    PROVE  /\ walks[i] = {} /\ i \in 1 .. snaps /\ UNCHANGED <<gvars, sub, bcast, lagged, jlane, starts, svars, hvars, due>>
           /\ walks' \in [DOMAIN walks \ {i} -> SUBSET Dir] /\ \A k \in DOMAIN walks \ {i} : walks'[k] = walks[k]
           /\ \E e \in Snap : e.id = i /\ e.d = "done" /\ blane' = Append(blane, e)
<1>0. walks \in [DOMAIN walks -> SUBSET Dir] /\ i \in 1 .. snaps /\ i \in Nat
  BY DEF IInv, Walks
<1>1. walks[i] = {} /\ walks' = [k \in DOMAIN walks \ {i} |-> walks[k]]
      /\ UNCHANGED <<gvars, sub, bcast, lagged, jlane, starts, svars, hvars, due>>
      /\ blane' = Append(blane, [id |-> i, d |-> "done", v |-> 0])
  BY DEF EndWalk
<1>2. walks' \in [DOMAIN walks \ {i} -> SUBSET Dir] /\ \A k \in DOMAIN walks \ {i} : walks'[k] = walks[k]
  BY <1>0, <1>1
<1>3. PICK e \in Snap : e = [id |-> i, d |-> "done", v |-> 0] /\ e.id = i /\ e.d = "done"
  BY <1>0, SnapFields, ZenonT(60)
<1> QED
  BY <1>0, <1>1, <1>2, <1>3

\* A walk begins with every directory left.
LEMMA StartEffect ==
    ASSUME IInv, NEW i \in starts, StartWalk(i)
    PROVE  /\ i \in 1 .. snaps /\ i \notin DOMAIN walks /\ starts' = starts \ {i}
           /\ walks' \in [DOMAIN walks \cup {i} -> SUBSET Dir] /\ walks'[i] = Dir
           /\ \A k \in DOMAIN walks : walks'[k] = walks[k]
           /\ UNCHANGED <<gvars, sub, bcast, lagged, jlane, blane, svars, hvars, due>>
<1>0. walks \in [DOMAIN walks -> SUBSET Dir] /\ i \in 1 .. snaps /\ i \notin DOMAIN walks
  BY DEF IInv, Walks
<1>1. starts' = starts \ {i} /\ walks' = [k \in DOMAIN walks \cup {i} |-> IF k = i THEN Dir ELSE walks[k]]
      /\ UNCHANGED <<gvars, sub, bcast, lagged, jlane, blane, svars, hvars, due>>
  BY DEF StartWalk
<1> QED
  BY <1>0, <1>1

\* The first message of the bulk lane is taken, and nothing of the walks changes.
LEMMA TakeSnapEffect ==
    ASSUME IInv, TakeSnap
    PROVE  /\ blane # <<>> /\ fin = None /\ blane' = Tail(blane)
           /\ UNCHANGED <<gvars, sub, bcast, lagged, jlane, starts, walks, svars, seq, jrn, live, due>>
           /\ \/ (staging = None \/ staging.id # Head(blane).id) /\ UNCHANGED <<staging, fin>>
              \/ /\ staging \in Stagings /\ staging.id = Head(blane).id /\ Head(blane).d = "done"
                 /\ staging' = None /\ fin' = Over(staging)
              \/ /\ staging \in Stagings /\ staging.id = Head(blane).id /\ Head(blane).d \in Dir /\ Head(blane).v \in Changes
                 /\ staging' = Entered(staging, Head(blane).d, Head(blane).v) /\ fin' = fin
<1>0. blane \in Seq(Snap) /\ staging \in Stagings \cup {None}
  BY DEF IInv, Walks, Host
<1>1. /\ blane # <<>> /\ fin = None /\ blane' = Tail(blane)
      /\ UNCHANGED <<gvars, sub, bcast, lagged, jlane, starts, walks, svars, seq, jrn, live, due>>
  BY DEF TakeSnap
<1>2. Head(blane).v \in Changes /\ (Head(blane).d # "done" => Head(blane).d \in Dir)
  BY <1>0, <1>1, LaneTail, SnapFields
<1>3. CASE staging = None \/ staging.id # Head(blane).id
  BY <1>1, <1>3 DEF TakeSnap
<1>4. CASE ~(staging = None \/ staging.id # Head(blane).id) /\ Head(blane).d = "done"
  <2>1. staging' = None /\ fin' = Over(staging)
    BY <1>4 DEF TakeSnap, Over
  <2> QED
    BY <1>0, <1>1, <1>4, <2>1
<1>5. CASE ~(staging = None \/ staging.id # Head(blane).id) /\ Head(blane).d # "done"
  <2>1. staging' = Entered(staging, Head(blane).d, Head(blane).v) /\ fin' = fin
    BY <1>5 DEF TakeSnap, Entered
  <2> QED
    BY <1>0, <1>1, <1>2, <1>5, <2>1
<1> QED
  BY <1>3, <1>4, <1>5

\* What a step does to the walks: a resync asks for one, the other kinds are those above.
LEMMA WalkKinds ==
    ASSUME [Next]_vars
    PROVE  \/ \E i \in starts : StartWalk(i)
           \/ \E i \in DOMAIN walks : EndWalk(i) \/ \E d \in Dir : ScanDir(i, d)
           \/ TakeSnap
           \/ EndSession
           \/ Resync /\ UNCHANGED <<walks, blane>>
           \/ UNCHANGED <<snaps, starts, walks, blane>>
<1>1. TakeBatch => (Resync /\ UNCHANGED <<walks, blane>>) \/ UNCHANGED <<snaps, starts, walks, blane>>
  BY DEF TakeBatch
<1>2. ApplyBatch => (Resync /\ UNCHANGED <<walks, blane>>) \/ UNCHANGED <<snaps, starts, walks, blane>>
  BY DEF ApplyBatch
<1>3. Connect => Resync /\ UNCHANGED <<walks, blane>>
  BY DEF Connect
<1>4. \A d \in Dir : Change(d) => UNCHANGED <<snaps, starts, walks, blane>>
  BY DEF Change, lvars, svars
<1>5. \A k \in 1 .. MAX_RECORDS : Broadcast(k) => UNCHANGED <<snaps, starts, walks, blane>>
  BY DEF Broadcast, svars
<1>6. ReadEvent \/ SignalFull \/ Subscribe \/ WriteJournal \/ PickReplica \/ SwapReplica \/ SetSeq \/ UNCHANGED vars
      => UNCHANGED <<snaps, starts, walks, blane>>
  BY DEF ReadEvent, SignalFull, Subscribe, WriteJournal, PickReplica, SwapReplica, SetSeq, vars, lvars, svars
<1> QED
  BY <1>1, <1>2, <1>3, <1>4, <1>5, <1>6 DEF Next, System

\* Walks keep their types; a walk that has ended or not begun is not on the lane, a
\* directory is there once, and SnapDone comes last.
LEMMA WalksStep ==
    ASSUME IInv, [Next]_vars
    PROVE  Walks' /\ Scanned' /\ Ordered'
<1>0. /\ snaps \in Nat /\ starts \subseteq 1 .. snaps /\ blane \in Seq(Snap)
      /\ walks \in [DOMAIN walks -> SUBSET Dir] /\ DOMAIN walks \subseteq 1 .. snaps /\ starts \cap DOMAIN walks = {}
  BY DEF IInv, Walks
<1>1. \A k \in DOMAIN blane :
        /\ blane[k].id \in 1 .. snaps /\ blane[k].id \notin starts
        /\ blane[k].id \in DOMAIN walks => blane[k].d # "done" /\ blane[k].d \notin walks[blane[k].id]
  BY DEF IInv, Scanned
<1>2. \A a, b \in DOMAIN blane :
        a < b /\ blane[a].id = blane[b].id => blane[a].d # "done" /\ blane[a].d # blane[b].d
  BY DEF IInv, Ordered
<1>3. ASSUME NEW i \in starts, StartWalk(i) PROVE Walks' /\ Scanned' /\ Ordered'
  <2>1. /\ i \in 1 .. snaps /\ i \notin DOMAIN walks /\ starts' = starts \ {i}
        /\ walks' \in [DOMAIN walks \cup {i} -> SUBSET Dir] /\ (\A k \in DOMAIN walks : walks'[k] = walks[k])
        /\ UNCHANGED <<blane, snaps>>
    BY <1>3, StartEffect DEF svars
  <2>2. Walks'
    BY <1>0, <2>1 DEF Walks
  <2>3. Scanned'
    BY <1>1, <2>1 DEF Scanned
  <2>4. Ordered'
    BY <1>2, <2>1 DEF Ordered
  <2> QED
    BY <2>2, <2>3, <2>4
<1>4. ASSUME NEW i \in DOMAIN walks, NEW e \in Snap, e.id = i, e.d \in walks[i] \/ (e.d = "done" /\ walks[i] = {}),
             blane' = Append(blane, e), UNCHANGED <<starts, snaps>>,
             walks' \in [DOMAIN walks' -> SUBSET Dir], DOMAIN walks' \subseteq DOMAIN walks,
             \A k \in DOMAIN walks' : walks'[k] \subseteq walks[k],
             i \in DOMAIN walks' => e.d \in Dir /\ e.d \notin walks'[i]
      PROVE  Walks' /\ Scanned' /\ Ordered'
  <2>1. PICK l \in Seq(Snap) :
              /\ l = blane' /\ DOMAIN l = 1 .. Len(blane) + 1 /\ l[Len(blane) + 1] = e
              /\ \A k \in DOMAIN l : k = Len(blane) + 1 \/ (k \in DOMAIN blane /\ l[k] = blane[k])
    <3> DEFINE m == Append(blane, e)
    <3>1. /\ m \in Seq(Snap) /\ DOMAIN m = 1 .. Len(blane) + 1 /\ m[Len(blane) + 1] = e
          /\ \A k \in DOMAIN m : k = Len(blane) + 1 \/ (k \in DOMAIN blane /\ m[k] = blane[k])
      BY <1>0, LaneAppend
    <3>2. m = blane'
      BY <1>4
    <3> HIDE DEF m
    <3> QED
      BY <3>1, <3>2
  <2>2. Walks'
    BY <1>0, <1>4, <2>1 DEF Walks
  <2>3. ASSUME NEW k \in DOMAIN l
        PROVE /\ l[k].id \in 1 .. snaps /\ l[k].id \notin starts
              /\ l[k].id \in DOMAIN walks' => l[k].d # "done" /\ l[k].d \notin walks'[l[k].id]
    <3>1. CASE k = Len(blane) + 1
      BY <1>0, <1>4, <2>1, <3>1, SnapFields
    <3>2. CASE k \in DOMAIN blane /\ l[k] = blane[k]
      <4>1. l[k].id \in DOMAIN walks' => l[k].d # "done" /\ l[k].d \notin walks[l[k].id]
        BY <1>1, <1>4, <3>2
      <4> QED
        BY <1>1, <1>4, <3>2, <4>1
    <3> QED
      BY <2>1, <3>1, <3>2
  <2>4. Scanned'
    BY <1>4, <2>1, <2>3 DEF Scanned
  <2>5. ASSUME NEW a \in DOMAIN l, NEW b \in DOMAIN l, a < b, l[a].id = l[b].id
        PROVE  l[a].d # "done" /\ l[a].d # l[b].d
    <3>0. Len(blane) \in Nat /\ DOMAIN blane = 1 .. Len(blane)
      BY <1>0
    <3>1. a \in DOMAIN blane /\ l[a] = blane[a]
      BY <2>1, <2>5, <3>0
    <3>2. CASE b = Len(blane) + 1
      <4>1. blane[a].id \in DOMAIN walks /\ blane[a].id = i /\ l[b] = e
        BY <1>4, <2>1, <2>5, <3>1, <3>2
      <4>2. blane[a].d # "done" /\ blane[a].d \notin walks[i]
        BY <1>1, <3>1, <4>1
      <4> QED
        BY <1>4, <3>1, <4>1, <4>2
    <3>3. CASE b \in DOMAIN blane /\ l[b] = blane[b]
      BY <1>2, <2>5, <3>1, <3>3
    <3> QED
      BY <2>1, <3>2, <3>3
  <2>6. Ordered'
    BY <2>1, <2>5 DEF Ordered
  <2> QED
    BY <2>2, <2>4, <2>6
<1>5. ASSUME NEW i \in DOMAIN walks, NEW d \in Dir, ScanDir(i, d) PROVE Walks' /\ Scanned' /\ Ordered'
  <2>1. /\ d \in walks[i] /\ walks' \in [DOMAIN walks -> SUBSET Dir] /\ walks'[i] = walks[i] \ {d}
        /\ \A k \in DOMAIN walks \ {i} : walks'[k] = walks[k]
        /\ UNCHANGED <<starts, snaps>>
    BY <1>5, ScanEffect DEF svars
  <2>2. PICK e \in Snap : e.id = i /\ e.d = d /\ blane' = Append(blane, e)
    BY <1>5, ScanEffect
  <2>3. DOMAIN walks' = DOMAIN walks /\ walks' \in [DOMAIN walks' -> SUBSET Dir]
    BY <2>1
  <2>4. \A k \in DOMAIN walks' : walks'[k] \subseteq walks[k]
    BY <2>1, <2>3
  <2>5. e.d \in Dir /\ e.d \notin walks'[i] /\ e.d \in walks[i]
    BY <2>1, <2>2
  <2> QED
    BY <1>4, <2>1, <2>2, <2>3, <2>4, <2>5
<1>6. ASSUME NEW i \in DOMAIN walks, EndWalk(i) PROVE Walks' /\ Scanned' /\ Ordered'
  <2>1. /\ walks[i] = {} /\ walks' \in [DOMAIN walks \ {i} -> SUBSET Dir] /\ \A k \in DOMAIN walks \ {i} : walks'[k] = walks[k]
        /\ UNCHANGED <<starts, snaps>>
    BY <1>6, EndEffect DEF svars
  <2>2. PICK e \in Snap : e.id = i /\ e.d = "done" /\ blane' = Append(blane, e)
    BY <1>6, EndEffect
  <2>3. DOMAIN walks' = DOMAIN walks \ {i} /\ walks' \in [DOMAIN walks' -> SUBSET Dir]
    BY <2>1
  <2>4. \A k \in DOMAIN walks' : walks'[k] \subseteq walks[k]
    BY <2>1, <2>3
  <2> QED
    BY <1>4, <2>1, <2>2, <2>3, <2>4
<1>7. CASE TakeSnap
  <2>1. blane # <<>> /\ blane' = Tail(blane) /\ UNCHANGED <<starts, walks, snaps>>
    BY <1>7, TakeSnapEffect DEF svars
  <2>2. PICK l \in Seq(Snap) : l = blane' /\ \A k \in DOMAIN l : k \in Nat /\ k + 1 \in DOMAIN blane /\ l[k] = blane[k + 1]
    <3> DEFINE m == Tail(blane)
    <3>1. m \in Seq(Snap) /\ \A k \in DOMAIN m : k \in Nat /\ k + 1 \in DOMAIN blane /\ m[k] = blane[k + 1]
      BY <1>0, <2>1, LaneTail
    <3>2. m = blane'
      BY <2>1
    <3> HIDE DEF m
    <3> QED
      BY <3>1, <3>2
  <2>3. Walks'
    BY <1>0, <2>1, <2>2 DEF Walks
  <2>4. Scanned'
    BY <1>1, <2>1, <2>2 DEF Scanned
  <2>5. ASSUME NEW a \in DOMAIN l, NEW b \in DOMAIN l, a < b, l[a].id = l[b].id
        PROVE  l[a].d # "done" /\ l[a].d # l[b].d
    <3>1. a + 1 \in DOMAIN blane /\ b + 1 \in DOMAIN blane /\ a + 1 < b + 1 /\ l[a] = blane[a + 1] /\ l[b] = blane[b + 1]
      BY <2>2, <2>5
    <3> QED
      BY <1>2, <2>5, <3>1
  <2>6. Ordered'
    BY <2>2, <2>5 DEF Ordered
  <2> QED
    BY <2>3, <2>4, <2>6
<1>8. CASE EndSession
  <2>1. starts' = {} /\ walks' = <<>> /\ blane' = <<>> /\ snaps' = snaps
    BY <1>8 DEF EndSession
  <2>2. DOMAIN walks' = {} /\ walks' \in [DOMAIN walks' -> SUBSET Dir] /\ DOMAIN blane' = {} /\ blane' \in Seq(Snap)
    BY <2>1
  <2> QED
    BY <1>0, <2>1, <2>2 DEF Walks, Scanned, Ordered
<1>9. CASE Resync /\ UNCHANGED <<walks, blane>>
  <2>1. snaps' = snaps + 1 /\ starts' = starts \cup {snaps + 1} /\ UNCHANGED <<walks, blane>>
    BY <1>9 DEF Resync
  <2>2. snaps + 1 \notin 1 .. snaps /\ 1 .. snaps \subseteq 1 .. snaps' /\ snaps' \in Nat /\ snaps + 1 \in 1 .. snaps'
    BY <1>0, <2>1
  <2>3. Walks'
    BY <1>0, <2>1, <2>2 DEF Walks
  <2>4. Scanned'
    BY <1>1, <2>1, <2>2 DEF Scanned
  <2>5. Ordered'
    BY <1>2, <2>1 DEF Ordered
  <2> QED
    BY <2>3, <2>4, <2>5
<1>10. CASE UNCHANGED <<snaps, starts, walks, blane>>
  BY <1>0, <1>1, <1>2, <1>10 DEF Walks, Scanned, Ordered
<1> QED
  BY <1>3, <1>5, <1>6, <1>7, <1>8, <1>9, <1>10, WalkKinds

-----------------------------------------------------------------------------
(***************************************************************************)
(* The host.                                                               *)
(***************************************************************************)
\* on_journal, its last part: a resync; a batch that is lost, and noted; or one that
\* the replica gets, without an Overflow.
LEMMA ApplyEffect ==
    ASSUME IInv, ApplyBatch
    PROVE  /\ jrn \in Jrns /\ jrn # None /\ jrn' = None /\ staging = None
           /\ UNCHANGED <<gvars, sub, bcast, lagged, jlane, walks, blane, session, up, fin>>
           /\ live' = live \/ live' = [live EXCEPT !.view = ApplyRecs(live.view, jrn.b.recs)]
           /\ \/ Resync
              \/ due' = due \cup {"seed"} /\ seq' \in Nat \cup {NoSeq} /\ UNCHANGED <<staging, starts, snaps>>
              \/ /\ due' = due /\ seq' \in Nat /\ UNCHANGED <<staging, starts, snaps>>
                 /\ jrn.at = "apply" /\ ~ SwapPending /\ (\A i \in DOMAIN jrn.b.recs : jrn.b.recs[i] # OVERFLOW)
                 /\ live' = [live EXCEPT !.view = ApplyRecs(live.view, jrn.b.recs)]
<1>0. seq \in Nat \cup {SEQ_ADOPT, NoSeq} /\ jrn \in Jrns \cup {None} /\ (jrn # None => staging = None)
  BY DEF IInv, Host
<1>1. /\ jrn # None /\ jrn.at \in {"apply", "replaced"} /\ jrn' = None
      /\ UNCHANGED <<gvars, sub, bcast, lagged, jlane, walks, blane, session, up, fin>>
  BY DEF ApplyBatch
<1>2. jrn \in Jrns /\ jrn.b \in Batch
  BY <1>0, <1>1, JrnFields
<1>3. End(jrn.b) \in Nat
  <2>1. jrn.b.first \in Nat /\ Len(jrn.b.recs) \in Nat
    BY <1>2, BatchFields
  <2> QED
    BY <2>1 DEF End
<1> DEFINE fits == seq = SEQ_ADOPT \/ jrn.b.first = seq
           gap == seq # NoSeq /\ ~ fits
           overflow == seq # NoSeq /\ fits /\ \E i \in DOMAIN jrn.b.recs : jrn.b.recs[i] = OVERFLOW
<1>4. live' = IF seq # NoSeq /\ fits /\ jrn.at = "apply" THEN [live EXCEPT !.view = ApplyRecs(live.view, jrn.b.recs)] ELSE live
  BY DEF ApplyBatch
<1>5. CASE gap \/ overflow
  <2>1. Resync
    BY <1>5 DEF ApplyBatch
  <2> HIDE DEF fits, gap, overflow
  <2> QED
    BY <1>0, <1>1, <1>2, <1>4, <2>1
<1>6. CASE ~(gap \/ overflow)
  <2>1. /\ seq' = IF seq = NoSeq THEN seq ELSE End(jrn.b)
        /\ due' = IF seq = NoSeq \/ jrn.at = "replaced" \/ SwapPending THEN due \cup {"seed"} ELSE due
        /\ UNCHANGED <<staging, starts, snaps>>
    BY <1>6 DEF ApplyBatch
  <2>2. CASE seq = NoSeq \/ jrn.at = "replaced" \/ SwapPending
    <3>1. due' = due \cup {"seed"} /\ seq' \in Nat \cup {NoSeq} /\ UNCHANGED <<staging, starts, snaps>>
      BY <1>3, <2>1, <2>2
    <3> HIDE DEF fits, gap, overflow
    <3> QED
      BY <1>0, <1>1, <1>2, <1>4, <3>1
  <2>3. CASE ~(seq = NoSeq \/ jrn.at = "replaced" \/ SwapPending)
    <3>1. due' = due /\ seq' \in Nat /\ UNCHANGED <<staging, starts, snaps>> /\ jrn.at = "apply" /\ ~ SwapPending
      BY <1>1, <1>3, <2>1, <2>3
    <3>2. fits /\ \A i \in DOMAIN jrn.b.recs : jrn.b.recs[i] # OVERFLOW
      BY <1>6, <2>3
    <3>3. live' = [live EXCEPT !.view = ApplyRecs(live.view, jrn.b.recs)]
      BY <1>4, <2>3, <3>1, <3>2
    <3> QED
      BY <1>0, <1>1, <1>2, <3>1, <3>2, <3>3
  <2> QED
    BY <2>2, <2>3
<1> QED
  BY <1>5, <1>6

\* finish_seed replaces the replica.
LEMMA SwapEffect ==
    ASSUME IInv, SwapReplica
    PROVE  /\ SwapPending /\ fin \in Fins /\ fin.at = "swap" /\ fin' \in Fins /\ fin'.at = "seq" /\ fin'.view = fin.view
           /\ UNCHANGED <<gvars, lvars, svars, staging, seq>>
           /\ live' \in Lives /\ live'.view = Replay(fin.view, fin.buf)
           /\ (jrn # None => jrn \in Jrns) /\ (jrn' = None <=> jrn = None)
           /\ jrn # None => /\ jrn' \in Jrns /\ jrn'.b = jrn.b
                            /\ jrn.at = "apply" => jrn'.at = "replaced"
                            /\ jrn.at # "apply" => jrn' = jrn
           /\ due' = IF Overflowed(fin.buf) THEN due \cup {"overflow"} ELSE due
<1>0. fin \in Fins \cup {None} /\ jrn \in Jrns \cup {None}
  BY DEF IInv, Host
<1>1. /\ SwapPending /\ live' = [state |-> "Live", view |-> Replay(fin.view, fin.buf)] /\ fin' = [fin EXCEPT !.at = "seq"]
      /\ jrn' = (IF jrn # None /\ jrn.at = "apply" THEN [jrn EXCEPT !.at = "replaced"] ELSE jrn)
      /\ due' = (IF Overflowed(fin.buf) THEN due \cup {"overflow"} ELSE due)
      /\ UNCHANGED <<gvars, lvars, svars, staging, seq>>
  BY DEF SwapReplica
<1>2. fin \in Fins /\ fin.at = "swap"
  BY <1>0, <1>1 DEF SwapPending
<1>3. fin' \in Fins /\ fin'.at = "seq" /\ fin'.view = fin.view
  BY <1>1, <1>2, FinFields
<1>4. live' \in Lives /\ live'.view = Replay(fin.view, fin.buf)
  <2>1. PICK w \in View : w = Replay(fin.view, fin.buf)
    BY <1>2, FinFields, ReplayType
  <2>2. live' = [state |-> "Live", view |-> w]
    BY <1>1, <2>1
  <2> QED
    BY <2>1, <2>2 DEF Lives
<1>5. CASE jrn = None
  BY <1>1, <1>2, <1>3, <1>4, <1>5
<1>6. CASE jrn # None /\ jrn.at # "apply"
  BY <1>0, <1>1, <1>2, <1>3, <1>4, <1>6
<1>7. CASE jrn # None /\ jrn.at = "apply"
  <2>1. jrn \in Jrns /\ jrn' = [jrn EXCEPT !.at = "replaced"]
    BY <1>0, <1>1, <1>7
  <2>2. jrn' \in Jrns /\ jrn'.b = jrn.b /\ jrn'.at = "replaced" /\ jrn' # None
    BY <2>1, JrnFields
  <2> QED
    BY <1>1, <1>2, <1>3, <1>4, <1>7, <2>1, <2>2
<1> QED
  BY <1>5, <1>6, <1>7

\* on_journal picks the replica.
LEMMA PickEffect ==
    ASSUME IInv, PickReplica
    PROVE  /\ jrn \in Jrns /\ jrn # None /\ jrn.at = "pick" /\ UNCHANGED <<gvars, lvars, svars, staging, seq, fin, live>>
           /\ \/ jrn' \in Jrns /\ jrn' # None /\ jrn'.at = "apply" /\ jrn'.b = jrn.b /\ due' = due
              \/ jrn' = None /\ due' = due \cup {"seed"}
<1>0. jrn \in Jrns \cup {None}
  BY DEF IInv, Host
<1>1. jrn # None /\ jrn.at = "pick" /\ UNCHANGED <<gvars, lvars, svars, staging, seq, fin, live>>
  BY DEF PickReplica
<1>2. (jrn' = [jrn EXCEPT !.at = "apply"] /\ due' = due) \/ (jrn' = None /\ due' = due \cup {"seed"})
  BY DEF PickReplica
<1>3. [jrn EXCEPT !.at = "apply"] \in Jrns /\ [jrn EXCEPT !.at = "apply"].at = "apply" /\ [jrn EXCEPT !.at = "apply"].b = jrn.b
      /\ [jrn EXCEPT !.at = "apply"] # None
  BY <1>0, <1>1, JrnFields
<1> QED
  BY <1>0, <1>1, <1>2, <1>3

\* Types of the host; it takes a batch only when nothing is staging.
LEMMA HostStep ==
    ASSUME IInv, [Next]_vars
    PROVE  Host'
<1>0. /\ session \in 0 .. MaxSession /\ up \in BOOLEAN /\ seq \in Nat \cup {SEQ_ADOPT, NoSeq} /\ snaps \in Nat
      /\ staging \in Stagings \cup {None} /\ fin \in Fins \cup {None} /\ jrn \in Jrns \cup {None} /\ live \in Lives
      /\ (staging # None => staging.id <= snaps) /\ (jrn # None => staging = None)
      /\ (~ up => staging = None /\ fin = None /\ jrn = None)
      /\ due \subseteq Lasting \cup {"overflow", "unsubscribed", "seed"}
      /\ (sub => up) /\ (~ sub => jlane = <<>>) /\ MaxSession \in Nat /\ sub \in BOOLEAN
  BY SyncAssumption DEF IInv, Host, Walks, Stream
<1>1. ASSUME Resync, UNCHANGED fin, jrn' = None, up' = TRUE, session' \in 0 .. MaxSession, live' \in Lives PROVE Host'
  <2>1. /\ staging' \in Stagings /\ staging'.id = snaps + 1 /\ snaps' = snaps + 1 /\ staging' # None
        /\ seq' = NoSeq /\ due' = due \cap Lasting
    BY <1>1, ResyncEffect
  <2>2. staging'.id <= snaps'
    BY <1>0, <2>1
  <2> QED
    BY <1>0, <1>1, <2>1, <2>2 DEF Host
<1>2. CASE TakeBatch
  <2>1. /\ jlane # <<>> /\ jrn = None /\ Head(jlane) \in Batch /\ UNCHANGED <<session, up, fin, live>>
    BY <1>2, TakeEffect
  <2>2. up = TRUE
    BY <1>0, <2>1
  <2>3. CASE Resync /\ jrn' = jrn
    BY <1>0, <1>1, <2>1, <2>2, <2>3
  <2>4. CASE staging \in Stagings /\ staging # None /\ staging' = Buffered(staging, Head(jlane)) /\ UNCHANGED <<seq, snaps, due, jrn>>
    <3>1. staging' \in Stagings /\ staging'.id = staging.id /\ staging' # None
      BY <2>1, <2>4, StagingFields
    <3> QED
      BY <1>0, <2>1, <2>2, <2>4, <3>1 DEF Host
  <2>5. CASE staging = None /\ jrn' = [id |-> 1, b |-> Head(jlane), at |-> "pick"] /\ UNCHANGED <<staging, seq, snaps, due>>
    <3>1. jrn' \in Jrns /\ jrn' # None
      BY <2>1, <2>5, JrnFields
    <3> QED
      BY <1>0, <2>1, <2>2, <2>5, <3>1 DEF Host
  <2> QED
    BY <1>2, <2>3, <2>4, <2>5, TakeEffect
<1>3. CASE ApplyBatch
  <2>1. /\ jrn \in Jrns /\ jrn # None /\ jrn' = None /\ staging = None /\ UNCHANGED <<session, up, fin>>
        /\ live' = live \/ live' = [live EXCEPT !.view = ApplyRecs(live.view, jrn.b.recs)]
    BY <1>3, ApplyEffect
  <2>2. live' \in Lives
    <3>1. jrn.b.recs \in Seq(Rec)
      BY <2>1, JrnFields, BatchFields
    <3>2. live.view \in View
      BY <1>0 DEF Lives
    <3>3. PICK w \in View : w = ApplyRecs(live.view, jrn.b.recs)
      BY <3>1, <3>2, ApplyRecsType
    <3>4. [live EXCEPT !.view = w] \in Lives
      BY <1>0, LiveFields
    <3> QED
      BY <1>0, <2>1, <3>3, <3>4
  <2>3. up = TRUE
    BY <1>0, <2>1
  <2>4. CASE Resync
    BY <1>0, <1>1, <2>1, <2>2, <2>3, <2>4
  <2>5. CASE seq' \in Nat \cup {NoSeq} /\ due' \subseteq due \cup {"seed"} /\ UNCHANGED <<staging, snaps>>
    BY <1>0, <2>1, <2>2, <2>3, <2>5 DEF Host
  <2> QED
    BY <1>3, <2>4, <2>5, ApplyEffect
<1>4. CASE Connect
  <2>1. Resync /\ UNCHANGED <<fin, jrn, live>> /\ ~ up /\ up' = TRUE /\ session' = session + 1 /\ session < MaxSession
    BY <1>4 DEF Connect
  <2>2. session' \in 0 .. MaxSession
    BY <1>0, <2>1
  <2> QED
    BY <1>0, <1>1, <2>1, <2>2
<1>5. CASE PickReplica
  <2>1. /\ jrn # None /\ UNCHANGED <<session, up, snaps, staging, seq, fin, live>>
        /\ jrn' \in Jrns \cup {None} /\ due' \subseteq due \cup {"seed"}
    BY <1>5, PickEffect DEF svars
  <2> QED
    BY <1>0, <2>1 DEF Host
<1>6. CASE TakeSnap
  <2>1. blane # <<>> /\ fin = None /\ UNCHANGED <<session, up, snaps, seq, jrn, live, due>>
    BY <1>6, TakeSnapEffect DEF svars
  <2>2. CASE UNCHANGED <<staging, fin>>
    BY <1>0, <2>1, <2>2 DEF Host
  <2>3. CASE staging \in Stagings /\ staging' = None /\ fin' = Over(staging)
    <3>1. fin' \in Fins /\ staging # None
      BY <2>3, StagingFields
    <3> QED
      BY <1>0, <2>1, <2>3, <3>1 DEF Host
  <2>4. CASE staging \in Stagings /\ Head(blane).d \in Dir /\ Head(blane).v \in Changes
             /\ staging' = Entered(staging, Head(blane).d, Head(blane).v) /\ fin' = fin
    <3>1. staging' \in Stagings /\ staging'.id = staging.id /\ staging # None
      BY <2>4, StagingFields
    <3> QED
      BY <1>0, <2>1, <2>4, <3>1 DEF Host
  <2> QED
    BY <1>6, <2>2, <2>3, <2>4, TakeSnapEffect
<1>7. CASE SwapReplica
  <2>1. /\ fin \in Fins /\ fin' \in Fins /\ UNCHANGED <<session, up, snaps, staging, seq>> /\ live' \in Lives
        /\ (jrn' = None <=> jrn = None) /\ (jrn # None => jrn' \in Jrns) /\ due' \subseteq due \cup {"overflow"}
    BY <1>7, SwapEffect DEF svars
  <2>2. fin # None
    BY <2>1, FinFields
  <2> QED
    BY <1>0, <2>1, <2>2 DEF Host
<1>8. CASE SetSeq
  <2>1. fin # None /\ seq' = (IF fin.buf = <<>> THEN SEQ_ADOPT ELSE End(fin.buf[Len(fin.buf)])) /\ fin' = None
        /\ UNCHANGED <<session, up, snaps, staging, jrn, live, due>>
    BY <1>8 DEF SetSeq, svars
  <2>2. seq' \in Nat \cup {SEQ_ADOPT}
    <3>1. CASE fin.buf = <<>>
      BY <2>1, <3>1
    <3>2. CASE fin.buf # <<>>
      <4>1. PICK q \in Seq(Batch) : q = fin.buf
        BY <1>0, <2>1, FinFields
      <4>2. PICK b \in Batch : b = q[Len(q)]
        BY <3>2, <4>1
      <4>3. b.first \in Nat /\ Len(b.recs) \in Nat
        BY BatchFields
      <4>4. seq' = b.first + Len(b.recs)
        BY <2>1, <3>2, <4>1, <4>2 DEF End
      <4> QED
        BY <4>3, <4>4
    <3> QED
      BY <3>1, <3>2
  <2> QED
    BY <1>0, <2>1, <2>2 DEF Host
<1>9. CASE EndSession
  <2>1. fin = None /\ jrn = None /\ up' = FALSE /\ staging' = None /\ seq' = NoSeq /\ UNCHANGED <<session, snaps, fin, jrn, live, due>>
    BY <1>9 DEF EndSession
  <2> QED
    BY <1>0, <2>1 DEF Host
<1>10. CASE UNCHANGED <<session, up, snaps, hvars>> /\ due' \subseteq due \cup {"kernel", "channel", "unsubscribed"}
  BY <1>0, <1>10 DEF Host, hvars, Lasting
<1>11. \A d \in Dir : Change(d) => UNCHANGED <<session, up, snaps, hvars>> /\ due' \subseteq due \cup {"kernel", "channel", "unsubscribed"}
  BY DEF Change, svars
<1>12. \A k \in 1 .. MAX_RECORDS : Broadcast(k) => UNCHANGED <<session, up, snaps, hvars>> /\ due' \subseteq due \cup {"kernel", "channel", "unsubscribed"}
  BY DEF Broadcast, svars
<1>13. \A i : (StartWalk(i) \/ EndWalk(i) \/ \E d \in Dir : ScanDir(i, d))
          => UNCHANGED <<session, up, snaps, hvars>> /\ due' \subseteq due \cup {"kernel", "channel", "unsubscribed"}
  BY DEF StartWalk, EndWalk, ScanDir, svars
<1>14. ReadEvent \/ SignalFull \/ Subscribe \/ WriteJournal \/ UNCHANGED vars
      => UNCHANGED <<session, up, snaps, hvars>> /\ due' \subseteq due \cup {"kernel", "channel", "unsubscribed"}
  BY DEF ReadEvent, SignalFull, Subscribe, WriteJournal, vars, svars
<1> QED
  BY <1>2, <1>3, <1>4, <1>5, <1>6, <1>7, <1>8, <1>9, <1>10, <1>11, <1>12, <1>13, <1>14 DEF Next, System

-----------------------------------------------------------------------------
(***************************************************************************)
(* What a snapshot is told.                                                *)
(***************************************************************************)
\* A step of the walker.
Walking == \/ \E i \in starts : StartWalk(i)
           \/ \E i \in DOMAIN walks : EndWalk(i) \/ \E x \in Dir : ScanDir(i, x)

\* What is asked for is asked for still, or has just been scanned; nothing leaves the
\* lane, and only what was asked for comes to it.
LEMMA WalkLane ==
    ASSUME IInv, NEW s, NEW d \in Dir, Walking
    PROVE  /\ UNCHANGED <<gvars, sub, bcast, lagged, jlane, svars, hvars, due>>
           /\ Asked(s, d) => Asked(s, d)' \/ \E j \in DOMAIN blane' : blane'[j].id = s /\ blane'[j].d = d /\ blane'[j].v = guest[d]
           /\ \A i \in DOMAIN blane : \E j \in DOMAIN blane' : blane'[j] = blane[i]
           /\ OnLane(s, d)' => OnLane(s, d) \/ Asked(s, d)
<1>0. blane \in Seq(Snap) /\ "done" \notin Dir
  BY SnapFields DEF IInv, Walks
<1>1. ASSUME NEW e \in Snap, blane' = Append(blane, e)
      PROVE  /\ \A i \in DOMAIN blane : \E j \in DOMAIN blane' : blane'[j] = blane[i]
             /\ \E j \in DOMAIN blane' : blane'[j] = e
             /\ OnLane(s, d)' => OnLane(s, d) \/ (e.id = s /\ e.d = d)
  <2> DEFINE m == Append(blane, e)
  <2>1. /\ Len(blane) + 1 \in DOMAIN m /\ m[Len(blane) + 1] = e /\ \A i \in DOMAIN blane : m[i] = blane[i] /\ i \in DOMAIN m
        /\ \A i \in DOMAIN m : i = Len(blane) + 1 \/ (i \in DOMAIN blane /\ m[i] = blane[i])
    BY <1>0, LaneAppend
  <2>2. m = blane'
    BY <1>1
  <2> HIDE DEF m
  <2>3. \A i \in DOMAIN blane : \E j \in DOMAIN blane' : blane'[j] = blane[i]
    BY <2>1, <2>2
  <2>4. \E j \in DOMAIN blane' : blane'[j] = e
    BY <2>1, <2>2
  <2>5. OnLane(s, d)' => OnLane(s, d) \/ (e.id = s /\ e.d = d)
    BY <2>1, <2>2 DEF OnLane
  <2> QED
    BY <2>3, <2>4, <2>5
<1>2. ASSUME NEW i \in starts, StartWalk(i)
      PROVE  UNCHANGED <<gvars, sub, bcast, lagged, jlane, svars, hvars, due, blane>> /\ (Asked(s, d) => Asked(s, d)')
  <2>1. /\ i \notin DOMAIN walks /\ starts' = starts \ {i} /\ walks' \in [DOMAIN walks \cup {i} -> SUBSET Dir]
        /\ walks'[i] = Dir /\ (\A k \in DOMAIN walks : walks'[k] = walks[k])
        /\ UNCHANGED <<gvars, sub, bcast, lagged, jlane, blane, svars, hvars, due>>
    BY <1>2, StartEffect
  <2>2. DOMAIN walks' = DOMAIN walks \cup {i}
    BY <2>1
  <2> QED
    BY <2>1, <2>2 DEF Asked
<1>3. ASSUME NEW i \in DOMAIN walks, NEW x \in Dir, ScanDir(i, x)
      PROVE  /\ UNCHANGED <<gvars, sub, bcast, lagged, jlane, svars, hvars, due>>
             /\ \E e \in Snap : /\ e.v = guest[x] /\ blane' = Append(blane, e)
                                /\ e.id = s /\ e.d = d => Asked(s, d) /\ x = d
                                /\ Asked(s, d) => Asked(s, d)' \/ (e.id = s /\ e.d = d /\ x = d)
  <2>1. /\ x \in walks[i] /\ walks' \in [DOMAIN walks -> SUBSET Dir] /\ walks'[i] = walks[i] \ {x}
        /\ \A k \in DOMAIN walks \ {i} : walks'[k] = walks[k]
        /\ UNCHANGED <<gvars, sub, bcast, lagged, jlane, starts, svars, hvars, due>>
    BY <1>3, ScanEffect
  <2>2. PICK e \in Snap : e.id = i /\ e.d = x /\ e.v = guest[x] /\ blane' = Append(blane, e)
    BY <1>3, ScanEffect
  <2>3. DOMAIN walks' = DOMAIN walks
    BY <2>1
  <2>4. e.id = s /\ e.d = d => Asked(s, d) /\ x = d
    BY <2>1, <2>2 DEF Asked
  <2>5. Asked(s, d) => Asked(s, d)' \/ (e.id = s /\ e.d = d /\ x = d)
    BY <2>1, <2>2, <2>3 DEF Asked
  <2> QED
    BY <2>1, <2>2, <2>4, <2>5
<1>4. ASSUME NEW i \in DOMAIN walks, EndWalk(i)
      PROVE  /\ UNCHANGED <<gvars, sub, bcast, lagged, jlane, svars, hvars, due>> /\ (Asked(s, d) => Asked(s, d)')
             /\ \E e \in Snap : e.d = "done" /\ blane' = Append(blane, e)
  <2>1. /\ walks[i] = {} /\ walks' \in [DOMAIN walks \ {i} -> SUBSET Dir] /\ \A k \in DOMAIN walks \ {i} : walks'[k] = walks[k]
        /\ UNCHANGED <<gvars, sub, bcast, lagged, jlane, starts, svars, hvars, due>>
    BY <1>4, EndEffect
  <2>2. \E e \in Snap : e.d = "done" /\ blane' = Append(blane, e)
    BY <1>4, EndEffect
  <2>3. DOMAIN walks' = DOMAIN walks \ {i}
    BY <2>1
  <2>4. Asked(s, d) => Asked(s, d)'
    BY <2>1, <2>3 DEF Asked
  <2> QED
    BY <2>1, <2>2, <2>4
<1>5. CASE \E i \in starts : StartWalk(i)
  <2>1. UNCHANGED <<gvars, sub, bcast, lagged, jlane, svars, hvars, due, blane>> /\ (Asked(s, d) => Asked(s, d)')
    BY <1>2, <1>5
  <2>2. OnLane(s, d)' => OnLane(s, d)
    BY <2>1 DEF OnLane
  <2> QED
    BY <2>1, <2>2
<1>6. CASE \E i \in DOMAIN walks : \E x \in Dir : ScanDir(i, x)
  <2>1. PICK x \in Dir, e \in Snap :
            /\ UNCHANGED <<gvars, sub, bcast, lagged, jlane, svars, hvars, due>> /\ e.v = guest[x] /\ blane' = Append(blane, e)
            /\ (e.id = s /\ e.d = d => Asked(s, d) /\ x = d)
            /\ (Asked(s, d) => Asked(s, d)' \/ (e.id = s /\ e.d = d /\ x = d))
    BY <1>3, <1>6
  <2>2. /\ \A i \in DOMAIN blane : \E j \in DOMAIN blane' : blane'[j] = blane[i]
        /\ \E j \in DOMAIN blane' : blane'[j] = e
        /\ OnLane(s, d)' => OnLane(s, d) \/ (e.id = s /\ e.d = d)
    BY <1>1, <2>1
  <2>3. Asked(s, d) => Asked(s, d)' \/ \E j \in DOMAIN blane' : blane'[j].id = s /\ blane'[j].d = d /\ blane'[j].v = guest[d]
    BY <2>1, <2>2
  <2> QED
    BY <2>1, <2>2, <2>3
<1>7. CASE \E i \in DOMAIN walks : EndWalk(i)
  <2>1. PICK e \in Snap : /\ UNCHANGED <<gvars, sub, bcast, lagged, jlane, svars, hvars, due>> /\ (Asked(s, d) => Asked(s, d)')
                          /\ e.d = "done" /\ blane' = Append(blane, e)
    BY <1>4, <1>7
  <2>2. /\ \A i \in DOMAIN blane : \E j \in DOMAIN blane' : blane'[j] = blane[i]
        /\ OnLane(s, d)' => OnLane(s, d) \/ (e.id = s /\ e.d = d)
    BY <1>1, <2>1
  <2> QED
    BY <1>0, <2>1, <2>2
<1> QED
  BY <1>5, <1>6, <1>7 DEF Walking

\* The message that is taken: SnapDone is the last of its snapshot, and what is taken of
\* a directory was the only message of it.
LEMMA TakenLane ==
    ASSUME IInv, NEW s, NEW d \in Dir, blane # <<>>, blane' = Tail(blane)
    PROVE  /\ Head(blane).id = s /\ Head(blane).d = "done" => ~ Asked(s, d) /\ ~ OnLane(s, d)
           /\ Head(blane).id = s /\ Head(blane).d = d =>
                 /\ ~ Asked(s, d) /\ ~ OnLane(s, d)' /\ OnLane(s, d)
                 /\ \A i \in DOMAIN blane : blane[i].id = s /\ blane[i].d = d => blane[i] = Head(blane)
           /\ Head(blane).id # s \/ Head(blane).d # d =>
                 /\ OnLane(s, d)' <=> OnLane(s, d)
                 /\ \A i \in DOMAIN blane : blane[i].id = s /\ blane[i].d = d => \E j \in DOMAIN blane' : blane'[j] = blane[i]
<1>0. blane \in Seq(Snap) /\ "done" \notin Dir /\ DOMAIN blane = 1 .. Len(blane) /\ Len(blane) \in Nat
  BY SnapFields DEF IInv, Walks
<1>1. \A k \in DOMAIN blane : blane[k].id \notin starts
        /\ (blane[k].id \in DOMAIN walks => blane[k].d # "done" /\ blane[k].d \notin walks[blane[k].id])
  BY DEF IInv, Scanned
<1>2. \A a, b \in DOMAIN blane :
        a < b /\ blane[a].id = blane[b].id => blane[a].d # "done" /\ blane[a].d # blane[b].d
  BY DEF IInv, Ordered
<1>3. PICK h \in Snap : h = Head(blane) /\ h = blane[1] /\ 1 \in DOMAIN blane
  BY <1>0, LaneTail
<1>4. PICK l \in Seq(Snap) :
            /\ l = blane' /\ \A i \in DOMAIN l : i \in Nat /\ i + 1 \in DOMAIN blane /\ i + 1 > 1 /\ l[i] = blane[i + 1]
            /\ \A i \in DOMAIN blane : i # 1 => i - 1 \in DOMAIN l /\ l[i - 1] = blane[i]
  <2> DEFINE m == Tail(blane)
  <2>1. /\ m \in Seq(Snap) /\ \A i \in DOMAIN m : i \in Nat /\ i + 1 \in DOMAIN blane /\ i + 1 > 1 /\ m[i] = blane[i + 1]
        /\ \A i \in DOMAIN blane : i # 1 => i - 1 \in DOMAIN m /\ m[i - 1] = blane[i]
    BY <1>0, LaneTail
  <2>2. m = blane'
    OBVIOUS
  <2> HIDE DEF m
  <2> QED
    BY <2>1, <2>2
<1>5. \A i \in DOMAIN blane : i # 1 => 1 < i
  BY <1>0
<1>6. ASSUME h.id = s, h.d = "done" PROVE ~ Asked(s, d) /\ ~ OnLane(s, d)
  <2>1. ~ Asked(s, d)
    BY <1>1, <1>3, <1>6 DEF Asked
  <2>2. ASSUME NEW i \in DOMAIN blane, blane[i].id = s, blane[i].d = d PROVE FALSE
    BY <1>0, <1>2, <1>3, <1>5, <1>6, <2>2
  <2> QED
    BY <2>1, <2>2 DEF OnLane
<1>7. ASSUME h.id = s, h.d = d
      PROVE  /\ ~ Asked(s, d) /\ ~ OnLane(s, d)' /\ OnLane(s, d)
             /\ \A i \in DOMAIN blane : blane[i].id = s /\ blane[i].d = d => blane[i] = h
  <2>1. ~ Asked(s, d)
    BY <1>1, <1>3, <1>7 DEF Asked
  <2>2. ASSUME NEW i \in DOMAIN blane, blane[i].id = s, blane[i].d = d PROVE i = 1
    BY <1>2, <1>3, <1>5, <1>7, <2>2
  <2>3. OnLane(s, d)
    BY <1>3, <1>7 DEF OnLane
  <2>4. ASSUME NEW i \in DOMAIN l, l[i].id = s, l[i].d = d PROVE FALSE
    <3>1. i + 1 \in DOMAIN blane /\ i + 1 # 1 /\ blane[i + 1].id = s /\ blane[i + 1].d = d
      BY <1>4, <2>4
    <3> QED
      BY <2>2, <3>1
  <2>5. ~ OnLane(s, d)'
    BY <1>4, <2>4 DEF OnLane
  <2> QED
    BY <1>3, <2>1, <2>2, <2>3, <2>5
<1>8. ASSUME h.id # s \/ h.d # d
      PROVE  /\ OnLane(s, d)' <=> OnLane(s, d)
             /\ \A i \in DOMAIN blane : blane[i].id = s /\ blane[i].d = d => \E j \in DOMAIN blane' : blane'[j] = blane[i]
  <2>1. ASSUME NEW i \in DOMAIN blane, blane[i].id = s, blane[i].d = d PROVE \E j \in DOMAIN l : l[j] = blane[i]
    BY <1>3, <1>4, <1>8, <2>1
  <2>2. OnLane(s, d) => OnLane(s, d)'
    BY <1>4, <2>1 DEF OnLane
  <2>3. OnLane(s, d)' => OnLane(s, d)
    BY <1>4 DEF OnLane
  <2> QED
    BY <1>4, <2>1, <2>2, <2>3
<1> QED
  BY <1>3, <1>6, <1>7, <1>8

\* The kinds of steps there are for the host.
LEMMA HostKinds ==
    ASSUME [Next]_vars
    PROVE  \/ Walking \/ TakeBatch \/ PickReplica \/ ApplyBatch \/ TakeSnap \/ SwapReplica \/ SetSeq \/ Connect \/ EndSession
           \/ \E d \in Dir : Change(d)
           \/ \E k \in 1 .. MAX_RECORDS : Broadcast(k)
           \/ ReadEvent \/ SignalFull \/ WriteJournal \/ Subscribe \/ UNCHANGED vars
BY DEF Next, System, Walking

\* The guest, the batcher and the journal lane leave the bulk lane and the host alone.
LEMMA UpstreamKeeps ==
    ASSUME \/ \E d \in Dir : Change(d)
           \/ \E k \in 1 .. MAX_RECORDS : Broadcast(k)
           \/ ReadEvent \/ SignalFull \/ WriteJournal \/ Subscribe \/ UNCHANGED vars
    PROVE  UNCHANGED <<starts, walks, blane, svars, hvars>>
<1>1. \A d \in Dir : Change(d) => UNCHANGED <<starts, walks, blane, svars, hvars>>
  BY DEF Change, lvars
<1>2. \A k \in 1 .. MAX_RECORDS : Broadcast(k) => UNCHANGED <<starts, walks, blane, svars, hvars>>
  BY DEF Broadcast
<1>3. ReadEvent \/ SignalFull \/ WriteJournal \/ Subscribe \/ UNCHANGED vars => UNCHANGED <<starts, walks, blane, svars, hvars>>
  BY DEF ReadEvent, SignalFull, WriteJournal, Subscribe, vars, lvars
<1> QED
  BY <1>1, <1>2, <1>3

\* Every directory of the staged snapshot is asked for, on the lane, or there; so is
\* every one of the replica that is swapped in.
LEMMA WholeStep ==
    ASSUME IInv, [Next]_vars
    PROVE  Whole'
<1>0. /\ staging \in Stagings \cup {None} /\ fin \in Fins \cup {None} /\ live \in Lives /\ Unseen \notin Changes
  BY SyncAssumption DEF IInv, Host, Unseen, Changes
<1>1. /\ staging # None => \A d \in Dir : Asked(staging.id, d) \/ OnLane(staging.id, d) \/ staging.view[d] # Unseen
      /\ fin # None => \A d \in Dir : fin.view[d] # Unseen
      /\ live.state = "Live" => \A d \in Dir : live.view[d] # Unseen
  BY DEF IInv, Whole
<1>2. ASSUME Resync, UNCHANGED fin, live'.state = "Live" => \A d \in Dir : live'.view[d] # Unseen PROVE Whole'
  <2>1. staging'.id = snaps + 1 /\ snaps + 1 \in starts'
    BY <1>2, ResyncEffect
  <2>2. \A d \in Dir : Asked(staging.id, d)'
    BY <2>1 DEF Asked
  <2> QED
    BY <1>1, <1>2, <2>2 DEF Whole
<1>3. ASSUME UNCHANGED <<starts, walks, blane, fin, live>>, staging # None, staging' # None,
             staging'.id = staging.id, staging'.view = staging.view
      PROVE  Whole'
  <2>1. \A d \in Dir : (Asked(staging.id, d) \/ OnLane(staging.id, d) \/ staging.view[d] # Unseen)'
    BY <1>1, <1>3 DEF Asked, OnLane
  <2> QED
    BY <1>1, <1>3, <2>1 DEF Whole
<1>4. CASE UNCHANGED <<starts, walks, blane, staging, fin, live>>
  <2>1. CASE staging # None
    BY <1>3, <1>4, <2>1
  <2>2. CASE staging = None
    BY <1>1, <1>4, <2>2 DEF Whole
  <2> QED
    BY <2>1, <2>2
<1>5. CASE Walking
  <2>1. UNCHANGED <<staging, fin, live>>
    <3>1. CASE \E d \in Dir : TRUE
      BY <1>5, <3>1, WalkLane DEF hvars
    <3>2. CASE ~ \E d \in Dir : TRUE
      BY <1>5, <3>2 DEF Walking, StartWalk, EndWalk, hvars
    <3> QED
      BY <3>1, <3>2
  <2>2. ASSUME staging # None, NEW d \in Dir PROVE (Asked(staging.id, d) \/ OnLane(staging.id, d) \/ staging.view[d] # Unseen)'
    <3>1. PICK s : s = staging.id
      OBVIOUS
    <3>2. /\ Asked(s, d) => Asked(s, d)' \/ \E j \in DOMAIN blane' : blane'[j].id = s /\ blane'[j].d = d
          /\ \A i \in DOMAIN blane : \E j \in DOMAIN blane' : blane'[j] = blane[i]
      BY <1>5, WalkLane
    <3>3. Asked(s, d) \/ OnLane(s, d) => Asked(s, d)' \/ OnLane(s, d)'
      BY <3>2 DEF OnLane
    <3>4. s = staging'.id
      BY <2>1, <3>1
    <3> QED
      BY <1>1, <2>1, <2>2, <3>1, <3>3, <3>4 DEF Asked, OnLane
  <2> QED
    BY <1>1, <2>1, <2>2 DEF Whole
<1>6. CASE TakeBatch
  <2>1. UNCHANGED <<walks, blane, fin, live>> /\ Head(jlane) \in Batch
    BY <1>6, TakeEffect
  <2>2. CASE Resync
    BY <1>1, <1>2, <2>1, <2>2
  <2>3. CASE staging \in Stagings /\ staging # None /\ staging' = Buffered(staging, Head(jlane)) /\ UNCHANGED starts
    <3>1. staging'.id = staging.id /\ staging'.view = staging.view /\ staging' \in Stagings
      BY <2>1, <2>3, StagingFields
    <3>2. staging' # None
      BY <3>1, StagingFields
    <3> QED
      BY <1>3, <2>1, <2>3, <3>1, <3>2
  <2>4. CASE UNCHANGED <<staging, starts>>
    BY <1>4, <2>1, <2>4
  <2> QED
    BY <1>6, <2>2, <2>3, <2>4, TakeEffect
<1>7. CASE ApplyBatch
  <2>1. /\ jrn \in Jrns /\ staging = None /\ UNCHANGED <<walks, blane, fin>>
        /\ live' = live \/ live' = [live EXCEPT !.view = ApplyRecs(live.view, jrn.b.recs)]
    BY <1>7, ApplyEffect
  <2>2. live'.state = "Live" => \A d \in Dir : live'.view[d] # Unseen
    <3>1. CASE live' = live
      BY <1>1, <3>1
    <3>2. CASE live' = [live EXCEPT !.view = ApplyRecs(live.view, jrn.b.recs)]
      <4>1. PICK r \in Seq(Rec) : r = jrn.b.recs
        BY <2>1, JrnFields, BatchFields
      <4>2. PICK u \in View : u = live.view
        BY <1>0, LiveFields DEF Lives
      <4>3. PICK w \in View : w = ApplyRecs(u, r) /\ \A d \in Dir : w[d] = u[d] \/ w[d] \in Changes
        BY ApplyRecsType, ApplyRecsIs
      <4>4. live'.state = live.state /\ live'.view = w
        BY <1>0, <3>2, <4>1, <4>2, <4>3, LiveFields
      <4> QED
        BY <1>0, <1>1, <4>2, <4>3, <4>4
    <3> QED
      BY <2>1, <3>1, <3>2
  <2>3. CASE Resync
    BY <1>2, <2>1, <2>2, <2>3
  <2>4. CASE UNCHANGED <<staging, starts>>
    BY <1>1, <2>1, <2>2, <2>4 DEF Whole
  <2> QED
    BY <1>7, <2>3, <2>4, ApplyEffect
<1>8. CASE Connect
  <2>1. Resync /\ UNCHANGED <<fin, live>>
    BY <1>8 DEF Connect
  <2> QED
    BY <1>1, <1>2, <2>1
<1>9. CASE TakeSnap
  <2>1. blane # <<>> /\ blane' = Tail(blane) /\ fin = None /\ UNCHANGED <<starts, walks, live>>
    BY <1>9, TakeSnapEffect
  <2>2. CASE staging = None /\ UNCHANGED <<staging, fin>>
    BY <1>1, <2>1, <2>2 DEF Whole
  <2>3. CASE staging # None /\ staging.id # Head(blane).id /\ UNCHANGED <<staging, fin>>
    <3>1. ASSUME NEW d \in Dir PROVE (Asked(staging.id, d) \/ OnLane(staging.id, d) \/ staging.view[d] # Unseen)'
      <4>1. PICK s : s = staging.id
        OBVIOUS
      <4>2. OnLane(s, d)' <=> OnLane(s, d)
        BY <2>1, <2>3, <4>1, TakenLane
      <4> QED
        BY <1>1, <2>1, <2>3, <4>1, <4>2 DEF Asked, OnLane
    <3> QED
      BY <1>1, <2>1, <2>3, <3>1 DEF Whole
  <2>4. CASE staging \in Stagings /\ staging.id = Head(blane).id /\ Head(blane).d = "done" /\ staging' = None /\ fin' = Over(staging)
    <3>1. staging # None /\ fin'.view = staging.view
      BY <2>4, StagingFields
    <3>2. \A d \in Dir : ~ Asked(staging.id, d) /\ ~ OnLane(staging.id, d)
      BY <2>1, <2>4, TakenLane
    <3> QED
      BY <1>1, <2>1, <2>4, <3>1, <3>2 DEF Whole
  <2>5. CASE /\ staging \in Stagings /\ staging.id = Head(blane).id /\ Head(blane).d \in Dir /\ Head(blane).v \in Changes
             /\ staging' = Entered(staging, Head(blane).d, Head(blane).v) /\ fin' = fin
    <3>1. PICK s \in {staging.id}, x \in Dir, v \in Changes : s = staging.id /\ x = Head(blane).d /\ v = Head(blane).v
      BY <2>5
    <3>2. staging # None /\ staging'.id = s /\ staging'.view[x] = v /\ \A e \in Dir \ {x} : staging'.view[e] = staging.view[e]
      BY <2>5, <3>1, StagingFields
    <3>3. ASSUME NEW d \in Dir PROVE (Asked(staging.id, d) \/ OnLane(staging.id, d) \/ staging.view[d] # Unseen)'
      <4>1. CASE d = x
        BY <1>0, <3>2, <4>1
      <4>2. CASE d # x
        <5>1. OnLane(s, d)' <=> OnLane(s, d)
          BY <2>1, <3>1, <4>2, TakenLane
        <5>2. staging'.view[d] = staging.view[d]
          BY <3>2, <4>2
        <5>3. Asked(s, d) \/ OnLane(s, d) \/ staging.view[d] # Unseen
          BY <1>1, <3>1, <3>2
        <5> QED
          BY <2>1, <3>2, <5>1, <5>2, <5>3 DEF Asked, OnLane
      <4> QED
        BY <4>1, <4>2
    <3> QED
      BY <1>1, <2>1, <2>5, <3>3 DEF Whole
  <2> QED
    BY <1>9, <2>2, <2>3, <2>4, <2>5, TakeSnapEffect
<1>10. CASE SwapReplica
  <2>1. /\ fin \in Fins /\ fin'.view = fin.view /\ UNCHANGED <<starts, walks, blane, staging>>
        /\ live'.view = Replay(fin.view, fin.buf)
    BY <1>10, SwapEffect DEF lvars
  <2>2. fin.view \in View /\ fin.buf \in Seq(Batch) /\ fin # None
    BY <2>1, FinFields
  <2>3. \A d \in Dir : live'.view[d] = fin.view[d] \/ live'.view[d] \in Changes
    BY <2>1, <2>2, ReplayIs
  <2>4. \A d \in Dir : live'.view[d] # Unseen /\ fin'.view[d] # Unseen
    BY <1>0, <1>1, <2>1, <2>2, <2>3
  <2>5. staging # None => \A d \in Dir : (Asked(staging.id, d) \/ OnLane(staging.id, d) \/ staging.view[d] # Unseen)'
    BY <1>1, <2>1 DEF Asked, OnLane
  <2> QED
    BY <2>1, <2>4, <2>5 DEF Whole
<1>11. CASE SetSeq
  <2>1. fin' = None /\ UNCHANGED <<starts, walks, blane, staging, live>>
    BY <1>11 DEF SetSeq, lvars
  <2>2. staging # None => \A d \in Dir : (Asked(staging.id, d) \/ OnLane(staging.id, d) \/ staging.view[d] # Unseen)'
    BY <1>1, <2>1 DEF Asked, OnLane
  <2> QED
    BY <1>1, <2>1, <2>2 DEF Whole
<1>12. CASE EndSession
  <2>1. staging' = None /\ fin' = fin /\ live' = live
    BY <1>12 DEF EndSession
  <2> QED
    BY <1>1, <2>1 DEF Whole
<1>13. CASE PickReplica
  BY <1>4, <1>13, PickEffect DEF lvars
<1>14. CASE \/ \E d \in Dir : Change(d)
            \/ \E k \in 1 .. MAX_RECORDS : Broadcast(k)
            \/ ReadEvent \/ SignalFull \/ WriteJournal \/ Subscribe \/ UNCHANGED vars
  BY <1>4, <1>14, UpstreamKeeps DEF hvars
<1> QED
  BY <1>5, <1>6, <1>7, <1>8, <1>9, <1>10, <1>11, <1>12, <1>13, <1>14, HostKinds

-----------------------------------------------------------------------------
(***************************************************************************)
(* The stream.                                                             *)
(***************************************************************************)
\* An Overflow is a word on every directory.
LEMMA OverflowTells ==
    ASSUME NEW d, NEW g
    PROVE  /\ Current(OVERFLOW, d, g) /\ Ends(<<OVERFLOW>>, d, g)
           /\ \A s \in Seq(Rec) : s # <<>> /\ s[Len(s)] = OVERFLOW => Ends(s, d, g)
<1>1. Current(OVERFLOW, d, g)
  BY RecFields DEF Current
<1>2. Ends(<<OVERFLOW>>, d, g)
  BY <1>1 DEF Ends
<1>3. ASSUME NEW s \in Seq(Rec), s # <<>>, s[Len(s)] = OVERFLOW PROVE Ends(s, d, g)
  <2>1. DOMAIN s = 1 .. Len(s) /\ Len(s) \in Nat /\ Len(s) # 0
    BY <1>3
  <2>2. Len(s) \in DOMAIN s /\ \A j \in DOMAIN s : ~(j > Len(s))
    BY <2>1
  <2> QED
    BY <1>1, <1>3, <2>2 DEF Ends
<1> QED
  BY <1>1, <1>2, <1>3

\* The guest changes a directory: its record is the last word on it.
LEMMA ChangeStream ==
    ASSUME IInv, NEW d \in Dir, NEW x \in Dir, Change(x), due' \cap Lasting = {}
    PROVE  /\ due' = due
           /\ Newer(d) => Newer(d)'
           /\ AllQuiet(d) => Newer(d)' \/ (AllQuiet(d)' /\ guest'[d] = guest[d])
<1>0. kq \in Seq(Rec) /\ d # "overflow" /\ x # "overflow"
  BY SyncAssumption DEF IInv, Guest
<1>1. /\ UNCHANGED <<chan, bcast, lagged, jlane>> /\ (x # d => guest'[d] = guest[d])
      /\ \/ \E e \in Rec : kq' = Append(kq, e) /\ due' = due /\ (e = OVERFLOW \/ (e.d = x /\ e.v = guest'[x]))
         \/ kq' = kq /\ due' = due /\ kq # <<>> /\ kq[Len(kq)] = OVERFLOW
         \/ kq' = kq /\ due' = due \cup {"kernel"}
  BY ChangeEffect DEF lvars
<1>2. due' # due \cup {"kernel"}
  BY DEF Lasting
<1>3. CASE kq' = kq /\ due' = due /\ kq # <<>> /\ kq[Len(kq)] = OVERFLOW
  BY <1>0, <1>3, OverflowTells DEF Newer
<1>4. ASSUME NEW e \in Rec, kq' = Append(kq, e), due' = due, e = OVERFLOW \/ (e.d = x /\ e.v = guest'[x])
      PROVE  /\ Newer(d) => Newer(d)'
             /\ AllQuiet(d) => Newer(d)' \/ (AllQuiet(d)' /\ guest'[d] = guest[d])
  <2>1. PICK g : g = guest'[d]
    OBVIOUS
  <2>2. CASE e = OVERFLOW \/ x = d
    <3>1. Current(e, d, g)
      BY <1>4, <2>1, <2>2, OverflowTells DEF Current
    <3>2. Ends(kq', d, guest'[d])
      BY <1>0, <1>4, <2>1, <3>1, RecAppend
    <3> QED
      BY <3>2 DEF Newer
  <2>3. CASE e # OVERFLOW /\ x # d
    <3>1. ~ Tells(e, d) /\ guest'[d] = guest[d]
      BY <1>0, <1>1, <1>4, <2>3 DEF Tells
    <3>2. (Ends(kq, d, guest[d]) => Ends(kq', d, guest'[d])) /\ (Quiet(kq, d) => Quiet(kq', d))
      BY <1>0, <1>4, <2>1, <3>1, RecAppend
    <3> QED
      BY <1>1, <3>1, <3>2 DEF Newer, AllQuiet
  <2> QED
    BY <2>2, <2>3
<1> QED
  BY <1>1, <1>2, <1>3, <1>4

\* The reader.
LEMMA ReadStream ==
    ASSUME IInv, NEW d \in Dir, ReadEvent \/ SignalFull, due' \cap Lasting = {}
    PROVE  /\ due' = due /\ guest' = guest
           /\ Newer(d) => Newer(d)'
           /\ AllQuiet(d) => Newer(d)' \/ AllQuiet(d)'
<1>0. kq \in Seq(Rec) /\ chan \in Seq(Rec)
  BY DEF IInv, Guest
<1>1. PICK g : g = guest[d]
  OBVIOUS
<1>2. CASE ReadEvent
  <2>1. kq # <<>> /\ kq' = Tail(kq) /\ UNCHANGED <<guest, bcast, lagged, jlane>>
    BY <1>2 DEF ReadEvent, lvars
  <2>2. chan' = Append(chan, Head(kq)) /\ due' = due
    BY <1>2 DEF ReadEvent, Lasting
  <2>3. PICK h \in Rec : h = Head(kq)
    BY <1>0, <2>1, RecTail
  <2>4. /\ Ends(kq, d, g) => Ends(kq', d, g) \/ (Quiet(kq', d) /\ Current(h, d, g))
        /\ Quiet(kq, d) => Quiet(kq', d) /\ ~ Tells(h, d)
    BY <1>0, <2>1, <2>3, RecTail
  <2>5. /\ Current(h, d, g) => Ends(chan', d, g)
        /\ ~ Tells(h, d) /\ Ends(chan, d, g) => Ends(chan', d, g)
        /\ ~ Tells(h, d) /\ Quiet(chan, d) => Quiet(chan', d)
    BY <1>0, <2>2, <2>3, RecAppend
  <2> QED
    BY <1>1, <2>1, <2>2, <2>4, <2>5 DEF Newer, AllQuiet
<1>3. CASE SignalFull
  <2>1. (chan' = chan \/ chan' = Append(chan, OVERFLOW)) /\ UNCHANGED <<guest, kq, bcast, lagged, jlane, due>>
    BY <1>3 DEF SignalFull, lvars
  <2>2. chan' # chan => Ends(chan', d, g)
    BY <1>0, <2>1, RecAppend, RecFields, OverflowTells
  <2> QED
    BY <1>1, <2>1, <2>2 DEF Newer, AllQuiet
<1> QED
  BY <1>2, <1>3

\* The batcher: with a subscriber the words pass on, without one the batch is lost and
\* the loss noted.
LEMMA BroadcastStream ==
    ASSUME IInv, NEW d \in Dir, NEW k \in 1 .. MAX_RECORDS, Broadcast(k)
    PROVE  /\ guest' = guest /\ due \subseteq due'
           /\ Newer(d) \/ AllQuiet(d) => Newer(d)' \/ AllQuiet(d)'
           /\ due' = {} => (Newer(d) => Newer(d)') /\ (AllQuiet(d) => AllQuiet(d)')
<1>0. chan \in Seq(Rec) /\ bcast \in Seq(Batch) /\ (~ sub => bcast = <<>> /\ jlane = <<>> /\ ~ lagged)
  BY DEF IInv, Guest, Stream
<1>1. PICK g : g = guest[d]
  OBVIOUS
<1>2. /\ k \in 1 .. Len(chan) /\ chan' = SubSeq(chan, k + 1, Len(chan)) /\ UNCHANGED <<guest, kq, jlane>>
  BY BroadcastEffect
<1>3. PICK b \in Batch :
         /\ b.recs = SubSeq(chan, 1, k)
         /\ \/ sub /\ bcast' = Append(bcast, b) /\ lagged' = lagged /\ due' = due
            \/ sub /\ bcast # <<>> /\ bcast' = Append(Tail(bcast), b) /\ lagged' = TRUE /\ due' = due
            \/ ~ sub /\ UNCHANGED <<bcast, lagged>> /\ due' = due \cup {"unsubscribed"}
  BY BroadcastEffect
<1>4. /\ Ends(chan, d, g) => Ends(chan', d, g) \/ (Quiet(chan', d) /\ Ends(b.recs, d, g))
      /\ Quiet(chan, d) => Quiet(b.recs, d) /\ Quiet(chan', d)
  BY <1>0, <1>2, <1>3, RecSplit
<1>5. CASE ~ sub /\ UNCHANGED <<bcast, lagged>> /\ due' = due \cup {"unsubscribed"}
  <2>1. BQuiet(<<>>, d)
    BY EmptyQuiet
  <2>2. ~ BEnds(<<>>, d, g)
    BY DEF BEnds
  <2> QED
    BY <1>0, <1>1, <1>2, <1>4, <1>5, <2>1, <2>2 DEF Newer, AllQuiet
<1>6. CASE sub /\ bcast' = Append(bcast, b) /\ lagged' = lagged /\ due' = due
  <2>1. /\ Ends(b.recs, d, g) => BEnds(bcast', d, g)
        /\ Quiet(b.recs, d) /\ BEnds(bcast, d, g) => BEnds(bcast', d, g)
        /\ Quiet(b.recs, d) /\ BQuiet(bcast, d) => BQuiet(bcast', d)
    BY <1>0, <1>6, BatchAppend
  <2> QED
    BY <1>1, <1>2, <1>4, <1>6, <2>1 DEF Newer, AllQuiet
<1>7. CASE sub /\ bcast # <<>> /\ bcast' = Append(Tail(bcast), b) /\ lagged' = TRUE /\ due' = due
  <2>1. PICK q \in Seq(Batch) : q = Tail(bcast)
    BY <1>0, <1>7, BatchTail
  <2>2. /\ BEnds(bcast, d, g) => BEnds(q, d, g) \/ BQuiet(q, d)
        /\ BQuiet(bcast, d) => BQuiet(q, d)
    BY <1>0, <1>7, <2>1, BatchTail
  <2>3. /\ Ends(b.recs, d, g) => BEnds(bcast', d, g)
        /\ Quiet(b.recs, d) /\ BEnds(q, d, g) => BEnds(bcast', d, g)
        /\ Quiet(b.recs, d) /\ BQuiet(q, d) => BQuiet(bcast', d)
    BY <1>7, <2>1, BatchAppend
  <2> QED
    BY <1>1, <1>2, <1>4, <1>7, <2>2, <2>3 DEF Newer, AllQuiet
<1> QED
  BY <1>3, <1>5, <1>6, <1>7

\* The journal lane: the sentinel goes where the lost batch would have been.
LEMMA WriteStream ==
    ASSUME IInv, NEW d \in Dir, WriteJournal
    PROVE  /\ guest' = guest /\ due' = due
           /\ Newer(d) => Newer(d)'
           /\ AllQuiet(d) => Newer(d)' \/ AllQuiet(d)'
<1>0. bcast \in Seq(Batch) /\ jlane \in Seq(Batch)
  BY DEF IInv, Stream
<1>1. PICK g : g = guest[d]
  OBVIOUS
<1>2. UNCHANGED <<guest, kq, chan, due>>
  BY WriteEffect DEF gvars
<1>3. CASE lagged /\ lagged' = FALSE /\ jlane' = Append(jlane, Sentinel) /\ bcast' = bcast
  <2>1. BEnds(jlane', d, g)
    BY <1>0, <1>3, BatchAppend, BatchFields, OverflowTells
  <2> QED
    BY <1>1, <1>2, <1>3, <2>1 DEF Newer, AllQuiet
<1>4. CASE ~ lagged /\ lagged' = lagged /\ bcast # <<>> /\ jlane' = Append(jlane, Head(bcast)) /\ bcast' = Tail(bcast)
  <2>1. PICK h \in Batch : h = Head(bcast)
    BY <1>0, <1>4, BatchTail
  <2>2. /\ BEnds(bcast, d, g) => BEnds(bcast', d, g) \/ (BQuiet(bcast', d) /\ Ends(h.recs, d, g))
        /\ BQuiet(bcast, d) => BQuiet(bcast', d) /\ Quiet(h.recs, d)
    BY <1>0, <1>4, <2>1, BatchTail
  <2>3. /\ Ends(h.recs, d, g) => BEnds(jlane', d, g)
        /\ Quiet(h.recs, d) /\ BEnds(jlane, d, g) => BEnds(jlane', d, g)
        /\ Quiet(h.recs, d) /\ BQuiet(jlane, d) => BQuiet(jlane', d)
    BY <1>0, <1>4, <2>1, BatchAppend
  <2> QED
    BY <1>1, <1>2, <1>4, <2>2, <2>3 DEF Newer, AllQuiet
<1> QED
  BY <1>3, <1>4, WriteEffect

\* The host takes a batch off the lane: it holds the last word, or none.
LEMMA TakeStream ==
    ASSUME IInv, NEW d \in Dir, TakeBatch
    PROVE  /\ guest' = guest
           /\ Newer(d) => Newer(d)' \/ (AllQuiet(d)' /\ Ends(Head(jlane).recs, d, guest[d]))
           /\ AllQuiet(d) => AllQuiet(d)' /\ Quiet(Head(jlane).recs, d)
<1>0. jlane \in Seq(Batch)
  BY DEF IInv, Stream
<1>1. PICK g : g = guest[d]
  OBVIOUS
<1>2. jlane # <<>> /\ jlane' = Tail(jlane) /\ UNCHANGED <<guest, kq, chan, bcast, lagged>>
  BY TakeEffect DEF gvars
<1>3. /\ BEnds(jlane, d, g) => BEnds(jlane', d, g) \/ (BQuiet(jlane', d) /\ Ends(Head(jlane).recs, d, g))
      /\ BQuiet(jlane, d) => BQuiet(jlane', d) /\ Quiet(Head(jlane).recs, d)
  BY <1>0, <1>2, BatchTail
<1> QED
  BY <1>1, <1>2, <1>3 DEF Newer, AllQuiet

\* Steps that leave the stream alone.
LEMMA StreamSame ==
    ASSUME NEW d \in Dir, UNCHANGED <<guest, kq, chan, bcast, lagged, jlane>>
    PROVE  (Newer(d)' <=> Newer(d)) /\ (AllQuiet(d)' <=> AllQuiet(d))
BY DEF Newer, AllQuiet

\* The guest and the lanes up to the host's end.
Upstream ==
    \/ \E x \in Dir : Change(x)
    \/ \E k \in 1 .. MAX_RECORDS : Broadcast(k)
    \/ ReadEvent \/ SignalFull \/ WriteJournal \/ Subscribe \/ UNCHANGED vars

\* What they do to the stream.
LEMMA UpstreamStream ==
    ASSUME IInv, NEW d \in Dir, Upstream, due' \cap Lasting = {}
    PROVE  /\ due \cap Lasting = {} /\ (due' = {} => due = {})
           /\ Newer(d) \/ AllQuiet(d) => Newer(d)' \/ AllQuiet(d)'
           /\ due' = {} => /\ Newer(d) => Newer(d)'
                           /\ AllQuiet(d) => Newer(d)' \/ (AllQuiet(d)' /\ guest'[d] = guest[d])
<1>1. CASE \E x \in Dir : Change(x)
  BY <1>1, ChangeStream
<1>2. CASE \E k \in 1 .. MAX_RECORDS : Broadcast(k)
  <2>1. PICK k \in 1 .. MAX_RECORDS : Broadcast(k)
    BY <1>2
  <2>2. /\ guest' = guest /\ due \subseteq due'
        /\ Newer(d) \/ AllQuiet(d) => Newer(d)' \/ AllQuiet(d)'
        /\ due' = {} => (Newer(d) => Newer(d)') /\ (AllQuiet(d) => AllQuiet(d)')
    BY <2>1, BroadcastStream
  <2> QED
    BY <2>2
<1>3. CASE ReadEvent \/ SignalFull
  <2>1. due' = due /\ guest' = guest /\ (Newer(d) => Newer(d)') /\ (AllQuiet(d) => Newer(d)' \/ AllQuiet(d)')
    BY <1>3, ReadStream
  <2> QED
    BY <2>1
<1>4. CASE WriteJournal
  <2>1. due' = due /\ guest' = guest /\ (Newer(d) => Newer(d)') /\ (AllQuiet(d) => Newer(d)' \/ AllQuiet(d)')
    BY <1>4, WriteStream
  <2> QED
    BY <2>1
<1>5. CASE Subscribe \/ UNCHANGED vars
  <2>1. UNCHANGED <<guest, kq, chan, bcast, lagged, jlane, due>>
    BY <1>5 DEF Subscribe, vars, gvars, lvars
  <2>2. (Newer(d)' <=> Newer(d)) /\ (AllQuiet(d)' <=> AllQuiet(d))
    BY <2>1, StreamSame
  <2> QED
    BY <2>1, <2>2
<1> QED
  BY <1>1, <1>2, <1>3, <1>4, <1>5 DEF Upstream

\* The end of a session clears the lanes.
LEMMA EndStream ==
    ASSUME IInv, NEW d \in Dir, EndSession
    PROVE  Newer(d) \/ AllQuiet(d) => Newer(d)' \/ AllQuiet(d)'
<1>1. bcast' = <<>> /\ jlane' = <<>> /\ UNCHANGED <<guest, kq, chan>>
  BY DEF EndSession, gvars
<1>2. BQuiet(<<>>, d)
  BY EmptyQuiet
<1> QED
  BY <1>1, <1>2 DEF Newer, AllQuiet

\* Nothing of the stream changes in the other steps of the host.
LEMMA HostStream ==
    ASSUME IInv, Walking \/ PickReplica \/ ApplyBatch \/ TakeSnap \/ SwapReplica \/ SetSeq \/ Connect, NEW d \in Dir
    PROVE  UNCHANGED <<guest, kq, chan, bcast, lagged, jlane>>
<1>1. Walking => UNCHANGED <<guest, kq, chan, bcast, lagged, jlane>>
  BY WalkLane DEF gvars
<1>2. PickReplica \/ ApplyBatch \/ TakeSnap \/ SwapReplica \/ SetSeq \/ Connect => UNCHANGED <<guest, kq, chan, bcast, lagged, jlane>>
  BY DEF PickReplica, ApplyBatch, TakeSnap, SwapReplica, SetSeq, Connect, gvars, lvars
<1> QED
  BY <1>1, <1>2

\* The reasons that last only grow.
LEMMA LastingGrows ==
    ASSUME IInv, [Next]_vars
    PROVE  due \cap Lasting \subseteq due'
<1>1. Resync => due \cap Lasting \subseteq due'
  BY DEF Resync
<1>2. \A d \in Dir : Change(d) => due \subseteq due'
  BY DEF Change
<1>3. \A k \in 1 .. MAX_RECORDS : Broadcast(k) => due \subseteq due'
  BY DEF Broadcast
<1>4. TakeBatch => due \cap Lasting \subseteq due'
  BY <1>1 DEF TakeBatch
<1>5. ApplyBatch => due \cap Lasting \subseteq due'
  BY <1>1 DEF ApplyBatch
<1>6. Connect => due \cap Lasting \subseteq due'
  BY <1>1 DEF Connect
<1>7. Walking => due \subseteq due'
  BY DEF Walking, StartWalk, ScanDir, EndWalk
<1>8. PickReplica \/ TakeSnap \/ SwapReplica \/ SetSeq \/ EndSession \/ ReadEvent \/ SignalFull \/ WriteJournal \/ Subscribe
      \/ UNCHANGED vars => due \subseteq due'
  BY DEF PickReplica, TakeSnap, SwapReplica, SetSeq, EndSession, ReadEvent, SignalFull, WriteJournal, Subscribe, vars
<1> QED
  BY <1>2, <1>3, <1>4, <1>5, <1>6, <1>7, <1>8, HostKinds

\* The last word of the stream on a directory is that of its last change.
LEMMA PipedStep ==
    ASSUME IInv, [Next]_vars
    PROVE  Piped'
<1> SUFFICES ASSUME due' \cap Lasting = {}, NEW d \in Dir PROVE Newer(d)' \/ AllQuiet(d)'
  BY DEF Piped, Lasting
<1>1. due \cap Lasting = {}
  BY LastingGrows
<1>2. Newer(d) \/ AllQuiet(d)
  BY <1>1 DEF IInv, Piped
<1>3. CASE Upstream
  BY <1>2, <1>3, UpstreamStream
<1>4. CASE TakeBatch
  BY <1>2, <1>4, TakeStream
<1>5. CASE Walking \/ PickReplica \/ ApplyBatch \/ TakeSnap \/ SwapReplica \/ SetSeq \/ Connect
  BY <1>2, <1>5, HostStream, StreamSame
<1>6. CASE EndSession
  BY <1>2, <1>6, EndStream
<1> QED
  BY <1>3, <1>4, <1>5, <1>6, HostKinds DEF Upstream

-----------------------------------------------------------------------------
(***************************************************************************)
(* What the stream is applied to.                                          *)
(***************************************************************************)
\* A snapshot that has just been asked for will have everything.
LEMMA ResyncBase ==
    ASSUME IInv, NEW d \in Dir, Resync
    PROVE  Base(d)'
<1>1. staging' # None /\ staging'.buf = <<>> /\ staging'.id = snaps + 1 /\ snaps + 1 \in starts'
  BY ResyncEffect
<1>2. BQuiet(staging'.buf, d)
  BY <1>1, EmptyQuiet
<1>3. Staged(d)'
  BY <1>1 DEF Staged, Asked
<1> QED
  BY <1>1, <1>2, <1>3 DEF Base

\* A step that does nothing to the host, the walks and the directory.
LEMMA BaseSame ==
    ASSUME NEW d \in Dir, UNCHANGED <<starts, walks, blane, hvars>>, guest'[d] = guest[d], Base(d)
    PROVE  Base(d)'
<1>1. UNCHANGED <<staging, jrn, fin, live>>
  BY DEF hvars
<1>2. Staged(d) => Staged(d)'
  BY <1>1 DEF Staged, Asked, OnLane
<1>3. (Under(d) => Under(d)') /\ (Doomed => Doomed')
  BY <1>1 DEF Under, SwapPending, Doomed
<1> QED
  BY <1>1, <1>2, <1>3 DEF Base

\* A step of the walker.
LEMMA WalkBase ==
    ASSUME IInv, NEW d \in Dir, Walking, Base(d)
    PROVE  Base(d)'
<1>1. PICK s : s = staging.id
  OBVIOUS
<1>2. /\ UNCHANGED <<guest, staging, jrn, fin, live>>
      /\ Asked(s, d) => Asked(s, d)' \/ \E j \in DOMAIN blane' : blane'[j].id = s /\ blane'[j].d = d /\ blane'[j].v = guest[d]
      /\ \A i \in DOMAIN blane : \E j \in DOMAIN blane' : blane'[j] = blane[i]
      /\ OnLane(s, d)' => OnLane(s, d) \/ Asked(s, d)
  BY WalkLane DEF gvars, hvars
<1>3. s = staging'.id
  BY <1>1, <1>2
<1>4. Staged(d) => Staged(d)'
  <2>1. ASSUME Asked(s, d) PROVE Staged(d)'
    BY <1>2, <1>3, <2>1 DEF Staged, Asked
  <2>2. ASSUME NEW i \in DOMAIN blane, blane[i].id = s, blane[i].d = d, blane[i].v = guest[d] PROVE Staged(d)'
    <3>1. PICK j \in DOMAIN blane' : blane'[j] = blane[i]
      BY <1>2
    <3> QED
      BY <1>2, <1>3, <2>2, <3>1 DEF Staged
  <2>3. ASSUME ~ OnLane(s, d), ~ Asked(s, d), staging.view[d] = guest[d] PROVE Staged(d)'
    <3>1. ~ OnLane(s, d)'
      BY <1>2, <2>3
    <3> QED
      BY <1>2, <1>3, <2>3, <3>1 DEF Staged, OnLane
  <2> QED
    BY <1>1, <2>1, <2>2, <2>3 DEF Staged
<1>5. (Under(d) => Under(d)') /\ (Doomed => Doomed')
  BY <1>2 DEF Under, SwapPending, Doomed
<1> QED
  BY <1>2, <1>4, <1>5 DEF Base

\* A message of the bulk lane: a directory as it was scanned, or the end of the walk.
LEMMA TakeSnapBase ==
    ASSUME IInv, NEW d \in Dir, TakeSnap, Base(d)
    PROVE  Base(d)'
<1>1. PICK s : s = staging.id
  OBVIOUS
<1>2. blane # <<>> /\ fin = None /\ blane' = Tail(blane) /\ UNCHANGED <<guest, starts, walks, jrn, live>>
  BY TakeSnapEffect DEF gvars
<1>3. Asked(s, d)' <=> Asked(s, d)
  BY <1>2 DEF Asked
<1>4. CASE staging = None /\ UNCHANGED <<staging, fin>>
  <2>1. (Under(d) => Under(d)') /\ (Doomed => Doomed')
    BY <1>2, <1>4 DEF Under, SwapPending, Doomed
  <2> QED
    BY <1>2, <1>4, <2>1 DEF Base
<1>5. CASE staging # None /\ staging.id # Head(blane).id /\ UNCHANGED <<staging, fin>>
  <2>1. /\ OnLane(s, d)' <=> OnLane(s, d)
        /\ \A i \in DOMAIN blane : blane[i].id = s /\ blane[i].d = d => \E j \in DOMAIN blane' : blane'[j] = blane[i]
    BY <1>1, <1>2, <1>5, TakenLane
  <2>2. s = staging'.id
    BY <1>1, <1>5
  <2>3. Staged(d) => Staged(d)'
    <3>1. ASSUME Asked(s, d) PROVE Staged(d)'
      BY <1>3, <2>2, <3>1 DEF Staged, Asked
    <3>2. ASSUME NEW i \in DOMAIN blane, blane[i].id = s, blane[i].d = d, blane[i].v = guest[d] PROVE Staged(d)'
      <4>1. PICK j \in DOMAIN blane' : blane'[j] = blane[i]
        BY <2>1, <3>2
      <4> QED
        BY <1>2, <2>2, <3>2, <4>1 DEF Staged
    <3>3. ASSUME ~ OnLane(s, d), staging.view[d] = guest[d] PROVE Staged(d)'
      BY <1>2, <1>5, <2>1, <2>2, <3>3 DEF Staged, OnLane
    <3> QED
      BY <1>1, <3>1, <3>2, <3>3 DEF Staged
  <2> QED
    BY <1>2, <1>5, <2>3 DEF Base
<1>6. CASE staging \in Stagings /\ staging.id = Head(blane).id /\ Head(blane).d = "done" /\ staging' = None /\ fin' = Over(staging)
  <2>1. fin' \in Fins /\ fin'.view = staging.view /\ fin'.buf = staging.buf /\ fin'.at = "swap" /\ staging # None
    BY <1>6, StagingFields
  <2>2. fin' # None
    BY <2>1, FinFields
  <2>3. jrn = None
    BY <2>1 DEF IInv, Host
  <2>4. ~ Asked(s, d) /\ ~ OnLane(s, d)
    BY <1>1, <1>2, <1>6, TakenLane
  <2>5. Staged(d) => staging.view[d] = guest[d]
    BY <1>1, <2>4 DEF Staged, OnLane
  <2>6. BEnds(staging.buf, d, guest[d]) \/ (BQuiet(staging.buf, d) /\ Staged(d))
    BY <2>1 DEF Base
  <2>7. Under(d)'
    BY <1>2, <2>1, <2>2, <2>5, <2>6 DEF Under, SwapPending
  <2> QED
    BY <1>2, <1>6, <2>3, <2>7 DEF Base
<1>7. CASE /\ staging \in Stagings /\ staging.id = Head(blane).id /\ Head(blane).d \in Dir /\ Head(blane).v \in Changes
           /\ staging' = Entered(staging, Head(blane).d, Head(blane).v) /\ fin' = fin
  <2>1. PICK x \in Dir, v \in Changes : x = Head(blane).d /\ v = Head(blane).v
    BY <1>7
  <2>2. /\ staging # None /\ staging' \in Stagings /\ staging'.id = s /\ staging'.buf = staging.buf
        /\ staging'.view[x] = v /\ \A e \in Dir \ {x} : staging'.view[e] = staging.view[e]
    BY <1>1, <1>7, <2>1, StagingFields
  <2>3. staging' # None
    BY <2>2, StagingFields
  <2>4. Staged(d) => Staged(d)'
    <3>1. CASE d = x
      <4>1. /\ ~ Asked(s, d) /\ ~ OnLane(s, d)' /\ OnLane(s, d)
            /\ \A i \in DOMAIN blane : blane[i].id = s /\ blane[i].d = d => blane[i] = Head(blane)
        BY <1>1, <1>2, <1>7, <2>1, <3>1, TakenLane
      <4>2. Staged(d) => v = guest[d]
        BY <1>1, <2>1, <4>1 DEF Staged
      <4>3. v = guest[d] => Staged(d)'
        BY <1>2, <2>2, <3>1, <4>1 DEF Staged, OnLane
      <4> QED
        BY <4>2, <4>3
    <3>2. CASE d # x
      <4>1. /\ OnLane(s, d)' <=> OnLane(s, d)
            /\ \A i \in DOMAIN blane : blane[i].id = s /\ blane[i].d = d => \E j \in DOMAIN blane' : blane'[j] = blane[i]
        BY <1>2, <2>1, <3>2, TakenLane
      <4>2. ASSUME Asked(s, d) PROVE Staged(d)'
        BY <1>3, <2>2, <4>2 DEF Staged, Asked
      <4>3. ASSUME NEW i \in DOMAIN blane, blane[i].id = s, blane[i].d = d, blane[i].v = guest[d] PROVE Staged(d)'
        <5>1. PICK j \in DOMAIN blane' : blane'[j] = blane[i]
          BY <4>1, <4>3
        <5> QED
          BY <1>2, <2>2, <4>3, <5>1 DEF Staged
      <4>4. ASSUME ~ OnLane(s, d), staging.view[d] = guest[d] PROVE Staged(d)'
        BY <1>2, <2>2, <3>2, <4>1, <4>4 DEF Staged, OnLane
      <4> QED
        BY <1>1, <4>2, <4>3, <4>4 DEF Staged
    <3> QED
      BY <3>1, <3>2
  <2> QED
    BY <1>2, <2>2, <2>3, <2>4 DEF Base
<1> QED
  BY <1>4, <1>5, <1>6, <1>7, TakeSnapEffect

\* on_journal takes a batch: what it says of the directory, if it does, is right.
LEMMA TakeBatchBase ==
    ASSUME IInv, NEW d \in Dir, TakeBatch,
           Ends(Head(jlane).recs, d, guest[d]) \/ (Quiet(Head(jlane).recs, d) /\ Base(d))
    PROVE  Base(d)'
<1>1. jrn = None /\ Head(jlane) \in Batch /\ UNCHANGED <<guest, walks, blane, fin, live>>
  BY TakeEffect DEF gvars
<1>2. PICK g \in {guest[d]}, h \in Batch : g = guest[d] /\ h = Head(jlane)
  BY <1>1
<1>3. CASE Resync
  BY <1>3, ResyncBase
<1>4. CASE staging \in Stagings /\ staging # None /\ staging' = Buffered(staging, Head(jlane)) /\ UNCHANGED <<starts, jrn>>
  <2>1. /\ staging' \in Stagings /\ staging'.id = staging.id /\ staging'.view = staging.view
        /\ staging'.buf = Append(staging.buf, h) /\ staging.buf \in Seq(Batch)
    BY <1>2, <1>4, StagingFields
  <2>2. staging' # None
    BY <2>1, StagingFields
  <2>3. /\ Ends(h.recs, d, g) => BEnds(staging'.buf, d, g)
        /\ Quiet(h.recs, d) /\ BEnds(staging.buf, d, g) => BEnds(staging'.buf, d, g)
        /\ Quiet(h.recs, d) /\ BQuiet(staging.buf, d) => BQuiet(staging'.buf, d)
    BY <2>1, BatchAppend
  <2>4. Staged(d) => Staged(d)'
    BY <1>1, <1>4, <2>1 DEF Staged, Asked, OnLane
  <2>5. Base(d) => BEnds(staging.buf, d, g) \/ (BQuiet(staging.buf, d) /\ Staged(d))
    BY <1>2, <1>4 DEF Base
  <2>6. BEnds(staging'.buf, d, g) \/ (BQuiet(staging'.buf, d) /\ Staged(d)')
    BY <1>2, <2>3, <2>4, <2>5
  <2>7. g = guest'[d]
    BY <1>1, <1>2
  <2> QED
    BY <2>2, <2>6, <2>7 DEF Base
<1>5. CASE staging = None /\ jrn' = [id |-> 1, b |-> Head(jlane), at |-> "pick"] /\ UNCHANGED staging
  <2>1. jrn' \in Jrns /\ jrn'.b = h
    BY <1>1, <1>2, <1>5, JrnFields
  <2>2. jrn' # None
    BY <2>1, JrnFields
  <2>3. Base(d) => Under(d)
    BY <1>1, <1>5 DEF Base
  <2>4. Under(d) => Under(d)'
    BY <1>1 DEF Under, SwapPending
  <2>5. g = guest'[d]
    BY <1>1, <1>2
  <2> QED
    BY <1>2, <1>5, <2>1, <2>2, <2>3, <2>4, <2>5 DEF Base
<1> QED
  BY <1>3, <1>4, <1>5, TakeEffect

\* on_journal picks the replica of the moment.
LEMMA PickBase ==
    ASSUME IInv, NEW d \in Dir, PickReplica, Base(d), due' = {}
    PROVE  Base(d)'
<1>1. /\ jrn # None /\ jrn.at = "pick" /\ UNCHANGED <<guest, staging, fin, live>>
      /\ jrn' # None /\ jrn'.b = jrn.b
  BY PickEffect DEF gvars
<1>2. staging = None
  BY <1>1 DEF IInv, Host
<1>3. ~ Doomed
  BY <1>1 DEF Doomed
<1>4. Ends(jrn.b.recs, d, guest[d]) \/ (Quiet(jrn.b.recs, d) /\ Under(d))
  BY <1>1, <1>2, <1>3 DEF Base
<1>5. Under(d) => Under(d)'
  BY <1>1 DEF Under, SwapPending
<1> QED
  BY <1>1, <1>2, <1>4, <1>5 DEF Base

\* The batch is applied.
LEMMA ApplyBase ==
    ASSUME IInv, NEW d \in Dir, ApplyBatch, Base(d) \/ Resync, due' = {}
    PROVE  Base(d)'
<1>1. CASE Resync
  BY <1>1, ResyncBase
<1>2. CASE ~ Resync
  <2>1. /\ jrn \in Jrns /\ jrn # None /\ jrn' = None /\ staging = None /\ staging' = None /\ UNCHANGED <<guest, fin>>
        /\ jrn.at = "apply" /\ ~ SwapPending /\ (\A i \in DOMAIN jrn.b.recs : jrn.b.recs[i] # OVERFLOW)
        /\ live' = [live EXCEPT !.view = ApplyRecs(live.view, jrn.b.recs)]
    BY <1>2, ApplyEffect DEF gvars
  <2>2. PICK r \in Seq(Rec) : r = jrn.b.recs
    BY <2>1, JrnFields, BatchFields
  <2>3. live \in Lives
    BY DEF IInv, Host
  <2>4. PICK u \in View : u = live.view
    BY <2>3, LiveFields DEF Lives
  <2>5. PICK w \in View : w = ApplyRecs(u, r)
    BY ApplyRecsType
  <2>6. live'.view = w
    BY <2>1, <2>2, <2>3, <2>4, <2>5, LiveFields
  <2>7. PICK g : g = guest[d]
    OBVIOUS
  <2>8. (Quiet(r, d) => w[d] = u[d]) /\ (Ends(r, d, g) => w[d] = g)
    BY <2>1, <2>2, <2>5, ApplyRecsIs
  <2>9. Ends(r, d, g) \/ (Quiet(r, d) /\ u[d] = g)
    <3>1. ~ Doomed
      BY <2>1 DEF Doomed
    <3> QED
      BY <1>2, <2>1, <2>2, <2>4, <2>7, <3>1 DEF Base, Under
  <2>10. live'.view[d] = guest'[d] /\ ~ SwapPending'
    BY <2>1, <2>6, <2>7, <2>8, <2>9 DEF SwapPending
  <2> QED
    BY <2>1, <2>10 DEF Base, Under
<1> QED
  BY <1>1, <1>2

\* The replica is swapped in with its buffer replayed.
LEMMA SwapBase ==
    ASSUME IInv, NEW d \in Dir, SwapReplica, Base(d), due' = {}
    PROVE  Base(d)'
<1>1. /\ SwapPending /\ fin \in Fins /\ fin' \in Fins /\ fin'.at = "seq"
      /\ UNCHANGED <<guest, starts, walks, blane, staging>> /\ live'.view = Replay(fin.view, fin.buf)
      /\ (jrn' = None <=> jrn = None)
      /\ (jrn # None => jrn \in Jrns /\ jrn' \in Jrns /\ jrn'.b = jrn.b /\ (jrn.at = "apply" => jrn'.at = "replaced")
                        /\ (jrn.at # "apply" => jrn' = jrn))
      /\ ~ Overflowed(fin.buf)
  BY SwapEffect DEF gvars, lvars
<1>2. PICK g : g = guest[d]
  OBVIOUS
<1>3. ~ SwapPending'
  BY <1>1 DEF SwapPending
<1>4. ASSUME Under(d) PROVE Under(d)'
  <2>1. fin.view \in View /\ fin.buf \in Seq(Batch)
    BY <1>1, FinFields
  <2>2. (BQuiet(fin.buf, d) => live'.view[d] = fin.view[d]) /\ (BEnds(fin.buf, d, g) => live'.view[d] = g)
    BY <1>1, <2>1, ReplayIs
  <2>3. BEnds(fin.buf, d, g) \/ (BQuiet(fin.buf, d) /\ fin.view[d] = g)
    BY <1>1, <1>2, <1>4 DEF Under
  <2>4. live'.view[d] = guest'[d]
    BY <1>1, <1>2, <2>2, <2>3
  <2> QED
    BY <1>3, <2>4 DEF Under
<1>5. CASE staging # None
  <2>1. Staged(d) => Staged(d)'
    BY <1>1 DEF Staged, Asked, OnLane
  <2> QED
    BY <1>1, <1>5, <2>1 DEF Base
<1>6. CASE staging = None /\ jrn = None
  BY <1>1, <1>4, <1>6 DEF Base
<1>7. CASE staging = None /\ jrn # None
  <2>1. CASE jrn.at \in {"apply", "replaced"}
    <3>1. Doomed'
      BY <1>1, <1>7, <2>1 DEF Doomed
    <3> QED
      BY <1>1, <1>7, <3>1 DEF Base
  <2>2. CASE jrn.at \notin {"apply", "replaced"}
    <3>1. ~ Doomed /\ jrn' = jrn
      BY <1>1, <1>7, <2>2 DEF Doomed
    <3>2. Ends(jrn.b.recs, d, guest[d]) \/ (Quiet(jrn.b.recs, d) /\ Under(d))
      BY <1>7, <3>1 DEF Base
    <3> QED
      BY <1>1, <1>4, <1>7, <3>1, <3>2 DEF Base
  <2> QED
    BY <2>1, <2>2
<1> QED
  BY <1>5, <1>6, <1>7

\* finish_seed is over.
LEMMA SetSeqBase ==
    ASSUME IInv, NEW d \in Dir, SetSeq, Base(d)
    PROVE  Base(d)'
<1>1. fin.at = "seq" /\ fin' = None /\ UNCHANGED <<guest, starts, walks, blane, staging, jrn, live>>
  BY DEF SetSeq, gvars, lvars
<1>2. ~ SwapPending /\ ~ SwapPending'
  BY <1>1 DEF SwapPending
<1>3. (Under(d) => Under(d)') /\ (Doomed => Doomed')
  BY <1>1, <1>2 DEF Under, Doomed
<1>4. Staged(d) => Staged(d)'
  BY <1>1 DEF Staged, Asked, OnLane
<1> QED
  BY <1>1, <1>3, <1>4 DEF Base

\* Where the stream has no word on a directory, what it is applied to is right.
LEMMA BasedStep ==
    ASSUME IInv, [Next]_vars
    PROVE  Based'
<1> SUFFICES ASSUME due' = {}, up', NEW d \in Dir PROVE Newer(d)' \/ (AllQuiet(d)' /\ Base(d)')
  BY DEF Based
<1>1. due \cap Lasting = {}
  BY LastingGrows
<1>2. Newer(d) \/ AllQuiet(d)
  BY <1>1 DEF IInv, Piped
<1>3. due = {} /\ up => Newer(d) \/ (AllQuiet(d) /\ Base(d))
  BY DEF IInv, Based
<1>4. CASE Upstream
  <2>1. due = {} /\ (Newer(d) => Newer(d)') /\ (AllQuiet(d) => Newer(d)' \/ (AllQuiet(d)' /\ guest'[d] = guest[d]))
    BY <1>4, UpstreamStream
  <2>2. UNCHANGED <<starts, walks, blane, svars, hvars>>
    BY <1>4, UpstreamKeeps DEF Upstream
  <2>3. up
    BY <2>2 DEF svars
  <2> QED
    BY <1>3, <2>1, <2>2, <2>3, BaseSame
<1>5. CASE TakeBatch
  <2>1. /\ Newer(d) => Newer(d)' \/ (AllQuiet(d)' /\ Ends(Head(jlane).recs, d, guest[d]))
        /\ AllQuiet(d) => AllQuiet(d)' /\ Quiet(Head(jlane).recs, d)
    BY <1>5, TakeStream
  <2>2. CASE Resync
    BY <1>2, <2>1, <2>2, ResyncBase
  <2>3. CASE ~ Resync
    <3>1. due' = due /\ up' = up
      BY <1>5, <2>3, TakeEffect
    <3> QED
      BY <1>3, <1>5, <2>1, <3>1, TakeBatchBase
  <2> QED
    BY <2>2, <2>3
<1>6. CASE Walking \/ PickReplica \/ ApplyBatch \/ TakeSnap \/ SwapReplica \/ SetSeq \/ Connect
  <2>1. (Newer(d)' <=> Newer(d)) /\ (AllQuiet(d)' <=> AllQuiet(d))
    BY <1>6, HostStream, StreamSame
  <2>2. CASE Resync
    BY <1>2, <2>1, <2>2, ResyncBase
  <2>3. CASE ~ Resync
    <3>1. ~ Connect
      BY <2>3 DEF Connect
    <3>2. up' = up /\ due \subseteq due'
      <4>1. Walking => up' = up /\ due' = due
        BY WalkLane DEF svars
      <4>2. ApplyBatch => up' = up /\ due \subseteq due'
        BY <2>3, ApplyEffect
      <4>3. PickReplica \/ TakeSnap \/ SwapReplica \/ SetSeq => up' = up /\ due \subseteq due'
        BY DEF PickReplica, TakeSnap, SwapReplica, SetSeq, svars
      <4> QED
        BY <1>6, <3>1, <4>1, <4>2, <4>3
    <3>3. Newer(d) \/ (AllQuiet(d) /\ Base(d))
      BY <1>3, <3>2
    <3>4. Base(d) => Base(d)'
      BY <1>6, <3>1, WalkBase, PickBase, ApplyBase, TakeSnapBase, SwapBase, SetSeqBase
    <3> QED
      BY <2>1, <3>3, <3>4
  <2> QED
    BY <2>2, <2>3
<1>7. CASE EndSession
  BY <1>7 DEF EndSession
<1> QED
  BY <1>4, <1>5, <1>6, <1>7, HostKinds DEF Upstream

-----------------------------------------------------------------------------
(***************************************************************************)
(* The theorems.                                                           *)
(***************************************************************************)
\* It holds at the start.
LEMMA InitIInv == Init => IInv
<1> SUFFICES ASSUME Init PROVE IInv
  OBVIOUS
<1>1. /\ guest = [d \in Dir |-> 0] /\ kq = <<>> /\ rfull = FALSE /\ chan = <<>> /\ bseq = 1
      /\ sub = FALSE /\ bcast = <<>> /\ lagged = FALSE /\ jlane = <<>> /\ starts = {} /\ walks = <<>> /\ blane = <<>>
      /\ session = 0 /\ up = FALSE /\ snaps = 0 /\ staging = None /\ seq = NoSeq /\ fin = None /\ jrn = None
      /\ live = [state |-> "Seeding", view |-> Fresh] /\ due = {}
  BY DEF Init
<1>2. 0 \in Changes /\ MaxSession \in Nat
  BY SyncAssumption DEF Changes
<1>3. Guest
  <2>1. guest \in [Dir -> Changes] /\ kq \in Seq(Rec) /\ chan \in Seq(Rec) /\ bseq \in Nat
    BY <1>1, <1>2
  <2> QED
    BY <1>1, <2>1 DEF Guest
<1>4. Stream
  <2>1. bcast \in Seq(Batch) /\ jlane \in Seq(Batch)
    BY <1>1
  <2>2. sub \in BOOLEAN /\ lagged \in BOOLEAN
    BY <1>1, Zenon
  <2> QED
    BY <1>1, <2>1, <2>2 DEF Stream
<1>5. Walks /\ Scanned /\ Ordered
  <2>1. DOMAIN walks = {} /\ walks \in [DOMAIN walks -> SUBSET Dir] /\ DOMAIN blane = {} /\ blane \in Seq(Snap)
    BY <1>1
  <2> QED
    BY <1>1, <2>1 DEF Walks, Scanned, Ordered
<1>6. Host /\ Whole
  <2>1. Fresh \in View
    BY DEF Fresh, View
  <2>2. live \in Lives /\ live.state = "Seeding"
    BY <1>1, <2>1 DEF Lives
  <2>3. session \in 0 .. MaxSession /\ seq \in Nat \cup {SEQ_ADOPT, NoSeq}
    BY <1>1, <1>2
  <2>4. up \in BOOLEAN
    BY <1>1, Zenon
  <2> QED
    BY <1>1, <2>2, <2>3, <2>4 DEF Host, Whole
<1>7. Piped /\ Based
  <2>1. \A d \in Dir : AllQuiet(d)
    BY <1>1, EmptyQuiet DEF AllQuiet
  <2> QED
    BY <1>1, <2>1 DEF Piped, Based
<1> QED
  BY <1>3, <1>4, <1>5, <1>6, <1>7 DEF IInv

\* It holds throughout.
LEMMA Invariance == Spec => []IInv
<1>1. IInv /\ [Next]_vars => IInv'
  BY GuestStep, StreamStep, WalksStep, HostStep, WholeStep, PipedStep, BasedStep DEF IInv
<1> QED
  BY <1>1, InitIInv, PTL DEF Spec

\* Every variable has its type.
THEOREM TypeCorrect == Spec => []TypeOK
<1>1. IInv => TypeOK
  <2> SUFFICES ASSUME IInv PROVE TypeOK
    OBVIOUS
  <2>1. Guest /\ Stream /\ Walks /\ Scanned /\ Host
    BY DEF IInv
  <2>2. staging # None => staging.id \in 1 .. snaps /\ staging.view \in View /\ staging.buf \in Seq(Batch)
    <3>1. ASSUME staging # None PROVE staging.id \in Nat \ {0} /\ staging.view \in View /\ staging.buf \in Seq(Batch)
      BY <2>1, <3>1, StagingFields DEF Host
    <3>2. staging # None => staging.id <= snaps /\ snaps \in Nat
      BY <2>1 DEF Host, Walks
    <3> QED
      BY <3>1, <3>2
  <2>3. fin # None => fin.view \in View /\ fin.buf \in Seq(Batch) /\ fin.at \in {"swap", "seq"}
    BY <2>1, FinFields DEF Host
  <2>4. jrn # None => jrn.b \in Batch /\ jrn.at \in {"pick", "apply", "replaced"}
    BY <2>1, JrnFields DEF Host
  <2>5. live.state \in {"Seeding", "Live"} /\ live.view \in View
    BY <2>1 DEF Host, Lives
  <2>6. \A i \in DOMAIN walks : walks[i] \subseteq Dir
    BY <2>1 DEF Walks
  <2>7. /\ starts \in SUBSET (1 .. snaps) /\ DOMAIN walks \subseteq 1 .. snaps /\ snaps \in Nat
        /\ \A i \in DOMAIN blane : blane[i].id \in 1 .. snaps
    BY <2>1 DEF Walks, Scanned
  <2>8. /\ guest \in [Dir -> Changes] /\ kq \in Seq(Rec) /\ rfull \in BOOLEAN /\ chan \in Seq(Rec) /\ bseq \in Nat
        /\ sub \in BOOLEAN /\ bcast \in Seq(Batch) /\ lagged \in BOOLEAN /\ jlane \in Seq(Batch)
    BY <2>1 DEF Guest, Stream
  <2>9. session \in 0 .. MaxSession /\ up \in BOOLEAN /\ seq \in Nat \cup {SEQ_ADOPT, NoSeq}
        /\ due \subseteq Lasting \cup {"overflow", "unsubscribed", "seed"}
    BY <2>1 DEF Host
  <2> QED
    BY <2>2, <2>3, <2>4, <2>5, <2>6, <2>7, <2>8, <2>9 DEF TypeOK
<1> QED
  BY <1>1, Invariance, PTL

\* A replica that readers see has been told about every directory (finish_seed).
THEOREM NothingHalfBuilt == Spec => []NeverHalfBuilt
<1>1. IInv => NeverHalfBuilt
  BY DEF IInv, Whole, NeverHalfBuilt
<1> QED
  BY <1>1, Invariance, PTL

\* Once everything has drained and no snapshot is due, the host has what the guest has.
THEOREM HostConverges == Spec => []Converged
<1>1. IInv => Converged
  <2> SUFFICES ASSUME IInv, Quiescent, due = {} PROVE live.view = guest
    BY DEF Converged
  <2>1. /\ up /\ kq = <<>> /\ chan = <<>> /\ bcast = <<>> /\ ~ lagged /\ jlane = <<>>
        /\ staging = None /\ fin = None /\ jrn = None
    BY DEF Quiescent
  <2>2. ASSUME NEW d \in Dir PROVE live.view[d] = guest[d]
    <3>1. ~ Newer(d)
      <4>1. ~ Ends(<<>>, d, guest[d]) /\ ~ BEnds(<<>>, d, guest[d])
        BY DEF Ends, BEnds
      <4> QED
        BY <2>1, <4>1 DEF Newer
    <3>2. Base(d)
      BY <2>1, <3>1 DEF IInv, Based
    <3> QED
      BY <2>1, <3>2 DEF Base, Under, SwapPending
  <2>3. live.view \in View /\ guest \in [Dir -> Changes]
    BY DEF IInv, Host, Lives, Guest
  <2> QED
    BY <2>2, <2>3 DEF View
<1> QED
  BY <1>1, Invariance, PTL

=============================================================================
