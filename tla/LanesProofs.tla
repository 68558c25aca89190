----------------------------- MODULE LanesProofs -----------------------------
(***************************************************************************)
(* What holds of a session's life for any number of faults and changes:    *)
(* the types, that no request for a snapshot is dropped while the host     *)
(* waits for it, and that a seeded replica is current.                     *)
(*                                                                         *)
(* A request that waits for its bulk lane is never older than the pings    *)
(* that are unanswered (Aged), so the host gives up first.  A replica is   *)
(* current because the journal lane was attached before the scan and every *)
(* change since is on the lane, or has been heard (Followed): whatever a   *)
(* walk carries, it or what was heard last is the guest's version when     *)
(* nothing is on the lane.                                                 *)
(***************************************************************************)
EXTENDS Lanes, TLAPS

Marks == [sess : Session, ver : Nat]
Scans == [sess : Session, ver : Nat \cup {-1}]
Waits == [sess : Session, age : Nat]
Reps  == [sess : Nat, ver : Nat]
Asms  == [staging : BOOLEAN, heard : Nat]

Types ==
    /\ pc \in {"connect", "hello", "lanes", "run", "backoff"} /\ sess \in 0 .. MaxFault + 1
    /\ missed \in 0 .. PING_MISSES /\ gver \in Nat
    /\ asm \in [Session -> Asms] /\ rep \in Reps
    /\ blocking \subseteq Marks /\ done \subseteq Marks /\ jq \subseteq Marks /\ walks \subseteq Scans /\ waits \subseteq Waits
    /\ held \subseteq Session \X Lane /\ hellos \subseteq Session \X Lane /\ ends \subseteq Session \X Lane
    /\ cut \subseteq Session \X Lane /\ starts \subseteq Session /\ mute \subseteq Session /\ table \subseteq Session
    /\ lost \in BOOLEAN /\ late \in BOOLEAN /\ overtaken \in BOOLEAN
Setup ==
    /\ rpc = (IF pc = "run" THEN sess ELSE 0) /\ ((vm = "Ready") <=> (pc = "run"))
    /\ \A s \in Session : s \in table <=> <<s, "ctl">> \in ends

\* Everything there is belongs to a session there has been.
Past ==
    /\ \A c \in held \cup hellos \cup ends \cup cut : c[1] <= sess
    /\ \A s \in starts \cup mute : s <= sess
    /\ \A w \in waits \cup walks \cup done \cup jq \cup blocking : w.sess <= sess
    /\ rep.sess <= sess
Versions ==
    /\ \A w \in walks \cup done \cup jq \cup blocking : w.ver <= gver
    /\ rep.ver <= gver /\ \A s \in Session : asm[s].heard <= gver

\* A session that is being set up has asked for nothing yet.
Unasked ==
    pc \in {"hello", "lanes"} =>
        /\ sess \in Session /\ sess \notin starts
        /\ \A w \in waits \cup walks \cup done \cup blocking : w.sess # sess
        /\ pc = "hello" => \A b \in jq : b.sess # sess

\* Its lanes are dialled one after the other.
Dialled ==
    /\ pc = "hello" => <<sess, "ctl">> \in held /\ <<sess, "journal">> \notin held
    /\ pc = "lanes" =>
          /\ <<sess, "ctl">> \in held
          /\ \/ todo = <<"journal", "rpc", "bulk">>
             \/ todo = <<"rpc", "bulk">> /\ <<sess, "journal">> \in held
             \/ todo = <<"bulk">> /\ <<sess, "journal">> \in held /\ <<sess, "rpc">> \in held
             \/ todo = <<>> /\ Of(sess) \subseteq held
    /\ pc = "run" => sess \in Session /\ Of(sess) \subseteq held
    /\ pc \in {"hello", "lanes", "run"} => \A l \in Lane : <<sess, l>> \in hellos \cup ends => <<sess, l>> \in held

\* A request that waits is no older than the pings that are unanswered.
Aged ==
    /\ pc = "run" => \A w \in waits : w.sess = sess => w.age <= missed
    /\ \A w \in waits : w.age <= BULK_WAIT
    /\ ~ lost

\* The session works, so far as anybody can tell.
Clean  == pc \in {"lanes", "run"} /\ sess \notin mute /\ Of(sess) \cap cut = {}
Queued == {b \in jq : b.sess = sess}

\* The journal lane has every change since it was attached.
Attached ==
    Clean => /\ Queued # {} => <<sess, "journal">> \in ends /\ \E b \in Queued : b.ver = gver
             /\ (~ late /\ \E w \in walks \cup done \cup blocking : w.sess = sess) => <<sess, "journal">> \in ends
             /\ (~ late /\ pc = "run" /\ ~ asm[sess].staging) => <<sess, "journal">> \in ends

\* What a walk carries, or was heard last, or the replica has, is the guest's version
\* once nothing is on the lane.
Followed ==
    Clean /\ ~ late /\ Queued = {} =>
        /\ \A w \in walks \cup done \cup blocking : w.sess = sess /\ w.ver # -1 => w.ver = gver \/ asm[sess].heard = gver
        /\ pc = "run" /\ ~ asm[sess].staging /\ ~ overtaken => rep.ver = gver
Seeded == pc = "run" /\ ~ asm[sess].staging /\ ~ overtaken /\ Clean => rep.sess = sess

IInv == Types /\ Setup /\ Past /\ Versions /\ Unasked /\ Dialled /\ Aged /\ Attached /\ Followed /\ Seeded

-----------------------------------------------------------------------------
(***************************************************************************)
(* The Assemblers, the marks and the replica.                              *)
(***************************************************************************)
\* What can happen to the Assembler of a session.
Begins(a, s)  == [a EXCEPT ![s].staging = TRUE]
Stops(a, s)   == [a EXCEPT ![s].staging = FALSE]
Hear(a, s, h) == [a EXCEPT ![s].heard = h]
Drop(a, s)    == [a EXCEPT ![s] = NoAsm]

\* It begins or ends its snapshot.
LEMMA AsmStaged ==
    ASSUME NEW a \in [Session -> Asms], NEW s \in Session
    PROVE  /\ Begins(a, s) \in [Session -> Asms] /\ Begins(a, s)[s].staging
           /\ \A r \in Session : Begins(a, s)[r].heard = a[r].heard
           /\ Stops(a, s) \in [Session -> Asms] /\ ~ Stops(a, s)[s].staging
           /\ \A r \in Session : Stops(a, s)[r].heard = a[r].heard
           /\ \A r \in Session : r # s => Stops(a, s)[r] = a[r]
BY DEF Asms, Begins, Stops

\* It hears of a change.
LEMMA AsmHears ==
    ASSUME NEW a \in [Session -> Asms], NEW s \in Session, NEW h \in Nat
    PROVE  /\ Hear(a, s, h) \in [Session -> Asms] /\ Hear(a, s, h)[s].heard = h
           /\ \A r \in Session : Hear(a, s, h)[r].staging = a[r].staging
           /\ \A r \in Session : r # s => Hear(a, s, h)[r] = a[r]
BY DEF Asms, Hear

\* It goes.
LEMMA AsmGoes ==
    /\ \A a \in [Session -> Asms], s \in Session :
          /\ Drop(a, s) \in [Session -> Asms]
          /\ \A r \in Session : Drop(a, s)[r].heard = 0 \/ Drop(a, s)[r].heard = a[r].heard
    /\ [r \in Session |-> NoAsm] \in [Session -> Asms] /\ \A r \in Session : [q \in Session |-> NoAsm][r].heard = 0
BY DEF Asms, NoAsm, Drop

\* Marks of a session and a version, and the replica.
LEMMA MarkFields ==
    /\ \A m \in Marks : m.sess \in Session /\ m.ver \in Nat
    /\ \A s \in Session, v \in Nat : [sess |-> s, ver |-> v] \in Marks /\ [sess |-> s, ver |-> v].sess = s
                                     /\ [sess |-> s, ver |-> v].ver = v
    /\ \A m \in Marks, k \in Marks : m.sess = k.sess /\ m.ver = k.ver => m = k
BY DEF Marks

\* The replica: another one, or another version.
LEMMA RepFields ==
    /\ \A r \in Reps : r.sess \in Nat /\ r.ver \in Nat
    /\ \A s \in Nat, v \in Nat : [sess |-> s, ver |-> v] \in Reps /\ [sess |-> s, ver |-> v].sess = s
                                 /\ [sess |-> s, ver |-> v].ver = v
    /\ \A r \in Reps, v \in Nat : [r EXCEPT !.ver = v] \in Reps /\ [r EXCEPT !.ver = v].sess = r.sess
                                  /\ [r EXCEPT !.ver = v].ver = v
    /\ \A r \in Reps, s \in Nat, v \in Nat : r.sess = s /\ r.ver = v => r = [sess |-> s, ver |-> v]
BY DEF Reps

\* Walks, before and after the scan.
LEMMA ScanFields ==
    /\ \A w \in Scans : w.sess \in Session /\ w.ver \in Nat \cup {-1} /\ (w.ver # -1 => w \in Marks)
    /\ \A s \in Session : [sess |-> s, ver |-> -1] \in Scans /\ [sess |-> s, ver |-> -1].sess = s /\ [sess |-> s, ver |-> -1].ver = -1
    /\ \A w \in Scans, v \in Nat : [w EXCEPT !.ver = v] \in Scans /\ [w EXCEPT !.ver = v].sess = w.sess
                                   /\ [w EXCEPT !.ver = v].ver = v
BY DEF Scans, Marks

\* Requests that wait.
LEMMA WaitFields ==
    /\ \A w \in Waits : w.sess \in Session /\ w.age \in Nat
    /\ \A s \in Session : [sess |-> s, age |-> 0] \in Waits /\ [sess |-> s, age |-> 0].sess = s /\ [sess |-> s, age |-> 0].age = 0
    /\ \A w \in Waits : /\ [w EXCEPT !.age = @ + 1] \in Waits /\ [w EXCEPT !.age = @ + 1].sess = w.sess
                        /\ [w EXCEPT !.age = @ + 1].age = w.age + 1
BY DEF Waits

\* A number of a session is a number.
LEMMA SessionIs ==
    /\ Session \subseteq Nat /\ MaxFault \in Nat /\ \A s \in Session : s >= 1 /\ s <= MaxFault + 1
    /\ \A s \in Nat : s < MaxFault + 1 => s + 1 \in Session /\ s + 1 \in 0 .. MaxFault + 1
BY LanesAssumption DEF Session

\* The greater of two numbers.
LEMMA MaxIs ==
    ASSUME NEW a \in Nat, NEW b \in Nat
    PROVE  Max({a, b}) \in {a, b} /\ a <= Max({a, b}) /\ b <= Max({a, b})
<1>1. \E x \in {a, b} : \A y \in {a, b} : x >= y
  OBVIOUS
<1> QED
  BY <1>1 DEF Max

\* The kinds of steps.
LEMMA Kinds ==
    ASSUME [Next]_vars
    PROVE  \/ Connect \/ HelloAck \/ HelloFails \/ DialLane \/ DialFails \/ Begin \/ EndSession \/ Backoff
           \/ (\E b \in jq : TakeJournal(b)) \/ (\E d \in done : TakeDone(d)) \/ Pong
           \/ (\E h \in hellos : Accept(h)) \/ (\E s \in starts : ReadStart(s))
           \/ (\E w \in waits : StartWalk(w)) \/ (\E w \in waits : DropStart(w))
           \/ (\E w \in walks : Scan(w)) \/ (\E w \in walks : SendDone(w))
           \/ (\E s \in Session, l \in Lane : Notice(s, l)) \/ Tick \/ Change
           \/ (\E b \in blocking : Swap(b)) \/ (\E l \in Lane : LaneDies(l))
           \/ FallSilent \/ GuestRestart \/ HostRestart \/ UNCHANGED vars
BY DEF Next, HostStep, GuestStep

-----------------------------------------------------------------------------
(***************************************************************************)
(* What the steps do.                                                      *)
(***************************************************************************)
\* The end of a session takes from the host what was the session's.
LEMMA EndedEffect ==
    ASSUME IInv, pc = "run", NEW p, Ended(p)
    PROVE  /\ pc' = "backoff" /\ vm' = "Degraded" /\ rpc' = 0
           /\ held' \subseteq held /\ cut' \subseteq cut /\ done' \subseteq done /\ jq' \subseteq jq
           /\ asm' \in [Session -> Asms] /\ \A s \in Session : asm'[s].heard = 0 \/ asm'[s].heard = asm[s].heard
<1>1. sess \in Session /\ Of(sess) \subseteq held /\ asm \in [Session -> Asms]
  BY DEF IInv, Dialled, Types
<1>2. <<sess, "rpc">> \in held /\ <<sess, "ctl">> \in held
  BY <1>1 DEF Of, Lane
<1>3. held' \subseteq held
  BY <1>2 DEF Ended
<1>4. asm' = Drop(asm, sess)
  BY DEF Ended, Drop
<1>5. asm' \in [Session -> Asms] /\ \A s \in Session : asm'[s].heard = 0 \/ asm'[s].heard = asm[s].heard
  BY <1>1, <1>4, AsmGoes
<1> QED
  BY <1>3, <1>5 DEF Ended

\* A second: the requests grow older and a ping is missed, or the session ends.
LEMMA TickEffect ==
    ASSUME IInv, Tick
    PROVE  /\ pc = "run" /\ waits' \subseteq Waits
           /\ \A x \in waits' : \E w \in waits :
                 x.sess = w.sess /\ (x.age = w.age \/ (x.age = w.age + 1 /\ w.sess = sess /\ w.age < BULK_WAIT))
           /\ \/ Ended(TRUE) /\ missed' = 0
              \/ missed < PING_MISSES /\ missed' = missed + 1 /\ UNCHANGED <<pc, vm, rpc, held, cut, done, jq, asm>>
           /\ UNCHANGED <<sess, todo, peer, cache, blocking, rep, hellos, starts, mute, table, ends, walks, gver, hist>>
<1>0. waits \subseteq Waits /\ missed \in Nat /\ PING_MISSES \in Nat
  BY LanesAssumption DEF IInv, Types
<1>1. pc = "run" /\ UNCHANGED <<sess, todo, peer, cache, blocking, rep, hellos, starts, mute, table, ends, walks, gver, hist>>
  BY DEF Tick
<1>2. waits' = {IF w.sess = sess /\ w.age < BULK_WAIT THEN [w EXCEPT !.age = @ + 1] ELSE w : w \in waits}
  BY DEF Tick
<1>3. ASSUME NEW x \in waits'
      PROVE  x \in Waits /\ \E w \in waits :
                 x.sess = w.sess /\ (x.age = w.age \/ (x.age = w.age + 1 /\ w.sess = sess /\ w.age < BULK_WAIT))
  <2>1. PICK w \in waits : x = IF w.sess = sess /\ w.age < BULK_WAIT THEN [w EXCEPT !.age = @ + 1] ELSE w
    BY <1>2
  <2>2. w \in Waits
    BY <1>0
  <2> QED
    BY <2>1, <2>2, WaitFields
<1>4. CASE missed >= PING_MISSES
  BY <1>1, <1>3, <1>4 DEF Tick
<1>5. CASE ~(missed >= PING_MISSES)
  <2>1. missed < PING_MISSES
    BY <1>0, <1>5
  <2> QED
    BY <1>1, <1>3, <1>5, <2>1 DEF Tick
<1> QED
  BY <1>4, <1>5

\* A change of the guest.
LEMMA ChangeEffect ==
    ASSUME IInv, Change
    PROVE  /\ gver' = gver + 1 /\ jq \subseteq jq' /\ ends' \subseteq ends
           /\ UNCHANGED <<hostState, held, hellos, starts, done, cut, mute, table, waits, walks, hist>>
           /\ \A m \in jq' \ jq : m \in Marks /\ m.ver = gver + 1 /\ <<m.sess, "journal">> \in ends /\ Works(m.sess, "journal")
           /\ \A s \in Session : <<s, "journal">> \in ends /\ Works(s, "journal") =>
                 [sess |-> s, ver |-> gver + 1] \in jq' /\ <<s, "journal">> \in ends'
           /\ \A c \in ends \ ends' : c[2] = "journal"
<1>0. gver \in Nat
  BY DEF IInv, Types
<1> DEFINE subs == {s \in Session : <<s, "journal">> \in ends}
           lives == {s \in subs : Works(s, "journal")}
<1>1. /\ gver' = gver + 1 /\ jq' = jq \cup {[sess |-> s, ver |-> gver + 1] : s \in lives}
      /\ ends' = ends \ {<<s, "journal">> : s \in subs \ lives}
      /\ UNCHANGED <<hostState, held, hellos, starts, done, cut, mute, table, waits, walks, hist>>
  BY DEF Change
<1>2. ASSUME NEW m \in jq' \ jq
      PROVE  m \in Marks /\ m.ver = gver + 1 /\ <<m.sess, "journal">> \in ends /\ Works(m.sess, "journal")
  <2>1. PICK s \in lives : m = [sess |-> s, ver |-> gver + 1]
    BY <1>1
  <2>2. m \in Marks /\ m.sess = s /\ m.ver = gver + 1
    BY <1>0, <2>1, MarkFields
  <2> QED
    BY <2>2
<1>3. ASSUME NEW s \in Session, <<s, "journal">> \in ends, Works(s, "journal")
      PROVE  [sess |-> s, ver |-> gver + 1] \in jq' /\ <<s, "journal">> \in ends'
  <2>1. s \in lives
    BY <1>3
  <2> HIDE DEF subs, lives
  <2> QED
    BY <1>1, <1>3, <2>1
<1>4. ASSUME NEW c \in ends \ ends' PROVE c[2] = "journal"
  <2>1. PICK s \in subs \ lives : c = <<s, "journal">>
    BY <1>1
  <2> QED
    BY <2>1
<1> QED
  BY <1>1, <1>2, <1>3, <1>4

\* finish_seed of a session, late or not.
LEMMA SwapEffect ==
    ASSUME IInv, NEW b \in blocking, Swap(b)
    PROVE  /\ b \in Marks /\ b.sess \in Session /\ blocking' = blocking \ {b}
           /\ rep' \in Reps /\ rep'.sess = b.sess /\ rep'.ver \in {b.ver, asm[b.sess].heard}
           /\ b.ver <= rep'.ver /\ asm[b.sess].heard <= rep'.ver
           /\ asm' \in [Session -> Asms] /\ ~ asm'[b.sess].staging
           /\ (\A s \in Session : asm'[s].heard = asm[s].heard) /\ (\A s \in Session : s # b.sess => asm'[s] = asm[s])
           /\ overtaken' = (overtaken \/ b.sess < rep.sess)
           /\ UNCHANGED <<pc, sess, todo, vm, rpc, peer, cache, missed, wire, guestState, n, lost, late>>
<1>1. b \in Marks /\ b.sess \in Session /\ b.ver \in Nat /\ asm \in [Session -> Asms] /\ b.sess \in Nat
  BY MarkFields, SessionIs DEF IInv, Types
<1>2. asm[b.sess].heard \in Nat
  BY <1>1 DEF Asms
<1>3. PICK x \in Nat : x = Max({b.ver, asm[b.sess].heard}) /\ x \in {b.ver, asm[b.sess].heard} /\ b.ver <= x /\ asm[b.sess].heard <= x
  BY <1>1, <1>2, MaxIs
<1>4. rep' = [sess |-> b.sess, ver |-> x]
  BY <1>3 DEF Swap
<1>5. rep' \in Reps /\ rep'.sess = b.sess /\ rep'.ver = x
  BY <1>1, <1>4, RepFields
<1>6. asm' = Stops(asm, b.sess)
  BY DEF Swap, Stops
<1>7. /\ asm' \in [Session -> Asms] /\ ~ asm'[b.sess].staging
      /\ (\A s \in Session : asm'[s].heard = asm[s].heard) /\ (\A s \in Session : s # b.sess => asm'[s] = asm[s])
  BY <1>1, <1>6, AsmStaged
<1>8. /\ blocking' = blocking \ {b} /\ overtaken' = (overtaken \/ b.sess < rep.sess)
      /\ UNCHANGED <<pc, sess, todo, vm, rpc, peer, cache, missed, wire, guestState, n, lost, late>>
  BY DEF Swap
<1> QED
  BY <1>1, <1>3, <1>5, <1>7, <1>8

\* The Assembler begins and the snapshot is asked for.
LEMMA BeginEffect ==
    ASSUME IInv, Begin
    PROVE  /\ pc = "lanes" /\ todo = <<>> /\ pc' = "run" /\ vm' = "Ready" /\ rpc' = sess /\ missed' = 0 /\ sess \in Session
           /\ asm' \in [Session -> Asms] /\ asm'[sess].staging /\ (\A s \in Session : asm'[s].heard = asm[s].heard)
           /\ starts' = starts \cup {sess}
           /\ UNCHANGED <<sess, todo, peer, cache, blocking, rep, held, hellos, done, jq, cut, mute, guestState, n, hist>>
<1>1. /\ pc = "lanes" /\ todo = <<>> /\ pc' = "run" /\ vm' = "Ready" /\ rpc' = sess /\ missed' = 0
      /\ asm' = Begins(asm, sess) /\ starts' = starts \cup {sess}
      /\ UNCHANGED <<sess, todo, peer, cache, blocking, rep, held, hellos, done, jq, cut, mute, guestState, n, hist>>
  BY DEF Begin, Begins
<1>2. sess \in Session /\ asm \in [Session -> Asms]
  BY <1>1 DEF IInv, Unasked, Types
<1>3. asm' \in [Session -> Asms] /\ asm'[sess].staging /\ \A s \in Session : asm'[s].heard = asm[s].heard
  BY <1>1, <1>2, AsmStaged
<1> QED
  BY <1>1, <1>2, <1>3

\* The first batch of the journal lane is heard, and applied when nothing is staged.
LEMMA JournalEffect ==
    ASSUME IInv, NEW b \in jq, TakeJournal(b)
    PROVE  /\ b \in Marks /\ b.sess = sess /\ sess \in Session /\ pc = "run" /\ jq' = jq \ {b} /\ b.ver \in Nat
           /\ \A c \in jq : c.sess = sess => b.ver <= c.ver
           /\ asm' \in [Session -> Asms] /\ asm'[sess].heard = b.ver /\ (\A s \in Session : asm'[s].staging = asm[s].staging)
           /\ (\A s \in Session : s # sess => asm'[s] = asm[s])
           /\ rep' \in Reps /\ rep'.sess = rep.sess /\ rep'.ver = IF asm[sess].staging THEN rep.ver ELSE b.ver
           /\ UNCHANGED <<pc, sess, todo, vm, rpc, peer, cache, missed, blocking, held, hellos, starts, done, cut, mute,
                          guestState, n, hist>>
<1>1. /\ b.sess = sess /\ pc = "run" /\ jq' = jq \ {b} /\ \A c \in jq : c.sess = sess => b.ver <= c.ver
      /\ asm' = Hear(asm, sess, b.ver)
      /\ UNCHANGED <<pc, sess, todo, vm, rpc, peer, cache, missed, blocking, held, hellos, starts, done, cut, mute,
                     guestState, n, hist>>
  BY DEF TakeJournal, Hear
<1>2. b \in Marks /\ sess \in Session /\ b.ver \in Nat /\ asm \in [Session -> Asms] /\ rep \in Reps
  BY <1>1, MarkFields DEF IInv, Types
<1>3. /\ asm' \in [Session -> Asms] /\ asm'[sess].heard = b.ver /\ (\A s \in Session : asm'[s].staging = asm[s].staging)
      /\ (\A s \in Session : s # sess => asm'[s] = asm[s])
  BY <1>1, <1>2, AsmHears
<1>4. rep' = IF asm[sess].staging THEN rep ELSE [rep EXCEPT !.ver = b.ver]
  BY DEF TakeJournal
<1>5. rep' \in Reps /\ rep'.sess = rep.sess /\ rep'.ver = IF asm[sess].staging THEN rep.ver ELSE b.ver
  BY <1>2, <1>4, RepFields
<1> QED
  BY <1>1, <1>2, <1>3, <1>5

\* Every variable keeps its type.
LEMMA TypesStep ==
    ASSUME IInv, [Next]_vars
    PROVE  Types'
<1>0. Types /\ Past /\ Dialled /\ Unasked
  BY DEF IInv
<1>2. CASE Connect
  <2>1. CASE UNCHANGED <<sess, held, hellos, late>> /\ pc' = "backoff"
    BY <1>0, <1>2, <2>1 DEF Connect, Types, guestState
  <2>2. CASE sess < MaxFault + 1 /\ pc' = "hello" /\ sess' = sess + 1 /\ held' = held \cup {<<sess + 1, "ctl">>}
             /\ hellos' \subseteq hellos \cup {<<sess + 1, "ctl">>} /\ late' = FALSE
    <3>1. sess + 1 \in Session /\ sess' \in 0 .. MaxFault + 1
      BY <1>0, <2>2, SessionIs DEF Types
    <3>2. <<sess + 1, "ctl">> \in Session \X Lane
      BY <3>1 DEF Lane
    <3>3. held' \subseteq Session \X Lane /\ hellos' \subseteq Session \X Lane
      BY <1>0, <2>2, <3>2 DEF Types
    <3>4. UNCHANGED <<missed, asm, blocking, rep, starts, done, jq, cut, mute, guestState, lost, overtaken>>
      BY <1>2 DEF Connect
    <3>5. late' \in BOOLEAN
      BY <2>2, Zenon
    <3> QED
      BY <1>0, <2>2, <3>1, <3>3, <3>4, <3>5 DEF Types, guestState
  <2> QED
    BY <1>2, <2>1, <2>2 DEF Connect
<1>3. CASE HelloAck
  BY <1>0, <1>3 DEF HelloAck, Types, wire, guestState, hist
<1>4. CASE HelloFails
  BY <1>0, <1>4 DEF HelloFails, GiveUp, Types, guestState, hist
<1>5. CASE DialLane
  BY <1>0, LanesAssumption, MarkFields, ScanFields, WaitFields, <1>5 DEF DialLane, Types, Past, Dialled, Unasked, Session, Lane, guestState, hist
<1>6. CASE DialFails
  BY <1>0, <1>6 DEF DialFails, GiveUp, Types, guestState, hist
<1>7. CASE Begin
  BY <1>0, <1>7, BeginEffect, LanesAssumption DEF Types, guestState, hist
<1>8. CASE EndSession
  <2>1. pc = "run" /\ Ended(FALSE) /\ UNCHANGED <<sess, todo, peer, cache, missed, blocking, rep, hellos, starts, mute, guestState, n, hist>>
    BY <1>8 DEF EndSession
  <2>2. /\ pc' = "backoff" /\ held' \subseteq held /\ cut' \subseteq cut /\ done' \subseteq done /\ jq' \subseteq jq
        /\ asm' \in [Session -> Asms]
    BY <2>1, EndedEffect
  <2> QED
    BY <1>0, <2>1, <2>2 DEF Types, guestState, hist
<1>9. CASE Backoff
  BY <1>0, <1>9 DEF Backoff, Types, wire, guestState, hist
<1>10. ASSUME NEW b \in jq, TakeJournal(b) PROVE Types'
  BY <1>0, <1>10, JournalEffect DEF Types, guestState, hist
<1>11. ASSUME NEW d \in done, TakeDone(d) PROVE Types'
  BY <1>0, <1>11 DEF TakeDone, Types, guestState, hist
<1>12. CASE Pong
  <2>1. missed' \in 0 .. PING_MISSES
    BY <1>0, <1>12, LanesAssumption DEF Types, Pong
  <2>2. UNCHANGED <<pc, sess, asm, blocking, rep, wire, guestState, hist>>
    BY <1>12 DEF Pong
  <2> QED
    BY <1>0, <2>1, <2>2 DEF Types, wire, guestState, hist
<1>13. ASSUME NEW h \in hellos, Accept(h) PROVE Types'
  BY <1>0, <1>13 DEF Accept, Types, hostState, hist
<1>14. ASSUME NEW s \in starts, ReadStart(s) PROVE Types'
  BY <1>0, LanesAssumption, MarkFields, ScanFields, WaitFields, <1>14 DEF ReadStart, Types, Past, Dialled, Unasked, Session, Lane, hostState, hist
<1>15. ASSUME NEW w \in waits, StartWalk(w) PROVE Types'
  BY <1>0, LanesAssumption, MarkFields, ScanFields, WaitFields, <1>15 DEF StartWalk, Types, Past, Dialled, Unasked, Session, Lane, hostState, wire
<1>16. ASSUME NEW w \in waits, DropStart(w) PROVE Types'
  BY <1>0, <1>16 DEF DropStart, Types, hostState, wire
<1>17. ASSUME NEW w \in walks, Scan(w) PROVE Types'
  BY <1>0, LanesAssumption, MarkFields, ScanFields, WaitFields, <1>17 DEF Scan, Types, Past, Dialled, Unasked, Session, Lane, hostState, wire, hist
<1>18. ASSUME NEW w \in walks, SendDone(w) PROVE Types'
  BY <1>0, LanesAssumption, MarkFields, ScanFields, WaitFields, <1>18, SMTT(60) DEF SendDone, Types, Past, Dialled, Unasked, Session, Lane, hostState, hist
<1>19. ASSUME NEW s \in Session, NEW l \in Lane, Notice(s, l) PROVE Types'
  BY <1>0, <1>19 DEF Notice, Types, hostState, wire, hist
<1>20. CASE Tick
  <2>1. /\ pc = "run" /\ waits' \subseteq Waits
        /\ UNCHANGED <<sess, todo, peer, cache, blocking, rep, hellos, starts, mute, table, ends, walks, gver, hist>>
    BY <1>20, TickEffect
  <2>2. CASE Ended(TRUE) /\ missed' = 0
    <3>1. /\ pc' = "backoff" /\ held' \subseteq held /\ cut' \subseteq cut /\ done' \subseteq done /\ jq' \subseteq jq
          /\ asm' \in [Session -> Asms]
      BY <2>1, <2>2, EndedEffect
    <3>2. missed' \in 0 .. PING_MISSES
      BY <2>2, LanesAssumption
    <3> QED
      BY <1>0, <2>1, <3>1, <3>2 DEF Types, hist
  <2>3. CASE missed < PING_MISSES /\ missed' = missed + 1 /\ UNCHANGED <<pc, vm, rpc, held, cut, done, jq, asm>>
    <3>1. missed' \in 0 .. PING_MISSES
      BY <1>0, <2>3, LanesAssumption DEF Types
    <3> QED
      BY <1>0, <2>1, <2>3, <3>1 DEF Types, hist
  <2> QED
    BY <1>20, <2>2, <2>3, TickEffect
<1>21. CASE Change
  <2>1. /\ gver' = gver + 1 /\ jq \subseteq jq' /\ ends' \subseteq ends /\ (\A m \in jq' \ jq : m \in Marks)
        /\ UNCHANGED <<hostState, held, hellos, starts, done, cut, mute, table, waits, walks, hist>>
    BY <1>21, ChangeEffect
  <2>2. gver' \in Nat /\ jq' \subseteq Marks
    BY <1>0, <2>1 DEF Types
  <2> QED
    BY <1>0, <2>1, <2>2 DEF Types, hostState, hist
<1>22. ASSUME NEW b \in blocking, Swap(b) PROVE Types'
  <2>1. /\ blocking' = blocking \ {b} /\ rep' \in Reps /\ asm' \in [Session -> Asms]
        /\ overtaken' = (overtaken \/ b.sess < rep.sess)
        /\ UNCHANGED <<pc, sess, todo, vm, rpc, peer, cache, missed, wire, guestState, n, lost, late>>
    BY <1>22, SwapEffect
  <2>2. overtaken' \in BOOLEAN
    BY <2>1, Zenon
  <2> QED
    BY <1>0, <2>1, <2>2 DEF Types, wire, guestState
<1>23. ASSUME NEW l \in Lane, LaneDies(l) PROVE Types'
  <2>1. <<sess, l>> \in held /\ cut' = cut \cup {<<sess, l>>} /\ hellos' \subseteq hellos
        /\ UNCHANGED <<hostState, held, starts, done, jq, mute, guestState, hist>>
    BY <1>23 DEF LaneDies, Works
  <2> QED
    BY <1>0, <2>1 DEF Types, hostState, guestState, hist
<1>24. CASE FallSilent
  BY <1>0, LanesAssumption, MarkFields, ScanFields, WaitFields, <1>24 DEF FallSilent, Types, Past, Dialled, Unasked, Session, Lane, hostState, guestState, hist
<1>25. CASE GuestRestart
  BY <1>0, <1>25 DEF GuestRestart, Types, hostState, hist
<1>26. CASE HostRestart
  <2>1. /\ pc' = "connect" /\ missed' = 0 /\ asm' = [s \in Session |-> NoAsm] /\ blocking' = {} /\ rep' = [sess |-> 0, ver |-> 0]
        /\ held' = {} /\ cut' = {} /\ done' = {} /\ jq' = {} /\ UNCHANGED <<sess, peer, cache, hellos, starts, mute, guestState, hist>>
    BY <1>26 DEF HostRestart
  <2>2. asm' \in [Session -> Asms] /\ rep' \in Reps /\ missed' \in 0 .. PING_MISSES
    BY <2>1, AsmGoes, RepFields, LanesAssumption
  <2> QED
    BY <1>0, <2>1, <2>2 DEF Types, guestState, hist
<1>27. CASE UNCHANGED vars
  BY <1>0, <1>27 DEF vars, Types, hostState, wire, guestState, hist
<1> QED
  BY <1>2, <1>3, <1>4, <1>5, <1>6, <1>7, <1>8, <1>9, <1>10, <1>11, <1>12, <1>13, <1>14, <1>15, <1>16, <1>17, <1>18, <1>19, <1>20, <1>21, <1>22, <1>23, <1>24, <1>25, <1>26, <1>27, Kinds

\* A scan reads the guest's version.
LEMMA ScanEffect ==
    ASSUME IInv, NEW w \in walks, Scan(w)
    PROVE  /\ \E x \in Scans : walks' = (walks \ {w}) \cup {x} /\ x.sess = w.sess /\ x.ver = gver
           /\ UNCHANGED <<hostState, wire, table, ends, waits, gver, n, hist>>
<1>1. w \in Scans /\ gver \in Nat
  BY DEF IInv, Types
<1>2. [w EXCEPT !.ver = gver] \in Scans /\ [w EXCEPT !.ver = gver].sess = w.sess /\ [w EXCEPT !.ver = gver].ver = gver
  BY <1>1, ScanFields
<1> QED
  BY <1>2 DEF Scan


\* The client in use is the running session's, and the table is that of the control lanes.
LEMMA SetupStep ==
    ASSUME IInv, [Next]_vars
    PROVE  Setup'
<1>0. Setup /\ Dialled /\ Types
  BY DEF IInv
<1>2. CASE Connect
  BY <1>0, <1>2 DEF Connect, Setup, guestState
<1>3. CASE HelloAck
  BY <1>0, <1>3 DEF HelloAck, Setup, wire, guestState, hist
<1>4. CASE HelloFails
  BY <1>0, <1>4 DEF HelloFails, GiveUp, Setup, guestState, hist
<1>5. CASE DialLane
  BY <1>0, <1>5 DEF DialLane, Setup, guestState, hist
<1>6. CASE DialFails
  BY <1>0, <1>6 DEF DialFails, GiveUp, Setup, guestState, hist
<1>7. CASE Begin
  BY <1>0, <1>7 DEF Begin, Setup, guestState, hist
<1>8. CASE EndSession
  BY <1>0, <1>8 DEF EndSession, Ended, Setup, guestState, hist
<1>9. CASE Backoff
  BY <1>0, <1>9 DEF Backoff, Setup, wire, guestState, hist
<1>10. ASSUME NEW b \in jq, TakeJournal(b) PROVE Setup'
  BY <1>0, <1>10 DEF TakeJournal, Setup, guestState, hist
<1>11. ASSUME NEW d \in done, TakeDone(d) PROVE Setup'
  BY <1>0, <1>11 DEF TakeDone, Setup, guestState, hist
<1>12. CASE Pong
  BY <1>0, <1>12 DEF Pong, Setup, wire, guestState, hist
<1>13. ASSUME NEW h \in hellos, Accept(h) PROVE Setup'
  BY <1>0, <1>13 DEF Accept, Setup, Dialled, Types, Session, Lane, hostState, hist
<1>14. ASSUME NEW s \in starts, ReadStart(s) PROVE Setup'
  BY <1>0, <1>14 DEF ReadStart, Setup, hostState, hist
<1>15. ASSUME NEW w \in waits, StartWalk(w) PROVE Setup'
  BY <1>0, <1>15 DEF StartWalk, Setup, hostState, wire
<1>16. ASSUME NEW w \in waits, DropStart(w) PROVE Setup'
  BY <1>0, <1>16 DEF DropStart, Setup, hostState, wire
<1>17. ASSUME NEW w \in walks, Scan(w) PROVE Setup'
  BY <1>0, <1>17 DEF Scan, Setup, hostState, wire, hist
<1>18. ASSUME NEW w \in walks, SendDone(w) PROVE Setup'
  BY <1>0, <1>18 DEF SendDone, Setup, hostState, hist
<1>19. ASSUME NEW s \in Session, NEW l \in Lane, Notice(s, l) PROVE Setup'
  BY <1>0, <1>19 DEF Notice, Setup, hostState, wire, hist
<1>20. CASE Tick
  BY <1>0, <1>20 DEF Tick, Ended, Setup, hist
<1>21. CASE Change
  BY <1>0, <1>21 DEF Change, Setup, hostState, hist
<1>22. ASSUME NEW b \in blocking, Swap(b) PROVE Setup'
  BY <1>0, <1>22 DEF Swap, Setup, wire, guestState
<1>23. ASSUME NEW l \in Lane, LaneDies(l) PROVE Setup'
  BY <1>0, <1>23 DEF LaneDies, Setup, hostState, guestState, hist
<1>24. CASE FallSilent
  BY <1>0, <1>24 DEF FallSilent, Setup, hostState, guestState, hist
<1>25. CASE GuestRestart
  BY <1>0, <1>25 DEF GuestRestart, Setup, hostState, hist
<1>26. CASE HostRestart
  BY <1>0, <1>26 DEF HostRestart, Setup, guestState, hist
<1>27. CASE UNCHANGED vars
  BY <1>0, <1>27 DEF vars, Setup, hostState, wire, guestState, hist
<1> QED
  BY <1>2, <1>3, <1>4, <1>5, <1>6, <1>7, <1>8, <1>9, <1>10, <1>11, <1>12, <1>13, <1>14, <1>15, <1>16, <1>17, <1>18, <1>19, <1>20, <1>21, <1>22, <1>23, <1>24, <1>25, <1>26, <1>27, Kinds

\* No session is ahead of the host's.
LEMMA PastStep ==
    ASSUME IInv, [Next]_vars
    PROVE  Past'
<1>0. Past /\ Types /\ Dialled
  BY DEF IInv
<1>2. CASE Connect
  <2>1. sess \in Nat /\ sess <= sess'
    BY <1>0, <1>2 DEF Connect, Types
  <2>2. sess' \in Nat
    BY <1>0, <1>2 DEF Connect, Types
  <2>3. /\ \A c \in held' \cup hellos' : c \in held \cup hellos \/ c[1] <= sess'
        /\ UNCHANGED <<starts, done, jq, cut, mute, guestState, blocking, rep>>
    BY <1>0, <1>2 DEF Connect, Types
  <2>4. \A c \in held \cup hellos \cup ends \cup cut : c[1] \in Nat
    BY <1>0, SessionIs DEF Types
  <2>5. (\A s \in starts \cup mute : s \in Nat) /\ \A w \in waits \cup walks \cup done \cup jq \cup blocking : w.sess \in Nat
    BY <1>0, SessionIs, MarkFields, ScanFields, WaitFields DEF Types
  <2>6. rep.sess \in Nat
    BY <1>0, RepFields DEF Types
  <2>7. \A s \in Nat : s <= sess => s <= sess'
    BY <2>1, <2>2
  <2> QED
    BY <1>0, <2>3, <2>4, <2>5, <2>6, <2>7 DEF Past, guestState
<1>3. CASE HelloAck
  BY <1>0, <1>3 DEF HelloAck, Past, wire, guestState, hist
<1>4. CASE HelloFails
  BY <1>0, <1>4 DEF HelloFails, GiveUp, Past, guestState, hist
<1>5. CASE DialLane
  BY <1>0, LanesAssumption, MarkFields, ScanFields, WaitFields, <1>5 DEF DialLane, Past, Types, Dialled, Session, guestState, hist
<1>6. CASE DialFails
  BY <1>0, <1>6 DEF DialFails, GiveUp, Past, guestState, hist
<1>7. CASE Begin
  BY <1>0, LanesAssumption, MarkFields, ScanFields, WaitFields, <1>7 DEF Begin, Past, Types, Dialled, Session, guestState, hist
<1>8. CASE EndSession
  BY <1>0, LanesAssumption, MarkFields, ScanFields, WaitFields, <1>8 DEF EndSession, Ended, Past, Types, Dialled, Session, guestState, hist
<1>9. CASE Backoff
  BY <1>0, <1>9 DEF Backoff, Past, wire, guestState, hist
<1>10. ASSUME NEW b \in jq, TakeJournal(b) PROVE Past'
  BY <1>0, <1>10, JournalEffect DEF Past, guestState
<1>11. ASSUME NEW d \in done, TakeDone(d) PROVE Past'
  BY <1>0, <1>11 DEF TakeDone, Past, guestState, hist
<1>12. CASE Pong
  BY <1>0, <1>12 DEF Pong, Past, wire, guestState, hist
<1>13. ASSUME NEW h \in hellos, Accept(h) PROVE Past'
  BY <1>0, <1>13 DEF Accept, Past, hostState, hist
<1>14. ASSUME NEW s \in starts, ReadStart(s) PROVE Past'
  BY <1>0, <1>14 DEF ReadStart, Past, hostState, hist
<1>15. ASSUME NEW w \in waits, StartWalk(w) PROVE Past'
  BY <1>0, <1>15 DEF StartWalk, Past, hostState, wire
<1>16. ASSUME NEW w \in waits, DropStart(w) PROVE Past'
  BY <1>0, <1>16 DEF DropStart, Past, hostState, wire
<1>17. ASSUME NEW w \in walks, Scan(w) PROVE Past'
  BY <1>0, <1>17, ScanEffect DEF Past, hostState, wire
<1>18. ASSUME NEW w \in walks, SendDone(w) PROVE Past'
  BY <1>0, <1>18 DEF SendDone, Past, hostState, hist
<1>19. ASSUME NEW s \in Session, NEW l \in Lane, Notice(s, l) PROVE Past'
  BY <1>0, <1>19 DEF Notice, Past, hostState, wire, hist
<1>20. CASE Tick
  <2>1. /\ \A x \in waits' : \E w \in waits : x.sess = w.sess
        /\ UNCHANGED <<sess, blocking, rep, hellos, starts, mute, ends, walks>>
    BY <1>20, TickEffect
  <2>2. held' \subseteq held /\ cut' \subseteq cut /\ done' \subseteq done /\ jq' \subseteq jq
    BY <1>20, TickEffect, EndedEffect
  <2> QED
    BY <1>0, <2>1, <2>2 DEF Past
<1>21. CASE Change
  <2>1. ends' \subseteq ends /\ UNCHANGED <<hostState, held, hellos, starts, done, cut, mute, waits, walks>>
    BY <1>21, ChangeEffect
  <2>2. \A m \in jq' : m \in jq \/ <<m.sess, "journal">> \in ends
    BY <1>21, ChangeEffect
  <2>3. \A x : <<x, "journal">> \in ends => x <= sess
    BY <1>0 DEF Past
  <2> QED
    BY <1>0, <2>1, <2>2, <2>3 DEF Past, hostState
<1>22. ASSUME NEW b \in blocking, Swap(b) PROVE Past'
  BY <1>0, <1>22 DEF Swap, Past, wire, guestState
<1>23. ASSUME NEW l \in Lane, LaneDies(l) PROVE Past'
  BY <1>0, LanesAssumption, MarkFields, ScanFields, WaitFields, <1>23 DEF LaneDies, Past, Types, Dialled, Session, hostState, guestState, hist
<1>24. CASE FallSilent
  BY <1>0, LanesAssumption, MarkFields, ScanFields, WaitFields, <1>24 DEF FallSilent, Past, Types, Dialled, Session, hostState, guestState, hist
<1>25. CASE GuestRestart
  BY <1>0, <1>25 DEF GuestRestart, Past, hostState, hist
<1>26. CASE HostRestart
  BY <1>0, LanesAssumption, MarkFields, ScanFields, WaitFields, <1>26 DEF HostRestart, Past, Types, Dialled, Session, guestState, hist
<1>27. CASE UNCHANGED vars
  BY <1>0, <1>27 DEF vars, Past, hostState, wire, guestState, hist
<1> QED
  BY <1>2, <1>3, <1>4, <1>5, <1>6, <1>7, <1>8, <1>9, <1>10, <1>11, <1>12, <1>13, <1>14, <1>15, <1>16, <1>17, <1>18, <1>19, <1>20, <1>21, <1>22, <1>23, <1>24, <1>25, <1>26, <1>27, Kinds

\* No version is ahead of the guest's.
LEMMA VersionsStep ==
    ASSUME IInv, [Next]_vars
    PROVE  Versions'
<1>0. Versions /\ Types
  BY DEF IInv
<1>2. CASE Connect
  BY <1>0, <1>2 DEF Connect, Versions, guestState
<1>3. CASE HelloAck
  BY <1>0, <1>3 DEF HelloAck, Versions, wire, guestState, hist
<1>4. CASE HelloFails
  BY <1>0, <1>4 DEF HelloFails, GiveUp, Versions, guestState, hist
<1>5. CASE DialLane
  BY <1>0, <1>5 DEF DialLane, Versions, guestState, hist
<1>6. CASE DialFails
  BY <1>0, <1>6 DEF DialFails, GiveUp, Versions, guestState, hist
<1>7. CASE Begin
  BY <1>0, <1>7 DEF Begin, Versions, guestState, hist
<1>8. CASE EndSession
  <2>1. pc = "run" /\ Ended(FALSE) /\ UNCHANGED <<blocking, rep, guestState>>
    BY <1>8 DEF EndSession
  <2>2. gver \in Nat /\ 0 <= gver
    BY <1>0 DEF Types
  <2> QED
    BY <1>0, <2>1, <2>2, EndedEffect DEF Versions, guestState
<1>9. CASE Backoff
  BY <1>0, <1>9 DEF Backoff, Versions, wire, guestState, hist
<1>10. ASSUME NEW b \in jq, TakeJournal(b) PROVE Versions'
  BY <1>0, <1>10, JournalEffect, Zenon DEF Versions, guestState
<1>11. ASSUME NEW d \in done, TakeDone(d) PROVE Versions'
  BY <1>0, <1>11 DEF TakeDone, Versions, guestState, hist
<1>12. CASE Pong
  BY <1>0, <1>12 DEF Pong, Versions, wire, guestState, hist
<1>13. ASSUME NEW h \in hellos, Accept(h) PROVE Versions'
  BY <1>0, <1>13 DEF Accept, Versions, hostState, hist
<1>14. ASSUME NEW s \in starts, ReadStart(s) PROVE Versions'
  BY <1>0, <1>14 DEF ReadStart, Versions, hostState, hist
<1>15. ASSUME NEW w \in waits, StartWalk(w) PROVE Versions'
  BY <1>0, LanesAssumption, MarkFields, ScanFields, WaitFields, <1>15 DEF StartWalk, Versions, Types, hostState, wire
<1>16. ASSUME NEW w \in waits, DropStart(w) PROVE Versions'
  BY <1>0, <1>16 DEF DropStart, Versions, hostState, wire
<1>17. ASSUME NEW w \in walks, Scan(w) PROVE Versions'
  <2>1. PICK x \in Scans : walks' = (walks \ {w}) \cup {x} /\ x.ver = gver
    BY <1>17, ScanEffect
  <2>2. gver \in Nat /\ gver <= gver /\ UNCHANGED <<gver, done, jq, blocking, rep, asm>>
    BY <1>0, <1>17, ScanEffect DEF Types, hostState, wire
  <2> QED
    BY <1>0, <2>1, <2>2 DEF Versions
<1>18. ASSUME NEW w \in walks, SendDone(w) PROVE Versions'
  BY <1>0, <1>18 DEF SendDone, Versions, hostState, hist
<1>19. ASSUME NEW s \in Session, NEW l \in Lane, Notice(s, l) PROVE Versions'
  BY <1>0, <1>19 DEF Notice, Versions, hostState, wire, hist
<1>20. CASE Tick
  <2>1. UNCHANGED <<blocking, rep, walks, gver>>
    BY <1>20, TickEffect
  <2>2. gver \in Nat /\ 0 <= gver
    BY <1>0 DEF Types
  <2>3. done' \subseteq done /\ jq' \subseteq jq /\ \A s \in Session : asm'[s].heard = 0 \/ asm'[s].heard = asm[s].heard
    BY <1>20, TickEffect, EndedEffect
  <2> QED
    BY <1>0, <2>1, <2>2, <2>3 DEF Versions
<1>21. CASE Change
  <2>1. gver' = gver + 1 /\ UNCHANGED <<done, walks, blocking, rep, asm>>
    BY <1>21, ChangeEffect DEF hostState
  <2>2. \A m \in jq' : m \in jq \/ m.ver = gver'
    BY <2>1, <1>21, ChangeEffect
  <2>3. gver \in Nat /\ gver' \in Nat /\ \A v \in Nat \cup {-1} : v <= gver => v <= gver'
    BY <1>0, <2>1 DEF Types
  <2>4. \A w \in walks \cup done \cup jq \cup blocking : w.ver \in Nat \cup {-1}
    BY <1>0, MarkFields, ScanFields DEF Types
  <2>5. rep.ver \in Nat /\ \A s \in Session : asm[s].heard \in Nat
    BY <1>0, RepFields DEF Types, Asms
  <2> QED
    BY <1>0, <2>1, <2>2, <2>3, <2>4, <2>5 DEF Versions
<1>22. ASSUME NEW b \in blocking, Swap(b) PROVE Versions'
  <2>1. /\ b.sess \in Session /\ blocking' \subseteq blocking /\ rep'.ver \in {b.ver, asm[b.sess].heard}
        /\ (\A s \in Session : asm'[s].heard = asm[s].heard) /\ UNCHANGED <<gver, walks, done, jq>>
    BY <1>22, SwapEffect DEF wire, guestState
  <2> QED
    BY <1>0, <2>1 DEF Versions
<1>23. ASSUME NEW l \in Lane, LaneDies(l) PROVE Versions'
  BY <1>0, <1>23 DEF LaneDies, Versions, hostState, guestState, hist
<1>24. CASE FallSilent
  BY <1>0, <1>24 DEF FallSilent, Versions, hostState, guestState, hist
<1>25. CASE GuestRestart
  BY <1>0, <1>25 DEF GuestRestart, Versions, hostState, hist
<1>26. CASE HostRestart
  <2>1. asm' = [s \in Session |-> NoAsm] /\ blocking' = {} /\ rep' = [sess |-> 0, ver |-> 0] /\ done' = {} /\ jq' = {} /\ UNCHANGED <<gver, walks>>
    BY <1>26 DEF HostRestart, guestState
  <2>2. gver \in Nat /\ 0 <= gver /\ rep'.ver = 0 /\ \A s \in Session : asm'[s].heard = 0
    BY <1>0, <2>1 DEF Types, NoAsm
  <2> QED
    BY <1>0, <2>1, <2>2 DEF Versions
<1>27. CASE UNCHANGED vars
  BY <1>0, <1>27 DEF vars, Versions, hostState, wire, guestState, hist
<1> QED
  BY <1>2, <1>3, <1>4, <1>5, <1>6, <1>7, <1>8, <1>9, <1>10, <1>11, <1>12, <1>13, <1>14, <1>15, <1>16, <1>17, <1>18, <1>19, <1>20, <1>21, <1>22, <1>23, <1>24, <1>25, <1>26, <1>27, Kinds

\* What is being set up has asked for nothing.
LEMMA UnaskedStep ==
    ASSUME IInv, [Next]_vars
    PROVE  Unasked'
<1>0. Unasked /\ Past /\ Types /\ Setup /\ Dialled
  BY DEF IInv
<1>2. CASE Connect
  BY <1>0, LanesAssumption, MarkFields, ScanFields, WaitFields, <1>2 DEF Connect, Unasked, Past, Types, Setup, Session, guestState
<1>3. CASE HelloAck
  BY <1>0, <1>3 DEF HelloAck, Unasked, wire, guestState, hist
<1>4. CASE HelloFails
  BY <1>0, <1>4 DEF HelloFails, GiveUp, Unasked, guestState, hist
<1>5. CASE DialLane
  BY <1>0, <1>5 DEF DialLane, Unasked, guestState, hist
<1>6. CASE DialFails
  BY <1>0, <1>6 DEF DialFails, GiveUp, Unasked, guestState, hist
<1>7. CASE Begin
  BY <1>0, <1>7 DEF Begin, Unasked, guestState, hist
<1>8. CASE EndSession
  BY <1>0, <1>8 DEF EndSession, Ended, Unasked, guestState, hist
<1>9. CASE Backoff
  BY <1>0, <1>9 DEF Backoff, Unasked, wire, guestState, hist
<1>10. ASSUME NEW b \in jq, TakeJournal(b) PROVE Unasked'
  BY <1>0, <1>10 DEF TakeJournal, Unasked, guestState, hist
<1>11. ASSUME NEW d \in done, TakeDone(d) PROVE Unasked'
  BY <1>0, <1>11 DEF TakeDone, Unasked, guestState, hist
<1>12. CASE Pong
  BY <1>0, <1>12 DEF Pong, Unasked, wire, guestState, hist
<1>13. ASSUME NEW h \in hellos, Accept(h) PROVE Unasked'
  BY <1>0, <1>13 DEF Accept, Unasked, hostState, hist
<1>14. ASSUME NEW s \in starts, ReadStart(s) PROVE Unasked'
  BY <1>0, <1>14 DEF ReadStart, Unasked, hostState, hist
<1>15. ASSUME NEW w \in waits, StartWalk(w) PROVE Unasked'
  BY <1>0, <1>15 DEF StartWalk, Unasked, hostState, wire
<1>16. ASSUME NEW w \in waits, DropStart(w) PROVE Unasked'
  BY <1>0, <1>16 DEF DropStart, Unasked, hostState, wire
<1>17. ASSUME NEW w \in walks, Scan(w) PROVE Unasked'
  BY <1>0, <1>17, ScanEffect DEF Unasked, hostState, wire
<1>18. ASSUME NEW w \in walks, SendDone(w) PROVE Unasked'
  BY <1>0, <1>18 DEF SendDone, Unasked, hostState, hist
<1>19. ASSUME NEW s \in Session, NEW l \in Lane, Notice(s, l) PROVE Unasked'
  BY <1>0, <1>19 DEF Notice, Unasked, hostState, wire, hist
<1>20. CASE Tick
  BY <1>0, <1>20 DEF Tick, Ended, Unasked, hist
<1>21. CASE Change
  <2>1. /\ \A m \in jq' : m \in jq \/ <<m.sess, "journal">> \in ends
        /\ UNCHANGED <<hostState, starts, done, waits, walks>>
    BY <1>21, ChangeEffect
  <2>2. pc = "hello" => <<sess, "journal">> \notin ends
    BY <1>0 DEF Dialled, Lane
  <2> QED
    BY <1>0, <2>1, <2>2 DEF Unasked, hostState
<1>22. ASSUME NEW b \in blocking, Swap(b) PROVE Unasked'
  BY <1>0, <1>22 DEF Swap, Unasked, wire, guestState
<1>23. ASSUME NEW l \in Lane, LaneDies(l) PROVE Unasked'
  BY <1>0, <1>23 DEF LaneDies, Unasked, hostState, guestState, hist
<1>24. CASE FallSilent
  BY <1>0, <1>24 DEF FallSilent, Unasked, hostState, guestState, hist
<1>25. CASE GuestRestart
  BY <1>0, <1>25 DEF GuestRestart, Unasked, hostState, hist
<1>26. CASE HostRestart
  BY <1>0, <1>26 DEF HostRestart, Unasked, guestState, hist
<1>27. CASE UNCHANGED vars
  BY <1>0, <1>27 DEF vars, Unasked, hostState, wire, guestState, hist
<1> QED
  BY <1>2, <1>3, <1>4, <1>5, <1>6, <1>7, <1>8, <1>9, <1>10, <1>11, <1>12, <1>13, <1>14, <1>15, <1>16, <1>17, <1>18, <1>19, <1>20, <1>21, <1>22, <1>23, <1>24, <1>25, <1>26, <1>27, Kinds

\* The lanes of a session are held while it is set up and runs.
LEMMA DialledStep ==
    ASSUME IInv, [Next]_vars
    PROVE  Dialled'
<1>0. Dialled /\ Past /\ Types /\ Unasked
  BY DEF IInv
<1>2. CASE Connect
  BY <1>0, <1>2 DEF Connect, Dialled, Past, Types, Unasked, Session, Lane, Of, guestState
<1>3. CASE HelloAck
  BY <1>0, <1>3 DEF HelloAck, Dialled, wire, guestState, hist
<1>4. CASE HelloFails
  BY <1>0, <1>4 DEF HelloFails, GiveUp, Dialled, guestState, hist
<1>5. CASE DialLane
  <2>1. /\ pc = "lanes" /\ todo # <<>> /\ todo' = Tail(todo) /\ UNCHANGED <<pc, sess, ends>>
        /\ held' = held \cup {<<sess, Head(todo)>>} /\ hellos' = hellos \cup {<<sess, Head(todo)>>}
    BY <1>5 DEF DialLane, guestState
  <2>2. CASE todo = <<"journal", "rpc", "bulk">>
    <3>1. Head(todo) = "journal" /\ Tail(todo) = <<"rpc", "bulk">>
      BY <2>2
    <3> QED
      BY <1>0, <2>1, <3>1 DEF Dialled
  <2>3. CASE todo = <<"rpc", "bulk">> /\ <<sess, "journal">> \in held
    <3>1. Head(todo) = "rpc" /\ Tail(todo) = <<"bulk">>
      BY <2>3
    <3> QED
      BY <1>0, <2>1, <2>3, <3>1 DEF Dialled
  <2>4. CASE todo = <<"bulk">> /\ <<sess, "journal">> \in held /\ <<sess, "rpc">> \in held
    <3>1. Head(todo) = "bulk" /\ Tail(todo) = <<>>
      BY <2>4
    <3>2. Of(sess) \subseteq held'
      BY <1>0, <2>1, <2>4, <3>1 DEF Dialled, Of, Lane
    <3> QED
      BY <1>0, <2>1, <2>4, <3>1, <3>2 DEF Dialled, Of
  <2> QED
    BY <1>0, <2>1, <2>2, <2>3, <2>4 DEF Dialled
<1>6. CASE DialFails
  BY <1>0, <1>6 DEF DialFails, GiveUp, Dialled, guestState, hist
<1>7. CASE Begin
  BY <1>0, <1>7 DEF Begin, Dialled, Past, Types, Unasked, Session, Lane, Of, guestState, hist
<1>8. CASE EndSession
  BY <1>0, <1>8 DEF EndSession, Ended, Dialled, guestState, hist
<1>9. CASE Backoff
  BY <1>0, <1>9 DEF Backoff, Dialled, wire, guestState, hist
<1>10. ASSUME NEW b \in jq, TakeJournal(b) PROVE Dialled'
  BY <1>0, <1>10 DEF TakeJournal, Dialled, guestState, hist
<1>11. ASSUME NEW d \in done, TakeDone(d) PROVE Dialled'
  BY <1>0, <1>11 DEF TakeDone, Dialled, guestState, hist
<1>12. CASE Pong
  BY <1>0, <1>12 DEF Pong, Dialled, wire, guestState, hist
<1>13. ASSUME NEW h \in hellos, Accept(h) PROVE Dialled'
  BY <1>0, <1>13 DEF Accept, Dialled, hostState, hist
<1>14. ASSUME NEW s \in starts, ReadStart(s) PROVE Dialled'
  BY <1>0, <1>14 DEF ReadStart, Dialled, hostState, hist
<1>15. ASSUME NEW w \in waits, StartWalk(w) PROVE Dialled'
  BY <1>0, <1>15 DEF StartWalk, Dialled, hostState, wire
<1>16. ASSUME NEW w \in waits, DropStart(w) PROVE Dialled'
  BY <1>0, <1>16 DEF DropStart, Dialled, hostState, wire
<1>17. ASSUME NEW w \in walks, Scan(w) PROVE Dialled'
  BY <1>0, <1>17 DEF Scan, Dialled, hostState, wire, hist
<1>18. ASSUME NEW w \in walks, SendDone(w) PROVE Dialled'
  BY <1>0, <1>18 DEF SendDone, Dialled, hostState, hist
<1>19. ASSUME NEW s \in Session, NEW l \in Lane, Notice(s, l) PROVE Dialled'
  BY <1>0, <1>19 DEF Notice, Dialled, hostState, wire, hist
<1>20. CASE Tick
  BY <1>0, <1>20 DEF Tick, Ended, Dialled, hist
<1>21. CASE Change
  BY <1>0, <1>21 DEF Change, Dialled, hostState, hist
<1>22. ASSUME NEW b \in blocking, Swap(b) PROVE Dialled'
  BY <1>0, <1>22 DEF Swap, Dialled, wire, guestState
<1>23. ASSUME NEW l \in Lane, LaneDies(l) PROVE Dialled'
  BY <1>0, <1>23 DEF LaneDies, Dialled, hostState, guestState, hist
<1>24. CASE FallSilent
  BY <1>0, <1>24 DEF FallSilent, Dialled, hostState, guestState, hist
<1>25. CASE GuestRestart
  BY <1>0, <1>25 DEF GuestRestart, Dialled, hostState, hist
<1>26. CASE HostRestart
  BY <1>0, <1>26 DEF HostRestart, Dialled, guestState, hist
<1>27. CASE UNCHANGED vars
  BY <1>0, <1>27 DEF vars, Dialled, hostState, wire, guestState, hist
<1> QED
  BY <1>2, <1>3, <1>4, <1>5, <1>6, <1>7, <1>8, <1>9, <1>10, <1>11, <1>12, <1>13, <1>14, <1>15, <1>16, <1>17, <1>18, <1>19, <1>20, <1>21, <1>22, <1>23, <1>24, <1>25, <1>26, <1>27, Kinds

\* A request is no older than the pings.
LEMMA AgedStep ==
    ASSUME IInv, [Next]_vars
    PROVE  Aged'
<1>0. Aged /\ Unasked /\ Types
  BY DEF IInv
<1>2. CASE Connect
  BY <1>0, <1>2 DEF Connect, Aged, guestState
<1>3. CASE HelloAck
  BY <1>0, <1>3 DEF HelloAck, Aged, wire, guestState, hist
<1>4. CASE HelloFails
  BY <1>0, <1>4 DEF HelloFails, GiveUp, Aged, guestState, hist
<1>5. CASE DialLane
  BY <1>0, <1>5 DEF DialLane, Aged, guestState, hist
<1>6. CASE DialFails
  BY <1>0, <1>6 DEF DialFails, GiveUp, Aged, guestState, hist
<1>7. CASE Begin
  BY <1>0, LanesAssumption, MarkFields, ScanFields, WaitFields, <1>7 DEF Begin, Aged, Unasked, Types, guestState, hist
<1>8. CASE EndSession
  BY <1>0, <1>8 DEF EndSession, Ended, Aged, guestState, hist
<1>9. CASE Backoff
  BY <1>0, <1>9 DEF Backoff, Aged, wire, guestState, hist
<1>10. ASSUME NEW b \in jq, TakeJournal(b) PROVE Aged'
  BY <1>0, <1>10 DEF TakeJournal, Aged, guestState, hist
<1>11. ASSUME NEW d \in done, TakeDone(d) PROVE Aged'
  BY <1>0, <1>11 DEF TakeDone, Aged, guestState, hist
<1>12. CASE Pong
  <2>1. ~ Waiting(sess) /\ UNCHANGED <<pc, sess, waits, lost>>
    BY <1>12 DEF Pong, guestState, hist
  <2> QED
    BY <1>0, <2>1 DEF Aged, Waiting
<1>13. ASSUME NEW h \in hellos, Accept(h) PROVE Aged'
  BY <1>0, <1>13 DEF Accept, Aged, hostState, hist
<1>14. ASSUME NEW s \in starts, ReadStart(s) PROVE Aged'
  BY <1>0, LanesAssumption, MarkFields, ScanFields, WaitFields, <1>14 DEF ReadStart, Aged, Unasked, Types, hostState, hist
<1>15. ASSUME NEW w \in waits, StartWalk(w) PROVE Aged'
  BY <1>0, <1>15 DEF StartWalk, Aged, hostState, wire
<1>16. ASSUME NEW w \in waits, DropStart(w) PROVE Aged'
  BY <1>0, LanesAssumption, MarkFields, ScanFields, WaitFields, <1>16 DEF DropStart, Aged, Unasked, Types, hostState, wire
<1>17. ASSUME NEW w \in walks, Scan(w) PROVE Aged'
  BY <1>0, <1>17 DEF Scan, Aged, hostState, wire, hist
<1>18. ASSUME NEW w \in walks, SendDone(w) PROVE Aged'
  BY <1>0, <1>18 DEF SendDone, Aged, hostState, hist
<1>19. ASSUME NEW s \in Session, NEW l \in Lane, Notice(s, l) PROVE Aged'
  BY <1>0, <1>19 DEF Notice, Aged, hostState, wire, hist
<1>20. CASE Tick
  <2>1. UNCHANGED <<sess, lost>> /\ waits \subseteq Waits /\ missed \in Nat
    BY <1>0, <1>20, TickEffect DEF hist, Types
  <2>2. \A x \in waits' : x.age <= BULK_WAIT
    <3>1. TAKE x \in waits'
    <3>2. PICK w \in waits : x.age = w.age \/ (x.age = w.age + 1 /\ w.age < BULK_WAIT)
      BY <1>20, TickEffect
    <3>3. w.age \in Nat /\ w.age <= BULK_WAIT
      BY <1>0, <2>1, WaitFields DEF Aged
    <3> QED
      BY <3>2, <3>3, LanesAssumption
  <2>3. CASE Ended(TRUE)
    BY <1>0, <2>1, <2>2, <2>3 DEF Aged, Ended
  <2>4. CASE missed' = missed + 1 /\ UNCHANGED pc
    <3>1. ASSUME NEW x \in waits', x.sess = sess PROVE x.age <= missed'
      <4>1. PICK w \in waits : x.sess = w.sess /\ (x.age = w.age \/ x.age = w.age + 1)
        BY <1>20, TickEffect
      <4>2. w.age \in Nat /\ w.age <= missed
        BY <1>0, <2>1, <3>1, <4>1, <1>20, TickEffect, WaitFields DEF Aged
      <4> QED
        BY <2>1, <2>4, <4>1, <4>2
    <3> QED
      BY <1>0, <2>1, <2>2, <2>4, <3>1 DEF Aged
  <2> QED
    BY <1>20, <2>3, <2>4, TickEffect
<1>21. CASE Change
  BY <1>0, <1>21 DEF Change, Aged, hostState, hist
<1>22. ASSUME NEW b \in blocking, Swap(b) PROVE Aged'
  BY <1>0, <1>22 DEF Swap, Aged, wire, guestState
<1>23. ASSUME NEW l \in Lane, LaneDies(l) PROVE Aged'
  BY <1>0, <1>23 DEF LaneDies, Aged, hostState, guestState, hist
<1>24. CASE FallSilent
  BY <1>0, <1>24 DEF FallSilent, Aged, hostState, guestState, hist
<1>25. CASE GuestRestart
  BY <1>0, <1>25 DEF GuestRestart, Aged, hostState, hist
<1>26. CASE HostRestart
  BY <1>0, <1>26 DEF HostRestart, Aged, guestState, hist
<1>27. CASE UNCHANGED vars
  BY <1>0, <1>27 DEF vars, Aged, hostState, wire, guestState, hist
<1> QED
  BY <1>2, <1>3, <1>4, <1>5, <1>6, <1>7, <1>8, <1>9, <1>10, <1>11, <1>12, <1>13, <1>14, <1>15, <1>16, <1>17, <1>18, <1>19, <1>20, <1>21, <1>22, <1>23, <1>24, <1>25, <1>26, <1>27, Kinds

\* A seeded replica is the running session's.
LEMMA SeededStep ==
    ASSUME IInv, [Next]_vars
    PROVE  Seeded'
<1>0. Seeded /\ Past /\ Types /\ Dialled /\ Unasked
  BY DEF IInv
<1>2. CASE Connect
  BY <1>0, <1>2 DEF Connect, Seeded, Clean, guestState
<1>3. CASE HelloAck
  BY <1>0, <1>3 DEF HelloAck, Seeded, Clean, wire, guestState, hist
<1>4. CASE HelloFails
  BY <1>0, <1>4 DEF HelloFails, GiveUp, Seeded, Clean, guestState, hist
<1>5. CASE DialLane
  BY <1>0, <1>5 DEF DialLane, Seeded, Clean, guestState, hist
<1>6. CASE DialFails
  BY <1>0, <1>6 DEF DialFails, GiveUp, Seeded, Clean, guestState, hist
<1>7. CASE Begin
  BY <1>0, LanesAssumption, MarkFields, ScanFields, WaitFields, <1>7 DEF Begin, Seeded, Clean, Past, Types, Dialled, Unasked, Session, guestState, hist
<1>8. CASE EndSession
  BY <1>0, <1>8 DEF EndSession, Ended, Seeded, Clean, guestState, hist
<1>9. CASE Backoff
  BY <1>0, <1>9 DEF Backoff, Seeded, Clean, wire, guestState, hist
<1>10. ASSUME NEW b \in jq, TakeJournal(b) PROVE Seeded'
  <2>1. /\ sess \in Session /\ asm'[sess].staging = asm[sess].staging /\ rep'.sess = rep.sess
        /\ UNCHANGED <<pc, sess, mute, cut, overtaken>>
    BY <1>10, JournalEffect DEF hist
  <2>2. Clean' = Clean
    BY <2>1 DEF Clean
  <2> QED
    BY <1>0, <2>1, <2>2 DEF Seeded
<1>11. ASSUME NEW d \in done, TakeDone(d) PROVE Seeded'
  BY <1>0, <1>11 DEF TakeDone, Seeded, Clean, guestState, hist
<1>12. CASE Pong
  BY <1>0, <1>12 DEF Pong, Seeded, Clean, wire, guestState, hist
<1>13. ASSUME NEW h \in hellos, Accept(h) PROVE Seeded'
  BY <1>0, <1>13 DEF Accept, Seeded, Clean, hostState, hist
<1>14. ASSUME NEW s \in starts, ReadStart(s) PROVE Seeded'
  BY <1>0, <1>14 DEF ReadStart, Seeded, Clean, hostState, hist
<1>15. ASSUME NEW w \in waits, StartWalk(w) PROVE Seeded'
  BY <1>0, <1>15 DEF StartWalk, Seeded, Clean, hostState, wire
<1>16. ASSUME NEW w \in waits, DropStart(w) PROVE Seeded'
  BY <1>0, <1>16 DEF DropStart, Seeded, Clean, hostState, wire
<1>17. ASSUME NEW w \in walks, Scan(w) PROVE Seeded'
  BY <1>0, <1>17 DEF Scan, Seeded, Clean, hostState, wire, hist
<1>18. ASSUME NEW w \in walks, SendDone(w) PROVE Seeded'
  BY <1>0, <1>18 DEF SendDone, Seeded, Clean, hostState, hist
<1>19. ASSUME NEW s \in Session, NEW l \in Lane, Notice(s, l) PROVE Seeded'
  BY <1>0, <1>19 DEF Notice, Seeded, Clean, hostState, wire, hist
<1>20. CASE Tick
  BY <1>0, <1>20 DEF Tick, Ended, Seeded, Clean, hist
<1>21. CASE Change
  BY <1>0, <1>21 DEF Change, Seeded, Clean, hostState, hist
<1>22. ASSUME NEW b \in blocking, Swap(b) PROVE Seeded'
  <2>1. /\ b.sess \in Session /\ rep'.sess = b.sess /\ (\A s \in Session : s # b.sess => asm'[s] = asm[s])
        /\ overtaken' = (overtaken \/ b.sess < rep.sess) /\ UNCHANGED <<pc, sess, mute, cut>>
    BY <1>22, SwapEffect DEF wire
  <2>2. CASE b.sess = sess
    BY <2>1, <2>2 DEF Seeded
  <2>3. ASSUME b.sess # sess, Seeded, pc = "run", ~ asm[sess].staging, Clean PROVE overtaken'
    <3>1. overtaken \/ rep.sess = sess
      BY <2>3 DEF Seeded
    <3>2. b.sess \in Nat /\ sess \in Nat
      <4>1. sess \in 0 .. MaxFault + 1
        BY <1>0 DEF Types
      <4>2. b.sess \in Session /\ Session \subseteq Nat
        BY <2>1, SessionIs, Zenon
      <4>3. sess \in Nat
        BY <4>1, LanesAssumption
      <4> QED
        BY <4>2, <4>3, Zenon
    <3>3. b.sess <= sess
      BY <1>0 DEF Past
    <3>4. rep.sess = sess => b.sess < rep.sess
      BY <2>3, <3>2, <3>3
    <3> QED
      BY <2>1, <3>1, <3>4, Zenon
  <2>4. ASSUME b.sess # sess, pc = "run" PROVE asm'[sess] = asm[sess]
    BY <1>0, <2>1, <2>4 DEF Dialled
  <2> QED
    BY <1>0, <2>1, <2>2, <2>3, <2>4 DEF Seeded, Clean
<1>23. ASSUME NEW l \in Lane, LaneDies(l) PROVE Seeded'
  BY <1>0, <1>23 DEF LaneDies, Seeded, Clean, hostState, guestState, hist
<1>24. CASE FallSilent
  BY <1>0, <1>24 DEF FallSilent, Seeded, Clean, hostState, guestState, hist
<1>25. CASE GuestRestart
  BY <1>0, <1>25 DEF GuestRestart, Seeded, Clean, hostState, hist
<1>26. CASE HostRestart
  BY <1>0, <1>26 DEF HostRestart, Seeded, Clean, guestState, hist
<1>27. CASE UNCHANGED vars
  BY <1>0, <1>27 DEF vars, Seeded, Clean, hostState, wire, guestState, hist
<1> QED
  BY <1>2, <1>3, <1>4, <1>5, <1>6, <1>7, <1>8, <1>9, <1>10, <1>11, <1>12, <1>13, <1>14, <1>15, <1>16, <1>17, <1>18, <1>19, <1>20, <1>21, <1>22, <1>23, <1>24, <1>25, <1>26, <1>27, Kinds

\* The journal lane of a running session has every change since it was attached.
LEMMA AttachedStep ==
    ASSUME IInv, [Next]_vars
    PROVE  Attached'
<1>0. Attached /\ Past /\ Types /\ Dialled /\ Unasked /\ Setup /\ Versions
  BY DEF IInv
<1>2. CASE Connect
  BY <1>0, <1>2 DEF Connect, Attached, Clean, Queued, guestState
<1>3. CASE HelloAck
  <2>1. pc = "hello" /\ pc' = "lanes" /\ UNCHANGED <<sess, jq, walks, done, blocking>>
    BY <1>3 DEF HelloAck, wire, guestState
  <2> QED
    BY <1>0, <2>1 DEF Attached, Queued, Unasked
<1>4. CASE HelloFails
  BY <1>0, <1>4 DEF HelloFails, GiveUp, Attached, Clean, Queued, guestState, hist
<1>5. CASE DialLane
  BY <1>0, <1>5 DEF DialLane, Attached, Clean, Queued, guestState, hist
<1>6. CASE DialFails
  BY <1>0, <1>6 DEF DialFails, GiveUp, Attached, Clean, Queued, guestState, hist
<1>7. CASE Begin
  BY <1>0, LanesAssumption, MarkFields, ScanFields, WaitFields, <1>7 DEF Begin, Attached, Clean, Queued, Past, Types, Dialled, Unasked, Of, guestState, hist
<1>8. CASE EndSession
  BY <1>0, <1>8 DEF EndSession, Ended, Attached, Clean, Queued, guestState, hist
<1>9. CASE Backoff
  BY <1>0, <1>9 DEF Backoff, Attached, Clean, Queued, wire, guestState, hist
<1>10. ASSUME NEW b \in jq, TakeJournal(b) PROVE Attached'
  <2>1. /\ b \in Queued /\ Queued' = Queued \ {b} /\ (\A c \in Queued : b.ver <= c.ver) /\ sess \in Session
        /\ asm'[sess].staging = asm[sess].staging /\ b.ver \in Nat
        /\ UNCHANGED <<pc, sess, mute, cut, ends, gver, walks, done, blocking, late>>
    BY <1>10, JournalEffect DEF Queued, guestState, hist
  <2>2. Clean' = Clean
    BY <2>1 DEF Clean
  <2>3. ASSUME Clean, NEW c \in Queued' PROVE <<sess, "journal">> \in ends /\ \E k \in Queued' : k.ver = gver
    <3>1. PICK m \in Queued : m.ver = gver
      BY <1>0, <2>1, <2>3 DEF Attached
    <3>2. c.ver \in Nat /\ c.ver <= gver /\ gver \in Nat /\ b.ver <= c.ver
      BY <1>0, <2>1, MarkFields DEF Types, Versions, Queued
    <3>3. m # b \/ c.ver = gver
      BY <2>1, <3>1, <3>2
    <3> QED
      BY <1>0, <2>1, <2>3, <3>1, <3>3 DEF Attached
  <2> QED
    BY <1>0, <2>1, <2>2, <2>3 DEF Attached
<1>11. ASSUME NEW d \in done, TakeDone(d) PROVE Attached'
  BY <1>0, <1>11 DEF TakeDone, Attached, Clean, Queued, guestState, hist
<1>12. CASE Pong
  BY <1>0, <1>12 DEF Pong, Attached, Clean, Queued, wire, guestState, hist
<1>13. ASSUME NEW h \in hellos, Accept(h) PROVE Attached'
  BY <1>0, <1>13 DEF Accept, Attached, Clean, Queued, hostState, hist
<1>14. ASSUME NEW s \in starts, ReadStart(s) PROVE Attached'
  BY <1>0, <1>14 DEF ReadStart, Attached, Clean, Queued, hostState, hist
<1>15. ASSUME NEW w \in waits, StartWalk(w) PROVE Attached'
  <2>1. /\ walks' = walks \cup {[sess |-> w.sess, ver |-> -1]} /\ [sess |-> w.sess, ver |-> -1].sess = w.sess
        /\ UNCHANGED <<pc, sess, mute, cut, jq, ends, gver, done, blocking, asm>>
    BY <1>15 DEF StartWalk, hostState, wire
  <2>2. ~ late' => ~ late /\ (w.sess = sess => <<sess, "journal">> \in ends)
    BY <1>0, <1>15 DEF StartWalk, Types
  <2>3. Clean' = Clean /\ Queued' = Queued
    BY <2>1 DEF Clean, Queued
  <2> QED
    BY <1>0, <2>1, <2>2, <2>3 DEF Attached
<1>16. ASSUME NEW w \in waits, DropStart(w) PROVE Attached'
  BY <1>0, <1>16 DEF DropStart, Attached, Clean, Queued, hostState, wire
<1>17. ASSUME NEW w \in walks, Scan(w) PROVE Attached'
  <2>1. PICK x \in Scans : walks' = (walks \ {w}) \cup {x} /\ x.sess = w.sess
    BY <1>17, ScanEffect
  <2>2. UNCHANGED <<pc, sess, mute, cut, jq, ends, gver, done, blocking, asm, late>>
    BY <1>17, ScanEffect DEF hostState, wire, hist
  <2>3. Clean' = Clean /\ Queued' = Queued
    BY <2>2 DEF Clean, Queued
  <2> QED
    BY <1>0, <2>1, <2>2, <2>3 DEF Attached
<1>18. ASSUME NEW w \in walks, SendDone(w) PROVE Attached'
  BY <1>0, <1>18 DEF SendDone, Attached, Clean, Queued, hostState, hist
<1>19. ASSUME NEW s \in Session, NEW l \in Lane, Notice(s, l) PROVE Attached'
  BY <1>0, <1>19 DEF Notice, Attached, Clean, Queued, hostState, wire, hist
<1>20. CASE Tick
  BY <1>0, <1>20 DEF Tick, Ended, Attached, Clean, Queued, hist
<1>21. CASE Change
  <2>1. /\ gver' = gver + 1 /\ jq \subseteq jq' /\ (\A m \in jq' \ jq : <<m.sess, "journal">> \in ends)
        /\ UNCHANGED <<pc, sess, mute, cut, walks, done, blocking, asm, late>>
    BY <1>21, ChangeEffect DEF hostState, hist
  <2>2. Clean' = Clean
    BY <2>1 DEF Clean
  <2>3. ASSUME Clean, <<sess, "journal">> \in ends
        PROVE  <<sess, "journal">> \in ends' /\ \E k \in Queued' : k.ver = gver'
    <3>1. sess \in Session /\ Works(sess, "journal")
      BY <1>0, <2>3 DEF Clean, Unasked, Dialled, Works, Of, Lane
    <3>2. [sess |-> sess, ver |-> gver + 1] \in jq' /\ <<sess, "journal">> \in ends'
      BY <1>21, <2>3, <3>1, ChangeEffect
    <3>3. [sess |-> sess, ver |-> gver + 1] \in Queued'
      BY <2>1, <3>2 DEF Queued
    <3> QED
      BY <2>1, <3>2, <3>3
  <2>4. ASSUME Clean, Queued' # {} PROVE <<sess, "journal">> \in ends
    BY <1>0, <2>1, <2>4 DEF Attached, Queued
  <2> QED
    BY <1>0, <2>1, <2>2, <2>3, <2>4 DEF Attached
<1>22. ASSUME NEW b \in blocking, Swap(b) PROVE Attached'
  BY <1>0, <1>22 DEF Swap, Attached, Clean, Queued, wire, guestState
<1>23. ASSUME NEW l \in Lane, LaneDies(l) PROVE Attached'
  BY <1>0, <1>23 DEF LaneDies, Attached, Clean, Queued, hostState, guestState, hist
<1>24. CASE FallSilent
  BY <1>0, <1>24 DEF FallSilent, Attached, Clean, Queued, hostState, guestState, hist
<1>25. CASE GuestRestart
  BY <1>0, LanesAssumption, MarkFields, ScanFields, WaitFields, <1>25 DEF GuestRestart, Attached, Clean, Queued, Past, Types, Dialled, Unasked, Of, hostState, hist
<1>26. CASE HostRestart
  BY <1>0, <1>26 DEF HostRestart, Attached, Clean, Queued, guestState, hist
<1>27. CASE UNCHANGED vars
  BY <1>0, <1>27 DEF vars, Attached, Clean, Queued, hostState, wire, guestState, hist
<1> QED
  BY <1>2, <1>3, <1>4, <1>5, <1>6, <1>7, <1>8, <1>9, <1>10, <1>11, <1>12, <1>13, <1>14, <1>15, <1>16, <1>17, <1>18, <1>19, <1>20, <1>21, <1>22, <1>23, <1>24, <1>25, <1>26, <1>27, Kinds

\* What is under way, or was heard last, is the guest's version.
LEMMA FollowedStep ==
    ASSUME IInv, [Next]_vars
    PROVE  Followed'
<1>0. Followed /\ Attached /\ Seeded /\ Past /\ Types /\ Dialled /\ Unasked /\ Versions
  BY DEF IInv
<1>2. CASE Connect
  BY <1>0, <1>2 DEF Connect, Followed, Clean, Queued, guestState
<1>3. CASE HelloAck
  BY <1>0, LanesAssumption, MarkFields, ScanFields, WaitFields, <1>3 DEF HelloAck, Followed, Attached, Clean, Queued, Past, Types, Dialled, Unasked, Versions, Of, wire, guestState, hist
<1>4. CASE HelloFails
  BY <1>0, <1>4 DEF HelloFails, GiveUp, Followed, Clean, Queued, guestState, hist
<1>5. CASE DialLane
  BY <1>0, <1>5 DEF DialLane, Followed, Clean, Queued, guestState, hist
<1>6. CASE DialFails
  BY <1>0, <1>6 DEF DialFails, GiveUp, Followed, Clean, Queued, guestState, hist
<1>7. CASE Begin
  BY <1>0, LanesAssumption, MarkFields, ScanFields, WaitFields, <1>7 DEF Begin, Followed, Attached, Clean, Queued, Past, Types, Dialled, Unasked, Versions, Of, guestState, hist
<1>8. CASE EndSession
  BY <1>0, <1>8 DEF EndSession, Ended, Followed, Clean, Queued, guestState, hist
<1>9. CASE Backoff
  BY <1>0, <1>9 DEF Backoff, Followed, Clean, Queued, wire, guestState, hist
<1>10. ASSUME NEW b \in jq, TakeJournal(b) PROVE Followed'
  <2>1. /\ b \in Queued /\ Queued' = Queued \ {b}
        /\ asm'[sess].heard = b.ver /\ asm'[sess].staging = asm[sess].staging /\ (~ asm[sess].staging => rep'.ver = b.ver)
        /\ UNCHANGED <<pc, sess, mute, cut, gver, walks, done, blocking, late, overtaken>>
    BY <1>10, JournalEffect DEF Queued, guestState, hist
  <2>2. ASSUME Clean, Queued' = {} PROVE b.ver = gver
    BY <1>0, <2>1, <2>2 DEF Attached
  <2> QED
    BY <2>1, <2>2 DEF Followed, Clean
<1>11. ASSUME NEW d \in done, TakeDone(d) PROVE Followed'
  BY <1>0, <1>11 DEF TakeDone, Followed, Clean, Queued, guestState, hist
<1>12. CASE Pong
  BY <1>0, <1>12 DEF Pong, Followed, Clean, Queued, wire, guestState, hist
<1>13. ASSUME NEW h \in hellos, Accept(h) PROVE Followed'
  BY <1>0, <1>13 DEF Accept, Followed, Clean, Queued, hostState, hist
<1>14. ASSUME NEW s \in starts, ReadStart(s) PROVE Followed'
  BY <1>0, <1>14 DEF ReadStart, Followed, Clean, Queued, hostState, hist
<1>15. ASSUME NEW w \in waits, StartWalk(w) PROVE Followed'
  BY <1>0, LanesAssumption, MarkFields, ScanFields, WaitFields, <1>15 DEF StartWalk, Followed, Attached, Clean, Queued, Past, Types, Dialled, Unasked, Versions, Of, hostState, wire
<1>16. ASSUME NEW w \in waits, DropStart(w) PROVE Followed'
  BY <1>0, <1>16 DEF DropStart, Followed, Clean, Queued, hostState, wire
<1>17. ASSUME NEW w \in walks, Scan(w) PROVE Followed'
  <2>1. PICK x \in Scans : walks' = (walks \ {w}) \cup {x} /\ x.ver = gver
    BY <1>17, ScanEffect
  <2>2. UNCHANGED <<pc, sess, mute, cut, jq, gver, done, blocking, asm, rep, late, overtaken>>
    BY <1>17, ScanEffect DEF hostState, wire, hist
  <2>3. Clean' = Clean /\ Queued' = Queued
    BY <2>2 DEF Clean, Queued
  <2> QED
    BY <1>0, <2>1, <2>2, <2>3 DEF Followed
<1>18. ASSUME NEW w \in walks, SendDone(w) PROVE Followed'
  BY <1>0, <1>18 DEF SendDone, Followed, Clean, Queued, hostState, hist
<1>19. ASSUME NEW s \in Session, NEW l \in Lane, Notice(s, l) PROVE Followed'
  BY <1>0, <1>19 DEF Notice, Followed, Clean, Queued, hostState, wire, hist
<1>20. CASE Tick
  BY <1>0, <1>20 DEF Tick, Ended, Followed, Clean, Queued, hist
<1>21. CASE Change
  <2>1. UNCHANGED <<pc, sess, mute, cut, walks, done, blocking, asm, late>>
    BY <1>21, ChangeEffect DEF hostState, hist
  <2>2. Clean' = Clean
    BY <2>1 DEF Clean
  <2>3. ASSUME Clean, <<sess, "journal">> \in ends PROVE Queued' # {}
    <3>1. sess \in Session /\ Works(sess, "journal")
      BY <1>0, <2>3 DEF Clean, Unasked, Dialled, Works, Of, Lane
    <3>2. [sess |-> sess, ver |-> gver + 1] \in jq'
      BY <1>21, <2>3, <3>1, ChangeEffect
    <3> QED
      BY <2>1, <3>2 DEF Queued
  <2> QED
    BY <1>0, <2>1, <2>2, <2>3 DEF Followed, Attached
<1>22. ASSUME NEW b \in blocking, Swap(b) PROVE Followed'
  <2>1. /\ b.sess \in Session /\ b.ver \in Nat /\ blocking' \subseteq blocking
        /\ rep'.ver \in {b.ver, asm[b.sess].heard} /\ b.ver <= rep'.ver /\ asm[b.sess].heard <= rep'.ver
        /\ (\A s \in Session : asm'[s].heard = asm[s].heard) /\ (\A s \in Session : s # b.sess => asm'[s] = asm[s])
        /\ overtaken' = (overtaken \/ b.sess < rep.sess)
        /\ UNCHANGED <<pc, sess, mute, cut, jq, gver, walks, done, late>>
    BY <1>22, SwapEffect, MarkFields DEF wire, guestState
  <2>2. Clean' = Clean /\ Queued' = Queued
    BY <2>1 DEF Clean, Queued
  <2>3. ASSUME Clean PROVE sess \in Session
    BY <1>0, <2>3 DEF Clean, Unasked, Dialled
  <2>4. ASSUME Clean, ~ late, Queued = {}, b.sess = sess PROVE rep'.ver = gver
    <3>1. b.ver = gver \/ asm[sess].heard = gver
      BY <1>0, <2>1, <2>4 DEF Followed
    <3>2. gver \in Nat /\ b.ver <= gver /\ asm[sess].heard <= gver /\ asm[sess].heard \in Nat
      BY <1>0, <2>1, <2>4 DEF Types, Versions, Asms
    <3> QED
      BY <2>1, <2>4, <3>1, <3>2
  <2>5. ASSUME Clean, pc = "run", b.sess # sess, ~ asm[sess].staging PROVE overtaken'
    <3>1. overtaken \/ rep.sess = sess
      BY <1>0, <2>5 DEF Seeded
    <3>2. b.sess \in Nat /\ sess \in Nat
      <4>1. sess \in 0 .. MaxFault + 1
        BY <1>0 DEF Types
      <4>2. b.sess \in Session /\ Session \subseteq Nat
        BY <2>1, SessionIs, Zenon
      <4>3. sess \in Nat
        BY <4>1, LanesAssumption
      <4> QED
        BY <4>2, <4>3, Zenon
    <3>3. b.sess <= sess
      BY <1>0 DEF Past
    <3>4. rep.sess = sess => b.sess < rep.sess
      BY <2>5, <3>2, <3>3
    <3> QED
      BY <2>1, <3>1, <3>4, Zenon
  <2>6. ASSUME Clean', ~ late', Queued' = {}, NEW w \in walks' \cup done' \cup blocking', w.sess = sess, w.ver # -1
        PROVE  w.ver = gver \/ asm'[sess].heard = gver
    BY <1>0, <2>1, <2>2, <2>3, <2>6 DEF Followed
  <2>7. ASSUME Clean', ~ late', Queued' = {}, pc' = "run", ~ asm'[sess].staging, ~ overtaken'
        PROVE  rep'.ver = gver
    <3>1. CASE b.sess = sess
      BY <2>1, <2>2, <2>4, <2>7, <3>1
    <3>2. CASE b.sess # sess
      BY <2>1, <2>2, <2>3, <2>5, <2>7, <3>2
    <3> QED
      BY <3>1, <3>2
  <2> QED
    BY <2>1, <2>6, <2>7 DEF Followed
<1>23. ASSUME NEW l \in Lane, LaneDies(l) PROVE Followed'
  BY <1>0, <1>23 DEF LaneDies, Followed, Clean, Queued, hostState, guestState, hist
<1>24. CASE FallSilent
  BY <1>0, <1>24 DEF FallSilent, Followed, Clean, Queued, hostState, guestState, hist
<1>25. CASE GuestRestart
  BY <1>0, LanesAssumption, MarkFields, ScanFields, WaitFields, <1>25 DEF GuestRestart, Followed, Attached, Clean, Queued, Past, Types, Dialled, Unasked, Versions, Of, hostState, hist
<1>26. CASE HostRestart
  BY <1>0, <1>26 DEF HostRestart, Followed, Clean, Queued, guestState, hist
<1>27. CASE UNCHANGED vars
  BY <1>0, <1>27 DEF vars, Followed, Clean, Queued, hostState, wire, guestState, hist
<1> QED
  BY <1>2, <1>3, <1>4, <1>5, <1>6, <1>7, <1>8, <1>9, <1>10, <1>11, <1>12, <1>13, <1>14, <1>15, <1>16, <1>17, <1>18, <1>19, <1>20, <1>21, <1>22, <1>23, <1>24, <1>25, <1>26, <1>27, Kinds


-----------------------------------------------------------------------------
(***************************************************************************)
(* The theorems.                                                           *)
(***************************************************************************)
\* The daemons start with nothing.
LEMMA InitIInv == Init => IInv
<1> SUFFICES ASSUME Init PROVE IInv
  OBVIOUS
<1>1. asm \in [Session -> Asms] /\ rep \in Reps /\ (\A s \in Session : asm[s].heard = 0) /\ rep.sess = 0 /\ rep.ver = 0
  BY AsmGoes, RepFields DEF Init
<1>2. Types
  <2>1. sess \in 0 .. MaxFault + 1 /\ missed \in 0 .. PING_MISSES /\ gver \in Nat
    BY LanesAssumption DEF Init
  <2>2. lost \in BOOLEAN /\ late \in BOOLEAN /\ overtaken \in BOOLEAN
    BY Zenon DEF Init
  <2> QED
    BY <1>1, <2>1, <2>2 DEF Init, Types
<1>3. Setup /\ Past /\ Versions /\ Unasked /\ Dialled
  BY <1>1 DEF Init, Setup, Past, Versions, Unasked, Dialled
<1>4. Aged /\ Attached /\ Followed /\ Seeded
  BY DEF Init, Aged, Attached, Followed, Seeded, Clean
<1> QED
  BY <1>2, <1>3, <1>4 DEF IInv

\* Every step keeps the invariant.
LEMMA NextIInv == IInv /\ [Next]_vars => IInv'
<1> SUFFICES ASSUME IInv, [Next]_vars PROVE IInv'
  OBVIOUS
<1>1. Types' /\ Setup' /\ Past' /\ Versions' /\ Unasked'
  BY TypesStep, SetupStep, PastStep, VersionsStep, UnaskedStep
<1>2. Dialled' /\ Aged' /\ Attached' /\ Followed' /\ Seeded'
  BY DialledStep, AgedStep, AttachedStep, FollowedStep, SeededStep
<1> QED
  BY <1>1, <1>2 DEF IInv

\* The invariant holds of every behaviour of the two daemons.
LEMMA Invariance == Spec => []IInv
BY InitIInv, NextIInv, PTL DEF Spec

\* TypeOK: the RpcClient in use is that of the running session, the replica is that of
\* a session there has been and no version is ahead of the guest, for any number of
\* faults and changes.
THEOREM TypeCorrect == Spec => []TypeOK
<1>1. ASSUME IInv PROVE TypeOK
  <2>1. Types /\ Setup /\ Past /\ Versions /\ Aged
    BY <1>1 DEF IInv
  <2>2. rep.sess \in 0 .. sess /\ rep.ver \in 0 .. gver
    BY <2>1, RepFields, LanesAssumption DEF Types, Past, Versions
  <2>3. table = {s \in Session : <<s, "ctl">> \in ends}
    BY <2>1 DEF Types, Setup
  <2>4. ASSUME NEW w \in walks PROVE w.ver \in -1 .. gver
    BY <2>1, ScanFields DEF Types, Versions
  <2>5. ASSUME NEW w \in waits PROVE w.age \in 0 .. BULK_WAIT
    BY <2>1, WaitFields, LanesAssumption DEF Types, Aged
  <2> QED
    BY <2>1, <2>2, <2>3, <2>4, <2>5 DEF TypeOK, Types, Setup
<1> QED
  BY <1>1, Invariance, PTL

\* StartHeard: while the control loop of the guest waits in bulk_sender it answers no
\* ping, so that the host has given the session up before the request is dropped.
THEOREM NoRequestDropped == Spec => []StartHeard
<1>1. IInv => StartHeard
  BY DEF IInv, Aged, StartHeard
<1> QED
  BY <1>1, Invariance, PTL

\* SeededIsCurrent: once a snapshot is in and nothing is on the journal lane, the replica
\* has the guest's version, whatever lanes were lost and whoever restarted before.
THEOREM SeededStaysCurrent == Spec => []SeededIsCurrent
<1>1. ASSUME IInv PROVE SeededIsCurrent
  <2> SUFFICES ASSUME pc = "run", ~ asm[sess].staging, ~ late, ~ overtaken, sess \notin mute, Of(sess) \cap cut = {},
                      ~ \E b \in jq : b.sess = sess
               PROVE  rep = [sess |-> sess, ver |-> gver]
    BY DEF SeededIsCurrent
  <2>1. Clean /\ Queued = {}
    BY DEF Clean, Queued
  <2>2. rep.sess = sess /\ rep.ver = gver
    BY <1>1, <2>1 DEF IInv, Followed, Seeded
  <2>3. rep \in Reps /\ sess \in Nat /\ gver \in Nat
    BY <1>1, LanesAssumption DEF IInv, Types
  <2> QED
    BY <2>2, <2>3, RepFields
<1> QED
  BY <1>1, Invariance, PTL

=============================================================================
