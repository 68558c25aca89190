------------------------------ MODULE Listing ------------------------------
(***************************************************************************)
(* A directory of the replica as DirState keeps it, and a client that      *)
(* lists it page by page while the journal and the Mac change it.          *)
(*                                                                         *)
(* ents is a vector in the order of the cookies; an entry that goes is     *)
(* marked dead and stays until compact, and by_name is an index into the   *)
(* vector, so every compaction moves the positions the index holds.  A     *)
(* READDIR names the last cookie the client has; the cookie verifier is    *)
(* not looked at, and a reseed numbers the entries afresh.                 *)
(*                                                                         *)
(* Data left out: the arena of the names, kinds, attributes.  The size of  *)
(* an encoded entry is one unit, or two for the names in Long.             *)
(*                                                                         *)
(* Histories.  stayed: the names and nodes there since the listing         *)
(* began; reseeded: the directory was replaced since.                      *)
(***************************************************************************)
EXTENDS Integers, Sequences, FiniteSets

CONSTANTS
    Name, Node,
    Long,           \* the names with large entries
    FIRST_COOKIE,
    COMPACT_MIN,    \* dead entries before a compaction (16)
    MAX_ENTRIES,    \* entries the surface puts in a page of NFSv4.1 (4096)
    Budget,         \* what a client may ask for (maxcount), in units
    MaxChange       \* bound: changes of the directory

\* The Mac's maxcount has room for any one entry.
ASSUME ListingAssumption ==
    /\ IsFiniteSet(Name) /\ IsFiniteSet(Node) /\ Long \subseteq Name
    /\ {FIRST_COOKIE, COMPACT_MIN, MAX_ENTRIES, MaxChange} \subseteq Nat \ {0}
    /\ Budget \subseteq Nat \ {0, 1} /\ Budget # {}

VARIABLES
    ents, by_name, dead, next_cookie,   \* DirState
    reader,             \* the listing: at, the cookie it has, the entries it got
    changes,            \* used of the bound
    stayed, reseeded    \* histories

SeqExt == INSTANCE SequencesExt

dirState == <<ents, by_name, dead, next_cookie>>
hist     == <<stayed, reseeded>>
vars     == <<dirState, reader, changes, hist>>

\* A directory as a snapshot leaves it: entries as getdents gave them, the
\* cookies from the first on.
Seeded(order) ==
    [ents |-> [i \in DOMAIN order |-> [cookie |-> FIRST_COOKIE + i - 1, name |-> order[i].name,
                                       node |-> order[i].node, dead |-> FALSE]],
     by_name |-> DOMAIN order, dead |-> 0, next |-> FIRST_COOKIE + Len(order)]

\* The directory has been seeded with every name, all of one file.
Init ==
    /\ LET k == CHOOSE k \in Node : TRUE
           D == Seeded(CHOOSE o \in SeqExt!SetToSeqs({[name |-> n, node |-> k] : n \in Name}) : TRUE)
       IN  ents = D.ents /\ by_name = D.by_name /\ dead = D.dead /\ next_cookie = D.next
    /\ reader = [at |-> "idle", pos |-> 0, seen |-> <<>>]
    /\ changes = 0 /\ stayed = {} /\ reseeded = FALSE

-----------------------------------------------------------------------------
(***************************************************************************)
(* DirState.  Its value is a record D: ents, by_name, dead, next.          *)
(***************************************************************************)
DirState == [ents |-> ents, by_name |-> by_name, dead |-> dead, next |-> next_cookie]

Entry(e) == [name |-> e.name, node |-> e.node, cookie |-> e.cookie]

\* The positions under which the index finds n.
FindIdx(D, n) == {i \in D.by_name : ~ D.ents[i].dead /\ D.ents[i].name = n}

InsertNew(D, n, k) ==
    [ents |-> Append(D.ents, [cookie |-> D.next, name |-> n, node |-> k, dead |-> FALSE]),
     by_name |-> D.by_name \cup {Len(D.ents) + 1}, dead |-> D.dead, next |-> D.next + 1]

\* Mutant: the index keeps its positions.
CompactKeepsIndex(D) ==
    [D EXCEPT !.ents = SelectSeq(D.ents, LAMBDA e : ~ e.dead), !.dead = 0]

\* Mutant: the live entries are numbered afresh.
CompactRenumbers(D) ==
    LET rest == SelectSeq(D.ents, LAMBDA e : ~ e.dead)
    IN  [D EXCEPT !.ents = [i \in DOMAIN rest |-> [rest[i] EXCEPT !.cookie = FIRST_COOKIE + i - 1]],
                  !.by_name = DOMAIN rest, !.dead = 0]

\* The vector and the index are built again from the live entries, which keep
\* their cookies.
Compact(D) ==
    LET rest == SelectSeq(D.ents, LAMBDA e : ~ e.dead)
    IN  [D EXCEPT !.ents = rest, !.by_name = DOMAIN rest, !.dead = 0]

Kill(D, i) ==
    LET K == [D EXCEPT !.ents[i].dead = TRUE, !.by_name = @ \ {i}, !.dead = @ + 1]
    IN  IF K.dead > Len(K.ents) \div 2 /\ K.dead >= COMPACT_MIN THEN Compact(K) ELSE K

\* Mutant: an upsert of what is there takes a new cookie.
UpsertAlways(D, n, k) ==
    IF FindIdx(D, n) = {} THEN InsertNew(D, n, k)
    ELSE InsertNew(Kill(D, CHOOSE j \in FindIdx(D, n) : TRUE), n, k)

\* Nothing for the same node; another node takes the name under a new cookie.
Upserted(D, n, k) ==
    IF FindIdx(D, n) = {} THEN InsertNew(D, n, k)
    ELSE LET i == CHOOSE j \in FindIdx(D, n) : TRUE
         IN  IF D.ents[i].node = k THEN D ELSE InsertNew(Kill(D, i), n, k)

\* The live entries after a cookie: the vector is searched for where they start.
RangeAfter(D, c) == SelectSeq(SelectSeq(D.ents, LAMBDA e : e.cookie > c), LAMBDA e : ~ e.dead)

Install(D) ==
    /\ ents' = D.ents /\ by_name' = D.by_name /\ dead' = D.dead /\ next_cookie' = D.next

LiveEntries(D) == {Entry(D.ents[i]) : i \in {j \in DOMAIN D.ents : ~ D.ents[j].dead}}
Links(D)       == {<<e.name, e.node>> : e \in LiveEntries(D)}

-----------------------------------------------------------------------------
(***************************************************************************)
(* Changes of the directory.                                               *)
(***************************************************************************)
Change(D) ==
    /\ changes < MaxChange /\ changes' = changes + 1
    /\ Install(D)
    /\ stayed' = stayed \cap Links(D)
    /\ UNCHANGED <<reader, reseeded>>

\* dentry_set, dentry_relink
Upsert(n, k) == Change(Upserted(DirState, n, k))

\* dentry_remove, dentry_take
Remove(n) == \E i \in FindIdx(DirState, n) : Change(Kill(DirState, i))

\* A snapshot: the directory is built anew from the entries, in the order of
\* the guest's getdents, and swapped in.
Reseed ==
    \E order \in SeqExt!SetToSeqs(LiveEntries(DirState)) :
        /\ changes < MaxChange /\ changes' = changes + 1
        /\ Install(Seeded(order))
        /\ reseeded' = (reader.at = "open" \/ reseeded)
        /\ UNCHANGED <<reader, stayed>>

-----------------------------------------------------------------------------
(***************************************************************************)
(* The client.                                                             *)
(***************************************************************************)
Begin ==
    /\ reader.at # "open"
    /\ reader' = [at |-> "open", pos |-> 0, seen |-> <<>>]
    /\ stayed' = Links(DirState) /\ reseeded' = FALSE
    /\ UNCHANGED <<dirState, changes>>

\* ShareReplica::readdir: at most max entries after the cookie, and whether
\* there are more.
Readdir(c, max) ==
    LET all == RangeAfter(DirState, c)
    IN  [entries |-> SubSeq(all, 1, IF Len(all) < max THEN Len(all) ELSE max), eof |-> Len(all) <= max]

\* The units of the first k entries of a page.
Units(page, k) == k + Cardinality({i \in 1 .. k : page[i].name \in Long})

\* Mutant: an entry that just fits is taken for one that does not.
FittingStrict(page, budget) ==
    LET Fits == {k \in 0 .. Len(page) : k = 0 \/ Units(page, k) < budget}
    IN  CHOOSE k \in Fits : \A j \in Fits : j <= k

\* How many entries are encoded before one does not fit.
Fitting(page, budget) ==
    LET Fits == {k \in 0 .. Len(page) : Units(page, k) <= budget}
    IN  CHOOSE k \in Fits : \A j \in Fits : j <= k

\* The entries that fit, and the end when they are the last.
Give(page, budget) ==
    LET k   == Fitting(page.entries, budget)
        got == [i \in 1 .. k |-> Entry(page.entries[i])]
    IN  reader' = [at |-> IF page.eof /\ k = Len(page.entries) THEN "done" ELSE "open",
                   pos |-> IF k = 0 THEN reader.pos ELSE got[k].cookie,
                   seen |-> reader.seen \o got]

\* NFSv3: the surface is asked for about as many entries as fit, one at least.
ReadDir3(budget, max) ==
    /\ reader.at = "open"
    /\ Give(Readdir(reader.pos, max), budget)
    /\ UNCHANGED <<dirState, changes, hist>>

\* NFSv4.1: for as many as there are.
ReadDir4(budget) ==
    /\ reader.at = "open"
    /\ Give(Readdir(reader.pos, MAX_ENTRIES), budget)
    /\ UNCHANGED <<dirState, changes, hist>>

Page == \E b \in Budget : ReadDir4(b) \/ \E max \in 1 .. b : ReadDir3(b, max)

Next ==
    \/ \E n \in Name : Remove(n) \/ \E k \in Node : Upsert(n, k)
    \/ Reseed \/ Begin \/ Page

\* The client goes on asking until a page says it was the last.
Spec == Init /\ [][Next]_vars /\ WF_vars(Page)

-----------------------------------------------------------------------------
(***************************************************************************)
(* Properties.                                                             *)
(***************************************************************************)
\* The index holds the live entries and no other, each name once; dead counts
\* the dead ones; the cookies rise along the vector, which range_after's
\* binary search relies on.  Upserts, removals, compactions and reseeds of
\* DirState in any order keep it so.
IndexExact ==
    /\ by_name = {i \in DOMAIN ents : ~ ents[i].dead}
    /\ \A i, j \in by_name : ents[i].name = ents[j].name => i = j
    /\ dead = Len(ents) - Cardinality(by_name)
    /\ \A i, j \in DOMAIN ents : i < j => ents[i].cookie < ents[j].cookie
    /\ \A i \in DOMAIN ents : ents[i].cookie < next_cookie

\* A listing that has ended gave every name that led to the same node all the
\* time exactly once, and no entry twice, however the directory changed
\* between its pages (insert_new, kill, compact) and wherever pages were cut,
\* unless a reseed numbered the entries afresh in the middle of it.
ListedOnce ==
    reader.at = "done" /\ ~ reseeded =>
        /\ \A l \in stayed :
              Cardinality({i \in DOMAIN reader.seen : <<reader.seen[i].name, reader.seen[i].node>> = l}) = 1
        /\ \A i, j \in DOMAIN reader.seen : reader.seen[i] = reader.seen[j] => i = j

\* A listing comes to its end: every page of read_dir and op_readdir gives an
\* entry or says that it is the last.
ListingEnds == reader.at = "open" ~> reader.at = "done"

Table == INSTANCE DirTable WITH table <- LiveEntries(DirState), next <- next_cookie

\* DirState with tombstones, index and compaction is the plain table of names
\* and cookies that DirTable describes and that module Tree works with.
IsTable == Table!Spec

=============================================================================
