------------------------------- MODULE Tree -------------------------------
(***************************************************************************)
(* The namespace of one share replica (crates/mist-replica/src/lib.rs) as  *)
(* a value: the node table with its link counts, and one entry table per   *)
(* directory with its readdir cookies.  Every operator is a function from  *)
(* trees to trees, so the same definitions serve the replica by itself,    *)
(* the staging replica of a seed and the live one.                         *)
(*                                                                         *)
(* Data left out: attributes (module Replica), the name arena and its hash *)
(* index, the per-entry copy of the file kind.                             *)
(***************************************************************************)
EXTENDS Integers, FiniteSets

CONSTANTS
    Node,       \* NodeKeys (inode number and generation) of the share
    Root,       \* the NodeKey of the share root
    Name,       \* entry names
    DirNode,    \* the NodeKeys that are directories in the guest
    NoNode      \* stands for Option<NodeKey>::None

ASSUME TreeAssumption ==
    /\ IsFiniteSet(Node) /\ NoNode \notin Node
    /\ DirNode \subseteq Node /\ Root \in DirNode
    /\ IsFiniteSet(Name)

\* Cookies 1 and 2 are left to "." and "..".
FIRST_COOKIE == 3

\* DirState::new()
NoEnts    == [m \in Name |-> NoNode]
NoCookies == [m \in Name |-> 0]

(***************************************************************************)
(* What a tree is.  A node that is not in live has the fields of a fresh   *)
(* one, as removing it drops its Node and its DirState.                    *)
(***************************************************************************)
IsTree(t) ==
    /\ t.live     \in SUBSET Node    \* keys of the node table
    /\ t.isDir    \in SUBSET Node    \* nodes whose dir is Some(DirState)
    /\ t.complete \in SUBSET Node    \* DirState.complete
    /\ t.links    \in [Node -> Nat]
    /\ t.parent   \in [Node -> Node]
    /\ t.ent      \in [Node -> [Name -> Node \cup {NoNode}]]
    /\ t.cookie   \in [Node -> [Name -> Nat]]
    /\ t.next     \in [Node -> Nat]  \* DirState.next_cookie
    /\ t.gen      \in [Node -> Nat]  \* DirState.dirgen
    /\ t.nodes    \in Int            \* the three statistics
    /\ t.dirs     \in Int
    /\ t.entries  \in Int

\* A directory table belongs to a known node; a node without one lists
\* nothing, and a node that is not known is counted nowhere.
WellFormed(t) ==
    /\ t.isDir \subseteq t.live /\ t.complete \subseteq t.isDir
    /\ \A d \in Node \ t.isDir : t.ent[d] = NoEnts /\ t.cookie[d] = NoCookies
    /\ \A n \in Node \ t.live : t.links[n] = 0

NewTree == [live |-> {}, isDir |-> {}, complete |-> {},
            links   |-> [n \in Node |-> 0],
            parent  |-> [n \in Node |-> Root],
            ent     |-> [n \in Node |-> NoEnts],
            cookie  |-> [n \in Node |-> NoCookies],
            next    |-> [n \in Node |-> FIRST_COOKIE],
            gen     |-> [n \in Node |-> 0],
            nodes |-> 0, dirs |-> 0, entries |-> 0]

\* The dentries of the directories in X that lead to c.
InFrom(t, X, c) == {p \in X \X Name : t.ent[p[1]][p[2]] = c}

\* All dentries that lead to c.
InEdges(t, c) == InFrom(t, Node, c)

\* The dentries held by the directories in X.
Held(t, X) == {p \in X \X Name : t.ent[p[1]][p[2]] # NoNode}

Monus(a, b) == IF a <= b THEN 0 ELSE a - b

-----------------------------------------------------------------------------
(***************************************************************************)
(* link_dec and remove_node.  Removing a node removes its entries, each of *)
(* which drops one link of its target, and so on down the orphaned         *)
(* subtree.  The recursion removes the least set of nodes that contains S  *)
(* and every node (other than the root) whose last link goes when the      *)
(* links in cnt and those held by the set itself are dropped.              *)
(***************************************************************************)
Drops(t, cnt, X, c) == cnt[c] + Cardinality(InFrom(t, X, c))

LosesLast(t, cnt, X, c) ==
    /\ c # Root
    /\ Drops(t, cnt, X, c) > 0
    /\ Drops(t, cnt, X, c) >= t.links[c]

Closed(t, cnt, S, X) ==
    /\ S \subseteq X
    /\ \A c \in t.live : LosesLast(t, cnt, X, c) => c \in X

Doomed(t, cnt, S) ==
    {n \in t.live : \A X \in SUBSET t.live : Closed(t, cnt, S, X) => n \in X}

\* Mutant: remove_node forgets entries_add(-1) for the entries of a directory.
DropMissesEntries(t, cnt, D) ==
    [live     |-> t.live \ D, isDir |-> t.isDir \ D, complete |-> t.complete \ D,
     links    |-> [c \in Node |-> IF c \in D THEN 0
                                  ELSE Monus(t.links[c], Drops(t, cnt, D, c))],
     parent   |-> [c \in Node |-> IF c \in D THEN Root ELSE t.parent[c]],
     ent      |-> [c \in Node |-> IF c \in D THEN NoEnts ELSE t.ent[c]],
     cookie   |-> [c \in Node |-> IF c \in D THEN NoCookies ELSE t.cookie[c]],
     next     |-> [c \in Node |-> IF c \in D THEN FIRST_COOKIE ELSE t.next[c]],
     gen      |-> [c \in Node |-> IF c \in D THEN 0 ELSE t.gen[c]],
     nodes    |-> t.nodes - Cardinality(D),
     dirs     |-> t.dirs - Cardinality(D \cap t.isDir),
     entries  |-> t.entries]

\* What is left when the nodes in D go and the links in cnt are dropped.
Drop(t, cnt, D) ==
    [live     |-> t.live \ D,
     isDir    |-> t.isDir \ D,
     complete |-> t.complete \ D,
     links    |-> [c \in Node |-> IF c \in D THEN 0
                                  ELSE Monus(t.links[c], Drops(t, cnt, D, c))],
     parent   |-> [c \in Node |-> IF c \in D THEN Root ELSE t.parent[c]],
     ent      |-> [c \in Node |-> IF c \in D THEN NoEnts ELSE t.ent[c]],
     cookie   |-> [c \in Node |-> IF c \in D THEN NoCookies ELSE t.cookie[c]],
     next     |-> [c \in Node |-> IF c \in D THEN FIRST_COOKIE ELSE t.next[c]],
     gen      |-> [c \in Node |-> IF c \in D THEN 0 ELSE t.gen[c]],
     nodes    |-> t.nodes - Cardinality(D),
     dirs     |-> t.dirs - Cardinality(D \cap t.isDir),
     entries  |-> t.entries - Cardinality(Held(t, D))]

NoDrops    == [n \in Node |-> 0]
OneDrop(k) == [n \in Node |-> IF n = k THEN 1 ELSE 0]

LinkDec(t, k) == Drop(t, OneDrop(k), Doomed(t, OneDrop(k), {}))

\* force_remove: the node goes whatever its link count, its dentries stay.
ForceRemove(t, k) == Drop(t, NoDrops, Doomed(t, NoDrops, {k}))

(***************************************************************************)
(* An update of the node table and an update of one directory's table.     *)
(***************************************************************************)
WithNodes(t, live, isDir, complete, links, parent) ==
    [live |-> live, isDir |-> isDir, complete |-> complete, links |-> links,
     parent |-> parent, ent |-> t.ent, cookie |-> t.cookie, next |-> t.next,
     gen |-> t.gen, entries |-> t.entries,
     nodes |-> t.nodes + Cardinality(live \ t.live),
     dirs  |-> t.dirs + Cardinality(isDir \ t.isDir)]

WithDir(t, d, ent, cookie, taken, changes, delta) ==
    [live |-> t.live, isDir |-> t.isDir, complete |-> t.complete,
     links |-> t.links, parent |-> t.parent, nodes |-> t.nodes, dirs |-> t.dirs,
     ent     |-> [t.ent EXCEPT ![d] = ent],
     cookie  |-> [t.cookie EXCEPT ![d] = cookie],
     next    |-> [t.next EXCEPT ![d] = @ + taken],
     gen     |-> [t.gen EXCEPT ![d] = @ + changes],
     entries |-> t.entries + delta]

SetLinks(t, links)   == WithNodes(t, t.live, t.isDir, t.complete, links, t.parent)
SetParent(t, n, p)   == WithNodes(t, t.live, t.isDir, t.complete, t.links,
                                  [t.parent EXCEPT ![n] = p])

\* link_inc: counts one more dentry of k, if k is known.
LinkInc(t, k) == IF k \in t.live THEN SetLinks(t, [t.links EXCEPT ![k] = @ + 1]) ELSE t

-----------------------------------------------------------------------------
(***************************************************************************)
(* Node and entry upserts.                                                 *)
(***************************************************************************)
UpsertNode(t, k, dir, p) ==
    WithNodes(t, t.live \cup {k}, IF dir THEN t.isDir \cup {k} ELSE t.isDir,
              t.complete, t.links, [t.parent EXCEPT ![k] = p])

MarkDirComplete(t, k) ==
    WithNodes(t, t.live, t.isDir, t.complete \cup ({k} \cap t.isDir), t.links, t.parent)

\* Mutant: insert_new does not advance next_cookie.
DirUpsertStuckCookie(t, d, m, n) ==
    IF t.ent[d][m] = n THEN t
    ELSE WithDir(t, d, [t.ent[d] EXCEPT ![m] = n],
                       [t.cookie[d] EXCEPT ![m] = t.next[d]],
                 0, 1, IF t.ent[d][m] = NoNode THEN 1 ELSE 0)

\* Mutant: a replaced entry is retargeted in place and keeps its cookie.
DirUpsertInPlace(t, d, m, n) ==
    IF t.ent[d][m] = n THEN t
    ELSE IF t.ent[d][m] = NoNode
    THEN WithDir(t, d, [t.ent[d] EXCEPT ![m] = n],
                       [t.cookie[d] EXCEPT ![m] = t.next[d]], 1, 1, 1)
    ELSE WithDir(t, d, [t.ent[d] EXCEPT ![m] = n], t.cookie[d], 0, 1, 0)

\* DirState::upsert: the same (name, node) keeps its cookie and dirgen, any
\* other target gets a fresh cookie.  entries_add of the delta included.
DirUpsert(t, d, m, n) ==
    IF t.ent[d][m] = n THEN t
    ELSE WithDir(t, d, [t.ent[d] EXCEPT ![m] = n],
                       [t.cookie[d] EXCEPT ![m] = t.next[d]],
                 1, 1, IF t.ent[d][m] = NoNode THEN 1 ELSE 0)

\* DirState::remove of an entry that is there.  entries_add(-1) included.
DirRemove(t, d, m) ==
    WithDir(t, d, [t.ent[d] EXCEPT ![m] = NoNode], [t.cookie[d] EXCEPT ![m] = 0],
            0, 1, -1)

\* The node an entry names, NoNode when there is no such directory or entry.
Find(t, d, m) == IF d \in t.isDir THEN t.ent[d][m] ELSE NoNode

\* Mutant: the dentry is set although the parent has no directory table.
DentrySetLazyParent(t, p, m, n) ==
    IF t.ent[p][m] = n THEN t
    ELSE LET u == LinkInc(DirUpsert(t, p, m, n), n)
         IN  IF t.ent[p][m] = NoNode THEN u ELSE LinkDec(u, t.ent[p][m])

\* dentry_set: a missing parent drops the dentry.
DentrySet(t, p, m, n) ==
    IF p \notin t.isDir \/ t.ent[p][m] = n THEN t
    ELSE LET u == LinkInc(DirUpsert(t, p, m, n), n)
         IN  IF t.ent[p][m] = NoNode THEN u ELSE LinkDec(u, t.ent[p][m])

\* dentry_remove
DentryRemove(t, p, m) ==
    IF Find(t, p, m) = NoNode THEN t
    ELSE LinkDec(DirRemove(t, p, m), t.ent[p][m])

\* dentry_relink: no link is counted for n, a clobbered target loses its own.
DentryRelink(t, p, m, n) ==
    IF p \notin t.isDir THEN t
    ELSE LET u == DirUpsert(t, p, m, n)
             v == IF t.ent[p][m] \in {NoNode, n} THEN u ELSE LinkDec(u, t.ent[p][m])
         IN  IF n \in v.live THEN SetParent(v, n, p) ELSE v

\* Mutant: a rename drops the source's link before it sets the destination.
DentryMoveDropsLink(t, fp, fm, tp, tm) ==
    LET n == Find(t, fp, fm)
    IN  IF n = NoNode THEN t ELSE DentryRelink(DentryRemove(t, fp, fm), tp, tm, n)

\* Renamed: dentry_take, then dentry_relink; a missing source is ignored.
DentryMove(t, fp, fm, tp, tm) ==
    LET n == Find(t, fp, fm)
    IN  IF n = NoNode THEN t ELSE DentryRelink(DirRemove(t, fp, fm), tp, tm, n)

-----------------------------------------------------------------------------
(***************************************************************************)
(* apply_snap_dir: a record of directory d with the entries f, a function  *)
(* from names to nodes, listed in the order ord.                           *)
(***************************************************************************)
Changed(t, d, f) == {m \in DOMAIN f : t.ent[d][m] # f[m]}

\* The dentries that n gains (to_link) and loses (to_unlink) by the record.
Gained(t, d, f, n) == {p \in {d} \X Changed(t, d, f) : f[p[2]] = n}
Lost(t, d, f, n)   == {p \in {d} \X Changed(t, d, f) : t.ent[d][p[2]] = n}

\* Entries of the record that precede m and also take a fresh cookie.
Before(t, d, f, ord, m) ==
    {x \in Changed(t, d, f) :
        \E i, j \in DOMAIN ord : i < j /\ ord[i] = x /\ ord[j] = m}

\* The directory itself and the nodes of its entries.
SnapNodes(t, d, p, f) ==
    LET u   == UpsertNode(t, d, TRUE, p)
        new == {f[m] : m \in DOMAIN f}
    IN  WithNodes(u, u.live \cup new, u.isDir \cup (new \cap DirNode), u.complete,
                  u.links, [n \in Node |-> IF n \in new THEN d ELSE u.parent[n]])

\* Its entries, their links and, with the last record, its completeness.
SnapEnts(t, d, f, ord, last) ==
    LET new == Changed(t, d, f)
        ent == [m \in Name |-> IF m \in new THEN f[m] ELSE t.ent[d][m]]
        ck  == [m \in Name |->
                  IF m \in new THEN t.next[d] + Cardinality(Before(t, d, f, ord, m))
                  ELSE t.cookie[d][m]]
        u   == WithDir(t, d, ent, ck, Cardinality(new), Cardinality(new),
                       Cardinality({m \in new : t.ent[d][m] = NoNode}))
    IN  SetLinks(IF last THEN MarkDirComplete(u, d) ELSE u,
                 [n \in Node |-> t.links[n] + Cardinality(Gained(t, d, f, n))])

ApplySnapDir(t, d, p, f, ord, last) ==
    LET u   == SnapNodes(t, d, p, f)
        v   == SnapEnts(u, d, f, ord, last)
        cnt == [n \in Node |-> Cardinality(Lost(u, d, f, n))]
    IN  Drop(v, cnt, Doomed(v, cnt, {}))

\* finish_snapshot counts the entries afresh.
Recount(t) ==
    [live |-> t.live, isDir |-> t.isDir, complete |-> t.complete, links |-> t.links,
     parent |-> t.parent, ent |-> t.ent, cookie |-> t.cookie, next |-> t.next,
     gen |-> t.gen, nodes |-> t.nodes, dirs |-> t.dirs,
     entries |-> Cardinality(Held(t, t.isDir))]

=============================================================================
