------------------------------ MODULE Replica ------------------------------
(***************************************************************************)
(* ShareReplica (crates/mist-replica/src/lib.rs): one share's metadata in  *)
(* memory.  A replica is seeded by snapshot records, goes Live, and from   *)
(* then on applies journal records one at a time.  Records are enumerated  *)
(* in every order: a replay presents the replica with changes it already   *)
(* has, and a walk over a changing tree lists what never existed at once.  *)
(*                                                                         *)
(* The attributes of a node are reduced to stat, the size and the mtime    *)
(* that every record about a node carries, and ver (content_version).  The *)
(* stash of records for an unknown node is replayed in order, so its       *)
(* effect is the last stat and the last version in it, and that pair is    *)
(* what is kept.  A CreatedBatch record is a Created record per entry.     *)
(***************************************************************************)
EXTENDS Tree, Sequences

CONSTANTS
    Stat,           \* results of a stat
    NoStat,         \* no attributes: the node is not known
    Placeholder,    \* the attributes of a node created without any
    Version,        \* content versions
    MAX_PENDING,    \* most nodes with stashed records
    MaxSnap,        \* bound: snapshot records applied
    MaxRec,         \* bound: journal records applied
    AttrOmitted     \* whether Created records may come without attributes

ASSUME ReplicaAssumption ==
    /\ NoStat \notin Stat /\ Placeholder \notin Stat /\ NoStat # Placeholder
    /\ Version \subseteq Nat /\ 0 \in Version
    /\ MAX_PENDING \in Nat \ {0} /\ MaxSnap \in Nat /\ MaxRec \in Nat
    /\ AttrOmitted \in BOOLEAN

VARIABLES
    t,          \* the namespace, a Tree
    state,      \* ShareState: "Seeding" or "Live"
    stat,       \* attributes of each node
    ver,        \* content_version of each node
    pend,       \* stash for unknown nodes: [stat, ver], ver = 0 when no Content is in it
    forced,     \* history: nodes a SelfRemoved took away with dentries left behind
    lastStat,   \* history: the attributes the last record about each node carried
    applied     \* records applied in this state, up to the bound

vars == <<t, state, stat, ver, pend, forced, lastStat, applied>>
hist == <<forced, lastStat>>

NoPend == [stat |-> NoStat, ver |-> 0]

Init ==
    /\ t = NewTree
    /\ state = "Seeding"
    /\ stat = [n \in Node |-> NoStat]
    /\ ver = [n \in Node |-> 0]
    /\ pend = [n \in Node |-> NoPend]
    /\ forced = {}
    /\ lastStat = [n \in Node |-> NoStat]
    /\ applied = 0

\* One more snapshot record, one more journal record.
SnapArrives ==
    /\ state = "Seeding" /\ applied < MaxSnap
    /\ applied' = applied + 1
RecArrives ==
    /\ state = "Live" /\ applied < MaxRec
    /\ applied' = applied + 1

\* The namespace becomes u; the attributes s and v of the removed nodes go too.
Install(u, s, v) ==
    /\ t' = u
    /\ stat' = [n \in Node |-> IF n \in u.live THEN s[n] ELSE NoStat]
    /\ ver'  = [n \in Node |-> IF n \in u.live THEN v[n] ELSE 0]

-----------------------------------------------------------------------------
(***************************************************************************)
(* Seeding.                                                                *)
(***************************************************************************)
\* A record of the walk: the root's, or one of a directory listed before.
SnapDir(d, p, f, ord, s, last) ==
    LET seen == {d} \cup {f[m] : m \in DOMAIN f}
        u    == ApplySnapDir(t, d, p, f, ord, last)
        st   == [n \in Node |-> IF n \in seen THEN s ELSE stat[n]]
    IN  /\ SnapArrives
        /\ d = Root \/ InFrom(t, {p}, d) # {}
        /\ Install(u, st, ver)
        /\ lastStat' = [n \in Node |-> IF n \in seen THEN s ELSE lastStat[n]]
        /\ UNCHANGED <<state, pend, forced>>

\* finish_snapshot: recounts the entries and goes Live.
FinishSnapshot ==
    /\ state = "Seeding"
    /\ state' = "Live" /\ applied' = 0
    /\ t' = Recount(t)
    /\ UNCHANGED <<stat, ver, pend, hist>>

-----------------------------------------------------------------------------
(***************************************************************************)
(* apply_rec.                                                              *)
(***************************************************************************)
\* Mutant: drain_pending replays the stash and does not take it out of the map.
CreatedKeepsStash(p, m, n, s) ==
    LET u0 == UpsertNode(t, n, n \in DirNode, p)
        u1 == IF n \in DirNode THEN MarkDirComplete(u0, n) ELSE u0
        q  == pend[n]
        s1 == IF q.stat = NoStat THEN s ELSE q.stat
    IN  /\ RecArrives
        /\ Install(DentrySet(u1, p, m, n), [stat EXCEPT ![n] = s1],
                   [ver EXCEPT ![n] = IF q.ver = 0 THEN @ ELSE q.ver])
        /\ lastStat' = [lastStat EXCEPT ![n] = s]
        /\ UNCHANGED <<state, pend, forced>>

\* Created with attributes: upsert_node, drain_pending, mark_dir_complete of
\* a directory, dentry_set.
Created(p, m, n, s) ==
    LET u0 == UpsertNode(t, n, n \in DirNode, p)
        u1 == IF n \in DirNode THEN MarkDirComplete(u0, n) ELSE u0
        q  == pend[n]
        s1 == IF q.stat = NoStat THEN s ELSE q.stat
        v1 == IF q.ver = 0 THEN ver[n] ELSE q.ver
    IN  /\ RecArrives
        /\ Install(DentrySet(u1, p, m, n), [stat EXCEPT ![n] = s1], [ver EXCEPT ![n] = v1])
        /\ pend' = [pend EXCEPT ![n] = NoPend]
        /\ lastStat' = [lastStat EXCEPT ![n] = s]
        /\ UNCHANGED <<state, forced>>

\* Mutant: a known node gets the placeholder too.
CreatedNoAttrOverwrites(p, m, n) ==
    LET u1 == IF n \in t.live THEN t ELSE UpsertNode(t, n, FALSE, p)
    IN  /\ AttrOmitted
        /\ RecArrives
        /\ Install(DentrySet(u1, p, m, n), [stat EXCEPT ![n] = Placeholder], ver)
        /\ UNCHANGED <<state, pend, hist>>

\* Created without attributes: an unknown node gets a placeholder.  The kind
\* is then taken to be a regular file, and the stash is not looked at.
CreatedNoAttr(p, m, n) ==
    LET u1 == IF n \in t.live THEN t ELSE UpsertNode(t, n, FALSE, p)
        s1 == IF n \in t.live THEN stat[n] ELSE Placeholder
    IN  /\ AttrOmitted
        /\ RecArrives
        /\ Install(DentrySet(u1, p, m, n), [stat EXCEPT ![n] = s1], ver)
        /\ UNCHANGED <<state, pend, hist>>

Removed(p, m) ==
    /\ RecArrives
    /\ Install(DentryRemove(t, p, m), stat, ver)
    /\ UNCHANGED <<state, pend, hist>>

Renamed(fp, fm, tp, tm) ==
    /\ RecArrives
    /\ Install(DentryMove(t, fp, fm, tp, tm), stat, ver)
    /\ UNCHANGED <<state, pend, hist>>

\* stash_pending: at the cap the whole map is cleared first.
Stash(n, s, v) ==
    LET full == Cardinality({k \in Node : pend[k] # NoPend}) >= MAX_PENDING
        kept == IF full THEN [k \in Node |-> NoPend] ELSE pend
    IN  /\ pend' = [kept EXCEPT ![n] = [stat |-> s, ver |-> IF v = 0 THEN @.ver ELSE v]]
        /\ UNCHANGED <<stat, ver>>

\* update_attr, or the stash when the node is unknown.
AttrChanged(n, s) ==
    /\ RecArrives
    /\ IF n \in t.live
       THEN stat' = [stat EXCEPT ![n] = s] /\ UNCHANGED <<ver, pend>>
       ELSE Stash(n, s, 0)
    /\ lastStat' = [lastStat EXCEPT ![n] = s]
    /\ UNCHANGED <<t, state, forced>>

\* update_content, or the stash when the node is unknown.
Content(n, v, s) ==
    /\ RecArrives
    /\ IF n \in t.live
       THEN /\ stat' = [stat EXCEPT ![n] = s]
            /\ ver' = [ver EXCEPT ![n] = v]
            /\ UNCHANGED pend
       ELSE Stash(n, s, v)
    /\ lastStat' = [lastStat EXCEPT ![n] = s]
    /\ UNCHANGED <<t, state, forced>>

\* SelfRemoved: never of the root; the dentries of the node stay behind.
SelfRemoved(n) ==
    /\ RecArrives
    /\ n \in t.live /\ n # Root
    /\ Install(ForceRemove(t, n), stat, ver)
    /\ forced' = forced \cup {n}
    /\ UNCHANGED <<state, pend, lastStat>>

-----------------------------------------------------------------------------
\* Listings a record can carry: at most two entries, in either order.
Orders == {<<>>} \cup {<<m>> : m \in Name}
          \cup ({<<m, k>> : m, k \in Name} \ {<<m, m>> : m \in Name})

NextSeeding ==
    \/ \E d, p \in Node, ord \in Orders, s \in Stat, last \in BOOLEAN :
       \E f \in [{ord[i] : i \in DOMAIN ord} -> Node \ {Root}] :
            SnapDir(d, p, f, ord, s, last)
    \/ FinishSnapshot

NextCreate ==
    \E p \in DirNode, m \in Name, n \in Node \ {Root} :
        \/ \E s \in Stat : Created(p, m, n, s)
        \/ CreatedNoAttr(p, m, n)

NextNamespace ==
    \/ NextCreate
    \/ \E p \in DirNode, m \in Name : Removed(p, m)
    \/ \E fp, tp \in DirNode, fm, tm \in Name : Renamed(fp, fm, tp, tm)
    \/ \E n \in Node : SelfRemoved(n)

NextAttr ==
    \E n \in Node, s \in Stat :
        \/ AttrChanged(n, s)
        \/ \E v \in Version \ {0} : Content(n, v, s)

Next == NextSeeding \/ NextNamespace \/ NextAttr

Spec == Init /\ [][Next]_vars

-----------------------------------------------------------------------------
(***************************************************************************)
(* Properties.                                                             *)
(***************************************************************************)
Pend == [stat : Stat \cup {NoStat}, ver : Nat]

\* Every variable has its type; a directory table belongs to a known node,
\* and a node that is not known has the fields of a fresh one, which is what
\* dropping its Node amounts to.
TypeOK ==
    /\ IsTree(t) /\ WellFormed(t)
    /\ state \in {"Seeding", "Live"}
    /\ stat \in [Node -> Stat \cup {NoStat, Placeholder}]
    /\ ver \in [Node -> Nat]
    /\ pend \in [Node -> Pend]
    /\ forced \in SUBSET Node
    /\ lastStat \in [Node -> Stat \cup {NoStat}]
    /\ applied \in Nat

\* No node is collected while a name still leads to it: every entry of a
\* directory leads to a known node and is counted in its links, whatever
\* records came in whatever order, except where a SelfRemoved took the node
\* away by force (link_inc, link_dec, remove_node: lookup of a listed name
\* must not fail).
NoPrematureRemoval ==
    \A n \in Node \ forced :
        /\ InEdges(t, n) # {} => n \in t.live
        /\ Cardinality(InEdges(t, n)) <= t.links[n]

\* Cookies of one directory are distinct and all were handed out by its
\* counter, so a listing resumed after a cookie neither skips nor repeats
\* an entry (DirState::insert_new, range_after; invariant I1 of design 06).
CookiesDistinct ==
    \A d \in t.isDir : \A m \in Name : t.ent[d][m] # NoNode =>
        /\ t.cookie[d][m] \in FIRST_COOKIE .. t.next[d] - 1
        /\ \A k \in Name : t.ent[d][k] # NoNode /\ t.cookie[d][k] = t.cookie[d][m] => k = m

\* The statistics the control socket reports are those of the tree: nodes,
\* directory tables and entries are counted up and down at many places
\* (upsert_node, entries_add, remove_node) and never drift.
StatsExact ==
    /\ t.nodes = Cardinality(t.live)
    /\ t.dirs = Cardinality(t.isDir)
    /\ t.entries = Cardinality(Held(t, Node))

\* A stash is applied once, by the record that makes it go.  A node that
\* arrives with its attributes leaves no stash behind and none is made for a
\* known node; and attributes that neither were there nor are those of the
\* record being applied (nor the placeholder) are those of the stash, which is
\* gone with that step (stash_pending, drain_pending).  So a record applied
\* after the stash went cannot be undone by it.  The record that drains it can:
\* see LatestAttrs.
StashConsumed ==
    [][\A n \in t'.live :
           /\ pend'[n] # NoPend =>
                 pend'[n] = pend[n] /\ (n \in t.live \/ stat'[n] = Placeholder)
           /\ \/ stat'[n] \in {stat[n], lastStat'[n], Placeholder}
              \/ stat'[n] = pend[n].stat /\ pend'[n] = NoPend]_vars

\* Not kept by the code, and checked by no run: a known node has the attributes
\* of the latest record about it.  Created writes its own attributes first and
\* drains the stash over them (lib.rs:651-652), so an AttrChanged that came
\* before the Created, and is older, has the last word; so it has over what was
\* said of a placeholder in the meantime.
LatestAttrs == \A n \in t.live : stat[n] \in {lastStat[n], Placeholder}

\* The attributes of a known node only ever change to what the record being
\* applied carries for it, and a removal elsewhere in the tree leaves them
\* alone (update_attr, update_content, upsert_node), unless a stash is left.
AttrsFollowRecords ==
    [][\A n \in t.live \cap t'.live :
           pend[n] = NoPend => stat'[n] \in {stat[n], lastStat'[n]}]_vars

\* Within the life of a directory a cookie is never handed out twice and a
\* listing that changed shows a new dirgen: the counters only grow, a kept
\* entry keeps its cookie, a new one gets a cookie above all earlier ones.
CookiesNeverReused ==
    [][\A d \in t.isDir \cap t'.isDir :
        /\ t'.next[d] >= t.next[d] /\ t'.gen[d] >= t.gen[d]
        /\ (t'.ent[d] # t.ent[d] => t'.gen[d] > t.gen[d])
        /\ \A m \in Name : t'.ent[d][m] # NoNode =>
              \/ t'.cookie[d][m] >= t.next[d]
              \/ t'.ent[d][m] = t.ent[d][m] /\ t'.cookie[d][m] = t.cookie[d][m]
      ]_vars

=============================================================================
