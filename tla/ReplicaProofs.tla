--------------------------- MODULE ReplicaProofs ---------------------------
(***************************************************************************)
(* What holds of the replica of every share: any finite set of nodes and   *)
(* names, any number of records in any order.                              *)
(*                                                                         *)
(* The first part is about the operators of Tree: every one of them keeps  *)
(* a tree well formed, and none of them removes a node that a name still   *)
(* leads to.  Covered(tr, F) says that outside the set F of nodes that     *)
(* were removed by force, links counts at least the dentries there are.    *)
(* The second is about cookies: a neat tree numbers the names of a         *)
(* directory apart and below next, an operator that advances a tree hands  *)
(* out no number twice and moves gen whenever it changes a directory.      *)
(*                                                                         *)
(* The third is about the replica.  Type correctness and the absence of    *)
(* premature removals are proved together, by the inductive invariant      *)
(* IInv: that the link counts cover the dentries needs the tree to be well *)
(* formed.  Cookies and statistics rest on a second one, Neat(t), and each *)
(* action's effect on the tree is one of the lemmas of the first parts.    *)
(***************************************************************************)
EXTENDS Replica, FiniteSetTheorems, TLAPS

\* tr would still count enough links if those in cnt were dropped.
CoveredBy(tr, cnt, F) ==
    \A n \in Node \ F :
        /\ InEdges(tr, n) # {} => n \in tr.live
        /\ Cardinality(InEdges(tr, n)) + cnt[n] <= tr.links[n]

Covered(tr, F) ==
    \A n \in Node \ F :
        /\ InEdges(tr, n) # {} => n \in tr.live
        /\ Cardinality(InEdges(tr, n)) <= tr.links[n]

-----------------------------------------------------------------------------
\* The dentries that lead to a node are finitely many, also those of some
\* directories only.
LEMMA FiniteEdges ==
    ASSUME NEW tr, NEW X \in SUBSET Node, NEW c
    PROVE  /\ IsFiniteSet(InFrom(tr, X, c))
           /\ Cardinality(InFrom(tr, X, c)) \in Nat
<1>1. IsFiniteSet(X)
  BY FS_Subset, TreeAssumption
<1>2. IsFiniteSet(X \X Name)
  BY <1>1, FS_Product, TreeAssumption
<1>3. InFrom(tr, X, c) \in SUBSET (X \X Name)
  BY DEF InFrom
<1> QED
  BY <1>2, <1>3, FS_Subset, FS_CardinalityType

\* More directories hold more dentries.
LEMMA EdgesMonotone ==
    ASSUME NEW tr, NEW Y \in SUBSET Node, NEW X \in SUBSET Y, NEW c
    PROVE  Cardinality(InFrom(tr, X, c)) <= Cardinality(InFrom(tr, Y, c))
<1>1. InFrom(tr, X, c) \in SUBSET InFrom(tr, Y, c)
  BY DEF InFrom
<1> QED
  BY <1>1, FiniteEdges, FS_Subset

\* What loses its last link to a set of removed nodes loses it to a larger one.
LEMMA LosesLastMonotone ==
    ASSUME NEW tr, IsTree(tr), NEW cnt \in [Node -> Nat], NEW c \in Node,
           NEW Y \in SUBSET Node, NEW X \in SUBSET Y, LosesLast(tr, cnt, X, c)
    PROVE  LosesLast(tr, cnt, Y, c)
<1>1. /\ Cardinality(InFrom(tr, X, c)) \in Nat
      /\ Cardinality(InFrom(tr, Y, c)) \in Nat
      /\ Cardinality(InFrom(tr, X, c)) <= Cardinality(InFrom(tr, Y, c))
  BY FiniteEdges, EdgesMonotone
<1>2. cnt[c] \in Nat /\ tr.links[c] \in Nat
  BY DEF IsTree
<1> QED
  BY <1>1, <1>2 DEF LosesLast, Drops

\* Doomed is closed, and outside S it removes only what loses its last link.
LEMMA DoomedLeast ==
    ASSUME NEW tr, IsTree(tr), NEW cnt \in [Node -> Nat], NEW S \in SUBSET tr.live
    PROVE  LET D == Doomed(tr, cnt, S)
           IN  /\ D \in SUBSET tr.live
               /\ S \subseteq D
               /\ \A c \in tr.live : LosesLast(tr, cnt, D, c) => c \in D
               /\ \A c \in D \ S : LosesLast(tr, cnt, D, c)
<1> DEFINE D == Doomed(tr, cnt, S)
<1>0. tr.live \in SUBSET Node
  BY DEF IsTree
<1>1. D \in SUBSET tr.live /\ S \subseteq D
  BY DEF Doomed, Closed
<1>2. ASSUME NEW X \in SUBSET tr.live, Closed(tr, cnt, S, X)
      PROVE  D \subseteq X
  BY <1>2 DEF Doomed
<1>3. ASSUME NEW c \in tr.live, LosesLast(tr, cnt, D, c)
      PROVE  c \in D
  <2>1. SUFFICES ASSUME NEW X \in SUBSET tr.live, Closed(tr, cnt, S, X)
                 PROVE  c \in X
    BY DEF Doomed
  <2>2. D \in SUBSET X /\ X \in SUBSET Node /\ c \in Node
    BY <1>0, <1>2, <2>1
  <2>3. LosesLast(tr, cnt, X, c)
    BY <1>3, <2>2, LosesLastMonotone
  <2> QED
    BY <2>1, <2>3 DEF Closed
<1>4. ASSUME NEW c \in D \ S, ~ LosesLast(tr, cnt, D, c)
      PROVE  FALSE
  <2> DEFINE X == D \ {c}
  <2>1. X \in SUBSET tr.live /\ S \subseteq X /\ D \in SUBSET Node /\ X \in SUBSET D
    BY <1>0, <1>1, <1>4
  <2>2. ASSUME NEW e \in tr.live, LosesLast(tr, cnt, X, e)
        PROVE  e \in X
    <3>1. LosesLast(tr, cnt, D, e)
      BY <1>0, <2>1, <2>2, LosesLastMonotone
    <3> QED
      BY <1>3, <1>4, <2>2, <3>1
  <2>3. Closed(tr, cnt, S, X)
    BY <2>1, <2>2 DEF Closed
  <2> QED
    BY <1>2, <1>4, <2>1, <2>3
<1> QED
  BY <1>1, <1>3, <1>4

-----------------------------------------------------------------------------
(***************************************************************************)
(* Drop: removing the doomed nodes.                                        *)
(***************************************************************************)
\* A finite set without a part of it has as many elements fewer.
LEMMA CardinalityOfRest ==
    ASSUME NEW A, IsFiniteSet(A), NEW B \in SUBSET A
    PROVE  /\ IsFiniteSet(A \ B) /\ IsFiniteSet(B)
           /\ Cardinality(A) \in Nat /\ Cardinality(B) \in Nat
           /\ Cardinality(A \ B) = Cardinality(A) - Cardinality(B)
<1>1. IsFiniteSet(B) /\ IsFiniteSet(A \ B)
  BY FS_Subset
<1>2. A = (A \ B) \cup B /\ (A \ B) \cap B = {}
  OBVIOUS
<1>3. Cardinality(A) = Cardinality(A \ B) + Cardinality(B) - Cardinality({})
  BY <1>1, <1>2, FS_Union
<1> QED
  BY <1>1, <1>3, FS_EmptySet, FS_CardinalityType

\* Dropping nodes drops the dentries they hold, and no others.
LEMMA DropEdges ==
    ASSUME NEW tr, IsTree(tr), NEW cnt, NEW D \in SUBSET Node, NEW c \in Node
    PROVE  InEdges(Drop(tr, cnt, D), c) = InEdges(tr, c) \ InFrom(tr, D, c)
<1> DEFINE u == Drop(tr, cnt, D)
<1>1. \A d \in Node : u.ent[d] = IF d \in D THEN NoEnts ELSE tr.ent[d]
  BY DEF Drop, IsTree
<1>2. ASSUME NEW d \in Node, NEW m \in Name
      PROVE  u.ent[d][m] = c <=> tr.ent[d][m] = c /\ d \notin D
  BY <1>1, TreeAssumption DEF NoEnts
<1> HIDE DEF u
<1>3. ASSUME NEW p \in Node \X Name
      PROVE  u.ent[p[1]][p[2]] = c <=> tr.ent[p[1]][p[2]] = c /\ p[1] \notin D
  BY <1>2
<1>4. InEdges(u, c) = InEdges(tr, c) \ InFrom(tr, D, c)
  BY <1>3 DEF InEdges, InFrom
<1> QED
  BY <1>4 DEF u

\* Dropping nodes leaves a well-formed tree.
LEMMA DropWellFormed ==
    ASSUME NEW tr, IsTree(tr), WellFormed(tr), NEW cnt \in [Node -> Nat],
           NEW D \in SUBSET tr.live
    PROVE  IsTree(Drop(tr, cnt, D)) /\ WellFormed(Drop(tr, cnt, D))
<1> DEFINE u == Drop(tr, cnt, D)
<1>0. D \in SUBSET Node /\ IsFiniteSet(D)
  BY FS_Subset, TreeAssumption DEF IsTree
<1>1. \A c \in Node : Drops(tr, cnt, D, c) \in Nat
  BY <1>0, FiniteEdges DEF Drops
<1>2. \A a, b \in Nat : Monus(a, b) \in Nat
  BY DEF Monus
<1>3. Cardinality(D) \in Nat /\ Cardinality(D \cap tr.isDir) \in Nat
  BY <1>0, FS_Subset, FS_CardinalityType
<1>4. Cardinality(Held(tr, D)) \in Nat
  <2>1. IsFiniteSet(D \X Name)
    BY <1>0, FS_Product, TreeAssumption
  <2>2. Held(tr, D) \in SUBSET (D \X Name)
    BY DEF Held
  <2> QED
    BY <2>1, <2>2, FS_Subset, FS_CardinalityType
<1>5. NoEnts \in [Name -> Node \cup {NoNode}] /\ NoCookies \in [Name -> Nat] /\ FIRST_COOKIE \in Nat
  BY DEF NoEnts, NoCookies, FIRST_COOKIE
<1>6. u.links = [c \in Node |-> IF c \in D THEN 0 ELSE Monus(tr.links[c], Drops(tr, cnt, D, c))]
  BY DEF Drop, IsTree
<1>7. u.links \in [Node -> Nat]
  <2>1. ASSUME NEW c \in Node
        PROVE  Monus(tr.links[c], Drops(tr, cnt, D, c)) \in Nat
    BY <1>1, <1>2 DEF IsTree
  <2> QED
    BY <1>6, <2>1
<1>8. IsTree(u)
  BY <1>3, <1>4, <1>5, <1>7, TreeAssumption DEF Drop, IsTree
<1>9. WellFormed(u)
  <2>1. u.isDir \subseteq u.live /\ u.complete \subseteq u.isDir
    BY DEF Drop, IsTree, WellFormed
  <2>2. \A d \in Node \ u.isDir : u.ent[d] = NoEnts /\ u.cookie[d] = NoCookies
    BY DEF Drop, IsTree, WellFormed
  <2>3. ASSUME NEW n \in Node \ u.live
        PROVE  u.links[n] = 0
    <3>1. n \in D \/ n \notin tr.live
      BY DEF Drop, IsTree
    <3>2. CASE n \in D
      BY <1>6, <3>2
    <3>3. CASE n \notin tr.live
      BY <1>1, <1>6, <3>3 DEF WellFormed, Monus
    <3> QED
      BY <3>1, <3>2, <3>3
  <2> QED
    BY <2>1, <2>2, <2>3 DEF WellFormed
<1> QED
  BY <1>8, <1>9

\* The nodes that go because their last link is dropped have no name left, and
\* the nodes that stay are still counted: only nodes of S go by force.
LEMMA DropCovered ==
    ASSUME NEW tr, IsTree(tr), WellFormed(tr), NEW cnt \in [Node -> Nat], NEW F,
           NEW S \in SUBSET tr.live, S \subseteq F, CoveredBy(tr, cnt, F)
    PROVE  Covered(Drop(tr, cnt, Doomed(tr, cnt, S)), F)
<1> DEFINE D == Doomed(tr, cnt, S)
           u == Drop(tr, cnt, D)
<1>0. /\ D \in SUBSET tr.live
      /\ \A c \in D \ S : LosesLast(tr, cnt, D, c)
  BY DoomedLeast
<1> HIDE DEF D
<1>1. D \in SUBSET Node
  BY <1>0 DEF IsTree
<1> SUFFICES ASSUME NEW n \in Node \ F
             PROVE  /\ InEdges(u, n) # {} => n \in u.live
                    /\ Cardinality(InEdges(u, n)) <= u.links[n]
  BY DEF Covered, D
<1>2. InEdges(u, n) = InEdges(tr, n) \ InFrom(tr, D, n)
  BY <1>1, DropEdges
<1>3. InFrom(tr, D, n) \in SUBSET InEdges(tr, n)
  BY <1>1 DEF InEdges, InFrom
<1>4. /\ IsFiniteSet(InEdges(tr, n)) /\ IsFiniteSet(InEdges(u, n))
      /\ Cardinality(InEdges(tr, n)) \in Nat /\ Cardinality(InFrom(tr, D, n)) \in Nat
      /\ Cardinality(InEdges(u, n)) = Cardinality(InEdges(tr, n)) - Cardinality(InFrom(tr, D, n))
      /\ Cardinality(InEdges(u, n)) \in Nat
  <2>1. IsFiniteSet(InEdges(tr, n))
    BY FiniteEdges DEF InEdges
  <2> QED
    BY <1>2, <1>3, <2>1, CardinalityOfRest, FS_CardinalityType
<1>5. /\ InEdges(tr, n) # {} => n \in tr.live
      /\ Cardinality(InEdges(tr, n)) + cnt[n] <= tr.links[n]
      /\ cnt[n] \in Nat /\ tr.links[n] \in Nat
  BY DEF CoveredBy, IsTree
<1>6. u.live = tr.live \ D
  BY DEF Drop, IsTree
<1>7. u.links[n] = IF n \in D THEN 0 ELSE Monus(tr.links[n], cnt[n] + Cardinality(InFrom(tr, D, n)))
  BY DEF Drop, Drops, IsTree
<1>8. CASE n \in D
  <2>1. cnt[n] + Cardinality(InFrom(tr, D, n)) >= tr.links[n]
    BY <1>0, <1>8 DEF LosesLast, Drops
  <2>2. Cardinality(InEdges(u, n)) = 0
    BY <1>4, <1>5, <2>1
  <2>3. InEdges(u, n) = {}
    BY <1>4, <2>2, FS_EmptySet
  <2> QED
    BY <1>7, <1>8, <2>2, <2>3
<1>9. CASE n \notin D
  <2>1. Cardinality(InEdges(u, n)) <= u.links[n]
    BY <1>4, <1>5, <1>7, <1>9 DEF Monus
  <2>2. InEdges(u, n) # {} => n \in u.live
    BY <1>2, <1>5, <1>6, <1>9
  <2> QED
    BY <2>1, <2>2
<1> QED
  BY <1>8, <1>9

-----------------------------------------------------------------------------
(***************************************************************************)
(* Updates of the node table and of one entry.                             *)
(***************************************************************************)
\* Everything an update has to keep.
Good(tr, F) == IsTree(tr) /\ WellFormed(tr) /\ Covered(tr, F)

\* Dropping the last links of one node keeps a tree good.
LEMMA LinkDecGood ==
    ASSUME NEW tr, IsTree(tr), WellFormed(tr), NEW F, NEW k, CoveredBy(tr, OneDrop(k), F)
    PROVE  Good(LinkDec(tr, k), F)
<1>1. OneDrop(k) \in [Node -> Nat]
  BY DEF OneDrop
<1>2. {} \in SUBSET tr.live /\ {} \subseteq F
  OBVIOUS
<1>3. Doomed(tr, OneDrop(k), {}) \in SUBSET tr.live
  BY <1>1, <1>2, DoomedLeast
<1>4. IsTree(LinkDec(tr, k)) /\ WellFormed(LinkDec(tr, k))
  BY <1>1, <1>3, DropWellFormed DEF LinkDec
<1>5. Covered(LinkDec(tr, k), F)
  BY <1>1, <1>2, DropCovered DEF LinkDec
<1> QED
  BY <1>4, <1>5 DEF Good

\* A removal by force keeps a tree good, outside the node it takes away.
LEMMA ForceRemoveGood ==
    ASSUME NEW tr, NEW F, Good(tr, F), NEW k \in tr.live
    PROVE  Good(ForceRemove(tr, k), F \cup {k})
<1>0. IsTree(tr) /\ WellFormed(tr) /\ Covered(tr, F)
  BY DEF Good
<1>1. NoDrops \in [Node -> Nat]
  BY DEF NoDrops
<1>2. {k} \in SUBSET tr.live /\ {k} \subseteq F \cup {k}
  OBVIOUS
<1>3. CoveredBy(tr, NoDrops, F \cup {k})
  <2> SUFFICES ASSUME NEW n \in Node \ (F \cup {k})
               PROVE  /\ InEdges(tr, n) # {} => n \in tr.live
                      /\ Cardinality(InEdges(tr, n)) + NoDrops[n] <= tr.links[n]
    BY DEF CoveredBy
  <2>1. NoDrops[n] = 0 /\ Cardinality(InEdges(tr, n)) \in Nat
    BY FiniteEdges DEF NoDrops, InEdges
  <2> QED
    BY <1>0, <2>1 DEF Covered
<1>4. Doomed(tr, NoDrops, {k}) \in SUBSET tr.live
  BY <1>0, <1>1, <1>2, DoomedLeast
<1>5. IsTree(ForceRemove(tr, k)) /\ WellFormed(ForceRemove(tr, k))
  BY <1>0, <1>1, <1>4, DropWellFormed DEF ForceRemove
<1>6. Covered(ForceRemove(tr, k), F \cup {k})
  BY <1>0, <1>1, <1>2, <1>3, DropCovered DEF ForceRemove
<1> QED
  BY <1>5, <1>6 DEF Good

\* An update of the node table that forgets no node, invents no completeness
\* and lowers no link count.
LEMMA WithNodesGood ==
    ASSUME NEW tr, NEW F, Good(tr, F),
           NEW live \in SUBSET Node, NEW isDir \in SUBSET live,
           NEW complete \in SUBSET isDir,
           NEW links \in [Node -> Nat], NEW parent \in [Node -> Node],
           tr.live \subseteq live, tr.isDir \subseteq isDir,
           \A n \in Node : links[n] >= tr.links[n],
           \A n \in Node \ live : links[n] = 0
    PROVE  Good(WithNodes(tr, live, isDir, complete, links, parent), F)
<1> DEFINE u == WithNodes(tr, live, isDir, complete, links, parent)
<1>0. IsTree(tr) /\ WellFormed(tr) /\ Covered(tr, F)
  BY DEF Good
<1>1. Cardinality(live \ tr.live) \in Nat /\ Cardinality(isDir \ tr.isDir) \in Nat
  <2>1. IsFiniteSet(live \ tr.live) /\ IsFiniteSet(isDir \ tr.isDir)
    BY FS_Subset, TreeAssumption
  <2> QED
    BY <2>1, FS_CardinalityType
<1>2. IsTree(u)
  BY <1>0, <1>1 DEF IsTree, WithNodes
<1>3. WellFormed(u)
  BY <1>0 DEF WellFormed, WithNodes
<1>4. Covered(u, F)
  <2> SUFFICES ASSUME NEW n \in Node \ F
               PROVE  /\ InEdges(u, n) # {} => n \in u.live
                      /\ Cardinality(InEdges(u, n)) <= u.links[n]
    BY DEF Covered
  <2>1. InEdges(u, n) = InEdges(tr, n)
    BY DEF InEdges, InFrom, WithNodes
  <2>2. Cardinality(InEdges(tr, n)) \in Nat
    BY FiniteEdges DEF InEdges
  <2>3. u.live = live /\ u.links = links
    BY DEF WithNodes
  <2>4. tr.links[n] \in Nat /\ links[n] \in Nat
    BY <1>0 DEF IsTree
  <2> QED
    BY <1>0, <2>1, <2>2, <2>3, <2>4 DEF Covered
<1> QED
  BY <1>2, <1>3, <1>4 DEF Good

\* Pointing one entry of a directory elsewhere moves that dentry only.
LEMMA PointEdges ==
    ASSUME NEW tr, IsTree(tr), NEW u, NEW d \in Node, NEW m \in Name,
           NEW n \in Node \cup {NoNode}, NEW c \in Node,
           u.ent = [tr.ent EXCEPT ![d] = [tr.ent[d] EXCEPT ![m] = n]]
    PROVE  InEdges(u, c) = IF c = n THEN InEdges(tr, c) \cup {<<d, m>>}
                           ELSE InEdges(tr, c) \ {<<d, m>>}
<1>1. ASSUME NEW e \in Node, NEW k \in Name
      PROVE  u.ent[e][k] = IF e = d /\ k = m THEN n ELSE tr.ent[e][k]
  BY DEF IsTree
<1>2. ASSUME NEW p \in Node \X Name
      PROVE  u.ent[p[1]][p[2]] = IF p = <<d, m>> THEN n ELSE tr.ent[p[1]][p[2]]
  BY <1>1
<1>3. <<d, m>> \in Node \X Name
  OBVIOUS
<1> QED
  BY <1>2, <1>3 DEF InEdges, InFrom

\* An update of one directory's table that leaves its length alone.
LEMMA WithDirWellFormed ==
    ASSUME NEW tr, IsTree(tr), WellFormed(tr), NEW d \in tr.isDir,
           NEW ent \in [Name -> Node \cup {NoNode}], NEW cookie \in [Name -> Nat],
           NEW taken \in Nat, NEW changes \in Nat, NEW delta \in Int
    PROVE  LET u == WithDir(tr, d, ent, cookie, taken, changes, delta)
           IN  IsTree(u) /\ WellFormed(u)
<1>1. d \in Node
  BY DEF IsTree
<1> QED
  BY <1>1 DEF IsTree, WellFormed, WithDir

-----------------------------------------------------------------------------
(***************************************************************************)
(* The operations on nodes and dentries.                                   *)
(***************************************************************************)
\* upsert_node keeps a tree good.
LEMMA UpsertNodeGood ==
    ASSUME NEW tr, NEW F, Good(tr, F), NEW k \in Node, NEW dir \in BOOLEAN, NEW p \in Node
    PROVE  Good(UpsertNode(tr, k, dir, p), F) /\ k \in UpsertNode(tr, k, dir, p).live
<1> DEFINE isDir == IF dir THEN tr.isDir \cup {k} ELSE tr.isDir
           parent == [tr.parent EXCEPT ![k] = p]
<1>0. IsTree(tr) /\ WellFormed(tr)
  BY DEF Good
<1>1. /\ tr.live \cup {k} \in SUBSET Node /\ isDir \in SUBSET (tr.live \cup {k})
      /\ tr.complete \in SUBSET isDir /\ tr.isDir \subseteq isDir
      /\ tr.links \in [Node -> Nat] /\ parent \in [Node -> Node]
      /\ \A n \in Node : tr.links[n] >= tr.links[n]
      /\ \A n \in Node \ (tr.live \cup {k}) : tr.links[n] = 0
  BY <1>0 DEF IsTree, WellFormed
<1> HIDE DEF isDir, parent
<1>2. Good(WithNodes(tr, tr.live \cup {k}, isDir, tr.complete, tr.links, parent), F)
  BY <1>1, WithNodesGood
<1>3. UpsertNode(tr, k, dir, p) = WithNodes(tr, tr.live \cup {k}, isDir, tr.complete, tr.links, parent)
  BY DEF UpsertNode, isDir, parent
<1>4. k \in UpsertNode(tr, k, dir, p).live
  BY DEF UpsertNode, WithNodes
<1> QED
  BY <1>2, <1>3, <1>4

\* mark_dir_complete keeps a tree good and leaves its names alone.
LEMMA MarkDirCompleteGood ==
    ASSUME NEW tr, NEW F, Good(tr, F), NEW k \in Node
    PROVE  /\ Good(MarkDirComplete(tr, k), F)
           /\ MarkDirComplete(tr, k).live = tr.live
           /\ MarkDirComplete(tr, k).links = tr.links
           /\ MarkDirComplete(tr, k).ent = tr.ent
<1> DEFINE complete == tr.complete \cup ({k} \cap tr.isDir)
<1>0. IsTree(tr) /\ WellFormed(tr)
  BY DEF Good
<1>1. /\ tr.live \in SUBSET Node /\ tr.isDir \in SUBSET tr.live
      /\ complete \in SUBSET tr.isDir
      /\ tr.links \in [Node -> Nat] /\ tr.parent \in [Node -> Node]
      /\ \A n \in Node : tr.links[n] >= tr.links[n]
      /\ \A n \in Node \ tr.live : tr.links[n] = 0
  BY <1>0 DEF IsTree, WellFormed
<1> HIDE DEF complete
<1>2. Good(WithNodes(tr, tr.live, tr.isDir, complete, tr.links, tr.parent), F)
  BY <1>1, WithNodesGood
<1>3. MarkDirComplete(tr, k) = WithNodes(tr, tr.live, tr.isDir, complete, tr.links, tr.parent)
  BY DEF MarkDirComplete, complete
<1> QED
  BY <1>2, <1>3 DEF WithNodes

\* What an entry upsert leaves: the table stays well formed, the dentry moves
\* from the old target to n.
LEMMA DirUpsertFacts ==
    ASSUME NEW tr, IsTree(tr), WellFormed(tr), NEW d \in tr.isDir, NEW m \in Name,
           NEW n \in Node, tr.ent[d][m] # n
    PROVE  LET u == DirUpsert(tr, d, m, n)
           IN  /\ IsTree(u) /\ WellFormed(u)
               /\ u.live = tr.live /\ u.links = tr.links
               /\ \A c \in Node :
                     InEdges(u, c) = IF c = n THEN InEdges(tr, c) \cup {<<d, m>>}
                                     ELSE InEdges(tr, c) \ {<<d, m>>}
<1> DEFINE u == DirUpsert(tr, d, m, n)
           ent == [tr.ent[d] EXCEPT ![m] = n]
           cookie == [tr.cookie[d] EXCEPT ![m] = tr.next[d]]
           delta == IF tr.ent[d][m] = NoNode THEN 1 ELSE 0
<1>1. /\ d \in Node /\ ent \in [Name -> Node \cup {NoNode}]
      /\ cookie \in [Name -> Nat] /\ delta \in Int
  BY DEF IsTree
<1>2. u = WithDir(tr, d, ent, cookie, 1, 1, delta)
  BY DEF DirUpsert
<1>3. /\ u.live = tr.live /\ u.links = tr.links
      /\ u.ent = [tr.ent EXCEPT ![d] = ent]
  BY <1>2 DEF WithDir
<1> HIDE DEF u, cookie, delta
<1>4. IsTree(u) /\ WellFormed(u)
  BY <1>1, <1>2, WithDirWellFormed
<1>5. \A c \in Node : InEdges(u, c) = IF c = n THEN InEdges(tr, c) \cup {<<d, m>>}
                                       ELSE InEdges(tr, c) \ {<<d, m>>}
  <2>1. u.ent = [tr.ent EXCEPT ![d] = [tr.ent[d] EXCEPT ![m] = n]]
    BY <1>3
  <2>2. d \in Node /\ n \in Node \cup {NoNode}
    BY <1>1
  <2> HIDE DEF ent
  <2> QED
    BY <2>1, <2>2, PointEdges, SMTT(60)
<1> QED
  BY <1>3, <1>4, <1>5 DEF u

\* What an entry removal leaves: the table stays well formed, one dentry goes.
LEMMA DirRemoveFacts ==
    ASSUME NEW tr, IsTree(tr), WellFormed(tr), NEW d \in tr.isDir, NEW m \in Name
    PROVE  LET u == DirRemove(tr, d, m)
           IN  /\ IsTree(u) /\ WellFormed(u)
               /\ u.live = tr.live /\ u.links = tr.links /\ u.isDir = tr.isDir
               /\ \A c \in Node : InEdges(u, c) = InEdges(tr, c) \ {<<d, m>>}
<1> DEFINE u == DirRemove(tr, d, m)
           ent == [tr.ent[d] EXCEPT ![m] = NoNode]
           cookie == [tr.cookie[d] EXCEPT ![m] = 0]
<1>1. /\ d \in Node /\ ent \in [Name -> Node \cup {NoNode}]
      /\ cookie \in [Name -> Nat] /\ -1 \in Int
  BY DEF IsTree
<1>2. u = WithDir(tr, d, ent, cookie, 0, 1, -1)
  BY DEF DirRemove
<1>3. /\ u.live = tr.live /\ u.links = tr.links /\ u.isDir = tr.isDir
      /\ u.ent = [tr.ent EXCEPT ![d] = ent]
  BY <1>2 DEF WithDir
<1> HIDE DEF u, cookie
<1>4. IsTree(u) /\ WellFormed(u)
  BY <1>1, <1>2, WithDirWellFormed
<1>5. ASSUME NEW c \in Node PROVE InEdges(u, c) = InEdges(tr, c) \ {<<d, m>>}
  <2>1. u.ent = [tr.ent EXCEPT ![d] = [tr.ent[d] EXCEPT ![m] = NoNode]]
    BY <1>3
  <2>2. d \in Node /\ NoNode \in Node \cup {NoNode} /\ c # NoNode
    BY <1>1, TreeAssumption
  <2> HIDE DEF ent
  <2>3. InEdges(u, c) = IF c = NoNode THEN InEdges(tr, c) \cup {<<d, m>>} ELSE InEdges(tr, c) \ {<<d, m>>}
    BY <2>1, <2>2, PointEdges, SMTT(60)
  <2> QED
    BY <2>2, <2>3
<1> QED
  BY <1>3, <1>4, <1>5 DEF u

\* A dentry is among those of the node it leads to and of no other.
LEMMA EdgeOfEntry ==
    ASSUME NEW tr, NEW d \in Node, NEW m \in Name, NEW c
    PROVE  <<d, m>> \in InEdges(tr, c) <=> tr.ent[d][m] = c
BY DEF InEdges, InFrom

\* A dentry that moves to n, where a link is counted for it, leaves one link
\* too many at the node it led to before.
LEMMA Repointed ==
    ASSUME NEW tr, NEW u, IsTree(tr), IsTree(u), NEW F,
           NEW d \in Node, NEW m \in Name, NEW n \in Node, tr.ent[d][m] # n,
           n \in F \cup u.live,
           \A c \in Node \ F : InEdges(tr, c) # {} => c \in u.live,
           \A c \in Node \ F : Cardinality(InEdges(tr, c)) + OneDrop(n)[c] <= u.links[c],
           \A c \in Node : InEdges(u, c) = IF c = n THEN InEdges(tr, c) \cup {<<d, m>>}
                                           ELSE InEdges(tr, c) \ {<<d, m>>}
    PROVE  CoveredBy(u, OneDrop(tr.ent[d][m]), F)
<1> DEFINE old == tr.ent[d][m]
<1> SUFFICES ASSUME NEW c \in Node \ F
             PROVE  /\ InEdges(u, c) # {} => c \in u.live
                    /\ Cardinality(InEdges(u, c)) + OneDrop(old)[c] <= u.links[c]
  BY DEF CoveredBy
<1>1. InEdges(u, c) # {} => c \in u.live
  OBVIOUS
<1>2. IsFiniteSet(InEdges(tr, c)) /\ Cardinality(InEdges(tr, c)) \in Nat /\ u.links[c] \in Nat
  BY FiniteEdges DEF InEdges, IsTree
<1>3. /\ OneDrop(n)[c] = IF c = n THEN 1 ELSE 0
      /\ OneDrop(old)[c] = IF c = old THEN 1 ELSE 0
  BY DEF OneDrop
<1>4. <<d, m>> \in InEdges(tr, c) <=> old = c
  BY EdgeOfEntry
<1> HIDE DEF old
<1>5. CASE c = n
  <2>1. <<d, m>> \notin InEdges(tr, c)
    BY <1>4, <1>5 DEF old
  <2>2. Cardinality(InEdges(u, c)) = Cardinality(InEdges(tr, c)) + 1
    BY <1>2, <1>5, <2>1, FS_AddElement
  <2> QED
    BY <1>1, <1>2, <1>3, <1>5, <2>2 DEF old
<1>6. CASE c # n /\ c = old
  <2>1. Cardinality(InEdges(u, c)) = Cardinality(InEdges(tr, c)) - 1
    BY <1>2, <1>4, <1>6, FS_RemoveElement
  <2> QED
    BY <1>1, <1>2, <1>3, <1>6, <2>1
<1>7. CASE c # n /\ c # old
  <2>1. InEdges(u, c) = InEdges(tr, c)
    BY <1>4, <1>7
  <2> QED
    BY <1>1, <1>2, <1>3, <1>7, <2>1
<1> QED
  BY <1>5, <1>6, <1>7

\* With a link to spare or without one, a covered tree is covered.
LEMMA CoveredByCovered ==
    ASSUME NEW tr, IsTree(tr), NEW F, NEW k, CoveredBy(tr, OneDrop(k), F)
    PROVE  Covered(tr, F)
<1> SUFFICES ASSUME NEW c \in Node \ F
             PROVE  /\ InEdges(tr, c) # {} => c \in tr.live
                    /\ Cardinality(InEdges(tr, c)) <= tr.links[c]
  BY DEF Covered
<1>1. Cardinality(InEdges(tr, c)) \in Nat /\ tr.links[c] \in Nat /\ OneDrop(k)[c] \in {0, 1}
  BY FiniteEdges DEF InEdges, IsTree, OneDrop
<1> QED
  BY <1>1 DEF CoveredBy

\* dentry_set of a known node keeps a tree good: the replaced target loses
\* exactly the link its dentry held.
LEMMA DentrySetGood ==
    ASSUME NEW tr, NEW F, Good(tr, F), NEW p \in Node, NEW m \in Name, NEW n \in tr.live
    PROVE  Good(DentrySet(tr, p, m, n), F)
<1>0. IsTree(tr) /\ WellFormed(tr) /\ Covered(tr, F) /\ n \in Node
  BY DEF Good, IsTree
<1>1. CASE p \notin tr.isDir \/ tr.ent[p][m] = n
  BY <1>1 DEF DentrySet
<1>2. CASE p \in tr.isDir /\ tr.ent[p][m] # n
  <2> DEFINE u == DirUpsert(tr, p, m, n)
             links == [u.links EXCEPT ![n] = @ + 1]
             v == SetLinks(u, links)
             old == tr.ent[p][m]
  <2>1. /\ IsTree(u) /\ WellFormed(u)
        /\ u.live = tr.live /\ u.links = tr.links
        /\ \A c \in Node : InEdges(u, c) = IF c = n THEN InEdges(tr, c) \cup {<<p, m>>}
                                           ELSE InEdges(tr, c) \ {<<p, m>>}
    BY <1>0, <1>2, DirUpsertFacts
  <2> HIDE DEF u
  <2>2. Good(u, Node)
    BY <2>1 DEF Good, Covered
  <2>3. /\ u.live \in SUBSET Node /\ u.isDir \in SUBSET u.live /\ u.complete \in SUBSET u.isDir
        /\ links \in [Node -> Nat] /\ u.parent \in [Node -> Node]
        /\ \A c \in Node : links[c] >= u.links[c]
        /\ \A c \in Node \ u.live : links[c] = 0
    BY <1>0, <2>1 DEF IsTree, WellFormed
  <2>4. v.live = tr.live /\ v.links = links /\ v.ent = u.ent
    BY <2>1 DEF SetLinks, WithNodes
  <2> HIDE DEF links
  <2>5. IsTree(v) /\ WellFormed(v)
    BY <2>2, <2>3, WithNodesGood DEF SetLinks, Good
  <2>6. \A c \in Node : InEdges(v, c) = InEdges(u, c)
    BY <2>4 DEF InEdges, InFrom
  <2>7. ASSUME NEW c \in Node \ F
        PROVE  Cardinality(InEdges(tr, c)) + OneDrop(n)[c] <= v.links[c]
    <3>1. Cardinality(InEdges(tr, c)) <= tr.links[c] /\ Cardinality(InEdges(tr, c)) \in Nat
      BY <1>0, FiniteEdges DEF Covered, InEdges
    <3>2. tr.links[c] \in Nat /\ links[c] = IF c = n THEN tr.links[c] + 1 ELSE tr.links[c]
      BY <1>0, <2>1 DEF IsTree, links
    <3> QED
      BY <2>4, <3>1, <3>2 DEF OneDrop
  <2>8. \A c \in Node \ F : InEdges(tr, c) # {} => c \in v.live
    BY <1>0, <2>4 DEF Covered
  <2>9. n \in F \cup v.live
    BY <2>4
  <2>10. LinkInc(u, n) = v
    BY <2>1 DEF LinkInc, links
  <2> HIDE DEF v
  <2>11. CoveredBy(v, OneDrop(old), F)
    BY <1>0, <1>2, <2>1, <2>5, <2>6, <2>7, <2>8, <2>9, Repointed, ZenonT(60)
  <2>12. DentrySet(tr, p, m, n) = IF old = NoNode THEN v ELSE LinkDec(v, old)
    BY <1>2, <2>10 DEF DentrySet, u
  <2> HIDE DEF old
  <2>13. Good(v, F) /\ Good(LinkDec(v, old), F)
    BY <2>5, <2>11, CoveredByCovered, LinkDecGood DEF Good
  <2> QED
    BY <2>12, <2>13
<1> QED
  BY <1>1, <1>2

\* A dentry taken away leaves one link too many at the node it led to.
LEMMA TakeCovered ==
    ASSUME NEW tr, NEW F, Good(tr, F), NEW p \in tr.isDir, NEW m \in Name
    PROVE  CoveredBy(DirRemove(tr, p, m), OneDrop(tr.ent[p][m]), F)
<1> DEFINE u == DirRemove(tr, p, m)
           old == tr.ent[p][m]
<1>0. IsTree(tr) /\ WellFormed(tr) /\ Covered(tr, F) /\ p \in Node
  BY DEF Good, IsTree
<1>1. /\ u.live = tr.live /\ u.links = tr.links
      /\ \A c \in Node : InEdges(u, c) = InEdges(tr, c) \ {<<p, m>>}
  BY <1>0, DirRemoveFacts
<1> HIDE DEF u
<1> SUFFICES ASSUME NEW c \in Node \ F
             PROVE  /\ InEdges(u, c) # {} => c \in u.live
                    /\ Cardinality(InEdges(u, c)) + OneDrop(old)[c] <= u.links[c]
  BY DEF CoveredBy, u
<1>2. IsFiniteSet(InEdges(tr, c)) /\ Cardinality(InEdges(tr, c)) \in Nat /\ tr.links[c] \in Nat
  BY <1>0, FiniteEdges DEF InEdges, IsTree
<1>3. OneDrop(old)[c] = IF c = old THEN 1 ELSE 0
  BY DEF OneDrop
<1>4. <<p, m>> \in InEdges(tr, c) <=> old = c
  BY <1>0, EdgeOfEntry
<1> HIDE DEF old
<1>5. CASE c = old
  <2>1. Cardinality(InEdges(u, c)) = Cardinality(InEdges(tr, c)) - 1
    BY <1>1, <1>2, <1>4, <1>5, FS_RemoveElement
  <2> QED
    BY <1>0, <1>1, <1>2, <1>3, <1>5, <2>1 DEF Covered
<1>6. CASE c # old
  <2>1. InEdges(u, c) = InEdges(tr, c)
    BY <1>1, <1>4, <1>6
  <2> QED
    BY <1>0, <1>1, <1>2, <1>3, <1>6, <2>1 DEF Covered
<1> QED
  BY <1>5, <1>6

\* dentry_remove keeps a tree good.
LEMMA DentryRemoveGood ==
    ASSUME NEW tr, NEW F, Good(tr, F), NEW p \in Node, NEW m \in Name
    PROVE  Good(DentryRemove(tr, p, m), F)
<1>1. CASE Find(tr, p, m) = NoNode
  BY <1>1 DEF DentryRemove
<1>2. CASE Find(tr, p, m) # NoNode
  <2>1. p \in tr.isDir /\ IsTree(tr) /\ WellFormed(tr)
    BY <1>2 DEF Find, Good
  <2>2. IsTree(DirRemove(tr, p, m)) /\ WellFormed(DirRemove(tr, p, m))
    BY <2>1, DirRemoveFacts
  <2>3. CoveredBy(DirRemove(tr, p, m), OneDrop(tr.ent[p][m]), F)
    BY <2>1, TakeCovered
  <2>4. Good(LinkDec(DirRemove(tr, p, m), tr.ent[p][m]), F)
    BY <2>2, <2>3, LinkDecGood
  <2> QED
    BY <1>2, <2>4 DEF DentryRemove
<1> QED
  BY <1>1, <1>2

\* dentry_relink keeps a tree good when there is a link of n to spare.
LEMMA DentryRelinkGood ==
    ASSUME NEW tr, IsTree(tr), WellFormed(tr), NEW F, NEW p \in Node, NEW m \in Name,
           NEW n \in Node, n \in F \cup tr.live, CoveredBy(tr, OneDrop(n), F)
    PROVE  Good(DentryRelink(tr, p, m, n), F)
<1> DEFINE u == DirUpsert(tr, p, m, n)
           v == IF tr.ent[p][m] \in {NoNode, n} THEN u ELSE LinkDec(u, tr.ent[p][m])
<1>1. Good(tr, F)
  BY CoveredByCovered DEF Good
<1>2. ASSUME NEW w, Good(w, F), n \in w.live
      PROVE  Good(SetParent(w, n, p), F)
  <2> DEFINE parent == [w.parent EXCEPT ![n] = p]
  <2>1. /\ w.live \in SUBSET Node /\ w.isDir \in SUBSET w.live
        /\ w.complete \in SUBSET w.isDir
        /\ w.links \in [Node -> Nat] /\ parent \in [Node -> Node]
        /\ \A c \in Node : w.links[c] >= w.links[c]
        /\ \A c \in Node \ w.live : w.links[c] = 0
    BY <1>2 DEF Good, IsTree, WellFormed
  <2> HIDE DEF parent
  <2>2. Good(WithNodes(w, w.live, w.isDir, w.complete, w.links, parent), F)
    BY <1>2, <2>1, WithNodesGood
  <2> QED
    BY <2>2 DEF SetParent, parent
<1>3. CASE p \notin tr.isDir
  BY <1>1, <1>3 DEF DentryRelink
<1>4. CASE p \in tr.isDir
  <2>1. Good(v, F)
    <3>1. CASE tr.ent[p][m] = n
      BY <1>1, <3>1 DEF DirUpsert
    <3>2. CASE tr.ent[p][m] # n
      <4>1. /\ IsTree(u) /\ WellFormed(u)
            /\ u.live = tr.live /\ u.links = tr.links
            /\ \A c \in Node : InEdges(u, c) = IF c = n THEN InEdges(tr, c) \cup {<<p, m>>}
                                               ELSE InEdges(tr, c) \ {<<p, m>>}
        BY <1>4, <3>2, DirUpsertFacts
      <4>2. /\ \A c \in Node \ F : InEdges(tr, c) # {} => c \in u.live
            /\ \A c \in Node \ F : Cardinality(InEdges(tr, c)) + OneDrop(n)[c] <= u.links[c]
            /\ n \in F \cup u.live
        BY <4>1 DEF CoveredBy
      <4> HIDE DEF u
      <4>3. CoveredBy(u, OneDrop(tr.ent[p][m]), F)
        BY <3>2, <4>1, <4>2, Repointed
      <4>4. Good(u, F) /\ Good(LinkDec(u, tr.ent[p][m]), F)
        BY <4>1, <4>3, CoveredByCovered, LinkDecGood DEF Good
      <4> QED
        BY <4>4
    <3> QED
      BY <3>1, <3>2
  <2>2. DentryRelink(tr, p, m, n) = IF n \in v.live THEN SetParent(v, n, p) ELSE v
    BY <1>4 DEF DentryRelink
  <2> HIDE DEF v
  <2> QED
    BY <1>2, <2>1, <2>2
<1> QED
  BY <1>3, <1>4

\* A rename keeps a tree good: the link of the taken dentry is the one that
\* the new dentry uses.
LEMMA DentryMoveGood ==
    ASSUME NEW tr, NEW F, Good(tr, F), NEW fp \in Node, NEW fm \in Name,
           NEW tp \in Node, NEW tm \in Name
    PROVE  Good(DentryMove(tr, fp, fm, tp, tm), F)
<1> DEFINE n == Find(tr, fp, fm)
           u == DirRemove(tr, fp, fm)
<1>1. CASE n = NoNode
  BY <1>1 DEF DentryMove
<1>2. CASE n # NoNode
  <2>1. fp \in tr.isDir /\ n = tr.ent[fp][fm] /\ IsTree(tr) /\ WellFormed(tr) /\ Covered(tr, F)
    BY <1>2 DEF Find, Good
  <2>2. n \in Node
    BY <1>2, <2>1 DEF IsTree
  <2>3. IsTree(u) /\ WellFormed(u) /\ u.live = tr.live
    BY <2>1, DirRemoveFacts
  <2>4. CoveredBy(u, OneDrop(n), F)
    BY <2>1, TakeCovered
  <2>5. n \in F \cup u.live
    <3> HIDE DEF u, n
    <3>1. <<fp, fm>> \in InEdges(tr, n)
      BY <2>1, EdgeOfEntry
    <3> QED
      BY <2>1, <2>2, <2>3, <3>1 DEF Covered
  <2>6. DentryMove(tr, fp, fm, tp, tm) = DentryRelink(u, tp, tm, n)
    BY <1>2 DEF DentryMove
  <2> HIDE DEF u, n
  <2> QED
    BY <2>2, <2>3, <2>4, <2>5, <2>6, DentryRelinkGood
<1> QED
  BY <1>1, <1>2

-----------------------------------------------------------------------------
(***************************************************************************)
(* Snapshot records.                                                       *)
(***************************************************************************)
\* The nodes a snapshot record lists are known afterwards, and the directory
\* it is about has a table.
LEMMA SnapNodesGood ==
    ASSUME NEW tr, NEW F, Good(tr, F), NEW d \in Node, NEW p \in Node,
           NEW S \in SUBSET Name, NEW f \in [S -> Node]
    PROVE  LET u == SnapNodes(tr, d, p, f)
           IN  Good(u, F) /\ d \in u.isDir /\ \A m \in S : f[m] \in u.live
<1> DEFINE u == UpsertNode(tr, d, TRUE, p)
           new == {f[m] : m \in DOMAIN f}
           live == u.live \cup new
           isDir == u.isDir \cup (new \cap DirNode)
           parent == [n \in Node |-> IF n \in new THEN d ELSE u.parent[n]]
           v == WithNodes(u, live, isDir, u.complete, u.links, parent)
<1>1. Good(u, F) /\ d \in u.isDir
  <2>1. Good(u, F)
    BY UpsertNodeGood
  <2> QED
    BY <2>1 DEF UpsertNode, WithNodes
<1> HIDE DEF u
<1>2. new \in SUBSET Node /\ \A m \in S : f[m] \in new
  OBVIOUS
<1> HIDE DEF new
<1>3. /\ live \in SUBSET Node /\ isDir \in SUBSET live /\ u.complete \in SUBSET isDir
      /\ u.links \in [Node -> Nat] /\ parent \in [Node -> Node]
      /\ u.live \subseteq live /\ u.isDir \subseteq isDir
      /\ \A n \in Node : u.links[n] >= u.links[n]
      /\ \A n \in Node \ live : u.links[n] = 0
  BY <1>1, <1>2 DEF Good, IsTree, WellFormed
<1>4. /\ v.live = live /\ v.isDir = isDir
  BY DEF WithNodes
<1>5. d \in v.isDir /\ \A m \in S : f[m] \in v.live
  BY <1>1, <1>2, <1>4
<1> HIDE DEF live, isDir, parent
<1>6. Good(v, F)
  BY <1>1, <1>3, WithNodesGood
<1>7. SnapNodes(tr, d, p, f) = v
  BY DEF SnapNodes, u, new, live, isDir, parent
<1> HIDE DEF v
<1> QED
  BY <1>5, <1>6, <1>7

\* The dentries of a node after a snapshot record: those it had, without the
\* ones it lost and with the ones it gained.
LEMMA SnapEdges ==
    ASSUME NEW tr, IsTree(tr), NEW v, NEW d \in Node, NEW S \in SUBSET Name,
           NEW f \in [S -> Node], NEW n \in Node,
           v.ent = [tr.ent EXCEPT ![d] =
                      [m \in Name |-> IF m \in Changed(tr, d, f) THEN f[m] ELSE tr.ent[d][m]]]
    PROVE  /\ InEdges(v, n) = (InEdges(tr, n) \ Lost(tr, d, f, n)) \cup Gained(tr, d, f, n)
           /\ Lost(tr, d, f, n) \in SUBSET InEdges(tr, n)
           /\ Gained(tr, d, f, n) \cap InEdges(tr, n) = {}
           /\ Gained(tr, d, f, n) \in SUBSET (Node \X Name)
<1>1. Changed(tr, d, f) \in SUBSET Name
  BY DEF Changed
<1>2. ASSUME NEW q \in Node \X Name
      PROVE  /\ q \in InEdges(tr, n) <=> tr.ent[q[1]][q[2]] = n
             /\ q \in InEdges(v, n) <=> v.ent[q[1]][q[2]] = n
             /\ q \in Lost(tr, d, f, n) <=> q[1] = d /\ q[2] \in Changed(tr, d, f) /\ tr.ent[d][q[2]] = n
             /\ q \in Gained(tr, d, f, n) <=> q[1] = d /\ q[2] \in Changed(tr, d, f) /\ f[q[2]] = n
  BY DEF InEdges, InFrom, Lost, Gained
<1>3. /\ InEdges(tr, n) \in SUBSET (Node \X Name) /\ InEdges(v, n) \in SUBSET (Node \X Name)
      /\ Lost(tr, d, f, n) \in SUBSET (Node \X Name)
      /\ Gained(tr, d, f, n) \in SUBSET (Node \X Name)
  BY <1>1 DEF InEdges, InFrom, Lost, Gained
<1>4. ASSUME NEW e \in Node, NEW m \in Name
      PROVE  v.ent[e][m] = IF e = d /\ m \in Changed(tr, d, f) THEN f[m] ELSE tr.ent[e][m]
  BY DEF IsTree
<1>5. ASSUME NEW q \in Node \X Name
      PROVE  /\ q \in InEdges(v, n) <=>
                   q \in (InEdges(tr, n) \ Lost(tr, d, f, n)) \cup Gained(tr, d, f, n)
             /\ q \in Lost(tr, d, f, n) => q \in InEdges(tr, n)
             /\ ~ (q \in Gained(tr, d, f, n) /\ q \in InEdges(tr, n))
  <2>1. \A m \in Changed(tr, d, f) : tr.ent[d][m] # f[m]
    BY DEF Changed
  <2>2. v.ent[q[1]][q[2]] = IF q[1] = d /\ q[2] \in Changed(tr, d, f) THEN f[q[2]]
                            ELSE tr.ent[q[1]][q[2]]
    BY <1>4
  <2> QED
    BY <1>2, <2>1, <2>2
<1> QED
  BY <1>3, <1>5

\* The listing of a snapshot record counts a link for every dentry it adds and
\* leaves to drop the links of those it replaces.
LEMMA SnapEntsCovered ==
    ASSUME NEW tr, NEW F, Good(tr, F), NEW d \in tr.isDir, NEW S \in SUBSET Name,
           NEW f \in [S -> Node], \A m \in S : f[m] \in tr.live, NEW ord, NEW last
    PROVE  LET v == SnapEnts(tr, d, f, ord, last)
               cnt == [n \in Node |-> Cardinality(Lost(tr, d, f, n))]
           IN  IsTree(v) /\ WellFormed(v) /\ cnt \in [Node -> Nat] /\ CoveredBy(v, cnt, F)
<1> DEFINE new == Changed(tr, d, f)
           ent == [m \in Name |-> IF m \in new THEN f[m] ELSE tr.ent[d][m]]
           ck == [m \in Name |->
                    IF m \in new THEN tr.next[d] + Cardinality(Before(tr, d, f, ord, m))
                    ELSE tr.cookie[d][m]]
           fresh == Cardinality({m \in new : tr.ent[d][m] = NoNode})
           u == WithDir(tr, d, ent, ck, Cardinality(new), Cardinality(new), fresh)
           w == IF last THEN MarkDirComplete(u, d) ELSE u
           links == [n \in Node |-> tr.links[n] + Cardinality(Gained(tr, d, f, n))]
           v == SetLinks(w, links)
           cnt == [n \in Node |-> Cardinality(Lost(tr, d, f, n))]
<1>0. IsTree(tr) /\ WellFormed(tr) /\ Covered(tr, F) /\ d \in Node
  BY DEF Good, IsTree
<1>1. new \in SUBSET Name /\ new \in SUBSET S
  BY DEF Changed
<1>2. ASSUME NEW X \in SUBSET Name
      PROVE  Cardinality(X) \in Nat
  BY FS_Subset, FS_CardinalityType, TreeAssumption
<1>3. /\ Cardinality(new) \in Nat
      /\ fresh \in Int
      /\ \A m \in Name : Cardinality(Before(tr, d, f, ord, m)) \in Nat
  <2>1. {m \in new : tr.ent[d][m] = NoNode} \in SUBSET Name
    BY <1>1
  <2>2. \A m \in Name : Before(tr, d, f, ord, m) \in SUBSET Name
    BY <1>1 DEF Before
  <2> QED
    BY <1>1, <1>2, <2>1, <2>2
<1>4. ent \in [Name -> Node \cup {NoNode}] /\ ck \in [Name -> Nat]
  BY <1>0, <1>1, <1>3 DEF IsTree
<1>5. u.live = tr.live /\ u.isDir = tr.isDir /\ u.links = tr.links /\ u.ent = [tr.ent EXCEPT ![d] = ent]
  BY DEF WithDir
<1>6. \A n \in Node : /\ InEdges(u, n) = (InEdges(tr, n) \ Lost(tr, d, f, n)) \cup Gained(tr, d, f, n)
                      /\ Lost(tr, d, f, n) \in SUBSET InEdges(tr, n)
                      /\ Gained(tr, d, f, n) \cap InEdges(tr, n) = {}
                      /\ Gained(tr, d, f, n) \in SUBSET (Node \X Name)
  <2> HIDE DEF u
  <2> QED
    BY <1>0, <1>5, SnapEdges
<1> HIDE DEF ent, ck, fresh, new
<1>7. IsTree(u) /\ WellFormed(u)
  BY <1>0, <1>3, <1>4, WithDirWellFormed
<1> HIDE DEF u
<1>8. Good(u, Node)
  BY <1>7 DEF Good, Covered
<1>9. Good(w, Node) /\ w.live = u.live /\ w.links = u.links /\ w.ent = u.ent
  BY <1>0, <1>8, MarkDirCompleteGood
<1> HIDE DEF w
<1>10. ASSUME NEW n \in Node
       PROVE  /\ IsFiniteSet(InEdges(tr, n)) /\ Cardinality(InEdges(tr, n)) \in Nat
              /\ IsFiniteSet(Gained(tr, d, f, n)) /\ Cardinality(Gained(tr, d, f, n)) \in Nat
              /\ IsFiniteSet(Lost(tr, d, f, n)) /\ Cardinality(Lost(tr, d, f, n)) \in Nat
  <2>1. IsFiniteSet(Node \X Name)
    BY FS_Product, TreeAssumption
  <2>2. IsFiniteSet(InEdges(tr, n))
    BY FiniteEdges DEF InEdges
  <2> QED
    BY <1>6, <2>1, <2>2, FS_Subset, FS_CardinalityType
<1>11. \A n \in Node : Gained(tr, d, f, n) # {} => n \in tr.live
  BY <1>1 DEF Gained, new
<1>12. links \in [Node -> Nat] /\ \A n \in Node : links[n] >= w.links[n]
  BY <1>0, <1>5, <1>9, <1>10 DEF IsTree
<1>13. ASSUME NEW n \in Node \ w.live
       PROVE  links[n] = 0
  <2>1. tr.links[n] = 0 /\ Gained(tr, d, f, n) = {}
    BY <1>0, <1>5, <1>9, <1>11 DEF WellFormed
  <2> QED
    BY <2>1, FS_EmptySet
<1>14. v.live = tr.live /\ v.links = links /\ v.ent = u.ent
  BY <1>5, <1>9 DEF SetLinks, WithNodes
<1> HIDE DEF links
<1>15. IsTree(v) /\ WellFormed(v)
  <2>1. /\ w.live \in SUBSET Node /\ w.isDir \in SUBSET w.live
        /\ w.complete \in SUBSET w.isDir /\ w.parent \in [Node -> Node]
    BY <1>9 DEF Good, IsTree, WellFormed
  <2>2. Good(v, Node)
    BY <1>9, <1>12, <1>13, <2>1, WithNodesGood DEF SetLinks
  <2> QED
    BY <2>2 DEF Good
<1>16. cnt \in [Node -> Nat]
  BY <1>10
<1>17. CoveredBy(v, cnt, F)
  <2> SUFFICES ASSUME NEW n \in Node \ F
               PROVE  /\ InEdges(v, n) # {} => n \in v.live
                      /\ Cardinality(InEdges(v, n)) + cnt[n] <= v.links[n]
    BY DEF CoveredBy
  <2> DEFINE A == InEdges(tr, n)
             L == Lost(tr, d, f, n)
             G == Gained(tr, d, f, n)
  <2>1. InEdges(v, n) = (A \ L) \cup G
    BY <1>6, <1>14 DEF InEdges, InFrom
  <2>2. L \in SUBSET A /\ G \cap A = {} /\ IsFiniteSet(A) /\ IsFiniteSet(G)
    BY <1>6, <1>10
  <2>3. /\ InEdges(tr, n) # {} => n \in tr.live
        /\ Cardinality(A) <= tr.links[n] /\ tr.links[n] \in Nat
    BY <1>0 DEF Covered, IsTree
  <2>4. links[n] = tr.links[n] + Cardinality(G) /\ cnt[n] = Cardinality(L)
    BY DEF links
  <2>5. G # {} => n \in tr.live
    BY <1>11
  <2> HIDE DEF A, L, G, cnt
  <2>6. /\ IsFiniteSet(A \ L) /\ Cardinality(A) \in Nat /\ Cardinality(L) \in Nat
        /\ Cardinality(A \ L) = Cardinality(A) - Cardinality(L)
    BY <2>2, CardinalityOfRest
  <2>7. Cardinality((A \ L) \cup G) = Cardinality(A \ L) + Cardinality(G)
    <3>1. (A \ L) \cap G = {}
      BY <2>2
    <3>2. Cardinality((A \ L) \cup G) = Cardinality(A \ L) + Cardinality(G) - Cardinality({})
      BY <2>2, <2>6, <3>1, FS_Union
    <3> QED
      BY <2>2, <2>6, <3>2, FS_EmptySet, FS_CardinalityType
  <2>8. Cardinality(G) \in Nat
    BY <2>2, FS_CardinalityType
  <2>9. InEdges(v, n) # {} => n \in v.live
    BY <1>14, <2>1, <2>3, <2>5 DEF A
  <2> QED
    BY <1>14, <2>1, <2>3, <2>4, <2>6, <2>7, <2>8, <2>9
<1>18. SnapEnts(tr, d, f, ord, last) = v
  <2>1. SnapEnts(tr, d, f, ord, last) =
        SetLinks(w, [n \in Node |-> tr.links[n] + Cardinality(Gained(tr, d, f, n))])
    BY DEF SnapEnts, w, u, ent, ck, fresh, new
  <2> QED
    BY <2>1 DEF links
<1> HIDE DEF v, cnt
<1> QED
  BY <1>15, <1>16, <1>17, <1>18 DEF cnt

\* apply_snap_dir keeps a tree good.
LEMMA ApplySnapDirGood ==
    ASSUME NEW tr, NEW F, Good(tr, F), NEW d \in Node, NEW p \in Node,
           NEW S \in SUBSET Name, NEW f \in [S -> Node], NEW ord, NEW last
    PROVE  Good(ApplySnapDir(tr, d, p, f, ord, last), F)
<1> DEFINE u == SnapNodes(tr, d, p, f)
           v == SnapEnts(u, d, f, ord, last)
           cnt == [n \in Node |-> Cardinality(Lost(u, d, f, n))]
<1>1. Good(u, F) /\ d \in u.isDir /\ \A m \in S : f[m] \in u.live
  BY SnapNodesGood
<1> HIDE DEF u
<1>2. IsTree(v) /\ WellFormed(v) /\ cnt \in [Node -> Nat] /\ CoveredBy(v, cnt, F)
  BY <1>1, SnapEntsCovered
<1>3. ApplySnapDir(tr, d, p, f, ord, last) = Drop(v, cnt, Doomed(v, cnt, {}))
  BY DEF ApplySnapDir, u
<1> HIDE DEF v, cnt
<1>4. {} \in SUBSET v.live /\ {} \subseteq F
  OBVIOUS
<1>5. Doomed(v, cnt, {}) \in SUBSET v.live
  BY <1>2, <1>4, DoomedLeast
<1>6. Covered(Drop(v, cnt, Doomed(v, cnt, {})), F)
  BY <1>2, <1>4, DropCovered
<1>7. IsTree(Drop(v, cnt, Doomed(v, cnt, {}))) /\ WellFormed(Drop(v, cnt, Doomed(v, cnt, {})))
  BY <1>2, <1>5, DropWellFormed
<1> QED
  BY <1>3, <1>6, <1>7 DEF Good

\* The replica of a new share is a good tree.
LEMMA NewTreeGood ==
    ASSUME NEW F
    PROVE  Good(NewTree, F)
<1>1. IsTree(NewTree) /\ WellFormed(NewTree)
  BY TreeAssumption DEF NewTree, IsTree, WellFormed, NoEnts, NoCookies, FIRST_COOKIE
<1>2. ASSUME NEW n \in Node
      PROVE  InEdges(NewTree, n) = {} /\ NewTree.links[n] = 0
  <2>1. \A d \in Node, m \in Name : NewTree.ent[d][m] = NoNode
    BY DEF NewTree, NoEnts
  <2> QED
    BY <2>1, TreeAssumption DEF InEdges, InFrom, NewTree
<1>3. Covered(NewTree, F)
  BY <1>2, FS_EmptySet DEF Covered
<1> QED
  BY <1>1, <1>3 DEF Good

\* Counting the entries afresh changes nothing else.
LEMMA RecountGood ==
    ASSUME NEW tr, NEW F, Good(tr, F)
    PROVE  Good(Recount(tr), F) /\ Recount(tr).live = tr.live
<1> DEFINE u == Recount(tr)
<1>0. IsTree(tr) /\ WellFormed(tr) /\ Covered(tr, F)
  BY DEF Good
<1>1. Cardinality(Held(tr, tr.isDir)) \in Nat
  <2>1. IsFiniteSet(Node \X Name)
    BY FS_Product, TreeAssumption
  <2>2. Held(tr, tr.isDir) \in SUBSET (Node \X Name)
    BY <1>0 DEF Held, IsTree
  <2> QED
    BY <2>1, <2>2, FS_Subset, FS_CardinalityType
<1>2. IsTree(u) /\ WellFormed(u)
  BY <1>0, <1>1 DEF IsTree, WellFormed, Recount
<1>3. u.live = tr.live /\ u.links = tr.links /\ u.ent = tr.ent
  BY DEF Recount
<1> HIDE DEF u
<1>4. \A n \in Node : InEdges(u, n) = InEdges(tr, n)
  BY <1>3 DEF InEdges, InFrom
<1>5. Covered(u, F)
  BY <1>0, <1>3, <1>4 DEF Covered
<1> QED
  BY <1>2, <1>3, <1>5 DEF Good, u

-----------------------------------------------------------------------------
(***************************************************************************)
(* Cookies and statistics.  A tree is neat when, besides being well        *)
(* formed, its cookies were handed out by the counter of their directory,  *)
(* none twice, and its three statistics are exact.  Every operator keeps a *)
(* tree neat and only advances the directories that are left after it.     *)
(***************************************************************************)
CookiesGood(tr) ==
    /\ \A d \in Node : tr.next[d] >= FIRST_COOKIE
    /\ \A d \in Node, m \in Name : tr.ent[d][m] # NoNode =>
          /\ tr.cookie[d][m] \in FIRST_COOKIE .. tr.next[d] - 1
          /\ \A k \in Name : tr.ent[d][k] # NoNode /\ tr.cookie[d][k] = tr.cookie[d][m] => k = m

Exact(tr) ==
    /\ tr.nodes = Cardinality(tr.live)
    /\ tr.dirs = Cardinality(tr.isDir)
    /\ tr.entries = Cardinality(Held(tr, Node))

Neat(tr) == IsTree(tr) /\ WellFormed(tr) /\ CookiesGood(tr) /\ Exact(tr)

\* From tr to u the counters of the directories in X have not gone back, a
\* listing that changed has a new dirgen, and an entry is either as it was or
\* has a cookie handed out since.
Advances(tr, u, X) ==
    \A d \in X :
        /\ u.next[d] >= tr.next[d] /\ u.gen[d] >= tr.gen[d]
        /\ u.ent[d] # tr.ent[d] => u.gen[d] > tr.gen[d]
        /\ \A m \in Name : u.ent[d][m] # NoNode =>
              \/ u.cookie[d][m] >= tr.next[d]
              \/ u.ent[d][m] = tr.ent[d][m] /\ u.cookie[d][m] = tr.cookie[d][m]

\* The numbers Advances compares are natural numbers.
LEMMA CountersType ==
    ASSUME NEW tr, IsTree(tr), NEW d \in Node
    PROVE  /\ tr.next[d] \in Nat /\ tr.gen[d] \in Nat
           /\ tr.ent[d] \in [Name -> Node \cup {NoNode}] /\ tr.cookie[d] \in [Name -> Nat]
           /\ \A m \in Name : tr.cookie[d][m] \in Nat
<1>1. /\ tr.next \in [Node -> Nat] /\ tr.gen \in [Node -> Nat]
      /\ tr.ent \in [Node -> [Name -> Node \cup {NoNode}]]
      /\ tr.cookie \in [Node -> [Name -> Nat]]
  BY DEF IsTree
<1>2. tr.cookie[d] \in [Name -> Nat]
  BY <1>1
<1> QED
  BY <1>1, <1>2

\* A tree advances to itself.
LEMMA AdvancesReflexive ==
    ASSUME NEW tr, IsTree(tr), NEW X \in SUBSET Node
    PROVE  Advances(tr, tr, X)
BY CountersType DEF Advances

\* One advance after another is an advance.
LEMMA AdvancesTransitive ==
    ASSUME NEW tr, NEW u, NEW v, IsTree(tr), IsTree(u), IsTree(v), NEW X \in SUBSET Node,
           Advances(tr, u, X), Advances(u, v, X)
    PROVE  Advances(tr, v, X)
<1> SUFFICES ASSUME NEW d \in X
             PROVE  /\ v.next[d] >= tr.next[d] /\ v.gen[d] >= tr.gen[d]
                    /\ v.ent[d] # tr.ent[d] => v.gen[d] > tr.gen[d]
                    /\ \A m \in Name : v.ent[d][m] # NoNode =>
                          \/ v.cookie[d][m] >= tr.next[d]
                          \/ v.ent[d][m] = tr.ent[d][m] /\ v.cookie[d][m] = tr.cookie[d][m]
  BY DEF Advances
<1>1. /\ tr.next[d] \in Nat /\ tr.gen[d] \in Nat /\ u.next[d] \in Nat /\ u.gen[d] \in Nat
      /\ v.next[d] \in Nat /\ v.gen[d] \in Nat
      /\ \A m \in Name : tr.cookie[d][m] \in Nat /\ u.cookie[d][m] \in Nat /\ v.cookie[d][m] \in Nat
  BY CountersType
<1>2. v.next[d] >= tr.next[d] /\ v.gen[d] >= tr.gen[d]
  BY <1>1 DEF Advances
<1>3. v.ent[d] # tr.ent[d] => v.gen[d] > tr.gen[d]
  BY <1>1 DEF Advances
<1>4. ASSUME NEW m \in Name, v.ent[d][m] # NoNode
      PROVE  \/ v.cookie[d][m] >= tr.next[d]
             \/ v.ent[d][m] = tr.ent[d][m] /\ v.cookie[d][m] = tr.cookie[d][m]
  BY <1>1, <1>4 DEF Advances
<1> QED
  BY <1>2, <1>3, <1>4

\* All dentries together are finitely many, also those of some directories.
LEMMA FiniteHeld ==
    ASSUME NEW tr, NEW X \in SUBSET Node
    PROVE  /\ IsFiniteSet(Held(tr, X)) /\ Cardinality(Held(tr, X)) \in Nat
           /\ Held(tr, X) \in SUBSET (Node \X Name)
<1>1. IsFiniteSet(Node \X Name)
  BY FS_Product, TreeAssumption
<1>2. Held(tr, X) \in SUBSET (Node \X Name)
  BY DEF Held
<1> QED
  BY <1>1, <1>2, FS_Subset, FS_CardinalityType

\* The node table: nothing about directories changes, and what is new is counted.
LEMMA WithNodesNeat ==
    ASSUME NEW tr, Neat(tr),
           NEW live \in SUBSET Node, NEW isDir \in SUBSET live, NEW complete \in SUBSET isDir,
           NEW links \in [Node -> Nat], NEW parent \in [Node -> Node],
           tr.live \subseteq live, tr.isDir \subseteq isDir,
           \A n \in Node \ live : links[n] = 0
    PROVE  LET u == WithNodes(tr, live, isDir, complete, links, parent)
           IN  Neat(u) /\ \A X \in SUBSET Node : Advances(tr, u, X)
<1> DEFINE u == WithNodes(tr, live, isDir, complete, links, parent)
<1>0. IsTree(tr) /\ WellFormed(tr) /\ CookiesGood(tr) /\ Exact(tr)
  BY DEF Neat
<1>1. /\ u.live = live /\ u.isDir = isDir /\ u.complete = complete /\ u.links = links
      /\ u.parent = parent /\ u.ent = tr.ent /\ u.cookie = tr.cookie /\ u.next = tr.next
      /\ u.gen = tr.gen /\ u.entries = tr.entries
      /\ u.nodes = tr.nodes + Cardinality(live \ tr.live)
      /\ u.dirs = tr.dirs + Cardinality(isDir \ tr.isDir)
  BY DEF WithNodes
<1> HIDE DEF u
<1>2. IsFiniteSet(live) /\ IsFiniteSet(isDir)
  BY FS_Subset, TreeAssumption
<1>3. /\ Cardinality(live \ tr.live) = Cardinality(live) - Cardinality(tr.live)
      /\ Cardinality(live) \in Nat /\ Cardinality(tr.live) \in Nat
  BY <1>2, CardinalityOfRest
<1>4. /\ Cardinality(isDir \ tr.isDir) = Cardinality(isDir) - Cardinality(tr.isDir)
      /\ Cardinality(isDir) \in Nat /\ Cardinality(tr.isDir) \in Nat
  BY <1>2, CardinalityOfRest
<1>5. Held(u, Node) = Held(tr, Node)
  BY <1>1 DEF Held
<1>6. Exact(u)
  BY <1>0, <1>1, <1>3, <1>4, <1>5 DEF Exact
<1>7. CookiesGood(u)
  BY <1>0, <1>1 DEF CookiesGood
<1>8. u.nodes \in Int /\ u.dirs \in Int
  BY <1>0, <1>1, <1>3, <1>4 DEF Exact
<1>9. IsTree(u)
  BY <1>0, <1>1, <1>8 DEF IsTree
<1>10. WellFormed(u)
  BY <1>0, <1>1 DEF WellFormed, IsTree
<1>11. ASSUME NEW X \in SUBSET Node PROVE Advances(tr, u, X)
  BY <1>0, <1>1, CountersType DEF Advances
<1> QED
  BY <1>6, <1>7, <1>9, <1>10, <1>11 DEF Neat, u

\* One directory's table: the new cookies come from the counter, and delta is
\* what the number of entries changes by.
LEMMA WithDirNeat ==
    ASSUME NEW tr, Neat(tr), NEW d \in tr.isDir,
           NEW ent \in [Name -> Node \cup {NoNode}], NEW cookie \in [Name -> Nat],
           NEW taken \in Nat, NEW changes \in Nat, NEW delta \in Int,
           \A m \in Name : ent[m] # NoNode =>
              /\ cookie[m] \in FIRST_COOKIE .. tr.next[d] + taken - 1
              /\ \A k \in Name : ent[k] # NoNode /\ cookie[k] = cookie[m] => k = m
              /\ \/ cookie[m] >= tr.next[d]
                 \/ ent[m] = tr.ent[d][m] /\ cookie[m] = tr.cookie[d][m],
           ent # tr.ent[d] => changes > 0,
           LET u == WithDir(tr, d, ent, cookie, taken, changes, delta)
           IN  Cardinality(Held(u, Node)) = Cardinality(Held(tr, Node)) + delta
    PROVE  LET u == WithDir(tr, d, ent, cookie, taken, changes, delta)
           IN  Neat(u) /\ \A X \in SUBSET Node : Advances(tr, u, X)
<1> DEFINE u == WithDir(tr, d, ent, cookie, taken, changes, delta)
<1>0. IsTree(tr) /\ WellFormed(tr) /\ CookiesGood(tr) /\ Exact(tr) /\ d \in Node
  BY DEF Neat, IsTree
<1>1. /\ u.live = tr.live /\ u.isDir = tr.isDir /\ u.nodes = tr.nodes /\ u.dirs = tr.dirs
      /\ u.ent = [tr.ent EXCEPT ![d] = ent] /\ u.cookie = [tr.cookie EXCEPT ![d] = cookie]
      /\ u.next = [tr.next EXCEPT ![d] = @ + taken] /\ u.gen = [tr.gen EXCEPT ![d] = @ + changes]
      /\ u.entries = tr.entries + delta
  BY DEF WithDir
<1>2. IsTree(u) /\ WellFormed(u)
  BY <1>0, WithDirWellFormed
<1>3. Cardinality(Held(u, Node)) = Cardinality(Held(tr, Node)) + delta
  OBVIOUS
<1> HIDE DEF u
<1>4. \A e \in Node : /\ u.ent[e] = (IF e = d THEN ent ELSE tr.ent[e])
                      /\ u.cookie[e] = (IF e = d THEN cookie ELSE tr.cookie[e])
                      /\ u.next[e] = (IF e = d THEN tr.next[d] + taken ELSE tr.next[e])
                      /\ u.gen[e] = (IF e = d THEN tr.gen[d] + changes ELSE tr.gen[e])
  BY <1>0, <1>1 DEF IsTree
<1>5. Exact(u)
  BY <1>0, <1>1, <1>3 DEF Exact
<1>6. CookiesGood(u)
  <2>1. ASSUME NEW e \in Node PROVE u.next[e] >= FIRST_COOKIE
    BY <1>0, <1>4, CountersType DEF CookiesGood, FIRST_COOKIE
  <2>2. ASSUME NEW e \in Node, NEW m \in Name, u.ent[e][m] # NoNode
        PROVE  /\ u.cookie[e][m] \in FIRST_COOKIE .. u.next[e] - 1
               /\ \A k \in Name : u.ent[e][k] # NoNode /\ u.cookie[e][k] = u.cookie[e][m] => k = m
    <3>1. CASE e = d
      <4>1. u.ent[e] = ent /\ u.cookie[e] = cookie /\ u.next[e] = tr.next[d] + taken
        BY <1>4, <3>1
      <4>2. /\ cookie[m] \in FIRST_COOKIE .. tr.next[d] + taken - 1
            /\ \A k \in Name : ent[k] # NoNode /\ cookie[k] = cookie[m] => k = m
        BY <2>2, <4>1
      <4>3. tr.next[d] \in Nat /\ cookie[m] \in Nat
        BY <1>0, CountersType
      <4>4. u.cookie[e][m] \in FIRST_COOKIE .. u.next[e] - 1
        BY <4>1, <4>2, <4>3 DEF FIRST_COOKIE
      <4>5. ASSUME NEW k \in Name, u.ent[e][k] # NoNode, u.cookie[e][k] = u.cookie[e][m]
            PROVE  k = m
        BY <4>1, <4>2, <4>5
      <4> QED
        BY <4>4, <4>5
    <3>2. CASE e # d
      BY <1>0, <1>4, <2>2, <3>2 DEF CookiesGood
    <3> QED
      BY <3>1, <3>2
  <2> QED
    BY <2>1, <2>2 DEF CookiesGood
<1>7. ASSUME NEW X \in SUBSET Node, NEW e \in X
      PROVE  /\ u.next[e] >= tr.next[e] /\ u.gen[e] >= tr.gen[e]
             /\ u.ent[e] # tr.ent[e] => u.gen[e] > tr.gen[e]
             /\ \A m \in Name : u.ent[e][m] # NoNode =>
                   \/ u.cookie[e][m] >= tr.next[e]
                   \/ u.ent[e][m] = tr.ent[e][m] /\ u.cookie[e][m] = tr.cookie[e][m]
  BY <1>0, <1>4, CountersType
<1> QED
  BY <1>2, <1>5, <1>6, <1>7 DEF Neat, Advances, u

\* remove_node: what is removed is counted, and the others stay as they are.
LEMMA DropNeat ==
    ASSUME NEW tr, Neat(tr), NEW cnt \in [Node -> Nat], NEW D \in SUBSET tr.live
    PROVE  LET u == Drop(tr, cnt, D)
           IN  Neat(u) /\ Advances(tr, u, u.isDir)
<1> DEFINE u == Drop(tr, cnt, D)
<1>0. IsTree(tr) /\ WellFormed(tr) /\ CookiesGood(tr) /\ Exact(tr) /\ D \in SUBSET Node
      /\ tr.live \in SUBSET Node /\ tr.isDir \in SUBSET Node
  BY DEF Neat, IsTree
<1>1. /\ u.live = tr.live \ D /\ u.isDir = tr.isDir \ D
      /\ u.nodes = tr.nodes - Cardinality(D) /\ u.dirs = tr.dirs - Cardinality(D \cap tr.isDir)
      /\ u.entries = tr.entries - Cardinality(Held(tr, D))
      /\ \A c \in Node : /\ u.ent[c] = (IF c \in D THEN NoEnts ELSE tr.ent[c])
                         /\ u.cookie[c] = (IF c \in D THEN NoCookies ELSE tr.cookie[c])
                         /\ u.next[c] = (IF c \in D THEN FIRST_COOKIE ELSE tr.next[c])
                         /\ u.gen[c] = (IF c \in D THEN 0 ELSE tr.gen[c])
  BY DEF Drop
<1>2. IsTree(u) /\ WellFormed(u)
  BY <1>0, DropWellFormed
<1> HIDE DEF u
<1>3. CookiesGood(u)
  BY <1>0, <1>1, CountersType DEF CookiesGood, NoEnts, FIRST_COOKIE
<1>4. Held(u, Node) = Held(tr, Node) \ Held(tr, D) /\ Held(tr, D) \subseteq Held(tr, Node)
  <2>1. ASSUME NEW q \in Node \X Name
        PROVE  u.ent[q[1]][q[2]] # NoNode <=> tr.ent[q[1]][q[2]] # NoNode /\ q[1] \notin D
    BY <1>1 DEF NoEnts
  <2> QED
    BY <1>0, <2>1 DEF Held
<1>5. Cardinality(Held(u, Node)) = Cardinality(Held(tr, Node)) - Cardinality(Held(tr, D))
  BY <1>4, FiniteHeld, CardinalityOfRest
<1>6. IsFiniteSet(tr.live) /\ IsFiniteSet(tr.isDir)
  BY <1>0, FS_Subset, TreeAssumption
<1>7. Cardinality(tr.live \ D) = Cardinality(tr.live) - Cardinality(D)
  BY <1>6, CardinalityOfRest
<1>8. Cardinality(tr.isDir \ D) = Cardinality(tr.isDir) - Cardinality(D \cap tr.isDir)
  <2>1. tr.isDir \ D = tr.isDir \ (D \cap tr.isDir)
    OBVIOUS
  <2> QED
    BY <1>6, <2>1, CardinalityOfRest
<1>9. Exact(u)
  BY <1>0, <1>1, <1>5, <1>7, <1>8 DEF Exact
<1>10. Advances(tr, u, u.isDir)
  BY <1>0, <1>1, CountersType DEF Advances
<1> QED
  BY <1>2, <1>3, <1>9, <1>10 DEF Neat, u

\* upsert_node
LEMMA UpsertNodeNeat ==
    ASSUME NEW tr, Neat(tr), NEW k \in Node, NEW dir \in BOOLEAN, NEW p \in Node
    PROVE  LET u == UpsertNode(tr, k, dir, p)
           IN  Neat(u) /\ k \in u.live /\ \A X \in SUBSET Node : Advances(tr, u, X)
<1> DEFINE isDir == IF dir THEN tr.isDir \cup {k} ELSE tr.isDir
           parent == [tr.parent EXCEPT ![k] = p]
<1>0. IsTree(tr) /\ WellFormed(tr)
  BY DEF Neat
<1>1. /\ tr.live \cup {k} \in SUBSET Node /\ isDir \in SUBSET (tr.live \cup {k})
      /\ tr.complete \in SUBSET isDir /\ tr.isDir \subseteq isDir
      /\ tr.links \in [Node -> Nat] /\ parent \in [Node -> Node]
      /\ \A n \in Node \ (tr.live \cup {k}) : tr.links[n] = 0
  BY <1>0 DEF IsTree, WellFormed
<1>2. /\ UpsertNode(tr, k, dir, p) = WithNodes(tr, tr.live \cup {k}, isDir, tr.complete, tr.links, parent)
      /\ UpsertNode(tr, k, dir, p).live = tr.live \cup {k}
  BY DEF UpsertNode, WithNodes
<1> HIDE DEF isDir, parent
<1> QED
  BY <1>1, <1>2, WithNodesNeat

\* New links and parents: link_inc, and the parent of a relinked node.
LEMMA SetFieldsNeat ==
    ASSUME NEW tr, Neat(tr), NEW complete \in SUBSET tr.isDir,
           NEW links \in [Node -> Nat], NEW parent \in [Node -> Node],
           \A n \in Node \ tr.live : links[n] = 0
    PROVE  LET u == WithNodes(tr, tr.live, tr.isDir, complete, links, parent)
           IN  Neat(u) /\ u.isDir = tr.isDir /\ \A X \in SUBSET Node : Advances(tr, u, X)
<1>1. tr.live \in SUBSET Node /\ tr.isDir \in SUBSET tr.live
  BY DEF Neat, IsTree, WellFormed
<1>2. WithNodes(tr, tr.live, tr.isDir, complete, links, parent).isDir = tr.isDir
  BY DEF WithNodes
<1> QED
  BY <1>1, <1>2, WithNodesNeat

\* mark_dir_complete
LEMMA MarkDirCompleteNeat ==
    ASSUME NEW tr, Neat(tr), NEW k \in Node
    PROVE  LET u == MarkDirComplete(tr, k)
           IN  Neat(u) /\ u.live = tr.live /\ \A X \in SUBSET Node : Advances(tr, u, X)
<1> DEFINE complete == tr.complete \cup ({k} \cap tr.isDir)
<1>1. /\ complete \in SUBSET tr.isDir /\ tr.links \in [Node -> Nat] /\ tr.parent \in [Node -> Node]
      /\ \A n \in Node \ tr.live : tr.links[n] = 0
  BY DEF Neat, IsTree, WellFormed
<1>2. /\ MarkDirComplete(tr, k) = WithNodes(tr, tr.live, tr.isDir, complete, tr.links, tr.parent)
      /\ MarkDirComplete(tr, k).live = tr.live
  BY DEF MarkDirComplete, WithNodes
<1> HIDE DEF complete
<1> QED
  BY <1>1, <1>2, SetFieldsNeat

\* The dentries of a tree in which one entry of one directory is different.
LEMMA PointHeld ==
    ASSUME NEW tr, IsTree(tr), NEW u, NEW d \in Node, NEW m \in Name, NEW n \in Node \cup {NoNode},
           u.ent = [tr.ent EXCEPT ![d] = [tr.ent[d] EXCEPT ![m] = n]]
    PROVE  /\ Held(u, Node) = IF n = NoNode THEN Held(tr, Node) \ {<<d, m>>}
                              ELSE Held(tr, Node) \cup {<<d, m>>}
           /\ <<d, m>> \in Held(tr, Node) <=> tr.ent[d][m] # NoNode
<1>1. ASSUME NEW e \in Node, NEW k \in Name
      PROVE  u.ent[e][k] = IF e = d /\ k = m THEN n ELSE tr.ent[e][k]
  BY DEF IsTree
<1>2. ASSUME NEW q \in Node \X Name
      PROVE  u.ent[q[1]][q[2]] = IF q = <<d, m>> THEN n ELSE tr.ent[q[1]][q[2]]
  BY <1>1
<1> QED
  BY <1>2 DEF Held

\* DirState::upsert
LEMMA DirUpsertNeat ==
    ASSUME NEW tr, Neat(tr), NEW d \in tr.isDir, NEW m \in Name, NEW n \in Node
    PROVE  LET u == DirUpsert(tr, d, m, n)
           IN  /\ Neat(u) /\ u.live = tr.live /\ u.links = tr.links /\ u.isDir = tr.isDir
               /\ \A X \in SUBSET Node : Advances(tr, u, X)
<1>0. IsTree(tr) /\ WellFormed(tr) /\ CookiesGood(tr) /\ d \in Node
  BY DEF Neat, IsTree
<1>1. CASE tr.ent[d][m] = n
  BY <1>0, <1>1, AdvancesReflexive DEF DirUpsert
<1>2. CASE tr.ent[d][m] # n
  <2> DEFINE ent == [tr.ent[d] EXCEPT ![m] = n]
             cookie == [tr.cookie[d] EXCEPT ![m] = tr.next[d]]
             delta == IF tr.ent[d][m] = NoNode THEN 1 ELSE 0
             u == WithDir(tr, d, ent, cookie, 1, 1, delta)
  <2>1. /\ tr.next[d] \in Nat /\ tr.ent[d] \in [Name -> Node \cup {NoNode}]
        /\ tr.cookie[d] \in [Name -> Nat] /\ \A k \in Name : tr.cookie[d][k] \in Nat
    BY <1>0, CountersType
  <2>2. /\ DirUpsert(tr, d, m, n) = u
        /\ u.live = tr.live /\ u.links = tr.links /\ u.isDir = tr.isDir
        /\ u.ent = [tr.ent EXCEPT ![d] = ent]
    BY <1>2 DEF DirUpsert, WithDir
  <2>3. ent \in [Name -> Node \cup {NoNode}] /\ cookie \in [Name -> Nat] /\ delta \in Int
    BY <2>1
  <2>4. ASSUME NEW k \in Name, ent[k] # NoNode
        PROVE  /\ cookie[k] \in FIRST_COOKIE .. tr.next[d] + 1 - 1
               /\ \A j \in Name : ent[j] # NoNode /\ cookie[j] = cookie[k] => j = k
               /\ \/ cookie[k] >= tr.next[d]
                  \/ ent[k] = tr.ent[d][k] /\ cookie[k] = tr.cookie[d][k]
    <3>1. \A j \in Name : /\ ent[j] = (IF j = m THEN n ELSE tr.ent[d][j])
                          /\ cookie[j] = (IF j = m THEN tr.next[d] ELSE tr.cookie[d][j])
      BY <2>1
    <3>2. /\ tr.next[d] >= FIRST_COOKIE
          /\ \A j \in Name : tr.ent[d][j] # NoNode =>
                /\ tr.cookie[d][j] >= FIRST_COOKIE /\ tr.cookie[d][j] < tr.next[d]
                /\ \A i \in Name : tr.ent[d][i] # NoNode /\ tr.cookie[d][i] = tr.cookie[d][j] => i = j
      BY <1>0, <2>1 DEF CookiesGood, FIRST_COOKIE
    <3> HIDE DEF ent, cookie
    <3> QED
      BY <2>1, <2>4, <3>1, <3>2 DEF FIRST_COOKIE
  <2>5. Cardinality(Held(u, Node)) = Cardinality(Held(tr, Node)) + delta
    <3>1. NoNode # n
      BY TreeAssumption
    <3>2. /\ Held(u, Node) = Held(tr, Node) \cup {<<d, m>>}
          /\ <<d, m>> \in Held(tr, Node) <=> tr.ent[d][m] # NoNode
      BY <1>0, <2>2, <3>1, PointHeld
    <3>3. IsFiniteSet(Held(tr, Node)) /\ Cardinality(Held(tr, Node)) \in Nat
      BY FiniteHeld
    <3> QED
      BY <3>2, <3>3, FS_AddElement
  <2>6. 1 \in Nat /\ (ent # tr.ent[d] => 1 > 0)
    OBVIOUS
  <2>7. Neat(u) /\ \A X \in SUBSET Node : Advances(tr, u, X)
    <3> HIDE DEF ent, cookie, delta
    <3> QED
      BY <2>3, <2>4, <2>5, <2>6, WithDirNeat
  <2> QED
    BY <2>2, <2>7
<1> QED
  BY <1>1, <1>2

\* DirState::remove
LEMMA DirRemoveNeat ==
    ASSUME NEW tr, Neat(tr), NEW d \in tr.isDir, NEW m \in Name, tr.ent[d][m] # NoNode
    PROVE  LET u == DirRemove(tr, d, m)
           IN  Neat(u) /\ u.isDir = tr.isDir /\ \A X \in SUBSET Node : Advances(tr, u, X)
<1> DEFINE ent == [tr.ent[d] EXCEPT ![m] = NoNode]
           cookie == [tr.cookie[d] EXCEPT ![m] = 0]
           u == WithDir(tr, d, ent, cookie, 0, 1, -1)
<1>0. IsTree(tr) /\ WellFormed(tr) /\ CookiesGood(tr) /\ d \in Node
  BY DEF Neat, IsTree
<1>1. /\ tr.next[d] \in Nat /\ tr.ent[d] \in [Name -> Node \cup {NoNode}]
      /\ tr.cookie[d] \in [Name -> Nat] /\ \A k \in Name : tr.cookie[d][k] \in Nat
  BY <1>0, CountersType
<1>2. DirRemove(tr, d, m) = u /\ u.isDir = tr.isDir /\ u.ent = [tr.ent EXCEPT ![d] = ent]
  BY DEF DirRemove, WithDir
<1>3. ent \in [Name -> Node \cup {NoNode}] /\ cookie \in [Name -> Nat] /\ -1 \in Int
  BY <1>1
<1>4. ASSUME NEW k \in Name, ent[k] # NoNode
      PROVE  /\ cookie[k] \in FIRST_COOKIE .. tr.next[d] + 0 - 1
             /\ \A j \in Name : ent[j] # NoNode /\ cookie[j] = cookie[k] => j = k
             /\ \/ cookie[k] >= tr.next[d]
                \/ ent[k] = tr.ent[d][k] /\ cookie[k] = tr.cookie[d][k]
  <2>1. \A j \in Name : ent[j] # NoNode =>
            j # m /\ ent[j] = tr.ent[d][j] /\ cookie[j] = tr.cookie[d][j]
    BY <1>1
  <2>2. \A j \in Name : tr.ent[d][j] # NoNode =>
            /\ tr.cookie[d][j] >= FIRST_COOKIE /\ tr.cookie[d][j] < tr.next[d]
            /\ \A i \in Name : tr.ent[d][i] # NoNode /\ tr.cookie[d][i] = tr.cookie[d][j] => i = j
    BY <1>0, <1>1 DEF CookiesGood, FIRST_COOKIE
  <2> HIDE DEF ent, cookie
  <2> QED
    BY <1>1, <1>4, <2>1, <2>2 DEF FIRST_COOKIE
<1>5. Cardinality(Held(u, Node)) = Cardinality(Held(tr, Node)) + (-1)
  <2>1. /\ Held(u, Node) = Held(tr, Node) \ {<<d, m>>}
        /\ <<d, m>> \in Held(tr, Node)
    BY <1>0, <1>2, PointHeld
  <2>2. IsFiniteSet(Held(tr, Node)) /\ Cardinality(Held(tr, Node)) \in Nat
    BY FiniteHeld
  <2> QED
    BY <2>1, <2>2, FS_RemoveElement
<1>6. 0 \in Nat /\ 1 \in Nat /\ (ent # tr.ent[d] => 1 > 0)
  OBVIOUS
<1>7. Neat(u) /\ \A X \in SUBSET Node : Advances(tr, u, X)
  <2> HIDE DEF ent, cookie
  <2> QED
    BY <1>3, <1>4, <1>5, <1>6, WithDirNeat
<1> QED
  BY <1>2, <1>7

\* link_dec and force_remove
LEMMA RemovalsNeat ==
    ASSUME NEW tr, Neat(tr), NEW k
    PROVE  /\ Neat(LinkDec(tr, k)) /\ Advances(tr, LinkDec(tr, k), LinkDec(tr, k).isDir)
           /\ Neat(ForceRemove(tr, k)) /\ Advances(tr, ForceRemove(tr, k), ForceRemove(tr, k).isDir)
<1>1. OneDrop(k) \in [Node -> Nat] /\ NoDrops \in [Node -> Nat]
  BY DEF OneDrop, NoDrops
<1>2. /\ Doomed(tr, OneDrop(k), {}) \in SUBSET tr.live
      /\ Doomed(tr, NoDrops, {k}) \in SUBSET tr.live
  BY DEF Doomed
<1> QED
  BY <1>1, <1>2, DropNeat DEF LinkDec, ForceRemove

\* What an operator makes of a neat tree: a neat one, whose directories advanced.
Tidies(tr, u) == Neat(u) /\ Advances(tr, u, u.isDir)

\* Nothing is tidier than a neat tree itself.
LEMMA TidiesReflexive ==
    ASSUME NEW tr, Neat(tr)
    PROVE  Tidies(tr, tr)
BY AdvancesReflexive DEF Tidies, Neat, IsTree

\* A step that advances every table, then one that may drop some.
LEMMA TidiesAfter ==
    ASSUME NEW tr, NEW u, NEW v, Neat(tr), Neat(u),
           \A X \in SUBSET Node : Advances(tr, u, X), Tidies(u, v)
    PROVE  Tidies(tr, v)
<1>1. IsTree(tr) /\ IsTree(u) /\ IsTree(v) /\ v.isDir \in SUBSET Node
  BY DEF Tidies, Neat, IsTree
<1> QED
  BY <1>1, AdvancesTransitive DEF Tidies

\* link_dec as the last step of an operator.
LEMMA LinkDecTidies ==
    ASSUME NEW tr, NEW u, Neat(tr), Neat(u),
           \A X \in SUBSET Node : Advances(tr, u, X), NEW k
    PROVE  Tidies(tr, LinkDec(u, k))
BY RemovalsNeat, TidiesAfter DEF Tidies

\* link_inc
LEMMA LinkIncNeat ==
    ASSUME NEW tr, Neat(tr), NEW k \in Node
    PROVE  LET u == LinkInc(tr, k)
           IN  Neat(u) /\ u.isDir = tr.isDir /\ \A X \in SUBSET Node : Advances(tr, u, X)
<1> DEFINE links == [tr.links EXCEPT ![k] = @ + 1]
<1>0. IsTree(tr) /\ WellFormed(tr)
  BY DEF Neat
<1>1. CASE k \in tr.live
  <2>1. /\ tr.complete \in SUBSET tr.isDir /\ links \in [Node -> Nat]
        /\ tr.parent \in [Node -> Node] /\ \A n \in Node \ tr.live : links[n] = 0
    BY <1>0, <1>1 DEF IsTree, WellFormed
  <2>2. LinkInc(tr, k) = WithNodes(tr, tr.live, tr.isDir, tr.complete, links, tr.parent)
    BY <1>1 DEF LinkInc, SetLinks
  <2> HIDE DEF links
  <2> DEFINE u == WithNodes(tr, tr.live, tr.isDir, tr.complete, links, tr.parent)
  <2>3. Neat(u) /\ u.isDir = tr.isDir /\ \A X \in SUBSET Node : Advances(tr, u, X)
    BY <2>1, SetFieldsNeat
  <2> QED
    BY <2>2, <2>3
<1>2. CASE k \notin tr.live
  BY <1>0, <1>2, AdvancesReflexive DEF LinkInc
<1> QED
  BY <1>1, <1>2

\* dentry_set
LEMMA DentrySetNeat ==
    ASSUME NEW tr, Neat(tr), NEW p \in Node, NEW m \in Name, NEW n \in Node
    PROVE  Tidies(tr, DentrySet(tr, p, m, n))
<1> DEFINE a == DirUpsert(tr, p, m, n)
           u == LinkInc(a, n)
<1>1. CASE p \notin tr.isDir \/ tr.ent[p][m] = n
  BY <1>1, TidiesReflexive DEF DentrySet
<1>2. CASE p \in tr.isDir /\ tr.ent[p][m] # n
  <2>1. Neat(a) /\ \A X \in SUBSET Node : Advances(tr, a, X)
    BY <1>2, DirUpsertNeat
  <2>2. DentrySet(tr, p, m, n) = IF tr.ent[p][m] = NoNode THEN u ELSE LinkDec(u, tr.ent[p][m])
    BY <1>2 DEF DentrySet
  <2> HIDE DEF a
  <2>3. Neat(u) /\ \A X \in SUBSET Node : Advances(a, u, X)
    BY <2>1, LinkIncNeat
  <2>4. IsTree(tr) /\ IsTree(a) /\ IsTree(u)
    BY <2>1, <2>3 DEF Neat
  <2> HIDE DEF u
  <2>5. \A X \in SUBSET Node : Advances(tr, u, X)
    BY <2>1, <2>3, <2>4, AdvancesTransitive
  <2>6. Tidies(tr, u)
    BY <2>3, <2>4, <2>5 DEF Tidies, IsTree
  <2>7. Tidies(tr, LinkDec(u, tr.ent[p][m]))
    BY <2>3, <2>5, LinkDecTidies
  <2> QED
    BY <2>2, <2>6, <2>7
<1> QED
  BY <1>1, <1>2

\* dentry_remove
LEMMA DentryRemoveNeat ==
    ASSUME NEW tr, Neat(tr), NEW p \in Node, NEW m \in Name
    PROVE  Tidies(tr, DentryRemove(tr, p, m))
<1>1. CASE Find(tr, p, m) = NoNode
  BY <1>1, TidiesReflexive DEF DentryRemove
<1>2. CASE Find(tr, p, m) # NoNode
  <2>1. p \in tr.isDir /\ tr.ent[p][m] # NoNode
    BY <1>2 DEF Find
  <2>2. Neat(DirRemove(tr, p, m)) /\ \A X \in SUBSET Node : Advances(tr, DirRemove(tr, p, m), X)
    BY <2>1, DirRemoveNeat
  <2>3. Tidies(tr, LinkDec(DirRemove(tr, p, m), tr.ent[p][m]))
    BY <2>2, LinkDecTidies
  <2> QED
    BY <1>2, <2>3 DEF DentryRemove
<1> QED
  BY <1>1, <1>2

\* dentry_relink
LEMMA DentryRelinkNeat ==
    ASSUME NEW tr, Neat(tr), NEW p \in Node, NEW m \in Name, NEW n \in Node
    PROVE  Tidies(tr, DentryRelink(tr, p, m, n))
<1> DEFINE u == DirUpsert(tr, p, m, n)
           v == IF tr.ent[p][m] \in {NoNode, n} THEN u ELSE LinkDec(u, tr.ent[p][m])
           w == IF n \in v.live THEN SetParent(v, n, p) ELSE v
<1>1. CASE p \notin tr.isDir
  BY <1>1, TidiesReflexive DEF DentryRelink
<1>2. CASE p \in tr.isDir
  <2>1. Neat(u) /\ \A X \in SUBSET Node : Advances(tr, u, X)
    BY <1>2, DirUpsertNeat
  <2>2. DentryRelink(tr, p, m, n) = w
    BY <1>2 DEF DentryRelink
  <2> HIDE DEF u
  <2>3. Tidies(tr, v)
    <3>1. Tidies(tr, LinkDec(u, tr.ent[p][m]))
      BY <2>1, LinkDecTidies
    <3>2. Tidies(tr, u)
      BY <2>1, TidiesReflexive, TidiesAfter
    <3> QED
      BY <3>1, <3>2
  <2> HIDE DEF v
  <2>4. Neat(v) /\ IsTree(v) /\ WellFormed(v) /\ IsTree(tr)
    BY <2>3 DEF Tidies, Neat
  <2>5. Neat(w) /\ w.isDir = v.isDir /\ Advances(v, w, v.isDir)
    <3>1. CASE n \in v.live
      <4> DEFINE parent == [v.parent EXCEPT ![n] = p]
      <4>1. /\ v.complete \in SUBSET v.isDir /\ v.links \in [Node -> Nat]
            /\ parent \in [Node -> Node] /\ \A c \in Node \ v.live : v.links[c] = 0
            /\ v.isDir \in SUBSET Node
        BY <2>4 DEF IsTree, WellFormed
      <4>2. w = WithNodes(v, v.live, v.isDir, v.complete, v.links, parent)
        BY <3>1 DEF SetParent
      <4> HIDE DEF parent, w
      <4> QED
        BY <2>4, <4>1, <4>2, SetFieldsNeat
    <3>2. CASE n \notin v.live
      BY <2>4, <3>2, AdvancesReflexive DEF IsTree
    <3> QED
      BY <3>1, <3>2
  <2> HIDE DEF w
  <2>6. Advances(tr, w, v.isDir)
    BY <2>3, <2>4, <2>5, AdvancesTransitive DEF Tidies, Neat, IsTree
  <2> QED
    BY <2>2, <2>5, <2>6 DEF Tidies
<1> QED
  BY <1>1, <1>2

\* A rename: dentry_take, then dentry_relink.
LEMMA DentryMoveNeat ==
    ASSUME NEW tr, Neat(tr), NEW fp \in Node, NEW fm \in Name, NEW tp \in Node, NEW tm \in Name
    PROVE  Tidies(tr, DentryMove(tr, fp, fm, tp, tm))
<1>1. CASE Find(tr, fp, fm) = NoNode
  BY <1>1, TidiesReflexive DEF DentryMove
<1>2. CASE Find(tr, fp, fm) # NoNode
  <2> DEFINE u == DirRemove(tr, fp, fm)
             n == tr.ent[fp][fm]
  <2>1. fp \in tr.isDir /\ n # NoNode /\ Find(tr, fp, fm) = n
    BY <1>2 DEF Find
  <2>2. n \in Node
    BY <2>1 DEF Neat, IsTree
  <2>3. Neat(u) /\ \A X \in SUBSET Node : Advances(tr, u, X)
    BY <2>1, DirRemoveNeat
  <2>4. DentryMove(tr, fp, fm, tp, tm) = DentryRelink(u, tp, tm, n)
    BY <1>2, <2>1 DEF DentryMove
  <2> HIDE DEF u, n
  <2>5. Tidies(u, DentryRelink(u, tp, tm, n))
    BY <2>2, <2>3, DentryRelinkNeat
  <2> QED
    BY <2>3, <2>4, <2>5, TidiesAfter
<1> QED
  BY <1>1, <1>2

\* The nodes of a snapshot record.
LEMMA SnapNodesNeat ==
    ASSUME NEW tr, Neat(tr), NEW d \in Node, NEW p \in Node,
           NEW S \in SUBSET Name, NEW f \in [S -> Node]
    PROVE  LET u == SnapNodes(tr, d, p, f)
           IN  /\ Neat(u) /\ d \in u.isDir /\ \A m \in S : f[m] \in u.live
               /\ \A X \in SUBSET Node : Advances(tr, u, X)
<1> DEFINE u == UpsertNode(tr, d, TRUE, p)
           new == {f[m] : m \in DOMAIN f}
           live == u.live \cup new
           isDir == u.isDir \cup (new \cap DirNode)
           parent == [n \in Node |-> IF n \in new THEN d ELSE u.parent[n]]
           v == WithNodes(u, live, isDir, u.complete, u.links, parent)
<1>1. Neat(u) /\ \A X \in SUBSET Node : Advances(tr, u, X)
  BY UpsertNodeNeat
<1>2. d \in u.isDir
  BY DEF UpsertNode, WithNodes
<1> HIDE DEF u
<1>3. new \in SUBSET Node /\ \A m \in S : f[m] \in new
  OBVIOUS
<1> HIDE DEF new
<1>4. /\ live \in SUBSET Node /\ isDir \in SUBSET live /\ u.complete \in SUBSET isDir
      /\ u.links \in [Node -> Nat] /\ parent \in [Node -> Node]
      /\ u.live \subseteq live /\ u.isDir \subseteq isDir
      /\ \A n \in Node \ live : u.links[n] = 0
  BY <1>1, <1>3 DEF Neat, IsTree, WellFormed
<1>5. v.live = live /\ v.isDir = isDir
  BY DEF WithNodes
<1>6. d \in v.isDir /\ \A m \in S : f[m] \in v.live
  BY <1>2, <1>3, <1>5
<1> HIDE DEF live, isDir, parent
<1>7. Neat(v) /\ \A X \in SUBSET Node : Advances(u, v, X)
  BY <1>1, <1>4, WithNodesNeat
<1>8. SnapNodes(tr, d, p, f) = v
  BY DEF SnapNodes, u, new, live, isDir, parent
<1> HIDE DEF v
<1>9. IsTree(tr) /\ IsTree(u) /\ IsTree(v)
  BY <1>1, <1>7 DEF Neat
<1>10. \A X \in SUBSET Node : Advances(tr, v, X)
  BY <1>1, <1>7, <1>9, AdvancesTransitive
<1> QED
  BY <1>6, <1>7, <1>8, <1>10

\* A record lists every name in S once, in the order ord.
Lists(ord, S) ==
    /\ DOMAIN ord \subseteq Int
    /\ S = {ord[i] : i \in DOMAIN ord}
    /\ \A i, j \in DOMAIN ord : ord[i] = ord[j] => i = j

\* The changed entries of a record are numbered in order: the number of a name
\* is the count of those before it.
LEMMA BeforeCounts ==
    ASSUME NEW tr, NEW d, NEW S \in SUBSET Name, NEW f \in [S -> Node], NEW ord, Lists(ord, S)
    PROVE  LET new == Changed(tr, d, f)
               no(m) == Cardinality(Before(tr, d, f, ord, m))
           IN  /\ new \in SUBSET S /\ IsFiniteSet(new) /\ Cardinality(new) \in Nat
               /\ \A m \in Name : no(m) \in Nat
               /\ \A m \in new : no(m) < Cardinality(new)
               /\ \A m, k \in new : no(m) = no(k) => m = k
<1> DEFINE new == Changed(tr, d, f)
           B(m) == Before(tr, d, f, ord, m)
<1>1. new \in SUBSET S
  BY DEF Changed
<1>2. IsFiniteSet(new) /\ Cardinality(new) \in Nat
  BY <1>1, FS_Subset, FS_CardinalityType, TreeAssumption
<1>3. ASSUME NEW m PROVE /\ B(m) \in SUBSET new /\ IsFiniteSet(B(m)) /\ Cardinality(B(m)) \in Nat
  BY <1>2, FS_Subset, FS_CardinalityType DEF Before
<1>4. ASSUME NEW m \in new PROVE m \notin B(m)
  <2> SUFFICES ASSUME m \in B(m) PROVE FALSE
    OBVIOUS
  <2>1. PICK i \in DOMAIN ord, j \in DOMAIN ord : i < j /\ ord[i] = m /\ ord[j] = m
    BY DEF Before
  <2>2. i = j /\ i \in Int
    BY <2>1 DEF Lists
  <2> QED
    BY <2>1, <2>2
<1>5. ASSUME NEW m \in new PROVE Cardinality(B(m)) < Cardinality(new)
  <2>1. B(m) \in SUBSET new /\ B(m) # new /\ Cardinality(B(m)) \in Nat
    BY <1>3, <1>4
  <2> HIDE DEF B
  <2> QED
    BY <1>2, <2>1, FS_Subset
<1>6. ASSUME NEW i \in DOMAIN ord, NEW j \in DOMAIN ord, i < j, ord[i] \in new
      PROVE  Cardinality(B(ord[i])) < Cardinality(B(ord[j]))
  <2>1. ord[i] \in B(ord[j])
    BY <1>6 DEF Before
  <2>2. ASSUME NEW x \in B(ord[i]) PROVE x \in B(ord[j])
    <3>1. PICK a \in DOMAIN ord, b \in DOMAIN ord : a < b /\ ord[a] = x /\ ord[b] = ord[i]
      BY <2>2 DEF Before
    <3>2. b = i /\ a \in Int /\ i \in Int /\ j \in Int
      BY <3>1 DEF Lists
    <3>3. a < j
      BY <1>6, <3>1, <3>2
    <3>4. x \in new
      BY <1>3, <2>2
    <3> QED
      BY <3>1, <3>3, <3>4 DEF Before
  <2>3. B(ord[i]) \in SUBSET B(ord[j]) /\ B(ord[i]) # B(ord[j])
    BY <1>4, <1>6, <2>1, <2>2
  <2>4. /\ IsFiniteSet(B(ord[j]))
        /\ Cardinality(B(ord[i])) \in Nat /\ Cardinality(B(ord[j])) \in Nat
    BY <1>3
  <2> HIDE DEF B
  <2> QED
    BY <2>3, <2>4, FS_Subset
<1>7. ASSUME NEW m \in new, NEW k \in new, Cardinality(B(m)) = Cardinality(B(k))
      PROVE  m = k
  <2>1. PICK i \in DOMAIN ord : m = ord[i]
    BY <1>1 DEF Lists
  <2>2. PICK j \in DOMAIN ord : k = ord[j]
    BY <1>1 DEF Lists
  <2>3. i \in Int /\ j \in Int
    BY DEF Lists
  <2>4. Cardinality(B(m)) \in Nat /\ Cardinality(B(k)) \in Nat
    BY <1>3
  <2>5. ~ (i < j) /\ ~ (j < i)
    <3>1. i < j => Cardinality(B(m)) < Cardinality(B(k))
      BY <1>6, <2>1, <2>2
    <3>2. j < i => Cardinality(B(k)) < Cardinality(B(m))
      BY <1>6, <2>1, <2>2
    <3> HIDE DEF B
    <3> QED
      BY <1>7, <2>4, <3>1, <3>2
  <2> QED
    BY <2>1, <2>2, <2>3, <2>5
<1> QED
  BY <1>1, <1>2, <1>3, <1>5, <1>7

\* The dentries after a record: those there were and those of its new names.
LEMMA SnapHeld ==
    ASSUME NEW tr, IsTree(tr), NEW u, NEW d \in Node, NEW S \in SUBSET Name, NEW f \in [S -> Node],
           u.ent = [tr.ent EXCEPT ![d] =
                      [m \in Name |-> IF m \in Changed(tr, d, f) THEN f[m] ELSE tr.ent[d][m]]]
    PROVE  Cardinality(Held(u, Node)) =
             Cardinality(Held(tr, Node))
               + Cardinality({m \in Changed(tr, d, f) : tr.ent[d][m] = NoNode})
<1> DEFINE fresh == {m \in Changed(tr, d, f) : tr.ent[d][m] = NoNode}
           P == {d} \X fresh
<1>1. Changed(tr, d, f) \in SUBSET S /\ \A m \in S : f[m] # NoNode
  BY TreeAssumption DEF Changed
<1>2. ASSUME NEW e \in Node, NEW m \in Name
      PROVE  u.ent[e][m] = IF e = d /\ m \in Changed(tr, d, f) THEN f[m] ELSE tr.ent[e][m]
  BY DEF IsTree
<1>3. ASSUME NEW q \in Node \X Name
      PROVE  /\ q \in Held(u, Node) <=> q \in Held(tr, Node) \/ q \in P
             /\ ~ (q \in Held(tr, Node) /\ q \in P)
  <2>1. u.ent[q[1]][q[2]] =
          IF q[1] = d /\ q[2] \in Changed(tr, d, f) THEN f[q[2]] ELSE tr.ent[q[1]][q[2]]
    BY <1>2
  <2>2. q \in P <=> q[1] = d /\ q[2] \in fresh
    OBVIOUS
  <2> QED
    BY <1>1, <2>1, <2>2 DEF Held
<1>4. /\ Held(u, Node) \in SUBSET (Node \X Name) /\ Held(tr, Node) \in SUBSET (Node \X Name)
      /\ P \in SUBSET (Node \X Name)
  BY <1>1 DEF Held
<1>5. Held(u, Node) = Held(tr, Node) \cup P /\ Held(tr, Node) \cap P = {}
  BY <1>3, <1>4
<1>6. IsFiniteSet(fresh) /\ Cardinality(fresh) \in Nat
  BY <1>1, FS_Subset, FS_CardinalityType, TreeAssumption
<1>7. IsFiniteSet({d}) /\ Cardinality({d}) = 1
  BY FS_Singleton
<1> HIDE DEF fresh
<1>8. IsFiniteSet(P) /\ Cardinality(P) = 1 * Cardinality(fresh)
  BY <1>6, <1>7, FS_Product
<1> HIDE DEF P
<1>9. IsFiniteSet(Held(tr, Node)) /\ Cardinality(Held(tr, Node)) \in Nat
  BY FiniteHeld
<1>10. Cardinality(Held(u, Node)) = Cardinality(Held(tr, Node)) + Cardinality(P) - Cardinality({})
  BY <1>5, <1>8, <1>9, FS_Union
<1>11. Cardinality({}) = 0
  BY FS_EmptySet
<1> QED
  BY <1>6, <1>8, <1>9, <1>10, <1>11 DEF fresh

\* The entries of a snapshot record, before the links it replaces are dropped.
LEMMA SnapEntsNeat ==
    ASSUME NEW tr, Neat(tr), NEW d \in tr.isDir, NEW S \in SUBSET Name, NEW f \in [S -> Node],
           \A m \in S : f[m] \in tr.live, NEW ord, Lists(ord, S), NEW last
    PROVE  LET v == SnapEnts(tr, d, f, ord, last)
           IN  Neat(v) /\ \A X \in SUBSET Node : Advances(tr, v, X)
<1> DEFINE new == Changed(tr, d, f)
           no(m) == Cardinality(Before(tr, d, f, ord, m))
           ent == [m \in Name |-> IF m \in new THEN f[m] ELSE tr.ent[d][m]]
           ck == [m \in Name |-> IF m \in new THEN tr.next[d] + no(m) ELSE tr.cookie[d][m]]
           delta == Cardinality({m \in new : tr.ent[d][m] = NoNode})
           u == WithDir(tr, d, ent, ck, Cardinality(new), Cardinality(new), delta)
           w == IF last THEN MarkDirComplete(u, d) ELSE u
           links == [n \in Node |-> tr.links[n] + Cardinality(Gained(tr, d, f, n))]
           v == WithNodes(w, w.live, w.isDir, w.complete, links, w.parent)
<1>0. IsTree(tr) /\ WellFormed(tr) /\ CookiesGood(tr) /\ d \in Node
  BY DEF Neat, IsTree
<1>1. /\ tr.next[d] \in Nat /\ tr.ent[d] \in [Name -> Node \cup {NoNode}]
      /\ tr.cookie[d] \in [Name -> Nat] /\ \A k \in Name : tr.cookie[d][k] \in Nat
  BY <1>0, CountersType
<1>2. /\ new \in SUBSET S /\ IsFiniteSet(new) /\ Cardinality(new) \in Nat
      /\ \A m \in Name : no(m) \in Nat
      /\ \A m \in new : no(m) < Cardinality(new)
      /\ \A m, k \in new : no(m) = no(k) => m = k
  BY BeforeCounts
<1>3. IsFiniteSet({m \in new : tr.ent[d][m] = NoNode}) /\ delta \in Nat
  <2>1. {m \in new : tr.ent[d][m] = NoNode} \in SUBSET new
    OBVIOUS
  <2> QED
    BY <1>2, <2>1, FS_Subset, FS_CardinalityType
<1>4. u.ent = [tr.ent EXCEPT ![d] = ent] /\ u.live = tr.live
  BY DEF WithDir
<1>5. Cardinality(Held(u, Node)) = Cardinality(Held(tr, Node)) + delta
  <2> HIDE DEF u, ck, no
  <2> QED
    BY <1>0, <1>4, SnapHeld
<1>6. ent # tr.ent[d] => Cardinality(new) > 0
  <2>1. CASE new = {}
    BY <1>1, <2>1
  <2>2. CASE new # {}
    BY <1>2, <2>2, FS_EmptySet
  <2> QED
    BY <2>1, <2>2
<1>7. \A m \in Name : m \in new => f[m] \in Node
  BY <1>2
<1>8. SnapEnts(tr, d, f, ord, last) = v
  <2>1. SnapEnts(tr, d, f, ord, last) = SetLinks(w, links)
    BY DEF SnapEnts
  <2> QED
    BY <2>1 DEF SetLinks
<1>9. \A n \in Node : /\ Cardinality(Gained(tr, d, f, n)) \in Nat
                      /\ n \notin tr.live => Cardinality(Gained(tr, d, f, n)) = 0
  <2> SUFFICES ASSUME NEW n \in Node
               PROVE  /\ Cardinality(Gained(tr, d, f, n)) \in Nat
                      /\ n \notin tr.live => Cardinality(Gained(tr, d, f, n)) = 0
    OBVIOUS
  <2>1. Gained(tr, d, f, n) \in SUBSET (Node \X Name)
    BY <1>0, <1>2 DEF Gained
  <2>2. IsFiniteSet(Node \X Name)
    BY FS_Product, TreeAssumption
  <2>3. Cardinality(Gained(tr, d, f, n)) \in Nat
    BY <2>1, <2>2, FS_Subset, FS_CardinalityType
  <2>4. n \notin tr.live => Gained(tr, d, f, n) = {}
    <3>1. \A q \in Gained(tr, d, f, n) : q[2] \in new /\ f[q[2]] = n
      BY DEF Gained
    <3> QED
      BY <1>2, <3>1
  <2> QED
    BY <2>3, <2>4, FS_EmptySet
<1> HIDE DEF new, no
<1>10. /\ \A m \in Name : /\ ent[m] = (IF m \in new THEN f[m] ELSE tr.ent[d][m])
                          /\ ck[m] = (IF m \in new THEN tr.next[d] + no(m) ELSE tr.cookie[d][m])
       /\ ent \in [Name -> Node \cup {NoNode}] /\ ck \in [Name -> Nat]
  BY <1>1, <1>2, <1>7
<1>11. /\ tr.next[d] >= FIRST_COOKIE
       /\ \A j \in Name : tr.ent[d][j] # NoNode =>
             /\ tr.cookie[d][j] >= FIRST_COOKIE /\ tr.cookie[d][j] < tr.next[d]
             /\ \A i \in Name : tr.ent[d][i] # NoNode /\ tr.cookie[d][i] = tr.cookie[d][j] => i = j
  BY <1>0, <1>1 DEF CookiesGood, FIRST_COOKIE
<1> HIDE DEF ent, ck, delta
<1>12. ASSUME NEW m \in Name, ent[m] # NoNode
       PROVE  /\ ck[m] \in FIRST_COOKIE .. tr.next[d] + Cardinality(new) - 1
              /\ \A k \in Name : ent[k] # NoNode /\ ck[k] = ck[m] => k = m
              /\ \/ ck[m] >= tr.next[d]
                 \/ ent[m] = tr.ent[d][m] /\ ck[m] = tr.cookie[d][m]
  <2>1. ck[m] >= FIRST_COOKIE /\ ck[m] < tr.next[d] + Cardinality(new) /\ ck[m] \in Nat
    BY <1>1, <1>2, <1>10, <1>11, <1>12 DEF FIRST_COOKIE
  <2>2. ck[m] \in FIRST_COOKIE .. tr.next[d] + Cardinality(new) - 1
    BY <1>1, <1>2, <2>1 DEF FIRST_COOKIE
  <2>3. ASSUME NEW k \in Name, ent[k] # NoNode, ck[k] = ck[m] PROVE k = m
    <3>1. CASE m \in new /\ k \in new
      <4>1. tr.next[d] + no(k) = tr.next[d] + no(m) /\ no(k) \in Nat /\ no(m) \in Nat
        BY <1>2, <1>10, <2>3, <3>1
      <4>2. no(k) = no(m)
        BY <1>1, <4>1
      <4> QED
        BY <1>2, <3>1, <4>2
    <3>2. CASE m \notin new /\ k \notin new
      BY <1>10, <1>11, <1>12, <2>3, <3>2
    <3>3. CASE m \in new /\ k \notin new
      BY <1>1, <1>2, <1>10, <1>11, <2>3, <3>3
    <3>4. CASE m \notin new /\ k \in new
      BY <1>1, <1>2, <1>10, <1>11, <1>12, <2>3, <3>4
    <3> QED
      BY <3>1, <3>2, <3>3, <3>4
  <2>4. \/ ck[m] >= tr.next[d]
        \/ ent[m] = tr.ent[d][m] /\ ck[m] = tr.cookie[d][m]
    BY <1>1, <1>2, <1>10
  <2> QED
    BY <2>2, <2>3, <2>4
<1>13. Neat(u) /\ \A X \in SUBSET Node : Advances(tr, u, X)
  <2> DEFINE N == Cardinality(new)
  <2>1. N \in Nat /\ delta \in Int
    BY <1>2, <1>3
  <2>2. \A m \in Name : ent[m] # NoNode =>
          /\ ck[m] \in FIRST_COOKIE .. tr.next[d] + N - 1
          /\ \A k \in Name : ent[k] # NoNode /\ ck[k] = ck[m] => k = m
          /\ \/ ck[m] >= tr.next[d]
             \/ ent[m] = tr.ent[d][m] /\ ck[m] = tr.cookie[d][m]
    BY <1>12
  <2>3. ent # tr.ent[d] => N > 0
    BY <1>6
  <2>4. ent \in [Name -> Node \cup {NoNode}] /\ ck \in [Name -> Nat]
    BY <1>10
  <2>5. u = WithDir(tr, d, ent, ck, N, N, delta)
    OBVIOUS
  <2> HIDE DEF N
  <2> QED
    BY <1>5, <2>1, <2>2, <2>3, <2>4, <2>5, WithDirNeat
<1> HIDE DEF u
<1>14. Neat(w) /\ w.live = tr.live /\ \A X \in SUBSET Node : Advances(u, w, X)
  <2>1. CASE last
    BY <1>0, <1>4, <1>13, <2>1, MarkDirCompleteNeat
  <2>2. CASE ~ last
    BY <1>4, <1>13, <2>2, AdvancesReflexive DEF Neat
  <2> QED
    BY <2>1, <2>2
<1> HIDE DEF w
<1>15. /\ w.complete \in SUBSET w.isDir /\ links \in [Node -> Nat] /\ w.parent \in [Node -> Node]
       /\ \A n \in Node \ w.live : links[n] = 0
  <2>1. w.complete \in SUBSET w.isDir /\ w.parent \in [Node -> Node]
    BY <1>14 DEF Neat, IsTree, WellFormed
  <2>2. \A n \in Node : tr.links[n] \in Nat /\ (n \notin tr.live => tr.links[n] = 0)
    BY <1>0 DEF IsTree, WellFormed
  <2>3. \A n \in Node : links[n] = tr.links[n] + Cardinality(Gained(tr, d, f, n))
    OBVIOUS
  <2> QED
    BY <1>9, <1>14, <2>1, <2>2, <2>3
<1> HIDE DEF links
<1>16. Neat(v) /\ \A X \in SUBSET Node : Advances(w, v, X)
  BY <1>14, <1>15, SetFieldsNeat
<1> HIDE DEF v
<1>17. IsTree(u) /\ IsTree(w) /\ IsTree(v)
  BY <1>13, <1>14, <1>16 DEF Neat
<1>18. \A X \in SUBSET Node : Advances(tr, w, X)
  BY <1>0, <1>13, <1>14, <1>17, AdvancesTransitive
<1>19. \A X \in SUBSET Node : Advances(tr, v, X)
  BY <1>0, <1>16, <1>17, <1>18, AdvancesTransitive
<1> QED
  BY <1>8, <1>16, <1>19

\* apply_snap_dir
LEMMA ApplySnapDirNeat ==
    ASSUME NEW tr, Neat(tr), NEW d \in Node, NEW p \in Node,
           NEW S \in SUBSET Name, NEW f \in [S -> Node], NEW ord, Lists(ord, S), NEW last
    PROVE  Tidies(tr, ApplySnapDir(tr, d, p, f, ord, last))
<1> DEFINE u == SnapNodes(tr, d, p, f)
           v == SnapEnts(u, d, f, ord, last)
           cnt == [n \in Node |-> Cardinality(Lost(u, d, f, n))]
<1>1. /\ Neat(u) /\ d \in u.isDir /\ \A m \in S : f[m] \in u.live
      /\ \A X \in SUBSET Node : Advances(tr, u, X)
  BY SnapNodesNeat
<1>2. ApplySnapDir(tr, d, p, f, ord, last) = Drop(v, cnt, Doomed(v, cnt, {}))
  BY DEF ApplySnapDir
<1> HIDE DEF u
<1>3. Neat(v) /\ \A X \in SUBSET Node : Advances(u, v, X)
  BY <1>1, SnapEntsNeat
<1>4. cnt \in [Node -> Nat]
  <2>1. ASSUME NEW n \in Node PROVE Cardinality(Lost(u, d, f, n)) \in Nat
    <3>1. Lost(u, d, f, n) \in SUBSET (Node \X Name)
      BY DEF Lost, Changed
    <3>2. IsFiniteSet(Node \X Name)
      BY FS_Product, TreeAssumption
    <3> QED
      BY <3>1, <3>2, FS_Subset, FS_CardinalityType
  <2> QED
    BY <2>1
<1>5. IsTree(tr) /\ IsTree(u) /\ IsTree(v)
  BY <1>1, <1>3 DEF Neat
<1> HIDE DEF v, cnt
<1>6. \A X \in SUBSET Node : Advances(tr, v, X)
  BY <1>1, <1>3, <1>5, AdvancesTransitive
<1>7. Doomed(v, cnt, {}) \in SUBSET v.live
  BY DEF Doomed
<1>8. Tidies(v, Drop(v, cnt, Doomed(v, cnt, {})))
  BY <1>3, <1>4, <1>7, DropNeat DEF Tidies
<1> QED
  BY <1>2, <1>3, <1>6, <1>8, TidiesAfter

\* The replica of a new share.
LEMMA NewTreeNeat == Neat(NewTree)
<1>1. IsTree(NewTree) /\ WellFormed(NewTree)
  BY NewTreeGood DEF Good
<1>2. \A d \in Node, m \in Name : NewTree.ent[d][m] = NoNode /\ NewTree.next[d] = FIRST_COOKIE
  BY DEF NewTree, NoEnts
<1>3. CookiesGood(NewTree)
  <2>1. \A d \in Node : NewTree.next[d] >= FIRST_COOKIE
    BY DEF NewTree, FIRST_COOKIE
  <2> QED
    BY <1>2, <2>1 DEF CookiesGood
<1>4. Held(NewTree, Node) = {}
  BY <1>2 DEF Held
<1>5. Exact(NewTree)
  BY <1>4, FS_EmptySet DEF Exact, NewTree
<1> QED
  BY <1>1, <1>3, <1>5 DEF Neat

\* finish_snapshot counts what was counted already.
LEMMA RecountNeat ==
    ASSUME NEW tr, Neat(tr)
    PROVE  Tidies(tr, Recount(tr))
<1>0. IsTree(tr) /\ WellFormed(tr) /\ CookiesGood(tr) /\ Exact(tr)
  BY DEF Neat
<1>1. Held(tr, tr.isDir) = Held(tr, Node)
  <2>1. \A d \in Node \ tr.isDir, m \in Name : tr.ent[d][m] = NoNode
    BY <1>0 DEF WellFormed, NoEnts
  <2>2. tr.isDir \in SUBSET Node
    BY <1>0 DEF IsTree
  <2> QED
    BY <2>1, <2>2 DEF Held
<1>2. /\ Recount(tr).live = tr.live /\ Recount(tr).isDir = tr.isDir
      /\ Recount(tr).complete = tr.complete /\ Recount(tr).links = tr.links
      /\ Recount(tr).parent = tr.parent /\ Recount(tr).ent = tr.ent /\ Recount(tr).cookie = tr.cookie
      /\ Recount(tr).next = tr.next /\ Recount(tr).gen = tr.gen /\ Recount(tr).nodes = tr.nodes
      /\ Recount(tr).dirs = tr.dirs /\ Recount(tr).entries = tr.entries
  BY <1>0, <1>1 DEF Recount, Exact
<1> DEFINE u == Recount(tr)
<1> HIDE DEF u
<1>3. IsTree(u) /\ WellFormed(u)
  BY <1>0, <1>2 DEF IsTree, WellFormed, u
<1>4. CookiesGood(u)
  BY <1>0, <1>2 DEF CookiesGood, u
<1>5. Exact(u)
  BY <1>0, <1>2 DEF Exact, Held, u
<1>6. Advances(tr, u, u.isDir)
  BY <1>0, <1>2, CountersType DEF Advances, IsTree, u
<1> QED
  BY <1>3, <1>4, <1>5, <1>6 DEF Tidies, Neat, u

-----------------------------------------------------------------------------
(***************************************************************************)
(* The replica.                                                            *)
(***************************************************************************)
IInv == TypeOK /\ NoPrematureRemoval

\* The parts of the invariant that are about the namespace and about the rest.
RestOK ==
    /\ state \in {"Seeding", "Live"}
    /\ stat \in [Node -> Stat \cup {NoStat, Placeholder}]
    /\ ver \in [Node -> Nat]
    /\ pend \in [Node -> Pend]
    /\ forced \in SUBSET Node
    /\ lastStat \in [Node -> Stat \cup {NoStat}]
    /\ applied \in Nat

\* The invariant says that the tree is good and the rest has its type.
LEMMA IInvParts == IInv <=> Good(t, forced) /\ RestOK
BY DEF IInv, TypeOK, NoPrematureRemoval, Good, Covered, RestOK

\* Installing a tree keeps the types of the attribute tables.
LEMMA InstallType ==
    ASSUME NEW u, NEW s \in [Node -> Stat \cup {NoStat, Placeholder}],
           NEW v \in [Node -> Nat], Install(u, s, v)
    PROVE  /\ stat' \in [Node -> Stat \cup {NoStat, Placeholder}]
           /\ ver' \in [Node -> Nat]
           /\ t' = u
BY DEF Install

\* The initial state.
LEMMA InitIInv == Init => IInv
<1> SUFFICES ASSUME Init PROVE Good(t, forced) /\ RestOK
  BY IInvParts
<1>1. Good(t, forced)
  BY NewTreeGood DEF Init
<1>2. RestOK
  BY DEF Init, RestOK, Pend, NoPend
<1> QED
  BY <1>1, <1>2

\* A snapshot record.
LEMMA SnapDirStep ==
    ASSUME Good(t, forced), RestOK, NEW d \in Node, NEW p \in Node, NEW ord \in Orders,
           NEW s \in Stat, NEW last \in BOOLEAN,
           NEW f \in [{ord[i] : i \in DOMAIN ord} -> Node \ {Root}],
           SnapDir(d, p, f, ord, s, last)
    PROVE  Good(t', forced') /\ RestOK'
<1> DEFINE S == {ord[i] : i \in DOMAIN ord}
           u == ApplySnapDir(t, d, p, f, ord, last)
           seen == {d} \cup {f[m] : m \in DOMAIN f}
           st == [n \in Node |-> IF n \in seen THEN s ELSE stat[n]]
<1>1. S \in SUBSET Name
  BY DEF Orders
<1>2. f \in [S -> Node]
  OBVIOUS
<1> HIDE DEF S
<1>3. Good(u, forced)
  BY <1>1, <1>2, ApplySnapDirGood
<1>4. st \in [Node -> Stat \cup {NoStat, Placeholder}]
  BY DEF RestOK
<1>5. Install(u, st, ver) /\ UNCHANGED <<state, pend, forced>> /\ SnapArrives
  BY DEF SnapDir
<1>6. lastStat' = [n \in Node |-> IF n \in seen THEN s ELSE lastStat[n]]
  BY DEF SnapDir
<1> HIDE DEF u, st, seen
<1>7. /\ stat' \in [Node -> Stat \cup {NoStat, Placeholder}]
      /\ ver' \in [Node -> Nat]
      /\ t' = u
  BY <1>4, <1>5, InstallType DEF RestOK
<1>8. RestOK'
  BY <1>5, <1>6, <1>7 DEF RestOK, SnapArrives
<1> QED
  BY <1>3, <1>5, <1>7, <1>8

\* The end of the snapshot.
LEMMA FinishStep ==
    ASSUME Good(t, forced), RestOK, FinishSnapshot
    PROVE  Good(t', forced') /\ RestOK'
<1>1. t' = Recount(t) /\ UNCHANGED <<stat, ver, pend, forced, lastStat>>
  BY DEF FinishSnapshot, hist
<1>2. Good(t', forced')
  BY <1>1, RecountGood
<1>3. RestOK'
  BY <1>1 DEF RestOK, FinishSnapshot
<1> QED
  BY <1>2, <1>3

\* Created, with attributes.
LEMMA CreatedStep ==
    ASSUME Good(t, forced), RestOK, NEW p \in DirNode, NEW m \in Name,
           NEW n \in Node \ {Root}, NEW s \in Stat, Created(p, m, n, s)
    PROVE  Good(t', forced') /\ RestOK'
<1> DEFINE u0 == UpsertNode(t, n, n \in DirNode, p)
           u1 == IF n \in DirNode THEN MarkDirComplete(u0, n) ELSE u0
           q == pend[n]
           s1 == IF q.stat = NoStat THEN s ELSE q.stat
           v1 == IF q.ver = 0 THEN ver[n] ELSE q.ver
<1>1. p \in Node /\ n \in Node
  BY TreeAssumption
<1>2. Good(u0, forced) /\ n \in u0.live
  <2>1. (n \in DirNode) \in BOOLEAN
    OBVIOUS
  <2> QED
    BY <1>1, <2>1, UpsertNodeGood
<1> HIDE DEF u0
<1>3. Good(u1, forced) /\ n \in u1.live
  BY <1>1, <1>2, MarkDirCompleteGood
<1> HIDE DEF u1
<1>4. Good(DentrySet(u1, p, m, n), forced)
  BY <1>1, <1>3, DentrySetGood
<1>5. q \in Pend
  BY <1>1 DEF RestOK
<1>6. s1 \in Stat \cup {NoStat} /\ v1 \in Nat
  BY <1>1, <1>5 DEF Pend, RestOK
<1>7. /\ Install(DentrySet(u1, p, m, n), [stat EXCEPT ![n] = s1], [ver EXCEPT ![n] = v1])
      /\ pend' = [pend EXCEPT ![n] = NoPend]
      /\ lastStat' = [lastStat EXCEPT ![n] = s]
      /\ UNCHANGED <<state, forced>> /\ RecArrives
  BY DEF Created, u1, u0
<1> HIDE DEF s1, v1, q
<1>8. /\ [stat EXCEPT ![n] = s1] \in [Node -> Stat \cup {NoStat, Placeholder}]
      /\ [ver EXCEPT ![n] = v1] \in [Node -> Nat]
  BY <1>6 DEF RestOK
<1>9. /\ stat' \in [Node -> Stat \cup {NoStat, Placeholder}]
      /\ ver' \in [Node -> Nat]
      /\ t' = DentrySet(u1, p, m, n)
  BY <1>7, <1>8, InstallType
<1>10. pend' \in [Node -> Pend]
  BY <1>7 DEF RestOK, Pend, NoPend
<1>11. RestOK'
  BY <1>7, <1>9, <1>10 DEF RestOK, RecArrives
<1> QED
  BY <1>4, <1>7, <1>9, <1>11

\* Created, without attributes.
LEMMA CreatedNoAttrStep ==
    ASSUME Good(t, forced), RestOK, NEW p \in DirNode, NEW m \in Name,
           NEW n \in Node \ {Root}, CreatedNoAttr(p, m, n)
    PROVE  Good(t', forced') /\ RestOK'
<1> DEFINE u1 == IF n \in t.live THEN t ELSE UpsertNode(t, n, FALSE, p)
           s1 == IF n \in t.live THEN stat[n] ELSE Placeholder
<1>1. p \in Node /\ n \in Node
  BY TreeAssumption
<1>2. Good(u1, forced) /\ n \in u1.live
  BY <1>1, UpsertNodeGood
<1>3. /\ Install(DentrySet(u1, p, m, n), [stat EXCEPT ![n] = s1], ver)
      /\ UNCHANGED <<state, pend, forced, lastStat>> /\ RecArrives
  BY DEF CreatedNoAttr, hist
<1>4. [stat EXCEPT ![n] = s1] \in [Node -> Stat \cup {NoStat, Placeholder}]
  BY <1>1 DEF RestOK
<1> HIDE DEF u1, s1
<1>5. Good(DentrySet(u1, p, m, n), forced)
  BY <1>1, <1>2, DentrySetGood
<1>6. /\ stat' \in [Node -> Stat \cup {NoStat, Placeholder}]
      /\ ver' \in [Node -> Nat]
      /\ t' = DentrySet(u1, p, m, n)
  BY <1>3, <1>4, InstallType DEF RestOK
<1>7. RestOK'
  BY <1>3, <1>6 DEF RestOK, RecArrives
<1> QED
  BY <1>3, <1>5, <1>6, <1>7

\* A record that installs a good tree and leaves every table alone.
LEMMA InstallStep ==
    ASSUME RestOK, NEW u, Good(u, forced), Install(u, stat, ver), RecArrives,
           UNCHANGED <<state, pend, hist>>
    PROVE  Good(t', forced') /\ RestOK'
<1>1. /\ stat' \in [Node -> Stat \cup {NoStat, Placeholder}]
      /\ ver' \in [Node -> Nat]
      /\ t' = u
  BY InstallType DEF RestOK
<1> QED
  BY <1>1 DEF RestOK, RecArrives, hist

\* Removed.
LEMMA RemovedStep ==
    ASSUME Good(t, forced), RestOK, NEW p \in DirNode, NEW m \in Name, Removed(p, m)
    PROVE  Good(t', forced') /\ RestOK'
<1>1. p \in Node
  BY TreeAssumption
<1>2. Good(DentryRemove(t, p, m), forced)
  BY <1>1, DentryRemoveGood
<1> QED
  BY <1>2, InstallStep DEF Removed

\* Renamed.
LEMMA RenamedStep ==
    ASSUME Good(t, forced), RestOK, NEW fp \in DirNode, NEW tp \in DirNode,
           NEW fm \in Name, NEW tm \in Name, Renamed(fp, fm, tp, tm)
    PROVE  Good(t', forced') /\ RestOK'
<1>1. fp \in Node /\ tp \in Node
  BY TreeAssumption
<1>2. Good(DentryMove(t, fp, fm, tp, tm), forced)
  BY <1>1, DentryMoveGood
<1> QED
  BY <1>2, InstallStep DEF Renamed

\* SelfRemoved: the node joins those that were taken away by force.
LEMMA SelfRemovedStep ==
    ASSUME Good(t, forced), RestOK, NEW n \in Node, SelfRemoved(n)
    PROVE  Good(t', forced') /\ RestOK'
<1>1. n \in t.live /\ forced' = forced \cup {n} /\ Install(ForceRemove(t, n), stat, ver)
  BY DEF SelfRemoved
<1>2. Good(ForceRemove(t, n), forced')
  BY <1>1, ForceRemoveGood
<1>3. /\ stat' \in [Node -> Stat \cup {NoStat, Placeholder}]
      /\ ver' \in [Node -> Nat]
      /\ t' = ForceRemove(t, n)
  BY <1>1, InstallType DEF RestOK
<1>4. RestOK'
  BY <1>1, <1>3 DEF RestOK, RecArrives, SelfRemoved
<1> QED
  BY <1>2, <1>3, <1>4

\* Stashing a record keeps the stash well typed.
LEMMA StashType ==
    ASSUME RestOK, NEW n \in Node, NEW s \in Stat, NEW v \in Nat, Stash(n, s, v)
    PROVE  pend' \in [Node -> Pend] /\ UNCHANGED <<stat, ver>>
<1> DEFINE full == Cardinality({k \in Node : pend[k] # NoPend}) >= MAX_PENDING
           kept == IF full THEN [k \in Node |-> NoPend] ELSE pend
           rec == [stat |-> s, ver |-> IF v = 0 THEN kept[n].ver ELSE v]
<1>1. kept \in [Node -> Pend]
  BY DEF RestOK, Pend, NoPend
<1>2. pend' = [kept EXCEPT ![n] = rec] /\ UNCHANGED <<stat, ver>>
  BY DEF Stash
<1> HIDE DEF kept
<1>3. rec \in Pend
  BY <1>1 DEF Pend
<1> HIDE DEF rec
<1> QED
  BY <1>1, <1>2, <1>3

\* AttrChanged and Content leave the namespace alone.
LEMMA AttrStep ==
    ASSUME Good(t, forced), RestOK, NEW n \in Node, NEW s \in Stat, NEW v \in Nat,
           AttrChanged(n, s) \/ Content(n, v, s)
    PROVE  Good(t', forced') /\ RestOK'
<1>1. /\ UNCHANGED <<t, state, forced>> /\ RecArrives
      /\ lastStat' = [lastStat EXCEPT ![n] = s]
  BY DEF AttrChanged, Content
<1>2. /\ stat' \in [Node -> Stat \cup {NoStat, Placeholder}]
      /\ ver' \in [Node -> Nat]
      /\ pend' \in [Node -> Pend]
  <2>1. CASE n \in t.live
    BY <2>1 DEF RestOK, AttrChanged, Content
  <2>2. CASE n \notin t.live
    <3>1. Stash(n, s, 0) \/ Stash(n, s, v)
      BY <2>2 DEF AttrChanged, Content
    <3> QED
      BY <3>1, StashType DEF RestOK
  <2> QED
    BY <2>1, <2>2
<1>3. lastStat' \in [Node -> Stat \cup {NoStat}]
  BY <1>1 DEF RestOK
<1>4. applied' \in Nat
  BY <1>1 DEF RestOK, RecArrives
<1>5. RestOK'
  BY <1>1, <1>2, <1>3, <1>4 DEF RestOK
<1> QED
  BY <1>1, <1>5

\* Every step keeps the invariant.
LEMMA NextIInv == IInv /\ [Next]_vars => IInv'
<1> SUFFICES ASSUME Good(t, forced), RestOK, [Next]_vars
             PROVE  Good(t', forced') /\ RestOK'
  BY IInvParts DEF IInv, TypeOK, NoPrematureRemoval, Good, Covered, RestOK
<1>1. CASE NextSeeding
  BY <1>1, SnapDirStep, FinishStep DEF NextSeeding
<1>2. CASE NextNamespace
  BY <1>2, CreatedStep, CreatedNoAttrStep, RemovedStep, RenamedStep, SelfRemovedStep
  DEF NextNamespace, NextCreate
<1>3. CASE NextAttr
  <2>1. \A v \in Version : v \in Nat
    BY ReplicaAssumption
  <2>2. 0 \in Nat
    OBVIOUS
  <2> QED
    BY <1>3, <2>1, <2>2, AttrStep DEF NextAttr
<1>4. CASE UNCHANGED vars
  BY <1>4 DEF vars, RestOK
<1> QED
  BY <1>1, <1>2, <1>3, <1>4 DEF Next

\* ShareReplica is type correct, and its node table well formed, after any
\* sequence of snapshot and journal records.
THEOREM TypeCorrect == Spec => []TypeOK
<1>1. IInv => TypeOK
  BY DEF IInv
<1> QED
  BY <1>1, InitIInv, NextIInv, PTL DEF Spec

\* No record makes the replica collect a node that a name still leads to
\* (link_dec, remove_node), in a share of any size and whatever the order of
\* the records.
THEOREM NothingRemovedPrematurely == Spec => []NoPrematureRemoval
<1>1. IInv => NoPrematureRemoval
  BY DEF IInv
<1> QED
  BY <1>1, InitIInv, NextIInv, PTL DEF Spec

-----------------------------------------------------------------------------
(***************************************************************************)
(* Cookies and statistics.                                                 *)
(***************************************************************************)
\* The listings a record can carry name each entry once.
LEMMA OrdersList ==
    ASSUME NEW ord \in Orders
    PROVE  Lists(ord, {ord[i] : i \in DOMAIN ord}) /\ {ord[i] : i \in DOMAIN ord} \in SUBSET Name
<1>1. CASE ord = <<>>
  BY <1>1 DEF Lists
<1>2. CASE \E m \in Name : ord = <<m>>
  BY <1>2 DEF Lists
<1>3. CASE \E m, k \in Name : m # k /\ ord = <<m, k>>
  <2>1. PICK m \in Name, k \in Name : m # k /\ ord = <<m, k>>
    BY <1>3
  <2>2. DOMAIN ord = {1, 2} /\ ord[1] = m /\ ord[2] = k
    BY <2>1
  <2> QED
    BY <2>1, <2>2 DEF Lists
<1> QED
  BY <1>1, <1>2, <1>3 DEF Orders

\* A record about a node and its dentry.
LEMMA CreateTidies ==
    ASSUME Neat(t), NEW p \in DirNode, NEW m \in Name, NEW n \in Node \ {Root},
           (\E s \in Stat : Created(p, m, n, s)) \/ CreatedNoAttr(p, m, n)
    PROVE  Tidies(t, t')
<1> DEFINE u0 == UpsertNode(t, n, n \in DirNode, p)
           u1 == IF n \in DirNode THEN MarkDirComplete(u0, n) ELSE u0
           u2 == IF n \in t.live THEN t ELSE UpsertNode(t, n, FALSE, p)
<1>0. p \in Node /\ n \in Node /\ IsTree(t)
  BY TreeAssumption DEF Neat
<1>1. t' = DentrySet(u1, p, m, n) \/ t' = DentrySet(u2, p, m, n)
  BY DEF Created, CreatedNoAttr, Install
<1>2. Neat(u0) /\ \A X \in SUBSET Node : Advances(t, u0, X)
  <2>1. (n \in DirNode) \in BOOLEAN
    OBVIOUS
  <2> QED
    BY <1>0, <2>1, UpsertNodeNeat
<1>3. Neat(u2) /\ \A X \in SUBSET Node : Advances(t, u2, X)
  BY <1>0, UpsertNodeNeat, AdvancesReflexive
<1> HIDE DEF u0, u2
<1>4. Neat(u1) /\ \A X \in SUBSET Node : Advances(u0, u1, X)
  <2>1. CASE n \in DirNode
    BY <1>0, <1>2, <2>1, MarkDirCompleteNeat
  <2>2. CASE n \notin DirNode
    BY <1>2, <2>2, AdvancesReflexive DEF Neat
  <2> QED
    BY <2>1, <2>2
<1> HIDE DEF u1
<1>5. \A X \in SUBSET Node : Advances(t, u1, X)
  BY <1>0, <1>2, <1>4, AdvancesTransitive DEF Neat
<1>6. Tidies(t, DentrySet(u1, p, m, n))
  BY <1>0, <1>4, <1>5, DentrySetNeat, TidiesAfter
<1>7. Tidies(t, DentrySet(u2, p, m, n))
  BY <1>0, <1>3, DentrySetNeat, TidiesAfter
<1> QED
  BY <1>1, <1>6, <1>7

\* Every step keeps the tree neat and only advances its directories.
LEMMA NextTidies ==
    ASSUME Neat(t), [Next]_vars
    PROVE  Tidies(t, t')
<1>1. ASSUME NEW d \in Node, NEW p \in Node, NEW ord \in Orders, NEW s, NEW last,
             NEW f \in [{ord[i] : i \in DOMAIN ord} -> Node \ {Root}],
             SnapDir(d, p, f, ord, s, last)
      PROVE  Tidies(t, t')
  <2> DEFINE S == {ord[i] : i \in DOMAIN ord}
  <2>1. S \in SUBSET Name /\ Lists(ord, S)
    BY OrdersList
  <2>2. f \in [S -> Node]
    OBVIOUS
  <2>3. t' = ApplySnapDir(t, d, p, f, ord, last)
    BY <1>1 DEF SnapDir, Install
  <2> HIDE DEF S
  <2> QED
    BY <2>1, <2>2, <2>3, ApplySnapDirNeat
<1>2. CASE FinishSnapshot
  BY <1>2, RecountNeat DEF FinishSnapshot
<1>3. CASE NextCreate
  BY <1>3, CreateTidies DEF NextCreate
<1>4. ASSUME NEW p \in DirNode, NEW m \in Name, Removed(p, m)
      PROVE  Tidies(t, t')
  <2>1. p \in Node
    BY TreeAssumption
  <2> QED
    BY <1>4, <2>1, DentryRemoveNeat DEF Removed, Install
<1>5. ASSUME NEW fp \in DirNode, NEW tp \in DirNode, NEW fm \in Name, NEW tm \in Name,
             Renamed(fp, fm, tp, tm)
      PROVE  Tidies(t, t')
  <2>1. fp \in Node /\ tp \in Node
    BY TreeAssumption
  <2> QED
    BY <1>5, <2>1, DentryMoveNeat DEF Renamed, Install
<1>6. ASSUME NEW n \in Node, SelfRemoved(n)
      PROVE  Tidies(t, t')
  BY <1>6, RemovalsNeat DEF SelfRemoved, Install, Tidies
<1>7. CASE NextAttr \/ UNCHANGED vars
  <2>1. t' = t
    BY <1>7 DEF NextAttr, AttrChanged, Content, vars
  <2> QED
    BY <2>1, TidiesReflexive
<1> QED
  BY <1>1, <1>2, <1>3, <1>4, <1>5, <1>6, <1>7 DEF Next, NextSeeding, NextNamespace

\* The tree is neat after any sequence of records.
LEMMA AlwaysNeat == Spec => []Neat(t)
<1>1. Init => Neat(t)
  BY NewTreeNeat DEF Init
<1>2. Neat(t) /\ [Next]_vars => Neat(t')
  BY NextTidies DEF Tidies
<1>3. Neat(t)' <=> Neat(t')
  BY DEF Neat, IsTree, WellFormed, CookiesGood, Exact, Held
<1> QED
  BY <1>1, <1>2, <1>3, PTL DEF Spec

\* In a directory of any size no two entries ever share a cookie, whatever
\* was inserted, replaced, renamed or walked again (DirState::insert_new).
THEOREM CookiesStayDistinct == Spec => []CookiesDistinct
<1>1. Neat(t) => CookiesDistinct
  BY DEF Neat, IsTree, CookiesGood, CookiesDistinct
<1> QED
  BY <1>1, AlwaysNeat, PTL

\* The counters of nodes, directories and entries never drift from the tree
\* (upsert_node, entries_add, remove_node, finish_snapshot).
THEOREM StatisticsExact == Spec => []StatsExact
<1>1. Neat(t) => StatsExact
  BY DEF Neat, Exact, StatsExact
<1> QED
  BY <1>1, AlwaysNeat, PTL

\* As long as a directory lives its cookies are handed out once and every
\* change of its listing shows in dirgen.
THEOREM NoCookieReused == Spec => CookiesNeverReused
<1>1. Neat(t) /\ [Next]_vars =>
        [\A d \in t.isDir \cap t'.isDir :
            /\ t'.next[d] >= t.next[d] /\ t'.gen[d] >= t.gen[d]
            /\ (t'.ent[d] # t.ent[d] => t'.gen[d] > t.gen[d])
            /\ \A m \in Name : t'.ent[d][m] # NoNode =>
                  \/ t'.cookie[d][m] >= t.next[d]
                  \/ t'.ent[d][m] = t.ent[d][m] /\ t'.cookie[d][m] = t.cookie[d][m]]_vars
  BY NextTidies DEF Tidies, Advances
<1> QED
  BY <1>1, AlwaysNeat, PTL DEF Spec, CookiesNeverReused

-----------------------------------------------------------------------------
(***************************************************************************)
(* The stash and the attributes.  No record is stashed before the share is *)
(* live, so what a snapshot lists was never stashed.                       *)
(***************************************************************************)
NoEarlyStash == state = "Seeding" => \A n \in Node : pend[n] = NoPend

\* No record about dentries makes a node known.
LEMMA LiveShrinks ==
    ASSUME NEW u, NEW p, NEW m, NEW q, NEW k, NEW n
    PROVE  /\ DentrySet(u, p, m, n).live \subseteq u.live
           /\ DentryRemove(u, p, m).live \subseteq u.live
           /\ DentryMove(u, p, m, q, k).live \subseteq u.live
           /\ ForceRemove(u, n).live \subseteq u.live
<1>1. ASSUME NEW w, NEW c PROVE LinkDec(w, c).live \subseteq w.live
  BY DEF LinkDec, Drop
<1>2. ASSUME NEW w, NEW d, NEW x, NEW c PROVE DirUpsert(w, d, x, c).live = w.live
  BY DEF DirUpsert, WithDir
<1>3. ASSUME NEW w, NEW d, NEW x PROVE DirRemove(w, d, x).live = w.live
  BY DEF DirRemove, WithDir
<1>4. ASSUME NEW w, NEW c PROVE LinkInc(w, c).live = w.live
  BY DEF LinkInc, SetLinks, WithNodes
<1>5. ASSUME NEW w, NEW c, NEW d PROVE SetParent(w, c, d).live = w.live
  BY DEF SetParent, WithNodes
<1>6. ASSUME NEW w, NEW d, NEW x, NEW c PROVE DentryRelink(w, d, x, c).live \subseteq w.live
  <2> DEFINE a == DirUpsert(w, d, x, c)
             b == IF w.ent[d][x] \in {NoNode, c} THEN a ELSE LinkDec(a, w.ent[d][x])
  <2>1. b.live \subseteq w.live
    BY <1>1, <1>2
  <2>2. DentryRelink(w, d, x, c) \in {w, b, SetParent(b, c, d)}
    BY DEF DentryRelink
  <2> HIDE DEF b
  <2> QED
    BY <1>5, <2>1, <2>2
<1>7. DentrySet(u, p, m, n).live \subseteq u.live
  <2> DEFINE b == LinkInc(DirUpsert(u, p, m, n), n)
  <2>1. b.live = u.live
    BY <1>2, <1>4
  <2>2. DentrySet(u, p, m, n) \in {u, b, LinkDec(b, u.ent[p][m])}
    BY DEF DentrySet
  <2> HIDE DEF b
  <2> QED
    BY <1>1, <2>1, <2>2
<1>8. DentryRemove(u, p, m).live \subseteq u.live
  BY <1>1, <1>3 DEF DentryRemove
<1>9. DentryMove(u, p, m, q, k).live \subseteq u.live
  BY <1>3, <1>6 DEF DentryMove
<1>10. ForceRemove(u, n).live \subseteq u.live
  BY DEF ForceRemove, Drop
<1> QED
  BY <1>7, <1>8, <1>9, <1>10

\* The parts of an Install that are about attributes.
LEMMA InstallStat ==
    ASSUME NEW u, NEW s, NEW v, Install(u, s, v), NEW n \in Node, n \in t'.live
    PROVE  stat'[n] = s[n]
BY DEF Install

\* Nothing is stashed while the share is seeded.
LEMMA StashStep == NoEarlyStash /\ [Next]_vars => NoEarlyStash'
<1> SUFFICES ASSUME NoEarlyStash, [Next]_vars, state' = "Seeding"
             PROVE  \A n \in Node : pend'[n] = NoPend
  BY DEF NoEarlyStash
<1>1. CASE NextSeeding
  <2>1. state = "Seeding" /\ pend' = pend
    BY <1>1 DEF NextSeeding, SnapDir, SnapArrives, FinishSnapshot
  <2> QED
    BY <2>1 DEF NoEarlyStash
<1>2. CASE NextNamespace \/ NextAttr
  BY <1>2 DEF NextNamespace, NextCreate, NextAttr, Created, CreatedNoAttr, Removed, Renamed,
              SelfRemoved, AttrChanged, Content, RecArrives
<1>3. CASE UNCHANGED vars
  BY <1>3 DEF vars, NoEarlyStash
<1> QED
  BY <1>1, <1>2, <1>3 DEF Next

\* The step of StashConsumed.
StashGoes ==
    \A n \in t'.live :
        /\ pend'[n] # NoPend =>
              pend'[n] = pend[n] /\ (n \in t.live \/ stat'[n] = Placeholder)
        /\ \/ stat'[n] \in {stat[n], lastStat'[n], Placeholder}
           \/ stat'[n] = pend[n].stat /\ pend'[n] = NoPend

\* The step of AttrsFollowRecords.
AttrsFollow ==
    \A n \in t.live \cap t'.live :
        pend[n] = NoPend => stat'[n] \in {stat[n], lastStat'[n]}

\* A record that only changes dentries: no node arrives, no attribute changes.
LEMMA DentryStepAttrs ==
    ASSUME TypeOK, TypeOK', NEW u, u.live \subseteq t.live, Install(u, stat, ver), pend' = pend
    PROVE  StashGoes /\ AttrsFollow
<1>1. t' = u /\ t'.live \in SUBSET Node
  BY DEF Install, TypeOK, IsTree
<1>2. \A n \in t'.live : stat'[n] = stat[n]
  BY <1>1, InstallStat
<1> QED
  BY <1>1, <1>2 DEF StashGoes, AttrsFollow

\* Created, with attributes.
LEMMA CreatedAttrs ==
    ASSUME TypeOK, TypeOK', NEW p \in DirNode, NEW m \in Name, NEW n \in Node \ {Root},
           NEW s \in Stat, Created(p, m, n, s)
    PROVE  StashGoes /\ AttrsFollow
<1> DEFINE u0 == UpsertNode(t, n, n \in DirNode, p)
           u1 == IF n \in DirNode THEN MarkDirComplete(u0, n) ELSE u0
           s1 == IF pend[n].stat = NoStat THEN s ELSE pend[n].stat
           v1 == IF pend[n].ver = 0 THEN ver[n] ELSE pend[n].ver
<1>1. /\ Install(DentrySet(u1, p, m, n), [stat EXCEPT ![n] = s1], [ver EXCEPT ![n] = v1])
      /\ pend' = [pend EXCEPT ![n] = NoPend] /\ lastStat' = [lastStat EXCEPT ![n] = s]
  BY DEF Created
<1>2. u1.live = t.live \cup {n}
  BY DEF UpsertNode, MarkDirComplete, WithNodes
<1>3. t' = DentrySet(u1, p, m, n)
  BY <1>1 DEF Install
<1> HIDE DEF u1
<1>4. t'.live \subseteq t.live \cup {n}
  BY <1>2, <1>3, LiveShrinks
<1>5. /\ t'.live \in SUBSET Node /\ pend \in [Node -> Pend] /\ lastStat \in [Node -> Stat \cup {NoStat}]
      /\ stat \in [Node -> Stat \cup {NoStat, Placeholder}]
  BY DEF TypeOK, IsTree
<1>6. \A k \in t'.live : stat'[k] = IF k = n THEN s1 ELSE stat[k]
  <2> HIDE DEF s1, v1
  <2>1. \A k \in Node : [stat EXCEPT ![n] = s1][k] = IF k = n THEN s1 ELSE stat[k]
    BY <1>5
  <2> QED
    BY <1>1, <1>5, <2>1, InstallStat
<1>7. pend[n] = NoPend => s1 = s
  BY DEF NoPend
<1>8. StashGoes
  <2>1. \A k \in t'.live : pend'[k] # NoPend =>
            pend'[k] = pend[k] /\ (k \in t.live \/ stat'[k] = Placeholder)
    BY <1>1, <1>4, <1>5
  <2>2. pend'[n] = NoPend /\ lastStat'[n] = s
    BY <1>1, <1>5
  <2>3. s1 = s \/ s1 = pend[n].stat
    OBVIOUS
  <2>4. ASSUME NEW k \in t'.live
        PROVE  \/ stat'[k] \in {stat[k], lastStat'[k], Placeholder}
               \/ stat'[k] = pend[k].stat /\ pend'[k] = NoPend
    <3> HIDE DEF s1
    <3>1. CASE k = n
      <4>1. stat'[n] = s1
        BY <1>6, <3>1
      <4> QED
        BY <2>2, <2>3, <3>1, <4>1
    <3>2. CASE k # n
      <4>1. stat'[k] = stat[k]
        BY <1>6, <3>2
      <4> QED
        BY <4>1
    <3> QED
      BY <3>1, <3>2
  <2> QED
    BY <2>1, <2>4 DEF StashGoes
<1>9. AttrsFollow
  BY <1>1, <1>5, <1>6, <1>7 DEF AttrsFollow
<1> QED
  BY <1>8, <1>9

\* Created, without attributes: the stash is the only one that can be left.
LEMMA CreatedNoAttrAttrs ==
    ASSUME TypeOK, TypeOK', NEW p \in DirNode, NEW m \in Name, NEW n \in Node \ {Root},
           CreatedNoAttr(p, m, n)
    PROVE  StashGoes /\ AttrsFollow
<1> DEFINE u1 == IF n \in t.live THEN t ELSE UpsertNode(t, n, FALSE, p)
           s1 == IF n \in t.live THEN stat[n] ELSE Placeholder
<1>1. Install(DentrySet(u1, p, m, n), [stat EXCEPT ![n] = s1], ver) /\ pend' = pend
  BY DEF CreatedNoAttr
<1>2. u1.live = t.live \cup {n}
  BY DEF UpsertNode, WithNodes
<1>3. t' = DentrySet(u1, p, m, n)
  BY <1>1 DEF Install
<1> HIDE DEF u1
<1>4. t'.live \subseteq t.live \cup {n}
  BY <1>2, <1>3, LiveShrinks
<1>5. t'.live \in SUBSET Node /\ stat \in [Node -> Stat \cup {NoStat, Placeholder}]
  BY DEF TypeOK, IsTree
<1>6. \A k \in t'.live : stat'[k] = IF k = n THEN s1 ELSE stat[k]
  <2> HIDE DEF s1
  <2>1. \A k \in Node : [stat EXCEPT ![n] = s1][k] = IF k = n THEN s1 ELSE stat[k]
    BY <1>5
  <2> QED
    BY <1>1, <1>5, <2>1, InstallStat
<1> QED
  BY <1>1, <1>4, <1>6 DEF StashGoes, AttrsFollow

\* AttrChanged and Content: a known node is updated, an unknown one stashed.
LEMMA UpdateAttrs ==
    ASSUME TypeOK, NEW n \in Node, NEW s \in Stat, NEW v \in Nat,
           AttrChanged(n, s) \/ Content(n, v, s)
    PROVE  StashGoes /\ AttrsFollow
<1>1. t' = t /\ lastStat' = [lastStat EXCEPT ![n] = s]
  BY DEF AttrChanged, Content
<1>2. /\ t.live \in SUBSET Node /\ pend \in [Node -> Pend] /\ lastStat \in [Node -> Stat \cup {NoStat}]
      /\ stat \in [Node -> Stat \cup {NoStat, Placeholder}]
  BY DEF TypeOK, IsTree
<1>3. CASE n \in t.live
  <2>1. stat' = [stat EXCEPT ![n] = s] /\ pend' = pend
    BY <1>3 DEF AttrChanged, Content
  <2> QED
    BY <1>1, <1>2, <2>1 DEF StashGoes, AttrsFollow
<1>4. CASE n \notin t.live
  <2>1. Stash(n, s, 0) \/ Stash(n, s, v)
    BY <1>4 DEF AttrChanged, Content
  <2>2. stat' = stat
    BY <2>1 DEF Stash
  <2>3. ASSUME NEW k \in Node, k # n PROVE pend'[k] \in {NoPend, pend[k]}
    BY <1>2, <2>1, <2>3 DEF Stash
  <2> QED
    BY <1>1, <1>2, <1>4, <2>2, <2>3 DEF StashGoes, AttrsFollow
<1> QED
  BY <1>3, <1>4

\* Every step consumes the stash it should and leaves attributes to records.
LEMMA NextAttrs ==
    ASSUME TypeOK, TypeOK', NoEarlyStash, [Next]_vars
    PROVE  [StashGoes]_vars /\ [AttrsFollow]_vars
<1>1. CASE NextSeeding
  <2>0. t'.live \in SUBSET Node /\ t.live \in SUBSET Node
    BY DEF TypeOK, IsTree
  <2>1. CASE FinishSnapshot
    BY <2>1 DEF FinishSnapshot, Recount, StashGoes, AttrsFollow
  <2>2. ASSUME NEW d \in Node, NEW p, NEW ord, NEW s \in Stat, NEW last, NEW f,
               SnapDir(d, p, f, ord, s, last)
        PROVE  StashGoes /\ AttrsFollow
    <3> DEFINE seen == {d} \cup {f[m] : m \in DOMAIN f}
               st == [n \in Node |-> IF n \in seen THEN s ELSE stat[n]]
    <3>1. /\ Install(ApplySnapDir(t, d, p, f, ord, last), st, ver)
          /\ lastStat' = [n \in Node |-> IF n \in seen THEN s ELSE lastStat[n]]
          /\ pend' = pend /\ state = "Seeding"
      BY <2>2 DEF SnapDir, SnapArrives
    <3>2. \A n \in Node : pend'[n] = NoPend
      BY <3>1 DEF NoEarlyStash
    <3> HIDE DEF seen
    <3>3. \A n \in t'.live : stat'[n] = IF n \in seen THEN s ELSE stat[n]
      BY <2>0, <3>1, InstallStat
    <3> QED
      BY <2>0, <3>1, <3>2, <3>3 DEF StashGoes, AttrsFollow
  <2> QED
    BY <1>1, <2>1, <2>2 DEF NextSeeding
<1>2. CASE NextCreate
  BY <1>2, CreatedAttrs, CreatedNoAttrAttrs DEF NextCreate
<1>3. ASSUME NEW p, NEW m, Removed(p, m) PROVE StashGoes /\ AttrsFollow
  BY <1>3, DentryStepAttrs, LiveShrinks DEF Removed
<1>4. ASSUME NEW fp, NEW tp, NEW fm, NEW tm, Renamed(fp, fm, tp, tm)
      PROVE  StashGoes /\ AttrsFollow
  BY <1>4, DentryStepAttrs, LiveShrinks DEF Renamed
<1>5. ASSUME NEW n, SelfRemoved(n) PROVE StashGoes /\ AttrsFollow
  BY <1>5, DentryStepAttrs, LiveShrinks DEF SelfRemoved
<1>6. CASE NextAttr
  <2>1. \A v \in Version : v \in Nat
    BY ReplicaAssumption
  <2>2. 0 \in Nat
    OBVIOUS
  <2> QED
    BY <1>6, <2>1, <2>2, UpdateAttrs DEF NextAttr
<1> QED
  BY <1>1, <1>2, <1>3, <1>4, <1>5, <1>6 DEF Next, NextNamespace

\* A stash is applied once: attributes that are neither the old ones nor those
\* of the record are the stash's, which that step uses up, and a node arriving
\* with its attributes leaves none behind (stash_pending, drain_pending).
THEOREM StashIsConsumed == Spec => StashConsumed
<1>1. Init => NoEarlyStash
  BY DEF Init, NoEarlyStash
<1>2. TypeOK /\ TypeOK' /\ NoEarlyStash /\ [Next]_vars => [StashGoes]_vars
  BY NextAttrs
<1> QED
  BY <1>1, <1>2, StashStep, TypeCorrect, PTL DEF Spec, StashConsumed, StashGoes

\* The attributes of a known node are its own or those of the last record
\* about it, after any step (update_attr, update_content, upsert_node).
THEOREM AttributesFollow == Spec => AttrsFollowRecords
<1>1. Init => NoEarlyStash
  BY DEF Init, NoEarlyStash
<1>2. TypeOK /\ TypeOK' /\ NoEarlyStash /\ [Next]_vars => [AttrsFollow]_vars
  BY NextAttrs
<1> QED
  BY <1>1, <1>2, StashStep, TypeCorrect, PTL DEF Spec, AttrsFollowRecords, AttrsFollow

=============================================================================
