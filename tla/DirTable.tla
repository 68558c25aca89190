------------------------------ MODULE DirTable ------------------------------
(***************************************************************************)
(* What a directory of the replica promises: a table of names, each with   *)
(* the node it leads to and the cookie at which a listing finds it.        *)
(* Cookies are given in rising order, an entry keeps its own for as long   *)
(* as it stays, and a page is a run of the entries after a cookie with     *)
(* none left out.  Module Listing shows that DirState, with its            *)
(* tombstones, its index and its compaction, is such a table.              *)
(***************************************************************************)
EXTENDS Integers, Sequences, FiniteSets

CONSTANTS Name, Node, FIRST_COOKIE

VARIABLES
    table,      \* the entries: a set of [name, node, cookie]
    next,       \* the next cookie
    reader      \* a listing: where it is, and what it has been given

vars == <<table, next, reader>>

Entry(n, k, c) == [name |-> n, node |-> k, cookie |-> c]

\* T has an entry for each name and node of P, with the first cookies.
Fresh(T, P) ==
    /\ {<<e.name, e.node>> : e \in T} = P
    /\ Cardinality(T) = Cardinality(P)
    /\ {e.cookie : e \in T} = FIRST_COOKIE .. FIRST_COOKIE + Cardinality(P) - 1

Init ==
    /\ \E k \in Node : Fresh(table, {<<n, k>> : n \in Name})
    /\ next = FIRST_COOKIE + Cardinality(Name)
    /\ reader = [at |-> "idle", pos |-> 0, seen |-> <<>>]

\* An entry for another node takes the place of the old one, with a new
\* cookie; for the same node nothing changes.
Upsert(n, k) ==
    /\ ~ \E e \in table : e.name = n /\ e.node = k
    /\ table' = {e \in table : e.name # n} \cup {Entry(n, k, next)}
    /\ next' = next + 1
    /\ UNCHANGED reader

Remove(n) ==
    /\ table' = {e \in table : e.name # n}
    /\ UNCHANGED <<next, reader>>

\* A snapshot numbers the entries afresh, in some order.
Reseed ==
    /\ Fresh(table', {<<e.name, e.node>> : e \in table})
    /\ next' = FIRST_COOKIE + Cardinality(table)
    /\ UNCHANGED reader

Begin ==
    /\ reader.at # "open"
    /\ reader' = [at |-> "open", pos |-> 0, seen |-> <<>>]
    /\ UNCHANGED <<table, next>>

\* The entries of a page follow one another and leave none out.
IsRun(page, T) ==
    /\ {page[i] : i \in DOMAIN page} \subseteq T
    /\ \A i, j \in DOMAIN page : i < j => page[i].cookie < page[j].cookie
    /\ \A e \in T : (\E i \in DOMAIN page : e.cookie <= page[i].cookie) =>
                        \E i \in DOMAIN page : page[i] = e

\* A page: at its end the reader has all there is, or asks again.
Page ==
    LET T    == {e \in table : e.cookie > reader.pos}
        page == SubSeq(reader'.seen, Len(reader.seen) + 1, Len(reader'.seen))
    IN  /\ reader.at = "open"
        /\ SubSeq(reader'.seen, 1, Len(reader.seen)) = reader.seen
        /\ IsRun(page, T)
        /\ reader'.pos = IF page = <<>> THEN reader.pos ELSE page[Len(page)].cookie
        /\ reader'.at = IF Len(page) = Cardinality(T) THEN "done" ELSE "open"
        /\ UNCHANGED <<table, next>>

Next ==
    \/ \E n \in Name, k \in Node : Upsert(n, k)
    \/ \E n \in Name : Remove(n)
    \/ Reseed \/ Begin \/ Page

Spec == Init /\ [][Next]_vars

=============================================================================
