---------------------------- MODULE ContentStore ----------------------------
(***************************************************************************)
(* What the content store promises its readers, with nothing of how: a     *)
(* manifest binds the chunks of one content version to hashes; a chunk is  *)
(* stored at once and for good, or at once and for good after the next     *)
(* durable change; a restart goes back to what is durable; and a reader is *)
(* given the bytes some manifest it looked up named, or nothing at all.    *)
(* The store may always answer with nothing: it is a cache.                *)
(***************************************************************************)
CONSTANTS
    Node, Ver,      \* a manifest is named by a file and a content version
    WIP,            \* the version under which written chunks are collected
    Off,            \* chunks of a file
    Hash, NoHash,   \* chunk contents, each with its hash; no chunk
    Thread          \* those who use the store

VARIABLES
    bound,          \* the hash each chunk of each manifest is bound to
    durable,        \* what of this a restart finds
    look            \* what each reader has looked up, and then what it was given

Key     == Node \X Ver
NoChunk == [o \in Off |-> NoHash]
Empty   == [k \in Key |-> NoChunk]
NoLook  == [pc |-> "idle", hash |-> NoHash]

\* The manifests once key k is bound to m: every other version of the file goes.
Only(b, k, m) == [j \in Key |-> IF j = k THEN m ELSE IF j[1] = k[1] THEN NoChunk ELSE b[j]]

Init == bound = Empty /\ durable = Empty /\ look = [t \in Thread |-> NoLook]

\* One chunk read from the guest: durable, and with it all that came before.
Put(k, o, h) ==
    /\ bound' = Only(bound, k, [bound[k] EXCEPT ![o] = h])
    /\ durable' = bound' /\ UNCHANGED look

\* The chunks of a written file, collected under WIP and then moved to its version.
Collect(f, m) == bound' = Only(bound, <<f, WIP>>, m) /\ UNCHANGED <<durable, look>>
Settle(f, v)  ==
    /\ bound[<<f, WIP>>] # NoChunk
    /\ bound' = Only(bound, <<f, v>>, bound[<<f, WIP>>]) /\ UNCHANGED <<durable, look>>

Forget(f) == bound' = [k \in Key |-> IF k[1] = f THEN NoChunk ELSE bound[k]] /\ UNCHANGED <<durable, look>>
Clear     == bound' = Empty /\ UNCHANGED <<durable, look>>
Persist   == durable' = bound /\ UNCHANGED <<bound, look>>
Restart   == bound' = durable /\ look' = [t \in Thread |-> NoLook] /\ UNCHANGED durable

\* A reader looks up a chunk, perhaps again, and is given what it last found, or nothing.
Look(t, k, o) ==
    /\ look[t].pc # "given"
    /\ look' = [look EXCEPT ![t] = [pc |-> "found", hash |-> bound[k][o]]]
    /\ UNCHANGED <<bound, durable>>
Give(t) ==
    /\ look[t].pc = "found" /\ look[t].hash # NoHash
    /\ look' = [look EXCEPT ![t].pc = "given"] /\ UNCHANGED <<bound, durable>>
End(t) == look' = [look EXCEPT ![t] = NoLook] /\ UNCHANGED <<bound, durable>>

Next ==
    \/ \E k \in Key, o \in Off, h \in Hash : Put(k, o, h)
    \/ \E f \in Node : Forget(f) \/ \E m \in [Off -> Hash \cup {NoHash}] : Collect(f, m)
    \/ \E f \in Node, v \in Ver : Settle(f, v)
    \/ Clear \/ Persist \/ Restart
    \/ \E t \in Thread : Give(t) \/ End(t) \/ \E k \in Key, o \in Off : Look(t, k, o)

Spec == Init /\ [][Next]_<<bound, durable, look>>
=============================================================================
