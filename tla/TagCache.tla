------------------------------ MODULE TagCache ------------------------------
(***************************************************************************)
(* The in-memory cache with tags (pkg/services/cache.go): a store (otter,  *)
(* external) and an index of tags to keys and keys to tags under a mutex   *)
(* of its own. No lock spans the two, and the store tells the index of     *)
(* removed or replaced entries later, from a goroutine of its own.         *)
(***************************************************************************)
EXTENDS Naturals

CONSTANTS
    Proc,       \* request goroutines that use the cache
    Key,        \* cache keys, group included
    Tag,        \* cache tags
    MaxSets     \* bound: set operations

ASSUME TagCacheAssumption == MaxSets \in Nat

VARIABLES
    store,      \* Key -> number of the set that wrote the entry, 0 for no entry
    pending,    \* Key -> deletion notifications not delivered yet
    tags,       \* tagIndex.tags: Tag -> keys
    keys,       \* tagIndex.keys: Key -> tags
    pc,         \* Proc -> where the running operation is
    op,         \* Proc -> its arguments: the keys and the tags
    todo,       \* Proc -> keys a flush has left to delete from the store
    sets,       \* sets so far
    tagged,     \* history: set number -> its tags, once the set has returned
    touched,    \* history: keys ever notified of, or named by a flush
    due         \* history: Proc -> the entries its flush has to remove,
                \* and those of them whose key was never touched

index == <<tags, keys>>
vars == <<store, pending, index, pc, op, todo, sets, tagged, touched, due>>

Entry == 1 .. MaxSets

TypeOK ==
    /\ store \in [Key -> 0 .. MaxSets]
    /\ pending \in [Key -> Nat]
    /\ tags \in [Tag -> SUBSET Key]
    /\ keys \in [Key -> SUBSET Tag]
    /\ pc \in [Proc -> {"idle", "setTags", "purgeTags", "delete", "purgeKeys"}]
    /\ op \in [Proc -> [keys : SUBSET Key, tags : SUBSET Tag, entry : 0 .. MaxSets]]
    /\ todo \in [Proc -> SUBSET Key]
    /\ sets \in 0 .. MaxSets
    /\ tagged \in [Entry -> SUBSET Tag]
    /\ touched \subseteq Key
    /\ due \in [Proc -> [all : SUBSET Entry, fresh : SUBSET Entry]]

NoOp == [keys |-> {}, tags |-> {}, entry |-> 0]
NoneDue == [all |-> {}, fresh |-> {}]

Init ==
    /\ store = [k \in Key |-> 0] /\ pending = [k \in Key |-> 0]
    /\ tags = [t \in Tag |-> {}] /\ keys = [k \in Key |-> {}]
    /\ pc = [p \in Proc |-> "idle"] /\ op = [p \in Proc |-> NoOp]
    /\ todo = [p \in Proc |-> {}] /\ sets = 0
    /\ tagged = [e \in Entry |-> {}] /\ touched = {}
    /\ due = [p \in Proc |-> NoneDue]

-----------------------------------------------------------------------------

(***************************************************************************)
(* tagIndex, each operation under its mutex.                               *)
(***************************************************************************)
IndexTags(K, T) ==
    /\ tags' = [t \in Tag |-> IF t \in T THEN tags[t] \union K ELSE tags[t]]
    /\ keys' = [k \in Key |-> IF k \in K THEN keys[k] \union T ELSE keys[k]]

\* Variant: the other direction of the index is forgotten.
MutPurgeTagsOf(T) ==
    /\ tags' = [t \in Tag |-> IF t \in T THEN {} ELSE tags[t]]
    /\ UNCHANGED keys

PurgeTagsOf(T) ==
    /\ tags' = [t \in Tag |-> IF t \in T THEN {} ELSE tags[t]]
    /\ keys' = [k \in Key |-> keys[k] \ T]

PurgeKeysOf(K) ==
    /\ keys' = [k \in Key |-> IF k \in K THEN {} ELSE keys[k]]
    /\ tags' = [t \in Tag |-> tags[t] \ K]

(***************************************************************************)
(* The store. It notifies on an explicit delete, on a replaced entry and   *)
(* on an eviction for size or age.                                         *)
(***************************************************************************)
Put(k, e) ==
    /\ store' = [store EXCEPT ![k] = e]
    /\ IF store[k] = 0
       THEN UNCHANGED <<pending, touched>>
       ELSE pending' = [pending EXCEPT ![k] = @ + 1] /\ touched' = touched \union {k}

Evict(k) ==
    /\ store[k] # 0
    /\ Put(k, 0)
    /\ UNCHANGED <<index, pc, op, todo, sets, tagged, due>>

\* Variant: a notification without a removal.
MutNotify(k) ==
    /\ pending' = [pending EXCEPT ![k] = @ - 1]
    /\ PurgeKeysOf({k})
    /\ UNCHANGED <<store, pc, op, todo, sets, tagged, touched, due>>

\* The DeletionListener.
Notify(k) ==
    /\ pending[k] > 0
    /\ pending' = [pending EXCEPT ![k] = @ - 1]
    /\ PurgeKeysOf({k})
    /\ UNCHANGED <<store, pc, op, todo, sets, tagged, touched, due>>

(***************************************************************************)
(* inMemoryCacheStore.set: first the store, then the index.                *)
(***************************************************************************)
Set(p) ==
    /\ pc[p] = "idle" /\ sets < MaxSets
    /\ sets' = sets + 1
    /\ \E k \in Key, T \in SUBSET Tag :
        /\ Put(k, sets')
        /\ op' = [op EXCEPT ![p] = [keys |-> {k}, tags |-> T, entry |-> sets']]
    /\ pc' = [pc EXCEPT ![p] = "setTags"]
    /\ UNCHANGED <<index, todo, tagged, due>>

\* The store refuses the entry and keeps what it had.
SetRefused(p) ==
    /\ pc[p] = "idle" /\ sets < MaxSets
    /\ sets' = sets + 1
    /\ \E k \in Key, T \in SUBSET Tag :
        op' = [op EXCEPT ![p] = [keys |-> {k}, tags |-> T, entry |-> 0]]
    /\ pc' = [pc EXCEPT ![p] = "setTags"]
    /\ UNCHANGED <<store, pending, index, todo, tagged, touched, due>>

\* The tags are set whether or not the store took the entry; then the error.
SetTags(p) ==
    /\ pc[p] = "setTags"
    /\ IndexTags(op[p].keys, op[p].tags)
    /\ tagged' = [e \in Entry |-> IF e = op[p].entry THEN op[p].tags ELSE tagged[e]]
    /\ pc' = [pc EXCEPT ![p] = "idle"]
    /\ op' = [op EXCEPT ![p] = NoOp]
    /\ UNCHANGED <<store, pending, todo, sets, touched, due>>

(***************************************************************************)
(* inMemoryCacheStore.flush, of at most one key and any tags: look the     *)
(* tags up and forget them, delete the keys one by one, forget the keys.   *)
(***************************************************************************)
Matching(k, K, T) == store[k] # 0 /\ (k \in K \/ tagged[store[k]] \intersect T # {})

Flush(p) ==
    /\ pc[p] = "idle"
    /\ \E K \in {{}} \union {{k} : k \in Key}, T \in SUBSET Tag :
        /\ K # {} \/ T # {}
        /\ op' = [op EXCEPT ![p] = [keys |-> K, tags |-> T, entry |-> 0]]
        /\ due' = [due EXCEPT ![p] =
              [all |-> {store[k] : k \in {x \in Key : Matching(x, K, T)}},
               fresh |-> {store[k] : k \in {x \in Key \ touched : Matching(x, K, T)}}]]
    /\ pc' = [pc EXCEPT ![p] = "purgeTags"]
    /\ UNCHANGED <<store, pending, index, todo, sets, tagged, touched>>

\* Variant: the keys found by the tags are not deleted.
MutPurgeTags(p) ==
    /\ pc[p] = "purgeTags"
    /\ PurgeTagsOf(op[p].tags)
    /\ op' = [op EXCEPT ![p].keys = @ \union UNION {tags[t] : t \in op[p].tags}]
    /\ todo' = [todo EXCEPT ![p] = op[p].keys]
    /\ pc' = [pc EXCEPT ![p] = "delete"]
    /\ touched' = touched \union op'[p].keys
    /\ UNCHANGED <<store, pending, sets, tagged, due>>

PurgeTags(p) ==
    /\ pc[p] = "purgeTags"
    /\ PurgeTagsOf(op[p].tags)
    /\ op' = [op EXCEPT ![p].keys = @ \union UNION {tags[t] : t \in op[p].tags}]
    /\ todo' = [todo EXCEPT ![p] = op'[p].keys]
    /\ pc' = [pc EXCEPT ![p] = "delete"]
    /\ touched' = touched \union op'[p].keys
    /\ UNCHANGED <<store, pending, sets, tagged, due>>

Delete(p) ==
    /\ pc[p] = "delete"
    /\ \E k \in todo[p] :
        /\ todo' = [todo EXCEPT ![p] = @ \ {k}]
        /\ Put(k, 0)
    /\ UNCHANGED <<index, pc, op, sets, tagged, due>>

EndDelete(p) ==
    /\ pc[p] = "delete" /\ todo[p] = {}
    /\ pc' = [pc EXCEPT ![p] = "purgeKeys"]
    /\ UNCHANGED <<store, pending, index, op, todo, sets, tagged, touched, due>>

PurgeKeys(p) ==
    /\ pc[p] = "purgeKeys"
    /\ PurgeKeysOf(op[p].keys)
    /\ pc' = [pc EXCEPT ![p] = "idle"]
    /\ op' = [op EXCEPT ![p] = NoOp]
    /\ due' = [due EXCEPT ![p] = NoneDue]
    /\ UNCHANGED <<store, pending, todo, sets, tagged, touched>>

Next ==
    \/ \E p \in Proc : Set(p) \/ SetRefused(p) \/ SetTags(p) \/ Flush(p) \/ PurgeTags(p)
                         \/ Delete(p) \/ EndDelete(p) \/ PurgeKeys(p)
    \/ \E k \in Key : Evict(k) \/ Notify(k)

Spec == Init /\ [][Next]_vars

-----------------------------------------------------------------------------

(***************************************************************************)
(* The two maps of the index stay inverse to each other through any        *)
(* interleaving of sets, flushes and notifications: "keep everything in    *)
(* sync" (cache.go:70-71, 294-351).                                        *)
(***************************************************************************)
IndexInSync == \A t \in Tag, k \in Key : k \in tags[t] <=> t \in keys[k]

Present == {store[k] : k \in Key}

(***************************************************************************)
(* "flush removes a given key and/or tags from the cache" (cache.go:25):   *)
(* once it has deleted its keys, no entry that carried one of the tags (or *)
(* had the key) when the flush began is still in the store.                *)
(***************************************************************************)
FlushRemoves ==
    \A p \in Proc : pc[p] = "purgeKeys" => due[p].all \intersect Present = {}

(***************************************************************************)
(* Flush keeps its word for an entry under a key that was never replaced,  *)
(* evicted or flushed before it began. Only another flush that took the    *)
(* entry from the index first may still have to delete it                  *)
(* (cache.go:243-281).                                                     *)
(***************************************************************************)
FlushRemovesFresh ==
    \A p \in Proc, k \in Key :
        pc[p] = "purgeKeys" /\ store[k] \in due[p].fresh =>
            \E q \in Proc \ {p} : k \in todo[q]

=============================================================================
