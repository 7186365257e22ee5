--------------------------- MODULE TagCacheProofs ---------------------------
(***************************************************************************)
(* Proofs about the tagged cache, for any goroutines, keys and tags and    *)
(* any number of sets: type correctness, the consistency of the index, and  *)
(* what a flush removes.                                                   *)
(***************************************************************************)
EXTENDS TagCache, TLAPS

-----------------------------------------------------------------------------

(***************************************************************************)
(* The three operations of tagIndex (cache.go:294-351): each one keeps the *)
(* types and the two directions of the index inverse to each other.        *)
(***************************************************************************)
TypedIndex == tags \in [Tag -> SUBSET Key] /\ keys \in [Key -> SUBSET Tag]

LEMMA IndexTagsSync ==
    ASSUME TypedIndex, IndexInSync,
           NEW K \in SUBSET Key, NEW T \in SUBSET Tag, IndexTags(K, T)
    PROVE  TypedIndex' /\ IndexInSync'
BY DEF TypedIndex, IndexInSync, IndexTags

\* purgeTags.
LEMMA PurgeTagsSync ==
    ASSUME TypedIndex, IndexInSync, NEW T \in SUBSET Tag, PurgeTagsOf(T)
    PROVE  TypedIndex' /\ IndexInSync'
BY DEF TypedIndex, IndexInSync, PurgeTagsOf

\* purgeKeys.
LEMMA PurgeKeysSync ==
    ASSUME TypedIndex, IndexInSync, NEW K \in SUBSET Key, PurgeKeysOf(K)
    PROVE  TypedIndex' /\ IndexInSync'
BY DEF TypedIndex, IndexInSync, PurgeKeysOf

(***************************************************************************)
(* Writing the store notifies at most of the key written (cache.go:219).   *)
(***************************************************************************)
TypedStore ==
    /\ store \in [Key -> 0 .. MaxSets]
    /\ pending \in [Key -> Nat]
    /\ touched \subseteq Key

LEMMA PutTypes ==
    ASSUME TypedStore, NEW k \in Key, NEW e \in 0 .. MaxSets, Put(k, e)
    PROVE  TypedStore'
BY DEF TypedStore, Put

\* What belongs to the running operations.
TypedOps ==
    /\ pc \in [Proc -> {"idle", "setTags", "purgeTags", "delete", "purgeKeys"}]
    /\ op \in [Proc -> [keys : SUBSET Key, tags : SUBSET Tag, entry : 0 .. MaxSets]]
    /\ todo \in [Proc -> SUBSET Key]
    /\ sets \in 0 .. MaxSets
    /\ tagged \in [Entry -> SUBSET Tag]
    /\ due \in [Proc -> [all : SUBSET Entry, fresh : SUBSET Entry]]

\* TypeOK in the parts the steps change together.
LEMMA TypeParts == TypeOK <=> TypedIndex /\ TypedStore /\ TypedOps
BY DEF TypeOK, TypedIndex, TypedStore, TypedOps

-----------------------------------------------------------------------------

IInv == TypeOK /\ IndexInSync

\* The empty cache satisfies the invariant.
LEMMA InitIInv == Init => IInv
BY TagCacheAssumption DEF Init, IInv, TypeOK, IndexInSync, NoOp, NoneDue, Entry

\* Every step of the cache keeps the invariant, one case per action.
LEMMA StepIInv == IInv /\ [Next]_vars => IInv'
<1> SUFFICES ASSUME IInv, [Next]_vars PROVE IInv'
  OBVIOUS
<1> USE TagCacheAssumption
<1>t. TypedIndex /\ TypedStore /\ TypedOps /\ IndexInSync
  BY TypeParts DEF IInv
<1>e. ASSUME TypedIndex', TypedStore', TypedOps', IndexInSync' PROVE IInv'
  BY <1>e DEF IInv, TypeOK, TypedIndex, TypedStore, TypedOps
<1>1. ASSUME NEW p \in Proc, Set(p) PROVE IInv'
  <2>1. sets' = sets + 1 /\ sets' \in Entry
    BY <1>1, <1>t DEF Set, TypedOps, Entry
  <2>2. PICK k \in Key, T \in SUBSET Tag :
          /\ Put(k, sets')
          /\ op' = [op EXCEPT ![p] = [keys |-> {k}, tags |-> T, entry |-> sets']]
    BY <1>1 DEF Set
  <2>3. TypedStore'
    BY <1>t, <2>1, <2>2, PutTypes DEF Entry
  <2>4. TypedOps'
    BY <1>1, <1>t, <2>1, <2>2 DEF Set, TypedOps, Entry
  <2>5. TypedIndex' /\ IndexInSync'
    BY <1>1, <1>t DEF Set, TypedIndex, IndexInSync, index
  <2> QED BY <1>e, <2>3, <2>4, <2>5
<1>2. ASSUME NEW p \in Proc, SetTags(p) PROVE IInv'
  <2>1. op[p].keys \subseteq Key /\ op[p].tags \subseteq Tag
    BY <1>2, <1>t DEF SetTags, TypedOps
  <2>2. TypedIndex' /\ IndexInSync'
    BY <1>2, <1>t, <2>1, IndexTagsSync DEF SetTags
  <2>3. TypedStore'
    BY <1>2, <1>t DEF SetTags, TypedStore
  <2>4. TypedOps'
    BY <1>2, <1>t, <2>1 DEF SetTags, TypedOps, NoOp
  <2> QED BY <1>e, <2>2, <2>3, <2>4
<1>r. ASSUME NEW p \in Proc, SetRefused(p) PROVE IInv'
  <2>1. TypedStore' /\ TypedIndex' /\ IndexInSync'
    BY <1>r, <1>t DEF SetRefused, TypedStore, TypedIndex, IndexInSync, index
  <2>2. TypedOps'
    BY <1>r, <1>t DEF SetRefused, TypedOps
  <2> QED BY <1>e, <2>1, <2>2
<1>3. ASSUME NEW p \in Proc, Flush(p) PROVE IInv'
  <2>1. PICK K \in {{}} \union {{k} : k \in Key}, T \in SUBSET Tag :
          /\ op' = [op EXCEPT ![p] = [keys |-> K, tags |-> T, entry |-> 0]]
          /\ due' = [due EXCEPT ![p] =
               [all |-> {store[k] : k \in {x \in Key : Matching(x, K, T)}},
                fresh |-> {store[k] : k \in {x \in Key \ touched : Matching(x, K, T)}}]]
    BY <1>3 DEF Flush
  <2>2. \A k \in Key : Matching(k, K, T) => store[k] \in Entry
    BY <1>t DEF Matching, TypedStore, Entry
  <2>3. op' \in [Proc -> [keys : SUBSET Key, tags : SUBSET Tag, entry : 0 .. MaxSets]]
    BY <1>t, <2>1 DEF TypedOps
  <2>4. due' \in [Proc -> [all : SUBSET Entry, fresh : SUBSET Entry]]
    <3>1. {store[k] : k \in {x \in Key : Matching(x, K, T)}} \in SUBSET Entry
      BY <2>2
    <3>2. {store[k] : k \in {x \in Key \ touched : Matching(x, K, T)}} \in SUBSET Entry
      BY <2>2
    <3> QED BY <1>t, <2>1, <3>1, <3>2 DEF TypedOps
  <2>5. TypedOps'
    BY <1>3, <1>t, <2>3, <2>4 DEF Flush, TypedOps
  <2>6. TypedIndex' /\ TypedStore' /\ IndexInSync'
    BY <1>3, <1>t DEF Flush, TypedIndex, TypedStore, IndexInSync, index
  <2> QED BY <1>e, <2>5, <2>6
<1>4. ASSUME NEW p \in Proc, PurgeTags(p) PROVE IInv'
  <2>1. op[p].tags \subseteq Tag /\ op[p].keys \subseteq Key
    BY <1>t DEF TypedOps
  <2>2. TypedIndex' /\ IndexInSync'
    BY <1>4, <1>t, <2>1, PurgeTagsSync DEF PurgeTags
  <2>3. UNION {tags[t] : t \in op[p].tags} \subseteq Key
    BY <1>t, <2>1 DEF TypedIndex
  <2>4. op' \in [Proc -> [keys : SUBSET Key, tags : SUBSET Tag, entry : 0 .. MaxSets]]
    BY <1>4, <1>t, <2>1, <2>3 DEF PurgeTags, TypedOps
  <2>5. TypedOps' /\ TypedStore'
    BY <1>4, <1>t, <2>4 DEF PurgeTags, TypedOps, TypedStore
  <2> QED BY <1>e, <2>2, <2>5
<1>5. ASSUME NEW p \in Proc, Delete(p) PROVE IInv'
  <2>1. PICK k \in todo[p] : todo' = [todo EXCEPT ![p] = @ \ {k}] /\ Put(k, 0)
    BY <1>5 DEF Delete
  <2>2. k \in Key /\ 0 \in 0 .. MaxSets
    BY <1>t, <2>1 DEF TypedOps
  <2>3. TypedStore'
    BY <1>t, <2>1, <2>2, PutTypes
  <2>4. TypedOps' /\ TypedIndex' /\ IndexInSync'
    BY <1>5, <1>t, <2>1 DEF Delete, TypedOps, TypedIndex, IndexInSync, index
  <2> QED BY <1>e, <2>3, <2>4
<1>6. ASSUME NEW p \in Proc, EndDelete(p) PROVE IInv'
  <2>1. TypedOps' /\ TypedStore' /\ TypedIndex' /\ IndexInSync'
    BY <1>6, <1>t DEF EndDelete, TypedOps, TypedStore, TypedIndex, IndexInSync, index
  <2> QED BY <1>e, <2>1
<1>7. ASSUME NEW p \in Proc, PurgeKeys(p) PROVE IInv'
  <2>1. TypedIndex' /\ IndexInSync'
    <3>1. op[p].keys \in SUBSET Key
      BY <1>t DEF TypedOps
    <3> QED BY <1>7, <1>t, <3>1, PurgeKeysSync DEF PurgeKeys
  <2>2. TypedOps' /\ TypedStore'
    BY <1>7, <1>t DEF PurgeKeys, TypedOps, TypedStore, NoOp, NoneDue
  <2> QED BY <1>e, <2>1, <2>2
<1>8. ASSUME NEW k \in Key, Evict(k) PROVE IInv'
  <2>1. TypedStore'
    BY <1>8, <1>t, PutTypes DEF Evict
  <2>2. TypedOps' /\ TypedIndex' /\ IndexInSync'
    BY <1>8, <1>t DEF Evict, TypedOps, TypedIndex, IndexInSync, index
  <2> QED BY <1>e, <2>1, <2>2
<1>9. ASSUME NEW k \in Key, Notify(k) PROVE IInv'
  <2>1. TypedIndex' /\ IndexInSync'
    BY <1>9, <1>t, PurgeKeysSync DEF Notify
  <2>2. TypedOps' /\ TypedStore'
    BY <1>9, <1>t DEF Notify, TypedOps, TypedStore
  <2> QED BY <1>e, <2>1, <2>2
<1>10. CASE UNCHANGED vars
  BY <1>10, <1>t, <1>e
     DEF vars, index, TypedOps, TypedStore, TypedIndex, IndexInSync
<1> QED
  BY <1>1, <1>r, <1>2, <1>3, <1>4, <1>5, <1>6, <1>7, <1>8, <1>9, <1>10 DEF Next

(***************************************************************************)
(* The inductive invariant holds in every state of the cache.              *)
(***************************************************************************)
THEOREM Invariance == Spec => []IInv
BY InitIInv, StepIInv, PTL DEF Spec

(***************************************************************************)
(* The cache keeps its types.                                              *)
(***************************************************************************)
THEOREM TypeCorrect == Spec => []TypeOK
<1>1. IInv => TypeOK
  BY DEF IInv
<1> QED BY <1>1, Invariance, PTL

(***************************************************************************)
(* The two maps of the index stay inverse to each other, whatever sets,    *)
(* flushes and late notifications interleave (cache.go:294-351).           *)
(***************************************************************************)
THEOREM SyncTheorem == Spec => []IndexInSync
<1>1. IInv => IndexInSync
  BY DEF IInv
<1> QED BY <1>1, Invariance, PTL

-----------------------------------------------------------------------------
(***************************************************************************)
(* What a flush removes.                                                   *)
(***************************************************************************)

\* Each entry is under the one key it was set under; its tags are recorded when
\* its set returns. A refused set writes no entry.
Entries ==
    /\ \A k \in Key : store[k] <= sets
    /\ \A k, l \in Key : store[k] = store[l] /\ store[k] # 0 => k = l
    /\ \A e \in Entry : e > sets => tagged[e] = {}
    /\ \A p \in Proc : \A e \in due[p].fresh : e <= sets
    /\ \A p \in Proc : pc[p] = "setTags" /\ op[p].entry # 0 =>
          /\ op[p].entry <= sets
          /\ tagged[op[p].entry] = {}
          /\ \A k \in Key : store[k] = op[p].entry => k \in op[p].keys
    /\ \A p, q \in Proc :
          pc[p] = "setTags" /\ pc[q] = "setTags" /\ op[p].entry = op[q].entry =>
             op[p].entry = 0 \/ p = q

\* The index knows the tags of an entry whose key was never touched, and no
\* notification or flush is about to take them from it.
Untouched ==
    /\ \A k \in Key \ touched :
          pending[k] = 0 /\ (store[k] # 0 => tagged[store[k]] \subseteq keys[k])
    /\ \A p \in Proc :
          /\ pc[p] = "delete" => todo[p] \subseteq op[p].keys
          /\ pc[p] # "delete" => todo[p] = {}
          /\ pc[p] \in {"delete", "purgeKeys"} => op[p].keys \subseteq touched

Elsewhere(p, k) == \E q \in Proc \ {p} : k \in todo[q]

\* How a flush will find, has found or has lost to another an entry it owes.
Found(p, k) ==
    /\ pc[p] = "purgeTags" =>
          \/ k \in op[p].keys \/ Elsewhere(p, k)
          \/ k \notin touched /\ tagged[store[k]] \intersect op[p].tags # {}
    /\ pc[p] = "delete" => k \in todo[p] \/ Elsewhere(p, k)
    /\ pc[p] = "purgeKeys" => Elsewhere(p, k)

Owed == \A p \in Proc, k \in Key : store[k] \in due[p].fresh => Found(p, k)

FlushInv == IInv /\ Entries /\ Untouched /\ Owed

LEMMA InitFlushInv == Init => FlushInv
<1> SUFFICES ASSUME Init PROVE FlushInv
  OBVIOUS
<1>1. Entries
  BY TagCacheAssumption DEF Init, Entries, NoOp, NoneDue, Entry
<1>2. Untouched /\ Owed
  BY DEF Init, Untouched, Owed, NoOp, NoneDue
<1> QED
  BY <1>1, <1>2, InitIInv DEF FlushInv

\* The store after a write.
LEMMA PutStore ==
    ASSUME IInv, NEW k \in Key, NEW e \in 0 .. MaxSets, Put(k, e)
    PROVE  /\ \A l \in Key : store'[l] = IF l = k THEN e ELSE store[l]
           /\ \A l \in Key \ touched' :
                l \notin touched /\ pending'[l] = pending[l] /\ (l = k => store[k] = 0)
           /\ touched \subseteq touched' /\ touched' \subseteq touched \union {k}
BY DEF IInv, TypeOK, Put

LEMMA EntriesInv == FlushInv /\ [Next]_vars => Entries'
<1> SUFFICES ASSUME FlushInv, [Next]_vars PROVE Entries'
  OBVIOUS
<1> USE TagCacheAssumption DEF FlushInv
<1>t. TypeOK /\ Entries
  BY DEF IInv
<1>z. \A p \in Proc : \A e \in due[p].fresh : e \in Entry
  BY <1>t DEF TypeOK
<1>1. ASSUME NEW p \in Proc, Set(p) PROVE Entries'
  <2>1. sets' = sets + 1 /\ sets' \in 0 .. MaxSets /\ sets' \in Entry
    BY <1>1, <1>t DEF Set, TypeOK, Entry
  <2>2. PICK k \in Key, T \in SUBSET Tag :
          /\ Put(k, sets')
          /\ op' = [op EXCEPT ![p] = [keys |-> {k}, tags |-> T, entry |-> sets']]
    BY <1>1 DEF Set
  <2>3. \A l \in Key : store'[l] = IF l = k THEN sets' ELSE store[l]
    BY <2>1, <2>2, PutStore
  <2>4. tagged' = tagged /\ due' = due /\ pc' = [pc EXCEPT ![p] = "setTags"]
    BY <1>1 DEF Set
  <2>5. \A q \in Proc : op'[q] = IF q = p THEN [keys |-> {k}, tags |-> T, entry |-> sets'] ELSE op[q]
    BY <2>2, <1>t DEF TypeOK
  <2>6. \A q \in Proc : pc'[q] = IF q = p THEN "setTags" ELSE pc[q]
    BY <2>4, <1>t DEF TypeOK
  <2>7. \A l \in Key : store[l] <= sets /\ store[l] \in Nat
    BY <1>t DEF Entries, TypeOK
  <2>8. \A l \in Key : store'[l] <= sets'
    BY <2>1, <2>3, <2>7, <1>t DEF TypeOK
  <2>9. \A l, m \in Key : store'[l] = store'[m] /\ store'[l] # 0 => l = m
    BY <2>1, <2>3, <2>7, <1>t DEF Entries, TypeOK
  <2>10. \A e \in Entry : e > sets' => tagged'[e] = {}
    BY <2>1, <2>4, <1>t DEF Entries, TypeOK, Entry
  <2>11. \A q \in Proc : \A e \in due'[q].fresh : e <= sets'
    BY <2>1, <2>4, <1>t, <1>z DEF Entries, TypeOK, Entry
  <2>12. ASSUME NEW q \in Proc, pc'[q] = "setTags", op'[q].entry # 0
         PROVE  /\ op'[q].entry <= sets'
                /\ tagged'[op'[q].entry] = {}
                /\ \A l \in Key : store'[l] = op'[q].entry => l \in op'[q].keys
    <3>1. CASE q = p
      BY <3>1, <2>1, <2>3, <2>4, <2>5, <2>7, <1>t DEF Entries, TypeOK, Entry
    <3>2. CASE q # p
      <4>1. pc[q] = "setTags" /\ op'[q] = op[q] /\ op[q].entry <= sets /\ op[q].entry \in Nat
        BY <3>2, <2>5, <2>6, <2>12, <1>t DEF Entries, TypeOK
      <4>2. op[q].entry # sets'
        BY <4>1, <2>1, <1>t DEF TypeOK
      <4>3. tagged[op[q].entry] = {} /\ \A l \in Key : store[l] = op[q].entry => l \in op[q].keys
        BY <4>1, <2>12, <1>t DEF Entries
      <4> QED
        BY <4>1, <4>2, <4>3, <2>1, <2>3, <2>4, <1>t DEF TypeOK
    <3> QED BY <3>1, <3>2
  <2>13. ASSUME NEW q \in Proc, NEW r \in Proc,
                pc'[q] = "setTags", pc'[r] = "setTags", op'[q].entry = op'[r].entry
         PROVE  op'[q].entry = 0 \/ q = r
    <3>1. \A o \in Proc : pc[o] = "setTags" => op[o].entry <= sets /\ op[o].entry \in Nat
      BY <1>t DEF Entries, TypeOK
    <3> QED
      BY <3>1, <2>1, <2>5, <2>6, <2>13, <1>t DEF Entries, TypeOK
  <2> QED BY <2>8, <2>9, <2>10, <2>11, <2>12, <2>13 DEF Entries
<1>r. ASSUME NEW p \in Proc, SetRefused(p) PROVE Entries'
  <2>1. UNCHANGED <<store, tagged, due>> /\ sets' = sets + 1 /\ sets \in Nat
    BY <1>r, <1>t DEF SetRefused, TypeOK
  <2>2. \A q \in Proc : pc'[q] = "setTags" =>
           op'[q].entry = 0 \/ (pc[q] = "setTags" /\ op'[q] = op[q])
    BY <1>r, <1>t DEF SetRefused, TypeOK
  <2>3. \A q \in Proc : op[q].entry \in Nat
    BY <1>t DEF TypeOK
  <2>4. \A l \in Key : store[l] \in Nat
    BY <1>t DEF TypeOK
  <2>5. \A e \in Entry : e \in Nat
    BY DEF Entry
  <2> QED BY <2>1, <2>2, <2>3, <2>4, <2>5, <1>t, <1>z DEF Entries
<1>2. ASSUME NEW p \in Proc, SetTags(p) PROVE Entries'
  <2>1. UNCHANGED <<store, sets, due>>
    BY <1>2 DEF SetTags
  <2>2. op[p].entry \in 0 .. MaxSets /\ op[p].entry <= sets
    BY <1>2, <1>t DEF SetTags, Entries, TypeOK
  <2>3. \A e \in Entry : e # op[p].entry => tagged'[e] = tagged[e]
    BY <1>2, <1>t DEF SetTags, TypeOK
  <2>4. \A q \in Proc : pc'[q] = "setTags" => q # p /\ pc[q] = "setTags" /\ op'[q] = op[q]
    BY <1>2, <1>t DEF SetTags, TypeOK
  <2>5. \A q \in Proc : pc'[q] = "setTags" /\ op[q].entry # 0 =>
           op[q].entry # op[p].entry /\ op[q].entry \in Entry
    BY <1>2, <2>4, <1>t DEF SetTags, Entries, Entry, TypeOK
  <2>6. \A e \in Entry : e > sets => e # op[p].entry
    BY <2>2, <1>t DEF Entry, TypeOK
  <2> QED
    BY <2>1, <2>3, <2>4, <2>5, <2>6, <1>t DEF Entries
<1>3. ASSUME NEW p \in Proc, Flush(p) PROVE Entries'
  <2>1. PICK K \in {{}} \union {{k} : k \in Key}, T \in SUBSET Tag :
          due' = [due EXCEPT ![p] =
             [all |-> {store[k] : k \in {x \in Key : Matching(x, K, T)}},
              fresh |-> {store[k] : k \in {x \in Key \ touched : Matching(x, K, T)}}]]
    BY <1>3 DEF Flush
  <2>2. UNCHANGED <<store, sets, tagged>>
    BY <1>3 DEF Flush
  <2>3. \A q \in Proc : pc'[q] = "setTags" => pc[q] = "setTags" /\ op'[q] = op[q]
    BY <1>3, <1>t DEF Flush, TypeOK
  <2>4. \A q \in Proc : \A e \in due'[q].fresh : e <= sets
    <3>1. due'[p].fresh = {store[k] : k \in {x \in Key \ touched : Matching(x, K, T)}}
      BY <2>1, <1>t DEF TypeOK
    <3>2. \A q \in Proc : q # p => due'[q] = due[q]
      BY <2>1, <1>t DEF TypeOK
    <3> QED BY <3>1, <3>2, <1>t DEF Entries
  <2> QED
    BY <2>2, <2>3, <2>4, <1>t DEF Entries
<1>4. ASSUME NEW p \in Proc, PurgeTags(p) \/ EndDelete(p) PROVE Entries'
  <2>1. UNCHANGED <<store, sets, tagged, due>>
    BY <1>4 DEF PurgeTags, EndDelete
  <2>2. \A q \in Proc : pc'[q] = "setTags" => pc[q] = "setTags" /\ op'[q] = op[q]
    BY <1>4, <1>t DEF PurgeTags, EndDelete, TypeOK
  <2> QED BY <2>1, <2>2, <1>t DEF Entries
<1>5. ASSUME NEW k \in Key, Put(k, 0), UNCHANGED <<pc, op, sets, tagged, due>> PROVE Entries'
  <2>1. \A l \in Key : store'[l] = IF l = k THEN 0 ELSE store[l]
    BY <1>5, PutStore DEF IInv
  <2>2. 0 <= sets
    BY <1>t DEF TypeOK
  <2> QED BY <1>5, <2>1, <2>2, <1>t DEF Entries
<1>6. ASSUME NEW p \in Proc, Delete(p) PROVE Entries'
  BY <1>5, <1>6, <1>t DEF Delete, TypeOK
<1>7. ASSUME NEW p \in Proc, PurgeKeys(p) PROVE Entries'
  <2>1. UNCHANGED <<store, sets, tagged>>
    BY <1>7 DEF PurgeKeys
  <2>2. \A q \in Proc : pc'[q] = "setTags" => pc[q] = "setTags" /\ op'[q] = op[q]
    BY <1>7, <1>t DEF PurgeKeys, TypeOK
  <2>3. \A q \in Proc : due'[q].fresh \subseteq due[q].fresh
    BY <1>7, <1>t DEF PurgeKeys, NoneDue, TypeOK
  <2> QED BY <2>1, <2>2, <2>3, <1>t DEF Entries
<1>8. ASSUME NEW k \in Key, Evict(k) PROVE Entries'
  BY <1>5, <1>8 DEF Evict
<1>9. ASSUME NEW k \in Key, Notify(k) PROVE Entries'
  BY <1>9, <1>t DEF Notify, Entries
<1>10. CASE UNCHANGED vars
  BY <1>10, <1>t DEF vars, Entries
<1> QED
  BY <1>1, <1>r, <1>2, <1>3, <1>4, <1>6, <1>7, <1>8, <1>9, <1>10 DEF Next

LEMMA UntouchedInv == FlushInv /\ [Next]_vars => Untouched'
<1> SUFFICES ASSUME FlushInv, [Next]_vars PROVE Untouched'
  OBVIOUS
<1> USE TagCacheAssumption DEF FlushInv
<1>t. TypeOK /\ IndexInSync /\ Entries /\ Untouched
  BY DEF IInv
\* What holds of each key and of each goroutine.
<1> DEFINE KeyOK(l) == pending[l] = 0 /\ (store[l] # 0 => tagged[store[l]] \subseteq keys[l])
           ProcOK(q) == /\ pc[q] = "delete" => todo[q] \subseteq op[q].keys
                        /\ pc[q] # "delete" => todo[q] = {}
                        /\ pc[q] \in {"delete", "purgeKeys"} => op[q].keys \subseteq touched
<1>k. \A l \in Key \ touched : KeyOK(l)
  BY <1>t DEF Untouched
<1>p. \A q \in Proc : ProcOK(q)
  BY <1>t DEF Untouched
<1>e. ASSUME \A l \in Key \ touched' : KeyOK(l)', \A q \in Proc : ProcOK(q)' PROVE Untouched'
  BY <1>e DEF Untouched
<1>1. ASSUME NEW p \in Proc, Set(p) PROVE Untouched'
  <2>1. sets' = sets + 1 /\ sets' \in 0 .. MaxSets /\ sets' \in Entry
    BY <1>1, <1>t DEF Set, TypeOK, Entry
  <2>2. PICK k \in Key : Put(k, sets')
    BY <1>1 DEF Set
  <2>3. \A l \in Key : store'[l] = IF l = k THEN sets' ELSE store[l]
    BY <2>1, <2>2, PutStore
  <2>4. touched \subseteq touched'
        /\ \A l \in Key \ touched' : l \notin touched /\ pending'[l] = pending[l]
    BY <2>1, <2>2, PutStore
  <2>5. tagged[sets'] = {} /\ UNCHANGED <<keys, todo, tagged>>
    BY <1>1, <2>1, <1>t DEF Set, Entries, Entry, TypeOK, index
  <2>6. \A l \in Key \ touched' : KeyOK(l)'
    BY <2>3, <2>4, <2>5, <1>k
  <2>7. \A q \in Proc : q # p => pc'[q] = pc[q] /\ op'[q] = op[q]
    BY <1>1, <1>t DEF Set, TypeOK
  <2>8. pc[p] = "idle" /\ pc'[p] = "setTags"
    BY <1>1, <1>t DEF Set, TypeOK
  <2>9. \A q \in Proc : ProcOK(q)'
    BY <2>4, <2>5, <2>7, <2>8, <1>p
  <2> QED BY <2>6, <2>9, <1>e
<1>r. ASSUME NEW p \in Proc, SetRefused(p) PROVE Untouched'
  <2>1. UNCHANGED <<store, pending, keys, todo, tagged, touched>>
    BY <1>r DEF SetRefused, index
  <2>2. \A q \in Proc : q # p => pc'[q] = pc[q] /\ op'[q] = op[q]
    BY <1>r, <1>t DEF SetRefused, TypeOK
  <2>3. pc[p] = "idle" /\ pc'[p] = "setTags"
    BY <1>r, <1>t DEF SetRefused, TypeOK
  <2> QED BY <2>1, <2>2, <2>3, <1>k, <1>p, <1>e
<1>2. ASSUME NEW p \in Proc, SetTags(p) PROVE Untouched'
  <2>1. UNCHANGED <<store, pending, todo, touched>>
    BY <1>2 DEF SetTags
  <2>2. \A l \in Key : keys[l] \subseteq keys'[l] /\ (l \in op[p].keys => op[p].tags \subseteq keys'[l])
    BY <1>2 DEF SetTags, IndexTags
  <2>3. \A l \in Key : store[l] # 0 => store[l] \in Entry
    BY <1>t DEF TypeOK, Entry
  <2>4. \A l \in Key : store[l] = op[p].entry /\ store[l] # 0 => l \in op[p].keys
    BY <1>2, <1>t DEF SetTags, Entries
  <2>5. \A e \in Entry : tagged'[e] = IF e = op[p].entry THEN op[p].tags ELSE tagged[e]
    BY <1>2, <1>t DEF SetTags, TypeOK
  <2>6. \A l \in Key \ touched' : KeyOK(l)'
    BY <2>1, <2>2, <2>3, <2>4, <2>5, <1>k
  <2>7. \A q \in Proc : q # p => pc'[q] = pc[q] /\ op'[q] = op[q]
    BY <1>2, <1>t DEF SetTags, TypeOK
  <2>8. pc[p] = "setTags" /\ pc'[p] = "idle"
    BY <1>2, <1>t DEF SetTags, TypeOK
  <2>9. \A q \in Proc : ProcOK(q)'
    BY <2>1, <2>7, <2>8, <1>p
  <2> QED BY <2>6, <2>9, <1>e
<1>3. ASSUME NEW p \in Proc, Flush(p) PROVE Untouched'
  <2>1. UNCHANGED <<store, pending, keys, todo, tagged, touched>>
    BY <1>3 DEF Flush, index
  <2>2. \A q \in Proc : q # p => pc'[q] = pc[q] /\ op'[q] = op[q]
    BY <1>3, <1>t DEF Flush, TypeOK
  <2>3. pc[p] = "idle" /\ pc'[p] = "purgeTags"
    BY <1>3, <1>t DEF Flush, TypeOK
  <2> QED BY <2>1, <2>2, <2>3, <1>k, <1>p, <1>e
<1>4. ASSUME NEW p \in Proc, PurgeTags(p) PROVE Untouched'
  <2>1. UNCHANGED <<store, pending, tagged>> /\ touched' = touched \union op'[p].keys
    BY <1>4 DEF PurgeTags
  <2>2. op'[p].keys = op[p].keys \union UNION {tags[t] : t \in op[p].tags}
        /\ todo'[p] = op'[p].keys /\ pc'[p] = "delete"
    BY <1>4, <1>t DEF PurgeTags, TypeOK
  <2>3. op[p].tags \subseteq Tag
    BY <1>t DEF TypeOK
  <2>4. \A l \in Key \ touched' : keys'[l] = keys[l]
    <3> SUFFICES ASSUME NEW l \in Key \ touched' PROVE keys'[l] = keys[l]
      OBVIOUS
    <3>1. \A t \in op[p].tags : l \notin tags[t]
      BY <2>1, <2>2
    <3>2. \A t \in op[p].tags : t \notin keys[l]
      BY <3>1, <2>3, <1>t DEF IndexInSync
    <3>3. keys'[l] = keys[l] \ op[p].tags
      BY <1>4 DEF PurgeTags, PurgeTagsOf
    <3> QED BY <3>2, <3>3
  <2>5. \A l \in Key \ touched' : KeyOK(l)'
    BY <2>1, <2>4, <1>k
  <2>6. \A q \in Proc : q # p => pc'[q] = pc[q] /\ op'[q] = op[q] /\ todo'[q] = todo[q]
    BY <1>4, <1>t DEF PurgeTags, TypeOK
  <2>7. \A q \in Proc : ProcOK(q)'
    BY <2>1, <2>2, <2>6, <1>p
  <2> QED BY <2>5, <2>7, <1>e
<1>5. ASSUME NEW k \in Key, Put(k, 0), UNCHANGED <<index, pc, op, tagged>>,
             \A q \in Proc : todo'[q] \subseteq todo[q]
      PROVE  Untouched'
  <2>1. \A l \in Key : store'[l] = IF l = k THEN 0 ELSE store[l]
    BY <1>5, PutStore DEF IInv
  <2>2. touched \subseteq touched'
        /\ \A l \in Key \ touched' : l \notin touched /\ pending'[l] = pending[l]
    BY <1>5, PutStore DEF IInv
  <2>3. \A l \in Key \ touched' : KeyOK(l)'
    BY <1>5, <2>1, <2>2, <1>k DEF index
  <2>4. \A q \in Proc : ProcOK(q)'
    BY <1>5, <2>2, <1>p
  <2> QED BY <2>3, <2>4, <1>e
<1>6. ASSUME NEW p \in Proc, Delete(p) PROVE Untouched'
  <2>1. PICK k \in todo[p] : todo' = [todo EXCEPT ![p] = @ \ {k}] /\ Put(k, 0)
    BY <1>6 DEF Delete
  <2>2. k \in Key /\ \A q \in Proc : todo'[q] \subseteq todo[q]
    BY <2>1, <1>t DEF TypeOK
  <2> QED BY <1>5, <1>6, <2>1, <2>2 DEF Delete
<1>7. ASSUME NEW p \in Proc, EndDelete(p) PROVE Untouched'
  <2>1. UNCHANGED <<store, pending, keys, op, todo, tagged, touched>> /\ todo[p] = {}
    BY <1>7 DEF EndDelete, index
  <2>2. \A q \in Proc : q # p => pc'[q] = pc[q]
    BY <1>7, <1>t DEF EndDelete, TypeOK
  <2>3. pc[p] = "delete" /\ pc'[p] = "purgeKeys"
    BY <1>7, <1>t DEF EndDelete, TypeOK
  <2> QED BY <2>1, <2>2, <2>3, <1>k, <1>p, <1>e
<1>8. ASSUME NEW p \in Proc, PurgeKeys(p) PROVE Untouched'
  <2>1. UNCHANGED <<store, pending, todo, tagged, touched>>
    BY <1>8 DEF PurgeKeys
  <2>2. \A l \in Key \ touched : keys'[l] = keys[l]
    BY <1>8, <1>p DEF PurgeKeys, PurgeKeysOf
  <2>3. \A q \in Proc : q # p => pc'[q] = pc[q] /\ op'[q] = op[q]
    BY <1>8, <1>t DEF PurgeKeys, TypeOK
  <2>4. pc[p] = "purgeKeys" /\ pc'[p] = "idle"
    BY <1>8, <1>t DEF PurgeKeys, TypeOK
  <2> QED BY <2>1, <2>2, <2>3, <2>4, <1>k, <1>p, <1>e
<1>9. ASSUME NEW k \in Key, Evict(k) PROVE Untouched'
  BY <1>5, <1>9 DEF Evict
<1>10. ASSUME NEW k \in Key, Notify(k) PROVE Untouched'
  <2>1. UNCHANGED <<store, pc, op, todo, tagged, touched>>
    BY <1>10 DEF Notify
  <2>2. k \in touched
    BY <1>10, <1>k DEF Notify
  <2>3. \A l \in Key \ touched : pending'[l] = pending[l] /\ keys'[l] = keys[l]
    BY <1>10, <2>2, <1>t DEF Notify, PurgeKeysOf, TypeOK
  <2> QED BY <2>1, <2>3, <1>k, <1>p, <1>e
<1>11. CASE UNCHANGED vars
  BY <1>11, <1>k, <1>p, <1>e DEF vars, index
<1> QED
  BY <1>1, <1>r, <1>2, <1>3, <1>4, <1>6, <1>7, <1>8, <1>9, <1>10, <1>11 DEF Next

LEMMA OwedInv == FlushInv /\ [Next]_vars => Owed'
<1> SUFFICES ASSUME FlushInv, [Next]_vars,
                    NEW q \in Proc, NEW l \in Key, store'[l] \in due'[q].fresh
             PROVE  Found(q, l)'
  BY DEF Owed
<1> USE TagCacheAssumption DEF FlushInv
<1>t. TypeOK /\ IndexInSync /\ Entries /\ Untouched
  BY DEF IInv
<1>o. store[l] \in due[q].fresh => Found(q, l)
  BY DEF Owed
<1>z. 0 \notin due[q].fresh
  BY <1>t DEF TypeOK, Entry
<1>1. ASSUME NEW p \in Proc, Set(p) PROVE Found(q, l)'
  <2>1. sets' = sets + 1 /\ sets' \in 0 .. MaxSets /\ UNCHANGED <<todo, tagged, due>>
    BY <1>1, <1>t DEF Set, TypeOK
  <2>2. PICK k \in Key : Put(k, sets')
    BY <1>1 DEF Set
  <2>3. store'[l] = IF l = k THEN sets' ELSE store[l]
    BY <2>1, <2>2, PutStore
  <2>4. sets' \notin due[q].fresh
    BY <2>1, <1>t DEF Entries, TypeOK
  <2>5. l # k /\ store'[l] = store[l] /\ Found(q, l)
    BY <2>1, <2>3, <2>4, <1>o
  <2>6. l \notin touched => l \notin touched'
    BY <2>1, <2>2, <2>5, PutStore
  <2>7. IF q = p THEN pc'[q] = "setTags" ELSE pc'[q] = pc[q] /\ op'[q] = op[q]
    BY <1>1, <1>t DEF Set, TypeOK
  <2> QED BY <2>1, <2>5, <2>6, <2>7 DEF Found, Elsewhere
<1>r. ASSUME NEW p \in Proc, SetRefused(p) PROVE Found(q, l)'
  <2>1. UNCHANGED <<store, todo, tagged, touched, due>>
    BY <1>r DEF SetRefused
  <2>2. IF q = p THEN pc'[q] = "setTags" ELSE pc'[q] = pc[q] /\ op'[q] = op[q]
    BY <1>r, <1>t DEF SetRefused, TypeOK
  <2> QED BY <2>1, <2>2, <1>o DEF Found, Elsewhere
<1>2. ASSUME NEW p \in Proc, SetTags(p) PROVE Found(q, l)'
  <2>1. UNCHANGED <<store, todo, touched, due>>
    BY <1>2 DEF SetTags
  <2>2. op[p].entry # 0 => tagged[op[p].entry] = {}
    BY <1>2, <1>t DEF SetTags, Entries
  <2>3. store[l] \in Entry /\ store[l] # 0
    BY <2>1, <1>t, <1>z DEF TypeOK
  <2>4. tagged'[store[l]] = tagged[store[l]] \/ tagged[store[l]] = {}
    BY <1>2, <2>2, <2>3, <1>t DEF SetTags, TypeOK
  <2>5. IF q = p THEN pc'[q] = "idle" ELSE pc'[q] = pc[q] /\ op'[q] = op[q]
    BY <1>2, <1>t DEF SetTags, TypeOK
  <2> QED BY <2>1, <2>4, <2>5, <1>o DEF Found, Elsewhere
<1>3. ASSUME NEW p \in Proc, Flush(p) PROVE Found(q, l)'
  <2>1. PICK K \in {{}} \union {{k} : k \in Key}, T \in SUBSET Tag :
          /\ op' = [op EXCEPT ![p] = [keys |-> K, tags |-> T, entry |-> 0]]
          /\ due' = [due EXCEPT ![p] =
               [all |-> {store[k] : k \in {x \in Key : Matching(x, K, T)}},
                fresh |-> {store[k] : k \in {x \in Key \ touched : Matching(x, K, T)}}]]
    BY <1>3 DEF Flush
  <2>2. UNCHANGED <<store, todo, tagged, touched>>
    BY <1>3 DEF Flush
  <2>3. CASE q = p
    <3>1. due'[p].fresh = {store[k] : k \in {x \in Key \ touched : Matching(x, K, T)}}
      BY <2>1, <1>t DEF TypeOK
    <3>2. PICK x \in Key \ touched : Matching(x, K, T) /\ store[l] = store[x]
      BY <2>2, <2>3, <3>1
    <3>3. x = l
      BY <3>2, <1>t DEF Matching, Entries
    <3>4. op'[p].keys = K /\ op'[p].tags = T /\ pc'[p] = "purgeTags"
      BY <1>3, <2>1, <1>t DEF Flush, TypeOK
    <3> QED BY <2>2, <2>3, <3>2, <3>3, <3>4 DEF Found, Matching
  <2>4. CASE q # p
    <3>1. due'[q] = due[q] /\ pc'[q] = pc[q] /\ op'[q] = op[q]
      BY <1>3, <2>1, <2>4, <1>t DEF Flush, TypeOK
    <3> QED BY <2>2, <3>1, <1>o DEF Found, Elsewhere
  <2> QED BY <2>3, <2>4
<1>4. ASSUME NEW p \in Proc, PurgeTags(p) PROVE Found(q, l)'
  <2>1. UNCHANGED <<store, tagged, due>> /\ touched' = touched \union op'[p].keys /\ pc[p] = "purgeTags"
    BY <1>4 DEF PurgeTags
  <2>2. op'[p].keys = op[p].keys \union UNION {tags[t] : t \in op[p].tags}
        /\ todo'[p] = op'[p].keys /\ pc'[p] = "delete"
    BY <1>4, <1>t DEF PurgeTags, TypeOK
  <2>3. \A r \in Proc : r # p => pc'[r] = pc[r] /\ op'[r] = op[r] /\ todo'[r] = todo[r]
    BY <1>4, <1>t DEF PurgeTags, TypeOK
  <2>4. todo[p] = {}
    BY <2>1, <1>t DEF Untouched
  <2>5. CASE q = p
    <3>1. l \notin touched /\ tagged[store[l]] \intersect op[p].tags # {} => l \in op'[p].keys
      <4> SUFFICES ASSUME l \notin touched, NEW t \in tagged[store[l]], t \in op[p].tags
                   PROVE  l \in tags[t]
        BY <2>2
      <4>1. t \in keys[l] /\ t \in Tag
        BY <2>1, <1>t, <1>z DEF Untouched, TypeOK
      <4> QED BY <4>1, <1>t DEF IndexInSync
    <3>2. l \in op[p].keys => l \in op'[p].keys
      BY <2>2
    <3>3. Elsewhere(p, l) => Elsewhere(p, l)'
      BY <2>3 DEF Elsewhere
    <3> QED BY <2>1, <2>2, <2>5, <3>1, <3>2, <3>3, <1>o DEF Found
  <2>6. CASE q # p
    <3>1. Elsewhere(q, l) => Elsewhere(q, l)'
      BY <2>3, <2>4 DEF Elsewhere
    <3>2. l \in op'[p].keys => Elsewhere(q, l)'
      BY <2>2, <2>6 DEF Elsewhere
    <3> QED BY <2>1, <2>3, <2>6, <3>1, <3>2, <1>o DEF Found
  <2> QED BY <2>5, <2>6
<1>5. ASSUME NEW k \in Key, Put(k, 0), UNCHANGED <<pc, op, tagged, due>>,
             \A r \in Proc : todo[r] \subseteq todo'[r] \union {k}
      PROVE  Found(q, l)'
  <2>1. store'[l] = IF l = k THEN 0 ELSE store[l]
    BY <1>5, PutStore DEF IInv
  <2>2. l # k /\ store'[l] = store[l] /\ Found(q, l)
    BY <1>5, <2>1, <1>o, <1>z
  <2>3. l \notin touched => l \notin touched'
    BY <1>5, <2>2, PutStore
  <2>4. \A r \in Proc : l \in todo[r] => l \in todo'[r]
    BY <1>5, <2>2
  <2> QED BY <1>5, <2>2, <2>3, <2>4 DEF Found, Elsewhere
<1>6. ASSUME NEW p \in Proc, Delete(p) PROVE Found(q, l)'
  <2>1. PICK k \in todo[p] : todo' = [todo EXCEPT ![p] = @ \ {k}] /\ Put(k, 0)
    BY <1>6 DEF Delete
  <2>2. k \in Key /\ \A r \in Proc : todo[r] \subseteq todo'[r] \union {k}
    BY <2>1, <1>t DEF TypeOK
  <2> QED BY <1>5, <1>6, <2>1, <2>2 DEF Delete
<1>7. ASSUME NEW p \in Proc, EndDelete(p) PROVE Found(q, l)'
  <2>1. UNCHANGED <<store, op, todo, tagged, touched, due>> /\ todo[p] = {} /\ pc[p] = "delete"
    BY <1>7 DEF EndDelete
  <2>2. pc'[q] = IF q = p THEN "purgeKeys" ELSE pc[q]
    BY <1>7, <1>t DEF EndDelete, TypeOK
  <2> QED BY <2>1, <2>2, <1>o DEF Found, Elsewhere
<1>8. ASSUME NEW p \in Proc, PurgeKeys(p) PROVE Found(q, l)'
  <2>1. UNCHANGED <<store, todo, tagged, touched>>
    BY <1>8 DEF PurgeKeys
  <2>2. IF q = p THEN pc'[q] = "idle"
        ELSE pc'[q] = pc[q] /\ op'[q] = op[q] /\ due'[q] = due[q]
    BY <1>8, <1>t DEF PurgeKeys, TypeOK
  <2> QED BY <2>1, <2>2, <1>o DEF Found, Elsewhere
<1>9. ASSUME NEW k \in Key, Evict(k) PROVE Found(q, l)'
  BY <1>5, <1>9 DEF Evict
<1>10. ASSUME NEW k \in Key, Notify(k) PROVE Found(q, l)'
  BY <1>10, <1>o DEF Notify, Found, Elsewhere
<1>11. CASE UNCHANGED vars
  BY <1>11, <1>o DEF vars, Found, Elsewhere
<1> QED
  BY <1>1, <1>r, <1>2, <1>3, <1>4, <1>6, <1>7, <1>8, <1>9, <1>10, <1>11 DEF Next

(***************************************************************************)
(* When a flush has deleted its keys, an entry it had to remove whose key  *)
(* was never replaced, evicted or flushed before it began is gone, or will *)
(* be deleted by another flush that found it first, whatever sets,         *)
(* flushes, evictions and late notifications interleave (cache.go:243).    *)
(***************************************************************************)
THEOREM FlushTheorem == Spec => []FlushRemovesFresh
<1>1. FlushInv /\ [Next]_vars => FlushInv'
  BY StepIInv, EntriesInv, UntouchedInv, OwedInv DEF FlushInv
<1>2. FlushInv => FlushRemovesFresh
  BY DEF FlushInv, Owed, Found, Elsewhere, FlushRemovesFresh
<1> QED
  BY <1>1, <1>2, InitFlushInv, PTL DEF Spec

=============================================================================
