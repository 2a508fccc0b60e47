------------------------- MODULE BlobManagerProofs -------------------------
(***************************************************************************)
(* Proofs about BlobManager, for any keys, contents and heap.               *)
(***************************************************************************)
EXTENDS BlobManager, TLAPS

LEMMA TypeOKInductive ==
  ASSUME TypeOK, [Next]_vars
  PROVE  TypeOK'
<1> USE BlobAssumption DEF TypeOK, Replies, Reply, heapVars, heldVars
<1>1. ASSUME NEW k \in Keys, NEW bytes \in Contents, NEW once \in BOOLEAN,
             Insert(k, bytes, once)
      PROVE  TypeOK'
  BY <1>1 DEF Insert, NewBlob
<1>2. ASSUME NEW k \in Keys, GetMissing(k)
      PROVE  TypeOK'
  BY <1>2 DEF GetMissing
<1>3. ASSUME NEW k \in Keys, GetOnce(k)
      PROVE  TypeOK'
  BY <1>3 DEF GetOnce
<1>4. ASSUME NEW k \in Keys, GetKept(k)
      PROVE  TypeOK'
  BY <1>4 DEF GetKept
<1>5. ASSUME NEW k \in Keys, Remove(k)
      PROVE  TypeOK'
  BY <1>5 DEF Remove
<1>6. CASE UNCHANGED vars
  BY <1>6 DEF vars
<1>. QED
  BY <1>1, <1>2, <1>3, <1>4, <1>5, <1>6 DEF Next

\* Type correctness of BlobManager; in particular every get that reports
\* success has set the caller's buffer.
THEOREM BlobTypeCorrect == Spec => []TypeOK
<1>1. Init => TypeOK
  BY DEF Init, TypeOK, Replies, Reply
<1>. QED
  BY <1>1, TypeOKInductive, PTL DEF Spec
-----------------------------------------------------------------------------
LEMMA SoleOwnerInductive ==
  ASSUME TypeOK, SoleOwner, [Next]_vars
  PROVE  SoleOwner'
<1> USE BlobAssumption DEF TypeOK, SoleOwner, Owned, heapVars, heldVars
<1>1. ASSUME NEW k \in Keys, NEW bytes \in Contents, NEW once \in BOOLEAN,
             Insert(k, bytes, once)
      PROVE  SoleOwner'
  <2>1. PICK b \in Blocks :
          /\ b \notin live
          /\ live' = live \cup {b}
          /\ \/ /\ blobs_[k] = NULL
                /\ blobs_' = [blobs_ EXCEPT ![k] = b]
                /\ leaked' = leaked
             \/ /\ blobs_[k] # NULL
                /\ leaked' = leaked \cup {b}
                /\ blobs_' = blobs_
    BY <1>1 DEF Insert, NewBlob
  <2>2. cache_' = cache_
    BY <1>1 DEF Insert
  <2>3. b # NULL /\ b \notin Owned /\ b \notin leaked
    BY <2>1
  <2>4. CASE blobs_[k] = NULL
    <3>1. blobs_' = [blobs_ EXCEPT ![k] = b] /\ leaked' = leaked
      BY <2>1, <2>4
    <3>2. Owned' \ {NULL} = (Owned \ {NULL}) \cup {b}
      BY <2>2, <2>3, <2>4, <3>1
    <3>. QED
      BY <2>1, <2>2, <2>3, <2>4, <3>1, <3>2
  <2>5. CASE blobs_[k] # NULL
    <3>1. leaked' = leaked \cup {b} /\ blobs_' = blobs_
      BY <2>1, <2>5
    <3>. QED
      BY <2>1, <2>2, <2>3, <3>1
  <2>. QED
    BY <2>4, <2>5
<1>2. ASSUME NEW k \in Keys, GetMissing(k)
      PROVE  SoleOwner'
  BY <1>2 DEF GetMissing
<1>3. ASSUME NEW k \in Keys, GetOnce(k)
      PROVE  SoleOwner'
  <2>1. /\ blobs_[k] # NULL
        /\ cache_' = blobs_[k]
        /\ blobs_' = [blobs_ EXCEPT ![k] = NULL]
        /\ live' = live \ {cache_}
        /\ leaked' = leaked
    BY <1>3 DEF GetOnce
  <2>2. Owned' \ {NULL} = (Owned \ {NULL}) \ {cache_}
    BY <2>1
  <2>. QED
    BY <2>1, <2>2
<1>4. ASSUME NEW k \in Keys, GetKept(k)
      PROVE  SoleOwner'
  BY <1>4 DEF GetKept
<1>5. ASSUME NEW k \in Keys, Remove(k)
      PROVE  SoleOwner'
  <2>1. CASE blobs_[k] = NULL
    BY <1>5, <2>1 DEF Remove
  <2>2. CASE blobs_[k] # NULL
    <3>1. /\ cache_' = cache_
          /\ blobs_' = [blobs_ EXCEPT ![k] = NULL]
          /\ live' = live \ {blobs_[k]}
          /\ leaked' = leaked
      BY <1>5, <2>2 DEF Remove
    <3>2. Owned' \ {NULL} = (Owned \ {NULL}) \ {blobs_[k]}
      BY <2>2, <3>1
    <3>. QED
      BY <2>2, <3>1, <3>2
  <2>. QED
    BY <2>1, <2>2
<1>6. CASE UNCHANGED vars
  BY <1>6 DEF vars
<1>. QED
  BY <1>1, <1>2, <1>3, <1>4, <1>5, <1>6 DEF Next

\* No block of the heap has two owners, none is owned after it is freed, and
\* a block without an owner comes from an insert with a key that was taken.
THEOREM OwnedOnce == Spec => []SoleOwner
<1>1. Init => SoleOwner
  BY DEF Init, SoleOwner, Owned
<1>. QED
  BY <1>1, SoleOwnerInductive, BlobTypeCorrect, PTL DEF Spec
-----------------------------------------------------------------------------
(***************************************************************************)
(* Why a buffer stands.  It points into a block that has an owner -- cache_ *)
(* or its key -- and only what ends the promise takes the block from that   *)
(* owner; only blocks without an owner are allocated and filled.            *)
(***************************************************************************)
HeldIsOwned ==
  /\ shot # NULL => shot = cache_ /\ data[shot] = seen[shot]
  /\ \A k \in Keys :
       kept[k] # NULL => /\ kept[k] = blobs_[k]
                         /\ ~remove_on_get[kept[k]]
                         /\ data[kept[k]] = seen[kept[k]]

LEMMA HeldIsOwnedInductive ==
  ASSUME TypeOK, SoleOwner, HeldIsOwned, [Next]_vars
  PROVE  HeldIsOwned'
<1> USE BlobAssumption DEF TypeOK, SoleOwner, Owned, HeldIsOwned, heapVars,
                           heldVars
<1>1. ASSUME NEW k \in Keys, NEW bytes \in Contents, NEW once \in BOOLEAN,
             Insert(k, bytes, once)
      PROVE  HeldIsOwned'
  BY <1>1 DEF Insert, NewBlob
<1>2. ASSUME NEW k \in Keys, GetMissing(k)
      PROVE  HeldIsOwned'
  BY <1>2 DEF GetMissing
<1>3. ASSUME NEW k \in Keys, GetOnce(k)
      PROVE  HeldIsOwned'
  BY <1>3 DEF GetOnce
<1>4. ASSUME NEW k \in Keys, GetKept(k)
      PROVE  HeldIsOwned'
  BY <1>4 DEF GetKept
<1>5. ASSUME NEW k \in Keys, Remove(k)
      PROVE  HeldIsOwned'
  BY <1>5 DEF Remove
<1>6. CASE UNCHANGED vars
  BY <1>6 DEF vars
<1>. QED
  BY <1>1, <1>2, <1>3, <1>4, <1>5, <1>6 DEF Next

LEMMA HeldIsOwnedAlways == Spec => []HeldIsOwned
<1>1. Init => HeldIsOwned
  BY DEF Init, HeldIsOwned
<1>. QED
  BY <1>1, HeldIsOwnedInductive, BlobTypeCorrect, OwnedOnce, PTL DEF Spec

\* What get hands out stays allocated and unchanged until the next get that
\* removes a blob, or until remove is called with its key.
THEOREM HeldStands == Spec => []BuffersStand
<1>1. TypeOK /\ SoleOwner /\ HeldIsOwned => BuffersStand
  BY DEF TypeOK, SoleOwner, Owned, HeldIsOwned, BuffersStand
<1>. QED
  BY <1>1, BlobTypeCorrect, OwnedOnce, HeldIsOwnedAlways, PTL
-----------------------------------------------------------------------------
(***************************************************************************)
(* BlobManager implements BlobStore.                                        *)
(***************************************************************************)
LEMMA StoredBlob ==
  ASSUME TypeOK, NEW k \in Keys
  PROVE  /\ Stored[k] = NULL <=> blobs_[k] = NULL
         /\ blobs_[k] # NULL =>
              /\ Stored[k].data = data[blobs_[k]]
              /\ Stored[k].once = remove_on_get[blobs_[k]]
BY BlobAssumption DEF TypeOK, Stored

LEMMA StepMaps ==
  ASSUME TypeOK, SoleOwner, [Next]_vars
  PROVE  [BS!Next]_<<Stored, answer>>
<1> USE BlobAssumption DEF TypeOK
<1>1. ASSUME NEW k \in Keys, NEW bytes \in Contents, NEW once \in BOOLEAN,
             Insert(k, bytes, once)
      PROVE  BS!Insert(k, [data |-> bytes, once |-> once])
  <2>1. PICK b \in Blocks :
          /\ NewBlob(b, bytes, once)
          /\ \/ /\ blobs_[k] = NULL
                /\ blobs_' = [blobs_ EXCEPT ![k] = b]
                /\ answer' = Reply("insert", "ok", NULL)
             \/ /\ blobs_[k] # NULL
                /\ answer' = Reply("insert", "item_already_exist", NULL)
                /\ blobs_' = blobs_
    BY <1>1 DEF Insert
  <2>2. \A j \in Keys : blobs_[j] # b
    BY <2>1 DEF NewBlob, SoleOwner, Owned
  <2>3. CASE blobs_[k] = NULL
    <3>1. /\ data' = [data EXCEPT ![b] = bytes]
          /\ remove_on_get' = [remove_on_get EXCEPT ![b] = once]
          /\ blobs_' = [blobs_ EXCEPT ![k] = b]
          /\ b # NULL
      BY <2>1, <2>3 DEF NewBlob
    <3>2. \A j \in Keys : Stored'[j] =
             IF j = k THEN [data |-> bytes, once |-> once] ELSE Stored[j]
      BY <2>2, <3>1 DEF Stored
    <3>3. Stored' = [Stored EXCEPT ![k] = [data |-> bytes, once |-> once]]
      BY <3>2 DEF Stored
    <3>. QED
      BY <2>1, <2>3, <3>3, StoredBlob DEF BS!Insert, BS!Reply, Reply
  <2>4. CASE blobs_[k] # NULL
    <3>1. Stored' = Stored
      BY <2>1, <2>2, <2>4 DEF NewBlob, Stored
    <3>. QED
      BY <2>1, <2>4, <3>1, StoredBlob DEF BS!Insert, BS!Reply, Reply
  <2>. QED
    BY <2>3, <2>4
<1>2. ASSUME NEW k \in Keys, GetMissing(k)
      PROVE  BS!Get(k)
  <2>1. Stored' = Stored
    BY <1>2 DEF GetMissing, Stored, heapVars
  <2>. QED
    BY <1>2, <2>1, StoredBlob DEF GetMissing, BS!Get, BS!Reply, Reply
<1>3. ASSUME NEW k \in Keys, GetOnce(k)
      PROVE  BS!Get(k)
  <2>1. Stored' = [Stored EXCEPT ![k] = NULL]
    BY <1>3 DEF GetOnce, Stored
  <2>. QED
    BY <1>3, <2>1, StoredBlob DEF GetOnce, BS!Get, BS!Reply, Reply
<1>4. ASSUME NEW k \in Keys, GetKept(k)
      PROVE  BS!Get(k)
  <2>1. Stored' = Stored
    BY <1>4 DEF GetKept, Stored, heapVars
  <2>. QED
    BY <1>4, <2>1, StoredBlob DEF GetKept, BS!Get, BS!Reply, Reply
<1>5. ASSUME NEW k \in Keys, Remove(k)
      PROVE  BS!Remove(k)
  <2>1. CASE blobs_[k] = NULL
    <3>1. Stored' = Stored
      BY <1>5, <2>1 DEF Remove, Stored, heapVars
    <3>. QED
      BY <1>5, <2>1, <3>1, StoredBlob DEF Remove, BS!Remove, BS!Reply, Reply
  <2>2. CASE blobs_[k] # NULL
    <3>1. Stored' = [Stored EXCEPT ![k] = NULL]
      BY <1>5, <2>2 DEF Remove, Stored
    <3>. QED
      BY <1>5, <2>2, <3>1, StoredBlob DEF Remove, BS!Remove, BS!Reply, Reply
  <2>. QED
    BY <2>1, <2>2
<1>6. CASE UNCHANGED vars
  BY <1>6 DEF vars, heapVars, Stored
<1>. QED
  <2>1. \A bytes \in Contents, once \in BOOLEAN :
          [data |-> bytes, once |-> once] \in BS!Blobs
    BY DEF BS!Blobs
  <2>. QED
    BY <1>1, <1>2, <1>3, <1>4, <1>5, <1>6, <2>1 DEF Next, BS!Next

\* To a caller that copies what it gets, BlobManager is BlobStore: keys keep
\* their first blob, and a blob inserted with remove_on_get is had once.
THEOREM ImplementsStore == Spec => ImplementsBlobStore
<1>1. Init => BS!Init
  BY DEF Init, Stored, BS!Init, BS!Reply, Reply
<1>. QED
  BY <1>1, StepMaps, BlobTypeCorrect, OwnedOnce, PTL
  DEF Spec, ImplementsBlobStore, BS!Spec
=============================================================================
