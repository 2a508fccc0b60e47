---------------------------- MODULE BlobManager ----------------------------
(***************************************************************************)
(* BlobManager.cpp with its memory.  Every Blob is one block of the heap (a *)
(* Blob and the storage of its vector live and die together); cache_ owns   *)
(* the block of the last blob handed out with remove_on_get.  get hands out *)
(* a pointer into a block, never a copy, so what a caller holds is only as  *)
(* good as the block.  A block that is freed can be allocated again.        *)
(*                                                                          *)
(* The code has no lock: calls are sequential.                              *)
(***************************************************************************)
CONSTANTS
  Keys, Contents,
  Blocks,  \* bound: the heap
  NULL     \* no block, no data

ASSUME BlobAssumption ==
  NULL \notin Blocks \cup Contents \cup [data : Contents, once : BOOLEAN]

VARIABLES
  blobs_,         \* the block of each key, or NULL
  cache_,         \* the block cache_ owns, or NULL
  data,           \* the bytes in each block
  remove_on_get,  \* the flag in each block
  live,           \* blocks allocated and not freed
  answer,         \* what the last call returned
  \* history
  leaked,         \* blocks nobody will ever free
  shot,           \* block handed out by the last get that removed
  kept,           \* block of each key handed out by a get that did not
  seen            \* the bytes of a block when it was handed out

heapVars == <<data, remove_on_get, live, leaked>>
heldVars == <<shot, kept, seen>>
vars     == <<blobs_, cache_, answer, heapVars, heldVars>>

Reply(op, code, bytes) == [op |-> op, code |-> code, data |-> bytes]

Init ==
  /\ blobs_ = [k \in Keys |-> NULL]
  /\ cache_ = NULL
  /\ data \in [Blocks -> Contents]
  /\ remove_on_get = [b \in Blocks |-> FALSE]
  /\ live = {}
  /\ answer = Reply("none", "ok", NULL)
  /\ leaked = {}
  /\ shot = NULL
  /\ kept = [k \in Keys |-> NULL]
  /\ seen = data
-----------------------------------------------------------------------------
\* new Blob(bytes, once): some free block
NewBlob(b, bytes, once) ==
  /\ b \notin live
  /\ live' = live \cup {b}
  /\ data' = [data EXCEPT ![b] = bytes]
  /\ remove_on_get' = [remove_on_get EXCEPT ![b] = once]

\* Wrong on purpose: blobs_[key] = new Blob.
InsertOver(k, bytes, once) ==
  \E b \in Blocks :
    /\ NewBlob(b, bytes, once)
    /\ blobs_' = [blobs_ EXCEPT ![k] = b]
    /\ leaked' = IF blobs_[k] = NULL THEN leaked ELSE leaked \cup {blobs_[k]}
    /\ answer' = Reply("insert", "ok", NULL)
    /\ UNCHANGED <<cache_, heldVars>>

\* The Blob is made before the map is asked; when the key is taken nobody
\* has a pointer to it.
Insert(k, bytes, once) ==
  \E b \in Blocks :
    /\ NewBlob(b, bytes, once)
    /\ \/ /\ blobs_[k] = NULL
          /\ blobs_' = [blobs_ EXCEPT ![k] = b]
          /\ answer' = Reply("insert", "ok", NULL)
          /\ UNCHANGED leaked
       \/ /\ blobs_[k] # NULL
          /\ leaked' = leaked \cup {b}
          /\ answer' = Reply("insert", "item_already_exist", NULL)
          /\ UNCHANGED blobs_
    /\ UNCHANGED <<cache_, heldVars>>

\* Wrong on purpose: no error code.
GetMissingOk(k) ==
  /\ blobs_[k] = NULL
  /\ answer' = Reply("get", "ok", NULL)
  /\ UNCHANGED <<blobs_, cache_, heapVars, heldVars>>

GetMissing(k) ==
  /\ blobs_[k] = NULL
  /\ answer' = Reply("get", "item_not_exist", NULL)
  /\ UNCHANGED <<blobs_, cache_, heapVars, heldVars>>

\* Wrong on purpose: the buffer points into the Blob, which is deleted.
GetOnceNoSwap(k) ==
  /\ blobs_[k] # NULL
  /\ remove_on_get[blobs_[k]]
  /\ live' = live \ {blobs_[k]}
  /\ blobs_' = [blobs_ EXCEPT ![k] = NULL]
  /\ answer' = Reply("get", "ok", data[blobs_[k]])
  /\ shot' = blobs_[k]
  /\ seen' = [seen EXCEPT ![blobs_[k]] = data[blobs_[k]]]
  /\ UNCHANGED <<cache_, data, remove_on_get, leaked, kept>>

\* The block moves from the Blob to cache_; the one cache_ had is deleted
\* with the Blob.
GetOnce(k) ==
  /\ blobs_[k] # NULL
  /\ remove_on_get[blobs_[k]]
  /\ cache_' = blobs_[k]
  /\ live' = live \ {cache_}
  /\ blobs_' = [blobs_ EXCEPT ![k] = NULL]
  /\ answer' = Reply("get", "ok", data[blobs_[k]])
  /\ shot' = blobs_[k]
  /\ seen' = [seen EXCEPT ![blobs_[k]] = data[blobs_[k]]]
  /\ UNCHANGED <<data, remove_on_get, leaked, kept>>

GetKept(k) ==
  /\ blobs_[k] # NULL
  /\ ~remove_on_get[blobs_[k]]
  /\ answer' = Reply("get", "ok", data[blobs_[k]])
  /\ kept' = [kept EXCEPT ![k] = blobs_[k]]
  /\ seen' = [seen EXCEPT ![blobs_[k]] = data[blobs_[k]]]
  /\ UNCHANGED <<blobs_, cache_, heapVars, shot>>

\* Wrong on purpose: the Blob is deleted, its pointer stays in the map.
RemoveNoErase(k) ==
  \/ /\ blobs_[k] = NULL
     /\ answer' = Reply("remove", "item_not_exist", NULL)
     /\ UNCHANGED <<blobs_, cache_, heapVars, heldVars>>
  \/ /\ blobs_[k] # NULL
     /\ live' = live \ {blobs_[k]}
     /\ answer' = Reply("remove", "ok", NULL)
     /\ kept' = [kept EXCEPT ![k] = NULL]
     /\ UNCHANGED <<blobs_, cache_, data, remove_on_get, leaked, shot, seen>>

Remove(k) ==
  \/ /\ blobs_[k] = NULL
     /\ answer' = Reply("remove", "item_not_exist", NULL)
     /\ UNCHANGED <<blobs_, cache_, heapVars, heldVars>>
  \/ /\ blobs_[k] # NULL
     /\ live' = live \ {blobs_[k]}
     /\ blobs_' = [blobs_ EXCEPT ![k] = NULL]
     /\ answer' = Reply("remove", "ok", NULL)
     /\ kept' = [kept EXCEPT ![k] = NULL]
     /\ UNCHANGED <<cache_, data, remove_on_get, leaked, shot, seen>>

Next ==
  \E k \in Keys :
    \/ \E bytes \in Contents, once \in BOOLEAN : Insert(k, bytes, once)
    \/ GetMissing(k)
    \/ GetOnce(k)
    \/ GetKept(k)
    \/ Remove(k)

Spec == Init /\ [][Next]_vars
-----------------------------------------------------------------------------
(* Properties. *)

Replies ==
  [op : {"get"}, code : {"ok"}, data : Contents]
    \cup [op : {"get", "insert", "remove"},
          code : {"item_not_exist", "item_already_exist"}, data : {NULL}]
    \cup [op : {"none", "insert", "remove"}, code : {"ok"}, data : {NULL}]

\* Types; a get that reports success has set the buffer, and only such a get.
TypeOK ==
  /\ blobs_ \in [Keys -> Blocks \cup {NULL}]
  /\ cache_ \in Blocks \cup {NULL}
  /\ data \in [Blocks -> Contents]
  /\ remove_on_get \in [Blocks -> BOOLEAN]
  /\ live \subseteq Blocks
  /\ answer \in Replies
  /\ leaked \subseteq Blocks
  /\ shot \in Blocks \cup {NULL}
  /\ kept \in [Keys -> Blocks \cup {NULL}]
  /\ seen \in [Blocks -> Contents]

Owned == {blobs_[k] : k \in Keys} \cup {cache_}

\* No block has two owners or an owner after it is freed, so that delete is
\* never called twice; and the only blocks without an owner are those insert
\* made for a key that was taken.
SoleOwner ==
  /\ \A j, k \in Keys : j # k /\ blobs_[j] # NULL => blobs_[j] # blobs_[k]
  /\ cache_ # NULL => \A k \in Keys : blobs_[k] # cache_
  /\ live = (Owned \ {NULL}) \cup leaked
  /\ Owned \cap leaked = {}

\* What a caller of get holds stays as it was: after a get that removed the
\* blob until the next such get, after any other get until remove is called
\* with that key -- no insert, no get or remove of other keys disturbs it.
BuffersStand ==
  /\ shot # NULL => shot \in live /\ data[shot] = seen[shot]
  /\ \A k \in Keys :
       kept[k] # NULL => kept[k] \in live /\ data[kept[k]] = seen[kept[k]]
-----------------------------------------------------------------------------
(* The blobs a caller can ask for, read off the heap. *)

Stored == [k \in Keys |->
             IF blobs_[k] = NULL THEN NULL
             ELSE [data |-> data[blobs_[k]], once |-> remove_on_get[blobs_[k]]]]

BS == INSTANCE BlobStore WITH store <- Stored

\* A caller that copies what it gets cannot tell BlobManager from BlobStore:
\* moving blocks between the map and the cache, and reusing them, does not
\* show.
ImplementsBlobStore == BS!Spec
=============================================================================
