----------------------------- MODULE BlobStore -----------------------------
(***************************************************************************)
(* What BlobManager promises, without memory: a key names at most one blob; *)
(* insert never replaces one; a blob inserted with remove_on_get is handed  *)
(* out once.                                                                *)
(***************************************************************************)
CONSTANTS Keys, Contents, NULL

VARIABLES
  store,  \* the blob of each key, or NULL
  answer  \* what the last call returned

Blobs == [data : Contents, once : BOOLEAN]

Reply(op, code, data) == [op |-> op, code |-> code, data |-> data]

Init ==
  /\ store = [k \in Keys |-> NULL]
  /\ answer = Reply("none", "ok", NULL)

Insert(k, b) ==
  \/ /\ store[k] = NULL
     /\ store' = [store EXCEPT ![k] = b]
     /\ answer' = Reply("insert", "ok", NULL)
  \/ /\ store[k] # NULL
     /\ answer' = Reply("insert", "item_already_exist", NULL)
     /\ store' = store

Get(k) ==
  \/ /\ store[k] = NULL
     /\ answer' = Reply("get", "item_not_exist", NULL)
     /\ store' = store
  \/ /\ store[k] # NULL
     /\ answer' = Reply("get", "ok", store[k].data)
     /\ store' = IF store[k].once THEN [store EXCEPT ![k] = NULL] ELSE store

Remove(k) ==
  \/ /\ store[k] = NULL
     /\ answer' = Reply("remove", "item_not_exist", NULL)
     /\ store' = store
  \/ /\ store[k] # NULL
     /\ answer' = Reply("remove", "ok", NULL)
     /\ store' = [store EXCEPT ![k] = NULL]

Next == \E k \in Keys : (\E b \in Blobs : Insert(k, b)) \/ Get(k) \/ Remove(k)

Spec == Init /\ [][Next]_<<store, answer>>
=============================================================================
