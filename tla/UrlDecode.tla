----------------------------- MODULE UrlDecode -----------------------------
(***************************************************************************)
(* decode_url and decode_param of UrlHelper.cpp, with the blobs they may    *)
(* take out of BlobManager (as BlobStore promises them).                    *)
(*                                                                          *)
(* A text is plain, or it names a scheme and what the scheme is applied to: *)
(* an encoded text, the key of a blob, a file.  One call strips one scheme. *)
(* An encoded text that its decoder refuses has the body NULL; among these  *)
(* are the codes of "E1", "E2" (base16) and of the empty text (base64).     *)
(***************************************************************************)
EXTENDS Naturals

CONSTANTS
  Words,    \* plain texts
  Given,    \* the parameters in each, a function of some Names
  PathOf,   \* what is left of each without its parameters, a plain text
  Names,    \* names of parameters
  Keys,     \* keys of blobs
  Indices,  \* key indices of 3des texts
  NULL

gsKeys == 11  \* entries of gsKey, of which the first is not used

Plain    == [scheme : {"none"}, body : Words]
Located  == [scheme : {"blob"}, body : Keys] \cup [scheme : {"file"}, body : {NULL}]
Encoded  == [scheme : {"base"}, body : Plain \cup Located \cup {NULL}]
Ciphered == [scheme : {"3des"}, index : Indices, body : Plain \cup {NULL}]
Texts    == Plain \cup Located \cup Encoded \cup Ciphered

UrlTexts == Plain \cup Located  \* bound: texts in blobs and files

VARIABLES
  url,            \* the url of the caller: path, parameters, is_valid()
  ret,            \* what the last decode returned, and its error code
  store, answer   \* the blobs, and what the last call of BlobManager returned

decodeVars == <<url, ret, store, answer>>

BS == INSTANCE BlobStore WITH Contents <- UrlTexts

\* The url as it was parsed: a plain path has no parameters in it.
Urls == [valid : BOOLEAN,
         path : {t \in Texts : t.scheme = "none" => PathOf[t.body] = t.body},
         param : [Names -> Texts]]

DecodeInit ==
  /\ url \in Urls
  /\ ret = [ok |-> TRUE, ec |-> "none"]
  /\ BS!Init
-----------------------------------------------------------------------------
\* The caller changes his url, or somebody calls BlobManager.
Between ==
  /\ ret' = [ok |-> TRUE, ec |-> "none"]
  /\ \/ /\ \E t \in Texts :
             url' \in Urls \cap ({[url EXCEPT !.path = t]} \cup
                               {[url EXCEPT !.param[n] = t] : n \in Names})
        /\ UNCHANGED <<store, answer>>
     \/ BS!Next /\ UNCHANGED url

Readable(t) == t.body # NULL /\ (t.scheme = "3des" => t.index \in 1..gsKeys - 1)

\* decode with the first scheme that matches: out is the output, or ec the
\* error that left it alone.
decode(t, out, ec) ==
  \/ /\ t.scheme = "none"
     /\ out = t /\ ec = "ok"
     /\ UNCHANGED <<store, answer>>
  \/ /\ t.scheme \in {"base", "3des"}
     /\ IF Readable(t) THEN out = t.body /\ ec = "ok"
                       ELSE out = NULL /\ ec = "invalid_argument"
     /\ UNCHANGED <<store, answer>>
  \/ /\ t.scheme = "blob"
     /\ BS!Get(t.body)
     /\ out = answer'.data /\ ec = answer'.code
  \/ /\ t.scheme = "file"  \* the file may be there or not
     /\ ec = IF out = NULL THEN "system_error" ELSE "ok"
     /\ UNCHANGED <<store, answer>>

Outputs == UrlTexts \cup {NULL}
Codes   == {"ok", "invalid_argument", "item_not_exist", "system_error"}

\* What the url of a text consists of.
Path(t)      == IF t.scheme = "none" THEN [t EXCEPT !.body = PathOf[t.body]] ELSE t
Parameters(t) == IF t.scheme = "none" THEN Given[t.body] ELSE <<>>

decode_url ==
  \/ /\ ~url.valid
     /\ ret' = [ok |-> FALSE, ec |-> "invalid_url"]
     /\ UNCHANGED <<url, store, answer>>
  \/ /\ url.valid
     /\ \E out \in Outputs, ec \in Codes :
          /\ decode(url.path, out, ec)
          /\ ret' = [ok |-> TRUE, ec |-> ec]
          /\ url' = IF ec # "ok" THEN url
                    ELSE [url EXCEPT
                            !.path = Path(out),
                            !.param = [n \in Names |->
                                         IF n \in DOMAIN Parameters(out)
                                           THEN Parameters(out)[n] ELSE @[n]]]

\* Wrong on purpose: the result is not put back.
decode_param_lost(n) ==
  \E out \in Outputs, ec \in Codes :
    /\ decode(url.param[n], out, ec)
    /\ ret' = [ok |-> ec = "ok", ec |-> ec]
    /\ url' = url

decode_param(n) ==
  \E out \in Outputs, ec \in Codes :
    /\ decode(url.param[n], out, ec)
    /\ ret' = [ok |-> ec = "ok", ec |-> ec]
    /\ url' = IF ec # "ok" THEN url ELSE [url EXCEPT !.param[n] = out]

DecodeNext == Between \/ decode_url \/ \E n \in Names : decode_param(n)

DecodeSpec == DecodeInit /\ [][DecodeNext]_decodeVars
-----------------------------------------------------------------------------
(* Properties. *)

\* A call that sets an error code leaves the url and the blobs alone, though
\* decode_url then returns true; and a blob that is there only once is not
\* lost: when it goes, the caller has it in his url.
NothingHalfDone ==
  [][/\ ret'.ec \notin {"ok", "none"} => UNCHANGED <<url, store>>
     /\ \A k \in Keys :
           ret'.ec # "none" /\ store'[k] # store[k] =>
             /\ store[k].once
             /\ \/ url'.path = Path(store[k].data)
                \/ \E n \in Names : url'.param[n] = store[k].data]_decodeVars
=============================================================================
