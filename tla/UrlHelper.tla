----------------------------- MODULE UrlHelper -----------------------------
(***************************************************************************)
(* The parameters of a url, as UrlHelper.cpp uses them: apply_config puts   *)
(* those whose key begins with a prefix in a configuration, apply_params    *)
(* fills the gaps of another url.  Both walk over the parameters in order;  *)
(* a key may come up more than once.                                        *)
(*                                                                          *)
(* A key is a sequence of characters, of which only "." matters.            *)
(***************************************************************************)
EXTENDS Naturals, SequencesExt

CONSTANTS
  Chars,      \* characters of keys, "." among them
  Values,     \* values other than the empty one
  Empty,      \* the empty value, and that of a parameter that is not there
  MaxKey,     \* bound: length of a key
  MaxPrefix,  \* bound: length of the prefix
  MaxConfig,  \* bound: parameters apply_config is given
  MaxParams   \* bound: parameters apply_params is given

ASSUME UrlAssumption == "." \in Chars /\ Empty \notin Values

VARIABLES
  call,       \* the function at work
  params,     \* the parameters it walks over, in order
  iter,       \* the one it is at
  prefix,
  config,     \* what apply_config has set: value of [section, key]
  dst0, dst   \* parameters of the url apply_params fills: before, and now

urlVars == <<call, params, iter, prefix, config, dst0, dst>>

Param(keys) == [key : keys, value : Values \cup {Empty}]

\* The names of apply_params: it only compares them.
Short == {<<c>> : c \in Chars}

UrlInit ==
  /\ iter = 1
  /\ config = <<>>
  /\ \/ /\ call = "apply_config"
        /\ params \in BoundedSeq(Param(BoundedSeq(Chars, MaxKey)), MaxConfig)
        /\ prefix \in BoundedSeq(Chars, MaxPrefix)
        /\ dst0 = [k \in Short |-> Empty]
     \/ /\ call = "apply_params"
        /\ params \in BoundedSeq(Param(Short), MaxParams)
        /\ prefix = <<>>
        /\ dst0 \in [Short -> Values \cup {Empty}]
  /\ dst = dst0
-----------------------------------------------------------------------------
key   == params[iter].key
value == params[iter].value

\* 1 + key.rfind('.'), 0 if there is none
pos_dot == SelectLastInSeq(key, LAMBDA c : c = ".")

\* Wrong on purpose: off by one, the section may be empty.
TakenLoose == IsPrefix(prefix, key) /\ pos_dot # 0 /\ pos_dot >= Len(prefix) + 1

\* The key begins with the prefix and has a dot behind it that leaves room
\* for a section.
Taken == IsPrefix(prefix, key) /\ pos_dot # 0 /\ pos_dot - 1 > Len(prefix)

\* The section and the name on the two sides of that dot.
KeySetting ==
  [section |-> SubSeq(key, Len(prefix) + 1, pos_dot - 1),
   key     |-> SubSeq(key, pos_dot + 1, Len(key))]

apply_config ==
  /\ call = "apply_config"
  /\ iter <= Len(params)
  /\ iter' = iter + 1
  /\ config' =
       IF Taken
         THEN [s \in DOMAIN config \cup {KeySetting} |->
                 IF s = KeySetting THEN value ELSE config[s]]
         ELSE config
  /\ UNCHANGED <<call, params, prefix, dst0, dst>>

\* Wrong on purpose: goes by what dst had before.
apply_params_blind ==
  /\ call = "apply_params"
  /\ iter <= Len(params)
  /\ iter' = iter + 1
  /\ dst' = IF dst0[key] = Empty THEN [dst EXCEPT ![key] = value] ELSE dst
  /\ UNCHANGED <<call, params, prefix, config, dst0>>

apply_params ==
  /\ call = "apply_params"
  /\ iter <= Len(params)
  /\ iter' = iter + 1
  /\ dst' = IF dst[key] = Empty THEN [dst EXCEPT ![key] = value] ELSE dst
  /\ UNCHANGED <<call, params, prefix, config, dst0>>

UrlNext == apply_config \/ apply_params

UrlSpec == UrlInit /\ [][UrlNext]_urlVars
-----------------------------------------------------------------------------
(* Properties: what the two functions compute, without walking. *)

\* A key is prefix, section, dot and name, the name being all behind the
\* last dot, in at most one way.
Means(k, setting) ==
  /\ k = prefix \o setting.section \o <<".">> \o setting.key
  /\ setting.section # <<>>
  /\ "." \notin ToSet(setting.key)

\* apply_config sets exactly the settings that keys mean, to the value of
\* the last parameter that means them.
ConfigFromKeys ==
  call = "apply_config" =>
    /\ \A i \in 1..iter - 1 :
         \A s \in {<<>>} \cup SubSeqs(params[i].key),
            n \in {<<>>} \cup SubSeqs(params[i].key) :
           LET setting == [section |-> s, key |-> n]
           IN  Means(params[i].key, setting) =>
                 /\ setting \in DOMAIN config
                 /\ (\A j \in i + 1..iter - 1 : ~Means(params[j].key, setting))
                      => config[setting] = params[i].value
    /\ \A setting \in DOMAIN config :
         \E i \in 1..iter - 1 : Means(params[i].key, setting)

\* apply_params leaves what dst has, and gives the rest the first value that
\* is not empty.
GapsFilled ==
  call = "apply_params" =>
    \A k \in Short :
      LET given == {i \in 1..iter - 1 : params[i].key = k /\ params[i].value # Empty}
      IN  dst[k] = IF dst0[k] # Empty THEN dst0[k]
                   ELSE IF given = {} THEN Empty
                   ELSE params[Min(given)].value
=============================================================================
