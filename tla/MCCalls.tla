------------------------------ MODULE MCCalls ------------------------------
(***************************************************************************)
(* An instance for TLC of the parts that one thread calls and nothing else  *)
(* touches: apply_config and apply_params, decode_url and decode_param,     *)
(* HttpStatistics, and the constructor of Environment.  A behaviour is of   *)
(* one part; the others stay as they are at first.                          *)
(***************************************************************************)
EXTENDS UrlHelper, UrlDecode, HttpStatistics, Environment, TLC

CONSTANTS v1, v2, w, q, n1, k1, e1, e2

\* q is w and a parameter whose value is w.
MCPathOf == [t \in {w, q} |-> w]
MCGiven  == (w :> <<>>) @@ (q :> (n1 :> [scheme |-> "none", body |-> w]))

VARIABLE part

UrlRests    == params = <<>> /\ prefix = <<>> /\ call = "apply_config" /\ UrlInit
DecodeRests == /\ url = [valid |-> FALSE,
                         path |-> [scheme |-> "none", body |-> w],
                         param |-> n1 :> [scheme |-> "none", body |-> w]]
               /\ DecodeInit
InfsRest    == infs = <<>> /\ EnvironmentInit

MCInit ==
  \/ part = "url" /\ UrlInit /\ DecodeRests /\ HttpInit /\ InfsRest
  \/ part = "decode" /\ UrlRests /\ DecodeInit /\ HttpInit /\ InfsRest
  \/ part = "http" /\ UrlRests /\ DecodeRests /\ HttpInit /\ InfsRest
  \/ part = "environment" /\ UrlRests /\ DecodeRests /\ HttpInit /\ EnvironmentInit

MCNext ==
  /\ part' = part
  /\ \/ part = "url" /\ UrlNext /\ UNCHANGED <<decodeVars, httpVars, environmentVars>>
     \/ part = "decode" /\ DecodeNext /\ UNCHANGED <<urlVars, httpVars, environmentVars>>
     \/ part = "http" /\ HttpNext /\ UNCHANGED <<urlVars, decodeVars, environmentVars>>
     \/ part = "environment" /\ EnvironmentNext /\ UNCHANGED <<urlVars, decodeVars, httpVars>>

MCSpec == MCInit /\ [][MCNext]_<<part, urlVars, decodeVars, httpVars, environmentVars>>
=============================================================================
