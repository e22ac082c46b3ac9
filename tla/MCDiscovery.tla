----------------------------- MODULE MCDiscovery -----------------------------
(* Values for model checking Discovery.                                    *)
EXTENDS Discovery

(* The shape of capi (a type of its own, no plugins), then a custom         *)
(* exec-capable provider with two keys, the second of which it shares.      *)
Overlapping ==
    << [keys |-> <<"value">>, type |-> "capi", allowExec |-> FALSE],
       [keys |-> <<"conf", "value">>, type |-> None, allowExec |-> TRUE] >>

TwoSecrets == {1, 2}

(* Any two kinds of document meet in some namespace.                        *)
Meetings == {{"static", "exec", "broken"}, {"static", "exec", "alien"},
             {"both", "exec", "broken"}, {"both", "static", "alien"},
             {"broken", "alien"}}
=============================================================================
