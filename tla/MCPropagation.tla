----------------------------- MODULE MCPropagation -----------------------------
(* Values for model checking Propagation.                                  *)
EXTENDS Propagation

Party(tenant, hand, lengths, others, ttl) ==
    [tenant |-> tenant, hand |-> hand, lengths |-> lengths, others |-> others,
     demotedTTL |-> ttl]

(* A tenant with an honest key and the opt-out, beside people who change    *)
(* every kind of key on the Secret.                                         *)
Labelling == Party({"team", "prune"}, {"team", "prune", "secret-type", "operator"}, {}, TRUE, 0)

(* A tenant who tries the keys that would route, hide or expire a           *)
(* registration, with a TTL in force.                                       *)
Meddling == Party({"source", "secret-type", "orphaned-secret-type", "stale-since"},
                  {"prune"}, {}, FALSE, 1)

(* Annotations at their limits, and empty ones.                             *)
Annotating == Party({}, {}, {0, 1, 2, 3}, FALSE, 0)

MCParties == {Labelling, Meddling, Annotating}
=============================================================================
