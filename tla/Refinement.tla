------------------------------ MODULE Refinement ------------------------------
(***************************************************************************)
(* Reconcile implements Registry: optimistic concurrency, a copy read      *)
(* earlier and a precondition on the write, makes every write of a pass    *)
(* look as if it were decided on the Secret as it is when written.         *)
(***************************************************************************)
EXTENDS Reconcile

(* A worker acts under a mandate from its namespace read to the end of the  *)
(* pass; the kubeconfig counts while the registration is being applied.     *)
Mandate(j) ==
    IF j.pc \in Resting THEN [key |-> None, ns |-> None, kube |-> None]
    ELSE [key |-> j.key, ns |-> j.ns, kube |-> IF j.pc \in Applying THEN j.kube ELSE None]

(* What a worker is bent on removing: the items of a loop that deletes on   *)
(* the Secret's UID alone, as long as the Secret is the object listed.      *)
Removing(j) == j.pc = "stale-delete" \/ (j.pc = "collect" /\ ProvenGone(j))

Condemned(j, held) ==
    {c \in Clusters : /\ Removing(j)
                      /\ c \in j.todo
                      /\ held[c] # None
                      /\ held[c].version # "replaced"}

mandate == [w \in Workers |-> Mandate(job[w])]
condemned == [w \in Workers |-> Condemned(job[w], copies[w])]

R == INSTANCE Registry WITH mandate <- mandate, condemned <- condemned

(* Every behaviour of the passes, their reads and their preconditioned      *)
(* writes interleaved with each other and with outside changes, is one in   *)
(* which each write happens in a single step on the Secret as it then is:   *)
(* no lost update, no write under a mandate nobody had, no removal of a     *)
(* Secret that replaced the one condemned.                                  *)
ImplementsRegistry == R!Spec

=============================================================================
