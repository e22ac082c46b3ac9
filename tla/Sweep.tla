-------------------------------- MODULE Sweep --------------------------------
(***************************************************************************)
(* --once: one sweep over every key, beside the controller.                *)
(*                                                                         *)
(* The sweep builds no manager and takes no lease, so nothing keeps it     *)
(* from running while the controller does.  It lists its keys once, runs   *)
(* ReconcileOne on each in the order of the names, keeps the errors for    *)
(* the end, and exits.  No queue stands behind it: what a pass leaves      *)
(* undone is not done again.                                               *)
(*                                                                         *)
(* It is one more worker of Reconcile; the others are the processes of     *)
(* Controller.                                                             *)
(***************************************************************************)
EXTENDS Controller

CONSTANT Sweeper   \* the worker that runs --once

ASSUME SweeperAssumption == Sweeper \in Workers

VARIABLES
    sweep,   \* how far the sweep is
    owed     \* the registrations that were there to be removed all along

sweptVars == <<allVars, sweep>>
everything == <<sweptVars, owed>>

Stage == {"not-run", "namespaces", "secrets", "passes", "ended", "died"}

(* failed holds the namespaces whose pass ended in an error; exit is the    *)
(* error Reconcile returns.                                                 *)
NotRun == [at |-> "not-run", keys |-> {}, failed |-> {}, exit |-> "none"]

(* A registration whose namespace is gone, and which nobody pinned.         *)
Orphan(c) ==
    /\ secrets[c] # None
    /\ secrets[c].owned
    /\ ~secrets[c].pinned
    /\ secrets[c].source # None
    /\ namespaces[secrets[c].source] = None

(* What is owed are the orphans there when the sweep starts, for as long as *)
(* each stays one, and the same object.                                     *)
Owing ==
    owed' = {c \in (IF sweep.at = "not-run" THEN Clusters ELSE owed) : Orphan(c)' /\ ~HandReplace(c)}

-----------------------------------------------------------------------------
Launch ==
    /\ sweep.at = "not-run"
    /\ sweep' = [sweep EXCEPT !.at = "namespaces"]
    /\ UNCHANGED allVars

(* reconcileKeys.                                                          *)
ListNamespaces ==
    /\ sweep.at = "namespaces"
    /\ sweep' = [sweep EXCEPT !.at = "secrets", !.keys = WatchedNames]
    /\ UNCHANGED allVars

Keys(known) == known \cup RecordedNames

ListSecrets ==
    /\ sweep.at = "secrets"
    /\ sweep' = [sweep EXCEPT !.at = "passes", !.keys = Keys(@)]
    /\ UNCHANGED allVars

(* Without the keys there is no sweep at all.                               *)
ListFails ==
    /\ sweep.at \in {"namespaces", "secrets"}
    /\ sweep' = [sweep EXCEPT !.at = "died", !.keys = {}, !.exit = "error"]
    /\ Failing
    /\ UNCHANGED <<vars, phase, seeds, queue>>

(* The next key, in order; its namespace is read.                          *)
NextKey(n) == n \in sweep.keys /\ \A m \in sweep.keys : n <= m

Visit(n) ==
    /\ sweep.at = "passes"
    /\ NextKey(n)
    /\ GetNamespace(Sweeper, n)
    /\ sweep' = [sweep EXCEPT !.keys = @ \ {n}]
    /\ UNCHANGED controllers

VisitFails(n) ==
    /\ sweep.at = "passes"
    /\ NextKey(n)
    /\ GetFails(Sweeper, n)
    /\ sweep' = [sweep EXCEPT !.keys = @ \ {n}]
    /\ Failing
    /\ UNCHANGED <<phase, seeds, queue>>

SweepCall ==
    /\ Call(Sweeper)
    /\ UNCHANGED sweep

SweepCallFails ==
    /\ CallFails(Sweeper)
    /\ UNCHANGED sweep

(* A pass is over.  Its error is kept, and the next key has its turn.       *)
StoppedAfter(s, n, outcome) ==
    IF outcome = "failed" THEN [s EXCEPT !.failed = @ \cup {n}, !.keys = {}] ELSE s

NextAfter(s, n, outcome) ==
    IF outcome = "failed" THEN [s EXCEPT !.failed = @ \cup {n}] ELSE s

PassDone ==
    /\ sweep.at = "passes"
    /\ Return(Sweeper)
    /\ sweep' = NextAfter(sweep, job[Sweeper].key, job[Sweeper].pc)
    /\ UNCHANGED controllers

(* The audit comes last; it changes nothing, but it may fail.               *)
Exit(errors) ==
    /\ sweep.at = "passes"
    /\ sweep.keys = {}
    /\ job[Sweeper].pc = "idle"
    /\ sweep' = [sweep EXCEPT !.at = "ended",
                              !.exit = IF errors = {} THEN "success" ELSE "error"]

Audit ==
    /\ Exit(sweep.failed)
    /\ UNCHANGED allVars

AuditFails ==
    /\ Exit({"audit"})
    /\ Failing
    /\ UNCHANGED <<vars, phase, seeds, queue>>

(* Interrupted, on somebody's laptop.                                       *)
Interrupt ==
    /\ sweep.at \in {"namespaces", "secrets", "passes"}
    /\ Turn(Sweeper, Idle, Nothing)
    /\ sweep' = [sweep EXCEPT !.at = "died", !.keys = {}, !.exit = "error"]
    /\ Failing
    /\ UNCHANGED <<phase, seeds, queue>>

-----------------------------------------------------------------------------
(* What an earlier controller may have left behind as a Secret: nothing, or *)
(* a registration of a namespace that is still there or gone by now, or one *)
(* that somebody took the source label off.                                 *)
Left ==
    {None} \cup
    [owned: {TRUE}, source: Namespaces \cup {None}, uid: {1}, named: {TRUE}, state: {"active"},
     since: {None}, pinned: BOOLEAN, kube: Kubeconfigs]

AddressesApart ==
    \A c, d \in Clusters :
        secrets[c] # None /\ secrets[d] # None /\ secrets[c].source # secrets[d].source =>
            Address[secrets[c].kube] # Address[secrets[d].kube]

SweepInit ==
    /\ \E ns \in [Namespaces -> {None} \cup {Fresh(1, 0, c) : c \in Clusters}] :
           /\ namespaces = ns
           /\ kubeconfigs \in {k \in [Namespaces -> Kubeconfigs \cup {None}] :
                                  \A n \in Namespaces : ns[n] = None <=> k[n] = None}
    /\ uids = [n \in Namespaces |-> 1]
    /\ secrets \in [Clusters -> Left]
    /\ AddressesApart
    /\ now = 0
    /\ edits = 0
    /\ job = [w \in Workers |-> Idle]
    /\ copies = [w \in Workers |-> Nothing]
    /\ phase = [p \in Workers |-> "down"]
    /\ seeds = [p \in Workers |-> {}]
    /\ queue = [p \in Workers |-> {}]
    /\ faults = 0
    /\ sweep = NotRun
    /\ owed = {}

Steps ==
    \/ Launch \/ ListNamespaces \/ ListSecrets \/ ListFails
    \/ \E n \in Namespaces : Visit(n) \/ VisitFails(n)
    \/ SweepCall \/ SweepCallFails \/ PassDone \/ Audit \/ AuditFails \/ Interrupt

(* Everybody else.                                                         *)
Beside ==
    /\ (\E p \in Workers \ {Sweeper} : Runs(p)) \/ World
    /\ UNCHANGED sweep

SweepNext == (Steps \/ Beside) /\ Owing

SweepSpec == SweepInit /\ [][SweepNext]_everything

(* The controller is scheduled as it always is; nothing makes anybody run   *)
(* a sweep, but one that runs gets on.                                      *)
SweepFairness ==
    /\ \A p \in Workers \ {Sweeper} : FairTo(p)
    /\ WF_sweptVars(ListNamespaces)
    /\ WF_sweptVars(ListSecrets)
    /\ \A n \in Namespaces : WF_sweptVars(Visit(n))
    /\ WF_sweptVars(SweepCall)
    /\ WF_sweptVars(PassDone)
    /\ WF_sweptVars(Audit)

FairSweepSpec == SweepSpec /\ SweepFairness

-----------------------------------------------------------------------------
(* Properties.                                                             *)

(* Only a sweep makes the controller forget: as long as nobody runs one, a  *)
(* seeded process has every managed and every recorded namespace in its     *)
(* queue or in hand.                                                        *)
ForgottenOnlyBeside == sweep.at = "not-run" => NothingForgotten

(* One bad namespace does not stop the others, nor hide behind them: when a *)
(* sweep has gone through its keys, an orphan that was there from start to  *)
(* end is left only if the pass over its own namespace failed, and then the *)
(* exit says so.                                                            *)
OrphansSwept ==
    sweep.at = "ended" =>
        \A c \in owed : secrets[c].source \in sweep.failed /\ sweep.exit = "error"

=============================================================================
