------------------------------- MODULE MCAudit -------------------------------
(* Values for model checking Audit.                                        *)
EXTENDS Audit

Conf(readable, exec, cert) == [readable |-> readable, exec |-> exec, cert |-> cert]

(* What the registrar writes, and what only a person can have written.      *)
Static == {Conf(TRUE, FALSE, "dated")}
AllKinds == Static \cup {Conf(TRUE, TRUE, None), Conf(TRUE, FALSE, None),
                        Conf(TRUE, TRUE, "dated"), Conf(TRUE, FALSE, "corrupt"),
                        Conf(FALSE, FALSE, None)}

MCKinds == {[configs |-> AllKinds, changes |-> 1], [configs |-> Static, changes |-> 2]}
=============================================================================
