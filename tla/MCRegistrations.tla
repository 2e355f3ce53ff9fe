---------------------------- MODULE MCRegistrations ----------------------------
(* Two applicants, who may share an email address and enter each other's    *)
(* references, and two pieces of evidence.                                  *)
EXTENDS RegistrationPages, TLC

MCInitial == <<2, 1>>

\* Bound: a second piece of evidence is sent only at the first price, to applications
\* whose emails no account of others has, which upgrade nothing and got their mail.
\* Nothing about evidence reads any of this, except the initial part that was agreed.
SecondEvidenceApart ==
    \/ \E e \in Evidence : evidence[e].status = "NONE"
    \/ /\ pricing.version = 1
       /\ \A m \in Email : account[m] # "OTHER"
       /\ \A a \in Application : ~linked[a].upgrade
       /\ \A a \in Application : application[a].decision = "APPROVED" => application[a].notified = 1

Symmetry ==
    Permutations(Evidence) \cup Permutations(Application) \cup Permutations(Email)
=============================================================================
