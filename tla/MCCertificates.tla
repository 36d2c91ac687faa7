--------------------------- MODULE MCCertificates ---------------------------
(* Certificates for TLC: tasks and certificates are interchangeable, and one *)
(* certificate at least is not there at the start.                           *)
EXTENDS Certificates, TLC

MCInit == Init /\ \E c \in Certs : item[c].state = "none"
MCSpec == MCInit /\ [][Next]_vars
Symmetry == Permutations(Tasks) \cup Permutations(Certs)
=============================================================================
