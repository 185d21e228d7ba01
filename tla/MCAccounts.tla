----------------------------- MODULE MCAccounts -----------------------------
(* Accounts for TLC: one Google subject that writes its address with       *)
(* capitals and later has another address, and one whose address Google    *)
(* has not verified; two names of which one's second candidate is the      *)
(* other's first.                                                          *)
EXTENDS Accounts, TLC

CONSTANTS b1, b2, s1, s2

Claims(s, b, mixed, verified) ==
  [subject |-> s, email |-> [box |-> b, mixed |-> mixed], verified |-> verified]
MCGoogle == {Claims(s1, b1, TRUE, TRUE), Claims(s1, b2, FALSE, TRUE),
             Claims(s2, b1, FALSE, FALSE)}
MCCandidates == "Acme" :> <<"acme", "acme-2">> @@ "Acme 2" :> <<"acme-2", "acme-2-2">>
Symmetry == Permutations(Clients)
=============================================================================
