-------------------------- MODULE MCTenantRegistry --------------------------
(* TenantRegistry for TLC: two resource types stand for the four.          *)
EXTENDS TenantRegistry, TLC

MCTypes == <<"skill", "pattern">>
Symmetry == Permutations(Clients) \union Permutations(Tenants)
=============================================================================
