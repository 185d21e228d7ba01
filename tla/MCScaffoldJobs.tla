---------------------------- MODULE MCScaffoldJobs ----------------------------
(* ScaffoldJobs, and through it TenantConnections, for TLC.                *)
EXTENDS ScaffoldJobs, TLC

Symmetry == Permutations(Clients) \union Permutations(Ids) \union Permutations(Names)
            \union Permutations(Jobs) \union Permutations(Tenants)
=============================================================================
