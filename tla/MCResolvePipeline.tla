-------------------------- MODULE MCResolvePipeline --------------------------
(* ResolvePipeline for TLC: requests and filters are interchangeable.      *)
EXTENDS ResolvePipeline, TLC

Symmetry == Permutations(Requests) \union Permutations(Filters)
=============================================================================
