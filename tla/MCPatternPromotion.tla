-------------------------- MODULE MCPatternPromotion --------------------------
(* PatternPromotion for TLC: three inputs, of which the first two share    *)
(* their first five words and the third has a letter beyond a-z, and one   *)
(* plan for each outcome of a promotion; the third entity has no file.     *)
(* The skill files are sound, or wrong in one way each.                    *)
EXTENDS PatternPromotion, TLC

CONSTANTS i1, i2, i3, e1, e2, e3

MCInputs == {i1, i2, i3}
MCSlugOf == (i1 :> "top" @@ i2 :> "top" @@ i3 :> "cafe")
MCScore ==
  [i \in MCInputs |-> [j \in MCInputs |->
     IF i = j THEN 100 ELSE IF {i, j} = {i1, i2} THEN 92 ELSE 40]]

Plan(e, joins, filters) ==
  [entity |-> e, joins |-> joins, filters |-> filters, select |-> TRUE]
AutoPlans ==
  {Plan(e1, "known", "braced"), Plan(e2, "known", "oddop"), Plan(e3, "known", "own")}
ReviewPlans == {Plan(e1, "known", "none")}
DiscardPlans == {Plan(e1, "unknown", "own")}
AllPlans == AutoPlans \union ReviewPlans \union DiscardPlans
MCProposals == {<<i2, Plan(e1, "known", "braced")>>, <<i2, Plan(e1, "known", "none")>>}

To(e) == [entity |-> e, pk |-> TRUE]
Skill(e, fks) == [entity |-> e, parses |-> TRUE, refs |-> {"pg", "status"}, fks |-> fks]
Sound == <<Skill(e1, {To(e1), To(e2)}), Skill(e2, {To(e3)}), Skill(e3, {})>>
Catalog(seq) == [files |-> seq, enums |-> <<"status">>, names |-> {"pg"}]
MCCatalogs ==
  {Catalog(Sound),
   Catalog([Sound EXCEPT ![3].fks = {To(e2)}]),                      \* circular
   Catalog([Sound EXCEPT ![3].fks = {[entity |-> e1, pk |-> FALSE]}]),
   Catalog([Sound EXCEPT ![3].refs = {"enum"}]),
   Catalog([Sound EXCEPT ![3].parses = FALSE]),
   [Catalog(Sound) EXCEPT !.enums = <<"status", "status">>],
   Catalog([Sound EXCEPT ![3].entity = e2]),                         \* twice, and e3 is gone
   Catalog(<<Skill(e1, {}), Skill(e3, {})>>)}                        \* patterns of e2 left
Symmetry == Permutations(Requests)
=============================================================================
