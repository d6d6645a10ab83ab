----------------------------- MODULE MCEvidence -----------------------------
(* Instances of Evidence for TLC: two tasks that share artifact "x", each     *)
(* with evidence of its own, and one id that both use.                      *)
EXTENDS Evidence, TLC

CONSTANTS x, y, d, e, c, px, py

RefLists == {<<>>, <<x>>, <<y>>, <<y, x>>}
At(p) == [path |-> p, prefixed |-> FALSE]
Of(type, refs) == [type |-> type, refs |-> refs]
None == <<>>
Submit(declares, candidates, changes) ==
    [outcome |-> "SUBMIT_FOR_REVIEW", declares |-> declares,
     candidates |-> candidates, changes |-> changes]

(* Its own artifact, one shared with another task, both; a moved, a prefixed   *)
(* path; a claim about evidence of its own or of somebody else.              *)
Deliveries ==
    {Submit(x :> At(px), d :> Of("computational", <<x>>), c :> [op |-> "upsert", relates |-> {d}]),
     Submit(x :> At(px) @@ y :> At(py), e :> Of("computational", <<y, x>>), None),
     Submit(x :> At(px) @@ y :> At(py), e :> Of("computational", <<x>>), None),
     Submit(x :> At(py), d :> Of("bare", <<x>>), c :> [op |-> "upsert", relates |-> {e}]),
     [outcome |-> "BLOCKED", declares |-> x :> [path |-> px, prefixed |-> TRUE],
      candidates |-> d :> Of("stated", <<>>), changes |-> None],
     [outcome |-> "FAILED", declares |-> None, candidates |-> None,
      changes |-> c :> [op |-> "retire", relates |-> {}]]}

SameKinds == Permutations(Tasks) \union Permutations(Contents)
=============================================================================
