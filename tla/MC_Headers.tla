----------------------------- MODULE MC_Headers -----------------------------
EXTENDS Headers

Fold == [n \in Names |-> IF n = "x-A" THEN "X-A" ELSE n]

\* Lists of up to three headers of the MTA.
Lists == BoundedSeq([name : Names, value : [space : {TRUE}, text : Texts]], 3)

\* No header comes twice.
Distinct == {l \in Lists : IsInjective(l)}
=============================================================================
