--------------------------- MODULE MCCatalogScripts ---------------------------
EXTENDS CatalogScripts, TLC

CONSTANTS sum, pair, pairCapital, tree

\* The importer spells "pair" with a capital, and finds no example of "tree".
MCFold == [t \in {sum, pair, pairCapital, tree} |->
             IF t = pairCapital THEN pair ELSE t]
MCExamples == [t \in {sum, pair, pairCapital, tree} |-> IF t = tree THEN 0 ELSE 2]
MCSeedData   == <<sum, pair>>
MCImportData == <<pairCapital, tree>>

Symmetry == Permutations(Scripts)
==============================================================================
