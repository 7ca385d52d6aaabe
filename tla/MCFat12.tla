------------------------------ MODULE MCFat12 -------------------------------
EXTENDS Fat12Isr

\* An empty file, which has a cluster all the same, and one of two clusters.
EmptyOrTwo == {<<>>, <<"x", "y">>}

\* Files of one and of two clusters, told apart by the first block.
OneOrTwo == {<<"x">>, <<"y", "x">>}

\* The aliases of a long name are numbered from 1.
NumberedAliases == <<"l~1", "l~2">>
OneAlias == <<"l~1">>

\* The two aliases happen to have the same checksum, the name "b" another one.
AliasesCollide == [n \in Range(Aliases) \cup ShortNames |-> IF n = "b" THEN 2 ELSE 1]
=============================================================================
