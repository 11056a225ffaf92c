------------------------ MODULE MCWorldBattleground ------------------------
EXTENDS WorldBattleground

\* the window offsets of a normal day and of the two days after maintenance
MCOffsets == [normal |-> <<2, 4, 6, 8>>, xp |-> <<3, 4, 5, 9>>]
\* rows at first start: none, left by a finished cycle, or set for today
MCInitRows == { [i \in Ids |-> NoRow],
                [i \in Ids |-> Row(1, 1, 1)],
                [i \in Ids |-> IF i = 1 THEN Row(0, 2, 4) ELSE Row(0, 6, 8)] }
=============================================================================
