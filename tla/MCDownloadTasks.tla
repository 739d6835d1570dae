--------------------------- MODULE MCDownloadTasks ---------------------------
EXTENDS DownloadTasks, TLC

CONSTANTS t1, t2, b1, b2, f1, f2

TwoTasks == {t1, t2}
OneTask == {t1}
OneBody == {b1}
TwoBodies == {b1, b2}
TwoFiles == {f1, f2}
OneFile == {f1}

\* two tasks and a body of one file, and a body of another
FilesOf == [x \in {t1, t2, b1, b2} |-> IF x = b2 THEN f2 ELSE f1]
SingleTask == [x \in {t1, b1} |-> f1]

SwapTasks == Permutations({t1, t2})
=============================================================================
