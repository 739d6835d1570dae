--------------------------- MODULE MCFolderTree ---------------------------
(* Constants for TLC.                                                     *)
EXTENDS FolderTree, TLC

CONSTANTS a, b, c, x, n1, n2

\* No folder yet, and one file.
OneFile == [f \in Node |-> IF f = x THEN Root ELSE Absent]
OneFileName == [f \in Node |-> IF f = x THEN n1 ELSE NoName]

\* Folders and handlers are interchangeable.
Symmetry == Permutations(Folder) \cup Permutations(Handler)
===========================================================================
