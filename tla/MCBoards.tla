------------------------------ MODULE MCBoards ------------------------------
(***************************************************************************)
(* Small instances of MessageBoard.  The walk over the mailboxes may take  *)
(* them in any order, so students are interchangeable, and so are requests.*)
(***************************************************************************)
EXTENDS MessageBoard, TLC

Symmetry == Permutations(Students) \cup Permutations(Requests)
=============================================================================
