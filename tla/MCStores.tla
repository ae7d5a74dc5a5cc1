------------------------------ MODULE MCStores ------------------------------
(***************************************************************************)
(* Small instances of FileStore: the sizes and the paths of the uploads.   *)
(***************************************************************************)
EXTENDS FileStore, TLC

CONSTANTS u1, u2

Sizes == [u \in Uploads |-> IF u = u1 THEN 1 ELSE 2]

(* All uploads have the same name; or the first has a name of its own.     *)
AllPaths == {"1705101/public/a", "1705101/private/a"}
SamePaths == {[u \in Uploads |-> "1705101/public/a"]}
TwoPaths ==
  {[u \in Uploads |-> IF u = u1 THEN "1705101/private/a" ELSE "1705101/public/a"]}

AnyPaths == SamePaths \cup TwoPaths

Symmetry == Permutations(Ports)
=============================================================================
