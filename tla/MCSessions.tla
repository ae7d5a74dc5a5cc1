----------------------------- MODULE MCSessions -----------------------------
(***************************************************************************)
(* Small instances of Sessions: what may be typed at the prompt, and the   *)
(* symmetry of the connections.                                            *)
(***************************************************************************)
EXTENDS Sessions, TLC

(* "1705101" and "1705102" are IDs; "01705101" parses to the first; "abc"  *)
(* does not parse; "" is an empty prompt.                                  *)
MCParse ==
  [t \in Typed |->
     IF t \in Ids THEN t
     ELSE IF t = "01705101" THEN "1705101"
     ELSE IF t = "" THEN "empty" ELSE "invalid"]

Symmetry == Permutations(Conns)
=============================================================================
