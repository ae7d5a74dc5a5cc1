------------------------------ MODULE HashMaps ------------------------------
(***************************************************************************)
(* java.util.HashMap, as the server's threads share it: partial functions, *)
(* and what an unsynchronized put may do to them.                          *)
(***************************************************************************)

EmptyMap == [x \in {} |-> x]

(* m.put(k, v), alone.                                                     *)
Put(f, k, v) == [x \in DOMAIN f \cup {k} |-> IF x = k THEN v ELSE f[x]]

(* m.remove(k)                                                             *)
Without(f, k) == [x \in DOMAIN f \ {k} |-> f[x]]

(* What a put may leave that overlaps others: it began when the map had    *)
(* the keys `before`, and they are not what it has now.  The entry goes    *)
(* into a table (or a bin) that was read then, or into one that another    *)
(* thread is moving the entries to: any entry may be gone, its own too.    *)
RacyPuts(f, before, k, v) ==
  IF DOMAIN f = before THEN {}
  ELSE {[x \in kept |-> Put(f, k, v)[x]] : kept \in SUBSET (DOMAIN f \cup {k})}

(* What a change of f to g may leave where threads have changed the map at *)
(* the same time: entries of either, none of them for certain.             *)
Spoilt(f, g) ==
  UNION {{[x \in DOMAIN f \ lost |-> f[x]], [x \in DOMAIN g \ lost |-> g[x]]} :
           lost \in SUBSET (DOMAIN f \cup DOMAIN g)}

(* The keys that a put of k has lost when it leaves g of f.                *)
LostBy(f, g, k) == (DOMAIN f \cup {k}) \ DOMAIN g

(* The outcomes of a put, of which the models consider only the first when *)
(* `racy` is FALSE.                                                        *)
AfterPut(f, before, k, v, racy) ==
  {Put(f, k, v)} \cup IF racy THEN RacyPuts(f, before, k, v) ELSE {}
=============================================================================
