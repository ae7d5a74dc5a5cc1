---------------------------- MODULE AbstractStore ----------------------------
(***************************************************************************)
(* What a store of files promises of a set of uploads that go on at the    *)
(* same time: each of them, once it has ended, has put its file there      *)
(* whole, or has left nothing, and what is there stays there.  Of uploads  *)
(* that were disturbed it promises nothing; which these are is for the     *)
(* store to say.                                                           *)
(***************************************************************************)
CONSTANT Uploads

VARIABLE state  \* "none", "active", "stored", "absent" or "disturbed"

Init == state \in [Uploads -> {"none", "disturbed"}]

(* The transfer of upload u begins.                                        *)
Begin(u) ==
  /\ state[u] = "none"
  /\ state' = [state EXCEPT ![u] = "active"]

(* It ends, with its file in the store or with nothing.                    *)
End(u) ==
  /\ state[u] = "active"
  /\ \E s \in {"stored", "absent"} : state' = [state EXCEPT ![u] = s]

(* Some uploads are disturbed, and remain so.                              *)
Disturb(S) ==
  state' = [u \in Uploads |-> IF u \in S THEN "disturbed" ELSE state[u]]

Next ==
  \/ \E u \in Uploads : Begin(u) \/ End(u)
  \/ \E S \in SUBSET Uploads : Disturb(S)

Spec == Init /\ [][Next]_state
=============================================================================
