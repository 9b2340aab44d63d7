----------------------------- MODULE KeyedList -----------------------------
(***************************************************************************)
(* What a bucket of the connection monitor's hash map promises: the pairs  *)
(* that were inserted and not removed, oldest first.  A removal takes the  *)
(* oldest pair of its key.                                                 *)
(***************************************************************************)
EXTENDS Naturals, Sequences

CONSTANTS ListKey, ListValue

VARIABLE content   \* pairs [key, value]

ListInit == content = <<>>

ListInsert ==
  /\ Len(content') = Len(content) + 1
  /\ \E k \in ListKey, v \in ListValue : content' = Append(content, [key |-> k, value |-> v])

Without(s, i) == [j \in 1 .. Len(s) - 1 |-> IF j < i THEN s[j] ELSE s[j + 1]]

ListRemove == \E i \in DOMAIN content :
  /\ \A j \in 1 .. i - 1 : content[j].key # content[i].key
  /\ content' = Without(content, i)

\* Everything is given back when the driver is unloaded.
ListClear == content' = <<>>

ListSpec == ListInit /\ [][ListInsert \/ ListRemove \/ ListClear]_content
=============================================================================
