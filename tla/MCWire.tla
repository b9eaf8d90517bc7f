------------------------------- MODULE MCWire -------------------------------
(***************************************************************************)
(* Small messages for Wire.  Sample(t, k) is the k-th sample value of a    *)
(* type: numbers, bits and lengths that depend on k and on the place in    *)
(* the value, so that two fields of one type differ.                       *)
(***************************************************************************)
EXTENDS Wire

CONSTANTS Samples   \* which samples of each struct are sent

\* The length of a sampled list, at most its limit.
ListLen(k, max) == Min({k % 3, max})

RECURSIVE Sample(_, _)
Sample(t, k) ==
  CASE t.kind = "uint" ->
         IF t.len = 1 THEN (k * 37 + 5) % 128 ELSE <<0, 5, 700, Large>>[(k % 4) + 1]
    [] t.kind = "hash" -> [i \in 1..t.len |-> ((k + i) * 37 + 5) % 128]
    [] t.kind = "bool" -> k % 2 = 1
    [] t.kind = "bitvector" -> [i \in 1..t.len |-> (k + i) % 3 = 0]
    [] t.kind = "bitlist" -> 
         [i \in 1..Min({<<0, 7, 8, 9>>[(k % 4) + 1], t.max}) |-> (k + i) % 2 = 0]
    [] t.kind = "vector" -> [i \in 1..t.len |-> Sample(t.elem, k + i)]
    [] t.kind = "list" -> [i \in 1..ListLen(k, t.max) |-> Sample(t.elem, k + i)]
    [] t.kind = "struct" -> [i \in DOMAIN t.fields |-> Sample(t.fields[i], k + i)]

MCBodies(t) == {Sample(t, k) : k \in Samples}
=============================================================================
