------------------------------ MODULE PdataMap ------------------------------
(***************************************************************************)
(* pcommon.Map (pdata/pcommon/map.go): a Go slice of key and value, in     *)
(* which Get finds the first entry of a key.  The methods are operators on *)
(* the sequence of the entries.                                            *)
(***************************************************************************)
EXTENDS Integers, Sequences

Entry(k, v) == [key |-> k, value |-> v]

KeysOf(m) == {m[i].key : i \in DOMAIN m}

(* No key is there twice; the methods keep this, a decoded map may not     *)
(* have it.                                                                *)
DistinctKeys(m) == \A i, j \in DOMAIN m : m[i].key = m[j].key => i = j

(* The first entry of a key that is there. *)
IndexOf(m, k) ==
  CHOOSE i \in DOMAIN m : m[i].key = k /\ \A j \in DOMAIN m : m[j].key = k => i <= j

Get(m, k) == m[IndexOf(m, k)].value

PutStr_Appends(m, k, v) == Append(m, Entry(k, v))

PutStr(m, k, v) ==
  IF k \in KeysOf(m) THEN [m EXCEPT ![IndexOf(m, k)] = Entry(k, v)] ELSE Append(m, Entry(k, v))

(* The last entry takes the place of the one that is removed. *)
Remove(m, k) ==
  IF k \in KeysOf(m) THEN SubSeq([m EXCEPT ![IndexOf(m, k)] = m[Len(m)]], 1, Len(m) - 1) ELSE m

(* What a map stands for: of the entries of a key, the last one. *)
LastOf(m, k) ==
  CHOOSE i \in DOMAIN m : m[i].key = k /\ \A j \in DOMAIN m : m[j].key = k => j <= i

AsRaw(m) == [k \in KeysOf(m) |-> m[LastOf(m, k)].value]
=============================================================================
