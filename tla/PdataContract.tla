---------------------------- MODULE PdataContract ----------------------------
(***************************************************************************)
(* What a user of pdata's slices may rely on: each slice is a sequence of  *)
(* elements of its own, each element has attributes, a slice marked        *)
(* read-only does not change.  CopyTo is exact if the destination has as   *)
(* many elements as the source, or has never held any; to a shorter slice  *)
(* that has been in use it may go wrong, and the contract ends there.      *)
(***************************************************************************)
EXTENDS Sequences, Selections

CONSTANTS Slices, Keys, Values

VARIABLES
  content,    \* [Slices -> sequences of attributes], attributes: key -> value
  fresh,      \* slices that have never held an element, or were moved away
  readOnly,   \* slices that are shared
  state       \* "running", "broken" or "panicked"

cvars == <<content, fresh, readOnly, state>>

None == <<>>
Writable == Slices \ readOnly

Init ==
  /\ content = [s \in Slices |-> <<>>]
  /\ fresh = Slices
  /\ readOnly = {}
  /\ state = "running"

Append1(s) ==
  /\ content' = [content EXCEPT ![s] = Append(@, None)]
  /\ fresh' = fresh \ {s}

Put(s, i, k, v) ==
  /\ content' = [content EXCEPT ![s][i] =
                   [x \in DOMAIN @ \cup {k} |-> IF x = k THEN v ELSE @[x]]]
  /\ UNCHANGED fresh

Drop(s, i, k) ==
  /\ content' = [content EXCEPT ![s][i] = [x \in DOMAIN @ \ {k} |-> @[x]]]
  /\ UNCHANGED fresh

With(s, k) == {i \in DOMAIN content[s] : k \in DOMAIN content[s][i]}

Filter(s, k) ==
  /\ \E kept \in Kept(Len(content[s]), DOMAIN content[s] \ With(s, k)) :
       content' = [content EXCEPT ![s] = [i \in DOMAIN kept |-> @[kept[i]]]]
  /\ UNCHANGED fresh

Order(s, k) ==
  /\ \E sorted \in Stable(Len(content[s]), With(s, k)) :
       content' = [content EXCEPT ![s] = [i \in DOMAIN @ |-> @[sorted[i]]]]
  /\ UNCHANGED fresh

Reserve(s) ==
  /\ UNCHANGED content
  /\ fresh' \in {fresh, fresh \ {s}}

MoveAll(s, d) ==
  /\ content' = [content EXCEPT ![d] = @ \o content[s], ![s] = <<>>]
  /\ fresh' = (IF s \in fresh THEN fresh ELSE fresh \ {d}) \cup {s}

MoveOne(s, i, d, j) ==
  /\ content' = [content EXCEPT ![d][j] = content[s][i], ![s][i] = None]
  /\ UNCHANGED fresh

CopyExact(s, d) ==
  /\ content' = [content EXCEPT ![d] = content[s]]
  /\ fresh' \in {fresh, fresh \ {d}}

(* The copies that may go wrong. *)
Unsafe(s, d) == d \notin fresh /\ Len(content[s]) > Len(content[d])

Step ==
  /\ state' = "running"
  /\ UNCHANGED readOnly
  /\ \/ \E s \in Writable : Append1(s) \/ Reserve(s)
     \/ \E s \in Writable : \E k \in Keys :
          \/ Filter(s, k)
          \/ Order(s, k)
          \/ \E i \in DOMAIN content[s] : Drop(s, i, k) \/ \E v \in Values : Put(s, i, k, v)
     \/ \E s, d \in Writable :
          \/ MoveAll(s, d)
          \/ \E i \in DOMAIN content[s] : \E j \in DOMAIN content[d] : MoveOne(s, i, d, j)
     \/ \E s \in Slices : \E d \in Writable : CopyExact(s, d)

Share ==
  /\ \E s \in Slices : readOnly' = readOnly \cup {s}
  /\ UNCHANGED <<content, fresh, state>>

Panic ==
  /\ \/ readOnly # {}
     \/ \E s \in Slices : \E d \in Writable : Unsafe(s, d)
  /\ state' = "panicked"
  /\ UNCHANGED <<content, fresh, readOnly>>

Break == state' = "broken" /\ \E s \in Slices : \E d \in Writable : Unsafe(s, d)

Next ==
  /\ state = "running"
  /\ Step \/ Share \/ Panic \/ Break

Spec == Init /\ [][Next]_cvars
=============================================================================
