----------------------------- MODULE PdataSlices -----------------------------
(***************************************************************************)
(* The generated slices of pdata (ptrace/generated_spanslice.go and its    *)
(* nineteen siblings): a slice is a Go slice of pointers to elements.  An  *)
(* element is a span of which the attributes are kept, a Map.              *)
(*                                                                         *)
(* The array of a slice may be longer than the slice: its spare entries    *)
(* are nil, or are pointers RemoveIf has left behind, and CopyTo reuses    *)
(* what it finds there.  No two slices have the same array, because every  *)
(* operation that hands an array over empties the slice it comes from.     *)
(***************************************************************************)
EXTENDS PdataMap, Selections

CONSTANTS
  Slices,     \* the slices of a program, each of other data
  Keys,       \* keys of attributes
  Values,     \* their values
  MaxCells,   \* bound: elements in memory
  MaxCap      \* bound: capacity of an array

ASSUME BoundsAssumption == MaxCells \in Nat /\ MaxCap \in Nat

VARIABLES
  back,       \* [Slices -> the array: a sequence of pointers]
  len,        \* [Slices -> the length of the slice]
  cell,       \* [Cells -> the attributes of the element]
  readOnly,   \* the slices whose State is StateReadOnly
  state       \* "running"; "panicked"; "broken" after a copy that is not one

vars == <<back, len, cell, readOnly, state>>

Nil == 0
Cells == 1..MaxCells
Writable == Slices \ readOnly

Live(s) == SubSeq(back[s], 1, len[s])
Elements(s) == [i \in 1..len[s] |-> cell[back[s][i]]]
Pointers(b) == {b[i] : i \in DOMAIN b} \ {Nil}
Unused == Cells \ UNION {Pointers(back[s]) : s \in Slices}

(* n new elements: the first ones in memory that are not used. *)
New(n) ==
  {refs \in [1..n -> Unused] :
     \A i \in 1..n : \A c \in Unused :
       /\ \A j \in 1..i - 1 : refs[j] < refs[i]
       /\ c < refs[i] => \E j \in 1..i - 1 : refs[j] = c}

(* What the garbage collector leaves. *)
Collected(cells, backs) ==
  [c \in Cells |-> IF \E s \in Slices : c \in Pointers(backs[s]) THEN cells[c] ELSE <<>>]

(* append: the spare entries are used, or a larger array is allocated, in  *)
(* one of the sizes the allocator has: 1, 2, 3, 4, 6, 8, 10... pointers,   *)
(* as long as these are no more than 32.                                   *)
Grown(cap, need) ==
  LET n == IF need > 2 * cap THEN need ELSE 2 * cap
  IN IF n <= 4 THEN n ELSE n + (n % 2)
Appended(b, n, refs) ==
  LET need == n + Len(refs)
      fits == need <= Len(b)
  IN [i \in 1..(IF fits THEN Len(b) ELSE Grown(Len(b), need)) |->
        CASE i <= n              -> b[i]
          [] n < i /\ i <= need  -> refs[i - n]
          [] need < i /\ fits    -> b[i]
          [] need < i /\ ~ fits  -> Nil]

---------------------------------------------------------------------------

Init ==
  /\ back = [s \in Slices |-> <<>>]
  /\ len = [s \in Slices |-> 0]
  /\ cell = [c \in Cells |-> <<>>]
  /\ readOnly = {}
  /\ state = "running"

(* Every method that writes begins with it. *)
AssertMutable ==
  /\ readOnly # {}
  /\ state' = "panicked"
  /\ UNCHANGED <<back, len, cell, readOnly>>

MarkReadOnly(s) ==
  /\ readOnly' = readOnly \cup {s}
  /\ UNCHANGED <<back, len, cell, state>>

AppendEmpty(s) ==
  /\ \E refs \in New(1) : back' = [back EXCEPT ![s] = Appended(@, len[s], refs)]
  /\ len' = [len EXCEPT ![s] = @ + 1]
  /\ cell' = Collected(cell, back')
  /\ UNCHANGED <<readOnly, state>>

EnsureCapacity_Shrinks(s, newCap) ==
  /\ back' = [back EXCEPT ![s] = [i \in 1..newCap |-> IF i <= len[s] THEN @[i] ELSE Nil]]
  /\ cell' = Collected(cell, back')
  /\ UNCHANGED <<len, readOnly, state>>

EnsureCapacity(s, newCap) ==
  /\ newCap > Len(back[s])
  /\ back' = [back EXCEPT ![s] = [i \in 1..newCap |-> IF i <= len[s] THEN @[i] ELSE Nil]]
  /\ cell' = Collected(cell, back')
  /\ UNCHANGED <<len, readOnly, state>>

MoveAndAppendTo(s, d) ==
  /\ back' = [back EXCEPT ![d] = IF back[d] = <<>> THEN back[s] ELSE Appended(@, len[d], Live(s)),
                          ![s] = <<>>]
  /\ len' = [len EXCEPT ![d] = @ + len[s], ![s] = 0]
  /\ cell' = Collected(cell, back')
  /\ UNCHANGED <<readOnly, state>>

(* The places of the elements that have the attribute k. *)
With(s, k) == {i \in 1..len[s] : k \in KeysOf(cell[back[s][i]])}

RemoveIf_NoShift(s, k) ==
  /\ \E kept \in Kept(len[s], 1..len[s] \ With(s, k)) : len' = [len EXCEPT ![s] = Len(kept)]
  /\ UNCHANGED <<back, cell, readOnly, state>>

(* The elements that are kept move to the front; what stood behind them    *)
(* stays in the array.                                                     *)
RemoveIf(s, k) ==
  /\ \E kept \in Kept(len[s], 1..len[s] \ With(s, k)) :
       /\ back' = [back EXCEPT ![s] =
                    [i \in DOMAIN @ |-> IF i \in DOMAIN kept THEN @[kept[i]] ELSE @[i]]]
       /\ len' = [len EXCEPT ![s] = Len(kept)]
  /\ cell' = Collected(cell, back')
  /\ UNCHANGED <<readOnly, state>>

(* Stable: those with the key before those without. *)
Sort(s, k) ==
  /\ \E sorted \in Stable(len[s], With(s, k)) :
       back' = [back EXCEPT ![s] = [i \in DOMAIN @ |-> IF i <= len[s] THEN @[sorted[i]] ELSE @[i]]]
  /\ UNCHANGED <<len, cell, readOnly, state>>

(* CopyTo, to an array that is long enough: its entries become elements    *)
(* again, whatever they are.                                               *)
Reused(s, d) == SubSeq(back[d], 1, len[s])
Distinct(refs) == \A i, j \in DOMAIN refs : refs[i] = refs[j] => i = j

CopyOver(s, d) ==
  /\ len[s] <= Len(back[d])
  /\ Nil \notin {back[d][i] : i \in 1..len[s]}
  /\ len' = [len EXCEPT ![d] = len[s]]
  /\ cell' = [c \in Cells |->
                IF \E i \in 1..len[s] : back[d][i] = c
                THEN cell[back[s][CHOOSE i \in 1..len[s] :
                       back[d][i] = c /\ \A j \in 1..len[s] : back[d][j] = c => j <= i]]
                ELSE cell[c]]
  /\ state' = IF Distinct(Reused(s, d)) THEN state ELSE "broken"
  /\ UNCHANGED <<back, readOnly>>

CopyOverNil(s, d) ==
  /\ len[s] <= Len(back[d])
  /\ Nil \in {back[d][i] : i \in 1..len[s]}
  /\ state' = "panicked"
  /\ UNCHANGED <<back, len, cell, readOnly>>

CopyToNew_Pointers(s, d) ==
  /\ len[s] > Len(back[d])
  /\ back' = [back EXCEPT ![d] = Live(s)]
  /\ len' = [len EXCEPT ![d] = len[s]]
  /\ cell' = Collected(cell, back')
  /\ UNCHANGED <<readOnly, state>>

CopyToNew(s, d) ==
  /\ len[s] > Len(back[d])
  /\ \E refs \in New(len[s]) :
       /\ back' = [back EXCEPT ![d] = refs]
       /\ len' = [len EXCEPT ![d] = len[s]]
       /\ cell' = [c \in Cells |->
                     IF \E i \in DOMAIN refs : refs[i] = c
                     THEN cell[back[s][CHOOSE i \in DOMAIN refs : refs[i] = c]]
                     ELSE Collected(cell, back')[c]]
  /\ UNCHANGED <<readOnly, state>>

CopyTo(s, d) == CopyOver(s, d) \/ CopyOverNil(s, d) \/ CopyToNew(s, d)

(* Span.MoveTo, and the methods of the attributes. *)
MoveTo(s, i, d, j) ==
  /\ cell' = [cell EXCEPT ![back[d][j]] = cell[back[s][i]], ![back[s][i]] = <<>>]
  /\ UNCHANGED <<back, len, readOnly, state>>

PutAttribute(s, i, k, v) ==
  /\ cell' = [cell EXCEPT ![back[s][i]] = PutStr(@, k, v)]
  /\ UNCHANGED <<back, len, readOnly, state>>

RemoveAttribute(s, i, k) ==
  /\ cell' = [cell EXCEPT ![back[s][i]] = Remove(@, k)]
  /\ UNCHANGED <<back, len, readOnly, state>>

Next ==
  /\ state = "running"
  /\ \/ AssertMutable
     \/ \E s \in Slices : MarkReadOnly(s)
     \/ \E s \in Writable : AppendEmpty(s)
     \/ \E s \in Writable : \E n \in 1..MaxCap : EnsureCapacity(s, n)
     \/ \E s, d \in Writable : MoveAndAppendTo(s, d)
     \/ \E s \in Writable : \E k \in Keys : RemoveIf(s, k)
     \/ \E s \in Writable : \E k \in Keys : Sort(s, k)
     \/ \E s \in Slices : \E d \in Writable : CopyTo(s, d)
     \/ \E s, d \in Writable : \E i \in 1..len[s] : \E j \in 1..len[d] : MoveTo(s, i, d, j)
     \/ \E s \in Writable : \E i \in 1..len[s] : \E k \in Keys : \E v \in Values :
          PutAttribute(s, i, k, v)
     \/ \E s \in Writable : \E i \in 1..len[s] : \E k \in Keys : RemoveAttribute(s, i, k)

Spec == Init /\ [][Next]_vars

---------------------------------------------------------------------------
(* Properties. *)

TypeOK ==
  /\ back \in [Slices -> Seq(Cells \cup {Nil})]
  /\ len \in [Slices -> Nat]
  /\ \A s \in Slices : len[s] <= Len(back[s])
  /\ DOMAIN cell = Cells
  /\ \A c \in Cells : KeysOf(cell[c]) \subseteq Keys
  /\ readOnly \subseteq Slices
  /\ state \in {"running", "broken", "panicked"}

(* Every element of a slice is an element of its own: no two places, of    *)
(* one slice or of two, point to the same one, and none is nil.  It is     *)
(* what makes the contract true.                                           *)
NoAliases ==
  state = "running" =>
    \A s, t \in Slices : \A i \in 1..len[s] : \A j \in 1..len[t] :
      /\ back[s][i] # Nil
      /\ back[s][i] = back[t][j] => s = t /\ i = j

(* The attributes of an element keep one value for a key, although Remove  *)
(* moves entries and RemoveIf and CopyTo move elements.                    *)
OneValuePerKey == \A c \in Cells : DistinctKeys(cell[c])

(* Once a slice is marked read-only nothing changes its elements, also not *)
(* through a slice that was copied from it, or moved to it, before.        *)
SharedDataUntouched ==
  [][\A s \in readOnly : state = "running" => Elements(s)' = Elements(s)]_vars

(* The slices are what the contract says: sequences of attributes, each    *)
(* method doing its work on one of them, an inexact copy or a panic only   *)
(* where the contract allows it.                                           *)
Content == [s \in Slices |-> [i \in 1..len[s] |-> AsRaw(cell[back[s][i]])]]
Fresh == {s \in Slices : back[s] = <<>>}

Contract == INSTANCE PdataContract WITH content <- Content, fresh <- Fresh

KeepsContract == Contract!Spec
=============================================================================
