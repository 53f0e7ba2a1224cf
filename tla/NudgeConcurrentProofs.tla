------------------------ MODULE NudgeConcurrentProofs ------------------------
(***************************************************************************)
(* One consumer is enough to number the packets: what PacketIdsDistinct    *)
(* needs, and two consumers do not give, is that the packet a consumer has *)
(* marshalled is still the one it forgets when it posts.                   *)
(***************************************************************************)
EXTENDS NudgeConcurrent, TLAPS

Labels == {"idle", "create", "find", "fold", "loop", "marshal", "marshalled",
           "refused", "export"}

PostedSeq == \E R : posted \in Seq(R)

(* A packet that exists has a number no request has; between its           *)
(* marshalling and its request it exists and keeps its number.             *)
IdInv(c) ==
    /\ cmpt \in Nat
    /\ rawdata \in (SUBSET Addresses) \cup {Nil}
    /\ pc \in [Consumers -> Labels]
    /\ DOMAIN request = Consumers
    /\ PostedSeq
    /\ pc[c] \in {"marshalled", "export"} => rawdata # Nil /\ request[c].id = cmpt
    /\ \A i \in DOMAIN posted :
         /\ posted[i].id \in Nat /\ posted[i].id <= cmpt
         /\ rawdata # Nil => posted[i].id < cmpt

(* A request more.                                                         *)
LEMMA Posted ==
    ASSUME NEW r, NEW R, posted \in Seq(R), posted' = Append(posted, r)
    PROVE  /\ posted' \in Seq(R \cup {r})
           /\ DOMAIN posted = 1..Len(posted) /\ Len(posted) \in Nat
           /\ DOMAIN posted' = 1..Len(posted) + 1
           /\ posted'[Len(posted) + 1] = r
           /\ \A i \in 1..Len(posted) : posted'[i] = posted[i]
<1>1. posted \in Seq(R \cup {r})
  OBVIOUS
<1> QED  BY <1>1

(* Each step of the one consumer keeps the numbers apart.                  *)
LEMMA NextIds ==
    ASSUME Nil \notin SUBSET Addresses, NEW c, Consumers = {c},
           IdInv(c), PacketIdsDistinct, [Next]_vars
    PROVE  IdInv(c)' /\ PacketIdsDistinct'
<1> USE DEF local, shared, Goto, Panic, Labels
<1>1. CASE posted' = posted
  <2>1. PacketIdsDistinct'
    BY <1>1 DEF PacketIdsDistinct
  <2> PostedSeq'
    BY <1>1 DEF IdInv, PostedSeq
  <2>2. CASE UNCHANGED vars
    BY <2>1, <2>2 DEF vars, IdInv
  <2>3. ASSUME NEW b \in Batches, PushTraces(c, b) PROVE IdInv(c)'
    BY <2>3 DEF PushTraces, IdInv
  <2>4. ASSUME CreateRawdata(c) PROVE IdInv(c)'
    BY <2>4 DEF CreateRawdata, IdInv
  <2>5. ASSUME FindTransaction(c) PROVE IdInv(c)'
    <3>1. UNCHANGED <<rawdata, cmpt, request, posted>> /\ pc' = [pc EXCEPT ![c] = "fold"]
      BY <2>5 DEF FindTransaction
    <3> QED  BY <3>1 DEF IdInv
  <2>6. ASSUME FoldSpan(c) PROVE IdInv(c)'
    <3>1. UNCHANGED <<rawdata, cmpt, request, posted>>
      BY <2>6 DEF FoldSpan
    <3>2. pc[c] = "fold" /\ (pc' = pc \/ pc' = [pc EXCEPT ![c] = "find"])
      BY <2>6 DEF FoldSpan
    <3> QED  BY <3>1, <3>2 DEF IdInv
  <2>7. ASSUME CollectApplications(c) PROVE IdInv(c)'
    BY <2>7 DEF CollectApplications, IdInv
  <2>8. ASSUME NEW a \in Apps, SendTransactions(c, a) PROVE IdInv(c)'
    BY <2>8 DEF SendTransactions, IdInv
  <2>9. ASSUME Marshal(c) PROVE IdInv(c)'
    BY <2>9 DEF Marshal, IdInv
  <2>10. ASSUME Count(c) PROVE IdInv(c)'
    BY <2>10 DEF Count, IdInv
  <2>11. ASSUME Return(c) PROVE IdInv(c)'
    BY <2>11 DEF Return, IdInv
  <2>12. CASE Export(c)
    <3>1. PICK R : posted \in Seq(R)
      BY DEF IdInv, PostedSeq
    <3>2. posted' = Append(posted, request[c])
      BY <2>12 DEF Export
    <3>3. FALSE
      BY <1>1, <3>1, <3>2
    <3> QED  BY <3>3
  <2> QED
    BY <2>1, <2>2, <2>3, <2>4, <2>5, <2>6, <2>7, <2>8, <2>9, <2>10, <2>11, <2>12 DEF Next
<1>2. CASE Export(c)
  <2>1. PICK R : posted \in Seq(R)
    BY DEF IdInv, PostedSeq
  <2>2. /\ posted' = Append(posted, request[c])
        /\ rawdata' = Nil /\ cmpt' = cmpt /\ request' = request
        /\ pc' \in [Consumers -> Labels] /\ pc'[c] = "loop"
        /\ rawdata # Nil /\ request[c].id = cmpt
    BY <1>2 DEF Export, IdInv
  <2>3. \A i \in 1..Len(posted) : posted[i].id \in Nat /\ posted[i].id < cmpt
    BY <2>1, <2>2 DEF IdInv
  <2>4. IdInv(c)'
    <3>1. PostedSeq'
      BY <2>1, <2>2, Posted DEF PostedSeq
    <3>2. DOMAIN posted' = 1..Len(posted) + 1 /\ Len(posted) \in Nat
      BY <2>1, <2>2, Posted
    <3>3. ASSUME NEW i \in DOMAIN posted'
          PROVE  posted'[i].id \in Nat /\ posted'[i].id <= cmpt
      <4>1. CASE i \in 1..Len(posted)
        BY <2>1, <2>2, <2>3, <4>1, Posted DEF IdInv
      <4>2. CASE i = Len(posted) + 1
        BY <2>1, <2>2, <4>2, Posted DEF IdInv
      <4> QED  BY <3>2, <3>3, <4>1, <4>2
    <3> QED  BY <2>2, <3>1, <3>3 DEF IdInv
  <2>5. PacketIdsDistinct'
    <3> SUFFICES ASSUME NEW i \in DOMAIN posted', NEW j \in DOMAIN posted',
                        posted'[i].id = posted'[j].id
                 PROVE  i = j
      BY DEF PacketIdsDistinct
    <3>1. i \in 1..Len(posted) + 1 /\ j \in 1..Len(posted) + 1 /\ Len(posted) \in Nat
      BY <2>1, <2>2, Posted
    <3>2. CASE i \in 1..Len(posted) /\ j \in 1..Len(posted)
      BY <2>1, <2>2, <3>2, Posted DEF PacketIdsDistinct
    <3>3. CASE i = Len(posted) + 1 /\ j \in 1..Len(posted)
      BY <2>1, <2>2, <2>3, <3>3, Posted DEF IdInv
    <3>4. CASE j = Len(posted) + 1 /\ i \in 1..Len(posted)
      BY <2>1, <2>2, <2>3, <3>4, Posted DEF IdInv
    <3> QED  BY <3>1, <3>2, <3>3, <3>4
  <2> QED  BY <2>4, <2>5
<1>3. posted' = posted \/ Export(c)
  BY DEF Next, PushTraces, CreateRawdata, FindTransaction, FoldSpan, CollectApplications,
         SendTransactions, Marshal, Count, Return, vars
<1> QED  BY <1>1, <1>2, <1>3

(* With one consumer every request has a packet number of its own.         *)
THEOREM OneConsumerNumbers ==
    ASSUME Nil \notin SUBSET Addresses, NEW c, Consumers = {c}
    PROVE  Spec => []PacketIdsDistinct
<1>1. Init => IdInv(c) /\ PacketIdsDistinct
  <2> SUFFICES ASSUME Init PROVE IdInv(c) /\ PacketIdsDistinct
    OBVIOUS
  <2>1. posted = <<>> /\ posted \in Seq({}) /\ DOMAIN posted = {}
    BY DEF Init
  <2>2. PostedSeq
    BY <2>1 DEF PostedSeq
  <2>3. /\ cmpt \in Nat /\ rawdata = Nil /\ pc \in [Consumers -> Labels]
        /\ pc[c] = "idle" /\ DOMAIN request = Consumers
    BY DEF Init, Labels
  <2> QED  BY <2>1, <2>2, <2>3 DEF IdInv, PacketIdsDistinct
<1>2. IdInv(c) /\ PacketIdsDistinct /\ [Next]_vars => IdInv(c)' /\ PacketIdsDistinct'
  BY NextIds
<1> QED  BY <1>1, <1>2, PTL DEF Spec
=============================================================================
