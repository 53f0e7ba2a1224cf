--------------------------- MODULE NudgeConcurrent ---------------------------
(***************************************************************************)
(* Several consumers of the sending queue, which all call pushTraces on    *)
(* the one NudgeExporter of the exporter.  Its fields Rawdata, Cmpt,       *)
(* Transactions and Transaction are shared and no lock protects them.      *)
(*                                                                         *)
(* A step ends where a consumer goes back to a shared field after other    *)
(* work: between the test of Rawdata and its creation, between finding a   *)
(* transaction and writing through the field Transaction, between the      *)
(* filling of the packet, its marshalling and its being forgotten.  What   *)
(* two writes of one slice at the same moment may lose is left out: every  *)
(* behaviour here is one of the program, not the other way round.          *)
(*                                                                         *)
(* Time, retries and answers are those of NudgeExporter and left out.      *)
(***************************************************************************)
EXTENDS NudgeSpan, FiniteSets

CONSTANTS
    Consumers,       \* the consumers: num_consumers of sending_queue
    Batches,         \* the batches of the queue, sequences of spans
    MaxObjects       \* bound: transactions ever created

VARIABLES
    queue,           \* batches no consumer has taken
    pc, batch, pos,  \* per consumer: where its pushTraces is
    pending, app, sent, request,   \* per consumer: the locals of its loop
    objects,         \* the transactions created so far, by address
    transactions,    \* NudgeExporter.Transactions: addresses, in order
    transaction,     \* NudgeExporter.Transaction: an address or Nil
    rawdata,         \* NudgeExporter.Rawdata: the addresses in it, or Nil
    cmpt,            \* NudgeExporter.Cmpt
    counted,         \* the applications metricsInterne.NCmpt_Traces counts
    posted,          \* every request made, in order (history)
    panicked

local  == <<batch, pos, pending, app, sent, request>>
shared == <<objects, transactions, transaction, rawdata, cmpt, counted>>
vars   == <<queue, pc, local, shared, posted, panicked>>

Addresses == 1..MaxObjects

Goto(c, label) == pc' = [pc EXCEPT ![c] = label]
Panic == panicked' = TRUE
-----------------------------------------------------------------------------
Init ==
    /\ queue = Batches
    /\ pc = [c \in Consumers |-> "idle"]
    /\ batch = [c \in Consumers |-> <<>>] /\ pos = [c \in Consumers |-> 1]
    /\ pending = [c \in Consumers |-> {}] /\ app = [c \in Consumers |-> NoApp]
    /\ sent = [c \in Consumers |-> {}]
    /\ request = [c \in Consumers |-> [id |-> 0, transactions |-> {}]]
    /\ objects = <<>> /\ transactions = <<>> /\ transaction = Nil
    /\ rawdata = Nil /\ cmpt = 0 /\ counted = {}
    /\ posted = <<>> /\ panicked = FALSE

(* A consumer takes a batch and tests Rawdata.                             *)
PushTraces(c, b) ==
    /\ pc[c] = "idle" /\ b \in queue
    /\ queue' = queue \ {b}
    /\ batch' = [batch EXCEPT ![c] = b] /\ pos' = [pos EXCEPT ![c] = 1]
    /\ Goto(c, IF rawdata = Nil THEN "create" ELSE "find")
    /\ UNCHANGED <<pending, app, sent, request, shared, posted, panicked>>

CreateRawdata(c) ==
    /\ pc[c] = "create"
    /\ rawdata' = IF rawdata = Nil THEN {} ELSE rawdata
    /\ cmpt' = IF rawdata = Nil THEN cmpt + 1 ELSE cmpt
    /\ Goto(c, "find")
    /\ UNCHANGED <<queue, local, objects, transactions, transaction, counted, posted, panicked>>

(* The field Transaction becomes the transaction of the next span's trace, *)
(* an old or a new one.                                                    *)
SpanOf(c) == batch[c][pos[c]]
OfTrace(uuid) == {i \in DOMAIN transactions : objects[transactions[i]].uuid = uuid}
NewTransaction(uuid) == [uuid |-> uuid, app |-> NoApp, urlid |-> WAITANDSEND, spans |-> {}]

FindTransaction(c) ==
    /\ pc[c] = "find" /\ pos[c] <= Len(batch[c])
    /\ LET known == OfTrace(SpanOf(c).trace)
           first == CHOOSE i \in known : \A j \in known : i <= j
       IN  IF known # {}
           THEN /\ transaction' = transactions[first]
                /\ UNCHANGED <<objects, transactions>>
           ELSE /\ Len(objects) < MaxObjects
                /\ objects' = Append(objects, NewTransaction(SpanOf(c).trace))
                /\ transaction' = Len(objects')
                /\ transactions' = Append(transactions, transaction')
    /\ Goto(c, "fold")
    /\ UNCHANGED <<queue, local, rawdata, cmpt, counted, posted, panicked>>

(* The span goes into whatever the field points to now; an entry span with *)
(* a user agent also needs the dictionary of the packet.                   *)
FoldSpan(c) ==
    /\ pc[c] = "fold"
    /\ LET s == SpanOf(c)
       IN  IF transaction = Nil \/ (rawdata = Nil /\ IsEntry(s) /\ s.agent # Nil)
           THEN Panic /\ UNCHANGED <<pc, pos, objects>>
           ELSE /\ objects' = [objects EXCEPT ![transaction] =
                      [@ EXCEPT !.app = SpanApp(s), !.spans = @ \cup {s},
                                !.urlid = IF EndsTrace(s) THEN NOWAITANDSEND ELSE @]]
                /\ pos' = [pos EXCEPT ![c] = @ + 1]
                /\ Goto(c, "find")
                /\ UNCHANGED panicked
    /\ UNCHANGED <<queue, batch, pending, app, sent, request, transactions, transaction,
                   rawdata, cmpt, counted, posted>>

CollectApplications(c) ==
    /\ pc[c] = "find" /\ pos[c] > Len(batch[c])
    /\ pending' = [pending EXCEPT ![c] =
         {objects[transactions[i]].app : i \in DOMAIN transactions} \ {NoApp}]
    /\ Goto(c, "loop")
    /\ UNCHANGED <<queue, batch, pos, app, sent, request, shared, posted, panicked>>

(* Moves the complete transactions of an application into the packet.      *)
SendTransactions(c, a) ==
    /\ pc[c] = "loop" /\ a \in pending[c]
    /\ IF rawdata = Nil
       THEN Panic /\ UNCHANGED <<pc, pending, app, sent, transactions, transaction, rawdata>>
       ELSE LET Leaves(t) == objects[t].app = a /\ objects[t].urlid = NOWAITANDSEND
                due == {t \in Addresses :
                          (\E i \in DOMAIN transactions : transactions[i] = t) /\ Leaves(t)}
            IN  /\ sent' = [sent EXCEPT ![c] = due]
                /\ rawdata' = rawdata \cup due
                /\ transactions' = SelectSeq(transactions, LAMBDA t : ~Leaves(t))
                /\ transaction' = Nil
                /\ pending' = [pending EXCEPT ![c] = @ \ {a}]
                /\ app' = [app EXCEPT ![c] = a]
                /\ Goto(c, "marshal")
                /\ UNCHANGED panicked
    /\ UNCHANGED <<queue, batch, pos, request, objects, cmpt, counted, posted>>

(* A packet without its required fields is not marshalled.  The counting   *)
(* that follows reads the first transaction sent, or the packet again.     *)
Marshal(c) ==
    /\ pc[c] = "marshal"
    /\ request' = [request EXCEPT ![c] =
         [ id |-> cmpt,
           transactions |-> IF rawdata = Nil THEN {} ELSE {objects[t] : t \in rawdata} ]]
    /\ Goto(c, IF rawdata = Nil THEN "refused" ELSE "marshalled")
    /\ UNCHANGED <<queue, batch, pos, pending, app, sent, shared, posted, panicked>>

Count(c) ==
    /\ pc[c] \in {"marshalled", "refused"}
    /\ IF (IF app[c] \in counted THEN rawdata = Nil ELSE sent[c] = {})
       THEN Panic /\ UNCHANGED <<pc, counted>>
       ELSE /\ counted' = counted \cup {app[c]}
            /\ Goto(c, IF pc[c] = "refused" THEN "idle" ELSE "export")
            /\ UNCHANGED panicked
    /\ UNCHANGED <<queue, local, objects, transactions, transaction, rawdata, cmpt, posted>>

(* export forgets the packet, whoever has filled it since, and posts what  *)
(* was marshalled.                                                         *)
Export(c) ==
    /\ pc[c] = "export"
    /\ rawdata' = Nil
    /\ posted' = Append(posted, request[c])
    /\ Goto(c, "loop")
    /\ UNCHANGED <<queue, local, objects, transactions, transaction, cmpt, counted, panicked>>

Return(c) ==
    /\ pc[c] = "loop" /\ pending[c] = {}
    /\ Goto(c, "idle")
    /\ UNCHANGED <<queue, local, shared, posted, panicked>>

Next ==
    /\ ~panicked
    /\ \E c \in Consumers :
         \/ \E b \in Batches : PushTraces(c, b)
         \/ CreateRawdata(c)
         \/ FindTransaction(c)
         \/ FoldSpan(c)
         \/ CollectApplications(c)
         \/ \E a \in Apps : SendTransactions(c, a)
         \/ Marshal(c)
         \/ Count(c)
         \/ Export(c)
         \/ Return(c)

Spec == Init /\ [][Next]_vars
-----------------------------------------------------------------------------
(* RawData.Id is the "compteur de paquets envoyes par une meme sonde"      *)
(* (rawdata.pb.go:572): the packets an exporter sends have numbers of      *)
(* their own, however many consumers send them (config_test.go:57 has      *)
(* two).  With one consumer this is PacketIdsIncrease of NudgeExporter.    *)
PacketIdsDistinct ==
    \A i, j \in DOMAIN posted : posted[i].id = posted[j].id => i = j
=============================================================================
