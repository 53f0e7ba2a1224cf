------------------------- MODULE NudgeExporterProofs -------------------------
(***************************************************************************)
(* Theorems about NudgeExporter, for every set of spans, batches and       *)
(* outcomes, every configuration and any number of retries.  TypeOK is     *)
(* inductive.  Routing is not: it needs to know that a packet is empty     *)
(* when the loop turns to an application, and this in turn that an         *)
(* encoding the exporter cannot marshal never reaches a request.  The      *)
(* implementation of Delivery and the counters follow, each with its own   *)
(* invariant.                                                              *)
(***************************************************************************)
EXTENDS NudgeExporter, Sums

-----------------------------------------------------------------------------
(* Registering an agent keeps the dictionary a sequence of agents, and the *)
(* agent of an entry span is in it afterwards.                             *)
LEMMA AgentsAfterType ==
    ASSUME NEW agents \in Seq(Agents), NEW s \in Span
    PROVE  /\ AgentsAfter(agents, s) \in Seq(Agents)
           /\ IsEntry(s) /\ s.agent # Nil => Registered(AgentsAfter(agents, s), s.agent)
<1>0. s.agent \in Agents \cup {Nil}
  BY DEF Span
<1>1. CASE IsEntry(s) /\ s.agent # Nil /\ ~Registered(agents, s.agent)
  <2>1. AgentsAfter(agents, s) = Append(agents, s.agent)
    BY <1>1 DEF AgentsAfter
  <2>2. /\ Append(agents, s.agent) \in Seq(Agents)
        /\ Len(agents) + 1 \in DOMAIN Append(agents, s.agent)
        /\ Append(agents, s.agent)[Len(agents) + 1] = s.agent
    BY <1>0, <1>1
  <2> QED  BY <2>1, <2>2 DEF Registered
<1>2. CASE ~(IsEntry(s) /\ s.agent # Nil /\ ~Registered(agents, s.agent))
  BY <1>2 DEF AgentsAfter
<1> QED  BY <1>1, <1>2

(* The identifier of a registered agent is a natural number.               *)
LEMMA AgentIDType ==
    ASSUME NEW agents \in Seq(Agents), NEW a, Registered(agents, a)
    PROVE  AgentID(agents, a) \in Nat
<1>1. Position(agents, a) \in DOMAIN agents
  BY DEF Position, Registered
<1>2. DOMAIN agents = 1..Len(agents) /\ Len(agents) \in Nat
  OBVIOUS
<1> QED  BY <1>1, <1>2 DEF AgentID

(* What a span leaves behind of a transaction is a transaction of the same *)
(* uuid.                                                                   *)
LEMMA AbsorbType ==
    ASSUME NEW t \in Transaction, NEW s \in Spans, rawdata.agents \in Seq(Agents)
    PROVE  /\ Absorb(t, s) \in Transaction
           /\ Absorb(t, s).uuid = t.uuid
<1>1. s \in Span
  BY ExporterAssumption
<1> DEFINE agents == AgentsAfter(rawdata.agents, s)
<1>2. /\ agents \in Seq(Agents)
      /\ IsEntry(s) /\ s.agent # Nil => AgentID(agents, s.agent) \in Nat
  BY <1>1, AgentsAfterType, AgentIDType
<1>3. SpanApp(s) \in Apps \cup {NoApp}
  BY <1>1, SpanAssumption DEF SpanApp, Span
<1>4. StartAfter(t.start, s) \in Nat \cup {Nil}
  BY <1>1 DEF StartAfter, Span, Transaction
<1>5. InstrumentAfter(t.instrument, s) \in {"Express", "Graphql", Nil}
  BY <1>1 DEF InstrumentAfter, Span, Transaction
<1>6. ErrorsOf(s) \in Nat
  BY <1>1 DEF ErrorsOf, Span
<1>7. Append(t.spans, s) \in Seq(Spans)
  BY DEF Transaction
<1>8. s.agent \in Agents \cup {Nil}
  BY <1>1 DEF Span
<1>9. /\ t.uuid \in Traces /\ t.found \in Nat /\ t.errors \in Nat
      /\ t.agent \in Agents \cup {Nil} /\ t.agentID \in Nat \cup {Nil}
      /\ t.urlid \in {NOWAITANDSEND, WAITANDSEND, NOWAITANDNOSEND}
  BY DEF Transaction
<1>10. t.found + ErrorsOf(s) \in Nat
  BY <1>6, <1>9
<1> HIDE DEF agents
<1>11. Absorb(t, s) =
         [ uuid       |-> t.uuid,
           app        |-> SpanApp(s),
           urlid      |-> IF EndsTrace(s) THEN NOWAITANDSEND ELSE t.urlid,
           start      |-> StartAfter(t.start, s),
           instrument |-> InstrumentAfter(t.instrument, s),
           agent      |-> IF IsEntry(s) /\ s.agent # Nil THEN s.agent ELSE t.agent,
           agentID    |-> IF IsEntry(s) /\ s.agent # Nil THEN AgentID(agents, s.agent)
                          ELSE t.agentID,
           found      |-> t.found + ErrorsOf(s),
           errors     |-> t.errors,
           spans      |-> Append(t.spans, s) ]
  BY DEF Absorb, agents
<1> QED
  BY <1>2, <1>3, <1>4, <1>5, <1>7, <1>8, <1>9, <1>10, <1>11 DEF Transaction

(* The transaction a new trace adds to the buffer has its type.            *)
LEMMA NewTransactionType ==
    ASSUME NEW u \in Traces
    PROVE  NewTransaction(u) \in Transaction /\ NewTransaction(u).uuid = u
BY DEF NewTransaction, Transaction
-----------------------------------------------------------------------------
(* The initial state has its types.                                        *)
LEMMA InitType == Init => TypeOK
<1> SUFFICES ASSUME Init PROVE TypeOK
  OBVIOUS
<1>1. ControlType
  BY ExporterAssumption DEF Init, ControlType
<1>2. BufferType
  BY DEF Init, BufferType
<1>3. PacketType
  BY DEF Init, PacketType
<1>4. HistoryType
  BY DEF Init, HistoryType
<1> QED  BY <1>1, <1>2, <1>3, <1>4 DEF TypeOK

(* A packet is created empty, or there is one already.                     *)
LEMMA CreateRawdataType ==
    ASSUME PacketType, CreateRawdata
    PROVE  rawdata' \in RawData /\ cmpt' \in Nat
<1>1. [transactions |-> {}, agents |-> <<>>] \in RawData
  BY DEF RawData
<1>2. CASE rawdata = Nil
  BY <1>1, <1>2 DEF CreateRawdata, PacketType
<1>3. CASE rawdata # Nil
  BY <1>3 DEF CreateRawdata, PacketType
<1> QED  BY <1>2, <1>3

(* Taking a batch keeps the types: it creates the packet when there is     *)
(* none.                                                                   *)
LEMMA PushTracesType ==
    ASSUME TypeOK, NEW b \in Batches, PushTraces(b)
    PROVE  TypeOK'
<1> USE DEF TypeOK, push, loop, ghost
<1>1. ControlType'
  BY ExporterAssumption DEF PushTraces, ControlType
<1>2. BufferType'
  BY DEF PushTraces, BufferType
<1>3. PacketType'
  BY CreateRawdataType DEF PushTraces, PacketType
<1>4. HistoryType'
  BY DEF PushTraces, HistoryType
<1> QED  BY <1>1, <1>2, <1>3, <1>4

(* Only identified applications are left to send to.                       *)
LEMMA CollectApplicationsType ==
    ASSUME TypeOK, CollectApplications
    PROVE  TypeOK'
<1> USE DEF TypeOK, push, loop, ghost
<1>1. ControlType'
  BY SpanAssumption DEF CollectApplications, ControlType, BufferType, Transaction
<1>2. BufferType'
  BY DEF CollectApplications, BufferType
<1>3. PacketType'
  BY DEF CollectApplications, PacketType
<1>4. HistoryType'
  BY DEF CollectApplications, HistoryType
<1> QED  BY <1>1, <1>2, <1>3, <1>4

(* Marshalling keeps the types, whether it panics, refuses the encoding or *)
(* makes the request.                                                      *)
LEMMA MarshalAndCountType ==
    ASSUME TypeOK, MarshalAndCount
    PROVE  TypeOK'
<1> USE DEF TypeOK, push, loop, ghost
<1>1. ControlType'
  BY DEF MarshalAndCount, ControlType
<1>2. BufferType'
  BY DEF MarshalAndCount, BufferType
<1>3. PacketType'
  BY DEF MarshalAndCount, PacketType, RawData, Packet
<1>4. HistoryType'
  <2>1. app \in Apps
    BY DEF MarshalAndCount, ControlType
  <2>2. CASE app \notin DOMAIN metrics /\ sent = {}
    BY <2>2 DEF MarshalAndCount, HistoryType
  <2>3. CASE app \notin DOMAIN metrics /\ sent # {}
    BY <2>1, <2>3 DEF MarshalAndCount, HistoryType
  <2>4. CASE app \in DOMAIN metrics
    <3>1. /\ DOMAIN metrics' = DOMAIN metrics /\ counter' = app
          /\ posted' = posted /\ done' = done
      BY <2>4 DEF MarshalAndCount
    <3> QED  BY <2>4, <3>1 DEF HistoryType
  <2> QED  BY <2>2, <2>3, <2>4
<1> QED  BY <1>1, <1>2, <1>3, <1>4

(* Forgetting the packet keeps the types: the request holds what it was.   *)
LEMMA ExportType ==
    ASSUME TypeOK, Export
    PROVE  TypeOK'
<1> USE DEF TypeOK, push, loop, ghost
<1>1. ControlType'
  BY DEF Export, ControlType, Note
<1>2. BufferType'
  BY DEF Export, BufferType
<1>3. PacketType'
  BY DEF Export, PacketType
<1>4. HistoryType'
  BY DEF Export, HistoryType
<1> QED  BY <1>1, <1>2, <1>3, <1>4

(* Every outcome of a request appends a request of its type to the         *)
(* history.                                                                *)
LEMMA HttpResponseType ==
    ASSUME TypeOK, NEW o \in Outcomes, HttpResponse(o)
    PROVE  TypeOK'
<1> USE DEF TypeOK, push, loop, ghost
<1>1. ControlType'
  BY ExporterAssumption DEF HttpResponse, ControlType, Note
<1>2. BufferType'
  BY DEF HttpResponse, BufferType
<1>3. PacketType'
  BY DEF HttpResponse, PacketType
<1>4. HistoryType'
  <2>1. PICK got \in BOOLEAN :
          posted' = Append(posted, [ app |-> app, url |-> Target, packet |-> request,
                                     time |-> now, accepted |-> got ])
    BY DEF HttpResponse
  <2>2. [ app |-> app, url |-> Target, packet |-> request, time |-> now, accepted |-> got ]
          \in Request
    <3>1. Target \in Apps \cup {NoApp}
      BY SpanAssumption DEF Target, ControlType
    <3>2. app \in Apps /\ request \in Packet /\ now \in Nat
      BY DEF HttpResponse, ControlType, PacketType
    <3> QED  BY <3>1, <3>2 DEF Request
  <2>3. DOMAIN metrics' = DOMAIN metrics /\ counter' = counter /\ done' = done
    BY DEF HttpResponse
  <2> QED  BY <2>1, <2>2, <2>3 DEF HistoryType
<1> QED  BY <1>1, <1>2, <1>3, <1>4

(* The end of a push keeps the types.                                      *)
LEMMA ReturnType ==
    ASSUME TypeOK, Return
    PROVE  TypeOK'
<1> USE DEF TypeOK, push, loop, ghost
<1>1. ControlType'
  BY DEF Return, ControlType
<1>2. BufferType'
  BY DEF Return, BufferType
<1>3. PacketType'
  BY DEF Return, PacketType
<1>4. HistoryType'
  BY DEF Return, HistoryType, ControlType
<1> QED  BY <1>1, <1>2, <1>3, <1>4

(* A retry keeps the types: it creates the packet export has forgotten.    *)
LEMMA RetryType ==
    ASSUME TypeOK, Retry
    PROVE  TypeOK'
<1> USE DEF TypeOK, push, loop, ghost
<1>1. ControlType'
  BY DEF Retry, ControlType
<1>2. BufferType'
  BY DEF Retry, BufferType
<1>3. PacketType'
  BY CreateRawdataType DEF Retry, PacketType
<1>4. HistoryType'
  BY DEF Retry, HistoryType
<1> QED  BY <1>1, <1>2, <1>3, <1>4

(* Giving a batch up keeps the types.                                      *)
LEMMA GiveUpType ==
    ASSUME TypeOK, GiveUp
    PROVE  TypeOK'
<1> USE DEF TypeOK, push, loop, ghost
<1>1. ControlType'
  BY DEF GiveUp, ControlType
<1>2. BufferType'
  BY DEF GiveUp, BufferType
<1>3. PacketType'
  BY DEF GiveUp, PacketType
<1>4. HistoryType'
  BY DEF GiveUp, HistoryType
<1> QED  BY <1>1, <1>2, <1>3, <1>4

(* The clock keeps the types.                                              *)
LEMMA TickType ==
    ASSUME TypeOK, Tick
    PROVE  TypeOK'
<1> USE DEF TypeOK, push, loop, ghost
<1>1. ControlType'
  BY DEF Tick, ControlType
<1>2. BufferType'
  BY DEF Tick, BufferType
<1>3. PacketType'
  BY DEF Tick, PacketType
<1>4. HistoryType'
  BY DEF Tick, HistoryType
<1> QED  BY <1>1, <1>2, <1>3, <1>4

(* Folding a span, or panicking on it, keeps the types.                    *)
LEMMA ConvertSpanType ==
    ASSUME TypeOK, ConvertSpan
    PROVE  TypeOK'
<1> USE DEF TypeOK, push, loop, ghost
<1>1. ControlType'
  BY DEF ConvertSpan, ControlType
<1> DEFINE s == batch[pos]
           t == Buffered(s.trace)
<1>a. pos \in 1..Len(batch) /\ s \in Spans /\ s \in Span
  BY ExporterAssumption DEF ConvertSpan, ControlType
<1>b. s.trace \in Traces
  BY <1>a DEF Span
<1>c. t \in Transaction /\ t.uuid = s.trace
  BY <1>b, NewTransactionType DEF Buffered, BufferType
<1>d. rawdata \in RawData /\ rawdata.agents \in Seq(Agents)
  BY DEF ConvertSpan, PacketType, RawData
<1>e. Absorb(t, s) \in Transaction /\ Absorb(t, s).uuid = s.trace
  BY <1>a, <1>c, <1>d, AbsorbType
<1>f. \/ /\ transactions' = [u \in DOMAIN transactions \cup {s.trace} |->
                                IF u = s.trace THEN Absorb(t, s) ELSE transactions[u]]
         /\ rawdata' = [rawdata EXCEPT !.agents = AgentsAfter(rawdata.agents, s)]
      \/ UNCHANGED <<transactions, rawdata>>
  BY DEF ConvertSpan
<1>2. BufferType'
  <2>1. sent' = sent
    BY DEF ConvertSpan
  <2> HIDE DEF s, t
  <2> QED  BY <1>b, <1>e, <1>f, <2>1 DEF BufferType
<1>3. PacketType'
  <2>1. rawdata' \in RawData
    BY <1>a, <1>d, <1>f, AgentsAfterType DEF RawData
  <2>2. UNCHANGED <<pc, cmpt, request>>
    BY DEF ConvertSpan
  <2> QED  BY <2>1, <2>2 DEF PacketType
<1>4. HistoryType'
  BY DEF ConvertSpan, HistoryType
<1> QED  BY <1>1, <1>2, <1>3, <1>4

(* Reporting the errors of a transaction keeps it a transaction.           *)
LEMMA ReportedType ==
    ASSUME NEW t \in Transaction
    PROVE  /\ Reported(t) \in Transaction
           /\ Reported(t).uuid = t.uuid /\ Reported(t).app = t.app
<1>1. t.errors + t.found \in Nat
  BY DEF Transaction
<1> QED  BY <1>1 DEF Reported, Transaction

(* Moving the due transactions of an application to the packet keeps the   *)
(* types.                                                                  *)
LEMMA SendTransactionsType ==
    ASSUME TypeOK, NEW a \in Apps, SendTransactions(a)
    PROVE  TypeOK'
<1> USE DEF TypeOK, push, loop, ghost
<1>1. ControlType'
  BY DEF SendTransactions, ControlType
<1>4. HistoryType'
  BY DEF SendTransactions, HistoryType
<1>5. CASE rawdata = Nil
  <2>1. BufferType' /\ PacketType'
    BY <1>5 DEF SendTransactions, BufferType, PacketType
  <2> QED  BY <1>1, <1>4, <2>1
<1>6. CASE rawdata # Nil
  <2>1. sent' \subseteq Transaction
    BY <1>6, ReportedType DEF SendTransactions, BufferType
  <2>2. BufferType'
    BY <1>6, <2>1, ReportedType DEF SendTransactions, BufferType
  <2>3. rawdata' \in RawData
    BY <1>6, <2>1 DEF SendTransactions, PacketType, RawData
  <2>4. PacketType'
    BY <2>3 DEF SendTransactions, PacketType
  <2> QED  BY <1>1, <1>4, <2>2, <2>4
<1> QED  BY <1>5, <1>6

(* Every step keeps the types, one case for each action.                   *)
LEMMA NextType == TypeOK /\ [Next]_vars => TypeOK'
<1> SUFFICES ASSUME TypeOK, [Next]_vars PROVE TypeOK'
  OBVIOUS
<1>1. CASE \E b \in Batches : PushTraces(b)
  BY <1>1, PushTracesType
<1>2. CASE PushStep
  BY <1>2, ConvertSpanType, CollectApplicationsType, SendTransactionsType,
     MarshalAndCountType, ExportType, ReturnType, RetryType, GiveUpType DEF PushStep
<1>3. CASE \E o \in Outcomes : HttpResponse(o)
  BY <1>3, HttpResponseType
<1>4. CASE Tick
  BY <1>4, TickType
<1>5. CASE UNCHANGED vars
  BY <1>5 DEF vars, push, loop, ghost, TypeOK, ControlType, BufferType, PacketType,
              HistoryType
<1> QED  BY <1>1, <1>2, <1>3, <1>4, <1>5 DEF Next

(* Every variable of the exporter keeps its type: in particular an agent   *)
(* identifier is never negative, a packet that is converted into,          *)
(* marshalled or posted is there, and only identified applications are     *)
(* sent to (pushTraces, SendTransactions, export).                         *)
THEOREM TypeCorrect == Spec => []TypeOK
<1>1. Init => TypeOK
  BY InitType
<1>2. TypeOK /\ [Next]_vars => TypeOK'
  BY NextType
<1> QED  BY <1>1, <1>2, PTL DEF Spec
-----------------------------------------------------------------------------
(* What the loop of pushTraces knows of the packet.  With an encoding it   *)
(* can marshal, the packet is empty outside the turn of an application,    *)
(* holds what was sent during it, and so does the request; with any other  *)
(* the turn ends before the request.                                       *)
Encodable == Encoding \in {"proto", "json"}

PacketInv ==
    /\ \A t \in sent : t.app = app
    /\ Encodable /\ rawdata \in RawData /\ pc \notin {"marshal", "export"} =>
         rawdata.transactions = {}
    /\ Encodable /\ pc \in {"marshal", "export"} => rawdata.transactions = sent
    /\ Encodable /\ pc \in {"export", "http"} => request.transactions = sent
    /\ ~Encodable => posted = <<>> /\ pc \notin {"export", "http"}

(* The invariant on the packet holds before the first push.                *)
LEMMA InitPacketInv == Init => PacketInv
BY NilAssumption DEF Init, PacketInv

(* With the invariant, the packet a push starts with is empty.             *)
LEMMA CreateRawdataEmpty ==
    ASSUME TypeOK, PacketInv, CreateRawdata, pc \notin {"marshal", "export"}, Encodable
    PROVE  rawdata'.transactions = {}
<1>1. CASE rawdata = Nil
  BY <1>1 DEF CreateRawdata
<1>2. CASE rawdata # Nil
  BY <1>2 DEF CreateRawdata, PacketInv, TypeOK, PacketType
<1> QED  BY <1>1, <1>2

(* Each step of a push keeps the packet and the request in line.           *)
LEMMA NextPacketInv == TypeOK /\ PacketInv /\ [Next]_vars => PacketInv'
<1> SUFFICES ASSUME TypeOK, PacketInv, [Next]_vars PROVE PacketInv'
  OBVIOUS
<1> USE DEF push, loop, ghost
<1>1. ASSUME NEW b \in Batches, PushTraces(b) PROVE PacketInv'
  BY <1>1, CreateRawdataEmpty DEF PushTraces, PacketInv
<1>2. CASE ConvertSpan
  BY <1>2 DEF ConvertSpan, PacketInv, TypeOK, PacketType, RawData
<1>3. CASE CollectApplications
  BY <1>3 DEF CollectApplications, PacketInv
<1>4. ASSUME NEW a \in Apps, SendTransactions(a) PROVE PacketInv'
  <2>1. CASE rawdata = Nil
    BY <1>4, <2>1 DEF SendTransactions, PacketInv
  <2>2. CASE rawdata # Nil
    <3>1. /\ pc = "loop" /\ pc' = "marshal" /\ app' = a
          /\ rawdata' = [rawdata EXCEPT !.transactions = @ \cup sent']
          /\ posted' = posted /\ request' = request
      BY <1>4, <2>2 DEF SendTransactions
    <3>2. \A t \in sent' : t.app = a
      BY <1>4, <2>2, ReportedType DEF SendTransactions, BelongsTo, TypeOK, BufferType
    <3>3. Encodable => rawdata'.transactions = sent'
      BY <2>2, <3>1 DEF PacketInv, TypeOK, PacketType, RawData
    <3> QED  BY <3>1, <3>2, <3>3 DEF PacketInv
  <2> QED  BY <2>1, <2>2
<1>5. CASE MarshalAndCount
  BY <1>5 DEF MarshalAndCount, PacketInv, Encodable
<1>6. CASE Export
  BY <1>6, NilAssumption DEF Export, PacketInv
<1>7. ASSUME NEW o \in Outcomes, HttpResponse(o) PROVE PacketInv'
  BY <1>7 DEF HttpResponse, PacketInv
<1>8. CASE Return
  BY <1>8 DEF Return, PacketInv
<1>9. CASE Retry
  BY <1>9, CreateRawdataEmpty DEF Retry, PacketInv
<1>10. CASE GiveUp
  BY <1>10 DEF GiveUp, PacketInv
<1>11. CASE Tick
  BY <1>11 DEF Tick, PacketInv
<1>12. CASE UNCHANGED vars
  BY <1>12 DEF vars, PacketInv
<1> QED
  BY <1>1, <1>2, <1>3, <1>4, <1>5, <1>6, <1>7, <1>8, <1>9, <1>10, <1>11, <1>12
  DEF Next, PushStep

(* Only HttpResponse posts, and what it posts is what was sent for the     *)
(* application the request goes to.                                        *)
LEMMA NextRouting == TypeOK /\ PacketInv /\ Routing /\ [Next]_vars => Routing'
<1> SUFFICES ASSUME TypeOK, PacketInv, Routing, [Next]_vars PROVE Routing'
  OBVIOUS
<1> USE DEF push, loop, ghost
<1>1. CASE posted' = posted
  BY <1>1 DEF Routing, Requests
<1>2. ASSUME NEW o \in Outcomes, HttpResponse(o) PROVE Routing'
  <2>1. PICK got \in BOOLEAN :
          posted' = Append(posted, [ app |-> app, url |-> Target, packet |-> request,
                                     time |-> now, accepted |-> got ])
    BY <1>2 DEF HttpResponse
  <2> DEFINE r == [ app |-> app, url |-> Target, packet |-> request,
                    time |-> now, accepted |-> got ]
  <2>2. pc = "http" /\ Encodable
    BY <1>2 DEF HttpResponse, PacketInv
  <2>3. \A t \in r.packet.transactions : t.app = r.url
    BY <2>2 DEF PacketInv, Target
  <2>4. posted \in Seq(Request)
    BY DEF TypeOK, HistoryType
  <2> HIDE DEF r
  <2>5. \A q \in Requests' : q \in Requests \/ q = r
    BY <2>1, <2>4 DEF Requests, r
  <2> QED  BY <2>3, <2>5 DEF Routing
<1>3. posted' = posted \/ \E o \in Outcomes : HttpResponse(o)
  BY DEF Next, PushStep, PushTraces, ConvertSpan, CollectApplications, SendTransactions,
         MarshalAndCount, Export, Return, Retry, GiveUp, Tick, vars
<1> QED  BY <1>1, <1>2, <1>3

(* A packet posted to the URL of an application carries transactions of    *)
(* that application only, whatever is retried, refused or left over from   *)
(* an earlier push.                                                        *)
THEOREM RoutingCorrect == Spec => []Routing
<1>1. Init => TypeOK /\ PacketInv /\ Routing
  BY InitType, InitPacketInv DEF Init, Routing, Requests
<1>2. TypeOK /\ PacketInv /\ Routing /\ [Next]_vars => (TypeOK /\ PacketInv /\ Routing)'
  BY NextType, NextPacketInv, NextRouting
<1> QED  BY <1>1, <1>2, PTL DEF Spec
-----------------------------------------------------------------------------
(* A packet that exists has the identifier cmpt, which no request made so  *)
(* far has; it is forgotten before its request is made.                    *)
IdInv ==
    /\ \A i \in DOMAIN posted : posted[i].packet.id <= cmpt
    /\ rawdata \in RawData \/ pc = "http" =>
         \A i \in DOMAIN posted : posted[i].packet.id < cmpt
    /\ pc \in {"export", "http"} => request.id = cmpt
    /\ pc = "http" => rawdata = Nil

(* What was posted carries natural numbers as ids.                         *)
LEMMA PostedIds ==
    ASSUME TypeOK, NEW i \in DOMAIN posted
    PROVE  posted[i].packet.id \in Nat
<1>1. posted \in Seq(Request)
  BY DEF TypeOK, HistoryType
<1>2. posted[i] \in Request
  BY <1>1
<1> QED  BY <1>2 DEF Request, Packet

(* Creating a packet advances the counter past every id posted so far.     *)
LEMMA CreateRawdataIds ==
    ASSUME TypeOK, IdInv, CreateRawdata, UNCHANGED posted, pc # "http",
           pc' = "convert"
    PROVE  IdInv'
<1>1. CASE rawdata = Nil
  <2>1. cmpt' = cmpt + 1 /\ cmpt \in Nat
    BY <1>1 DEF CreateRawdata, TypeOK, PacketType
  <2>2. \A i \in DOMAIN posted' : posted'[i].packet.id < cmpt'
    BY <2>1, PostedIds DEF IdInv
  <2>3. \A i \in DOMAIN posted' : posted'[i].packet.id <= cmpt'
    BY <2>1, PostedIds DEF IdInv
  <2> QED  BY <2>2, <2>3 DEF IdInv
<1>2. CASE rawdata # Nil
  <2>1. rawdata \in RawData /\ UNCHANGED <<rawdata, cmpt>>
    BY <1>2 DEF CreateRawdata, TypeOK, PacketType
  <2> QED  BY <2>1 DEF IdInv
<1> QED  BY <1>1, <1>2

(* Each step keeps the counter ahead of the ids posted.                    *)
LEMMA NextIdInv == TypeOK /\ IdInv /\ [Next]_vars => IdInv'
<1> SUFFICES ASSUME TypeOK, IdInv, [Next]_vars PROVE IdInv'
  OBVIOUS
<1> USE DEF push, loop, ghost
<1>1. ASSUME NEW b \in Batches, PushTraces(b) PROVE IdInv'
  BY <1>1, CreateRawdataIds DEF PushTraces
<1>2. CASE ConvertSpan
  BY <1>2 DEF ConvertSpan, IdInv, TypeOK, PacketType
<1>3. CASE CollectApplications
  BY <1>3 DEF CollectApplications, IdInv
<1>4. ASSUME NEW a \in Apps, SendTransactions(a) PROVE IdInv'
  <2>1. rawdata = Nil => rawdata' = Nil
    BY <1>4 DEF SendTransactions
  <2>2. /\ UNCHANGED <<posted, cmpt, request>>
        /\ pc' \in {"loop", "marshal"}
    BY <1>4 DEF SendTransactions
  <2> QED  BY <2>1, <2>2, NilAssumption DEF IdInv, TypeOK, PacketType
<1>5. CASE MarshalAndCount
  BY <1>5 DEF MarshalAndCount, IdInv
<1>6. CASE Export
  <2>1. /\ rawdata \in RawData /\ rawdata' = Nil
        /\ UNCHANGED <<posted, cmpt>>
        /\ pc = "export"
        /\ \/ pc' = "loop"
           \/ pc' = "http" /\ request' = request
    BY <1>6 DEF Export, TypeOK, PacketType, Note
  <2> QED  BY <2>1, NilAssumption DEF IdInv
<1>7. ASSUME NEW o \in Outcomes, HttpResponse(o) PROVE IdInv'
  <2>1. PICK got \in BOOLEAN :
          posted' = Append(posted, [ app |-> app, url |-> Target, packet |-> request,
                                     time |-> now, accepted |-> got ])
    BY <1>7 DEF HttpResponse
  <2>2. /\ pc = "http" /\ pc' = "loop"
        /\ rawdata' = Nil /\ cmpt' = cmpt /\ cmpt \in Nat /\ request.id = cmpt
    BY <1>7 DEF HttpResponse, IdInv, TypeOK, PacketType
  <2>3. \A i \in DOMAIN posted' :
          \/ i \in DOMAIN posted /\ posted'[i] = posted[i]
          \/ posted'[i].packet = request
    BY <2>1 DEF TypeOK, HistoryType
  <2>4. \A i \in DOMAIN posted' : posted'[i].packet.id <= cmpt'
    BY <2>2, <2>3 DEF IdInv
  <2> QED  BY <2>2, <2>4, NilAssumption DEF IdInv
<1>8. CASE Return
  BY <1>8 DEF Return, IdInv
<1>9. CASE Retry
  BY <1>9, CreateRawdataIds DEF Retry
<1>10. CASE GiveUp
  BY <1>10 DEF GiveUp, IdInv
<1>11. CASE Tick
  BY <1>11 DEF Tick, IdInv
<1>12. CASE UNCHANGED vars
  BY <1>12 DEF vars, IdInv
<1> QED
  BY <1>1, <1>2, <1>3, <1>4, <1>5, <1>6, <1>7, <1>8, <1>9, <1>10, <1>11, <1>12
  DEF Next, PushStep

(* Only HttpResponse posts, and it posts an id that is ahead of all        *)
(* others.                                                                 *)
LEMMA NextPacketIds ==
    TypeOK /\ IdInv /\ PacketIdsIncrease /\ [Next]_vars => PacketIdsIncrease'
<1> SUFFICES ASSUME TypeOK, IdInv, PacketIdsIncrease, [Next]_vars
             PROVE  PacketIdsIncrease'
  OBVIOUS
<1> USE DEF push, loop, ghost
<1>1. CASE posted' = posted
  BY <1>1 DEF PacketIdsIncrease
<1>2. ASSUME NEW o \in Outcomes, HttpResponse(o) PROVE PacketIdsIncrease'
  <2>1. PICK got \in BOOLEAN :
          posted' = Append(posted, [ app |-> app, url |-> Target, packet |-> request,
                                     time |-> now, accepted |-> got ])
    BY <1>2 DEF HttpResponse
  <2>2. \A i \in DOMAIN posted : posted[i].packet.id < request.id
    BY <1>2 DEF HttpResponse, IdInv
  <2>3. /\ posted \in Seq(Request)
    BY DEF TypeOK, HistoryType
  <2>4. \A i, j \in DOMAIN posted' : i < j =>
          /\ i \in DOMAIN posted /\ posted'[i] = posted[i]
          /\ \/ j \in DOMAIN posted /\ posted'[j] = posted[j]
             \/ posted'[j].packet = request
    BY <2>1, <2>3
  <2> QED  BY <2>2, <2>4 DEF PacketIdsIncrease
<1>3. posted' = posted \/ \E o \in Outcomes : HttpResponse(o)
  BY DEF Next, PushStep, PushTraces, ConvertSpan, CollectApplications, SendTransactions,
         MarshalAndCount, Export, Return, Retry, GiveUp, Tick, vars
<1> QED  BY <1>1, <1>2, <1>3

(* The Id of a packet is greater than that of every packet posted before,  *)
(* although it is a pointer to the counter that the next packet advances:  *)
(* no packet is created while one is filled, marshalled or posted.         *)
THEOREM PacketIdsCorrect == Spec => []PacketIdsIncrease
<1>1. Init => TypeOK /\ IdInv /\ PacketIdsIncrease
  BY InitType, NilAssumption DEF Init, IdInv, PacketIdsIncrease
<1>2. TypeOK /\ IdInv /\ PacketIdsIncrease /\ [Next]_vars
        => (TypeOK /\ IdInv /\ PacketIdsIncrease)'
  BY NextType, NextIdInv, NextPacketIds
<1> QED  BY <1>1, <1>2, PTL DEF Spec
-----------------------------------------------------------------------------
(* What SendTransactions moves without a root span is older than the       *)
(* timeout, and only gets older until its request is made.                 *)
Overdue(t, time) ==
    t.urlid = WAITANDSEND =>
        t.start = Nil \/ time - t.start > TimeoutBufferTransaction

SentInv == \A t \in sent : Overdue(t, now)

(* Steps other than SendTransactions and Tick leave what was sent and the  *)
(* clock alone.                                                            *)
LEMMA NextSentInv == TypeOK /\ SentInv /\ [Next]_vars => SentInv'
<1> SUFFICES ASSUME TypeOK, SentInv, [Next]_vars PROVE SentInv'
  OBVIOUS
<1> USE DEF push, loop, ghost
<1>1. ASSUME NEW a \in Apps, SendTransactions(a) PROVE SentInv'
  <2>1. CASE rawdata = Nil
    BY <1>1, <2>1 DEF SendTransactions, SentInv, Overdue
  <2>2. CASE rawdata # Nil
    <3> SUFFICES ASSUME NEW t \in sent' PROVE Overdue(t, now)
      BY <1>1 DEF SendTransactions, SentInv, Overdue
    <3>1. PICK u \in DOMAIN transactions :
            IsDue(transactions[u]) /\ t = Reported(transactions[u])
      BY <1>1, <2>2 DEF SendTransactions
    <3>2. transactions[u] \in Transaction
      BY DEF TypeOK, BufferType
    <3>3. t.urlid = transactions[u].urlid /\ t.start = transactions[u].start
      BY <3>1, <3>2 DEF Reported, Transaction
    <3> QED  BY <3>1, <3>3 DEF Overdue, IsDue, TimedOut, NOWAITANDSEND, WAITANDSEND
  <2> QED  BY <2>1, <2>2
<1>2. CASE Tick
  <2>1. sent' = sent /\ now' = now + 1
    BY <1>2 DEF Tick
  <2> SUFFICES ASSUME NEW t \in sent PROVE Overdue(t, now')
    BY <2>1 DEF SentInv, Overdue
  <2>2. t.start \in Nat \cup {Nil} /\ Overdue(t, now)
    BY DEF TypeOK, BufferType, Transaction, SentInv
  <2> QED  BY <2>1, <2>2, ExporterAssumption DEF Overdue, TypeOK, ControlType
<1>3. sent' = sent /\ now' = now => SentInv'
  BY DEF SentInv, Overdue
<1>4. \/ sent' = sent /\ now' = now
      \/ Tick
      \/ \E a \in Apps : SendTransactions(a)
  BY DEF Next, PushStep, PushTraces, ConvertSpan, CollectApplications, MarshalAndCount,
         Export, HttpResponse, Return, Retry, GiveUp, vars
<1> QED  BY <1>1, <1>2, <1>3, <1>4

(* A request carries what was sent for its application, now.               *)
LEMMA NextKept ==
    TypeOK /\ PacketInv /\ SentInv /\ KeptUntilTimeout /\ [Next]_vars => KeptUntilTimeout'
<1> SUFFICES ASSUME TypeOK, PacketInv, SentInv, KeptUntilTimeout, [Next]_vars
             PROVE  KeptUntilTimeout'
  OBVIOUS
<1> USE DEF push, loop, ghost
<1>1. CASE posted' = posted
  BY <1>1 DEF KeptUntilTimeout, Requests
<1>2. ASSUME NEW o \in Outcomes, HttpResponse(o) PROVE KeptUntilTimeout'
  <2>1. PICK got \in BOOLEAN :
          posted' = Append(posted, [ app |-> app, url |-> Target, packet |-> request,
                                     time |-> now, accepted |-> got ])
    BY <1>2 DEF HttpResponse
  <2> DEFINE r == [ app |-> app, url |-> Target, packet |-> request,
                    time |-> now, accepted |-> got ]
  <2>2. pc = "http" /\ Encodable
    BY <1>2 DEF HttpResponse, PacketInv
  <2>3. \A t \in r.packet.transactions : Overdue(t, r.time)
    BY <2>2 DEF PacketInv, SentInv
  <2>4. posted \in Seq(Request)
    BY DEF TypeOK, HistoryType
  <2> HIDE DEF r
  <2>5. \A q \in Requests' : q \in Requests \/ q = r
    BY <2>1, <2>4 DEF Requests, r
  <2> QED  BY <2>3, <2>5 DEF KeptUntilTimeout, Overdue
<1>3. posted' = posted \/ \E o \in Outcomes : HttpResponse(o)
  BY DEF Next, PushStep, PushTraces, ConvertSpan, CollectApplications, SendTransactions,
         MarshalAndCount, Export, Return, Retry, GiveUp, Tick, vars
<1> QED  BY <1>1, <1>2, <1>3

(* A transaction whose root span has not come is posted only once it is    *)
(* older than the timeout, whatever is pushed, retried or left over.       *)
THEOREM TimeoutKept == Spec => []KeptUntilTimeout
<1>1. Init => TypeOK /\ PacketInv /\ SentInv /\ KeptUntilTimeout
  BY InitType, InitPacketInv DEF Init, SentInv, KeptUntilTimeout, Requests
<1>2. TypeOK /\ PacketInv /\ SentInv /\ KeptUntilTimeout /\ [Next]_vars
        => (TypeOK /\ PacketInv /\ SentInv /\ KeptUntilTimeout)'
  BY NextType, NextPacketInv, NextSentInv, NextKept
<1> QED  BY <1>1, <1>2, PTL DEF Spec
-----------------------------------------------------------------------------
(* NudgeExporter implements Delivery, for every value of the constants:    *)
(* each step of a push is a Take, a Post or a Drop of the abstract         *)
(* specification, or leaves its variables alone.  Export is the step that  *)
(* needs an argument: what it drops has to belong to an application whose  *)
(* URL may be refused.  A transaction takes its application from one of    *)
(* its spans, and the spans of a transaction have one trace (Sound); the   *)
(* packet of an application holds what was sent for it (PacketInv).        *)

(* What a transaction owes to the spans folded into it.  The conversion    *)
(* never sets Urlid to NOWAITANDNOSEND, which would discard it.            *)
Sound(t) ==
    /\ \A i \in DOMAIN t.spans : t.spans[i].trace = t.uuid
    /\ \E r \in Spans : r.trace = t.uuid /\ SpanApp(r) = t.app
    /\ t.urlid # NOWAITANDNOSEND

DeliveryInv ==
    /\ \A u \in DOMAIN transactions : Sound(transactions[u])
    /\ \A t \in sent : Sound(t)
    /\ pc # "idle" => batch \notin queue
    /\ pc \notin {"export", "http"} => request = Nil
    /\ pc = "export" => request.transactions = rawdata.transactions
    /\ pc = "http" => rawdata = Nil
-----------------------------------------------------------------------------
(* Folding a span into a sound transaction of its trace, or into a new     *)
(* one, gives a sound transaction, which holds the span besides the others.*)
LEMMA AbsorbSound ==
    ASSUME NEW t \in Transaction, NEW s \in Spans, t.uuid = s.trace,
           t.urlid # NOWAITANDNOSEND,
           \A i \in DOMAIN t.spans : t.spans[i].trace = t.uuid
    PROVE  /\ Sound(Absorb(t, s))
           /\ \A r : Holds(Absorb(t, s), r) <=> Holds(t, r) \/ r = s
<1>1. /\ Absorb(t, s).uuid = s.trace
      /\ Absorb(t, s).app = SpanApp(s)
      /\ Absorb(t, s).urlid \in {NOWAITANDSEND, t.urlid}
      /\ Absorb(t, s).spans = Append(t.spans, s)
  BY DEF Absorb
<1>2. t.spans \in Seq(Spans)
  BY DEF Transaction
<1>3. /\ DOMAIN Append(t.spans, s) = DOMAIN t.spans \cup {Len(t.spans) + 1}
      /\ \A i \in DOMAIN t.spans : Append(t.spans, s)[i] = t.spans[i]
      /\ Append(t.spans, s)[Len(t.spans) + 1] = s
  BY <1>2
<1>4. Sound(Absorb(t, s))
  BY <1>1, <1>3 DEF Sound, NOWAITANDSEND, NOWAITANDNOSEND
<1>5. \A r : Holds(Absorb(t, s), r) <=> Holds(t, r) \/ r = s
  BY <1>1, <1>3 DEF Holds
<1> QED  BY <1>4, <1>5

(* Reporting errors does not touch what a transaction is for.              *)
LEMMA ReportedSound ==
    ASSUME NEW t \in Transaction
    PROVE  /\ Sound(t) => Sound(Reported(t))
           /\ \A r : Holds(Reported(t), r) <=> Holds(t, r)
<1>1. /\ Reported(t).uuid = t.uuid /\ Reported(t).app = t.app
      /\ Reported(t).urlid = t.urlid /\ Reported(t).spans = t.spans
  BY DEF Reported, Transaction
<1> QED  BY <1>1 DEF Sound, Holds

(* What the conversion of a span starts from: a transaction of its trace.  *)
LEMMA BufferedSound ==
    ASSUME TypeOK, DeliveryInv, NEW s \in Spans
    PROVE  /\ s.trace \in Traces
           /\ Buffered(s.trace) \in Transaction
           /\ Buffered(s.trace).uuid = s.trace
           /\ Buffered(s.trace).urlid # NOWAITANDNOSEND
           /\ \A i \in DOMAIN Buffered(s.trace).spans :
                 Buffered(s.trace).spans[i].trace = s.trace
           /\ s.trace \notin DOMAIN transactions =>
                 \A r : ~Holds(Buffered(s.trace), r)
<1>1. s.trace \in Traces
  BY ExporterAssumption DEF Span
<1>2. CASE s.trace \in DOMAIN transactions
  BY <1>1, <1>2 DEF Buffered, DeliveryInv, Sound, TypeOK, BufferType
<1>3. CASE s.trace \notin DOMAIN transactions
  <2>1. /\ NewTransaction(s.trace).urlid = WAITANDSEND
        /\ NewTransaction(s.trace).spans = <<>>
    BY DEF NewTransaction
  <2> QED
    BY <1>1, <1>3, <2>1, NewTransactionType
    DEF Buffered, Holds, WAITANDSEND, NOWAITANDNOSEND
<1> QED  BY <1>2, <1>3
-----------------------------------------------------------------------------
(* Only a sound buffer is left by a push, and a request is there only      *)
(* while it is exported and answered.                                      *)
LEMMA NextDeliveryInv == TypeOK /\ DeliveryInv /\ [Next]_vars => DeliveryInv'
<1> SUFFICES ASSUME TypeOK, DeliveryInv, [Next]_vars PROVE DeliveryInv'
  OBVIOUS
<1> USE DEF push, loop, ghost
<1>1. ASSUME NEW b \in Batches, PushTraces(b) PROVE DeliveryInv'
  BY <1>1 DEF PushTraces, DeliveryInv
<1>2. CASE ConvertSpan
  <2> DEFINE s == batch[pos]
             t == Buffered(s.trace)
  <2>1. s \in Spans /\ pc = "convert"
    BY <1>2, ExporterAssumption DEF ConvertSpan, TypeOK, ControlType
  <2>2. Sound(Absorb(t, s))
    BY <2>1, BufferedSound, AbsorbSound
  <2>3. \/ transactions' = [u \in DOMAIN transactions \cup {s.trace} |->
                              IF u = s.trace THEN Absorb(t, s) ELSE transactions[u]]
        \/ transactions' = transactions
    BY <1>2 DEF ConvertSpan
  <2>4. UNCHANGED <<pc, batch, queue, sent, request>>
    BY <1>2 DEF ConvertSpan
  <2> HIDE DEF s, t
  <2>5. \A u \in DOMAIN transactions' : Sound(transactions'[u])
    BY <2>2, <2>3 DEF DeliveryInv
  <2> QED  BY <2>1, <2>4, <2>5 DEF DeliveryInv
<1>3. CASE CollectApplications
  BY <1>3 DEF CollectApplications, DeliveryInv
<1>4. ASSUME NEW a \in Apps, SendTransactions(a) PROVE DeliveryInv'
  <2>1. CASE rawdata = Nil
    BY <1>4, <2>1 DEF SendTransactions, DeliveryInv
  <2>2. CASE rawdata # Nil
    <3>1. \A u \in DOMAIN transactions :
             Sound(transactions[u]) /\ Sound(Reported(transactions[u]))
      BY ReportedSound DEF DeliveryInv, TypeOK, BufferType
    <3>2. \A u \in DOMAIN transactions' : Sound(transactions'[u])
      BY <1>4, <2>2, <3>1 DEF SendTransactions
    <3>3. \A t \in sent' : Sound(t)
      BY <1>4, <2>2, <3>1 DEF SendTransactions
    <3>4. /\ pc = "loop" /\ pc' = "marshal"
          /\ UNCHANGED <<batch, queue, request>>
      BY <1>4, <2>2 DEF SendTransactions
    <3> QED  BY <3>2, <3>3, <3>4 DEF DeliveryInv
  <2> QED  BY <2>1, <2>2
<1>5. CASE MarshalAndCount
  BY <1>5 DEF MarshalAndCount, DeliveryInv
<1>6. CASE Export
  BY <1>6 DEF Export, DeliveryInv
<1>7. ASSUME NEW o \in Outcomes, HttpResponse(o) PROVE DeliveryInv'
  BY <1>7 DEF HttpResponse, DeliveryInv
<1>8. CASE Return
  BY <1>8 DEF Return, DeliveryInv
<1>9. CASE Retry
  BY <1>9 DEF Retry, DeliveryInv
<1>10. CASE GiveUp
  BY <1>10 DEF GiveUp, DeliveryInv
<1>11. CASE Tick
  BY <1>11 DEF Tick, DeliveryInv
<1>12. CASE UNCHANGED vars
  BY <1>12 DEF vars, DeliveryInv
<1> QED
  BY <1>1, <1>2, <1>3, <1>4, <1>5, <1>6, <1>7, <1>8, <1>9, <1>10, <1>11, <1>12
  DEF Next, PushStep
-----------------------------------------------------------------------------
(* What is held and tried depends on the variables Held and Tried mention. *)
LEMMA SameHeld ==
    ASSUME UNCHANGED <<transactions, rawdata, request>>
    PROVE  Held' = Held
BY DEF Held, SpansIn, Holds

LEMMA SameTried == ASSUME posted' = posted PROVE Tried' = Tried
BY DEF Tried, Requests, SpansIn, Holds

(* Creating the packet holds nothing new.                                  *)
LEMMA CreateRawdataHeld ==
    ASSUME CreateRawdata, UNCHANGED <<transactions, request>>
    PROVE  Held' = Held
<1>1. CASE rawdata = Nil
  <2>1. rawdata' = [transactions |-> {}, agents |-> <<>>]
    BY <1>1 DEF CreateRawdata
  <2>2. SpansIn(rawdata'.transactions) = {}
    BY <2>1 DEF SpansIn
  <2>3. (IF rawdata' = Nil THEN {} ELSE SpansIn(rawdata'.transactions)) = {}
    BY <2>2
  <2> QED  BY <1>1, <2>3 DEF Held, SpansIn, Holds
<1>2. CASE rawdata # Nil
  BY <1>2, SameHeld DEF CreateRawdata
<1> QED  BY <1>1, <1>2

(* Outside the first conversion of a batch, all spans of the batches taken *)
(* count as converted.                                                     *)
LEMMA SameConverted ==
    ASSUME queue' = queue,
           pc # "convert" \/ retries # 0 \/ pos > Len(batch),
           pc' # "convert" \/ retries' # 0 \/ pos' > Len(batch'),
           batch \in Seq(Spans), batch' \in Seq(Spans), pos \in Nat, pos' \in Nat
    PROVE  Converted' = Converted
<1>1. \A b \in Batches : \A i \in DOMAIN b : ~Unconverted(b, i)
  BY DEF Unconverted
<1>2. \A b \in Batches : \A i \in DOMAIN b : ~Unconverted(b, i)'
  BY DEF Unconverted
<1> QED  BY <1>1, <1>2 DEF Converted

(* Taking a batch converts nothing yet.                                    *)
LEMMA PushTracesStutters ==
    ASSUME TypeOK, NEW b \in Batches, PushTraces(b)
    PROVE  UNCHANGED <<Converted, Held, Tried>>
<1> USE DEF push, loop, ghost
<1>1. Held' = Held /\ Tried' = Tried
  BY CreateRawdataHeld, SameTried DEF PushTraces
<1>2. \A c \in Batches : \A i \in DOMAIN c : ~Unconverted(c, i)
  BY DEF Unconverted, PushTraces
<1>3. \A c \in Batches : \A i \in DOMAIN c : (~Unconverted(c, i))' <=> c # b
  <2>1. \A c \in Batches : \A i \in DOMAIN c : i >= 1
    BY ExporterAssumption
  <2>2. pc' = "convert" /\ batch' = b /\ pos' = 1 /\ retries' = 0
    BY DEF PushTraces
  <2> QED  BY <2>1, <2>2 DEF Unconverted
<1>4. queue' = queue \ {b} /\ b \in queue
  BY DEF PushTraces
<1>5. Converted' = Converted
  BY <1>2, <1>3, <1>4 DEF Converted
<1> QED  BY <1>1, <1>5

(* Converting a span takes it.                                             *)
LEMMA ConvertSpanTakes ==
    ASSUME TypeOK, DeliveryInv, ConvertSpan
    PROVE  \/ \E s \in Spans : Promise!Take(s)
           \/ UNCHANGED <<Converted, Held, Tried>>
<1> USE DEF push, loop, ghost
<1> DEFINE s == batch[pos]
           t == Buffered(s.trace)
<1>1. /\ s \in Spans /\ pc = "convert" /\ batch \in Batches /\ batch \notin queue
      /\ pos \in DOMAIN batch /\ pos \in Nat \ {0} /\ retries \in Nat
  BY ExporterAssumption DEF ConvertSpan, TypeOK, ControlType, DeliveryInv
<1>2. UNCHANGED <<pc, batch, queue, request, posted, retries>>
  BY DEF ConvertSpan
<1>3. CASE UNCHANGED <<pos, transactions, rawdata>>
  <2>1. Converted' = Converted
    BY <1>2, <1>3 DEF Converted, Unconverted
  <2> QED  BY <1>2, <1>3, <2>1, SameHeld, SameTried
<1>4. CASE /\ transactions' = [u \in DOMAIN transactions \cup {s.trace} |->
                                 IF u = s.trace THEN Absorb(t, s) ELSE transactions[u]]
           /\ rawdata' = [rawdata EXCEPT !.agents = AgentsAfter(rawdata.agents, s)]
           /\ pos' = pos + 1
  <2>1. /\ s.trace \in DOMAIN transactions => t = transactions[s.trace]
        /\ s.trace \notin DOMAIN transactions => \A r : ~Holds(t, r)
        /\ \A r : Holds(Absorb(t, s), r) <=> Holds(t, r) \/ r = s
    BY ZenonT(60), <1>1, BufferedSound, AbsorbSound DEF Buffered
  <2>2. /\ rawdata # Nil /\ rawdata' # Nil
        /\ rawdata'.transactions = rawdata.transactions
    <3>1. rawdata \in RawData /\ rawdata' \in RawData
      BY <1>1, ConvertSpanType, <1>2 DEF TypeOK, PacketType
    <3> QED  BY <3>1, <1>4, NilAssumption DEF RawData
  <2>3. Held' = Held \cup {s}
    <3> DEFINE B == SpansIn({transactions[u] : u \in DOMAIN transactions})
               Q == SpansIn({transactions'[u] : u \in DOMAIN transactions'})
    <3>1. Q = B \cup {s}
      <4> HIDE DEF s, t
      <4>1. \A r \in Spans : r \in B <=> \E u \in DOMAIN transactions : Holds(transactions[u], r)
        BY DEF SpansIn
      <4>2. \A r \in Spans : r \in Q <=> \E u \in DOMAIN transactions' : Holds(transactions'[u], r)
        BY DEF SpansIn
      <4>3. \A r \in Spans : r \in Q <=> r \in B \/ r = s
        BY <1>4, <2>1, <4>1, <4>2
      <4>4. B \subseteq Spans /\ Q \subseteq Spans
        BY DEF SpansIn
      <4> QED  BY <1>1, <4>3, <4>4
    <3>2. Held' = Q \cup SpansIn(rawdata.transactions)
                    \cup (IF request = Nil THEN {} ELSE SpansIn(request.transactions))
      BY <1>2, <2>2 DEF Held, SpansIn, Holds
    <3>3. Held = B \cup SpansIn(rawdata.transactions)
                   \cup (IF request = Nil THEN {} ELSE SpansIn(request.transactions))
      BY <2>2 DEF Held
    <3> HIDE DEF B, Q, s
    <3> QED  BY <3>1, <3>2, <3>3
  <2>4. Converted' = Converted \cup {s}
    <3>1. \A b \in Batches : \A i \in DOMAIN b :
            (~Unconverted(b, i))' <=> ~Unconverted(b, i) \/ (b = batch /\ i = pos)
      <4>1. \A b \in Batches : \A i \in DOMAIN b : i \in Nat
        BY ExporterAssumption
      <4> QED  BY <1>1, <1>2, <1>4, <4>1 DEF Unconverted
    <3> HIDE DEF t
    <3> QED  BY <1>1, <1>2, <3>1 DEF Converted
  <2> QED  BY <1>1, <1>2, <2>3, <2>4, SameTried DEF Promise!Take
<1> QED  BY <1>3, <1>4 DEF ConvertSpan

(* What leaves the buffer goes into the packet, with all its spans.        *)
LEMMA SendTransactionsStutters ==
    ASSUME TypeOK, DeliveryInv, NEW a \in Apps, SendTransactions(a)
    PROVE  UNCHANGED <<Converted, Held, Tried>>
<1> USE DEF push, loop, ghost
<1>1. /\ pc = "loop" /\ pc' \in {"loop", "marshal"}
      /\ UNCHANGED <<queue, batch, pos, retries, request, posted>>
      /\ batch \in Seq(Spans) /\ pos \in Nat
  BY DEF SendTransactions, TypeOK, ControlType
<1>2. Converted' = Converted /\ Tried' = Tried
  BY <1>1, SameConverted, SameTried
<1>3. CASE rawdata = Nil
  <2>1. UNCHANGED <<transactions, rawdata>>
    BY <1>3 DEF SendTransactions
  <2> QED  BY <1>1, <1>2, <2>1, SameHeld
<1>4. CASE rawdata # Nil
  <2> DEFINE mine == {u \in DOMAIN transactions : BelongsTo(transactions[u], a)}
             due  == {u \in mine : IsDue(transactions[u])}
             B == SpansIn({transactions[u] : u \in DOMAIN transactions})
             Q == SpansIn({transactions'[u] : u \in DOMAIN transactions'})
  <2>1. {u \in mine : Leaves(transactions[u])} = due
    BY DEF Leaves, DeliveryInv, Sound
  <2>2. /\ transactions' = [u \in DOMAIN transactions \ due |->
                              IF u \in mine THEN Reported(transactions[u])
                              ELSE transactions[u]]
        /\ sent' = {Reported(transactions[u]) : u \in due}
        /\ rawdata' = [rawdata EXCEPT !.transactions = rawdata.transactions \cup sent']
    BY <1>4, <2>1 DEF SendTransactions
  <2>3. /\ rawdata' # Nil
        /\ rawdata'.transactions = rawdata.transactions \cup sent'
    <3>1. rawdata \in RawData /\ rawdata' \in RawData \cup {Nil}
      BY <1>4, SendTransactionsType DEF TypeOK, PacketType
    <3>2. rawdata' = [rawdata EXCEPT !.transactions = rawdata.transactions \cup sent']
      BY <2>2
    <3>3. sent' \subseteq Transaction
      BY SendTransactionsType DEF TypeOK, BufferType
    <3>4. rawdata' \in RawData
      BY <3>1, <3>2, <3>3 DEF RawData
    <3> QED  BY <3>1, <3>2, <3>4, NilAssumption DEF RawData
  <2>4. \A u \in DOMAIN transactions : \A r :
           Holds(Reported(transactions[u]), r) <=> Holds(transactions[u], r)
    BY ReportedSound DEF TypeOK, BufferType
  <2>5. \A r \in Spans :
           (\E u \in DOMAIN transactions : Holds(transactions[u], r))
             <=> \/ \E u \in DOMAIN transactions' : Holds(transactions'[u], r)
                 \/ \E q \in sent' : Holds(q, r)
    <3>1. due \subseteq DOMAIN transactions
      OBVIOUS
    <3> HIDE DEF due, mine
    <3> QED  BY <2>2, <2>4, <3>1
  <2>6. \A r \in Spans :
           r \in B \cup SpansIn(rawdata.transactions)
             <=> r \in Q \cup SpansIn(rawdata'.transactions)
    BY <2>3, <2>5 DEF SpansIn
  <2>7. B \cup SpansIn(rawdata.transactions) = Q \cup SpansIn(rawdata'.transactions)
    <3>1. /\ B \cup SpansIn(rawdata.transactions) \subseteq Spans
          /\ Q \cup SpansIn(rawdata'.transactions) \subseteq Spans
      BY DEF SpansIn
    <3> HIDE DEF B, Q
    <3> QED  BY <2>6, <3>1
  <2>8. Held' = Q \cup SpansIn(rawdata'.transactions)
                  \cup (IF request = Nil THEN {} ELSE SpansIn(request.transactions))
    BY <1>1, <2>3 DEF Held, SpansIn, Holds
  <2>9. Held = B \cup SpansIn(rawdata.transactions)
                 \cup (IF request = Nil THEN {} ELSE SpansIn(request.transactions))
    BY <1>4 DEF Held
  <2> HIDE DEF B, Q
  <2> QED  BY <1>2, <2>7, <2>8, <2>9
<1> QED  BY <1>3, <1>4

(* Marshalling copies the packet into the request.                         *)
LEMMA MarshalAndCountStutters ==
    ASSUME TypeOK, DeliveryInv, MarshalAndCount
    PROVE  UNCHANGED <<Converted, Held, Tried>>
<1> USE DEF push, loop, ghost
<1>1. /\ pc = "marshal" /\ pc' \in {"marshal", "export", "return"}
      /\ UNCHANGED <<queue, batch, pos, retries, posted, transactions, rawdata>>
      /\ batch \in Seq(Spans) /\ pos \in Nat
  BY DEF MarshalAndCount, TypeOK, ControlType
<1>2. Converted' = Converted /\ Tried' = Tried
  BY <1>1, SameConverted, SameTried
<1>3. request = Nil /\ rawdata \in RawData /\ rawdata # Nil
  BY <1>1, NilAssumption DEF DeliveryInv, TypeOK, PacketType
<1>4. request' = Nil \/ request'.transactions = rawdata.transactions
  BY <1>3 DEF MarshalAndCount
<1>5. Held' = Held
  <2> DEFINE B == SpansIn({transactions[u] : u \in DOMAIN transactions})
             Q == SpansIn(rawdata.transactions)
  <2>1. Held = B \cup Q
    BY <1>3 DEF Held
  <2>2. Held' = B \cup Q \cup (IF request' = Nil THEN {} ELSE SpansIn(request'.transactions))
    BY <1>1, <1>3 DEF Held, SpansIn, Holds
  <2>3. request' # Nil => SpansIn(request'.transactions) = Q
    BY <1>4
  <2> HIDE DEF B, Q
  <2> QED  BY <2>1, <2>2, <2>3
<1> QED  BY <1>2, <1>5

(* A span of a transaction of an application without a valid URL may be    *)
(* dropped: the transaction has the application of one of its spans.       *)
LEMMA SoundRefusable ==
    ASSUME NEW t \in Transaction, Sound(t), t.app \in BadURLApps
    PROVE  SpansIn({t}) \subseteq Refusable
<1> SUFFICES ASSUME NEW s \in Spans, Holds(t, s) PROVE s \in Refusable
  BY DEF SpansIn
<1>1. s.trace = t.uuid
  BY DEF Holds, Sound
<1>2. PICK r \in Spans : r.trace = t.uuid /\ SpanApp(r) = t.app
  BY DEF Sound
<1> QED  BY <1>1, <1>2 DEF Refusable

(* Export keeps the packet as the request, or drops it when the URL of its *)
(* application is refused.                                                 *)
LEMMA ExportDrops ==
    ASSUME TypeOK, PacketInv, DeliveryInv, Export
    PROVE  Promise!Drop \/ UNCHANGED <<Converted, Held, Tried>>
<1> USE DEF push, loop, ghost
<1> DEFINE B == SpansIn({transactions[u] : u \in DOMAIN transactions})
           Q == SpansIn(rawdata.transactions)
<1>1. /\ pc = "export" /\ pc' \in {"loop", "http"}
      /\ UNCHANGED <<queue, batch, pos, retries, posted, transactions>>
      /\ batch \in Seq(Spans) /\ pos \in Nat
      /\ rawdata' = Nil
      /\ \/ request' = request
         \/ Target \in BadURLApps /\ request' = Nil
  BY DEF Export, TypeOK, ControlType
<1>2. Converted' = Converted /\ Tried' = Tried
  BY <1>1, SameConverted, SameTried
<1>3. /\ rawdata # Nil /\ request # Nil
      /\ request.transactions = rawdata.transactions
  BY <1>1, NilAssumption DEF DeliveryInv, TypeOK, PacketType
<1>4. Held = B \cup Q
  BY <1>3 DEF Held
<1>5. Held' = B \cup (IF request' = Nil THEN {} ELSE SpansIn(request'.transactions))
  BY <1>1 DEF Held, SpansIn, Holds
<1>6. CASE request' = request
  BY <1>2, <1>3, <1>4, <1>5, <1>6
<1>7. CASE Target \in BadURLApps /\ request' = Nil
  <2>1. rawdata.transactions = sent
    BY <1>1 DEF PacketInv
  <2>2. \A t \in sent : t \in Transaction /\ Sound(t) /\ t.app \in BadURLApps
    <3>1. \A t \in sent : t.app = app /\ Target = app
      BY DEF PacketInv, Target
    <3> QED  BY <1>7, <3>1 DEF DeliveryInv, TypeOK, BufferType
  <2>3. Q \subseteq Refusable
    BY <2>1, <2>2, SoundRefusable DEF SpansIn
  <2>4. Held' = B
    BY <1>5, <1>7
  <2> HIDE DEF B, Q
  <2> QED  BY <1>2, <1>4, <2>3, <2>4 DEF Promise!Drop
<1> QED  BY <1>1, <1>6, <1>7

(* A request posts the spans it holds, whatever comes back.                *)
LEMMA HttpResponsePosts ==
    ASSUME TypeOK, DeliveryInv, NEW o \in Outcomes, HttpResponse(o)
    PROVE  Promise!Post
<1> USE DEF push, loop, ghost
<1> DEFINE B == SpansIn({transactions[u] : u \in DOMAIN transactions})
           Q == SpansIn(request.transactions)
<1>1. /\ pc = "http" /\ pc' = "loop"
      /\ UNCHANGED <<queue, batch, pos, retries, rawdata, transactions>>
      /\ batch \in Seq(Spans) /\ pos \in Nat
      /\ request' = Nil
  BY DEF HttpResponse, TypeOK, ControlType
<1>2. Converted' = Converted
  BY <1>1, SameConverted
<1>3. rawdata = Nil /\ request # Nil
  BY <1>1, NilAssumption DEF DeliveryInv, TypeOK, PacketType
<1>4. Held = B \cup Q
  BY <1>3 DEF Held
<1>5. Held' = B
  BY <1>1, <1>3 DEF Held, SpansIn, Holds
<1>6. Tried' = Tried \cup Q
  <2>1. PICK got \in BOOLEAN :
          posted' = Append(posted, [ app |-> app, url |-> Target, packet |-> request,
                                     time |-> now, accepted |-> got ])
    BY DEF HttpResponse
  <2> DEFINE r == [ app |-> app, url |-> Target, packet |-> request,
                    time |-> now, accepted |-> got ]
  <2>2. posted \in Seq(Request)
    BY DEF TypeOK, HistoryType
  <2>3. r.packet = request
    OBVIOUS
  <2> HIDE DEF r
  <2>4. Requests' = Requests \cup {r}
    BY <2>1, <2>2 DEF Requests, r
  <2> QED  BY <2>3, <2>4 DEF Tried, SpansIn, Holds
<1> HIDE DEF B, Q
<1> QED  BY <1>2, <1>4, <1>5, <1>6 DEF Promise!Post

(* The other steps leave the spans where they are.                         *)
LEMMA OtherStutters ==
    ASSUME TypeOK,
           CollectApplications \/ Return \/ Retry \/ GiveUp \/ Tick \/ UNCHANGED vars
    PROVE  UNCHANGED <<Converted, Held, Tried>>
<1> USE DEF push, loop, ghost
<1>1. batch \in Seq(Spans) /\ pos \in Nat /\ retries \in Nat
  BY DEF TypeOK, ControlType
<1>2. CASE CollectApplications \/ Return \/ GiveUp
  <2>1. /\ UNCHANGED <<queue, batch, pos, retries, transactions, rawdata, request, posted>>
        /\ pc # "convert" \/ pos > Len(batch)
        /\ pc' # "convert"
    BY <1>2 DEF CollectApplications, Return, GiveUp
  <2> QED  BY <1>1, <2>1, SameConverted, SameHeld, SameTried
<1>3. CASE Retry
  <2>1. /\ UNCHANGED <<queue, batch, transactions, request, posted>>
        /\ CreateRawdata
        /\ pc # "convert" /\ retries' # 0 /\ pos' \in Nat
    BY <1>1, <1>3 DEF Retry
  <2> QED  BY <1>1, <2>1, SameConverted, CreateRawdataHeld, SameTried
<1>4. CASE Tick \/ UNCHANGED vars
  <2>1. UNCHANGED <<queue, push, retries, transactions, rawdata, request, posted>>
    BY <1>4 DEF Tick, vars
  <2>2. Converted' = Converted
    BY <2>1 DEF Converted, Unconverted
  <2> QED  BY <2>1, <2>2, SameHeld, SameTried
<1> QED  BY <1>2, <1>3, <1>4
-----------------------------------------------------------------------------
(* No span is held, tried or converted before the first push.              *)
LEMMA InitDelivers == Init => DeliveryInv /\ Promise!Init
<1> SUFFICES ASSUME Init PROVE DeliveryInv /\ Promise!Init
  OBVIOUS
<1>1. DeliveryInv
  BY DEF Init, DeliveryInv
<1>2. Converted = {} /\ Tried = {}
  BY DEF Init, Converted, Tried, Requests
<1>3. Held = {}
  BY DEF Init, Held, SpansIn
<1> QED  BY <1>1, <1>2, <1>3 DEF Promise!Init

(* Every step of the exporter is a step of Delivery or changes nothing of  *)
(* it.                                                                     *)
LEMMA NextDelivers ==
    TypeOK /\ PacketInv /\ DeliveryInv /\ [Next]_vars => [Promise!Next]_(Promise!vars)
<1> SUFFICES ASSUME TypeOK, PacketInv, DeliveryInv, [Next]_vars
             PROVE  Promise!Next \/ UNCHANGED <<Converted, Held, Tried>>
  BY DEF Promise!vars
<1>1. CASE \E b \in Batches : PushTraces(b)
  BY <1>1, PushTracesStutters
<1>2. CASE ConvertSpan
  BY <1>2, ConvertSpanTakes DEF Promise!Next
<1>3. CASE \E a \in Apps : SendTransactions(a)
  BY <1>3, SendTransactionsStutters
<1>4. CASE MarshalAndCount
  BY <1>4, MarshalAndCountStutters
<1>5. CASE Export
  BY <1>5, ExportDrops DEF Promise!Next
<1>6. CASE \E o \in Outcomes : HttpResponse(o)
  BY <1>6, HttpResponsePosts DEF Promise!Next
<1>7. CASE CollectApplications \/ Return \/ Retry \/ GiveUp \/ Tick \/ UNCHANGED vars
  BY <1>7, OtherStutters
<1> QED  BY <1>1, <1>2, <1>3, <1>4, <1>5, <1>6, <1>7 DEF Next, PushStep

(* A span that was converted stays in the buffer, the packet or the        *)
(* request until some request carries it, unless the URL of its            *)
(* application is refused; and nothing but converted spans is ever held    *)
(* (pushTraces, SendTransactions, export).                                 *)
THEOREM DeliveryCorrect == Spec => DeliversSpans
<1>1. Init => TypeOK /\ PacketInv /\ DeliveryInv /\ Promise!Init
  BY InitType, InitPacketInv, InitDelivers
<1>2. TypeOK /\ PacketInv /\ DeliveryInv /\ [Next]_vars
        => (TypeOK /\ PacketInv /\ DeliveryInv)'
  BY NextType, NextPacketInv, NextDeliveryInv
<1>3. TypeOK /\ PacketInv /\ DeliveryInv /\ [Next]_vars => [Promise!Next]_(Promise!vars)
  BY NextDelivers
<1> QED  BY <1>1, <1>2, <1>3, PTL DEF Spec, DeliversSpans, Promise!Spec

(* Every span that was converted is in the buffer, the packet or the       *)
(* request, was in a request, or belongs to a trace whose URL may be       *)
(* refused; a request carries only spans that were converted.              *)
THEOREM SpansAccounted == Spec => []Promise!Accounted
<1>1. Promise!Init => Promise!Accounted
  BY DEF Promise!Init, Promise!Accounted
<1>2. Promise!Accounted /\ [Promise!Next]_(Promise!vars) => Promise!Accounted'
  <2>1. ASSUME Promise!Accounted, NEW s \in Spans, Promise!Take(s)
        PROVE  Promise!Accounted'
    BY <2>1 DEF Promise!Accounted, Promise!Take
  <2>2. ASSUME Promise!Accounted, Promise!Post PROVE Promise!Accounted'
    BY <2>2 DEF Promise!Accounted, Promise!Post
  <2>3. ASSUME Promise!Accounted, Promise!Drop PROVE Promise!Accounted'
    BY <2>3 DEF Promise!Accounted, Promise!Drop
  <2>4. ASSUME Promise!Accounted, UNCHANGED Promise!vars PROVE Promise!Accounted'
    BY <2>4 DEF Promise!Accounted, Promise!vars
  <2> QED  BY <2>1, <2>2, <2>3, <2>4 DEF Promise!Next
<1> QED
  BY <1>1, <1>2, DeliveryCorrect, PTL DEF DeliversSpans, Promise!Spec
-----------------------------------------------------------------------------
(* The counters.  The requests made for an application, and how many       *)
(* transactions their packets carry.                                       *)
Mine(q, a)  == {i \in DOMAIN q : q[i].app = a}
Sizes(q, a) ==
    [i \in Nat |-> IF i \in Mine(q, a) THEN Cardinality(q[i].packet.transactions) ELSE 0]
Made(q, a)  == Sums(Sizes(q, a))[Len(q)]

Mesure == [value : Nat, ntraces : Nat, success : Nat, error : Nat]

(* Only finite sets are counted.                                           *)
FiniteInv ==
    /\ IsFiniteSet(DOMAIN transactions)
    /\ IsFiniteSet(sent)
    /\ \A i \in DOMAIN posted : IsFiniteSet(posted[i].packet.transactions)

(* The counter m of application a, whose requests are among q, where its   *)
(* push is at step p with counter c and ts to send: "value" goes ahead of  *)
(* the requests while one is made, "ntraces" lags one behind, as the first *)
(* request has no counter.                                                 *)
Counted(m, q, a, p, c, ts) ==
    LET n == Cardinality(Mine(q, a))
    IN  /\ m.value = Made(q, a) + (IF p \in {"export", "http"} THEN Cardinality(ts) ELSE 0)
        /\ p \notin {"export", "http"} => m.ntraces + 1 = n
        /\ p = "http" => m.ntraces = n
        /\ p = "export" =>
             IF c = Nil THEN m.ntraces = n /\ ts # {} ELSE m.ntraces + 1 = n
        /\ m.success + m.error = m.ntraces - (IF p = "http" /\ c = a THEN 1 ELSE 0)

Stage(a) == IF app = a THEN pc ELSE "other"

CountInv ==
    /\ metrics \in [DOMAIN metrics -> Mesure]
    /\ pc \in {"export", "http"} => app \in DOMAIN metrics /\ counter \in {app, Nil}
    /\ \A a \in Apps \ DOMAIN metrics : Mine(posted, a) = {} /\ Made(posted, a) = 0
    /\ \A a \in DOMAIN metrics \ BadURLApps :
          Counted(metrics[a], posted, a, Stage(a), counter, sent)

LEMMA SizesType ==
    ASSUME NEW q, NEW a, \A i \in DOMAIN q : IsFiniteSet(q[i].packet.transactions)
    PROVE  Sizes(q, a) \in [Nat -> Int]
<1>1. ASSUME NEW i \in Mine(q, a) PROVE Cardinality(q[i].packet.transactions) \in Nat
  BY FS_CardinalityType DEF Mine
<1> QED  BY <1>1 DEF Sizes

LEMMA MineType ==
    ASSUME NEW q, Len(q) \in Nat, DOMAIN q = 1..Len(q), NEW a
    PROVE  IsFiniteSet(Mine(q, a)) /\ Cardinality(Mine(q, a)) \in Nat
<1>1. IsFiniteSet(1..Len(q)) /\ Mine(q, a) \in SUBSET (1..Len(q))
  BY FS_Interval DEF Mine
<1>2. IsFiniteSet(Mine(q, a))
  BY <1>1, FS_Subset
<1> QED  BY <1>2, FS_CardinalityType

LEMMA MadeType ==
    ASSUME NEW q, NEW a, Len(q) \in Nat,
           \A i \in DOMAIN q : IsFiniteSet(q[i].packet.transactions)
    PROVE  Made(q, a) \in Int
<1>1. IsSums(Sums(Sizes(q, a)), Sizes(q, a))
  BY SizesType, SumsDef
<1> QED  BY <1>1 DEF Made, IsSums

(* A request more counts for its application and for no other.             *)
Longer(q, r) ==
    /\ Len(q) \in Nat /\ Len(r) = Len(q) + 1
    /\ DOMAIN q = 1..Len(q) /\ DOMAIN r = 1..Len(r)
    /\ \A i \in 1..Len(q) : r[i] = q[i]
    /\ \A i \in DOMAIN r : IsFiniteSet(r[i].packet.transactions)

MineAfter(r, q, a) ==
    IF r[Len(r)].app = a
    THEN /\ Cardinality(Mine(r, a)) = Cardinality(Mine(q, a)) + 1
         /\ Made(r, a) = Made(q, a) + Cardinality(r[Len(r)].packet.transactions)
    ELSE Mine(r, a) = Mine(q, a) /\ Made(r, a) = Made(q, a)

LEMMA MineGrows ==
    ASSUME NEW q, NEW r, Longer(q, r), NEW a PROVE MineAfter(r, q, a)
<1> DEFINE n == Len(q)
<1>0. /\ n \in Nat /\ Len(r) = n + 1 /\ DOMAIN q = 1..n /\ DOMAIN r = 1..(n + 1)
      /\ \A i \in 1..n : r[i] = q[i]
      /\ \A i \in DOMAIN r : IsFiniteSet(r[i].packet.transactions)
  BY DEF Longer
<1>1. /\ n + 1 \notin 1..n /\ 1..(n + 1) = (1..n) \cup {n + 1}
      /\ \A i \in DOMAIN q : IsFiniteSet(q[i].packet.transactions)
  BY <1>0
<1>2. Sizes(q, a) \in [Nat -> Int] /\ Sizes(r, a) \in [Nat -> Int]
  BY <1>0, <1>1, SizesType
<1>3. \A i \in 1..n : Sizes(q, a)[i] = Sizes(r, a)[i]
  BY <1>0 DEF Sizes, Mine
<1>4. Sums(Sizes(q, a))[n] = Sums(Sizes(r, a))[n]
  BY <1>0, <1>2, <1>3, SumsAgree
<1>5. IsSums(Sums(Sizes(r, a)), Sizes(r, a))
  BY <1>2, SumsDef
<1>6. /\ Made(r, a) = Made(q, a) + Sizes(r, a)[n + 1]
      /\ Made(q, a) \in Int
  BY <1>0, <1>4, <1>5 DEF Made, IsSums
<1>7. CASE r[n + 1].app = a
  <2>1. Mine(r, a) = Mine(q, a) \cup {n + 1} /\ n + 1 \notin Mine(q, a)
    BY <1>0, <1>1, <1>7 DEF Mine
  <2>2. Cardinality(Mine(r, a)) = Cardinality(Mine(q, a)) + 1
    <3>1. IsFiniteSet(Mine(q, a))
      BY <1>0, MineType
    <3> QED  BY <2>1, <3>1, FS_AddElement
  <2>3. Sizes(r, a)[n + 1] = Cardinality(r[n + 1].packet.transactions)
    BY <1>0, <1>7 DEF Sizes, Mine
  <2> QED  BY <1>0, <1>6, <1>7, <2>2, <2>3 DEF MineAfter
<1>8. CASE r[n + 1].app # a
  <2>1. Mine(r, a) = Mine(q, a)
    BY <1>0, <1>1, <1>8 DEF Mine
  <2>2. Sizes(r, a)[n + 1] = 0
    BY <1>0, <1>8 DEF Sizes, Mine
  <2> QED  BY <1>0, <1>6, <1>8, <2>1, <2>2 DEF MineAfter
<1> QED  BY <1>7, <1>8

(* Every set that is counted is finite: the buffer grows by one            *)
(* transaction at a time, and what is sent comes from it.                  *)
LEMMA NextFinite == TypeOK /\ PacketInv /\ FiniteInv /\ [Next]_vars => FiniteInv'
<1> SUFFICES ASSUME TypeOK, PacketInv, FiniteInv, [Next]_vars PROVE FiniteInv'
  OBVIOUS
<1> USE DEF push, loop, ghost
<1>1. CASE UNCHANGED <<transactions, sent, posted>>
  BY <1>1 DEF FiniteInv
<1>2. CASE ConvertSpan
  <2>1. UNCHANGED <<sent, posted>>
    BY <1>2 DEF ConvertSpan
  <2>2. CASE transactions' = transactions
    BY <2>1, <2>2 DEF FiniteInv
  <2>3. CASE DOMAIN transactions' = DOMAIN transactions \cup {batch[pos].trace}
    <3>1. IsFiniteSet(DOMAIN transactions')
      BY <2>3, FS_AddElement DEF FiniteInv
    <3> QED  BY <2>1, <3>1 DEF FiniteInv
  <2> QED  BY <1>2, <2>2, <2>3 DEF ConvertSpan
<1>3. ASSUME NEW a \in Apps, SendTransactions(a), rawdata # Nil PROVE FiniteInv'
  <2> DEFINE due == {u \in DOMAIN transactions :
                       BelongsTo(transactions[u], a) /\ IsDue(transactions[u])}
             f == [u \in due |-> Reported(transactions[u])]
  <2>1. /\ DOMAIN transactions' \in SUBSET DOMAIN transactions
        /\ sent' = {Reported(transactions[u]) : u \in due}
        /\ posted' = posted
    BY <1>3 DEF SendTransactions
  <2>2. IsFiniteSet(due)
    BY FS_Subset DEF FiniteInv
  <2>3. f \in Surjection(due, sent')
    BY <2>1 DEF Surjection
  <2> HIDE DEF due, f
  <2>4. IsFiniteSet(sent')
    BY <2>2, <2>3, FS_Surjection
  <2>5. IsFiniteSet(DOMAIN transactions')
    BY <2>1, FS_Subset DEF FiniteInv
  <2> QED  BY <2>1, <2>4, <2>5 DEF FiniteInv
<1>4. ASSUME NEW o \in Outcomes, HttpResponse(o) PROVE FiniteInv'
  <2>1. PICK got \in BOOLEAN :
          posted' = Append(posted, [ app |-> app, url |-> Target, packet |-> request,
                                     time |-> now, accepted |-> got ])
    BY <1>4 DEF HttpResponse
  <2>2. UNCHANGED <<transactions, sent>> /\ pc = "http"
    BY <1>4 DEF HttpResponse
  <2>3. request.transactions = sent
    BY <2>2 DEF PacketInv
  <2>4. posted \in Seq(Request)
    BY DEF TypeOK, HistoryType
  <2>5. \A i \in DOMAIN posted' : \/ i \in DOMAIN posted /\ posted'[i] = posted[i]
                                  \/ posted'[i].packet = request
    BY <2>1, <2>4
  <2>6. \A i \in DOMAIN posted' : IsFiniteSet(posted'[i].packet.transactions)
    BY <2>3, <2>5 DEF FiniteInv
  <2> QED  BY <2>2, <2>6 DEF FiniteInv
<1>5. \/ UNCHANGED <<transactions, sent, posted>>
      \/ ConvertSpan
      \/ \E a \in Apps : SendTransactions(a) /\ rawdata # Nil
      \/ \E o \in Outcomes : HttpResponse(o)
  BY DEF Next, PushStep, PushTraces, CollectApplications, SendTransactions,
         MarshalAndCount, Export, Return, Retry, GiveUp, Tick, vars
<1> QED  BY <1>1, <1>2, <1>3, <1>4, <1>5


(* A step between two requests leaves the counters alone.                  *)
LEMMA SameCount ==
    ASSUME TypeOK, CountInv, UNCHANGED <<metrics, posted>>,
           pc \notin {"export", "http"}, pc' \notin {"export", "http"}
    PROVE  CountInv'
<1>1. ASSUME NEW a \in DOMAIN metrics \ BadURLApps
      PROVE  Counted(metrics'[a], posted', a, Stage(a)', counter', sent')
  <2>1. Stage(a) \notin {"export", "http"} /\ Stage(a)' \notin {"export", "http"}
    BY DEF Stage
  <2>2. Counted(metrics[a], posted, a, Stage(a), counter, sent)
    BY DEF CountInv
  <2> QED  BY <2>1, <2>2 DEF Counted
<1> QED  BY <1>1 DEF CountInv

(* What there is to count with.                                            *)
LEMMA CountTypes ==
    ASSUME TypeOK, FiniteInv, NEW a
    PROVE  /\ Cardinality(sent) \in Nat
           /\ Cardinality(Mine(posted, a)) \in Nat
           /\ Made(posted, a) \in Int
<1>1. Len(posted) \in Nat /\ DOMAIN posted = 1..Len(posted)
  BY DEF TypeOK, HistoryType
<1> QED  BY <1>1, FS_CardinalityType, MineType, MadeType DEF FiniteInv

LEMMA MarshalCounts ==
    ASSUME TypeOK, PacketInv, FiniteInv, CountInv, MarshalAndCount, Encodable
    PROVE  CountInv'
<1> USE DEF push, loop, ghost
<1>1. CASE app \notin DOMAIN metrics /\ sent = {}
  BY <1>1, SameCount DEF MarshalAndCount
<1>2. CASE ~(app \notin DOMAIN metrics /\ sent = {})
  <2>1. /\ pc = "marshal" /\ pc' = "export"
        /\ UNCHANGED <<posted, app, sent>>
        /\ counter' = IF app \in DOMAIN metrics THEN app ELSE Nil
        /\ app \in Apps /\ Nil \notin Apps
        /\ rawdata.transactions = sent
    BY <1>2, NilAssumption DEF MarshalAndCount, Encodable, TypeOK, ControlType, PacketInv
  <2>2. \A a : Cardinality(sent) \in Nat /\ Made(posted, a) \in Int
    BY CountTypes
  <2>3. CASE app \notin DOMAIN metrics
    <3> DEFINE m == [a \in DOMAIN metrics \cup {app} |->
                       IF a = app THEN NewMesure(Cardinality(sent)) ELSE metrics[a]]
    <3>1. metrics' = m /\ sent # {} /\ counter' = Nil
      BY <1>2, <2>1, <2>3 DEF MarshalAndCount
    <3>2. NewMesure(Cardinality(sent)) \in Mesure
      BY <2>2 DEF NewMesure, Mesure
    <3>3. m \in [DOMAIN metrics \cup {app} -> Mesure]
      BY <3>2 DEF CountInv
    <3>4. Mine(posted, app) = {} /\ Made(posted, app) = 0
      BY <2>1, <2>3 DEF CountInv
    <3>5. Counted(m[app], posted, app, "export", Nil, sent)
      <4>1. m[app] = NewMesure(Cardinality(sent))
        OBVIOUS
      <4>2. Cardinality(Mine(posted, app)) = 0
        BY <3>4, FS_EmptySet
      <4> HIDE DEF m
      <4> QED  BY <2>2, <3>1, <3>4, <4>1, <4>2 DEF Counted, NewMesure
    <3>6. ASSUME NEW a \in DOMAIN metrics \ BadURLApps, a # app
          PROVE  Counted(m[a], posted, a, "other", Nil, sent)
      <4>1. Counted(metrics[a], posted, a, "other", counter, sent) /\ m[a] = metrics[a]
        BY <3>6 DEF CountInv, Stage
      <4> QED  BY <4>1 DEF Counted
    <3> HIDE DEF m
    <3>7. DOMAIN metrics' = DOMAIN metrics \cup {app}
      BY <3>1, <3>3
    <3>8. ASSUME NEW a \in DOMAIN metrics' \ BadURLApps
          PROVE  Counted(metrics'[a], posted', a, Stage(a)', counter', sent')
      BY <2>1, <3>1, <3>5, <3>6, <3>7 DEF Stage
    <3>9. \A a \in Apps \ DOMAIN metrics' : Mine(posted', a) = {} /\ Made(posted', a) = 0
      BY <2>1, <3>7 DEF CountInv
    <3> QED  BY <2>1, <3>1, <3>3, <3>7, <3>8, <3>9 DEF CountInv
  <2>4. CASE app \in DOMAIN metrics
    <3> DEFINE old == metrics[app]
               new == [old EXCEPT !.value = @ + Cardinality(sent)]
               m   == [metrics EXCEPT ![app] = new]
    <3>1. metrics' = m /\ counter' = app
      BY <2>1, <2>4 DEF MarshalAndCount
    <3>2. /\ old \in Mesure /\ new \in Mesure
          /\ new.value = old.value + Cardinality(sent)
          /\ new.ntraces = old.ntraces /\ new.success = old.success
          /\ new.error = old.error
      BY <2>2, <2>4 DEF CountInv, Mesure
    <3> HIDE DEF old, new
    <3>3. /\ m \in [DOMAIN metrics -> Mesure] /\ m[app] = new
          /\ \A a \in DOMAIN metrics \ {app} : m[a] = metrics[a]
      BY <2>4, <3>2 DEF CountInv
    <3>4. ASSUME app \notin BadURLApps
          PROVE  Counted(new, posted, app, "export", app, sent)
      <4>1. Counted(old, posted, app, "marshal", counter, sent)
        BY <2>1, <2>4, <3>4 DEF CountInv, Stage, old
      <4>2. old.value \in Nat
        BY <3>2 DEF Mesure
      <4>3. app # Nil
        BY <2>1
      <4> QED  BY <2>2, <3>2, <4>1, <4>2, <4>3 DEF Counted
    <3>5. ASSUME NEW a \in DOMAIN metrics \ BadURLApps, a # app
          PROVE  Counted(m[a], posted, a, "other", app, sent)
      <4>1. Counted(metrics[a], posted, a, "other", counter, sent) /\ m[a] = metrics[a]
        BY <3>3, <3>5 DEF CountInv, Stage
      <4> QED  BY <4>1 DEF Counted
    <3> HIDE DEF m
    <3>6. DOMAIN metrics' = DOMAIN metrics
      BY <3>1, <3>3
    <3>7. ASSUME NEW a \in DOMAIN metrics' \ BadURLApps
          PROVE  Counted(metrics'[a], posted', a, Stage(a)', counter', sent')
      BY <2>1, <3>1, <3>3, <3>4, <3>5, <3>6 DEF Stage
    <3> QED  BY <2>1, <2>4, <3>1, <3>3, <3>6, <3>7 DEF CountInv
  <2> QED  BY <2>3, <2>4
<1> QED  BY <1>1, <1>2

LEMMA ExportCounts ==
    ASSUME TypeOK, PacketInv, FiniteInv, CountInv, Export
    PROVE  CountInv'
<1> USE DEF push, loop, ghost
<1>1. /\ pc = "export" /\ UNCHANGED <<posted, app, sent, counter>>
      /\ app \in DOMAIN metrics /\ counter \in {app, Nil} /\ app \in Apps /\ app # Nil
  BY NilAssumption DEF Export, CountInv, TypeOK, ControlType
<1>2. \A a : Cardinality(sent) \in Nat /\ Made(posted, a) \in Int
  BY CountTypes
<1>3. \A a \in DOMAIN metrics \ BadURLApps :
         a # app => Counted(metrics[a], posted, a, "other", counter, sent)
  BY DEF CountInv, Stage
<1>4. app \notin BadURLApps => Counted(metrics[app], posted, app, "export", counter, sent)
  BY <1>1 DEF CountInv, Stage
<1>5. metrics[app] \in Mesure
  BY <1>1 DEF CountInv
<1>6. CASE Target \in BadURLApps
  <2>1. metrics' = metrics /\ pc' = "loop"
    BY <1>6 DEF Export
  <2>2. ASSUME app \notin BadURLApps
        PROVE  Counted(metrics[app], posted, app, "loop", counter, sent)
    <3>1. sent = {} /\ Cardinality(sent) = 0
      BY <1>6, <2>2, FS_EmptySet DEF Target
    <3> QED  BY <1>2, <1>4, <2>2, <3>1 DEF Counted
  <2>3. ASSUME NEW a \in DOMAIN metrics' \ BadURLApps
        PROVE  Counted(metrics'[a], posted', a, Stage(a)', counter', sent')
    BY <1>1, <1>3, <2>1, <2>2 DEF Stage
  <2> QED  BY <1>1, <2>1, <2>3 DEF CountInv
<1>7. CASE Target \notin BadURLApps
  <2>1. pc' = "http"
    BY <1>7 DEF Export
  <2>2. CASE counter = Nil
    <3>1. metrics' = metrics
      BY <1>7, <2>2 DEF Export
    <3>2. app \notin BadURLApps => Counted(metrics[app], posted, app, "http", counter, sent)
      BY <1>1, <1>4, <2>2 DEF Counted
    <3>3. ASSUME NEW a \in DOMAIN metrics' \ BadURLApps
          PROVE  Counted(metrics'[a], posted', a, Stage(a)', counter', sent')
      BY <1>1, <1>3, <2>1, <3>1, <3>2 DEF Stage
    <3> QED  BY <1>1, <2>1, <3>1, <3>3 DEF CountInv
  <2>3. CASE counter = app
    <3> DEFINE old == metrics[app]
               new == [old EXCEPT !.ntraces = @ + 1]
               m   == [metrics EXCEPT ![app] = new]
    <3>1. metrics' = m
      BY <1>1, <1>7, <2>3 DEF Export
    <3>2. /\ new \in Mesure
          /\ new.ntraces = old.ntraces + 1 /\ new.value = old.value
          /\ new.success = old.success /\ new.error = old.error
      BY <1>5 DEF Mesure
    <3> HIDE DEF new
    <3>3. /\ m \in [DOMAIN metrics -> Mesure] /\ m[app] = new
          /\ \A a \in DOMAIN metrics \ {app} : m[a] = metrics[a]
      BY <1>1, <3>2 DEF CountInv
    <3>4. app \notin BadURLApps => Counted(new, posted, app, "http", counter, sent)
      <4>1. old.ntraces \in Nat /\ old.success \in Nat /\ old.error \in Nat
        BY <1>5 DEF Mesure
      <4>2. app \notin BadURLApps => Counted(old, posted, app, "export", counter, sent)
        BY <1>4
      <4> HIDE DEF old
      <4> QED  BY <1>1, <1>2, <2>3, <3>2, <4>1, <4>2 DEF Counted
    <3> HIDE DEF m
    <3>5. ASSUME NEW a \in DOMAIN metrics' \ BadURLApps
          PROVE  Counted(metrics'[a], posted', a, Stage(a)', counter', sent')
      BY <1>1, <1>3, <2>1, <3>1, <3>3, <3>4 DEF Stage
    <3> QED  BY <1>1, <2>1, <3>1, <3>3, <3>5 DEF CountInv
  <2> QED  BY <1>1, <2>2, <2>3
<1> QED  BY <1>6, <1>7

LEMMA ResponseCounts ==
    ASSUME TypeOK, PacketInv, FiniteInv, CountInv, FiniteInv',
           NEW o \in Outcomes, HttpResponse(o)
    PROVE  CountInv'
<1> USE DEF push, loop, ghost
<1>1. /\ pc = "http" /\ pc' = "loop" /\ UNCHANGED <<app, sent, counter>>
      /\ app \in DOMAIN metrics /\ counter \in {app, Nil} /\ app \in Apps /\ app # Nil
  BY NilAssumption DEF HttpResponse, CountInv, TypeOK, ControlType
<1>2. \A a : Cardinality(sent) \in Nat /\ Made(posted, a) \in Int
  BY CountTypes
<1>3. /\ \A a \in Apps : a # app =>
           Mine(posted', a) = Mine(posted, a) /\ Made(posted', a) = Made(posted, a)
      /\ Cardinality(Mine(posted', app)) = Cardinality(Mine(posted, app)) + 1
      /\ Made(posted', app) = Made(posted, app) + Cardinality(sent)
  <2> DEFINE n == Len(posted)
             q == posted
             r == posted'
  <2>1. PICK got \in BOOLEAN :
          r = Append(q, [ app |-> app, url |-> Target, packet |-> request,
                          time |-> now, accepted |-> got ])
    BY DEF HttpResponse
  <2>2. q \in Seq(Request)
    BY DEF TypeOK, HistoryType
  <2>3. /\ n \in Nat /\ Len(r) = n + 1 /\ DOMAIN q = 1..n /\ DOMAIN r = 1..(n + 1)
        /\ \A i \in 1..n : r[i] = q[i]
        /\ r[n + 1].app = app /\ r[n + 1].packet = request
    BY <2>1, <2>2
  <2>4. request.transactions = sent
    BY <1>1 DEF PacketInv
  <2>5. \A i \in DOMAIN r : IsFiniteSet(r[i].packet.transactions)
    BY DEF FiniteInv
  <2>6. Longer(q, r)
    BY <2>3, <2>5 DEF Longer
  <2>7. \A a : MineAfter(r, q, a)
    <3> HIDE DEF q, r
    <3> QED  BY <2>6, MineGrows
  <2> QED  BY <2>3, <2>4, <2>7 DEF MineAfter
<1>4. \A a \in DOMAIN metrics \ BadURLApps :
         a # app => Counted(metrics[a], posted', a, "other", counter, sent)
  <2> SUFFICES ASSUME NEW a \in DOMAIN metrics \ BadURLApps, a # app
               PROVE  Counted(metrics[a], posted', a, "other", counter, sent)
    OBVIOUS
  <2>1. Counted(metrics[a], posted, a, "other", counter, sent) /\ a \in Apps
    BY DEF CountInv, Stage, TypeOK, HistoryType
  <2> QED  BY <1>3, <2>1 DEF Counted
<1>5. app \notin BadURLApps => Counted(metrics[app], posted, app, "http", counter, sent)
  BY <1>1 DEF CountInv, Stage
<1>6. metrics[app] \in Mesure
  BY <1>1 DEF CountInv
<1>7. \A a \in Apps \ DOMAIN metrics : Mine(posted', a) = {} /\ Made(posted', a) = 0
  BY <1>1, <1>3 DEF CountInv
<1>8. CASE counter = Nil
  <2>1. metrics' = metrics
    BY <1>8 DEF HttpResponse
  <2>2. app \notin BadURLApps => Counted(metrics[app], posted', app, "loop", counter, sent)
    BY <1>1, <1>2, <1>3, <1>5, <1>8 DEF Counted
  <2>3. ASSUME NEW a \in DOMAIN metrics' \ BadURLApps
        PROVE  Counted(metrics'[a], posted', a, Stage(a)', counter', sent')
    BY <1>1, <1>4, <2>1, <2>2 DEF Stage
  <2> QED  BY <1>1, <1>7, <2>1, <2>3 DEF CountInv
<1>9. CASE counter = app
  <2> DEFINE old == metrics[app]
             won == [old EXCEPT !.success = @ + 1]
             failed == [old EXCEPT !.error = @ + 1]
  <2>1. PICK new \in {won, failed} : metrics' = [metrics EXCEPT ![app] = new]
    BY <1>1, <1>9 DEF HttpResponse
  <2>2. /\ new \in Mesure
        /\ new.ntraces = old.ntraces /\ new.value = old.value
        /\ new.success + new.error = old.success + old.error + 1
    BY <1>6 DEF Mesure
  <2>3. /\ metrics' \in [DOMAIN metrics -> Mesure] /\ metrics'[app] = new
        /\ \A a \in DOMAIN metrics \ {app} : metrics'[a] = metrics[a]
    BY <1>1, <2>1, <2>2 DEF CountInv
  <2>4. app \notin BadURLApps => Counted(new, posted', app, "loop", counter, sent)
    <3>1. old.ntraces \in Nat /\ old.success \in Nat /\ old.error \in Nat /\ old.value \in Nat
      BY <1>6 DEF Mesure
    <3>2. app \notin BadURLApps => Counted(old, posted, app, "http", counter, sent)
      BY <1>5
    <3> HIDE DEF old, won, failed
    <3> QED  BY <1>2, <1>3, <1>9, <2>2, <3>1, <3>2 DEF Counted
  <2>5. ASSUME NEW a \in DOMAIN metrics' \ BadURLApps
        PROVE  Counted(metrics'[a], posted', a, Stage(a)', counter', sent')
    BY <1>1, <1>4, <2>3, <2>4 DEF Stage
  <2> QED  BY <1>1, <1>7, <2>3, <2>5 DEF CountInv
<1> QED  BY <1>1, <1>8, <1>9

LEMMA NextCount ==
    TypeOK /\ PacketInv /\ FiniteInv /\ CountInv /\ [Next]_vars /\ Encodable => CountInv'
<1> SUFFICES ASSUME TypeOK, PacketInv, FiniteInv, CountInv, [Next]_vars, Encodable
             PROVE  CountInv'
  OBVIOUS
<1> USE DEF push, loop, ghost
<1>1. FiniteInv'
  BY NextFinite
<1>2. CASE /\ UNCHANGED <<metrics, posted>>
           /\ pc \notin {"export", "http"} /\ pc' \notin {"export", "http"}
  BY <1>2, SameCount
<1>3. CASE UNCHANGED <<metrics, posted, pc, app, counter, sent>>
  BY <1>3 DEF CountInv, Stage
<1>4. CASE MarshalAndCount
  BY <1>4, MarshalCounts
<1>5. CASE Export
  BY <1>5, ExportCounts
<1>6. CASE \E o \in Outcomes : HttpResponse(o)
  BY <1>1, <1>6, ResponseCounts
<1> QED
  BY <1>2, <1>3, <1>4, <1>5, <1>6
  DEF Next, PushStep, PushTraces, ConvertSpan, CollectApplications, SendTransactions,
      Return, Retry, GiveUp, Tick, vars

(* The sum of the property is Made.                                        *)
LEMMA MadeIs ==
    ASSUME TypeOK, FiniteInv, NEW a
    PROVE  LET mine == {i \in DOMAIN posted : posted[i].app = a}
               made[i \in 0..Len(posted)] ==
                  IF i = 0 THEN 0
                  ELSE made[i - 1] +
                       (IF i \in mine THEN Cardinality(posted[i].packet.transactions) ELSE 0)
           IN  made[Len(posted)] = Made(posted, a)
<1> DEFINE n == Len(posted)
           g == Sizes(posted, a)
           mine == {i \in DOMAIN posted : posted[i].app = a}
           P(f) == f = [i \in 0..n |-> IF i = 0 THEN 0 ELSE f[i - 1] +
                          (IF i \in mine THEN Cardinality(posted[i].packet.transactions)
                           ELSE 0)]
           R(f) == f = [i \in 0..n |-> IF i = 0 THEN 0 ELSE f[i - 1] + g[i]]
           made == CHOOSE f : P(f)
<1>1. g \in [Nat -> Int] /\ n \in Nat
  BY SizesType DEF FiniteInv, TypeOK, HistoryType
<1>2. \A f : P(f) <=> R(f)
  <2>1. \A i \in 0..n : i # 0 =>
           g[i] = IF i \in mine THEN Cardinality(posted[i].packet.transactions) ELSE 0
    BY <1>1 DEF Sizes, Mine
  <2> HIDE DEF g, mine
  <2> QED  BY <2>1
<1>3. (\E f : R(f)) /\ \A f : R(f) => f[n] = Sums(g)[n]
  <2> HIDE DEF n, g
  <2> QED  BY <1>1, RecursiveSums
<1>4. P(made)
  <2> HIDE DEF P, R
  <2>1. \E f : P(f)
    BY <1>2, <1>3
  <2> QED  BY <2>1
<1>5. made[n] = Sums(g)[n]
  <2> HIDE DEF P, R, made
  <2> QED  BY <1>2, <1>3, <1>4
<1> HIDE DEF made
<1>6. made[n] = Made(posted, a)
  BY <1>5 DEF Made
<1> QED  BY <1>6 DEF made, P, n, mine

LEMMA CountedMatches ==
    ASSUME TypeOK, PacketInv, FiniteInv, CountInv, Encodable PROVE MetricsMatchRequests
<1> DEFINE mine(a) == {i \in DOMAIN posted : posted[i].app = a}
           open(a) == IF app = a /\ pc \in {"export", "http"} THEN {request} ELSE {}
<1> SUFFICES ASSUME NEW a \in DOMAIN metrics \ BadURLApps
             PROVE  LET m == metrics[a]
                    IN  /\ m.value = Made(posted, a) + (IF open(a) = {} THEN 0
                                          ELSE Cardinality(request.transactions))
                        /\ pc # "export" \/ app # a =>
                             m.ntraces + 1 = Cardinality(mine(a)) + Cardinality(open(a))
                        /\ m.success + m.error = m.ntraces -
                             (IF app = a /\ pc = "http" /\ counter = a THEN 1 ELSE 0)
  BY MadeIs DEF MetricsMatchRequests
<1>1. /\ Counted(metrics[a], posted, a, Stage(a), counter, sent)
      /\ metrics[a] \in Mesure
  BY DEF CountInv
<1>2. pc \in {"export", "http"} => request.transactions = sent
  BY DEF PacketInv
<1>3. /\ Cardinality({request}) = 1 /\ Cardinality({}) = 0
      /\ {request} # {}
  <2>1. IsFiniteSet({}) /\ Cardinality({}) = 0
    BY FS_EmptySet
  <2>2. {} \cup {request} = {request} /\ request \notin {}
    OBVIOUS
  <2>3. Cardinality({} \cup {request}) = Cardinality({}) + 1
    BY <2>1, <2>2, FS_AddElement
  <2> QED  BY <2>1, <2>2, <2>3
<1>4. mine(a) = Mine(posted, a)
  BY DEF Mine
<1>5. Cardinality(Mine(posted, a)) \in Nat /\ Made(posted, a) \in Int
  BY CountTypes
<1>6. metrics[a].ntraces \in Nat /\ metrics[a].value \in Nat
  BY <1>1 DEF Mesure
<1>7. CASE app = a /\ pc \in {"export", "http"}
  <2>1. Stage(a) = pc
    BY <1>7 DEF Stage
  <2>2. open(a) = {request}
    BY <1>7
  <2> HIDE DEF mine, open
  <2> QED  BY <1>1, <1>2, <1>3, <1>4, <1>5, <1>6, <1>7, <2>1, <2>2 DEF Counted
<1>8. CASE ~(app = a /\ pc \in {"export", "http"})
  <2>1. Stage(a) \notin {"export", "http"}
    BY <1>8 DEF Stage
  <2>2. /\ metrics[a].value = Made(posted, a)
        /\ metrics[a].ntraces + 1 = Cardinality(Mine(posted, a))
        /\ metrics[a].success + metrics[a].error = metrics[a].ntraces
    BY <1>1, <1>5, <1>6, <2>1 DEF Counted
  <2>3. ~(app = a /\ pc = "http")
    BY <1>8
  <2>4. open(a) = {}
    BY <1>8
  <2> HIDE DEF mine, open
  <2> QED  BY <1>3, <1>4, <1>5, <1>6, <2>2, <2>3, <2>4
<1> QED  BY <1>7, <1>8

LEMMA InitCount == Init => FiniteInv /\ CountInv
<1> SUFFICES ASSUME Init PROVE FiniteInv /\ CountInv
  OBVIOUS
<1>1. FiniteInv
  BY FS_EmptySet DEF Init, FiniteInv
<1>2. metrics \in [DOMAIN metrics -> Mesure] /\ DOMAIN metrics = {}
  BY DEF Init
<1>3. ASSUME NEW a PROVE Mine(posted, a) = {} /\ Made(posted, a) = 0
  <2>1. IsSums(Sums(Sizes(posted, a)), Sizes(posted, a))
    BY <1>1, SizesType, SumsDef DEF FiniteInv
  <2>2. Mine(posted, a) = {} /\ Len(posted) = 0
    BY DEF Init, Mine
  <2> QED  BY <2>1, <2>2 DEF Made, IsSums
<1> QED  BY <1>1, <1>2, <1>3 DEF Init, CountInv

(* The counters of the debug page stay in line with the requests made,     *)
(* whatever fails or is retried: with an encoding the exporter knows, for  *)
(* every application whose URL is valid.                                   *)
THEOREM MetricsCorrect ==
    ASSUME Encodable
    PROVE  Spec => []MetricsMatchRequests
<1> DEFINE Inv == TypeOK /\ PacketInv /\ FiniteInv /\ CountInv
<1>1. Init => Inv
  BY InitType, InitPacketInv, InitCount
<1>2. Inv /\ [Next]_vars => Inv'
  BY NextType, NextPacketInv, NextFinite, NextCount
<1>3. Inv => MetricsMatchRequests
  BY CountedMatches
<1> QED  BY <1>1, <1>2, <1>3, PTL DEF Spec
=============================================================================
