---------------------------- MODULE SystemProofs ----------------------------
(***************************************************************************)
(* The composed system runs the server as BridgeSpec has it, so what is    *)
(* proved of the server holds of the system, whatever phones do.           *)
(***************************************************************************)
EXTENDS OfflinePayments, BridgeProofs, MeshProofs

\* Every step of the system is a step of the server or leaves it alone.
LEMMA SystemStepIsBridgeStep ==
  ASSUME [SystemNext]_systemVars
  PROVE  [BridgeNext]_bridgeVars
<1>1. CASE \E d \in Devices, c \in Packets, ttl \in Ttls : Send(d, c, ttl)
  BY <1>1 DEF Send
<1>2. CASE Gossip \/ Flush \/ FlushDone
  BY <1>2 DEF Gossip, Flush, FlushDone
<1>3. CASE ResetDemo
  BY <1>3 DEF ResetDemo, BridgeNext
<1>4. CASE \E c \in Hashes : FlushDropped(c) \/ FlushPassed(c) \/ IngestDirectly(c)
  BY <1>4 DEF FlushDropped, FlushPassed, IngestDirectly, BridgeNext, ServerNext
<1>5. CASE Ingest
  BY <1>5 DEF Ingest, BridgeNext, ServerNext
<1>6. CASE Evict \/ ClockTurns
  BY <1>6 DEF Evict, ClockTurns, BridgeNext, ServerNext
<1>7. CASE UNCHANGED systemVars
  BY <1>7 DEF systemVars, bridgeVars
<1> QED
  BY <1>1, <1>2, <1>3, <1>4, <1>5, <1>6, <1>7 DEF SystemNext

\* The routes only ever use the server as BridgeSpec has it used: requests, a flush's
\* uploads, the timer and the reset button take turns on one event loop.
THEOREM SystemImplementsBridge == SystemSpec => BridgeSpec
<1>1. SystemInit => BridgeInit
  BY DEF SystemInit
<1> QED
  BY <1>1, SystemStepIsBridgeStep, PTL DEF SystemSpec, BridgeSpec

\* Whatever phones send, gossip and upload and however often, what happens to the
\* server's balances is what the abstract ledger allows, if no amount is a tie.
THEOREM SystemImplementsLedger ==
  ASSUME NoTies
  PROVE  SystemSpec => ImplementsLedger
BY SystemImplementsBridge, BridgeImplementsLedger, PTL

\* In the system too the rows explain the balances and the balances add up to what was
\* seeded, whatever is sent, uploaded, refused and reset, if no amount is a tie.
THEOREM SystemBooksBalance ==
  ASSUME NoTies
  PROVE  SystemSpec => [](LedgerExplainsBalances /\ MoneyIsConserved)
BY SystemImplementsBridge, BridgeImplementsSettlement, BooksBalance, MoneyStays, PTL

\* The server's part of the system is type correct.
THEOREM SystemServerTypeCorrect == SystemSpec => []BridgeTypeOK
BY SystemImplementsBridge, BridgeTypeCorrect, PTL

\* In the system too no packet is answered SETTLED twice, however many bridges upload it
\* in however many flushes, and directly, with resets between them.
THEOREM SystemSettlesOnce == SystemSpec => OneSettledAnswer
BY SystemImplementsBridge, SettledOnce, PTL

-----------------------------------------------------------------------------

Outcomes == {"SETTLED", "INVALID", "DUPLICATE_DROPPED"}

\* The inductive invariant of a flush: what it has reported is claimed and stays so,
\* and what it has in hand is none of it.
FlushInv ==
  /\ HandlerInv
  /\ stage # "idle" => route # "none"
  /\ results \in Seq([packet : Hashes, outcome : Outcomes])
  /\ route = "flush" =>
       \A i \in DOMAIN results :
         /\ results[i].packet \in DOMAIN seen
         /\ stage # "idle" => results[i].packet # ciphertext
  /\ OneBridgePerPacket

LEMMA InitFlushInv == SystemInit => FlushInv
BY InitHandlerInv DEF SystemInit, BridgeInit, FlushInv, OneBridgePerPacket

\* One more report: of a packet not reported yet, or of one dropped as a duplicate.
LEMMA ReportKeepsOrder ==
  ASSUME FlushInv, NEW c \in Hashes, NEW outcome \in Outcomes, Report(c, outcome),
         \/ outcome = "DUPLICATE_DROPPED"
         \/ \A i \in DOMAIN results : results[i].packet # c
  PROVE  /\ results' \in Seq([packet : Hashes, outcome : Outcomes])
         /\ OneBridgePerPacket'
         /\ \A i \in DOMAIN results' :
              \/ results'[i].packet = c
              \/ \E j \in DOMAIN results : results'[i].packet = results[j].packet
<1> DEFINE Reports == [packet : Hashes, outcome : Outcomes]
           new == [packet |-> c, outcome |-> outcome]
<1>1. results \in Seq(Reports) /\ new \in Reports /\ new.packet = c /\ new.outcome = outcome
  BY DEF FlushInv
<1>2. results' = Append(results, new)
  BY DEF Report
<1> HIDE DEF new, Reports
<1>3. /\ results' \in Seq(Reports) /\ Len(results) \in Nat
      /\ DOMAIN results = 1..Len(results) /\ DOMAIN results' = 1..(Len(results) + 1)
      /\ results'[Len(results) + 1] = new
      /\ \A i \in 1..Len(results) : results'[i] = results[i]
  BY <1>1, <1>2
<1>4. OneBridgePerPacket'
  <2> SUFFICES ASSUME NEW i \in DOMAIN results', NEW j \in DOMAIN results',
                      i < j, results'[i].packet = results'[j].packet
               PROVE  results'[j].outcome = "DUPLICATE_DROPPED"
    BY DEF OneBridgePerPacket
  <2>1. i \in 1..Len(results)
    BY <1>3
  <2>2. CASE j \in 1..Len(results)
    BY <1>3, <2>1, <2>2 DEF FlushInv, OneBridgePerPacket
  <2>3. CASE j = Len(results) + 1
    BY <1>1, <1>3, <2>1, <2>3
  <2> QED
    BY <1>3, <2>2, <2>3
<1>5. \A i \in DOMAIN results' :
        \/ results'[i].packet = c
        \/ \E j \in DOMAIN results : results'[i].packet = results[j].packet
  BY <1>1, <1>3
<1> QED
  BY <1>3, <1>4, <1>5 DEF Reports

\* While a handler runs nothing claimed is forgotten.
LEMMA ClaimsStayInHandler ==
  ASSUME HandlerStep \/ \E c \in Hashes : DropDuplicate(c)
  PROVE  seen' = seen
BY DEF HandlerStep, DropDuplicate, Decrypt, RefuseUntimely, CallSettle, InSettle,
   AnswerSettled, gateVars

LEMMA AnswerEndsHandler ==
  ASSUME HandlerInv, HandlerStep
  PROVE  /\ stage # "idle"
         /\ stage' = "idle" => response'.outcome \in {"SETTLED", "INVALID"}
         /\ stage' # "idle" => UNCHANGED ciphertext
<1>1. \A outcome, hash, reason, id :
        Result(outcome, hash, reason, id).outcome = outcome
  BY DEF Result
<1>2. CASE Decrypt
  BY <1>1, <1>2 DEF Decrypt, Answer
<1>3. CASE RefuseUntimely
  BY <1>1, <1>3 DEF RefuseUntimely, Answer
<1>4. CASE CallSettle
  BY <1>4 DEF CallSettle
<1>5. CASE InSettle
  BY <1>5, SettlementStepStaysActive DEF InSettle, handlerVars, HandlerInv
<1>6. CASE AnswerSettled
  BY <1>1, <1>6 DEF AnswerSettled, Answer
<1> QED
  BY <1>2, <1>3, <1>4, <1>5, <1>6 DEF HandlerStep

LEMMA IngestKeepsFlushInv ==
  ASSUME FlushInv, HandlerInv', Ingest
  PROVE  FlushInv'
<1>1. /\ HandlerStep /\ stage # "idle" /\ ciphertext \in Hashes
      /\ seen' = seen /\ ciphertext \in DOMAIN seen
  BY ClaimsStayInHandler, AnswerEndsHandler DEF Ingest, FlushInv, HandlerInv
<1>2. CASE stage' # "idle"
  BY <1>1, <1>2, AnswerEndsHandler DEF Ingest, FlushInv, OneBridgePerPacket
<1>3. CASE stage' = "idle" /\ route = "flush"
  <2>1. /\ response'.outcome \in Outcomes /\ Report(ciphertext, response'.outcome)
        /\ route' = route
    BY <1>1, <1>3, AnswerEndsHandler DEF Ingest, FlushInv, Outcomes
  <2>2. \A i \in DOMAIN results : results[i].packet # ciphertext
    BY <1>1, <1>3 DEF FlushInv
  <2>3. /\ results' \in Seq([packet : Hashes, outcome : Outcomes])
        /\ OneBridgePerPacket'
        /\ \A i \in DOMAIN results' :
             \/ results'[i].packet = ciphertext
             \/ \E j \in DOMAIN results : results'[i].packet = results[j].packet
    BY <1>1, <2>1, <2>2, ReportKeepsOrder
  <2>4. \A i \in DOMAIN results' : results'[i].packet \in DOMAIN seen'
    BY <1>1, <1>3, <2>3 DEF FlushInv
  <2> QED
    BY <1>3, <2>3, <2>4 DEF FlushInv
<1>4. CASE stage' = "idle" /\ route # "flush"
  BY <1>4 DEF Ingest, FlushInv, OneBridgePerPacket
<1> QED
  BY <1>2, <1>3, <1>4

LEMMA FlushDroppedKeepsFlushInv ==
  ASSUME FlushInv, HandlerInv', NEW c \in Hashes, FlushDropped(c)
  PROVE  FlushInv'
<1>1. /\ Report(c, "DUPLICATE_DROPPED") /\ "DUPLICATE_DROPPED" \in Outcomes
      /\ c \in DOMAIN seen /\ seen' = seen /\ stage' = "idle" /\ route' = route
      /\ route = "flush"
  BY ClaimsStayInHandler DEF FlushDropped, DropDuplicate, Claimed, Answer, Outcomes
<1>2. /\ results' \in Seq([packet : Hashes, outcome : Outcomes])
      /\ OneBridgePerPacket'
      /\ \A i \in DOMAIN results' :
           \/ results'[i].packet = c
           \/ \E j \in DOMAIN results : results'[i].packet = results[j].packet
  BY <1>1, ReportKeepsOrder
<1>3. \A i \in DOMAIN results' : results'[i].packet \in DOMAIN seen'
  BY <1>1, <1>2 DEF FlushInv
<1> QED
  BY <1>1, <1>2, <1>3 DEF FlushInv

LEMMA FlushPassedKeepsFlushInv ==
  ASSUME FlushInv, HandlerInv', NEW c \in Hashes, FlushPassed(c)
  PROVE  FlushInv'
<1>1. /\ route = "flush" /\ route' = route /\ results' = results
      /\ c \notin DOMAIN seen /\ DOMAIN seen' = DOMAIN seen \cup {c} /\ ciphertext' = c
  BY DEF FlushPassed, PassGate, Claimed, Claim
<1>2. \A i \in DOMAIN results' :
        results'[i].packet \in DOMAIN seen' /\ results'[i].packet # ciphertext'
  BY <1>1 DEF FlushInv
<1> QED
  BY <1>1, <1>2 DEF FlushInv, OneBridgePerPacket

LEMMA NextKeepsFlushInv == FlushInv /\ [SystemNext]_systemVars => FlushInv'
<1> SUFFICES ASSUME FlushInv, [SystemNext]_systemVars PROVE FlushInv'
  OBVIOUS
<1>1. HandlerInv'
  BY SystemStepIsBridgeStep, HandlerNextKeepsInv DEF FlushInv
<1>2. CASE Ingest
  BY <1>1, <1>2, IngestKeepsFlushInv
<1>3. CASE \E c \in Hashes : FlushDropped(c)
  BY <1>1, <1>3, FlushDroppedKeepsFlushInv
<1>4. CASE \E c \in Hashes : FlushPassed(c)
  BY <1>1, <1>4, FlushPassedKeepsFlushInv
<1>5. CASE \E c \in Hashes : IngestDirectly(c)
  BY <1>1, <1>5 DEF IngestDirectly, LoopIsFree, DropDuplicate, PassGate, Answer, FlushInv,
     OneBridgePerPacket
<1>6. CASE \E d \in Devices, c \in Packets, ttl \in Ttls : Send(d, c, ttl)
  BY <1>1, <1>6 DEF Send, bridgeVars, routeVars, FlushInv, OneBridgePerPacket
<1>7. CASE Gossip \/ FlushDone \/ ResetDemo \/ Evict
  BY <1>1, <1>7 DEF Gossip, FlushDone, ResetDemo, Reset, Evict, EvictionTimer, LoopIsFree,
     bridgeVars, routeVars, handlerVars, FlushInv, OneBridgePerPacket
<1>8. CASE Flush
  <2>1. route = "none" /\ stage = "idle" /\ stage' = stage /\ results' = <<>>
    BY <1>8 DEF Flush, LoopIsFree, FlushInv, bridgeVars
  <2> QED
    BY <1>1, <2>1 DEF FlushInv, OneBridgePerPacket
<1>9. CASE ClockTurns
  BY <1>1, <1>9 DEF ClockTurns, TimePasses, routeVars, handlerVars, FlushInv,
     OneBridgePerPacket
<1>10. CASE UNCHANGED systemVars
  BY <1>1, <1>10 DEF systemVars, FlushInv, OneBridgePerPacket
<1> QED
  BY <1>2, <1>3, <1>4, <1>5, <1>6, <1>7, <1>8, <1>9, <1>10 DEF SystemNext

\* Of the deliveries of a packet by the bridges of one flush all but the first are
\* dropped, for any number of phones, bridges and packets and whatever the first one
\* comes to: what a flush has reported stays claimed until its end.
THEOREM OneBridgeDelivers == SystemSpec => []OneBridgePerPacket
<1>1. FlushInv => OneBridgePerPacket
  BY DEF FlushInv
<1> QED
  BY <1>1, InitFlushInv, NextKeepsFlushInv, PTL DEF SystemSpec
-----------------------------------------------------------------------------

\* Every step of the system is a step of the phones or leaves them alone.
LEMMA SystemStepIsMeshStep ==
  ASSUME [SystemNext]_systemVars
  PROVE  [MeshNext]_meshVars
<1>1. CASE \E d \in Devices, c \in Packets, ttl \in Ttls : Send(d, c, ttl)
  BY <1>1 DEF Send, MeshNext
<1>2. CASE Gossip \/ ResetDemo
  BY <1>2 DEF Gossip, ResetDemo, MeshNext
<1>3. CASE SystemNext /\ ~(Gossip \/ ResetDemo)
           /\ ~ \E d \in Devices, c \in Packets, ttl \in Ttls : Send(d, c, ttl)
  BY <1>3 DEF SystemNext, Flush, FlushDone, FlushDropped, FlushPassed, IngestDirectly,
     Ingest, Evict, ClockTurns
<1>4. CASE UNCHANGED systemVars
  BY <1>4 DEF systemVars, meshVars
<1> QED
  BY <1>1, <1>2, <1>3, <1>4

\* The routes only ever use the phones as MeshSpec has them used, so all that is proved
\* of the mesh holds of the system, whatever the server does meanwhile.
THEOREM SystemImplementsMesh == SystemSpec => MeshSpec
<1>1. SystemInit => MeshInit
  BY DEF SystemInit
<1> QED
  BY <1>1, SystemStepIsMeshStep, PTL DEF SystemSpec, MeshSpec

THEOREM FlushKeepsItsInvariant == SystemSpec => []FlushInv
BY InitFlushInv, NextKeepsFlushInv, PTL DEF SystemSpec

-----------------------------------------------------------------------------

\* The packet of the i-th upload.
Uploaded(i) == BridgeUploads[i].packet.packetId

\* How many uploads of a flush ingest() has in hand.
InHand == IF stage = "idle" THEN 0 ELSE 1

\* Where a flush stands: the uploads are what it reported, what it has in hand and what
\* it still has to make, in this order.
FlushProgress ==
  /\ queue \in Seq(Packets)
  /\ queue # <<>> => route = "flush"
  /\ route = "flush" =>
       /\ Len(results) + InHand + Len(queue) = Len(BridgeUploads)
       /\ \A i \in 1..Len(results) : results[i].packet = Uploaded(i)
       /\ stage # "idle" => ciphertext = Uploaded(Len(results) + 1)
       /\ \A i \in 1..Len(queue) : queue[i] = Uploaded(Len(results) + InHand + i)

LEMMA UploadsStay ==
  ASSUME UNCHANGED held
  PROVE  UNCHANGED BridgeUploads
BY DEF BridgeUploads, UploadsOf, HopCount

LEMMA UploadFacts ==
  ASSUME MeshInv
  PROVE  /\ Len(BridgeUploads) \in Nat /\ DOMAIN BridgeUploads = 1..Len(BridgeUploads)
         /\ \A i \in 1..Len(BridgeUploads) : Uploaded(i) \in created /\ Uploaded(i) \in Packets
<1>1. UploadsFrom(BridgeUploads, Bridges) /\ Bridges \subseteq Devices
  BY UploadsAreOfBridges, MeshConstants DEF MeshInv
<1>2. /\ BridgeUploads \in Seq(Upload)
      /\ \A n \in DOMAIN BridgeUploads :
           /\ BridgeUploads[n].bridgeNodeId \in Devices
           /\ \E j \in DOMAIN held[BridgeUploads[n].bridgeNodeId] :
                BridgeUploads[n].packet = held[BridgeUploads[n].bridgeNodeId][j]
  BY <1>1 DEF UploadsFrom
<1>3. \A n \in DOMAIN BridgeUploads : Uploaded(n) \in created
  BY <1>2 DEF Uploaded, MeshInv, MeshTypeOK
<1>4. created \subseteq Packets
  BY DEF MeshInv, MeshTypeOK
<1> QED
  BY <1>2, <1>3, <1>4

\* What a flush needs to know to follow its uploads; all of it was proved above.
LEMMA FlushFacts ==
  ASSUME FlushInv
  PROVE  /\ Len(results) \in Nat /\ DOMAIN results = 1..Len(results)
         /\ \A report : Len(Append(results, report)) = Len(results) + 1
         /\ \A report : Append(results, report)[Len(results) + 1] = report
         /\ \A report : \A i \in 1..Len(results) : Append(results, report)[i] = results[i]
<1>1. results \in Seq([packet : Hashes, outcome : Outcomes])
  BY DEF FlushInv
<1>2. Len(results) \in Nat /\ DOMAIN results = 1..Len(results)
  BY <1>1
<1>3. ASSUME NEW report
      PROVE  /\ Len(Append(results, report)) = Len(results) + 1
             /\ Append(results, report)[Len(results) + 1] = report
             /\ \A i \in 1..Len(results) : Append(results, report)[i] = results[i]
  BY <1>1, AppendProperties
<1> QED
  BY <1>2, <1>3

LEMMA QueueFacts ==
  ASSUME FlushProgress, queue # <<>>
  PROVE  /\ Len(queue) \in Nat \ {0} /\ Head(queue) = queue[1]
         /\ Tail(queue) \in Seq(Packets) /\ Len(Tail(queue)) = Len(queue) - 1
         /\ \A i \in 1..Len(Tail(queue)) : Tail(queue)[i] = queue[i + 1]
BY DEF FlushProgress

\* The next upload of a flush is reported at once: it was a duplicate.
LEMMA DroppedKeepsProgress ==
  ASSUME FlushInv, FlushInv', MeshInv, FlushProgress, NEW c \in Hashes, FlushDropped(c)
  PROVE  FlushProgress'
<1> DEFINE n == Len(results)
           report == [packet |-> c, outcome |-> "DUPLICATE_DROPPED"]
<1>1. /\ route = "flush" /\ route' = "flush" /\ stage = "idle" /\ stage' = "idle"
      /\ queue # <<>> /\ queue' = Tail(queue) /\ c = Head(queue)
      /\ results' = Append(results, report) /\ UNCHANGED held
  BY DEF FlushDropped, DropDuplicate, Answer, Report, meshVars
<1>2. BridgeUploads' = BridgeUploads /\ report.packet = c
  BY <1>1, UploadsStay
<1>3. /\ n + Len(queue) = Len(BridgeUploads) /\ c = Uploaded(n + 1)
      /\ \A i \in 1..n : results[i].packet = Uploaded(i)
      /\ \A i \in 1..Len(queue) : queue[i] = Uploaded(n + i)
  <2>1. InHand = 0 /\ n \in Nat /\ n + 0 = n
    BY <1>1, FlushFacts DEF InHand
  <2>2. /\ n + InHand + Len(queue) = Len(BridgeUploads)
        /\ \A i \in 1..n : results[i].packet = Uploaded(i)
        /\ \A i \in 1..Len(queue) : queue[i] = Uploaded(n + InHand + i)
    BY <1>1 DEF FlushProgress
  <2>3. Head(queue) = queue[1] /\ 1 \in 1..Len(queue)
    BY <1>1, QueueFacts
  <2> QED BY <1>1, <2>1, <2>2, <2>3
<1> HIDE DEF report
<1>4. /\ n \in Nat /\ Len(queue) \in Nat \ {0} /\ Len(results') = n + 1
      /\ Len(queue') = Len(queue) - 1 /\ queue' \in Seq(Packets)
      /\ results'[n + 1] = report /\ \A i \in 1..n : results'[i] = results[i]
      /\ \A i \in 1..Len(queue') : queue'[i] = queue[i + 1]
  BY <1>1, FlushFacts, QueueFacts
<1>5. Len(results') + Len(queue') = Len(BridgeUploads)
  <2>1. \A a, b \in Int : (a + 1) + (b - 1) = a + b
    OBVIOUS
  <2>2. n \in Int /\ Len(queue) \in Int
    BY <1>4
  <2> QED BY <1>3, <1>4, <2>1, <2>2, Zenon
<1>6. \A i \in 1..Len(results') : results'[i].packet = Uploaded(i)
  <2>1. \A i \in 1..(n + 1) : i \in 1..n \/ i = n + 1
    BY <1>4
  <2> QED BY <2>1, <1>2, <1>3, <1>4
<1>7. \A i \in 1..Len(queue') : queue'[i] = Uploaded(Len(results') + i)
  <2> TAKE i \in 1..Len(queue')
  <2>1. i + 1 \in 1..Len(queue) /\ n + (i + 1) = Len(results') + i /\ queue'[i] = queue[i + 1]
    BY <1>4
  <2> QED BY <2>1, <1>3
<1> QED
  <2>1. \A i : Uploaded(i)' = Uploaded(i)
    BY <1>2 DEF Uploaded
  <2>2. InHand' = 0 /\ Len(results') + 0 = Len(results')
    BY <1>1, <1>4 DEF InHand
  <2> QED BY <1>1, <1>2, <1>4, <1>5, <1>6, <1>7, <2>1, <2>2 DEF FlushProgress

\* The next upload is in hand.
LEMMA PassedKeepsProgress ==
  ASSUME FlushInv, MeshInv, FlushProgress, NEW c \in Hashes, FlushPassed(c)
  PROVE  FlushProgress'
<1> DEFINE n == Len(results)
<1>1. /\ route = "flush" /\ route' = "flush" /\ stage = "idle" /\ stage' # "idle"
      /\ queue # <<>> /\ queue' = Tail(queue) /\ c = Head(queue) /\ ciphertext' = c
      /\ results' = results /\ UNCHANGED held
  BY DEF FlushPassed, PassGate, meshVars
<1>2. BridgeUploads' = BridgeUploads
  BY <1>1, UploadsStay
<1>3. /\ n + Len(queue) = Len(BridgeUploads) /\ c = Uploaded(n + 1)
      /\ \A i \in 1..n : results[i].packet = Uploaded(i)
      /\ \A i \in 1..Len(queue) : queue[i] = Uploaded(n + i)
  BY <1>1, FlushFacts, QueueFacts DEF FlushProgress, InHand
<1>4. /\ n \in Nat /\ Len(queue) \in Nat \ {0}
      /\ Len(queue') = Len(queue) - 1 /\ queue' \in Seq(Packets)
      /\ \A i \in 1..Len(queue') : queue'[i] = queue[i + 1]
  BY <1>1, FlushFacts, QueueFacts
<1>5. n + 1 + Len(queue') = Len(BridgeUploads)
  <2>1. \A a, b \in Int : (a + 1) + (b - 1) = a + b
    OBVIOUS
  <2>2. n \in Int /\ Len(queue) \in Int
    BY <1>4
  <2> QED BY <1>3, <1>4, <2>1, <2>2, Zenon
<1>6. \A i \in 1..Len(queue') : queue'[i] = Uploaded(n + 1 + i)
  <2> TAKE i \in 1..Len(queue')
  <2>1. i + 1 \in 1..Len(queue) /\ n + (i + 1) = n + 1 + i /\ queue'[i] = queue[i + 1]
    BY <1>4
  <2> QED BY <2>1, <1>3
<1> QED
  <2>1. (\A i : Uploaded(i)' = Uploaded(i)) /\ InHand' = 1
    BY <1>1, <1>2 DEF Uploaded, InHand
  <2> QED BY <1>1, <1>2, <1>3, <1>4, <1>5, <1>6, <2>1 DEF FlushProgress

\* What is in hand stays so until it is reported.
LEMMA IngestKeepsProgress ==
  ASSUME FlushInv, MeshInv, FlushProgress, Ingest
  PROVE  FlushProgress'
<1> DEFINE n == Len(results)
<1>1. /\ HandlerStep /\ stage # "idle" /\ queue' = queue /\ UNCHANGED held
      /\ stage' # "idle" => ciphertext' = ciphertext
  BY AnswerEndsHandler DEF Ingest, FlushInv, meshVars
<1>2. BridgeUploads' = BridgeUploads
  BY <1>1, UploadsStay
<1>3. \A i : Uploaded(i)' = Uploaded(i)
  BY <1>2 DEF Uploaded
<1>4. CASE route # "flush"
  <2>1. route' # "flush" /\ queue = <<>>
    BY <1>4 DEF Ingest, FlushProgress
  <2> QED BY <1>1, <2>1 DEF FlushProgress
<1>5. CASE route = "flush" /\ stage' # "idle"
  <2>1. results' = results /\ route' = route /\ InHand' = InHand
    BY <1>1, <1>5 DEF Ingest, InHand
  <2> QED BY <1>1, <1>2, <1>3, <1>5, <2>1 DEF FlushProgress
<1>6. CASE route = "flush" /\ stage' = "idle"
  <2> DEFINE report == [packet |-> ciphertext, outcome |-> response'.outcome]
  <2>1. /\ results' = Append(results, report) /\ route' = "flush"
        /\ InHand = 1 /\ InHand' = 0 /\ report.packet = ciphertext
    BY <1>1, <1>6 DEF Ingest, Report, InHand
  <2> HIDE DEF report
  <2>2. /\ n \in Nat /\ Len(results') = n + 1 /\ Len(queue) \in Nat
        /\ results'[n + 1] = report /\ \A i \in 1..n : results'[i] = results[i]
    BY <2>1, FlushFacts DEF FlushProgress
  <2>3. /\ n + 1 + Len(queue) = Len(BridgeUploads) /\ ciphertext = Uploaded(n + 1)
        /\ \A i \in 1..n : results[i].packet = Uploaded(i)
        /\ \A i \in 1..Len(queue) : queue[i] = Uploaded(n + 1 + i)
    BY <1>1, <1>6, <2>1 DEF FlushProgress
  <2>4. \A i \in 1..Len(results') : results'[i].packet = Uploaded(i)
    <3>1. \A i \in 1..(n + 1) : i \in 1..n \/ i = n + 1
      BY <2>2
    <3> QED BY <2>1, <2>2, <2>3, <3>1
  <2>5. Len(results') + InHand' = n + 1
    BY <2>1, <2>2
  <2> QED BY <1>1, <1>2, <1>3, <1>6, <2>1, <2>3, <2>4, <2>5 DEF FlushProgress
<1> QED
  BY <1>4, <1>5, <1>6

LEMMA NextKeepsProgress ==
  ASSUME FlushInv, FlushInv', MeshInv, FlushProgress, [SystemNext]_systemVars
  PROVE  FlushProgress'
<1>1. CASE Ingest
  BY <1>1, IngestKeepsProgress
<1>2. CASE \E c \in Hashes : FlushDropped(c)
  BY <1>2, DroppedKeepsProgress
<1>3. CASE \E c \in Hashes : FlushPassed(c)
  BY <1>3, PassedKeepsProgress
<1>4. CASE Flush
  <2>1. /\ stage' = "idle" /\ route' = "flush" /\ results' = <<>> /\ UNCHANGED held
        /\ queue' = [i \in DOMAIN BridgeUploads |-> Uploaded(i)]
    BY <1>4 DEF Flush, LoopIsFree, FlushInv, Uploaded, bridgeVars, meshVars
  <2>2. BridgeUploads' = BridgeUploads
    BY <2>1, UploadsStay
  <2>3. /\ queue' \in Seq(Packets) /\ Len(queue') = Len(BridgeUploads)
        /\ \A i \in 1..Len(queue') : queue'[i] = Uploaded(i)
    BY <2>1, UploadFacts
  <2>4. (\A i : Uploaded(i)' = Uploaded(i)) /\ InHand' = 0 /\ Len(results') = 0
    BY <2>1, <2>2 DEF Uploaded, InHand
  <2> QED BY <2>1, <2>2, <2>3, <2>4, UploadFacts DEF FlushProgress
<1>5. CASE \/ \E d \in Devices, c \in Packets, ttl \in Ttls : Send(d, c, ttl)
           \/ \E c \in Hashes : IngestDirectly(c)
           \/ Gossip \/ ResetDemo \/ Evict
  <2>1. route = "none" /\ route' # "flush" /\ queue' = queue
    BY <1>5 DEF Send, IngestDirectly, Gossip, ResetDemo, Evict, LoopIsFree, routeVars
  <2> QED BY <2>1 DEF FlushProgress
<1>6. CASE FlushDone
  <2>1. route' # "flush" /\ queue' = queue /\ queue = <<>>
    BY <1>6 DEF FlushDone
  <2> QED BY <2>1 DEF FlushProgress
<1>7. CASE ClockTurns \/ UNCHANGED systemVars
  <2>1. UNCHANGED <<held, route, queue, results, stage, ciphertext>>
    BY <1>7 DEF ClockTurns, TimePasses, meshVars, routeVars, handlerVars, systemVars
  <2>2. UNCHANGED <<BridgeUploads, InHand>>
    BY <2>1, UploadsStay DEF InHand
  <2> QED BY <2>1, <2>2 DEF FlushProgress, Uploaded
<1> QED
  BY <1>1, <1>2, <1>3, <1>4, <1>5, <1>6, <1>7 DEF SystemNext

\* The uploads of a flush are always what it reported, has in hand and has queued.
THEOREM FlushKeepsItsProgress == SystemSpec => []FlushProgress
<1>1. SystemInit => FlushProgress
  BY DEF SystemInit, FlushProgress
<1>2. SystemSpec => []MeshInv
  BY SystemImplementsMesh, MeshInvariant, PTL
<1> QED
  BY <1>1, <1>2, FlushKeepsItsInvariant, NextKeepsProgress, PTL DEF SystemSpec

\* A flush reports its uploads one by one in the order the phones hold them, and never
\* loses count, for any number of phones and packets, whatever each upload comes to.
THEOREM FlushAnswersAll == SystemSpec => []FlushReportsEachUpload
<1>1. FlushInv /\ FlushProgress => FlushReportsEachUpload
  BY FlushFacts DEF FlushProgress, FlushReportsEachUpload, InHand, Uploaded
<1> QED
  BY <1>1, FlushKeepsItsProgress, FlushKeepsItsInvariant, PTL

-----------------------------------------------------------------------------

RouteOK == route \in {"none", "flush", "ingest"}

LEMMA RouteStaysTyped ==
  ASSUME RouteOK, [SystemNext]_systemVars
  PROVE  RouteOK'
BY DEF RouteOK, SystemNext, Send, Gossip, ResetDemo, Flush, FlushDone, FlushDropped, FlushPassed,
   IngestDirectly, Ingest, Evict, ClockTurns, routeVars, systemVars

\* The phones, the server and the routes are type correct together.
THEOREM SystemTypeCorrect == SystemSpec => []SystemTypeOK
<1>1. SystemInit => RouteOK
  BY DEF SystemInit, RouteOK
<1>2. SystemSpec => []RouteOK
  BY <1>1, RouteStaysTyped, PTL DEF SystemSpec
<1>3. SystemSpec => []MeshTypeOK
  BY SystemImplementsMesh, MeshTypeCorrect, PTL
<1>4. /\ MeshTypeOK /\ BridgeTypeOK /\ FlushInv /\ FlushProgress
      /\ RouteOK
      => SystemTypeOK
  BY DEF RouteOK, FlushInv, FlushProgress, SystemTypeOK
<1> QED
  BY <1>2, <1>3, <1>4, SystemServerTypeCorrect, FlushKeepsItsInvariant,
     FlushKeepsItsProgress, PTL

-----------------------------------------------------------------------------

\* What was sent was sealed for this server, at a time that has been, and before it
\* came to the gate.
SentInTime ==
  /\ \A c \in created : c \in Hashes /\ Decrypted(c) # None /\ Decrypted(c).signedAt \in 0..now
  /\ \A c \in DOMAIN seen : c \in Packets => c \in created

\* A payment that was sent, is claimed, not in hand, and still good, has its row.  Of
\* a text from elsewhere it is not so: one dated ahead is claimed, refused, and good
\* a while later.
ClaimedIsPaid ==
  \A c \in DOMAIN seen \cap created :
    (stage # "idle" => c # ciphertext) /\ Payable(Decrypted(c)) => c \in txPacketHashes

\* Only a restart makes a key pair.
LEMMA KeyStays ==
  ASSUME [BridgeNext]_bridgeVars
  PROVE  UNCHANGED serverKey
BY DEF BridgeNext, ServerNext, HandlerStep, DropDuplicate, PassGate, Decrypt,
   RefuseUntimely, CallSettle, InSettle, AnswerSettled, EvictionTimer, TimePasses, Reset,
   bridgeVars

\* The clock never goes back.
LEMMA ClockGoesOn ==
  ASSUME HandlerInv, [BridgeNext]_bridgeVars
  PROVE  now \in Nat /\ now' \in Nat /\ now <= now'
<1>1. now \in Nat
  BY TimesAreNat DEF HandlerInv, TimesAreNat
<1>2. now' = now \/ now' = now + 1
  BY DEF BridgeNext, ServerNext, HandlerStep, DropDuplicate, PassGate, Decrypt,
     RefuseUntimely, CallSettle, InSettle, AnswerSettled, EvictionTimer, TimePasses, Tick,
     Reset, gateVars, bridgeVars
<1> QED
  BY <1>1, <1>2

\* Claims are new only for what a request brings.
LEMMA ClaimsOfStep ==
  ASSUME [BridgeNext]_bridgeVars
  PROVE  \/ DOMAIN seen' \subseteq DOMAIN seen /\ (UNCHANGED ciphertext \/ ciphertext' = None)
         \/ \E c \in Hashes : /\ PassGate(c) /\ DOMAIN seen' = DOMAIN seen \cup {c}
                              /\ ciphertext' = c
<1>1. CASE \E c \in Hashes : PassGate(c)
  BY <1>1 DEF PassGate, Claim
<1>2. CASE EvictionTimer
  BY <1>2 DEF EvictionTimer, EvictExpired, handlerVars
<1>3. CASE Reset
  BY <1>3 DEF Reset, Clear, handlerVars
<1>4. CASE BridgeNext /\ ~(\E c \in Hashes : PassGate(c)) /\ ~EvictionTimer /\ ~Reset
  BY <1>4 DEF BridgeNext, ServerNext, HandlerStep, DropDuplicate, Decrypt, RefuseUntimely,
     CallSettle, InSettle, AnswerSettled, TimePasses, Answer, gateVars, handlerVars
<1>5. CASE UNCHANGED bridgeVars
  BY <1>5 DEF bridgeVars
<1> QED
  BY <1>1, <1>2, <1>3, <1>4, <1>5

\* Only a flush and POST /bridge/ingest bring packets to the gate, and none that is
\* still to be made.
LEMMA GateIsPassedByRoute ==
  ASSUME FlushProgress, MeshInv, FlushInv, SentInTime, [SystemNext]_systemVars,
         NEW c \in Hashes, PassGate(c)
  PROVE  c \in Packets => c \in created
<1>1. stage = "idle" /\ stage' = "decrypt" /\ ciphertext' = c
  BY DEF PassGate
<1>2. CASE \E h \in Hashes : FlushPassed(h)
  <2>1. PICK h \in Hashes : FlushPassed(h)
    BY <1>2
  <2>2. h = c /\ route = "flush" /\ queue # <<>> /\ c = queue[1] /\ Len(queue) \in Nat \ {0}
    BY <1>1, <2>1, QueueFacts DEF FlushPassed, PassGate
  <2>3. /\ Len(results) \in Nat /\ InHand = 0
        /\ Len(results) + 1 \in 1..Len(BridgeUploads)
        /\ c = Uploaded(Len(results) + 1)
    BY <1>1, <2>2, FlushFacts, UploadFacts DEF FlushProgress, InHand
  <2> QED
    BY <2>3, UploadFacts
<1>3. CASE \E h \in Hashes : IngestDirectly(h)
  BY <1>1, <1>3 DEF IngestDirectly, CanExist, DropDuplicate, PassGate, Answer
<1>4. CASE ~(\E h \in Hashes : FlushPassed(h) \/ IngestDirectly(h))
  <2>1. stage' = stage \/ stage' = "idle" \/ HandlerStep
    BY <1>4 DEF SystemNext, Send, Gossip, ResetDemo, Reset, Flush, FlushDone, FlushDropped,
       DropDuplicate, Answer, Ingest, Evict, EvictionTimer, ClockTurns, TimePasses,
       handlerVars, bridgeVars, systemVars
  <2> QED
    BY <1>1, <2>1, AnswerEndsHandler DEF FlushInv
<1> QED
  BY <1>2, <1>3, <1>4

LEMMA NextKeepsSent ==
  ASSUME FlushInv, MeshInv, FlushProgress, SentInTime, [SystemNext]_systemVars
  PROVE  SentInTime'
<1>1. /\ [BridgeNext]_bridgeVars /\ serverKey' = serverKey
      /\ now \in Nat /\ now' \in Nat /\ now <= now'
  BY SystemStepIsBridgeStep, KeyStays, ClockGoesOn DEF FlushInv
<1>2. \A c : Decrypted(c)' = Decrypted(c)
  BY <1>1 DEF Decrypted
<1>3. \A c \in created' : c \in created \/ (Decrypted(c) # None /\ Decrypted(c).signedAt = now)
  BY DEF SystemNext, Send, Inject, Gossip, GossipOnce, ResetDemo, ResetMesh, Flush, FlushDone,
     FlushDropped, FlushPassed, IngestDirectly, Ingest, Evict, ClockTurns, meshVars, systemVars
<1>4. created \subseteq created' /\ created' \subseteq Hashes
  <2>1. [MeshNext]_meshVars /\ MeshInv'
    BY SystemStepIsMeshStep, NextKeepsMeshInv
  <2>2. created \subseteq created'
    BY <2>1 DEF MeshNext, Inject, GossipOnce, ResetMesh, meshVars
  <2> QED
    BY <2>1, <2>2, OneCiphertextPerPacket DEF MeshInv, MeshTypeOK
<1>5. \A c \in created' : c \in Hashes /\ Decrypted(c)' # None /\ Decrypted(c).signedAt \in 0..now'
  BY <1>1, <1>2, <1>3, <1>4 DEF SentInTime
<1>6. \A c \in DOMAIN seen' : c \in Packets => c \in created'
  BY <1>1, <1>4, ClaimsOfStep, GateIsPassedByRoute DEF SentInTime
<1> QED
  BY <1>2, <1>5, <1>6 DEF SentInTime

\* What may be paid after a step may be before it: time makes instructions stale, and
\* what was sent in time is no longer of the future.
LEMMA PayableBefore ==
  ASSUME FlushInv, SentInTime, [SystemNext]_systemVars, NEW c \in created,
         Payable(Decrypted(c))'
  PROVE  Payable(Decrypted(c))
<1> DEFINE ins == Decrypted(c)
<1>1. /\ serverKey' = serverKey /\ now \in Nat /\ now' \in Nat /\ now <= now'
      /\ ins.signedAt \in 0..now /\ MaxAgeSeconds \in Nat /\ ClockSkewTolerance \in Nat
  BY SystemStepIsBridgeStep, KeyStays, ClockGoesOn, BridgeConstants
     DEF FlushInv, SentInTime, BridgeConstants
<1>2. /\ ins.signedAt # None /\ ins.senderVpa \in Accounts /\ ins.receiverVpa \in Accounts
      /\ ins.senderVpa # ins.receiverVpa /\ IsPositive(ins.amount)
      /\ ~(IsEpoch(ins.signedAt) /\ now' - ins.signedAt > MaxAgeSeconds)
  BY <1>1 DEF Payable, Decrypted, Stale
<1> HIDE DEF ins
<1>3. ~Stale(ins) /\ ~FutureDated(ins)
  BY <1>1, <1>2 DEF Stale, FutureDated, IsEpoch
<1> QED
  BY <1>2, <1>3 DEF Payable, ins

\* The answer to a packet that may be paid, and still may when ingest() ends, is given
\* after its row was written.
LEMMA PaidWhenAnswered ==
  ASSUME AnswerInv, SentInTime, ThrowsForAReason, HandlerStep, stage' = "idle",
         ciphertext \in created, Payable(Decrypted(ciphertext))
  PROVE  ciphertext \in txPacketHashes
<1>1. CASE Decrypt
  BY <1>1 DEF Decrypt, SentInTime, AnswerInv, HandlerInv
<1>2. CASE RefuseUntimely
  BY <1>2 DEF RefuseUntimely, Payable
<1>3. CASE CallSettle \/ InSettle
  BY <1>3, SettlementStepStaysActive DEF CallSettle, InSettle, handlerVars, AnswerInv, HandlerInv
<1>4. CASE AnswerSettled
  <2>1. /\ pc \in {"returned", "threw"} /\ packetHash = ciphertext
        /\ instruction = Decrypted(ciphertext)
    BY <1>4 DEF AnswerSettled, Return, AnswerInv, HandlerInv
  <2>2. CASE pc = "returned"
    <3>1. /\ transactions # <<>> /\ transactions \in Seq(Row)
          /\ transactions[Len(transactions)].packetHash = packetHash
      BY <2>2 DEF AnswerInv, LastRowIsHandled, SettlementInv, SettlementTypeOK
    <3>2. Len(transactions) \in 1..Len(transactions)
      BY <3>1
    <3> QED
      BY <2>1, <3>1, <3>2 DEF AnswerInv, SettlementInv, LedgerIndexed
  <2>3. CASE pc = "threw"
    BY <2>1, <2>3 DEF ThrowsForAReason, Acceptable, Payable
  <2> QED
    BY <2>1, <2>2, <2>3
<1> QED
  BY <1>1, <1>2, <1>3, <1>4 DEF HandlerStep

LEMMA NextKeepsClaimedPaid ==
  ASSUME FlushInv, MeshInv, AnswerInv, ThrowsForAReason, SentInTime, ClaimedIsPaid,
         [SystemNext]_systemVars
  PROVE  ClaimedIsPaid'
<1>1. /\ [BridgeNext]_bridgeVars /\ serverKey' = serverKey
      /\ txPacketHashes \subseteq txPacketHashes'
  <2>1. [BridgeNext]_bridgeVars /\ [SettlementNext]_settlementVars
    BY SystemStepIsBridgeStep, BridgeStepIsSettlementStep DEF FlushInv
  <2> QED
    BY <2>1, KeyStays, RowsGrowAtTheEnd DEF AnswerInv
<1> SUFFICES ASSUME NEW c \in DOMAIN seen', c \in created',
                    stage' # "idle" => c # ciphertext',
                    Payable(Decrypted(c))'
             PROVE  c \in txPacketHashes'
  BY DEF ClaimedIsPaid
<1>2. c \in DOMAIN seen
  BY <1>1, ClaimsOfStep DEF PassGate
<1>3. c \in created
  <2>1. c \in Packets
    BY SystemStepIsMeshStep, NextKeepsMeshInv DEF MeshInv, MeshTypeOK
  <2> QED
    BY <1>2, <2>1 DEF SentInTime
<1>4. Payable(Decrypted(c))
  BY <1>3, PayableBefore
<1>5. CASE stage # "idle" => c # ciphertext
  BY <1>1, <1>2, <1>3, <1>4, <1>5 DEF ClaimedIsPaid
<1>6. CASE stage # "idle" /\ c = ciphertext
  <2>1. HandlerStep /\ stage' = "idle"
    <3>1. CASE HandlerStep
      BY <1>6, <3>1, AnswerEndsHandler DEF FlushInv
    <3>2. CASE ~HandlerStep
      <4>1. UNCHANGED <<stage, ciphertext>>
        BY <1>1, <1>6, <3>2 DEF BridgeNext, ServerNext, DropDuplicate, PassGate,
           EvictionTimer, TimePasses, Reset, handlerVars, bridgeVars
      <4> QED
        BY <1>6, <4>1
    <3> QED
      BY <3>1, <3>2
  <2> QED
    BY <1>1, <1>3, <1>4, <1>6, <2>1, PaidWhenAnswered
<1> QED
  BY <1>5, <1>6

\* When a flush is done nothing on a bridge phone is new to the server, and every payment
\* on one that is still good is in the ledger: for any number of phones, bridges and
\* packets, whatever was uploaded, evicted or reset before, and whenever the clock turned.
THEOREM FlushPaysAll == SystemSpec => []FlushedPayments
<1>1. SystemInit => SentInTime /\ ClaimedIsPaid
  BY DEF SystemInit, MeshInit, BridgeInit, GateInit, SentInTime, ClaimedIsPaid
<1>2. SystemSpec => []MeshInv
  BY SystemImplementsMesh, MeshInvariant, PTL
<1>3. SystemSpec => []AnswerInv
  BY SystemImplementsBridge, AnswersKeepTheirInvariant, PTL
<1>4. SystemSpec => []ThrowsForAReason
  BY SystemImplementsBridge, BridgeImplementsSettlement, SettleThrowsForAReason, PTL
<1>5. SystemSpec => []SentInTime
  BY <1>1, <1>2, NextKeepsSent, FlushKeepsItsInvariant, FlushKeepsItsProgress, PTL
     DEF SystemSpec
<1>6. SystemSpec => []ClaimedIsPaid
  BY <1>1, <1>2, <1>3, <1>4, <1>5, NextKeepsClaimedPaid, FlushKeepsItsInvariant, PTL
     DEF SystemSpec
<1>7. FlushInv /\ FlushProgress /\ MeshInv /\ ClaimedIsPaid => FlushedPayments
  <2> SUFFICES ASSUME FlushInv, FlushProgress, MeshInv, ClaimedIsPaid,
                      route = "flush", queue = <<>>, stage = "idle",
                      NEW i \in DOMAIN BridgeUploads
               PROVE  /\ Claimed(Uploaded(i))
                      /\ Payable(Decrypted(Uploaded(i))) => Uploaded(i) \in txPacketHashes
    BY DEF FlushedPayments, Uploaded
  <2>1. /\ Len(results) = Len(BridgeUploads) /\ i \in DOMAIN results
        /\ results[i].packet = Uploaded(i)
    BY FlushFacts, UploadFacts DEF FlushProgress, InHand
  <2>2. Uploaded(i) \in DOMAIN seen \cap created
    BY <2>1, UploadFacts DEF FlushInv
  <2> QED
    BY <2>2 DEF Claimed, ClaimedIsPaid
<1> QED
  BY <1>2, <1>5, <1>6, <1>7, FlushKeepsItsInvariant, FlushKeepsItsProgress, PTL
=============================================================================
