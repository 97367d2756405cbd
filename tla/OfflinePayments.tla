--------------------------- MODULE OfflinePayments ---------------------------
(***************************************************************************)
(* The demo as a whole: phones send, gossip and upload, the server takes   *)
(* in.  The routes of apiRoutes.js are the handlers, and Node runs one at  *)
(* a time: POST /mesh/flush maps its uploads to async functions that never *)
(* await, so all of them run, in order, before any other handler does.     *)
(*                                                                         *)
(* createPacket() makes a packet id and a ciphertext together, so one      *)
(* value stands for both.  Texts that are no packet of createPacket(),     *)
(* because they were sealed elsewhere or altered on their way, reach the   *)
(* server over POST /bridge/ingest only.                                   *)
(***************************************************************************)
EXTENDS MeshSimulator, BridgeIngestion

ASSUME OneCiphertextPerPacket == Packets \subseteq Hashes

VARIABLES route,    \* the handler that runs, or "none"
          queue,    \* the uploads the running flush still has to make
          results   \* what the last flush answers, upload by upload

routeVars == <<route, queue, results>>
systemVars == <<held, created, accounts, transactions, txPacketHashes, nextTxId,
                snapshot, pc, instruction, packetHash, sender, receiver,
                seen, now, serverKey, stage, ciphertext, response, route, queue, results>>

SystemInit ==
  /\ MeshInit /\ BridgeInit
  /\ route = "none" /\ queue = <<>> /\ results = <<>>

LoopIsFree == route = "none"

-----------------------------------------------------------------------------

\* POST /demo/send: an instruction signed now, sealed and put on phone d.
Send(d, c, ttl) ==
  /\ LoopIsFree
  /\ Decrypted(c) # None /\ Decrypted(c).signedAt = now
  /\ Inject(d, c, ttl)
  /\ UNCHANGED <<bridgeVars, routeVars>>

\* POST /mesh/gossip
Gossip == LoopIsFree /\ GossipOnce /\ UNCHANGED <<bridgeVars, routeVars>>

\* POST /mesh/reset
ResetDemo == LoopIsFree /\ ResetMesh /\ Reset /\ UNCHANGED routeVars

\* Mutants: the uploads themselves instead of their packets; one upload a flush.
FlushUploads ==
  /\ LoopIsFree
  /\ route' = "flush"
  /\ queue' = BridgeUploads
  /\ results' = <<>>
  /\ UNCHANGED <<meshVars, bridgeVars>>

FlushOne ==
  /\ LoopIsFree
  /\ route' = "flush"
  /\ queue' = [i \in DOMAIN BridgeUploads \cap {1} |-> BridgeUploads[i].packet.packetId]
  /\ results' = <<>>
  /\ UNCHANGED <<meshVars, bridgeVars>>

\* POST /mesh/flush collects the uploads of all bridge phones ...
Flush ==
  /\ LoopIsFree
  /\ route' = "flush"
  /\ queue' = [i \in DOMAIN BridgeUploads |-> BridgeUploads[i].packet.packetId]
  /\ results' = <<>>
  /\ UNCHANGED <<meshVars, bridgeVars>>

Report(c, outcome) == results' = Append(results, [packet |-> c, outcome |-> outcome])

\* Mutant: duplicates are left out of the answer.
FlushDroppedSilently(c) ==
  /\ route = "flush" /\ queue # <<>> /\ c = Head(queue)
  /\ DropDuplicate(c)
  /\ queue' = Tail(queue)
  /\ UNCHANGED <<meshVars, route, results>>

\* ... hands the next one to ingest(), whose gate drops it ...
FlushDropped(c) ==
  /\ route = "flush" /\ queue # <<>> /\ c = Head(queue)
  /\ DropDuplicate(c)
  /\ Report(c, "DUPLICATE_DROPPED")
  /\ queue' = Tail(queue)
  /\ UNCHANGED <<meshVars, route>>

\* ... or lets it pass ...
FlushPassed(c) ==
  /\ route = "flush" /\ queue # <<>> /\ c = Head(queue)
  /\ PassGate(c)
  /\ queue' = Tail(queue)
  /\ UNCHANGED <<meshVars, route, results>>

\* Mutant: a flush that found nothing to upload sends no answer.
FlushDoneWithResults ==
  /\ route = "flush" /\ queue = <<>> /\ stage = "idle" /\ results # <<>>
  /\ route' = "none"
  /\ UNCHANGED <<meshVars, bridgeVars, queue, results>>

\* ... and answers when all are done.
FlushDone ==
  /\ route = "flush" /\ queue = <<>> /\ stage = "idle"
  /\ route' = "none"
  /\ UNCHANGED <<meshVars, bridgeVars, queue, results>>

\* A text there can be by now: createPacket() has made it if it is one of its packets,
\* and the key pair it is sealed for, if any, was generated.
CanExist(c) ==
  /\ c \in Packets => c \in created
  /\ \A k \in Keys : InstructionOf[k][c] # None => k <= serverKey

\* POST /bridge/ingest: a phone somewhere uploads whatever text it has.
IngestDirectly(c) ==
  /\ LoopIsFree
  /\ CanExist(c)
  /\ \/ DropDuplicate(c) /\ UNCHANGED route
     \/ PassGate(c) /\ route' = "ingest"
  /\ UNCHANGED <<meshVars, queue, results>>

\* ingest() goes on; its answer ends the request, or one upload of the flush.
Ingest ==
  /\ HandlerStep
  /\ IF stage' # "idle" THEN UNCHANGED <<route, results>>
     ELSE IF route = "flush" THEN Report(ciphertext, response'.outcome) /\ UNCHANGED route
     ELSE route' = "none" /\ UNCHANGED results
  /\ UNCHANGED <<meshVars, queue>>

\* The timer of the gate.
Evict == LoopIsFree /\ EvictionTimer /\ UNCHANGED <<meshVars, routeVars>>

\* The clock runs whatever the routes do, also between two uploads of a flush.
ClockTurns == TimePasses /\ UNCHANGED <<meshVars, routeVars>>

SystemNext ==
  \/ \E d \in Devices, c \in Packets, ttl \in Ttls : Send(d, c, ttl)
  \/ Gossip \/ ResetDemo
  \/ Flush \/ FlushDone
  \/ \E c \in Hashes : FlushDropped(c) \/ FlushPassed(c) \/ IngestDirectly(c)
  \/ Ingest
  \/ Evict \/ ClockTurns

SystemSpec == SystemInit /\ [][SystemNext]_systemVars

\* A handler is synchronous code: once entered it runs to its end.
HandlerGoesOn ==
  Ingest \/ FlushDone \/ \E c \in Hashes : FlushDropped(c) \/ FlushPassed(c)

SystemFairness == WF_systemVars(HandlerGoesOn)

FairSystemSpec == SystemSpec /\ SystemFairness

-----------------------------------------------------------------------------

\* The type invariant of the routes; the components have theirs.
SystemTypeOK ==
  /\ MeshTypeOK /\ BridgeTypeOK
  /\ route \in {"none", "flush", "ingest"}
  /\ queue \in Seq(Packets)
  /\ queue # <<>> => route = "flush"
  /\ stage # "idle" => route # "none"

\* idempotencyConcurrency.test.js: "The other two deliveries must be
\* DUPLICATE_DROPPED".  Of the deliveries of one packet by the bridges of one flush,
\* only the first can be anything else: no eviction or reset comes between them.
OneBridgePerPacket ==
  \A i, j \in DOMAIN results :
    i < j /\ results[i].packet = results[j].packet
      => results[j].outcome = "DUPLICATE_DROPPED"

\* A flush answers each upload, in the order the phones hold them, whatever the
\* others come to: no upload's failure stops or reorders the rest.
FlushReportsEachUpload ==
  route = "flush" /\ queue = <<>> /\ stage = "idle" =>
    /\ Len(results) = Len(BridgeUploads)
    /\ \A i \in DOMAIN results : results[i].packet = BridgeUploads[i].packet.packetId

\* After a flush nothing on a bridge phone is new to the server: it is claimed, and
\* a payment that is still good is in the ledger.
FlushedPayments ==
  route = "flush" /\ queue = <<>> /\ stage = "idle" =>
    \A i \in DOMAIN BridgeUploads :
      LET c == BridgeUploads[i].packet.packetId IN
      Claimed(c) /\ (Payable(Decrypted(c)) => c \in txPacketHashes)

\* The server never hangs in a handler.
HandlersEnd == route # "none" ~> route = "none"
=============================================================================
