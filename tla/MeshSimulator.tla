---------------------------- MODULE MeshSimulator ----------------------------
(***************************************************************************)
(* MeshSimulatorService and its VirtualDevices: phones that hold copies of *)
(* packets, a gossip round in which every phone offers what it held when   *)
(* the round began to every other phone, and the uploads of the phones     *)
(* with Internet access.  Each operation is one synchronous HTTP handler.  *)
(***************************************************************************)
EXTENDS Integers, Sequences

CONSTANTS DeviceOrder,  \* the devices, in the order the Map iterates over them
          Bridges,      \* those with Internet access
          Packets,      \* packet ids, each given to one packet (random UUIDs)
          Ttls,         \* what parseInt() makes of the ttl /demo/send is given
          NaN           \* not a number: no comparison holds of it, NaN - 1 is NaN

Devices == {DeviceOrder[i] : i \in DOMAIN DeviceOrder}

ASSUME MeshConstants ==
  /\ DeviceOrder \in Seq(Devices)
  /\ \A i, j \in DOMAIN DeviceOrder : DeviceOrder[i] = DeviceOrder[j] => i = j
  /\ Bridges \subseteq Devices
  /\ NaN \notin Int /\ Ttls \subseteq Int \cup {NaN}

VARIABLES held,    \* device -> the copies it holds, oldest first
          created  \* the packet ids used so far

meshVars == <<held, created>>

\* A copy; the code does not record its hops, the number of devices it was handed on by.
Copy == [packetId : Packets, ttl : Int \cup {NaN}, hops : Nat]

Holds(h, d, id) == \E i \in DOMAIN h[d] : h[d][i].packetId = id

\* Mutant: a Map.set() without the check.
HoldLatest(h, d, pkt) ==
  IF Holds(h, d, pkt.packetId)
  THEN [h EXCEPT ![d] = [i \in DOMAIN @ |->
          IF @[i].packetId = pkt.packetId THEN pkt ELSE @[i]]]
  ELSE [h EXCEPT ![d] = Append(@, pkt)]

\* VirtualDevice.hold()
Hold(h, d, pkt) ==
  IF Holds(h, d, pkt.packetId) THEN h ELSE [h EXCEPT ![d] = Append(@, pkt)]

MeshInit == held = [d \in Devices |-> <<>>] /\ created = {}

\* /demo/send with start device d and this ttl.
Inject(d, id, ttl) ==
  /\ id \notin created
  /\ created' = created \cup {id}
  /\ held' = Hold(held, d, [packetId |-> id, ttl |-> ttl, hops |-> 0])

-----------------------------------------------------------------------------

\* Mutant: the last hop is not made.
MayForwardTwice(pkt) == pkt.ttl = NaN \/ pkt.ttl > 1

\* gossipOnce() skips a packet if its ttl <= 0.
MayForward(pkt) == pkt.ttl = NaN \/ pkt.ttl > 0

Less(ttl) == IF ttl = NaN THEN NaN ELSE ttl - 1

HandedOn(pkt) ==
  [packetId |-> pkt.packetId, ttl |-> Less(pkt.ttl), hops |-> pkt.hops + 1]

\* One turn of the innermost loop.
Offer(h, src, pkt, dst) == IF dst = src THEN h ELSE Hold(h, dst, HandedOn(pkt))

\* Mutant: the innermost loop breaks at the source instead of skipping it.
ToPeersUntilSource(h, src, pkt) ==
  LET after[k \in 0..Len(DeviceOrder)] ==
        IF k = 0 THEN h
        ELSE IF \E m \in 1..k : DeviceOrder[m] = src THEN after[k - 1]
        ELSE Offer(after[k - 1], src, pkt, DeviceOrder[k])
  IN  after[Len(DeviceOrder)]

\* What the phones hold after pkt of src was offered to all the devices.
ToPeers(h, src, pkt) ==
  LET after[k \in 0..Len(DeviceOrder)] ==
        IF k = 0 THEN h ELSE Offer(after[k - 1], src, pkt, DeviceOrder[k])
  IN  after[Len(DeviceOrder)]

Relay(h, src, pkt) == IF MayForward(pkt) THEN ToPeers(h, src, pkt) ELSE h

\* Mutant: each phone offers what it got last first.
FromPhoneNewestFirst(h, src, packets) ==
  LET after[j \in 0..Len(packets)] ==
        IF j = 0 THEN h ELSE Relay(after[j - 1], src, packets[Len(packets) + 1 - j])
  IN  after[Len(packets)]

\* ... after all the packets of src were, in the order of the snapshot.
FromPhone(h, src, packets) ==
  LET after[j \in 0..Len(packets)] ==
        IF j = 0 THEN h ELSE Relay(after[j - 1], src, packets[j])
  IN  after[Len(packets)]

\* ... after all the packets of all the devices were; h is the snapshot as well.
GossipRound(h) ==
  LET after[i \in 0..Len(DeviceOrder)] ==
        IF i = 0 THEN h
        ELSE FromPhone(after[i - 1], DeviceOrder[i], h[DeviceOrder[i]])
  IN  after[Len(DeviceOrder)]

GossipOnce == held' = GossipRound(held) /\ UNCHANGED created

\* Mutant: reset builds the offline phones anew and forgets the bridges.
ResetOfflinePhones == held' = [d \in Devices \ Bridges |-> <<>>] /\ UNCHANGED created

ResetMesh == held' = [d \in Devices |-> <<>>] /\ UNCHANGED created

MeshNext ==
  \/ \E d \in Devices, id \in Packets, ttl \in Ttls : Inject(d, id, ttl)
  \/ GossipOnce
  \/ ResetMesh

MeshSpec == MeshInit /\ [][MeshNext]_meshVars

-----------------------------------------------------------------------------

\* collectBridgeUploads(), as the requests /mesh/flush makes of it.
HopCount(pkt) == IF pkt.ttl = NaN THEN NaN ELSE 5 - pkt.ttl

UploadsOf(d) ==
  [j \in DOMAIN held[d] |->
     [bridgeNodeId |-> d, packet |-> held[d][j], hopCount |-> HopCount(held[d][j])]]

\* Mutant: find() instead of a loop over all the bridges.
FirstBridgeUploads ==
  LET first == CHOOSE i \in DOMAIN DeviceOrder :
        DeviceOrder[i] \in Bridges /\ \A k \in 1..(i - 1) : DeviceOrder[k] \notin Bridges
  IN UploadsOf(DeviceOrder[first])

BridgeUploads ==
  LET upTo[i \in 0..Len(DeviceOrder)] ==
        IF i = 0 THEN <<>>
        ELSE upTo[i - 1] \o
               (IF DeviceOrder[i] \in Bridges THEN UploadsOf(DeviceOrder[i]) ELSE <<>>)
  IN  upTo[Len(DeviceOrder)]

-----------------------------------------------------------------------------

\* The type invariant of the phones.
MeshTypeOK ==
  /\ held \in [Devices -> Seq(Copy)]
  /\ created \subseteq Packets
  /\ \A d \in Devices : \A i \in DOMAIN held[d] : held[d][i].packetId \in created

Holders(id) == {d \in Devices : Holds(held, d, id)}

\* The mesh is one hop wide, so a packet is on no phone, on the one it was created
\* on, or on all of them.  Hence no copy is ever handed on twice, and the TTL and
\* the snapshot that gossipOnce() takes against several hops in one round bind
\* only at a TTL of 0.
OneHopMesh ==
  \A id \in Packets :
    /\ Holders(id) \in {{}, Devices} \cup {{d} : d \in Devices}
    /\ \A d \in Devices : \A i \in DOMAIN held[d] : held[d][i].hops <= 1

\* README: "After 1 or 2 rounds, all devices hold copies of the packet".  One round
\* is enough for a packet that may be forwarded at all, a TTL that is no number
\* included, and one that may not stays where it is.
RoundReachesAll ==
  [][GossipOnce => \A id \in Packets, d \in Devices : \A i \in DOMAIN held[d] :
       held[d][i].packetId = id =>
         Holders(id)' = IF held[d][i].ttl = NaN \/ held[d][i].ttl > 0 THEN Devices
                        ELSE Holders(id)]_meshVars

\* The order in which a flush uploads is the order of payments.  What was sent from
\* one phone comes in the order it was sent on every phone that holds it, however
\* the rounds of gossip fell.
SendersOrderKept ==
  \A d, e \in Devices : \A i, j \in DOMAIN held[d] :
    i < j /\ held[d][i].hops = 0 /\ held[d][j].hops = 0 =>
      \A k, l \in DOMAIN held[e] :
        held[e][k].packetId = held[d][i].packetId /\ held[e][l].packetId = held[d][j].packetId
          => k < l

\* A phone keeps the copy it got first: no later offer of the same packet, with
\* whatever TTL, replaces it, is stored beside it, or changes the upload order.
FirstCopyIsKept ==
  [][~ResetMesh => \A d \in Devices :
       /\ \A i \in DOMAIN held[d] : i \in DOMAIN held'[d] /\ held'[d][i] = held[d][i]
       /\ \A i, j \in DOMAIN held'[d] :
            held'[d][i].packetId = held'[d][j].packetId => i = j]_meshVars

\* Every upload a flush makes is of a bridge phone's copy of a packet, each copy once:
\* what two bridges hold is uploaded twice, which is what the gate is for.
EachBridgeUploadsEachCopyOnce ==
  /\ \A d \in Bridges, id \in Packets :
       Holds(held, d, id) =>
         \E i \in DOMAIN BridgeUploads :
           BridgeUploads[i].bridgeNodeId = d /\ BridgeUploads[i].packet.packetId = id
  /\ \A i, j \in DOMAIN BridgeUploads :
       /\ BridgeUploads[i].bridgeNodeId = BridgeUploads[j].bridgeNodeId
       /\ BridgeUploads[i].packet.packetId = BridgeUploads[j].packet.packetId
       => i = j

\* What the order of payments rests on: the oldest packets of a phone spread first.
\* A copy of its own that it may hand on is with all if a later one of its own is.
EarlierIsWithAll ==
  \A d \in Devices : \A i, j \in DOMAIN held[d] :
    /\ i < j /\ held[d][i].hops = 0 /\ held[d][j].hops = 0
    /\ MayForward(held[d][i])
    /\ Holders(held[d][j].packetId) = Devices
    => Holders(held[d][i].packetId) = Devices

\* A copy that was handed on was so to all; one that may not be is on one phone.
CopyTellsHolders ==
  \A d \in Devices : \A i \in DOMAIN held[d] :
    LET pkt == held[d][i] IN
    /\ pkt.hops > 0 => Holders(pkt.packetId) = Devices
    /\ pkt.hops = 0 /\ ~MayForward(pkt) => Holders(pkt.packetId) = {d}

\* A phone holds at most one copy of a packet.
OneCopyEach(h) ==
  \A d \in Devices : \A i, j \in DOMAIN h[d] :
    h[d][i].packetId = h[d][j].packetId => i = j

\* The inductive invariant of the mesh: what every operation relies on and keeps.
MeshInv ==
  /\ MeshTypeOK /\ OneHopMesh /\ SendersOrderKept
  /\ OneCopyEach(held) /\ CopyTellsHolders /\ EarlierIsWithAll
=============================================================================
