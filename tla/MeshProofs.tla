----------------------------- MODULE MeshProofs -----------------------------
(***************************************************************************)
(* Proofs about MeshSimulator for any number of phones, bridges and        *)
(* packets.  A round of gossip is three nested loops; what each turn keeps *)
(* is Mid, relative to the snapshot h0 the round goes through.             *)
(***************************************************************************)
EXTENDS MeshSimulator, Loops

Phones == [Devices -> Seq(Copy)]

AllHold(h, id) == \A e \in Devices : Holds(h, e, id)

\* What h holds is in g at the same place.
Extends(h, g) ==
  \A d \in Devices : \A i \in DOMAIN h[d] : i \in DOMAIN g[d] /\ g[d][i] = h[d][i]

\* The k-th copy of e was handed on by another phone of the snapshot, and what that
\* phone hands on before it is on e already.
FreshCopy(h0, h, e, k) ==
  \E d \in Devices : \E y \in DOMAIN h0[d] :
    /\ d # e /\ MayForward(h0[d][y]) /\ h[e][k] = HandedOn(h0[d][y])
    /\ \A x \in 1..(y - 1) : MayForward(h0[d][x]) =>
         \E m \in 1..(k - 1) : h[e][m].packetId = h0[d][x].packetId

\* In the midst of a round.
Mid(h0, h) ==
  /\ h \in Phones /\ OneCopyEach(h) /\ Extends(h0, h)
  /\ \A e \in Devices : \A k \in DOMAIN h[e] : k \in DOMAIN h0[e] \/ FreshCopy(h0, h, e, k)

\* The first n packets of the snapshot of d were offered to all.
Given(h0, h, d, n) ==
  \A x \in 1..n : MayForward(h0[d][x]) => AllHold(h, h0[d][x].packetId)

-----------------------------------------------------------------------------

LEMMA HandedOnCopy ==
  ASSUME NEW pkt \in Copy
  PROVE  /\ HandedOn(pkt) \in Copy
         /\ HandedOn(pkt).packetId = pkt.packetId
         /\ HandedOn(pkt).hops = pkt.hops + 1
<1>1. pkt.packetId \in Packets /\ pkt.hops + 1 \in Nat
  BY DEF Copy
<1>2. Less(pkt.ttl) \in Int \cup {NaN}
  BY DEF Copy, Less
<1> QED BY <1>1, <1>2 DEF HandedOn, Copy

\* What hold() does: it keeps what there is and adds at most one copy, at the end, of
\* a packet that was not there.
LEMMA HoldAdds ==
  ASSUME NEW h \in Phones, NEW d \in Devices, NEW pkt \in Copy
  PROVE  LET g == Hold(h, d, pkt) IN
         /\ g \in Phones /\ Extends(h, g) /\ Holds(g, d, pkt.packetId)
         /\ \A e \in Devices : \A k \in DOMAIN g[e] :
              \/ k \in DOMAIN h[e]
              \/ /\ e = d /\ k = Len(h[d]) + 1 /\ g[e][k] = pkt
                 /\ ~Holds(h, d, pkt.packetId)
<1> DEFINE g == Hold(h, d, pkt)
<1>1. CASE Holds(h, d, pkt.packetId)
  BY <1>1 DEF Hold, Extends
<1>2. CASE ~Holds(h, d, pkt.packetId)
  <2>1. g = [h EXCEPT ![d] = Append(h[d], pkt)]
    BY <1>2 DEF Hold
  <2>2. /\ h[d] \in Seq(Copy) /\ Len(h[d]) \in Nat /\ DOMAIN h[d] = 1..Len(h[d])
        /\ Append(h[d], pkt) \in Seq(Copy)
        /\ DOMAIN Append(h[d], pkt) = 1..(Len(h[d]) + 1)
        /\ Append(h[d], pkt)[Len(h[d]) + 1] = pkt
        /\ \A i \in DOMAIN h[d] : Append(h[d], pkt)[i] = h[d][i]
    BY DEF Phones
  <2>3. /\ g \in Phones /\ g[d] = Append(h[d], pkt)
        /\ \A e \in Devices : e # d => g[e] = h[e]
    BY <2>1, <2>2 DEF Phones
  <2> HIDE DEF g
  <2>4. Extends(h, g)
    BY <2>2, <2>3 DEF Extends
  <2>5. Holds(g, d, pkt.packetId)
    <3>1. Len(h[d]) + 1 \in DOMAIN g[d] /\ g[d][Len(h[d]) + 1] = pkt
      BY <2>2, <2>3
    <3> QED BY <3>1 DEF Holds
  <2>6. ASSUME NEW e \in Devices, NEW k \in DOMAIN g[e]
        PROVE  k \in DOMAIN h[e] \/ (e = d /\ k = Len(h[d]) + 1 /\ g[e][k] = pkt)
    BY <2>2, <2>3
  <2> QED BY <1>2, <2>3, <2>4, <2>5, <2>6 DEF g
<1> QED BY <1>1, <1>2

LEMMA ExtendsKeepsHolds ==
  ASSUME NEW h, NEW g, Extends(h, g), NEW d \in Devices, NEW id, Holds(h, d, id)
  PROVE  Holds(g, d, id)
BY DEF Extends, Holds

LEMMA ExtendsIsTransitive ==
  ASSUME NEW h1, NEW h2, NEW h3, Extends(h1, h2), Extends(h2, h3)
  PROVE  Extends(h1, h3)
BY DEF Extends

LEMMA ExtendsKeepsGiven ==
  ASSUME NEW h0, NEW h, NEW g, NEW d, NEW n, Extends(h, g), Given(h0, h, d, n)
  PROVE  Given(h0, g, d, n)
BY ExtendsKeepsHolds DEF Given, AllHold

\* One turn of the innermost loop.
LEMMA OfferKeepsMid ==
  ASSUME NEW h0 \in Phones, NEW h, Mid(h0, h),
         NEW src \in Devices, NEW y \in DOMAIN h0[src], MayForward(h0[src][y]),
         Given(h0, h, src, y - 1), NEW dst \in Devices
  PROVE  LET g == Offer(h, src, h0[src][y], dst) IN
         /\ Mid(h0, g) /\ Extends(h, g) /\ Holds(g, dst, h0[src][y].packetId)
<1> DEFINE pkt == h0[src][y]
           copy == HandedOn(pkt)
           g == Offer(h, src, pkt, dst)
<1>1. pkt \in Copy /\ copy \in Copy /\ copy.packetId = pkt.packetId
  BY HandedOnCopy DEF Phones
<1>2. h \in Phones
  BY DEF Mid
<1>3. CASE dst = src
  <2>1. g = h /\ Extends(h, h)
    BY <1>3 DEF Offer, Extends
  <2>2. Holds(h0, src, pkt.packetId)
    BY DEF Holds
  <2> QED BY <1>3, <2>1, <2>2, ExtendsKeepsHolds DEF Mid
<1>4. CASE dst # src
  <2> HIDE DEF copy
  <2>1. g = Hold(h, dst, copy)
    BY <1>4 DEF Offer, copy
  <2> HIDE DEF g
  <2>2. /\ g \in Phones /\ Extends(h, g) /\ Holds(g, dst, pkt.packetId)
        /\ \A e \in Devices : \A k \in DOMAIN g[e] :
             \/ k \in DOMAIN h[e]
             \/ /\ e = dst /\ k = Len(h[dst]) + 1 /\ g[e][k] = copy
                /\ ~Holds(h, dst, pkt.packetId)
    BY <1>1, <1>2, <2>1, HoldAdds
  <2> HIDE DEF pkt
  <2>3. Extends(h0, g)
    BY <2>2, ExtendsIsTransitive DEF Mid
  <2>4. OneCopyEach(g)
    <3> SUFFICES ASSUME NEW e \in Devices, NEW i \in DOMAIN g[e], NEW j \in DOMAIN g[e],
                        g[e][i].packetId = g[e][j].packetId
                 PROVE  i = j
      BY DEF OneCopyEach
    <3>1. CASE i \in DOMAIN h[e] /\ j \in DOMAIN h[e]
      BY <2>2, <3>1 DEF Mid, OneCopyEach, Extends
    <3>2. CASE i \in DOMAIN h[e] /\ j \notin DOMAIN h[e]
      BY <1>1, <2>2, <3>2 DEF Holds, Extends
    <3>3. CASE i \notin DOMAIN h[e] /\ j \in DOMAIN h[e]
      BY <1>1, <2>2, <3>3 DEF Holds, Extends
    <3>4. CASE i \notin DOMAIN h[e] /\ j \notin DOMAIN h[e]
      BY <2>2, <3>4
    <3> QED BY <3>1, <3>2, <3>3, <3>4
  <2>5. ASSUME NEW e \in Devices, NEW k \in DOMAIN g[e], k \notin DOMAIN h0[e]
        PROVE  FreshCopy(h0, g, e, k)
    <3>1. CASE k \in DOMAIN h[e]
      <4>1. FreshCopy(h0, h, e, k)
        BY <2>5, <3>1 DEF Mid
      <4>2. g[e][k] = h[e][k]
        BY <2>2, <3>1 DEF Extends
      <4>3. \A m \in 1..(k - 1) : m \in DOMAIN h[e] /\ g[e][m] = h[e][m]
        <5>1. DOMAIN h[e] = 1..Len(h[e]) /\ Len(h[e]) \in Nat
          BY <1>2 DEF Phones
        <5> QED BY <2>2, <3>1, <5>1 DEF Extends
      <4> QED BY <4>1, <4>2, <4>3 DEF FreshCopy
    <3>2. CASE k \notin DOMAIN h[e]
      <4>1. e = dst /\ k = Len(h[e]) + 1 /\ g[e][k] = copy
        BY <2>2, <3>2
      <4>2. ASSUME NEW x \in 1..(y - 1), MayForward(h0[src][x])
            PROVE  \E m \in 1..(k - 1) : g[e][m].packetId = h0[src][x].packetId
        <5>1. PICK m \in DOMAIN h[e] : h[e][m].packetId = h0[src][x].packetId
          BY <4>2 DEF Given, AllHold, Holds
        <5>2. m \in 1..(k - 1)
          BY <1>2, <4>1, <5>1 DEF Phones
        <5>3. g[e][m] = h[e][m]
          BY <2>2, <5>1 DEF Extends
        <5> QED BY <5>1, <5>2, <5>3
      <4> QED BY <1>4, <4>1, <4>2 DEF FreshCopy, pkt, copy
    <3> QED BY <3>1, <3>2
  <2> QED BY <2>2, <2>3, <2>4, <2>5 DEF Mid, g, pkt
<1> QED BY <1>3, <1>4

DeviceCount == Len(DeviceOrder)

LEMMA DeviceOrderFacts ==
  /\ DeviceCount \in Nat /\ DOMAIN DeviceOrder = 1..DeviceCount
  /\ \A k \in 1..DeviceCount : DeviceOrder[k] \in Devices
  /\ \A d \in Devices : \E k \in 1..DeviceCount : DeviceOrder[k] = d
BY MeshConstants DEF Devices, DeviceCount

\* The turns of the innermost loop.
LEMMA ToPeersRuns ==
  ASSUME NEW h \in Phones, NEW src \in Devices, NEW pkt \in Copy
  PROVE  \E after :
           /\ after[0] = h /\ ToPeers(h, src, pkt) = after[DeviceCount]
           /\ \A k \in 1..DeviceCount :
                after[k] = Offer(after[k - 1], src, pkt, DeviceOrder[k])
<1> DEFINE Turn == [vk \in Phones \X (1..DeviceCount) |->
                      Offer(vk[1], src, pkt, DeviceOrder[vk[2]])]
           Body(g) == [k \in 0..DeviceCount |->
                         IF k = 0 THEN h ELSE Offer(g[k - 1], src, pkt, DeviceOrder[k])]
           after == CHOOSE g : g = Body(g)
<1>1. Turn \in [Phones \X (1..DeviceCount) -> Phones]
  <2> SUFFICES ASSUME NEW v \in Phones, NEW k \in 1..DeviceCount
               PROVE  Offer(v, src, pkt, DeviceOrder[k]) \in Phones
    OBVIOUS
  <2> QED BY DeviceOrderFacts, HandedOnCopy, HoldAdds DEF Offer
<1>2. PICK f \in [0..DeviceCount -> Phones] :
        f[0] = h /\ \A k \in 1..DeviceCount : f[k] = Turn[<<f[k - 1], k>>]
  <2> HIDE DEF Turn
  <2>1. LoopsOf(DeviceCount, Phones, h, Turn) # {}
    BY DeviceOrderFacts, <1>1, LoopRuns
  <2> QED BY <2>1 DEF LoopsOf
<1>3. f = Body(f)
  <2>1. ASSUME NEW k \in 1..DeviceCount
        PROVE  f[k] = Offer(f[k - 1], src, pkt, DeviceOrder[k])
    <3>1. f[k - 1] \in Phones
      BY DeviceOrderFacts
    <3>2. Turn[<<f[k - 1], k>>] = Offer(f[k - 1], src, pkt, DeviceOrder[k])
      BY <3>1
    <3> QED BY <1>2, <3>2
  <2> HIDE DEF Turn
  <2>2. ASSUME NEW k \in 0..DeviceCount
        PROVE  f[k] = IF k = 0 THEN h ELSE Offer(f[k - 1], src, pkt, DeviceOrder[k])
    BY <1>2, <2>1, DeviceOrderFacts
  <2>3. f = [k \in 0..DeviceCount |-> f[k]]
    OBVIOUS
  <2> QED BY <2>2, <2>3, Zenon
<1>4. after = Body(after)
  <2> HIDE DEF Body
  <2> QED BY <1>3
<1>5. ToPeers(h, src, pkt) = after[DeviceCount]
  BY DEF ToPeers, DeviceCount
<1> HIDE DEF after
<1>6. /\ after[0] = h
      /\ \A k \in 1..DeviceCount : after[k] = Offer(after[k - 1], src, pkt, DeviceOrder[k])
  <2>1. /\ 0 \in 0..DeviceCount
        /\ \A k \in 1..DeviceCount : k \in 0..DeviceCount /\ k # 0
    BY DeviceOrderFacts
  <2>2. \A k \in 0..DeviceCount : after[k] =
          IF k = 0 THEN h ELSE Offer(after[k - 1], src, pkt, DeviceOrder[k])
    BY <1>4
  <2> QED BY <2>1, <2>2
<1> QED BY <1>5, <1>6

\* The innermost loop: after it all phones hold the packet.
LEMMA ToPeersKeepsMid ==
  ASSUME NEW h0 \in Phones, NEW h, Mid(h0, h),
         NEW src \in Devices, NEW y \in DOMAIN h0[src], MayForward(h0[src][y]),
         Given(h0, h, src, y - 1)
  PROVE  LET g == ToPeers(h, src, h0[src][y]) IN
         /\ Mid(h0, g) /\ Extends(h, g) /\ AllHold(g, h0[src][y].packetId)
<1> DEFINE pkt == h0[src][y]
<1>1. h \in Phones /\ pkt \in Copy /\ Extends(h, h)
  BY DEF Mid, Phones, Extends
<1>2. PICK after :
        /\ after[0] = h /\ ToPeers(h, src, pkt) = after[DeviceCount]
        /\ \A k \in 1..DeviceCount : after[k] = Offer(after[k - 1], src, pkt, DeviceOrder[k])
  BY <1>1, ToPeersRuns
<1> DEFINE Kept(k) == /\ Mid(h0, after[k]) /\ Extends(h, after[k])
                      /\ \A m \in 1..k : Holds(after[k], DeviceOrder[m], pkt.packetId)
           T == {k \in 0..DeviceCount : Kept(k)}
<1>3. 0 \in T
  BY <1>1, <1>2, DeviceOrderFacts
<1>4. ASSUME NEW k \in 0..(DeviceCount - 1), k \in T
      PROVE  k + 1 \in T
  <2>1. k + 1 \in 1..DeviceCount /\ (k + 1) - 1 = k /\ Kept(k)
    BY <1>4, DeviceOrderFacts
  <2>2. DeviceOrder[k + 1] \in Devices /\ \A m \in 1..k : DeviceOrder[m] \in Devices
    BY <2>1, DeviceOrderFacts
  <2>3. after[k + 1] = Offer(after[k], src, pkt, DeviceOrder[k + 1])
    BY <1>2, <2>1
  <2>4. Given(h0, after[k], src, y - 1)
    BY <2>1, ExtendsKeepsGiven
  <2>5. /\ Mid(h0, after[k + 1]) /\ Extends(after[k], after[k + 1])
        /\ Holds(after[k + 1], DeviceOrder[k + 1], pkt.packetId)
    BY <2>1, <2>2, <2>3, <2>4, OfferKeepsMid
  <2>6. \A m \in 1..k : Holds(after[k + 1], DeviceOrder[m], pkt.packetId)
    BY <2>1, <2>2, <2>5, ExtendsKeepsHolds
  <2>7. Kept(k + 1)
    <3>1. \A m \in 1..(k + 1) : m \in 1..k \/ m = k + 1
      BY <2>1
    <3> QED BY <2>1, <2>5, <2>6, <3>1, ExtendsIsTransitive
  <2> HIDE DEF Kept
  <2> QED BY <2>1, <2>7
<1>5. Kept(DeviceCount)
  <2>1. 0..DeviceCount \subseteq T
    <3> HIDE DEF T
    <3> QED BY <1>3, <1>4, UpTo, DeviceOrderFacts
  <2> HIDE DEF Kept
  <2> QED BY <2>1, DeviceOrderFacts
<1> QED BY <1>2, <1>5, DeviceOrderFacts DEF AllHold

-----------------------------------------------------------------------------

LEMMA RelayTypes ==
  ASSUME NEW h \in Phones, NEW src \in Devices, NEW pkt \in Copy
  PROVE  Relay(h, src, pkt) \in Phones
<1>1. PICK after :
        /\ after[0] = h /\ ToPeers(h, src, pkt) = after[DeviceCount]
        /\ \A k \in 1..DeviceCount : after[k] = Offer(after[k - 1], src, pkt, DeviceOrder[k])
  BY ToPeersRuns
<1> DEFINE T == {k \in 0..DeviceCount : after[k] \in Phones}
<1>2. 0 \in T
  BY <1>1, DeviceOrderFacts
<1>3. ASSUME NEW k \in 0..(DeviceCount - 1), k \in T
      PROVE  k + 1 \in T
  <2>1. k + 1 \in 1..DeviceCount /\ (k + 1) - 1 = k /\ after[k] \in Phones
    BY <1>3, DeviceOrderFacts
  <2>2. after[k + 1] = Offer(after[k], src, pkt, DeviceOrder[k + 1])
    BY <1>1, <2>1
  <2>3. after[k + 1] \in Phones
    BY <2>1, <2>2, DeviceOrderFacts, HandedOnCopy, HoldAdds DEF Offer
  <2> QED BY <2>1, <2>3
<1>4. 0..DeviceCount \subseteq T
  <2> HIDE DEF T
  <2> QED BY <1>2, <1>3, UpTo, DeviceOrderFacts
<1> QED BY <1>1, <1>4, DeviceOrderFacts DEF Relay

\* The turns of the loop over the packets of a phone.
LEMMA FromPhoneRuns ==
  ASSUME NEW h \in Phones, NEW src \in Devices, NEW packets \in Seq(Copy)
  PROVE  \E after :
           /\ after[0] = h /\ FromPhone(h, src, packets) = after[Len(packets)]
           /\ \A k \in 1..Len(packets) :
                after[k] = Relay(after[k - 1], src, packets[k])
<1> DEFINE Turn == [vk \in Phones \X (1..Len(packets)) |->
                      Relay(vk[1], src, packets[vk[2]])]
           Body(g) == [k \in 0..Len(packets) |->
                         IF k = 0 THEN h ELSE Relay(g[k - 1], src, packets[k])]
           after == CHOOSE g : g = Body(g)
<1>0. Len(packets) \in Nat /\ \A k \in 1..Len(packets) : packets[k] \in Copy
  OBVIOUS
<1>1. Turn \in [Phones \X (1..Len(packets)) -> Phones]
  <2> SUFFICES ASSUME NEW v \in Phones, NEW k \in 1..Len(packets)
               PROVE  Relay(v, src, packets[k]) \in Phones
    OBVIOUS
  <2> QED BY RelayTypes
<1>2. PICK f \in [0..Len(packets) -> Phones] :
        f[0] = h /\ \A k \in 1..Len(packets) : f[k] = Turn[<<f[k - 1], k>>]
  <2> HIDE DEF Turn
  <2>1. LoopsOf(Len(packets), Phones, h, Turn) # {}
    BY <1>0, <1>1, LoopRuns
  <2> QED BY <2>1 DEF LoopsOf
<1>3. f = Body(f)
  <2>1. ASSUME NEW k \in 1..Len(packets)
        PROVE  f[k] = Relay(f[k - 1], src, packets[k])
    <3>1. f[k - 1] \in Phones
      BY <1>0
    <3>2. Turn[<<f[k - 1], k>>] = Relay(f[k - 1], src, packets[k])
      BY <3>1
    <3> QED BY <1>2, <3>2
  <2> HIDE DEF Turn
  <2>2. ASSUME NEW k \in 0..Len(packets)
        PROVE  f[k] = IF k = 0 THEN h ELSE Relay(f[k - 1], src, packets[k])
    BY <1>2, <2>1, <1>0
  <2>3. f = [k \in 0..Len(packets) |-> f[k]]
    OBVIOUS
  <2> QED BY <2>2, <2>3, Zenon
<1>4. after = Body(after)
  <2> HIDE DEF Body
  <2> QED BY <1>3
<1>5. FromPhone(h, src, packets) = after[Len(packets)]
  BY DEF FromPhone
<1> HIDE DEF after
<1>6. /\ after[0] = h
      /\ \A k \in 1..Len(packets) : after[k] = Relay(after[k - 1], src, packets[k])
  <2>1. /\ 0 \in 0..Len(packets)
        /\ \A k \in 1..Len(packets) : k \in 0..Len(packets) /\ k # 0
    BY <1>0
  <2>2. \A k \in 0..Len(packets) : after[k] =
          IF k = 0 THEN h ELSE Relay(after[k - 1], src, packets[k])
    BY <1>4
  <2> QED BY <2>1, <2>2
<1> QED BY <1>5, <1>6

\* The loop over the packets of a phone: after it all phones hold those that may be
\* handed on.
LEMMA FromPhoneKeepsMid ==
  ASSUME NEW h0 \in Phones, NEW h, Mid(h0, h), NEW src \in Devices
  PROVE  LET g == FromPhone(h, src, h0[src]) IN
         Mid(h0, g) /\ Extends(h, g) /\ Given(h0, g, src, Len(h0[src]))
<1> DEFINE packets == h0[src]
           N == Len(packets)
<1>1. /\ h \in Phones /\ Extends(h, h) /\ packets \in Seq(Copy)
      /\ N \in Nat /\ DOMAIN packets = 1..N
  BY DEF Mid, Phones, Extends
<1>2. PICK after :
        /\ after[0] = h /\ FromPhone(h, src, packets) = after[N]
        /\ \A k \in 1..N : after[k] = Relay(after[k - 1], src, packets[k])
  <2> HIDE DEF packets
  <2> QED BY <1>1, FromPhoneRuns
<1> DEFINE Kept(k) == /\ Mid(h0, after[k]) /\ Extends(h, after[k])
                      /\ Given(h0, after[k], src, k)
           T == {k \in 0..N : Kept(k)}
<1>3. 0 \in T
  BY <1>1, <1>2 DEF Given
<1>4. ASSUME NEW k \in 0..(N - 1), k \in T
      PROVE  k + 1 \in T
  <2>1. k + 1 \in 1..N /\ (k + 1) - 1 = k /\ k \in 0..N /\ Kept(k)
    BY <1>1, <1>4
  <2>2. after[k + 1] = Relay(after[k], src, packets[k + 1])
    BY <1>2, <2>1
  <2>3. CASE MayForward(packets[k + 1])
    <3>1. after[k + 1] = ToPeers(after[k], src, h0[src][k + 1])
      BY <2>2, <2>3 DEF Relay
    <3>2. /\ Mid(h0, after[k + 1]) /\ Extends(after[k], after[k + 1])
          /\ AllHold(after[k + 1], h0[src][k + 1].packetId)
      BY <1>1, <2>1, <2>3, <3>1, ToPeersKeepsMid
    <3>3. Given(h0, after[k + 1], src, k)
      BY <2>1, <3>2, ExtendsKeepsGiven
    <3>4. Given(h0, after[k + 1], src, k + 1)
      BY <2>1, <3>2, <3>3 DEF Given
    <3> QED BY <2>1, <3>2, <3>4, ExtendsIsTransitive
  <2>4. CASE ~MayForward(packets[k + 1])
    <3>1. after[k + 1] = after[k]
      BY <2>2, <2>4 DEF Relay
    <3>2. Given(h0, after[k + 1], src, k + 1)
      BY <2>1, <2>4, <3>1 DEF Given
    <3> QED BY <2>1, <3>1, <3>2
  <2> QED BY <2>3, <2>4
<1>5. Kept(N)
  <2>1. 0..N \subseteq T
    <3> HIDE DEF T, N
    <3> QED BY <1>1, <1>3, <1>4, UpTo
  <2> HIDE DEF Kept
  <2> QED BY <1>1, <2>1
<1> QED BY <1>2, <1>5

LEMMA FromPhoneTypes ==
  ASSUME NEW h \in Phones, NEW src \in Devices, NEW packets \in Seq(Copy)
  PROVE  FromPhone(h, src, packets) \in Phones
<1> DEFINE N == Len(packets)
<1>1. PICK after :
        /\ after[0] = h /\ FromPhone(h, src, packets) = after[N]
        /\ \A k \in 1..N : after[k] = Relay(after[k - 1], src, packets[k])
  BY FromPhoneRuns
<1>2. N \in Nat /\ \A k \in 1..N : packets[k] \in Copy
  OBVIOUS
<1> HIDE DEF N
<1> DEFINE T == {k \in 0..N : after[k] \in Phones}
<1>3. 0 \in T
  BY <1>1, <1>2
<1>4. ASSUME NEW k \in 0..(N - 1), k \in T
      PROVE  k + 1 \in T
  <2>1. k + 1 \in 1..N /\ (k + 1) - 1 = k /\ after[k] \in Phones
    BY <1>2, <1>4
  <2>2. after[k + 1] = Relay(after[k], src, packets[k + 1])
    BY <1>1, <2>1
  <2> QED BY <1>2, <2>1, <2>2, RelayTypes
<1>5. 0..N \subseteq T
  <2> HIDE DEF T
  <2> QED BY <1>2, <1>3, <1>4, UpTo
<1> QED BY <1>1, <1>2, <1>5

-----------------------------------------------------------------------------

\* The turns of the loop over the phones.
LEMMA GossipRoundRuns ==
  ASSUME NEW h \in Phones
  PROVE  \E after :
           /\ after[0] = h /\ GossipRound(h) = after[DeviceCount]
           /\ \A k \in 1..DeviceCount :
                after[k] = FromPhone(after[k - 1], DeviceOrder[k], h[DeviceOrder[k]])
<1> DEFINE Turn == [vk \in Phones \X (1..DeviceCount) |->
                      FromPhone(vk[1], DeviceOrder[vk[2]], h[DeviceOrder[vk[2]]])]
           Body(g) == [k \in 0..DeviceCount |->
                         IF k = 0 THEN h ELSE FromPhone(g[k - 1], DeviceOrder[k], h[DeviceOrder[k]])]
           after == CHOOSE g : g = Body(g)
<1>1. Turn \in [Phones \X (1..DeviceCount) -> Phones]
  <2> SUFFICES ASSUME NEW v \in Phones, NEW k \in 1..DeviceCount
               PROVE  FromPhone(v, DeviceOrder[k], h[DeviceOrder[k]]) \in Phones
    OBVIOUS
  <2> QED BY DeviceOrderFacts, FromPhoneTypes DEF Phones
<1>2. PICK f \in [0..DeviceCount -> Phones] :
        f[0] = h /\ \A k \in 1..DeviceCount : f[k] = Turn[<<f[k - 1], k>>]
  <2> HIDE DEF Turn
  <2>1. LoopsOf(DeviceCount, Phones, h, Turn) # {}
    BY DeviceOrderFacts, <1>1, LoopRuns
  <2> QED BY <2>1 DEF LoopsOf
<1>3. f = Body(f)
  <2>1. ASSUME NEW k \in 1..DeviceCount
        PROVE  f[k] = FromPhone(f[k - 1], DeviceOrder[k], h[DeviceOrder[k]])
    <3>1. f[k - 1] \in Phones
      BY DeviceOrderFacts
    <3>2. Turn[<<f[k - 1], k>>] = FromPhone(f[k - 1], DeviceOrder[k], h[DeviceOrder[k]])
      BY <3>1
    <3> QED BY <1>2, <3>2
  <2> HIDE DEF Turn
  <2>2. ASSUME NEW k \in 0..DeviceCount
        PROVE  f[k] = IF k = 0 THEN h ELSE FromPhone(f[k - 1], DeviceOrder[k], h[DeviceOrder[k]])
    BY <1>2, <2>1, DeviceOrderFacts
  <2>3. f = [k \in 0..DeviceCount |-> f[k]]
    OBVIOUS
  <2> QED BY <2>2, <2>3, Zenon
<1>4. after = Body(after)
  <2> HIDE DEF Body
  <2> QED BY <1>3
<1>5. GossipRound(h) = after[DeviceCount]
  BY DEF GossipRound, DeviceCount
<1> HIDE DEF after
<1>6. /\ after[0] = h
      /\ \A k \in 1..DeviceCount : after[k] = FromPhone(after[k - 1], DeviceOrder[k], h[DeviceOrder[k]])
  <2>1. /\ 0 \in 0..DeviceCount
        /\ \A k \in 1..DeviceCount : k \in 0..DeviceCount /\ k # 0
    BY DeviceOrderFacts
  <2>2. \A k \in 0..DeviceCount : after[k] =
          IF k = 0 THEN h ELSE FromPhone(after[k - 1], DeviceOrder[k], h[DeviceOrder[k]])
    BY <1>4
  <2> QED BY <2>1, <2>2
<1> QED BY <1>5, <1>6

\* A round leaves all phones with all that any of them may hand on.
LEMMA RoundSpreads ==
  ASSUME NEW h0 \in Phones, OneCopyEach(h0)
  PROVE  LET g == GossipRound(h0) IN
         Mid(h0, g) /\ \A d \in Devices : Given(h0, g, d, Len(h0[d]))
<1>1. PICK after :
        /\ after[0] = h0 /\ GossipRound(h0) = after[DeviceCount]
        /\ \A k \in 1..DeviceCount :
             after[k] = FromPhone(after[k - 1], DeviceOrder[k], h0[DeviceOrder[k]])
  BY GossipRoundRuns
<1> DEFINE Done(k, m) == Given(h0, after[k], DeviceOrder[m], Len(h0[DeviceOrder[m]]))
           Kept(k) == Mid(h0, after[k]) /\ \A m \in 1..k : Done(k, m)
           T == {k \in 0..DeviceCount : Kept(k)}
<1>2. 0 \in T
  BY <1>1, DeviceOrderFacts DEF Mid, Extends
<1>3. ASSUME NEW k \in 0..(DeviceCount - 1), k \in T
      PROVE  k + 1 \in T
  <2>1. k + 1 \in 1..DeviceCount /\ (k + 1) - 1 = k /\ Kept(k)
    BY <1>3, DeviceOrderFacts
  <2>2. after[k + 1] = FromPhone(after[k], DeviceOrder[k + 1], h0[DeviceOrder[k + 1]])
    BY <1>1, <2>1
  <2>3. Mid(h0, after[k + 1]) /\ Extends(after[k], after[k + 1]) /\ Done(k + 1, k + 1)
    BY <2>1, <2>2, FromPhoneKeepsMid, DeviceOrderFacts
  <2>4. \A m \in 1..k : Done(k + 1, m)
    BY <2>1, <2>3, ExtendsKeepsGiven
  <2>5. \A m \in 1..(k + 1) : m \in 1..k \/ m = k + 1
    BY <2>1
  <2> HIDE DEF Done
  <2> QED BY <2>1, <2>3, <2>4, <2>5
<1>4. Kept(DeviceCount)
  <2>1. 0..DeviceCount \subseteq T
    <3> HIDE DEF T
    <3> QED BY <1>2, <1>3, UpTo, DeviceOrderFacts
  <2> HIDE DEF Kept
  <2> QED BY <2>1, DeviceOrderFacts
<1> QED BY <1>1, <1>4, DeviceOrderFacts

-----------------------------------------------------------------------------

LEMMA HeldFacts ==
  ASSUME MeshTypeOK
  PROVE  /\ held \in Phones
         /\ \A d \in Devices :
              held[d] \in Seq(Copy) /\ Len(held[d]) \in Nat /\ DOMAIN held[d] = 1..Len(held[d])
BY DEF MeshTypeOK, Phones

LEMMA RoundFacts ==
  ASSUME MeshInv, GossipOnce
  PROVE  /\ held' \in Phones /\ OneCopyEach(held') /\ Extends(held, held')
         /\ \A d \in Devices : Given(held, held', d, Len(held[d]))
         /\ \A e \in Devices : \A k \in DOMAIN held'[e] :
              k \in DOMAIN held[e] \/ FreshCopy(held, held', e, k)
<1>1. held \in Phones /\ OneCopyEach(held) /\ held' = GossipRound(held)
  BY HeldFacts DEF MeshInv, GossipOnce
<1>2. Mid(held, held') /\ \A d \in Devices : Given(held, held', d, Len(held[d]))
  BY <1>1, RoundSpreads
<1> QED BY <1>2 DEF Mid

\* Only the phone a packet was created on hands it on.
LEMMA FreshCopyOfCreator ==
  ASSUME MeshInv, GossipOnce,
         NEW e \in Devices, NEW k \in DOMAIN held'[e], k \notin DOMAIN held[e]
  PROVE  \E d \in Devices : \E y \in DOMAIN held[d] :
           /\ d # e /\ MayForward(held[d][y]) /\ held'[e][k] = HandedOn(held[d][y])
           /\ held[d][y].hops = 0 /\ Holders(held[d][y].packetId) = {d}
           /\ \A x \in 1..(y - 1) : MayForward(held[d][x]) =>
                \E m \in 1..(k - 1) : held'[e][m].packetId = held[d][x].packetId
<1> DEFINE Origin(d, y) ==
        /\ d # e /\ MayForward(held[d][y]) /\ held'[e][k] = HandedOn(held[d][y])
        /\ \A x \in 1..(y - 1) : MayForward(held[d][x]) =>
             \E m \in 1..(k - 1) : held'[e][m].packetId = held[d][x].packetId
<1>0. PICK d \in Devices : \E y \in DOMAIN held[d] : Origin(d, y)
  BY RoundFacts DEF FreshCopy
<1>1. PICK y \in DOMAIN held[d] : Origin(d, y)
  BY <1>0
<1> DEFINE pkt == held[d][y]
<1>2. pkt \in Copy /\ HandedOn(pkt).packetId = pkt.packetId
  BY HeldFacts, HandedOnCopy DEF MeshInv
<1>3. e \notin Holders(pkt.packetId)
  <2> SUFFICES ASSUME NEW m \in DOMAIN held[e], held[e][m].packetId = pkt.packetId
               PROVE  FALSE
    BY DEF Holders, Holds
  <2>1. m \in DOMAIN held'[e] /\ held'[e][m] = held[e][m]
    BY RoundFacts DEF Extends
  <2> QED BY <1>1, <1>2, <2>1, RoundFacts DEF OneCopyEach
<1>4. d \in Holders(pkt.packetId)
  BY DEF Holders, Holds
<1>5. Holders(pkt.packetId) = {d}
  <2>1. pkt.packetId \in Packets
    BY <1>2 DEF Copy
  <2> HIDE DEF pkt
  <2> QED BY <1>3, <1>4, <2>1 DEF MeshInv, OneHopMesh
<1>6. pkt.hops = 0
  <2>1. pkt.hops \in Nat /\ ~(pkt.hops > 0)
    BY <1>2, <1>3 DEF MeshInv, CopyTellsHolders, Copy
  <2> QED BY <2>1
<1> QED BY <1>1, <1>5, <1>6

\* Where a packet is after a round.
LEMMA RoundHolders ==
  ASSUME MeshInv, GossipOnce
  PROVE  /\ \A id : Holders(id) \subseteq Holders(id)'
         /\ \A id : Holders(id)' = Holders(id) \/ Holders(id)' = Devices
         /\ \A d \in Devices : \A i \in DOMAIN held[d] :
              \A id : held[d][i].packetId = id =>
                /\ MayForward(held[d][i]) => Holders(id)' = Devices
                /\ ~MayForward(held[d][i]) => Holders(id)' = Holders(id)
<1>1. ASSUME NEW id PROVE Holders(id) \subseteq Holders(id)'
  BY RoundFacts, ExtendsKeepsHolds DEF Holders
<1>2. ASSUME NEW d \in Devices, NEW i \in DOMAIN held[d], MayForward(held[d][i]),
             NEW id, held[d][i].packetId = id
      PROVE  Holders(id)' = Devices
  <2>1. i \in 1..Len(held[d])
    BY HeldFacts DEF MeshInv
  <2>2. AllHold(held', id)
    BY <1>2, <2>1, RoundFacts DEF Given
  <2> QED BY <2>2 DEF AllHold, Holders
<1>3. ASSUME NEW id, NEW e \in Holders(id)', e \notin Holders(id)
      PROVE  \E d \in Devices : \E y \in DOMAIN held[d] :
               /\ held[d][y].packetId = id /\ MayForward(held[d][y]) /\ Holders(id) = {d}
  <2>1. PICK k \in DOMAIN held'[e] : held'[e][k].packetId = id
    BY <1>3 DEF Holders, Holds
  <2>2. e \in Devices /\ k \notin DOMAIN held[e]
    BY <1>3, <2>1, RoundFacts DEF Holders, Holds, Extends
  <2> DEFINE Origin(d, y) ==
          /\ MayForward(held[d][y]) /\ held'[e][k] = HandedOn(held[d][y])
          /\ Holders(held[d][y].packetId) = {d}
  <2>3. PICK d \in Devices : \E y \in DOMAIN held[d] : Origin(d, y)
    BY <2>1, <2>2, FreshCopyOfCreator
  <2>4. PICK y \in DOMAIN held[d] : Origin(d, y)
    BY <2>3
  <2>5. held[d][y].packetId = id
    BY <2>1, <2>4, HeldFacts, HandedOnCopy DEF MeshInv
  <2> QED BY <2>4, <2>5
<1>4. ASSUME NEW id PROVE Holders(id)' = Holders(id) \/ Holders(id)' = Devices
  <2>1. CASE Holders(id)' \subseteq Holders(id)
    BY <1>1, <2>1
  <2>2. CASE ~(Holders(id)' \subseteq Holders(id))
    BY <1>2, <1>3, <2>2
  <2> QED BY <2>1, <2>2
<1>5. ASSUME NEW d \in Devices, NEW i \in DOMAIN held[d], ~MayForward(held[d][i]),
             NEW id, held[d][i].packetId = id
      PROVE  Holders(id)' = Holders(id)
  <2>1. SUFFICES ASSUME NEW e \in Holders(id)', e \notin Holders(id) PROVE FALSE
    BY <1>1
  <2>2. PICK d2 \in Devices : \E y \in DOMAIN held[d2] :
          held[d2][y].packetId = id /\ MayForward(held[d2][y]) /\ Holders(id) = {d2}
    BY <1>3, <2>1
  <2>3. d \in Holders(id)
    BY <1>5 DEF Holders, Holds
  <2> QED BY <1>5, <2>2, <2>3 DEF MeshInv, OneCopyEach
<1> QED BY <1>1, <1>2, <1>4, <1>5

\* A round of gossip keeps the inductive invariant.
LEMMA RoundKeepsMeshInv ==
  ASSUME MeshInv, GossipOnce
  PROVE  MeshInv'
<1> USE DEF MeshInv
<1>0. /\ MeshTypeOK /\ OneCopyEach(held) /\ UNCHANGED created
      /\ held' \in Phones /\ OneCopyEach(held') /\ Extends(held, held')
      /\ \A d \in Devices : DOMAIN held'[d] = 1..Len(held'[d]) /\ Len(held'[d]) \in Nat
  BY RoundFacts DEF GossipOnce, Phones
<1>1. \A d \in Devices : \A i \in DOMAIN held[d] :
        held[d][i] \in Copy /\ i \in DOMAIN held'[d] /\ held'[d][i] = held[d][i]
  BY <1>0, HeldFacts DEF Extends
\* What a copy that is new has to do with the phone it comes from.
<1>2. ASSUME NEW e \in Devices, NEW k \in DOMAIN held'[e], k \notin DOMAIN held[e]
      PROVE  \E d \in Devices : \E y \in DOMAIN held[d] :
               /\ d # e /\ MayForward(held[d][y])
               /\ held'[e][k].packetId = held[d][y].packetId /\ held'[e][k].hops = 1
               /\ held[d][y].hops = 0 /\ Holders(held[d][y].packetId) = {d}
               /\ \A x \in 1..(y - 1) : MayForward(held[d][x]) =>
                    \E m \in 1..(k - 1) : held'[e][m].packetId = held[d][x].packetId
  <2> DEFINE Origin(d, y) ==
               /\ d # e /\ MayForward(held[d][y]) /\ held'[e][k] = HandedOn(held[d][y])
               /\ held[d][y].hops = 0 /\ Holders(held[d][y].packetId) = {d}
               /\ \A x \in 1..(y - 1) : MayForward(held[d][x]) =>
                    \E m \in 1..(k - 1) : held'[e][m].packetId = held[d][x].packetId
  <2>1. PICK d \in Devices : \E y \in DOMAIN held[d] : Origin(d, y)
    BY <1>2, FreshCopyOfCreator
  <2>2. PICK y \in DOMAIN held[d] : Origin(d, y)
    BY <2>1
  <2>3. held'[e][k].packetId = held[d][y].packetId /\ held'[e][k].hops = 0 + 1
    BY <1>1, <2>2, HandedOnCopy
  <2> QED BY <2>2, <2>3
\* So what was created on a phone is what it held before.
<1>3. \A d \in Devices : \A i \in DOMAIN held'[d] : held'[d][i].hops = 0 => i \in DOMAIN held[d]
  BY <1>2
<1>4. MeshTypeOK'
  <2>1. held' \in [Devices -> Seq(Copy)] /\ created' \subseteq Packets
    BY <1>0 DEF Phones, MeshTypeOK
  <2>2. ASSUME NEW d \in Devices, NEW i \in DOMAIN held'[d]
        PROVE  held'[d][i].packetId \in created
    BY <1>0, <1>1, <1>2 DEF MeshTypeOK
  <2> QED BY <1>0, <2>1, <2>2 DEF MeshTypeOK
<1>5. OneHopMesh'
  <2>1. \A id \in Packets : Holders(id)' \in {{}, Devices} \cup {{d} : d \in Devices}
    BY RoundHolders DEF OneHopMesh
  <2>2. ASSUME NEW d \in Devices, NEW i \in DOMAIN held'[d]
        PROVE  held'[d][i].hops <= 1
    <3>1. CASE i \in DOMAIN held[d]
      <4>1. held[d][i].packetId \in Packets /\ held[d][i].hops <= 1
        BY <1>1, <3>1 DEF OneHopMesh, Copy, MeshTypeOK
      <4> QED BY <1>1, <3>1, <4>1
    <3>2. CASE i \notin DOMAIN held[d]
      BY <1>2, <3>2
    <3> QED BY <3>1, <3>2
  <2> QED BY <2>1, <2>2 DEF OneHopMesh
<1>6. CopyTellsHolders'
  <2> SUFFICES ASSUME NEW d \in Devices, NEW i \in DOMAIN held'[d],
                      NEW id, id = held'[d][i].packetId
               PROVE  /\ held'[d][i].hops > 0 => Holders(id)' = Devices
                      /\ held'[d][i].hops = 0 /\ ~MayForward(held'[d][i]) => Holders(id)' = {d}
    BY DEF CopyTellsHolders
  <2>1. CASE i \in DOMAIN held[d]
    <3>1. /\ held[d][i].hops > 0 => Holders(id) = Devices
          /\ held[d][i].hops = 0 /\ ~MayForward(held[d][i]) => Holders(id) = {d}
      BY <1>1, <2>1 DEF CopyTellsHolders
    <3>2. Holders(id) = Devices => Holders(id)' = Devices
      BY RoundHolders
    <3>3. ~MayForward(held[d][i]) => Holders(id)' = Holders(id)
      BY <1>1, <2>1, RoundHolders
    <3> QED BY <1>1, <2>1, <3>1, <3>2, <3>3
  <2>2. CASE i \notin DOMAIN held[d]
    <3>1. PICK c \in Devices : \E y \in DOMAIN held[c] :
            MayForward(held[c][y]) /\ held[c][y].packetId = id /\ held'[d][i].hops = 1
      BY <1>2, <2>2
    <3>2. Holders(id)' = Devices
      BY <3>1, RoundHolders
    <3> QED BY <3>1, <3>2
  <2> QED BY <2>1, <2>2
<1>7. EarlierIsWithAll'
  <2> SUFFICES ASSUME NEW d \in Devices, NEW i \in DOMAIN held'[d], held'[d][i].hops = 0,
                      MayForward(held'[d][i]), NEW id, id = held'[d][i].packetId
               PROVE  Holders(id)' = Devices
    BY DEF EarlierIsWithAll
  <2> QED BY <1>1, <1>3, RoundHolders
<1>8. SendersOrderKept'
  <2> SUFFICES ASSUME NEW d \in Devices, NEW e \in Devices,
                      NEW i \in DOMAIN held'[d], NEW j \in DOMAIN held'[d], i < j,
                      held'[d][i].hops = 0, held'[d][j].hops = 0,
                      NEW k \in DOMAIN held'[e], NEW l \in DOMAIN held'[e],
                      held'[e][k].packetId = held'[d][i].packetId,
                      held'[e][l].packetId = held'[d][j].packetId
               PROVE  k < l
    BY DEF SendersOrderKept
  <2>0. PICK a, b : a = held[d][i].packetId /\ b = held[d][j].packetId
    OBVIOUS
  <2>1. /\ i \in DOMAIN held[d] /\ j \in DOMAIN held[d]
        /\ held'[d][i] = held[d][i] /\ held'[d][j] = held[d][j]
        /\ held[d][i].hops = 0 /\ held[d][j].hops = 0
        /\ held'[e][k].packetId = a /\ held'[e][l].packetId = b
    BY <1>1, <1>3, <2>0
  <2>2. d \in Holders(a) /\ d \in Holders(b)
    BY <2>0, <2>1 DEF Holders, Holds
  <2>3. a \in Packets /\ b \in Packets /\ i \in Nat /\ j \in Nat /\ k \in Nat /\ l \in Nat
    BY <1>0, <1>1, <2>0, <2>1 DEF Copy
  <2>4. CASE e = d
    BY <1>0, <2>0, <2>1, <2>4 DEF OneCopyEach
  <2>5. CASE e # d /\ l \in DOMAIN held[e]
    <3>1. e \in Holders(b)
      BY <1>1, <2>1, <2>5 DEF Holders, Holds
    <3>2. Holders(b) = Devices
      BY <2>2, <2>3, <2>5, <3>1 DEF OneHopMesh
    <3>3. e \in Holders(a)
      <4>1. CASE MayForward(held[d][i])
        BY <2>1, <3>2, <4>1, <2>0 DEF EarlierIsWithAll
      <4>2. CASE ~MayForward(held[d][i])
        <5>1. Holders(a)' = {d}
          BY <2>1, <4>2, RoundHolders, <2>0 DEF CopyTellsHolders
        <5>2. e \in Holders(a)'
          BY <2>1 DEF Holders, Holds
        <5> QED BY <2>5, <5>1, <5>2
      <4> QED BY <4>1, <4>2
    <3>4. k \in DOMAIN held[e]
      BY <1>0, <1>1, <2>1, <3>3 DEF Holders, Holds, OneCopyEach
    <3> QED BY <1>1, <2>1, <2>5, <3>4, <2>0 DEF SendersOrderKept
  <2>6. CASE e # d /\ l \notin DOMAIN held[e]
    <3> DEFINE Origin(c, y) ==
                 /\ MayForward(held[c][y]) /\ held[c][y].packetId = b /\ Holders(b) = {c}
                 /\ \A x \in 1..(y - 1) : MayForward(held[c][x]) =>
                      \E m \in 1..(l - 1) : held'[e][m].packetId = held[c][x].packetId
    <3>0. held'[e][l].packetId = b
      BY <2>1
    <3>1. PICK c \in Devices : \E y \in DOMAIN held[c] : Origin(c, y)
      <4>1. PICK c \in Devices : \E y \in DOMAIN held[c] :
              /\ MayForward(held[c][y])
              /\ held'[e][l].packetId = held[c][y].packetId
              /\ Holders(held[c][y].packetId) = {c}
              /\ \A x \in 1..(y - 1) : MayForward(held[c][x]) =>
                   \E m \in 1..(l - 1) : held'[e][m].packetId = held[c][x].packetId
        BY <1>2, <2>6
      <4>2. \A y \in DOMAIN held[c] : held'[e][l].packetId = held[c][y].packetId =>
              held[c][y].packetId = b
        BY <3>0
      <4> QED BY <4>1, <4>2
    <3>2. PICK y \in DOMAIN held[c] : Origin(c, y)
      BY <3>1
    <3>3. c = d /\ y = j
      BY <1>0, <2>0, <2>1, <2>2, <3>2 DEF OneCopyEach
    <3>4. MayForward(held[d][i])
      <4> SUFFICES ASSUME ~MayForward(held[d][i]) PROVE FALSE
        OBVIOUS
      <4>1. Holders(a)' = {d}
        BY <2>0, <2>1, RoundHolders DEF CopyTellsHolders
      <4>2. e \in Holders(a)'
        BY <2>1 DEF Holders, Holds
      <4> QED BY <2>6, <4>1, <4>2
    <3>5. PICK m \in 1..(l - 1) : held'[e][m].packetId = a
      <4>1. i \in 1..(j - 1)
        BY <1>0, <2>1, <2>3
      <4> QED BY <3>2, <3>3, <3>4, <4>1, <2>0
    <3>6. m = k
      BY <1>0, <2>1, <2>3, <3>5 DEF OneCopyEach
    <3> QED BY <2>3, <3>5, <3>6
  <2> QED BY <2>4, <2>5, <2>6
<1> QED BY <1>0, <1>4, <1>5, <1>6, <1>7, <1>8

\* A new packet is on one phone, as its newest.
LEMMA InjectKeepsMeshInv ==
  ASSUME MeshInv, NEW d0 \in Devices, NEW id0 \in Packets, NEW ttl \in Ttls,
         Inject(d0, id0, ttl)
  PROVE  MeshInv'
<1> DEFINE pkt == [packetId |-> id0, ttl |-> ttl, hops |-> 0]
<1>1. /\ MeshTypeOK /\ held \in Phones /\ pkt \in Copy
      /\ created' = created \cup {id0} /\ id0 \notin created
      /\ pkt.packetId = id0 /\ pkt.hops = 0
  BY HeldFacts, MeshConstants DEF MeshInv, Inject, Copy
<1>2. held' = Hold(held, d0, pkt)
  BY DEF Inject
<1> HIDE DEF pkt
<1>3. /\ held' \in Phones /\ Extends(held, held') /\ Holds(held', d0, id0)
      /\ \A e \in Devices : \A k \in DOMAIN held'[e] :
           k \in DOMAIN held[e] \/ (e = d0 /\ k = Len(held[d0]) + 1 /\ held'[e][k] = pkt)
  BY <1>1, <1>2, HoldAdds
<1>4. \A d \in Devices : \A i \in DOMAIN held[d] :
        /\ i \in 1..Len(held[d]) /\ held[d][i].packetId \in created
        /\ i \in DOMAIN held'[d] /\ held'[d][i] = held[d][i]
  BY <1>1, <1>3, HeldFacts DEF Extends, MeshTypeOK
<1>5. \A d \in Devices : \A k \in DOMAIN held'[d] :
        IF held'[d][k].packetId = id0 THEN d = d0 /\ k = Len(held[d0]) + 1 /\ held'[d][k] = pkt
        ELSE k \in DOMAIN held[d] /\ held'[d][k] = held[d][k]
  BY <1>1, <1>3, <1>4
<1>6. Holders(id0)' = {d0}
  BY <1>3, <1>5 DEF Holders, Holds
<1>7. ASSUME NEW id, id # id0 PROVE Holders(id)' = Holders(id)
  BY <1>4, <1>5, <1>7 DEF Holders, Holds
<1>8. MeshTypeOK'
  BY <1>1, <1>3, <1>4, <1>5 DEF MeshTypeOK, Phones
<1>9. OneHopMesh'
  <2>1. \A id \in Packets : Holders(id)' \in {{}, Devices} \cup {{d} : d \in Devices}
    BY <1>6, <1>7 DEF MeshInv, OneHopMesh
  <2>2. \A d \in Devices : \A i \in DOMAIN held'[d] : held'[d][i].hops <= 1
    BY <1>1, <1>5 DEF MeshInv, OneHopMesh
  <2> QED BY <2>1, <2>2 DEF OneHopMesh
<1>10. OneCopyEach(held')
  BY <1>5 DEF MeshInv, OneCopyEach
<1>11. CopyTellsHolders'
  <2> SUFFICES ASSUME NEW d \in Devices, NEW i \in DOMAIN held'[d],
                      NEW id, id = held'[d][i].packetId
               PROVE  /\ held'[d][i].hops > 0 => Holders(id)' = Devices
                      /\ held'[d][i].hops = 0 /\ ~MayForward(held'[d][i]) => Holders(id)' = {d}
    BY DEF CopyTellsHolders
  <2>1. CASE id = id0
    <3>1. held'[d][i].packetId = id0
      BY <2>1
    <3>2. d = d0 /\ held'[d][i] = pkt
      BY <1>5, <3>1
    <3>3. held'[d][i].hops = 0
      BY <1>1, <3>2
    <3>4. Holders(id)' = {d}
      BY <1>6, <2>1, <3>2
    <3> QED BY <3>3, <3>4
  <2>2. CASE id # id0
    BY <1>5, <1>7, <2>2 DEF MeshInv, CopyTellsHolders
  <2> QED BY <2>1, <2>2
<1>12. EarlierIsWithAll'
  <2> SUFFICES ASSUME NEW d \in Devices, NEW i \in DOMAIN held'[d], NEW j \in DOMAIN held'[d],
                      i < j, held'[d][i].hops = 0, held'[d][j].hops = 0,
                      MayForward(held'[d][i]),
                      NEW a, a = held'[d][i].packetId, NEW b, b = held'[d][j].packetId,
                      Holders(b)' = Devices
               PROVE  Holders(a)' = Devices
    BY DEF EarlierIsWithAll
  <2>1. d \in Holders(a)'
    BY DEF Holders, Holds
  <2>2. CASE b = id0
    BY <1>6, <2>1, <2>2 DEF Holders
  <2>3. CASE b # id0
    <3>1. a # id0
      <4>1. i \in 1..Len(held'[d]) /\ Len(held[d]) \in Nat
        BY <1>1, <1>3, HeldFacts DEF Phones
      <4>2. j \in 1..Len(held[d])
        BY <1>4, <1>5, <2>3
      <4> QED BY <1>5, <4>1, <4>2
    <3>2. /\ i \in DOMAIN held[d] /\ held'[d][i] = held[d][i]
          /\ j \in DOMAIN held[d] /\ held'[d][j] = held[d][j]
      BY <1>5, <2>3, <3>1
    <3> QED BY <1>7, <2>3, <3>1, <3>2 DEF MeshInv, EarlierIsWithAll
  <2> QED BY <2>2, <2>3
<1>13. SendersOrderKept'
  <2> SUFFICES ASSUME NEW d \in Devices, NEW e \in Devices,
                      NEW i \in DOMAIN held'[d], NEW j \in DOMAIN held'[d], i < j,
                      held'[d][i].hops = 0, held'[d][j].hops = 0,
                      NEW k \in DOMAIN held'[e], NEW l \in DOMAIN held'[e],
                      held'[e][k].packetId = held'[d][i].packetId,
                      held'[e][l].packetId = held'[d][j].packetId
               PROVE  k < l
    BY DEF SendersOrderKept
  <2>1. CASE e = d
    BY <1>10, <2>1 DEF OneCopyEach
  <2>2. CASE e # d
    <3>1. held'[d][i].packetId # id0 /\ held'[d][j].packetId # id0
      BY <1>5, <2>2
    <3> QED BY <1>5, <3>1 DEF MeshInv, SendersOrderKept
  <2> QED BY <2>1, <2>2
<1> QED BY <1>8, <1>9, <1>10, <1>11, <1>12, <1>13 DEF MeshInv

\* Empty phones are as good as any.
LEMMA EmptyMeshInv ==
  ASSUME held = [d \in Devices |-> <<>>], created \subseteq Packets
  PROVE  MeshInv
<1>1. \A d \in Devices : held[d] = <<>> /\ DOMAIN held[d] = {}
  OBVIOUS
<1>2. MeshTypeOK
  BY <1>1 DEF MeshTypeOK
<1>3. \A id : Holders(id) = {}
  BY <1>1 DEF Holders, Holds
<1>4. OneHopMesh
  BY <1>1, <1>3 DEF OneHopMesh
<1> QED BY <1>1, <1>2, <1>4 DEF MeshInv, SendersOrderKept, OneCopyEach, CopyTellsHolders,
     EarlierIsWithAll

LEMMA NextKeepsMeshInv == MeshInv /\ [MeshNext]_meshVars => MeshInv'
<1> SUFFICES ASSUME MeshInv, [MeshNext]_meshVars PROVE MeshInv'
  OBVIOUS
<1>1. CASE \E d \in Devices, id \in Packets, ttl \in Ttls : Inject(d, id, ttl)
  BY <1>1, InjectKeepsMeshInv
<1>2. CASE GossipOnce
  BY <1>2, RoundKeepsMeshInv
<1>3. CASE ResetMesh
  <2>1. (held = [d \in Devices |-> <<>>] /\ created \subseteq Packets)'
    BY <1>3 DEF ResetMesh, MeshInv, MeshTypeOK
  <2>2. (held = [d \in Devices |-> <<>>] /\ created \subseteq Packets => MeshInv)'
    BY EmptyMeshInv, PTL
  <2> QED BY <2>1, <2>2
<1>4. CASE UNCHANGED meshVars
  BY <1>4 DEF meshVars, MeshInv, MeshTypeOK, OneHopMesh, SendersOrderKept, CopyTellsHolders,
     EarlierIsWithAll, Holders
<1> QED BY <1>1, <1>2, <1>3, <1>4 DEF MeshNext

LEMMA InitMeshInv == MeshInit => MeshInv
BY EmptyMeshInv DEF MeshInit

-----------------------------------------------------------------------------

\* The phones stay type correct, and so do the sets of packets they may hold.
THEOREM MeshTypeCorrect == MeshSpec => []MeshTypeOK
<1>1. MeshInv => MeshTypeOK
  BY DEF MeshInv
<1> QED BY <1>1, InitMeshInv, NextKeepsMeshInv, PTL DEF MeshSpec

\* However the rounds of gossip fall between the payments and whatever the TTLs, for any
\* number of phones: a packet is on no phone, on one, or on all, and no copy is ever
\* handed on twice.
THEOREM MeshIsOneHopWide == MeshSpec => []OneHopMesh
<1>1. MeshInv => OneHopMesh
  BY DEF MeshInv
<1> QED BY <1>1, InitMeshInv, NextKeepsMeshInv, PTL DEF MeshSpec

\* Every phone holds what one phone sent in the order it was sent, so a flush uploads a
\* sender's payments in that order from every bridge.
THEOREM SendersOrderIsKept == MeshSpec => []SendersOrderKept
<1>1. MeshInv => SendersOrderKept
  BY DEF MeshInv
<1> QED BY <1>1, InitMeshInv, NextKeepsMeshInv, PTL DEF MeshSpec

\* All that the proofs of the mesh rest on holds of it always.
THEOREM MeshInvariant == MeshSpec => []MeshInv
BY InitMeshInv, NextKeepsMeshInv, PTL DEF MeshSpec

\* One round of gossip takes a packet to all phones if it may be handed on at all, a
\* TTL that is no number included, and leaves it where it is if not.
THEOREM OneRoundReachesAll == MeshSpec => RoundReachesAll
<1> DEFINE Reaches == \A id \in Packets, d \in Devices : \A i \in DOMAIN held[d] :
             held[d][i].packetId = id =>
               Holders(id)' = IF held[d][i].ttl = NaN \/ held[d][i].ttl > 0 THEN Devices
                              ELSE Holders(id)
<1>1. ASSUME MeshInv, GossipOnce PROVE Reaches
  BY <1>1, RoundHolders DEF MayForward
<1>2. MeshInv /\ [MeshNext]_meshVars => [GossipOnce => Reaches]_meshVars
  BY <1>1
<1> HIDE DEF Reaches
<1>3. MeshSpec => [][GossipOnce => Reaches]_meshVars
  BY <1>2, InitMeshInv, NextKeepsMeshInv, PTL DEF MeshSpec
<1> QED BY <1>3, PTL DEF RoundReachesAll, Reaches

\* No gossip and no later packet replaces, moves or doubles a copy a phone holds.
THEOREM FirstCopyStays == MeshSpec => FirstCopyIsKept
<1> DEFINE Stays == \A d \in Devices :
             /\ \A i \in DOMAIN held[d] : i \in DOMAIN held'[d] /\ held'[d][i] = held[d][i]
             /\ \A i, j \in DOMAIN held'[d] :
                  held'[d][i].packetId = held'[d][j].packetId => i = j
<1>1. ASSUME MeshInv, MeshNext, ~ResetMesh PROVE Stays
  <2>1. OneCopyEach(held')
    BY <1>1, NextKeepsMeshInv DEF MeshInv
  <2>2. Extends(held, held')
    <3>1. CASE GossipOnce
      BY <1>1, <3>1, RoundFacts
    <3>2. CASE \E d \in Devices, id \in Packets, ttl \in Ttls : Inject(d, id, ttl)
      <4>1. PICK d \in Devices, id \in Packets, ttl \in Ttls : Inject(d, id, ttl)
        BY <3>2
      <4> DEFINE pkt == [packetId |-> id, ttl |-> ttl, hops |-> 0]
      <4>2. held \in Phones /\ pkt \in Copy /\ held' = Hold(held, d, pkt)
        BY <1>1, <4>1, HeldFacts, MeshConstants DEF MeshInv, Inject, Copy
      <4> HIDE DEF pkt
      <4> QED BY <4>2, HoldAdds
    <3> QED BY <1>1, <3>1, <3>2 DEF MeshNext
  <2> QED BY <2>1, <2>2 DEF OneCopyEach, Extends
<1>2. MeshInv /\ [MeshNext]_meshVars => [~ResetMesh => Stays]_meshVars
  BY <1>1
<1> HIDE DEF Stays
<1>3. MeshSpec => [][~ResetMesh => Stays]_meshVars
  BY <1>2, InitMeshInv, NextKeepsMeshInv, PTL DEF MeshSpec
<1> QED BY <1>3, PTL DEF FirstCopyIsKept, Stays

-----------------------------------------------------------------------------

Upload == [bridgeNodeId : Devices, packet : Copy, hopCount : Int \cup {NaN}]

\* What the i-th turn of the loop over the phones adds to the uploads.
Adds(i) == IF DeviceOrder[i] \in Bridges THEN UploadsOf(DeviceOrder[i]) ELSE <<>>

LEMMA UploadsOfFacts ==
  ASSUME MeshTypeOK, NEW d \in Devices
  PROVE  /\ UploadsOf(d) \in Seq(Upload)
         /\ DOMAIN UploadsOf(d) = DOMAIN held[d] /\ Len(UploadsOf(d)) = Len(held[d])
         /\ \A j \in DOMAIN held[d] : /\ UploadsOf(d)[j].bridgeNodeId = d
                                      /\ UploadsOf(d)[j].packet = held[d][j]
<1>1. /\ held[d] \in Seq(Copy) /\ Len(held[d]) \in Nat
      /\ DOMAIN held[d] = 1..Len(held[d])
  BY HeldFacts
<1>2. \A pkt \in Copy : HopCount(pkt) \in Int \cup {NaN}
  BY DEF HopCount, Copy
<1> DEFINE up(j) == [bridgeNodeId |-> d, packet |-> held[d][j], hopCount |-> HopCount(held[d][j])]
<1>3. \A j \in DOMAIN held[d] :
        up(j) \in Upload /\ up(j).bridgeNodeId = d /\ up(j).packet = held[d][j]
  <2> HIDE DEF Copy
  <2>1. \A j \in DOMAIN held[d] : held[d][j] \in Copy
    BY <1>1
  <2> QED BY <1>2, <2>1 DEF Upload
<1>4. UploadsOf(d) = [j \in 1..Len(held[d]) |-> up(j)]
  BY <1>1 DEF UploadsOf
<1> HIDE DEF up
<1> QED BY <1>1, <1>3, <1>4

\* The turns of the loop of collectBridgeUploads().
LEMMA BridgeUploadsRuns ==
  ASSUME MeshTypeOK
  PROVE  \E after :
           /\ after[0] = <<>> /\ BridgeUploads = after[DeviceCount]
           /\ \A k \in 1..DeviceCount : after[k] = after[k - 1] \o Adds(k)
<1> DEFINE Turn == [vk \in Seq(Upload) \X (1..DeviceCount) |-> vk[1] \o Adds(vk[2])]
           Body(g) == [k \in 0..DeviceCount |-> IF k = 0 THEN <<>> ELSE g[k - 1] \o Adds(k)]
           after == CHOOSE g : g = Body(g)
<1>1. Turn \in [Seq(Upload) \X (1..DeviceCount) -> Seq(Upload)]
  <2>1. \A k \in 1..DeviceCount : Adds(k) \in Seq(Upload)
    BY DeviceOrderFacts, UploadsOfFacts DEF Adds
  <2> SUFFICES ASSUME NEW v \in Seq(Upload), NEW k \in 1..DeviceCount
               PROVE  v \o Adds(k) \in Seq(Upload)
    OBVIOUS
  <2> QED BY <2>1
<1>2. PICK f \in [0..DeviceCount -> Seq(Upload)] :
        f[0] = <<>> /\ \A k \in 1..DeviceCount : f[k] = Turn[<<f[k - 1], k>>]
  <2>1. <<>> \in Seq(Upload)
    OBVIOUS
  <2> HIDE DEF Turn
  <2>2. LoopsOf(DeviceCount, Seq(Upload), <<>>, Turn) # {}
    BY DeviceOrderFacts, <1>1, <2>1, LoopRuns
  <2> QED BY <2>2 DEF LoopsOf
<1>3. f = Body(f)
  <2>1. ASSUME NEW k \in 1..DeviceCount
        PROVE  f[k] = f[k - 1] \o Adds(k)
    <3>1. f[k - 1] \in Seq(Upload)
      BY DeviceOrderFacts
    <3>2. Turn[<<f[k - 1], k>>] = f[k - 1] \o Adds(k)
      BY <3>1
    <3> QED BY <1>2, <3>2
  <2> HIDE DEF Turn
  <2>2. ASSUME NEW k \in 0..DeviceCount
        PROVE  f[k] = IF k = 0 THEN <<>> ELSE f[k - 1] \o Adds(k)
    BY <1>2, <2>1, DeviceOrderFacts
  <2>3. f = [k \in 0..DeviceCount |-> f[k]]
    OBVIOUS
  <2> QED BY <2>2, <2>3, Zenon
<1>4. after = Body(after)
  <2> HIDE DEF Body
  <2> QED BY <1>3
<1>5. BridgeUploads = after[DeviceCount]
  BY DEF BridgeUploads, Adds, DeviceCount
<1> HIDE DEF after
<1>6. after[0] = <<>> /\ \A k \in 1..DeviceCount : after[k] = after[k - 1] \o Adds(k)
  <2>1. /\ 0 \in 0..DeviceCount
        /\ \A k \in 1..DeviceCount : k \in 0..DeviceCount /\ k # 0
    BY DeviceOrderFacts
  <2>2. \A k \in 0..DeviceCount : after[k] = IF k = 0 THEN <<>> ELSE after[k - 1] \o Adds(k)
    BY <1>4
  <2> QED BY <2>1, <2>2
<1> QED BY <1>5, <1>6

\* The uploads are of the phones of D, each copy of theirs once.
UploadsFrom(list, D) ==
  /\ list \in Seq(Upload)
  /\ \A n \in DOMAIN list :
       /\ list[n].bridgeNodeId \in D
       /\ \E j \in DOMAIN held[list[n].bridgeNodeId] :
            list[n].packet = held[list[n].bridgeNodeId][j]
  /\ \A d \in D : \A j \in DOMAIN held[d] :
       \E n \in DOMAIN list : list[n].bridgeNodeId = d /\ list[n].packet = held[d][j]
  /\ \A n1, n2 \in DOMAIN list :
       /\ list[n1].bridgeNodeId = list[n2].bridgeNodeId
       /\ list[n1].packet.packetId = list[n2].packet.packetId
       => n1 = n2

LEMMA OneMorePhone ==
  ASSUME MeshTypeOK, OneCopyEach(held), NEW D \in SUBSET Devices,
         NEW d \in Devices, d \notin D, NEW list, UploadsFrom(list, D)
  PROVE  UploadsFrom(list \o UploadsOf(d), D \cup {d})
<1> DEFINE more == UploadsOf(d)
           new == list \o more
<1>1. /\ more \in Seq(Upload)
      /\ DOMAIN held[d] = DOMAIN more
      /\ \A j \in DOMAIN more : more[j].bridgeNodeId = d /\ more[j].packet = held[d][j]
  BY UploadsOfFacts
<1> HIDE DEF more
<1>2. /\ list \in Seq(Upload) /\ new \in Seq(Upload)
      /\ DOMAIN list = 1..Len(list) /\ Len(list) \in Nat
      /\ DOMAIN more = 1..Len(more) /\ Len(more) \in Nat
      /\ DOMAIN new = 1..(Len(list) + Len(more))
      /\ \A n \in DOMAIN list : n \in DOMAIN new /\ new[n] = list[n]
      /\ \A j \in DOMAIN more : Len(list) + j \in DOMAIN new /\ new[Len(list) + j] = more[j]
  BY <1>1 DEF UploadsFrom
<1> HIDE DEF new
<1>3. \A n \in DOMAIN new : n \in DOMAIN list \/ \E j \in DOMAIN more : n = Len(list) + j
  <2> SUFFICES ASSUME NEW n \in DOMAIN new, n \notin DOMAIN list
               PROVE  n - Len(list) \in DOMAIN more /\ n = Len(list) + (n - Len(list))
    OBVIOUS
  <2> QED BY <1>2
\* An upload is one of list, or of the new phone.
<1>4. ASSUME NEW n \in DOMAIN new
      PROVE  \/ /\ n \in DOMAIN list /\ new[n] = list[n]
                /\ new[n].bridgeNodeId \in D /\ new[n].bridgeNodeId # d
             \/ /\ n \notin DOMAIN list /\ new[n].bridgeNodeId = d
                /\ \E j \in DOMAIN held[d] : n = Len(list) + j /\ new[n].packet = held[d][j]
  <2>1. CASE n \in DOMAIN list
    BY <1>2, <2>1 DEF UploadsFrom
  <2>2. CASE n \notin DOMAIN list
    <3>1. PICK j \in DOMAIN more : n = Len(list) + j
      BY <1>3, <2>2
    <3>2. new[n] = more[j] /\ j \in DOMAIN held[d]
      BY <1>1, <1>2, <3>1
    <3>3. new[n].bridgeNodeId = d /\ new[n].packet = held[d][j]
      BY <1>1, <3>1, <3>2
    <3> QED BY <2>2, <3>1, <3>2, <3>3
  <2> QED BY <2>1, <2>2
<1>5. ASSUME NEW n \in DOMAIN new
      PROVE  /\ new[n].bridgeNodeId \in D \cup {d}
             /\ \E j \in DOMAIN held[new[n].bridgeNodeId] :
                  new[n].packet = held[new[n].bridgeNodeId][j]
  <2>1. CASE n \in DOMAIN list
    <3>1. new[n] = list[n]
      BY <1>4, <2>1
    <3> QED BY <2>1, <3>1 DEF UploadsFrom
  <2>2. CASE n \notin DOMAIN list
    BY <1>4, <2>2
  <2> QED BY <2>1, <2>2
<1>6. ASSUME NEW e \in D \cup {d}, NEW j \in DOMAIN held[e]
      PROVE  \E n \in DOMAIN new : new[n].bridgeNodeId = e /\ new[n].packet = held[e][j]
  <2>1. CASE e \in D
    <3>1. PICK n \in DOMAIN list : list[n].bridgeNodeId = e /\ list[n].packet = held[e][j]
      BY <2>1 DEF UploadsFrom
    <3> QED BY <1>2, <3>1
  <2>2. CASE e = d
    BY <1>1, <1>2, <2>2
  <2> QED BY <2>1, <2>2
<1>7. ASSUME NEW n1 \in DOMAIN new, NEW n2 \in DOMAIN new,
             new[n1].bridgeNodeId = new[n2].bridgeNodeId,
             new[n1].packet.packetId = new[n2].packet.packetId
      PROVE  n1 = n2
  <2>1. CASE n1 \in DOMAIN list
    BY <1>4, <1>7, <2>1 DEF UploadsFrom
  <2>2. CASE n1 \notin DOMAIN list
    BY <1>4, <1>7, <2>2 DEF OneCopyEach
  <2> QED BY <2>1, <2>2
<1> QED BY <1>2, <1>5, <1>6, <1>7 DEF UploadsFrom, new, more

LEMMA UploadsAreOfBridges ==
  ASSUME MeshTypeOK, OneCopyEach(held)
  PROVE  UploadsFrom(BridgeUploads, Bridges)
<1> DEFINE First(k) == {d \in Bridges : \E m \in 1..k : DeviceOrder[m] = d}
<1>1. PICK after :
        /\ after[0] = <<>> /\ BridgeUploads = after[DeviceCount]
        /\ \A k \in 1..DeviceCount : after[k] = after[k - 1] \o Adds(k)
  BY BridgeUploadsRuns
<1> DEFINE T == {k \in 0..DeviceCount : UploadsFrom(after[k], First(k))}
<1>2. 0 \in T
  <2>1. First(0) = {} /\ 0 \in 0..DeviceCount
    BY DeviceOrderFacts
  <2>2. UploadsFrom(<<>>, {})
    BY DEF UploadsFrom
  <2> HIDE DEF First
  <2> QED BY <1>1, <2>1, <2>2
<1>3. ASSUME NEW k \in 0..(DeviceCount - 1), k \in T
      PROVE  k + 1 \in T
  <2> DEFINE d == DeviceOrder[k + 1]
  <2>1. /\ k + 1 \in 1..DeviceCount /\ (k + 1) - 1 = k /\ k \in 0..DeviceCount
        /\ UploadsFrom(after[k], First(k))
        /\ \A m \in 1..(k + 1) : m \in 1..k \/ m = k + 1
        /\ \A m \in 1..k : m \in 1..(k + 1) /\ m \in 1..DeviceCount /\ m # k + 1
    BY <1>3, DeviceOrderFacts
  <2>2. d \in Devices /\ d \notin First(k) /\ First(k) \subseteq Devices
    BY <2>1, DeviceOrderFacts, MeshConstants
  <2>3. after[k + 1] = after[k] \o Adds(k + 1)
    BY <1>1, <2>1
  <2>4. CASE d \in Bridges
    <3>1. First(k + 1) = First(k) \cup {d} /\ Adds(k + 1) = UploadsOf(d)
      BY <2>1, <2>4 DEF Adds
    <3> HIDE DEF First, d
    <3>2. UploadsFrom(after[k + 1], First(k + 1))
      BY <2>1, <2>2, <2>3, <3>1, OneMorePhone
    <3> QED BY <2>1, <3>2
  <2>5. CASE d \notin Bridges
    <3>1. First(k + 1) = First(k) /\ Adds(k + 1) = <<>>
      BY <2>1, <2>5 DEF Adds
    <3> HIDE DEF First, d
    <3>2. after[k + 1] = after[k]
      <4>1. \A list \in Seq(Upload) : list \o <<>> = list
        OBVIOUS
      <4>2. after[k] \in Seq(Upload)
        BY <2>1 DEF UploadsFrom
      <4> QED BY <2>3, <3>1, <4>1, <4>2
    <3> QED BY <2>1, <3>1, <3>2
  <2> QED BY <2>4, <2>5
<1>4. 0..DeviceCount \subseteq T
  <2> HIDE DEF T
  <2> QED BY <1>2, <1>3, UpTo, DeviceOrderFacts
<1>5. First(DeviceCount) = Bridges
  BY DeviceOrderFacts, MeshConstants
<1> HIDE DEF First
<1> QED BY <1>1, <1>4, <1>5, DeviceOrderFacts

LEMMA MeshInvUploads == MeshInv => EachBridgeUploadsEachCopyOnce
<1> SUFFICES ASSUME MeshInv PROVE EachBridgeUploadsEachCopyOnce
  OBVIOUS
<1>1. UploadsFrom(BridgeUploads, Bridges)
  BY UploadsAreOfBridges DEF MeshInv
<1> QED BY <1>1 DEF UploadsFrom, EachBridgeUploadsEachCopyOnce, Holds

\* A flush uploads every copy of every phone with Internet access, once, for any number
\* of phones and of bridges among them.
THEOREM BridgesUploadAll == MeshSpec => []EachBridgeUploadsEachCopyOnce
BY MeshInvUploads, InitMeshInv, NextKeepsMeshInv, PTL DEF MeshSpec
=============================================================================
