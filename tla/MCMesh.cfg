SPECIFICATION MeshSpec
CONSTANTS
  alice = alice
  stranger = stranger
  bridge1 = bridge1
  bridge2 = bridge2
  DeviceOrder <- MCDeviceOrder
  Bridges = {bridge1, bridge2}
  Packets = {p1, p2, p3}
  NaN = NaN
  Ttls = {0, 1, 5, NaN}
SYMMETRY PacketSymmetry
INVARIANTS
  MeshTypeOK
  OneHopMesh
  EachBridgeUploadsEachCopyOnce
  SendersOrderKept
  MeshInv
PROPERTIES
  RoundReachesAll
  FirstCopyIsKept
