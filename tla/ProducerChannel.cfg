SPECIFICATION Spec
CONSTANTS
  g1 = g1
  g2 = g2
  c1 = c1
  c2 = c2
  c3 = c3
  c4 = c4
  Publishers = {g1, g2}
  Channels = {c1, c2, c3, c4}
  Nil = Nil
  Nobody = Nobody
INVARIANTS
  TypeOK
  OneChannelWhileConnected
  NoEventDropped
PROPERTIES
  PublicationEnds
