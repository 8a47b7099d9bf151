SPECIFICATION FairSpec
CONSTANTS
  Requests = {r1, r2}
  Upstreams <- MCUpstreams
  Tools <- MCTools
  ShapeOf <- MCShapeOf
  Refused <- MCRefused
  FirstTools <- MCFirst
  Announcing <- MCAnnouncing
  Lived <- MCLived
  MaxChanges = 2
  MaxDrops = 1
INVARIANTS
  NothingForgotten
PROPERTIES
  NeverBackwards
  EveryChangeServed
