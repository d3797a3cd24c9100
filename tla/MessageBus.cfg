CONSTANTS
  Callers = {g1, g2}
  Listeners = {s1}
  Cap = 1
  SubCap = 1
  Background = {}
  MaxOut = 3
  Fanout = Fanout
  Nobody = Nobody
SPECIFICATION FairSpec
INVARIANTS TypeOK NeverOnClosedChannel SubscribedGets
PROPERTIES CloseCompletes
