SPECIFICATION FairSpec
CONSTANTS
  Nets = {n1, n2}
  LongNets = {n2}
  NoNet = NoNet
  Cut = Cut
  Blank = Blank
  MAX_LOSSES = 1
PROPERTIES
  AttemptEnds
