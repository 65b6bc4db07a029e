SPECIFICATION AnsweredSpec
CONSTANTS
  Nets = {n1, n2}
  LongNets = {n2}
  NoNet = NoNet
  Cut = Cut
  Blank = Blank
  MAX_LOSSES = 2
INVARIANTS
  TypeOK
  NoRogueDhcp
PROPERTIES
  SavedNetWasLinked
  AttemptEnds
