SPECIFICATION Spec
CONSTANTS
  boss = boss
  kid = kid
  mininet = mininet
  daemon = daemon
  Proc <- Everyone
  Leader = boss
  Tool <- Tools
  Scenes <- JustAlone
  Tdf = 1000
  Epoch = 20
  MaxReads = 2
PROPERTIES
  ReadsMonotonic
