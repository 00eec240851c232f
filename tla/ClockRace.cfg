SPECIFICATION Spec
CONSTANTS
  boss = boss
  kid = kid
  mininet = mininet
  daemon = daemon
  Proc <- Everyone
  Leader = boss
  Tool <- Tools
  Scenes <- FamilyOrTools
  Tdf = 2000
  Epoch = 20
  MaxReads = 2
INVARIANTS
  FrozenDurationTight
  ReadExcludesFreezes
  LeftResumable
  PastsInStep
PROPERTIES
  UnfreezeResumes
