\* Two builds, three invocations of either script.
CONSTANTS
  i1 = i1
  i2 = i2
  i3 = i3
  s1 = s1
  s2 = s2
  s3 = s3
  Images <- TwoImages
  None = None
  Scripts <- ThreeScripts
SPECIFICATION Spec
SYMMETRY Symmetry
INVARIANTS BootServesVerified EnvIsVerified StateTellsTruth
CHECK_DEADLOCK FALSE
