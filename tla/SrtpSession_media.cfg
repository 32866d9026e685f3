SPECIFICATION Spec
CONSTANTS
  Keys = {k1, k2}
  Ssrcs = {voice, test}
  DefaultSsrc = voice
  Width = 3
  Half = 2
  MaxRoc = 1
  RtcpLimit = 2
  MaxPackets = 4
  None = None
SYMMETRY KeySymmetry
INVARIANTS
  TypeOK
  NoKeystreamReuse
  NoReplay
  NothingGenuineRefused
  DefaultSequenceIsFree
