SPECIFICATION MixerSpec
CONSTANTS
  Control <- MCControl
  MaxLevel = 1
INVARIANTS MixerTypeOK FreshAgrees
PROPERTIES OtherMutesKept
