CONSTANTS
  c1 = c1
  c2 = c2
  c3 = c3
  c4 = c4
  NoChannel = NoChannel
  Channels = {c1, c2, c3, c4}
  fdOf <- Descriptors
  MaxReported = 1

SPECIFICATION Spec

INVARIANT EnabledIsPolled
