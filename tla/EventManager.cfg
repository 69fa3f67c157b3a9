CONSTANTS
  Fds = {f1, f2}
  ChannelFd = ch
  Discarded = discarded
  Capacity = 3
  MaxId = 3
  MaxWatch = 2
  ForeignRemove = TRUE
SPECIFICATION Spec
SYMMETRY Symmetry
INVARIANTS NoPanic NoStaleEvent
