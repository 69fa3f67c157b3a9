CONSTANTS
  Fds = {f1, f2}
  ChannelFd = ch
  Discarded = discarded
  Capacity = 3
  MaxId = 2
  MaxWatch = 2
  ForeignRemove = TRUE
SPECIFICATION Spec
SYMMETRY Symmetry
INVARIANT WatchListExact
