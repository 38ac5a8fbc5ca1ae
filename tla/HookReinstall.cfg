CONSTANTS
  t1 = t1
  t2 = t2
  p1 = p1
  p2 = p2
  r1 = r1
  r2 = r2
  h1 = h1
  h2 = h2
  Threads = {t1}
  NoThread = NoThread
  Ptrs = {p1}
  Ranges = {r1}
  Handles = {h1}
  Sizes = {1}
  Thunks <- SomeThunks
  Faults = {}
  Relock = {"proceeds", "blocks", "throws"}
  Reinstall = TRUE
  MaxTotal = 3
SPECIFICATION Spec
INVARIANT RealIsOriginal
