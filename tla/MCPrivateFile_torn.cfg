\* Two writers at a time.
SPECIFICATION FileSpec
CONSTANTS
  w1 = w1
  w2 = w2
  r1 = r1
  d1 = d1
  d2 = d2
  Hole = Hole
  NoDoc = NoDoc
  Writers = {w1, w2}
  Readers = {}
  Docs = {d1, d2}
  Size <- SizeOf
  MaxSize = 2
INVARIANTS FileWhole
