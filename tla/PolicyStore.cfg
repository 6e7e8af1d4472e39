SPECIFICATION StoreSpec
CONSTANTS
  t1 = t1
  t2 = t2
  x = x
  y = y
  k1 = k1
  k2 = k2
  Threads = {t1, t2}
  MaxVersion = 2
  Contents = {x, y}
  Keys = {k1, k2}
  MaxGeneration = 2
SYMMETRY Interchangeable
INVARIANT StoreInv
PROPERTY NothingIsLost
