CONSTANTS
  t1 = t1  t2 = t2
  b1 = b1  b2 = b2  b3 = b3
  k1 = k1  k2 = k2  k3 = k3  k4 = k4
  Threads = {t1, t2}
  Blobs = {b1, b2, b3}
  Blocks = {k1, k2, k3, k4}
  Sizes = {0, 32}
  Values = {"x", "y"}
  Types = {"smart"}
SPECIFICATION Spec
SYMMETRY Alike
INVARIANT BytesKept
