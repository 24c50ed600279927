\* Two requests at once, two repositories and two tokens.
CONSTANTS
  c1 = c1
  c2 = c2
  t1 = t1
  t2 = t2
  Caller = {c1, c2}
  Token = {t1, t2}
  Pasted <- SmallPasted
  Hosted <- SmallHosted
  Legal = {"acme", "app", "lib", "tree", ".."}
  Dots = {".."}
  Empty = ""
  None = None
SPECIFICATION Spec
SYMMETRY Alike
INVARIANT ProvenBeforeStored
INVARIANT StampFitsRow
