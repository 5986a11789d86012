SPECIFICATION Spec
CONSTANTS
  Owners = {alice}
  Shas = {h1}
  Junk = Junk
  Puts = {p1, p2}
  Gets = {g1}
  Deletes = {d1}
  None = None
INVARIANT LiveContentIsThere
