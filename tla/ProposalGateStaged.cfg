SPECIFICATION Spec
CONSTANTS
  p1 = p1 a = a b = b None = None
  Proposals = {p1}
  Callers = {a, b}
  MaxWrites = 1
SYMMETRY Same
PROPERTY CommitsWhatWasApproved
