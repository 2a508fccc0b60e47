\* Three threads: two that set and one that calls meanwhile; two redirects
\* and none.
SPECIFICATION RedirectSpec
CONSTANTS
  a = a
  b = b
  c = c
  r1 = r1
  r2 = r2
  Threads = {a, b, c}
  Redirects = {r1, r2}
  NoRedirect = NoRedirect
SYMMETRY MCRedirectSymmetry
INVARIANTS
  RedirectWhole
  CallsGoThrough
