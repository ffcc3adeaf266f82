SPECIFICATION Spec
CONSTANTS
  s1 = s1
  s2 = s2
  Calls <- MCCalls
  Keys = {"good", "bad"}
  Taken = {"good"}
  Interval = 2
  MaxNow = 3
  MaxSaves = 3
SYMMETRY Perms
INVARIANTS VerdictIsOfTheKey
PROPERTIES SentOnceAnInterval
