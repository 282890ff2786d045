\* One session with an interim update; two handlers, a queue of two, a
\* packet that arrives twice, two seconds; one failing write or crash.
CONSTANTS
  s1 = s1
  s2 = s2
  w1 = w1
  w2 = w2
  Sessions = {s1}
  Workers = {w1, w2}
  NoPacket = NoPacket
  Buffer = 2
  MaxClock = 1
  MaxUsage = 1
  MaxRepeats = 1
  MaxFaults = 1
SPECIFICATION FairSpec
INVARIANTS
  TypeOK
  AnsweredIsKept
  ClosedIsFinal
  RecordedIsListed
  OnceIsExact
PROPERTIES
  ShutdownEnds
