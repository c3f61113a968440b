SPECIFICATION Spec
CONSTANTS
  Callers = {c1, c2}
  g1 = g1
  g2 = g2
  s1 = s1
  s2 = s2
  Gpios = {g1, g2}
  QupPins = {g1}
  s3 = s3
  Sdcs = {s1, s2, s3}
  SharedDrive = {s1, s2}
  Unknown = Unknown
  Firmware = Firmware
  None = None
  Messages = 3
  Levels = 2
  MaxBoots = 3
  MaxAnswers = 3
SYMMETRY CallerSymmetry
INVARIANTS
  UpdatesSurvive HeldStaysFed ReportedIsLive GmuInStep StartsPrepared OkIsTrue
  FailureReleases ScanoutIntact StreamIntact
CHECK_DEADLOCK FALSE
