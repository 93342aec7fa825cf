CONSTANTS
  q1 = q1
  q2 = q2
  s1 = s1
  v1 = v1
  r1 = r1
  Requests = {q1, s1, v1, r1}
  Kind <- SharedKind
  Wants <- SharedWants
  NoOne = NoOne
SPECIFICATION Spec
INVARIANTS
  TypeOK
  SessionServesRequest
PROPERTIES
  RestartSparesTheWorking
  EveryRequestEnds
CHECK_DEADLOCK FALSE
