CONSTANTS
  Modes <- Either
  RpcPorts <- Either
  Slow <- Either
SPECIFICATION Spec
PROPERTIES
  StopEnds
  ThreadDeathEnds
  RequestsAnswered
\* momd ends.
CHECK_DEADLOCK FALSE
