\* A service of the API and a task of the worker, two streams, queues of one event.
CONSTANTS
  api = api
  worker = worker
  s1 = s1
  s2 = s2
  d1 = d1
  d2 = d2
  u1 = u1
  u2 = u2
  Writer = {api, worker}
  Worker = {worker}
  Sub = {s1, s2}
  Doc = {d1, d2}
  User = {u1, u2}
  OwnerOf <- MCOwnerOf
  UserOf <- MCUserOf
  Filter <- MCFilter
  QueueSize = 1
  MaxChanges = 2
  MaxFaults = 1
SPECIFICATION Spec
CHECK_DEADLOCK FALSE
INVARIANTS SeenAfterCommit InOrder
PROPERTIES EveryChangeArrives StopEndsStreams
