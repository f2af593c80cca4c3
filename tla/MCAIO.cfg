\* Two callers, one disk with one thread, requests of two priorities and of http.
CONSTANTS
  o1 = o1
  o2 = o2
  o3 = o3
  o4 = o4
  fd1 = fd1
  Callers = {c1, c2}
  Ops = {o1, o2, o3, o4}
  Fds = {fd1}
  API = API
  FdOf <- OneDisk
  PrioOf <- Prios
  NThreads = 1
  MaxIssues <- OneTwice
  NULL = NULL
SPECIFICATION FairSpec
INVARIANTS Fifo Sorted NoneLeftWaiting OneEntryPerFd
PROPERTY Served
