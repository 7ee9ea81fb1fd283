SPECIFICATION FairSpec
CONSTANTS
  t1 = t1
  t2 = t2
  t3 = t3
  Task = {t1, t2}
  Thread = {w1}
  Faulty = {}
  Remover = {r1}
  DeleteMulti = FALSE
  Inode = {i1, i2}
  BlockNo = {n0}
  Gen = {g1, g2}
  Data = {zero, A}
  Zero = zero
  ObjId = {o1, o2, o3, o4}
  InitialIds = {o1}
  MaxEntries = 1
  QueueSize = 1
  Ops <- WriteFlush
  KernelForgets = FALSE
  MaxCalls = 3
  None = None
PROPERTIES EventuallyQuiescent OrphansRemoved
