SPECIFICATION Spec
CONSTANTS
  Trajectories = {t1, t2, t3, t4}
  MaxSize = 3
  NumGroups = 2
  MaxAge = 1
  MaxVersion = 2
PROPERTIES ImplementsPool FifoWithinTarget
