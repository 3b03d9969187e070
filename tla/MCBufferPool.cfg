\* Three takers contend for two buffers of one word.
CONSTANTS
  t1 = t1
  t2 = t2
  t3 = t3
  Takers = {t1, t2, t3}
  Zero = Zero
  Size = 2
  CapacityBytes = 4
  CopySizes = {2, 4, 5}
  CounterMod = 3
SPECIFICATION PoolSpec
SYMMETRY TakerSymmetry
INVARIANTS
  PoolTypeOK
  NoBufferLost
  ViewIsOwn
PROPERTY MissOnlyWhenAllOut
