CONSTANTS
    Workers = {w1, w2}
    Tasks = {t1, t2, t3}
    MaxQueue = 2
SPECIFICATION Spec
PROPERTY
    EventuallyServes
