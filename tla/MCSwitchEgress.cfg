CONSTANTS dA = dA  dB = dB  a1 = a1  a2 = a2  a3 = a3  k1 = k1  b1 = b1  fx = fx  fy = fy  null = null
SPECIFICATION Spec
INVARIANT PeerFifo
INVARIANT AdmissionBalanced
INVARIANT NoStalePause
PROPERTY PauseLifted
PROPERTY QueuedDelivered
CHECK_DEADLOCK FALSE
