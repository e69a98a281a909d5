SPECIFICATION Spec
CONSTANTS
  fd1 = fd1
  fd2 = fd2
  fd3 = fd3
  k1 = k1
  k2 = k2
  k3 = k3
  k4 = k4
  None = None
  Iface <- Ifaces
  Eth <- EthIfaces
  Fd <- Fds
  Idx <- Kernel4
  NumAlloc = 2
  NBuffers = 3
SYMMETRY Symmetry4
INVARIANT TapsSound
PROPERTY PairingSpec
