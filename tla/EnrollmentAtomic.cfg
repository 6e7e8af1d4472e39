SPECIFICATION Spec
CONSTANTS
  Threads = {"t1", "t2"}
  Devices = {"d1"}
  Claims = {"c1"}
  DeviceOf <- MCDeviceOf
  Nonces = {"n1", "n2"}
  Serials = {"s1", "s2"}
INVARIANT ConsumedTogether
