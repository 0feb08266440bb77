SPECIFICATION FairSpec
CONSTANTS
  a = a
  b = b
  c = c
  h1 = h1
  h2 = h2
  ip1 = ip1
  ip2 = ip2
  Nobody = Nobody
  Targets <- ThreeTargets
  Hosts = {h1, h2}
  HostOf <- ThreeHostOf
  Ips = {ip1, ip2}
  IpOf <- ThreeIpOf
  Collectors = {mac}
  Slots = 2
  MaxTries = 2
INVARIANTS ProbeOnlyUnknown KnownFirst
PROPERTIES RoundTerminates AddressRetried
