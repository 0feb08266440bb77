SPECIFICATION Spec
CONSTANTS
  a = a
  b = b
  c = c
  h1 = h1
  h2 = h2
  ip1 = ip1
  ip2 = ip2
  Nobody = Nobody
  Targets <- TwoTargets
  Hosts = {h1}
  HostOf <- TwoHostOf
  Ips = {ip1, ip2}
  IpOf <- TwoIpOf
  Collectors = {mac}
  Slots = 2
  MaxTries = 2
PROPERTIES OwnDataKept
