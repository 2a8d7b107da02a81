\* One scan after another from where ARP does not reach.
CONSTANTS
    a1 = a1
    a2 = a2
    m1 = m1
    lan = lan
    docker = docker
    scan1 = scan1
    None = None
    Addresses = {a1, a2}
    Macs = {m1}
    Cidrs = {lan, docker}
    Hosts <- TwoHosts
    Size <- TooLarge
    LocalSubnet = docker
    Local24 = lan
    MaxScanHosts = 4
    Scans = {scan1}
    MaxScans = 2
SPECIFICATION Spec
INVARIANTS SweptOnce
