\* Two scans at a time on a network whose addresses change hands.
CONSTANTS
    a1 = a1
    a2 = a2
    m1 = m1
    m2 = m2
    lan = lan
    docker = docker
    scan1 = scan1
    scan2 = scan2
    None = None
    Addresses = {a1, a2}
    Macs = {m1, m2}
    Cidrs = {lan, docker}
    Hosts <- TwoHosts
    Size <- TooLarge
    LocalSubnet = docker
    Local24 = lan
    MaxScanHosts = 4
    Scans = {scan1, scan2}
    MaxScans = 3
SPECIFICATION Spec
SYMMETRY Symmetry
INVARIANTS
    TypeOK
    AddressesAreUnique
    OneRowPerMac
PROPERTIES
    RegistryGrows
    ImplementsRegistry
    CommitRegistersAll
    IdentityIsOwn
