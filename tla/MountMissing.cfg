\* The root may be missing when the server starts.
CONSTANTS
    upload1 = upload1  upload2 = upload2  work1 = work1  work2 = work2
    data = data  mount = mount  default = default  tenant = tenant
    NoFile = NoFile  Part = Part
    Uploads <- TwoUploads
    Investigations <- TwoWorks
    Roots <- TwoRoots
    DefaultRoot <- data
    Domains <- TwoDomains
    DefaultDomain <- default
    MaxId = 2
    MountsFail = TRUE
    Workloads <- Relocation
SPECIFICATION Spec
INVARIANTS NeverStranded
