\* The nightly run and a worker, at the same time; two heads, one in a tarball.
CONSTANTS
  Containers = {night, worker}
  Registrars = {night}
  Optional = {worker}
  Heads = {h1, h2}
  Archived = {h2}
  Configured = {h1, h2}
  Entries = {e1, e2}
  Rows = {x1, x2}
  Faults = {"credential", "download", "extract", "list", "upload", "kill"}
  MaxFaults = 2
SPECIFICATION Spec
INVARIANTS TypeOK BootedWithHeads
PROPERTIES RegistryKept PromotionFirst
