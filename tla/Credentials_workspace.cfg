\* One process: a workspace is chosen, then the credentials are renewed.
SPECIFICATION Spec
CONSTANTS
  Procs = {p1}
  Profiles = {n1}
  Workspaces = {"default", "team"}
  Default = "default"
  Commands = {"login", "workspace", "refresh"}
  Overlap = {"refresh"}
  None = None
  MaxGen = 3
  MaxFaults = 1
CHECK_DEADLOCK FALSE
INVARIANTS
  WorkspaceKept
