SPECIFICATION ToolSpec
CONSTANTS
  Scripts <- MCScripts
  Installed <- MCInstalled
  MaxProcs = 8
  Bases = {2097152, 6291456}
  MaxMounts = 3
  Paths = {"/", "/hello.txt", "/new.txt"}
  ReadSizes = {4, 4096}
  Data = {1, 2}
  Indexes <- MCIndexes
  Capacity0 = 1
  MaxCount = 6
INVARIANT RefCountIsFiles
