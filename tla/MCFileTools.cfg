SPECIFICATION Spec
CONSTANTS
  Programs = {"write_all", "temp_file", "readfile", "read_file", "hexdump"}
  Inputs <- MCInputs
  Lengths = {0, 1, 2, 3, 4}
  SizeOf = 2
  Chunk = 2
  Overrun = 3
  Garbage = {0, 1, 5}
INVARIANTS
  TypeOK
  WriteAllWritesOnce
  TempFileRoundTrip
  ReadFileReleases
  ReadersGetFile
