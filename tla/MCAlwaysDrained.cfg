CONSTANTS
  stdout = stdout
  stderr = stderr
  cironctl = cironctl
  Readers <- MCReaders
  Clients <- MCClients
  LineCounts <- MCLineCounts
  BufferSize = 2
  Backlog = 1
  StreamSize = 1
  PipeSize = 1
  MaxLines <- MCMaxLines
SPECIFICATION Spec
INVARIANTS AlwaysDrained
