\* A process with a parent opens two data files under fds 2..4: two OPENs,
\* a CLOSE of the first fd and a third OPEN are enough to reuse an fd.
CONSTANTS
  h1 = h1
  h2 = h2
  h3 = h3
  h4 = h4
  Self = Self
  Parent = Parent
  NoParent = NoParent
  Data = Data
  Other = Other
  Handles <- MCHandles
  Names = {Data, Other}
  FdArgs = {2, 3, 4}
  MaxFd = 5
SPECIFICATION Spec
PROPERTY FdListImplementsFdMap
