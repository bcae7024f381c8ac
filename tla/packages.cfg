CONSTANTS
  curl = curl
  curldev = curldev
  git = git
  gxx = gxx
  Package = {curl, curldev, git, gxx}
  Version = {1, 2}
  Any = Any
  Mangled = Mangled
  Extends <- Related
  Irregular = {gxx}
  Inputs <- Answered
SPECIFICATION Spec
INVARIANTS TypeOK LocksWhatWasAsked MissingIsUnavailable
CHECK_DEADLOCK FALSE
