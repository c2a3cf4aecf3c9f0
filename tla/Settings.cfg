\* One provider, two keys, two folders.
SPECIFICATION Spec
CONSTANTS
  Llms = {"off", "a"}
  Unset = "off"
  ProviderOf <- MCProviderOf
  Providers = {"p"}
  Keys = {"k", "l"}
  Folders = {"none", "q"}
  Persistent = TRUE
  MaxActs = 3
  MaxFaults = 2
INVARIANTS
  TypeOK
  PageIsTrue
PROPERTIES
  NoPlaintext
CHECK_DEADLOCK FALSE
