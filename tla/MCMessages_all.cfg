SPECIFICATION MessageSpec
CONSTANTS
  Words <- MCWords
  Directory <- MCDirectory
  Addresses = {"ip1", "ip2", "ip3"}
  Dotted = {"999"}
  Number <- MCNumber
  UrlInputs <- MCUrlInputs
  MaxCalls = 3
  Kinds = {"GET", "POST"}
  HttpInputs <- MCHttpInputs
  Heads <- MCHeads
  Versions = {"HTTP/1.0", "HTTP/1.1", "HTTP/2.0"}
  Lower <- MCLower
INVARIANTS
  MessageTypeOK
  AddressIsOfHost
  ComposedIsReadBack
  LengthMatchesBody
  ResponseIsReadBack
PROPERTIES
  FieldsAreReadBack
\* A client that has made its calls does nothing more.
CHECK_DEADLOCK FALSE
