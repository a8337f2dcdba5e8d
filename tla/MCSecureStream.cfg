SPECIFICATION Spec
CONSTANTS
  MaxPayloadSize = 3
  HeaderSize = 1
  TagSize = 0
  Buffers = {1, 5}
  Sizes = {0, 3, 7}
INVARIANTS
  EncodingFaithful
  RoundTrip
PROPERTIES
  ImplementsDelivery
  BothEnd
CHECK_DEADLOCK FALSE
