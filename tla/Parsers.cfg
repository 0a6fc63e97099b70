SPECIFICATION Spec
CONSTANTS
  Delimiters <- MCDelimiters
  DelimiterLimits = {0, 1, 2, 9}
  Formats <- MCFormats
  Codings <- MCCodings
  SlipLimits = {0, 1, 9}
  Undefined = Undefined
  Letters = {1, 2}
  LengthBytes = {0, 1, 2}
  SlipBytes = {1, 2, 3, 4, 5, 6}
  MaxChunk = 3
  MaxText = 6
  MaxPackets = 6
  MaxWire = 4
INVARIANTS FramesExact RoundTrip
