CONSTANTS
  Radix = 4
  MaxPayload = 2
  BufSize = 6
  Crc <- MCCrc
  STX = 2
  ETX = 3
SPECIFICATION ParserSpec
PROPERTIES ImplementsFraming
