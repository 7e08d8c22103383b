CONSTANTS
  Packets <- MCPackets
  AnyLength <- MCAnyLength
  Memory = 200
SPECIFICATION Spec
INVARIANTS
  TypeOK
  FieldsReadInPlace
  StaysInPacket
  
  ListHoldsEntries
  AgreesWithTSPacket
  ValuesDecoded
  ReportFits
PROPERTY ParsingEnds
CHECK_DEADLOCK FALSE
