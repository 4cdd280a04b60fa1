\* The same instance, against what is said of Close.
SPECIFICATION FairConsumerSpec
CONSTANTS
  a = a
  Claims <- MCClaims
PROPERTY
  CloseReturns
CHECK_DEADLOCK FALSE
