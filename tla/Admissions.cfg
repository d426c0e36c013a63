CONSTANTS
  Conns <- MCConns
  Outbound = {"outbound"}
  Servers = {"s1", "s2"}
  ServerOf <- MCServerOf
  NoServer = NoServer
  Roles = {"player"}
  NoConn = NoConn
  Records = {"r1"}
  Offers <- MCOffers
  MaxAdmitted = 1
  NurseryCapacity = 1
  SetWhileStarting = FALSE
SPECIFICATION AdmissionSpec
INVARIANTS AdmissionInv UnpairedHonoured
PROPERTIES SlotGoesToTheStronger
CHECK_DEADLOCK FALSE
