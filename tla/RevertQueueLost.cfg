SPECIFICATION LiveSpec
CONSTANTS
  VM = {v1}
  Receiver = {}
  v1 = v1
  Checker = Checker
  Main = Main
  NoClient = NoClient
PROPERTIES
  WaitingIsReverted
