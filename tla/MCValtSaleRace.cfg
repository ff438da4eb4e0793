CONSTANTS
  a1 = a1
  a2 = a2
  old = old
  Assignee = {a1, a2}
  Legacy = {}
  CpfOf <- MCCpfOf
  Valt = {v1}
  Request = {q1}
  Parcel = {1, 2}
  Offered = {"PIX", "BOLETO", "CARNE", "CREDITO", "RECORRENCIA"}
  NoAssignee = NoAssignee
  NoValt = NoValt
  NoRequest = NoRequest
SPECIFICATION Spec
PROPERTIES
  NoReallocation
