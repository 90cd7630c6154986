SPECIFICATION Spec
CONSTANTS
  Datas <- MCDatas
  MaxSessions = 3
INVARIANTS
  TypeOK
  RequestsHaveSession
  SessionsAccounted
  ReadYourWrites
  NameInData
