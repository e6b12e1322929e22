CONSTANTS
  v1 = v1
  v2 = v2
  v3 = v3
  rag = rag
  chat = chat
  Service = {s1}
  Version = {v1, v2, v3}
  PromptOf <- Owner
SPECIFICATION Spec
INVARIANTS
  TypeOK
  AtMostOneProduction
  PassedItsEval
PROPERTIES
  RetiredIsTerminal
  DemotedForSuccessor
