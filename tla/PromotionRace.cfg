CONSTANTS
  v1 = v1
  v2 = v2
  v3 = v3
  rag = rag
  chat = chat
  Service = {s1, s2}
  Version = {v1, v2}
  PromptOf <- OneOwner
SPECIFICATION FairSpec
INVARIANT AtMostOneProduction
