SPECIFICATION FairSpec
CONSTANTS
  Claude = Claude
  GPT = GPT
  Gemini = Gemini
  Grok = Grok
  Providers = {Claude, GPT, Gemini, Grok}
  Cap <- Caps
  Backoff = 1
CHECK_DEADLOCK FALSE
INVARIANTS
  IndInv
  NoTaskLeft
  EveryProviderAccounted
  EndsWithinCaps
PROPERTIES
  RunEnds
