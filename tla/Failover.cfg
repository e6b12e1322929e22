CONSTANTS
  Threshold = 2
  Cooldown = 2
  Ttl = 8
  Caller = {c1, c2}
  smart = smart
  balanced = balanced
  embed = embed
  anthropic = anthropic
  openai = openai
  google = google
  claude = claude
  gpt = gpt
  gemini = gemini
  embedding = embedding
  Missing = Missing
  Alias = {smart, balanced, embed}
  Provider = {anthropic, openai, google}
  Model = {claude, gpt, gemini, embedding}
  ProviderOf <- SeedProvider
  Primary <- SeedPrimary
  Fallback <- SeedFallback
  Host <- SeedHost
  Healthy = {openai}
SPECIFICATION FairSpec
INVARIANTS
  TypeOK
  HealthyStaysInService
PROPERTIES
  EachKeyIsABreaker
  ReturnsToPrimary
