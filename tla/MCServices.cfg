\* One article a day, three decisions or moderator runs; three bytes of links,
\* one byte an address and day, and room for the budget of one address; two previews
\* or one that is re-pointed, a log of one event and a ledger of one refusal.
CONSTANTS
  d1 = d1
  d2 = d2
  s1 = s1
  s2 = s2
  a1 = a1
  a2 = a2
  ip1 = ip1
  ip2 = ip2
  None = None
  Operator = Operator
  Torn = Torn
  Drafts <- TwoDrafts
  Slugs <- TwoSlugs
  Admins <- TwoAdmins
  Relevant <- OneRelevant
  Attempts = 3
  Limit = 1
  Batch = 2
  Languages = 1
  Addresses <- TwoAddresses
  Sizes = {1}
  MaxTotal = 3
  IpBudget = 1
  Day = 2
  Ttl = 2
  MaxTracked = 1
  WriteMax = 2
  WriteWindow = 1
  LastDay = 5
  Banners = {"banner"}
  Texts = {"vast"}
  Assets = {"logo"}
  Items = {"script", "font", "long"}
  LongItems = {"long"}
  LedgerCap = 1
  LogCap = 1
  FreezeAfter = 1
  MaxRenders = 2
  MaxEvents = 2
  MaxRefusals = 2
  MaxMail = 2
  MaxAsked = 1
SPECIFICATION ServicesSpec
SYMMETRY Alike
INVARIANTS PromotedHasArticle CeilingsHold PreviewIsOneDocument
PROPERTIES ArticlesAreKept
CHECK_DEADLOCK FALSE
