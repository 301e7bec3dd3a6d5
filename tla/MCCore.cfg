\* Every shape of payload, documents mirrored forth and back, and every promotion.
CONSTANTS
  MayFind = 2
  MayThrow = 2
  Jobs <- AllJobs
  DefaultIds <- GivenIds
  MaxMirrors = 3
  Requests <- AllRequests
  Responses <- AllResponses
  Texts <- AllTexts
  Contexts = {"site", "app"}
  Impressions = {"0", "1"}
SPECIFICATION CoreSpec
INVARIANTS ValidatorIsSound MirrorIsSound
PROPERTIES NothingLost
CHECK_DEADLOCK FALSE
