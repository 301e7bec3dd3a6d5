\* setup-encryption rejects a second call.
CONSTANTS
  t1 = t1
  t2 = t2
  b1 = b1
  Tabs <- TwoTabs
  Browsers <- OneBrowser
  BrowserOf <- Shared
  MaxHash = 3
  MaxKeys = 2
SPECIFICATION Spec
PROPERTIES SetupOnce
