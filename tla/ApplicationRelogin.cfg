SPECIFICATION Spec
CONSTANTS
  Clients = 3
  Errors = 2
  MaxChat = 2
  Groups = {1}
  MaxOrder = 2
  MaxUpdates = 2
  Limits = {1}
  Uses = 1
  TgUrls = {channel}
  WebUrls = {site}
  MaxLinks = 2
  MaxTokens = 3
  Hits = {m1}
INVARIANT AssertionsHold
CHECK_DEADLOCK FALSE
