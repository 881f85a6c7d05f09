CONSTANTS
  t1 = t1
  t2 = t2
  c1 = c1
  c2 = c2
  c3 = c3
  n1 = n1
  n2 = n2
  NoCondition = NoCondition
  NoParent = NoParent
  Callers <- MCCallers
  Texts <- MCTexts
  Conditions <- MCConditions
  Offers <- MCOffers
  Nodes <- MCNodes
  Parents <- MCParents
  Orders <- MCOrders
  MaxTrees <- MCMaxTrees
  Names <- MCNames
  Characters <- MCCharacters
  Values <- MCValues
  Folders <- MCFolders
  Pages <- MCPages
  Objects <- MCObjects
  Mails <- MCMails
  MaxRows = 12
  Sizes = {0, 1, 2}
SPECIFICATION ToolboxSpec
CHECK_DEADLOCK FALSE
INVARIANTS
  DigestIsOwn
  QueryIsChain
  TreeOfParents
  ReadsWhatWasMeant
  PartsInOnePlace
  PagingTypeOK
  WindowComplete
  PagesPartition
PROPERTY AppendsBehind
