SPECIFICATION Spec
CONSTANTS
  Ids = {11, 12, 13, 21, 22}
  Plans = {p1, p2, p3}
  Queues = {"default", "critical"}
  KeyTexts <- MCKeyTexts
  MaxVersion = 5
  ToastKeys = {"done", "warn"}
  ToastIds = {1, 2}
  NoKey = NoKey
  NoToast = NoToast
  MaxShown = 1
  NoId = NoId
  DemoIds = {11}
  LiveIds = {21}
  LocalIds = {12, 13}
  ServerIds = {22}
  DemoPlans = {p1}
  LivePlans = {p2}
  LocalPlans = {p3}
  InitialState <- MCInitialState
  Drafts <- MCDrafts
  MaxMoves = 2
INVARIANTS
  ConsoleTypeOK
  CountsAgree
  LiveIsTheServers
  BusyMeansInFlight
  ToastsEnd
PROPERTIES
  RefreshKeepsAnswers
  SettlesToServer
CHECK_DEADLOCK FALSE
