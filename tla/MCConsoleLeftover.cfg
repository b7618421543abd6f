SPECIFICATION Spec
CONSTANTS
  Ids = {21, 22}
  Plans = {p2}
  Queues = {"default"}
  KeyTexts <- MCKeyTexts
  MaxVersion = 5
  ToastKeys = {"done", "warn"}
  ToastIds = {1, 2}
  NoKey = NoKey
  NoToast = NoToast
  MaxShown = 1
  NoId = NoId
  DemoIds = {}
  LiveIds = {21}
  LocalIds = {}
  ServerIds = {22}
  DemoPlans = {}
  LivePlans = {p2}
  LocalPlans = {}
  InitialState <- MCInitialState
  Drafts <- MCDraft
  MaxMoves = 3
PROPERTY AnswersStay
CHECK_DEADLOCK FALSE
