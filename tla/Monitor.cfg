SPECIFICATION Spec
CONSTANTS
  Session = {main, sub}
  Main = main
  NoOne = none
  State = {a}
  Monitoring = TRUE
  MonitorMsgTypes <- EditorTypes
  Remote = TRUE
  Registered = {"EnterExit", "Invoke", "Event"}
  SendsFail = TRUE
  MaxParams = 1
  MaxHooks = 5
INVARIANT TypeOK
INVARIANT ChannelsAgree
INVARIANT LaterChannelsOmit
INVARIANT PictureFollowsCharts
INVARIANT CallbacksOneAtATime
INVARIANT NoCircularWait
PROPERTY LocksAreReleased
CHECK_DEADLOCK FALSE
