SPECIFICATION Spec
CONSTANTS
  first = first
  retry = retry
  note = note
  call = call
  ann = ann
  chat = chat
  side = side
  k1 = k1
  k2 = k2
  photo = photo
  memo = memo
  text = text
  voice = voice
  None = None
  Sender = {ann}
  ClientMessageId = {k1, k2}
  Attachment = {photo, memo}
  Action = {text, voice}
  Limit <- MCLimit
  earlier <- MCEarlier
  WindowLength <- MCWindowLength
  Ticks = 2
  Conversation = {chat}
  Request <- MCRequest
  CallMessage = {call}
  input <- MCInput
  callIn <- MCCallIn
INVARIANTS
  TypeOK
  RetriesAgree
  WithinRateLimit
  AnnouncedOnce
  LastNotOvertaken
PROPERTY EveryRequestAnswered
CHECK_DEADLOCK FALSE
