SPECIFICATION Spec
CONSTANTS
  u1 = u1
  u2 = u2
  u3 = u3
  direct = direct
  group = group
  c1 = c1
  c2 = c2
  NoCall = NoCall
  User <- MCUser
  Conversation <- MCConversation
  MembersOf <- MCMembersOf
  CallId <- MCCallId
  MaxParticipants = 2
SYMMETRY Symmetric
INVARIANTS
  TypeOK
  CallShape
  BusyOnlyInLiveCall
PROPERTIES
  EndedIsFinal
  AnsweredOnlyAtHangUp
