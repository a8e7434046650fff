SPECIFICATION Spec
CONSTANTS
  Players <- MCPlayers
  Leader <- MCLeader
  Settings <- MCSettings
  Deeds <- MCDeeds
  Unending <- MCUnending
  Calls <- MCCalls
CHECK_DEADLOCK FALSE
INVARIANTS
  TypeOK
  DisposedIsEmpty
  NobodyForgotten
  LobbyReturned
  EmptyEventWillEnd
