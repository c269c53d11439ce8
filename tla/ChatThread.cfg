CONSTANTS
  text = text
  sticker = sticker
  LastPlace = 3
  Mine <- MCMine
  PageSize = 1
  Offline = {text}
  Sticker = {sticker}
  After <- MCAfter
  MaxEvents = 1
SPECIFICATION ThreadSpec
INVARIANTS ThreadTypeOK 
