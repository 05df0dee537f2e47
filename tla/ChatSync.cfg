\* A friend and a group; two QQ events before, during or after the sync.
\* When all is handled nothing is left to do but lose and get a session.
SPECIFICATION SyncSpec
CONSTANTS
  friend = friend
  group = group
  Ids = {friend, group}
  NoId = NoId
  Contacts <- MCContacts
  Friends = {friend}
  MyGroups = {group}
  MaxEvents = 2
INVARIANTS
  SyncTypeOK
  RoomKnowsItsType
  MessagesGetRooms
