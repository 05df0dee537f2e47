\* No message arrives: the rooms are the sync's to make.
SPECIFICATION SyncSpec
CONSTANTS
  friend = friend
  group = group
  Ids = {friend, group}
  NoId = NoId
  Contacts <- MCContacts
  Friends = {friend}
  MyGroups = {group}
  MaxEvents = 0
INVARIANT ContactsGetRooms
