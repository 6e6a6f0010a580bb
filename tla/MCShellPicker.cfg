SPECIFICATION ShellSpec
CONSTANTS
  Chat = {a, n}
  Existing = {a}
  Pickable = {m}
  NoPick = NoPick
  NoChat = NoChat
  Other = Other
  MaxViews = 2
  MaxLists = 1
  MaxPosts = 1
PROPERTIES
  PickerShowsRow
