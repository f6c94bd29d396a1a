\* Two requests of one service in flight; every element of Uses is one
\* service, so that ids of two services may share their model values.
SPECIFICATION Spec
CONSTANTS
  None = None
  Req = {r1, r2}
  Account = {a1, a2}
  Email = {a1, a2}
  Ext = {a1, a2}
  Page = {a1, a2}
  Event = {b1, b2}
  User = {b1, b2}
  Sheet = {c1, c2, c3}
  Token = {c1, c2, c3}
  LastRow = 2
  Product = {d1}
  Channel = {d1}
  Batch = 2
  Traffic = 5
  Lives = 2
  Phone = {d1, d2}
  Name = {d1, d2}
  Default = d1
  Uses = {
    {"legacy", "createEvent", "append", "update", "clear"},
    {"legacy", "append", "update", "employee", "rekey", "fail"},
    {"legacy", "update", "employee", "rekey", "reopen", "clear", "fail"},
    {"legacy", "createEvent", "update", "rekey", "fail"},
    {"google", "config", "rows", "header", "fail"},
    {"google", "expire", "config", "ensure", "fail"},
    {"google", "reconnect", "disconnect", "expire", "createEvent", "updateEvent", "deleteEvent", "fail"},
    {"google", "reconnect", "disconnect", "expire", "ensure", "fail"},
    {"google", "reconnect", "append"},
    {"google", "createEvent", "append"},
    {"product", "pdf"},
    {"businessConfig"},
    {"register", "erase"},
    {"addUser", "erase", "addTenant"},
    {"register", "addUser", "editUser"},
    {"addUser", "editUser", "forgot", "setActive"},
    {"addUser", "forgot", "reset"},
    {"connect", "qr", "status", "logout", "delete"},
    {"connect", "status", "delete", "link"},
    {"hook", "channel", "ping"}}
INVARIANT ServicesTypeOK
INVARIANT TokenIsOwn
INVARIANT SheetsBounded
INVARIANT CancelKept
INVARIANT FilesAgree
INVARIANT OrphanHasCause
INVARIANT FounderIsOwner
INVARIANT TokensBounded
INVARIANT InstanceAgrees
INVARIANT ConnectedIsReal
INVARIANT OffIsQuiet
INVARIANT CountIsOwn
PROPERTY OtherRowsKept
PROPERTY QrKept
SYMMETRY Interchangeable
CHECK_DEADLOCK FALSE
