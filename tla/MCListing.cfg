\* Two requests with one key, one that uses a template, a batch, an editor,
\* and a client that reads the list page by page.
SPECIFICATION ListSpec
CONSTANTS
    r1 = r1  r2 = r2  r3 = r3  i1 = i1  i2 = i2  k1 = k1  t1 = t1  e1 = e1
    NoKey = NoKey  NoTemplate = NoTemplate
    Single <- Singles
    Item <- Items
    KeyOf <- Keys
    TemplateOf <- Names
    Template <- Templates
    Editor <- Editors
    Asked = 1
    DefaultSize = 2
    LargestSize = 3
CHECK_DEADLOCK FALSE
INVARIANTS
    ListTypeOK
    OneNotificationPerKey
    BatchIsWhole
    NothingMissed
PROPERTIES
    DeletedForGood
