SPECIFICATION Spec
CONSTANTS
    Models <- MCModels
    Aliases <- MCAliases
    Leaf = Leaf
    None = None
    Programs <- MCPrograms
INVARIANT SchemaIsOfItsClass
INVARIANT SerializersKept
PROPERTY CircularAliasesFound
PROPERTY BuiltIsClosed
CHECK_DEADLOCK FALSE
