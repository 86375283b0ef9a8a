SPECIFICATION FairSpec
CONSTANTS
    Animal = Animal
    Dog = Dog
    Owner = Owner
    Chip = Chip
    Odd = Odd
    Loose = Loose
    Hard = Hard
    BaseModel = BaseModel
    Classes <- MCClasses
    Types = {Chip}
    Parent <- MCParent
    OwnRefs <- MCOwnRefs
    Kind <- MCPlain
    Deferred = {Owner}
    Forces = {TRUE, FALSE}
INVARIANT StoredSchemasClosed
INVARIANT AlwaysRepairable
PROPERTY LazySpec
PROPERTY UsedClassesHeal
