SPECIFICATION DataclassFairSpec
CONSTANTS
    Animal = Animal
    Dog = Dog
    Owner = Owner
    Odd = Odd
    BaseModel = BaseModel
    Classes <- MCClasses
    Types = {Odd}
    Parent <- MCParent
    OwnRefs <- MCOwnRefs
    Kind <- MCKind
    Deferred = {Owner, Dog}
    Forces = {TRUE, FALSE}
INVARIANT DataclassTogether
PROPERTY LostOnlyToRaisingBuild
PROPERTY UsedDataclassesHeal
