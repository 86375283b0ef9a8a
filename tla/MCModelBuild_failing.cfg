SPECIFICATION Spec
CONSTANTS
    Animal = Animal
    Dog = Dog
    Owner = Owner
    Chip = Chip
    Odd = Odd
    Loose = Loose
    Hard = Hard
    BaseModel = BaseModel
    Classes <- MCClasses
    Types = {Odd, Loose, Hard}
    Parent <- MCFlat
    OwnRefs <- MCFailingRefs
    Kind <- MCFailing
    Deferred = {Owner}
    Forces = {TRUE, FALSE}
INVARIANT BuiltTogether
PROPERTY ValidatorLostOnlyToRaisingForce
