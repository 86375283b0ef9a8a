SPECIFICATION Spec
CHECK_DEADLOCK FALSE
SYMMETRY Symmetric
CONSTANTS
    Instances = {i1, i2}
    Names <- MCNames
    Underscored = {"_p", "_u"}
    Values = {"a", "b"}
    NoValue = "no value"
    ClassValue = "class value"
    Models <- MCModels
INVARIANT HandlersUpToDate
INVARIANT UnsetFieldsHoldDefaults
INVARIANT EqualityIsOfTheModel
PROPERTY InstancesIndependent
PROPERTY AssignmentReadsBack
