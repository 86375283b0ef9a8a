SPECIFICATION Spec
CONSTANTS
  Discriminator = "kind"
  OtherDiscriminator = "sub"
  NoAlias = NoAlias
  NoneValue = NoneValue
  NoRef = NoRef
  ReferenceInputs <- MCReferenceInputs
  NameInputs <- MCNameInputs
  MaxIterations = 100
  Depth = 5
  None = None
  FieldInputs <- MCFieldInputs
  DecoratorInputs <- MCDecoratorInputs
  Kinds = {"field_validators", "field_serializers"}
INVARIANT TaggedUnionAcceptsWhatIsTagged
INVARIANT ClearUnionsAreTagged
INVARIANT JsonSchemaIsClosed
INVARIANT OnlyNeededTypesFail
INVARIANT NamesAreUnambiguous
INVARIANT DecoratorsFollowOverriding
INVARIANT OneSerializerPerField
INVARIANT FieldsDoNotDependOnTime
INVARIANT ValidatorsRunInOrder
CHECK_DEADLOCK FALSE
