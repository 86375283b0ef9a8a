SPECIFICATION FairSpec
CONSTANTS
    Node = Node
    Leaf = Leaf
    Twig = Twig
    Int = Int
    Str = Str
    T = T
    Nothing = Nothing
    Placeholder = Placeholder
    Origins = {Node, Leaf, Twig}
    Nested <- MCNested
    Programs <- MCPrograms
    AskedAgain <- MCAskedAgain
    Copies = {1, 2}
    Objects = {1, 2}
INVARIANT AwaitedClassContainsIt
INVARIANT OneClassPerParametrization
PROPERTY AnswersTheQuestion
PROPERTY CallsEnd
