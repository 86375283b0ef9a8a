---------------------- MODULE MCGenericParametrization ----------------------
(* Three models that contain one another, the first one also itself; unions *)
(* in both orders and both spellings, and lists, as arguments.              *)
EXTENDS GenericParametrization, TLC

CONSTANTS Node, Leaf, Twig, Int, Str

Plain == Written("plain", <<Int>>)
Union == Written("plain", <<Int, Str>>)
Swapped == Written("plain", <<Str, Int>>)
Pipe == Piped("plain", <<Int, Str>>)
SwappedPipe == Piped("plain", <<Str, Int>>)
ListOfT == Written("list", <<T>>)
ListOfUnion == Written("list", <<Int, Str>>)
ListOfSwapped == Written("list", <<Str, Int>>)

MCNested == Node :> <<Leaf, Twig, Node>> @@ Leaf :> <<Node>> @@ Twig :> <<Leaf>>
MCAskedAgain == {Union}

\* A model and a part of it; unions in both orders, of a model and of a part of it,
\* without and with `|`; a union in a list, directly and through a class that
\* contains T, in both orders, and as part and whole.
MCPrograms ==
    {Node :> {Plain} @@ Leaf :> {Plain} @@ Twig :> {},
     Node :> {TypeVar, Union} @@ Leaf :> {Swapped} @@ Twig :> {},
     Node :> {Union, Pipe} @@ Leaf :> {SwappedPipe} @@ Twig :> {},
     Node :> {ListOfT, ListOfUnion} @@ Leaf :> {} @@ Twig :> {},
     Node :> {ListOfUnion, ListOfSwapped} @@ Leaf :> {} @@ Twig :> {},
     Node :> {ListOfUnion} @@ Leaf :> {ListOfUnion} @@ Twig :> {}}

=============================================================================
