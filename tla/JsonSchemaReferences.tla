------------------------ MODULE JsonSchemaReferences ------------------------
(***************************************************************************)
(* How generate() (json_schema.py) ends: the references of the JSON schema *)
(* are counted, depth first and through the definitions; the reference of  *)
(* the whole schema is replaced by its definition if it is the only one;   *)
(* and the definitions that nothing refers to any more are collected.      *)
(*                                                                         *)
(* Of a JSON schema there are left its references, in order; one that is   *)
(* nothing but a reference has it in ref.  Left out are references to      *)
(* other documents, and those in a sibling key of a reference.             *)
(***************************************************************************)
EXTENDS Algorithms, Naturals, Sequences, SequencesExt

CONSTANTS
    NoRef,            \* in place of a reference
    ReferenceInputs   \* [algorithm, json, definitions, invalid]: the schema, the
                      \* definitions by key, and the keys of those that have none

Json(refs) == [ref |-> NoRef, refs |-> refs]
RefTo(key) == [ref |-> key, refs |-> <<key>>]

Refers(json) ==
    /\ json.refs \in Seq({json.refs[i] : i \in DOMAIN json.refs})
    /\ json.ref # NoRef => json.refs = <<json.ref>>

ASSUME ReferencesAssumption ==
    \A asked \in ReferenceInputs :
        /\ asked.algorithm = "references"
        /\ Refers(asked.json)
        /\ \A k \in DOMAIN asked.definitions : Refers(asked.definitions[k])

RefsOf(json) == Range(json.refs)

-----------------------------------------------------------------------------
\* What generate() has at this point.  todo are the references still to count,
\* in the order of the traversal; whole is the JSON schema before it is unpacked.
Counting(json, definitions, invalid) ==
    [type |-> "count", problem |-> "none", whole |-> json, json |-> json,
     definitions |-> definitions, invalid |-> invalid,
     todo |-> json.refs, counts |-> <<>>, visited |-> {}, unvisited |-> {}]

ReferencesInit == input \in ReferenceInputs /\ answer = Pending

BeginReferences ==
    /\ Asked("references")
    /\ answer' = Counting(input.json, input.definitions, input.invalid)
    /\ UNCHANGED input

\* get_json_ref_counts() meets a reference again.
CountAgain ==
    /\ answer.type = "count" /\ answer.todo # <<>>
    /\ Head(answer.todo) \in DOMAIN answer.counts
    /\ answer' = [answer EXCEPT !.counts[Head(answer.todo)] = @ + 1, !.todo = Tail(@)]
    /\ UNCHANGED input

Resolved(key) == key \in DOMAIN answer.definitions \ answer.invalid

\* It meets one for the first time, and goes on with the definition.
CountFirst ==
    /\ answer.type = "count" /\ answer.todo # <<>>
    /\ LET key == Head(answer.todo)
       IN  /\ key \notin DOMAIN answer.counts /\ Resolved(key)
           /\ answer' = [answer EXCEPT
                !.counts = [k \in DOMAIN @ \cup {key} |-> IF k = key THEN 1 ELSE @[k]],
                !.todo = answer.definitions[key].refs \o Tail(@)]
    /\ UNCHANGED input

\* The error that was stored for the definition, or a KeyError.
Refuse ==
    /\ answer.type = "count" /\ answer.todo # <<>>
    /\ LET key == Head(answer.todo)
       IN  /\ key \notin DOMAIN answer.counts /\ ~Resolved(key)
           /\ answer' = [answer EXCEPT !.type = "unresolved",
                !.problem = IF key \in answer.invalid THEN "invalid" ELSE "missing"]
    /\ UNCHANGED input

\* Mutant: the definition takes the place of its reference, however often it is referred to.
Unpacked_Always(json, definitions, counts) ==
    IF json.ref # NoRef THEN definitions[json.ref] ELSE json

\* The only reference is replaced by what it refers to.
Unpacked(json, definitions, counts) ==
    IF json.ref # NoRef /\ counts[json.ref] = 1 THEN definitions[json.ref] ELSE json

Unpack ==
    /\ answer.type = "count" /\ answer.todo = <<>>
    /\ LET json == Unpacked(answer.whole, answer.definitions, answer.counts)
       IN  answer' = [answer EXCEPT !.type = "collect", !.json = json, !.unvisited = RefsOf(json)]
    /\ UNCHANGED input

\* _garbage_collect_definitions() takes a reference out of the set, any one.
SkipVisited ==
    /\ answer.type = "collect"
    /\ \E key \in answer.unvisited \cap answer.visited :
          answer' = [answer EXCEPT !.unvisited = @ \ {key}]
    /\ UNCHANGED input

\* Mutant: only what the schema itself refers to is visited.
NewRefs_OneLevel(key, definitions) == {}

NewRefs(key, definitions) == RefsOf(definitions[key])

Visit ==
    /\ answer.type = "collect"
    /\ \E key \in answer.unvisited \ answer.visited :
          answer' = IF key \in DOMAIN answer.definitions
                    THEN [answer EXCEPT !.visited = @ \cup {key},
                            !.unvisited = (@ \ {key}) \cup NewRefs(key, answer.definitions)]
                    ELSE [answer EXCEPT !.type = "unresolved", !.problem = "missing"]
    /\ UNCHANGED input

Collect ==
    /\ answer.type = "collect" /\ answer.unvisited = {}
    /\ answer' = [answer EXCEPT !.type = "schema",
                    !.definitions = [k \in DOMAIN @ \cap answer.visited |-> @[k]]]
    /\ UNCHANGED input

ReferencesStep == CountAgain \/ CountFirst \/ Refuse \/ Unpack \/ SkipVisited \/ Visit \/ Collect
ReferencesNext == BeginReferences \/ ReferencesStep
ReferencesSpec == ReferencesInit /\ [][ReferencesNext]_vars

-----------------------------------------------------------------------------
\* The keys have all that the schema refers to, and all that they refer to themselves.
ClosedUnder(keys, json, definitions) ==
    /\ RefsOf(json) \subseteq keys
    /\ \A k \in keys \cap DOMAIN definitions : RefsOf(definitions[k]) \subseteq keys

\* The JSON schema of one model has a definition for each of its references, each of its
\* definitions is referred to from it, and a definition that took the place of its reference is
\* not there a second time (generate()); no JSON schema is made if, and only if, a type without
\* one can be reached (get_json_ref_counts()).
JsonSchemaIsClosed ==
    /\ answer.type = "schema" =>
          /\ ClosedUnder(DOMAIN answer.definitions, answer.json, answer.definitions)
          /\ \A keys \in SUBSET DOMAIN answer.definitions :
                ClosedUnder(keys, answer.json, answer.definitions) => keys = DOMAIN answer.definitions
          /\ answer.json # answer.whole => answer.whole.ref \notin DOMAIN answer.definitions
          /\ DOMAIN answer.definitions \cap answer.invalid = {}
    /\ answer.type = "unresolved" =>
          ~ \E keys \in SUBSET (DOMAIN answer.definitions \ answer.invalid) :
                ClosedUnder(keys, answer.whole, answer.definitions)
=============================================================================
