------------------------ MODULE ModelRebuildThreads ------------------------
(***************************************************************************)
(* model_rebuild() of one class, called by several threads at once.  The   *)
(* calls are those of ModelBuild; a step is one access to a class          *)
(* attribute, which the interpreter does atomically, or the evaluation of  *)
(* the fields or schema generation, which read the namespaces.  Nothing in *)
(* the code locks the class: a thread tests an attribute and deletes it,   *)
(* deletes three attributes and sets them again much later, and reads the  *)
(* one it came for at the end.                                             *)
(***************************************************************************)
EXTENDS Naturals, FiniteSets

CONSTANTS
    Threads,
    CallKinds,   \* subset of {"use", "rebuild", "force"}
    InitMissing  \* the values `missing` may have when the threads start

ASSUME ThreadsAssumption ==
    /\ CallKinds \subseteq {"use", "rebuild", "force"}
    /\ InitMissing \subseteq {"nothing", "own", "nested"}

VARIABLES
    complete,       \* __pydantic_complete__
    fieldsComplete, \* __pydantic_fields_complete__
    attr,           \* the core schema, validator and serializer in the __dict__
    missing,        \* what does not resolve: an annotation of the class itself,
                    \* one of a class nested in it, or nothing
    failures,       \* how builds have failed so far: mocks set, or only raised
    pc, at,         \* where each thread is, and at which of the three attributes
    call,           \* the call each thread is in
    answer          \* what its last call answered

vars == <<complete, fieldsComplete, attr, missing, failures, pc, at, call, answer>>

\* The order the three attributes are cleared, mocked and set in.
Core == 1
Val == 2
Ser == 3
Attrs == Core .. Ser

Steps == {"idle", "read", "reset", "check", "delete", "fields", "mock_fields",
          "recheck", "generate", "mock", "set", "finish", "reread"}

Answers == {"none", "true", "false", "own", "parent", "undefined", "not_defined",
            "attribute_error"}

CallsMade == [kind : {"use", "rebuild", "force"}, raise : BOOLEAN]

-----------------------------------------------------------------------------
At(t, step) == pc[t] = step

Goto(t, step) == pc' = [pc EXCEPT ![t] = step] /\ UNCHANGED at

GotoAttr(t, step, i) ==
    pc' = [pc EXCEPT ![t] = step] /\ at' = [at EXCEPT ![t] = i]

Answer(t, out) == /\ answer' = [answer EXCEPT ![t] = out]
                  /\ Goto(t, "idle")

\* Mutant: the handler looks the attribute up again whatever model_rebuild() returned.
Return_IgnoresFailure(t, out) ==
    IF call[t].kind # "use" \/ out \in {"undefined", "attribute_error"} THEN Answer(t, out)
    ELSE Goto(t, "reread") /\ UNCHANGED answer

\* model_rebuild() has ended: a mock goes on with what it returned, an exception
\* passes through.
Return(t, out) ==
    IF call[t].kind # "use" \/ out \in {"undefined", "attribute_error"} THEN Answer(t, out)
    ELSE IF out = "false" THEN Answer(t, "not_defined")
    ELSE Goto(t, "reread") /\ UNCHANGED answer

\* The attribute lookup cls.__pydantic_validator__, and the call of a method of
\* what it finds.
LookUpValidator(t) ==
    \/ attr[Val] = "real" /\ Answer(t, "own")
    \/ attr[Val] = "absent" /\ Answer(t, "parent")
    \/ attr[Val] = "mock" /\ Goto(t, "read") /\ answer' = [answer EXCEPT ![t] = "none"]

Init ==
    /\ complete = FALSE
    /\ attr = [i \in Attrs |-> "mock"]
    /\ missing \in InitMissing
    /\ fieldsComplete = (missing # "own")
    /\ failures = {}
    /\ pc = [t \in Threads |-> "idle"]
    /\ at = [t \in Threads |-> Core]
    /\ call = [t \in Threads |-> [kind |-> "use", raise |-> FALSE]]
    /\ answer = [t \in Threads |-> "none"]

\* A validation; a mock passes raise_errors=False.
Use(t) ==
    /\ At(t, "idle") /\ "use" \in CallKinds
    /\ call' = [call EXCEPT ![t] = [kind |-> "use", raise |-> FALSE]]
    /\ LookUpValidator(t)
    /\ UNCHANGED <<complete, fieldsComplete, attr, missing, failures>>

\* model_rebuild(force=(kind = "force"), raise_errors=raise)
Rebuild(t, kind, raise) ==
    /\ At(t, "idle") /\ kind \in CallKinds \ {"use"}
    /\ call' = [call EXCEPT ![t] = [kind |-> kind, raise |-> raise]]
    /\ Goto(t, "read")
    /\ answer' = [answer EXCEPT ![t] = "none"]
    /\ UNCHANGED <<complete, fieldsComplete, attr, missing, failures>>

ReadComplete(t) ==
    /\ At(t, "read")
    /\ IF complete /\ call[t].kind # "force" THEN Return(t, "none")
       ELSE Goto(t, "reset") /\ UNCHANGED answer
    /\ UNCHANGED <<complete, fieldsComplete, attr, missing, failures, call>>

ResetComplete(t) ==
    /\ At(t, "reset")
    /\ complete' = FALSE
    /\ GotoAttr(t, "check", Core)
    /\ UNCHANGED <<fieldsComplete, attr, missing, failures, call, answer>>

\* The next attribute of the loop that clears them, or what follows the loop.
Cleared(t) ==
    IF at[t] = Ser THEN Goto(t, "fields") ELSE GotoAttr(t, "check", at[t] + 1)

\* MockValSer instances are kept; a MockCoreSchema is not one.
Keeps(i, a) == a = "absent" \/ (a = "mock" /\ i # Core)

CheckAttr(t) ==
    /\ At(t, "check")
    /\ IF Keeps(at[t], attr[at[t]]) THEN Cleared(t) ELSE Goto(t, "delete")
    /\ UNCHANGED <<complete, fieldsComplete, attr, missing, failures, call, answer>>

\* delattr() raises AttributeError if another thread was faster.
DeleteAttr(t) ==
    /\ At(t, "delete")
    /\ IF attr[at[t]] = "absent"
       THEN Return(t, "attribute_error") /\ UNCHANGED <<attr, at>>
       ELSE /\ attr' = [attr EXCEPT ![at[t]] = "absent"]
            /\ Cleared(t)
            /\ UNCHANGED answer
    /\ UNCHANGED <<complete, fieldsComplete, missing, failures, call>>

\* rebuild_model_fields() evaluates the annotations that could not be evaluated yet.
\* One that still cannot be leads to mocks, whether or not it is raised then.
BuildFields(t) ==
    /\ At(t, "fields")
    /\ IF fieldsComplete \/ missing # "own"
       THEN fieldsComplete' = TRUE /\ Goto(t, "generate") /\ UNCHANGED failures
       ELSE /\ GotoAttr(t, "mock_fields", Core)
            /\ failures' = failures \cup {"mocked"}
            /\ UNCHANGED fieldsComplete
    /\ UNCHANGED <<complete, attr, missing, call, answer>>

\* Without raise_errors the flag of the fields is read again, which another thread
\* may have completed in the meantime.
RecheckFields(t) ==
    /\ At(t, "recheck")
    /\ IF fieldsComplete THEN Goto(t, "generate") /\ UNCHANGED answer
       ELSE Return(t, "false")
    /\ UNCHANGED <<complete, fieldsComplete, attr, missing, failures, call>>

\* Mutant: only the serializer is stored.
Generate_StoresSerializer(t) ==
    /\ At(t, "generate")
    /\ IF missing = "nothing"
       THEN GotoAttr(t, "set", Ser) /\ UNCHANGED failures
       ELSE GotoAttr(t, "mock", Core) /\ failures' = failures \cup {"mocked"}
    /\ UNCHANGED <<complete, fieldsComplete, attr, missing, call, answer>>

\* generate_schema(): an unresolved annotation of a nested class leads to mocks only
\* if nothing is raised.
Generate(t) ==
    /\ At(t, "generate")
    /\ IF missing = "nothing"
       THEN GotoAttr(t, "set", Core) /\ UNCHANGED <<failures, answer>>
       ELSE IF call[t].raise
       THEN Return(t, "undefined") /\ failures' = failures \cup {"raised"}
       ELSE /\ GotoAttr(t, "mock", Core)
            /\ failures' = failures \cup {"mocked"}
            /\ UNCHANGED answer
    /\ UNCHANGED <<complete, fieldsComplete, attr, missing, call>>

\* set_model_mocks(), attribute by attribute.
MockAttr(t) ==
    /\ pc[t] \in {"mock_fields", "mock"}
    /\ attr' = [attr EXCEPT ![at[t]] = "mock"]
    /\ \/ at[t] # Ser /\ GotoAttr(t, pc[t], at[t] + 1) /\ UNCHANGED answer
       \/ at[t] = Ser /\ At(t, "mock") /\ Return(t, "false")
       \/ /\ at[t] = Ser /\ At(t, "mock_fields")
          /\ IF call[t].raise THEN Return(t, "undefined")
             ELSE Goto(t, "recheck") /\ UNCHANGED answer
    /\ UNCHANGED <<complete, fieldsComplete, missing, failures, call>>

\* Mutant: the class is complete as soon as it has a validator.
SetAttr_CompletesEarly(t) ==
    /\ At(t, "set")
    /\ attr' = [attr EXCEPT ![at[t]] = "real"]
    /\ complete' = (complete \/ at[t] = Val)
    /\ IF at[t] = Val THEN Return(t, "true")
       ELSE GotoAttr(t, "set", at[t] + 1) /\ UNCHANGED answer
    /\ UNCHANGED <<fieldsComplete, missing, failures, call>>

SetAttr(t) ==
    /\ At(t, "set")
    /\ attr' = [attr EXCEPT ![at[t]] = "real"]
    /\ IF at[t] = Ser THEN Goto(t, "finish") ELSE GotoAttr(t, "set", at[t] + 1)
    /\ UNCHANGED <<complete, fieldsComplete, missing, failures, call, answer>>

Finish(t) ==
    /\ At(t, "finish")
    /\ complete' = TRUE
    /\ Return(t, "true")
    /\ UNCHANGED <<fieldsComplete, attr, missing, failures, call>>

\* The handler of the mock looks the attribute up again.
Reread(t) ==
    /\ At(t, "reread")
    /\ LookUpValidator(t)
    /\ UNCHANGED <<complete, fieldsComplete, attr, missing, failures, call>>

\* The missing name is defined.
Resolve ==
    /\ missing # "nothing"
    /\ missing' = "nothing"
    /\ UNCHANGED <<complete, fieldsComplete, attr, failures, pc, at, call, answer>>

Advance(t) ==
    \/ ReadComplete(t)
    \/ ResetComplete(t)
    \/ CheckAttr(t)
    \/ DeleteAttr(t)
    \/ BuildFields(t)
    \/ RecheckFields(t)
    \/ Generate(t)
    \/ MockAttr(t)
    \/ SetAttr(t)
    \/ Finish(t)
    \/ Reread(t)

Next ==
    \/ \E t \in Threads : Use(t)
    \/ \E t \in Threads, kind \in CallKinds, raise \in BOOLEAN : Rebuild(t, kind, raise)
    \/ \E t \in Threads : Advance(t)
    \/ Resolve

Spec == Init /\ [][Next]_vars

\* The interpreter runs every thread that can run.
FairSpec == Spec /\ \A t \in Threads : WF_vars(Advance(t))

-----------------------------------------------------------------------------
(* Properties.                                                             *)

TypeOK ==
    /\ complete \in BOOLEAN
    /\ fieldsComplete \in BOOLEAN
    /\ attr \in [Attrs -> {"absent", "mock", "real"}]
    /\ missing \in {"nothing", "own", "nested"}
    /\ failures \subseteq {"mocked", "raised"}
    /\ pc \in [Threads -> Steps]
    /\ at \in [Threads -> Attrs]
    /\ call \in [Threads -> CallsMade]
    /\ answer \in [Threads -> Answers]

\* Thread t is past the deletion of attribute i and will put it back.
Owes(t, i) ==
    \/ At(t, "check") /\ at[t] > i
    \/ At(t, "delete") /\ at[t] > i
    \/ pc[t] \in {"fields", "generate"}
    \/ pc[t] \in {"mock_fields", "mock", "set"} /\ at[t] <= i

\* However the tests, deletions and AttributeErrors of the threads interleave, an
\* attribute that is gone is owed by a thread that is still at work, unless a
\* rebuild raised before it had set mocks: no interleaving alone leaves the class
\* with the validator of its parent for good.
DeletedAttributeIsOwed ==
    "raised" \notin failures =>
        \A i \in Attrs : attr[i] = "absent" => \E t \in Threads : Owes(t, i)

\* Once no thread is at work and no build has failed, the flag and the three
\* attributes agree again, whoever was overtaken by whom.
QuietClassIsTogether ==
    (\A t \in Threads : At(t, "idle")) /\ failures = {} =>
        (complete <=> \A i \in Attrs : attr[i] = "real")

\* Every call ends, whatever fails and whoever is overtaken, unless the class is left
\* for good with the flag of one thread and the mock of another: then the handler of
\* the mock finds a mock, its model_rebuild() does nothing, and it calls itself up to
\* the interpreter's limit.  A rebuild that succeeds in between ends the call.
CallsEnd ==
    \A t \in Threads :
        ~At(t, "idle") ~> At(t, "idle") \/ [](complete /\ attr[Val] = "mock")

\* The comment in model_rebuild() (main.py:627-630): mocks are kept, as otherwise
\* "concurrent model instantiations can lead to the parent validator being used".
ParentValidatorNotUsed == \A t \in Threads : answer[t] # "parent"

=============================================================================
