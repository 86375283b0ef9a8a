---------------------------- MODULE ValidateCall ----------------------------
(***************************************************************************)
(* _internal/_validate_call.py: one function wrapped by validate_call, and *)
(* the threads that call it.                                               *)
(*                                                                         *)
(* With defer_build the first call builds the validators of the arguments  *)
(* and of the return value; nothing keeps two threads from doing so at the *)
(* same time.  A build may fail, because a name an annotation uses is not  *)
(* defined yet or because of a plugin, and leave the wrapper with a part   *)
(* of its attributes.  Building a validator goes through PluginLoader.     *)
(***************************************************************************)
EXTENDS PluginLoader

VARIABLES
    deferred,        \* config defer_build
    validateReturn,  \* validate_return
    bound,           \* the annotations whose names are defined
    exists,          \* the decorator returned
    complete,        \* __pydantic_complete__
    argsValidator,   \* __pydantic_validator__
    returnValidator, \* __return_pydantic_validator__
    pc               \* what a thread does with the wrapper

wrapper == <<exists, complete, argsValidator, returnValidator>>
options == <<deferred, validateReturn>>
vars == <<loaderVars, options, bound, wrapper, pc>>

Annotations == {"args", "return"}

Steps == {"idle", "args", "args_plugins", "return", "return_plugins", "set_none",
          "set_complete", "validate_args", "validate_return"}

\* The two validators: not an attribute of the slots yet, None, or built.
Slot == {"unset", "none", "set"}

TypeOK ==
    /\ LoaderTypeOK
    /\ deferred \in BOOLEAN /\ validateReturn \in BOOLEAN /\ exists \in BOOLEAN
    /\ bound \subseteq Annotations /\ complete \in BOOLEAN
    /\ argsValidator \in Slot \ {"none"} /\ returnValidator \in Slot
    /\ pc \in [Threads -> Steps]

Step(t, from, to) == pc[t] = from /\ pc' = [pc EXCEPT ![t] = to]

Init ==
    /\ LoaderInit
    /\ deferred \in BOOLEAN /\ validateReturn \in BOOLEAN /\ bound \in SUBSET Annotations
    /\ exists = FALSE /\ complete = FALSE
    /\ argsValidator = "unset" /\ returnValidator = "unset"
    /\ pc = [t \in Threads |-> "idle"]

-----------------------------------------------------------------------------

\* The program defines the names of an annotation.
Define(a) ==
    /\ a \notin bound /\ bound' = bound \cup {a}
    /\ UNCHANGED <<loaderVars, options, wrapper, pc>>

\* ValidateCallWrapper.__init__(), in one thread: nobody has the wrapper yet.
Decorate(t) ==
    /\ ~exists /\ \A u \in Threads : pc[u] = "idle"
    /\ IF deferred
       THEN exists' = TRUE /\ UNCHANGED pc
       ELSE Step(t, "idle", "args") /\ UNCHANGED exists
    /\ argsValidator' = "unset" /\ returnValidator' = "unset"
    /\ UNCHANGED <<loaderVars, options, bound, complete>>

\* Mutant: a wrapper that has a validator is not built again.
NeedsBuild_NoValidator == argsValidator = "unset"

NeedsBuild == ~complete

\* __call__()
Call(t) ==
    /\ exists
    /\ Step(t, "idle", IF NeedsBuild THEN "args" ELSE "validate_args")
    /\ UNCHANGED <<loaderVars, options, bound, wrapper>>

\* generate_schema() and clean_schema(), for the arguments or the return value.
Generate(t, a, next) ==
    \/ a \in bound /\ Step(t, a, next) /\ GetPlugins(t)
    \/ a \notin bound /\ Step(t, a, "idle") /\ UNCHANGED loaderVars

GenerateArgs(t) ==
    /\ Generate(t, "args", "args_plugins")
    /\ UNCHANGED <<options, bound, wrapper>>

GenerateReturn(t) ==
    /\ Generate(t, "return", "return_plugins")
    /\ UNCHANGED <<options, bound, wrapper>>

\* Inside create_schema_validator().
CreateValidator(t) ==
    InLoader(t) /\ UNCHANGED <<options, bound, wrapper, pc>>

\* create_schema_validator() raised.
CreateRaised(t) ==
    /\ at[t] = "raised" /\ Leave(t)
    /\ pc' = [pc EXCEPT ![t] = "idle"]
    /\ UNCHANGED <<options, bound, wrapper>>

SetValidator(t) ==
    /\ at[t] = "built" /\ Leave(t)
    /\ Step(t, "args_plugins", IF validateReturn THEN "return" ELSE "set_none")
    /\ argsValidator' = "set"
    /\ UNCHANGED <<options, bound, exists, complete, returnValidator>>

SetReturnValidator(t) ==
    /\ \/ at[t] = "built" /\ Leave(t) /\ Step(t, "return_plugins", "set_complete")
          /\ returnValidator' = "set"
       \/ Step(t, "set_none", "set_complete") /\ UNCHANGED loaderVars
          /\ returnValidator' = "none"
    /\ UNCHANGED <<options, bound, exists, complete, argsValidator>>

\* Mutant: the flag is never set.
Completed_Never == complete

Completed == TRUE

\* __pydantic_complete__ = True; the constructor returns, a call goes on.
SetComplete(t) ==
    /\ Step(t, "set_complete", IF exists THEN "validate_args" ELSE "idle")
    /\ complete' = Completed /\ exists' = TRUE
    /\ UNCHANGED <<loaderVars, options, bound, argsValidator, returnValidator>>

\* The rest of __call__(): the function itself is called by the validator.
ValidateArgs(t) ==
    /\ argsValidator = "set"
    /\ Step(t, "validate_args", "validate_return")
    /\ UNCHANGED <<loaderVars, options, bound, wrapper>>

ValidateReturn(t) ==
    /\ returnValidator # "unset"
    /\ Step(t, "validate_return", "idle")
    /\ UNCHANGED <<loaderVars, options, bound, wrapper>>

Proceed(t) ==
    \/ GenerateArgs(t) \/ CreateValidator(t) \/ CreateRaised(t) \/ SetValidator(t)
    \/ GenerateReturn(t) \/ SetReturnValidator(t) \/ SetComplete(t)
    \/ ValidateArgs(t) \/ ValidateReturn(t)

Next ==
    \/ \E a \in Annotations : Define(a)
    \/ \E t \in Threads : Decorate(t) \/ Call(t) \/ Proceed(t)

Spec == Init /\ [][Next]_vars

\* A thread that is in a call gets on with it, and the program keeps calling.
Fairness == \A t \in Threads : WF_vars(Proceed(t)) /\ WF_vars(Call(t))

FairSpec == Spec /\ Fairness

-----------------------------------------------------------------------------
(* Properties.                                                             *)

\* A call that validates finds both validators, whichever threads built them
\* and whatever builds failed before: a call never meets an unset attribute and
\* never hands back a return value it was asked to validate.
CallsFindValidators ==
    \A t \in Threads : exists /\ pc[t] \in {"validate_args", "validate_return"} =>
        /\ argsValidator = "set"
        /\ returnValidator = (IF validateReturn THEN "set" ELSE "none")

\* A deferred wrapper that is called heals once its names are defined, after
\* failed builds and whatever the plugins do.
CalledWrapperHeals == exists /\ bound = Annotations ~> complete
=============================================================================
