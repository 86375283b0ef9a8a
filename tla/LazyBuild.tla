----------------------------- MODULE LazyBuild ------------------------------
(***************************************************************************)
(* What a program may rely on about the building of its model classes,     *)
(* with fields, schemas and mocks left out: a class is validated with only *)
(* while it is ready, and by its own validator unless it was spoiled.      *)
(***************************************************************************)
CONSTANTS Classes, Nobody

VARIABLES
    phase,    \* how far each class is
    answer    \* <<c, h>>: c was just validated with, by the validator of h

vars == <<phase, answer>>

NoAnswer == <<Nobody, Nobody>>

Init == phase = [c \in Classes |-> "undefined"] /\ answer = NoAnswer

Create(c) ==
    /\ phase[c] = "undefined"
    /\ \E p \in {"pending", "ready"} : phase' = [phase EXCEPT ![c] = p]
    /\ answer' = NoAnswer

\* A build succeeds.
Complete(c) ==
    /\ phase[c] # "undefined"
    /\ phase' = [phase EXCEPT ![c] = "ready"]
    /\ answer' = NoAnswer

\* A build fails: the class can be retried by using it, or, when it had been
\* ready before, only by asking for a rebuild.
Fail(c) ==
    /\ phase[c] # "undefined"
    /\ \E p \in {"pending", "spoiled"} :
          /\ p = "spoiled" => phase[c] \in {"ready", "spoiled"}
          /\ phase' = [phase EXCEPT ![c] = p]
    /\ answer' = NoAnswer

\* c is validated with, by the validator of h, which may be built for that.
Serve(c, h) ==
    /\ phase[c] # "undefined"
    /\ phase[h] \in {"pending", "ready"}
    /\ h # c => phase[c] = "spoiled"
    /\ phase' = [phase EXCEPT ![h] = "ready"]
    /\ answer' = <<c, h>>

\* Anything else the program does.
Idle == answer' = NoAnswer /\ UNCHANGED phase

Next ==
    \/ \E c \in Classes : Create(c) \/ Complete(c) \/ Fail(c)
    \/ \E c, h \in Classes : Serve(c, h)
    \/ Idle

Spec == Init /\ [][Next]_vars
=============================================================================
