--------------------- MODULE ModelRebuildThreadsProofs ---------------------
(***************************************************************************)
(* ModelRebuildThreads for any number of threads.  What keeps a deleted    *)
(* attribute owed is that delattr() fails for a thread only if another one *)
(* has just deleted the same attribute, and that one is further in the     *)
(* loop: it owes all that the failing thread owed.                         *)
(***************************************************************************)
EXTENDS ModelRebuildThreads, TLAPS

\* Thread t is about to get an AttributeError, unless the attribute is set again.
Doomed(t) == At(t, "delete") /\ attr[at[t]] = "absent"

AbsentIsOwed ==
    "raised" \notin failures =>
        \A i \in Attrs : attr[i] = "absent" => \E t \in Threads : Owes(t, i) /\ ~Doomed(t)

\* Mocks are those the class was created with until a build fails, and a build that
\* is setting attributes has replaced the ones behind it.
MocksAreOld ==
    /\ \A t \in Threads : pc[t] \in {"mock_fields", "recheck", "mock"} => failures # {}
    /\ failures = {} =>
          /\ complete => \A i \in Attrs : attr[i] # "mock"
          /\ \A t \in Threads : At(t, "set") => \A i \in Attrs : i < at[t] => attr[i] # "mock"
          /\ \A t \in Threads : At(t, "finish") => \A i \in Attrs : attr[i] # "mock"

\* Past the reset of the flag and before it is set again.
Building(t) == pc[t] \in {"check", "delete", "fields", "generate", "set", "finish"}

\* The flag is not set because nothing was ever built, or by a thread that will set it.
FlagIsOwed ==
    failures = {} /\ ~complete =>
        attr[Ser] = "mock" \/ \E t \in Threads : Building(t) /\ ~Doomed(t)

IInv == TypeOK /\ AbsentIsOwed /\ MocksAreOld /\ FlagIsOwed

-----------------------------------------------------------------------------
(* How a call goes on.                                                     *)

\* The lookup of the validator ends the call or enters model_rebuild().
LEMMA LookUpSteps ==
    ASSUME TypeOK, NEW t \in Threads, LookUpValidator(t)
    PROVE  /\ \E p \in {"idle", "read"} : pc' = [pc EXCEPT ![t] = p]
           /\ at' = at
           /\ answer' \in [Threads -> Answers]
<1>1. attr[Val] \in {"absent", "mock", "real"}
  BY DEF TypeOK, Attrs, Core, Val, Ser
<1>2. CASE attr[Val] = "real"
  BY <1>2 DEF LookUpValidator, Answer, Goto, TypeOK, Answers
<1>3. CASE attr[Val] = "absent"
  BY <1>3 DEF LookUpValidator, Answer, Goto, TypeOK, Answers
<1>4. CASE attr[Val] = "mock"
  BY <1>4 DEF LookUpValidator, Answer, Goto, TypeOK, Answers
<1> QED
  BY <1>1, <1>2, <1>3, <1>4

\* The end of model_rebuild() ends the call or leads back to the handler of the mock.
LEMMA ReturnSteps ==
    ASSUME TypeOK, NEW t \in Threads, NEW out \in Answers, Return(t, out)
    PROVE  /\ \E p \in {"idle", "reread"} : pc' = [pc EXCEPT ![t] = p]
           /\ at' = at
           /\ answer' \in [Threads -> Answers]
BY DEF Return, Answer, Goto, TypeOK, Answers

-----------------------------------------------------------------------------
(* Steps of t that leave the attributes alone, or only take t out of the    *)
(* call before or after the build.                                         *)

Outside == {"idle", "read", "reset", "reread"}

\* A step between two places outside the build, or into it.
LEMMA OutsideStep ==
    ASSUME IInv, NEW t \in Threads, pc[t] \in Outside,
           NEW p \in Outside, pc' = [pc EXCEPT ![t] = p], at' = at,
           UNCHANGED <<complete, fieldsComplete, attr, missing, failures>>,
           call' \in [Threads -> CallsMade], answer' \in [Threads -> Answers]
    PROVE  IInv'
<1>0. p \in Steps
  BY DEF Outside, Steps
<1>1. TypeOK'
  BY <1>0 DEF IInv, TypeOK
<1>2. \A u \in Threads, i \in Attrs : Owes(u, i) <=> Owes(u, i)'
  BY DEF IInv, TypeOK, Owes, At, Outside
<1>3. \A u \in Threads : /\ Doomed(u) <=> Doomed(u)'
                         /\ Building(u) <=> Building(u)'
  BY DEF IInv, TypeOK, Doomed, Building, At, Outside
<1>4. AbsentIsOwed'
  BY <1>2, <1>3 DEF IInv, AbsentIsOwed
<1>5. MocksAreOld'
  BY DEF IInv, TypeOK, MocksAreOld, At, Outside
<1>6. FlagIsOwed'
  BY <1>3 DEF IInv, FlagIsOwed
<1> QED
  BY <1>1, <1>4, <1>5, <1>6 DEF IInv

\* The steps and attributes the actions name.
LEMMA Places ==
    /\ "check" \in Steps /\ "delete" \in Steps /\ "fields" \in Steps
    /\ "mock_fields" \in Steps /\ "recheck" \in Steps /\ "generate" \in Steps
    /\ "mock" \in Steps /\ "set" \in Steps /\ "finish" \in Steps
    /\ Core \in Attrs /\ Val \in Attrs /\ Ser \in Attrs
    /\ Attrs \subseteq Nat
    /\ \A i \in Attrs : i # Ser => i + 1 \in Attrs
BY DEF Steps, Attrs, Core, Val, Ser

\* Once a rebuild has raised, only the types are left to keep.
LEMMA FailureLeavesLittle ==
    ASSUME failures' = failures \cup {"raised"}
    PROVE  AbsentIsOwed' /\ MocksAreOld' /\ FlagIsOwed'
BY DEF AbsentIsOwed, MocksAreOld, FlagIsOwed

-----------------------------------------------------------------------------
(* The steps of a build, one lemma each.                                    *)

LEMMA UseKeeps ==
    ASSUME IInv, NEW t \in Threads, Use(t) PROVE IInv'
<1>1. PICK p \in {"idle", "read"} : pc' = [pc EXCEPT ![t] = p]
  BY LookUpSteps DEF Use, IInv
<1>2. at' = at /\ answer' \in [Threads -> Answers]
  BY LookUpSteps DEF Use, IInv
<1>3. call' \in [Threads -> CallsMade]
  BY DEF Use, IInv, TypeOK, CallsMade
<1>4. pc[t] \in Outside /\ p \in Outside
  BY DEF Use, At, Outside
<1> QED
  BY <1>1, <1>2, <1>3, <1>4, OutsideStep DEF Use

LEMMA RebuildKeeps ==
    ASSUME IInv, NEW t \in Threads, NEW kind \in CallKinds, NEW raise \in BOOLEAN,
           Rebuild(t, kind, raise)
    PROVE  IInv'
<1>1. pc' = [pc EXCEPT ![t] = "read"] /\ at' = at
  BY DEF Rebuild, Goto
<1>2. call' \in [Threads -> CallsMade] /\ answer' \in [Threads -> Answers]
  BY ThreadsAssumption DEF Rebuild, IInv, TypeOK, CallsMade, Answers
<1>3. pc[t] \in Outside /\ "read" \in Outside
  BY DEF Rebuild, At, Outside
<1> QED
  BY <1>1, <1>2, <1>3, OutsideStep DEF Rebuild

LEMMA ReadCompleteKeeps ==
    ASSUME IInv, NEW t \in Threads, ReadComplete(t) PROVE IInv'
<1>1. /\ \E p \in {"idle", "reread", "reset"} : pc' = [pc EXCEPT ![t] = p]
      /\ at' = at /\ answer' \in [Threads -> Answers]
  <2>1. CASE Return(t, "none")
    <3>1. "none" \in Answers
      BY DEF Answers
    <3> QED
      BY <2>1, <3>1, ReturnSteps DEF IInv
  <2>2. CASE Goto(t, "reset") /\ UNCHANGED answer
    BY <2>2 DEF Goto, IInv, TypeOK
  <2> QED
    BY <2>1, <2>2 DEF ReadComplete
<1>2. PICK p \in {"idle", "reread", "reset"} : pc' = [pc EXCEPT ![t] = p]
  BY <1>1
<1>3. call' \in [Threads -> CallsMade]
  BY DEF ReadComplete, IInv, TypeOK
<1>4. pc[t] \in Outside /\ p \in Outside
  BY DEF ReadComplete, At, Outside
<1> QED
  BY <1>1, <1>2, <1>3, <1>4, OutsideStep DEF ReadComplete

LEMMA RereadKeeps ==
    ASSUME IInv, NEW t \in Threads, Reread(t) PROVE IInv'
<1>1. PICK p \in {"idle", "read"} : pc' = [pc EXCEPT ![t] = p]
  BY LookUpSteps DEF Reread, IInv
<1>2. at' = at /\ answer' \in [Threads -> Answers]
  BY LookUpSteps DEF Reread, IInv
<1>3. call' \in [Threads -> CallsMade]
  BY DEF Reread, IInv, TypeOK
<1>4. pc[t] \in Outside /\ p \in Outside
  BY DEF Reread, At, Outside
<1> QED
  BY <1>1, <1>2, <1>3, <1>4, OutsideStep DEF Reread

LEMMA ResetCompleteKeeps ==
    ASSUME IInv, NEW t \in Threads, ResetComplete(t) PROVE IInv'
<1>1. /\ pc[t] = "reset" /\ complete' = FALSE
      /\ pc' = [pc EXCEPT ![t] = "check"] /\ at' = [at EXCEPT ![t] = Core]
      /\ UNCHANGED <<fieldsComplete, attr, missing, failures, call, answer>>
  BY DEF ResetComplete, At, GotoAttr
<1>2. TypeOK'
  BY <1>1, Places DEF IInv, TypeOK
<1>3. \A u \in Threads : u # t => pc'[u] = pc[u] /\ at'[u] = at[u]
  BY <1>1 DEF IInv, TypeOK
<1>4. pc'[t] = "check" /\ at'[t] = Core
  BY <1>1 DEF IInv, TypeOK
<1>5. AbsentIsOwed'
  BY <1>1, <1>3, <1>4 DEF IInv, AbsentIsOwed, Owes, Doomed, At
<1>6. MocksAreOld'
  BY <1>1, <1>3, <1>4 DEF IInv, MocksAreOld, At
<1>7. FlagIsOwed'
  BY <1>1, <1>4 DEF FlagIsOwed, Building, Doomed, At
<1> QED
  BY <1>2, <1>5, <1>6, <1>7 DEF IInv

\* What the loop that clears the attributes does after one of them.
LEMMA ClearedSteps ==
    ASSUME TypeOK, NEW t \in Threads, Cleared(t)
    PROVE  \/ /\ at[t] = Ser /\ at' = [at EXCEPT ![t] = at[t]]
              /\ pc' = [pc EXCEPT ![t] = "fields"]
           \/ /\ at[t] < Ser /\ at[t] + 1 \in Attrs
              /\ at' = [at EXCEPT ![t] = at[t] + 1]
              /\ pc' = [pc EXCEPT ![t] = "check"]
<1>1. at[t] \in Attrs
  BY DEF TypeOK
<1>2. CASE at[t] = Ser
  BY <1>2 DEF Cleared, Goto, TypeOK
<1>3. CASE at[t] # Ser
  <2>1. at[t] < Ser /\ at[t] + 1 \in Attrs
    BY <1>1, <1>3 DEF Attrs, Core, Ser
  <2> QED
    BY <2>1, <1>3 DEF Cleared, GotoAttr
<1> QED
  BY <1>2, <1>3

LEMMA CheckAttrKeeps ==
    ASSUME IInv, NEW t \in Threads, CheckAttr(t) PROVE IInv'
<1>0. /\ pc[t] = "check" /\ at[t] \in Attrs /\ TypeOK
      /\ UNCHANGED <<complete, fieldsComplete, attr, missing, failures, call, answer>>
  BY DEF CheckAttr, At, IInv, TypeOK
<1>1. \/ /\ attr[at[t]] # "absent" /\ pc' = [pc EXCEPT ![t] = "delete"]
         /\ at' = [at EXCEPT ![t] = at[t]]
      \/ /\ at[t] = Ser /\ pc' = [pc EXCEPT ![t] = "fields"]
         /\ at' = [at EXCEPT ![t] = at[t]]
      \/ /\ at[t] < Ser /\ at[t] + 1 \in Attrs /\ pc' = [pc EXCEPT ![t] = "check"]
         /\ at' = [at EXCEPT ![t] = at[t] + 1]
  <2>1. CASE Keeps(at[t], attr[at[t]])
    BY <2>1, <1>0, ClearedSteps DEF CheckAttr
  <2>2. CASE ~Keeps(at[t], attr[at[t]])
    BY <2>2, <1>0 DEF CheckAttr, Keeps, Goto, TypeOK
  <2> QED
    BY <2>1, <2>2
<1>2. TypeOK'
  BY <1>0, <1>1, Places DEF TypeOK
<1>3. \A u \in Threads : u # t => pc'[u] = pc[u] /\ at'[u] = at[u]
  BY <1>0, <1>1 DEF TypeOK
<1>4. \/ pc'[t] = "delete" /\ at'[t] = at[t] /\ attr[at[t]] # "absent"
      \/ pc'[t] = "fields"
      \/ pc'[t] = "check" /\ at'[t] = at[t] + 1
  BY <1>0, <1>1 DEF TypeOK
<1>5. \A i \in Attrs : Owes(t, i) => Owes(t, i)'
  BY <1>0, <1>4 DEF Owes, At, Attrs, Core, Ser
<1>6. ~Doomed(t)' /\ Building(t)'
  BY <1>0, <1>4 DEF Doomed, Building, At
<1>7. AbsentIsOwed'
  <2>1. \A u \in Threads, i \in Attrs :
          Owes(u, i) /\ ~Doomed(u) => Owes(u, i)' /\ ~Doomed(u)'
    BY <1>0, <1>3, <1>5, <1>6 DEF Owes, Doomed, At
  <2> QED
    BY <1>0, <2>1 DEF IInv, AbsentIsOwed
<1>8. MocksAreOld'
  BY <1>0, <1>3, <1>4 DEF IInv, MocksAreOld, At
<1>9. FlagIsOwed'
  BY <1>6 DEF FlagIsOwed
<1> QED
  BY <1>2, <1>7, <1>8, <1>9 DEF IInv

\* An AttributeError takes no one out of the build who owes an attribute alone.
LEMMA DoomedThreadLeaves ==
    ASSUME IInv, NEW t \in Threads, Doomed(t), Return(t, "attribute_error"),
           UNCHANGED <<complete, fieldsComplete, attr, missing, failures, call>>
    PROVE  IInv'
<1>1. /\ pc' = [pc EXCEPT ![t] = "idle"] /\ at' = at
      /\ answer' = [answer EXCEPT ![t] = "attribute_error"]
  BY DEF Return, Answer, Goto
<1>2. TypeOK'
  BY <1>1 DEF IInv, TypeOK, Steps, Answers
<1>3. \A u \in Threads : u # t => pc'[u] = pc[u] /\ at'[u] = at[u]
  BY <1>1 DEF IInv, TypeOK
<1>4. pc'[t] = "idle"
  BY <1>1 DEF IInv, TypeOK
<1>5. \A u \in Threads : ~Doomed(u) =>
        /\ ~Doomed(u)'
        /\ Building(u) => Building(u)'
        /\ \A i \in Attrs : Owes(u, i) => Owes(u, i)'
  BY <1>1, <1>3 DEF Doomed, Building, Owes, At
<1>6. AbsentIsOwed'
  BY <1>5 DEF IInv, AbsentIsOwed
<1>7. MocksAreOld'
  BY <1>3, <1>4 DEF IInv, MocksAreOld, At
<1>8. FlagIsOwed'
  BY <1>5 DEF IInv, FlagIsOwed
<1> QED
  BY <1>2, <1>6, <1>7, <1>8 DEF IInv

LEMMA DeleteAttrKeeps ==
    ASSUME IInv, NEW t \in Threads, DeleteAttr(t) PROVE IInv'
<1>0. /\ pc[t] = "delete" /\ at[t] \in Attrs /\ TypeOK
      /\ UNCHANGED <<complete, fieldsComplete, missing, failures, call>>
  BY DEF DeleteAttr, At, IInv, TypeOK
<1>1. CASE attr[at[t]] = "absent"
  <2>1. Doomed(t)
    BY <1>0, <1>1 DEF Doomed, At
  <2> QED
    BY <1>0, <1>1, <2>1, DoomedThreadLeaves DEF DeleteAttr
<1>2. CASE attr[at[t]] # "absent"
  <2>1. attr' = [attr EXCEPT ![at[t]] = "absent"] /\ UNCHANGED answer /\ Cleared(t)
    BY <1>2 DEF DeleteAttr
  <2>2. \/ /\ at[t] = Ser /\ pc' = [pc EXCEPT ![t] = "fields"]
           /\ at' = [at EXCEPT ![t] = at[t]]
        \/ /\ at[t] < Ser /\ at[t] + 1 \in Attrs /\ pc' = [pc EXCEPT ![t] = "check"]
           /\ at' = [at EXCEPT ![t] = at[t] + 1]
    BY <1>0, <2>1, ClearedSteps
  <2>3. TypeOK'
    BY <1>0, <2>1, <2>2, Places DEF TypeOK
  <2>4. \A u \in Threads : u # t => pc'[u] = pc[u] /\ at'[u] = at[u]
    BY <1>0, <2>2 DEF TypeOK
  <2>5. \/ at[t] = Ser /\ pc'[t] = "fields"
        \/ pc'[t] = "check" /\ at'[t] = at[t] + 1
    BY <1>0, <2>2 DEF TypeOK
  <2>6. \A i \in Attrs : i # at[t] => attr'[i] = attr[i]
    BY <1>0, <2>1 DEF TypeOK
  <2>7. ~Doomed(t)' /\ Building(t)'
    BY <2>5 DEF Doomed, Building, At
  <2>8. \A i \in Attrs : i <= at[t] => Owes(t, i)'
    BY <1>0, <2>5 DEF Owes, At, Attrs, Core, Ser
  <2>9. AbsentIsOwed'
    <3> SUFFICES ASSUME "raised" \notin failures, NEW i \in Attrs, attr'[i] = "absent"
                 PROVE  \E u \in Threads : Owes(u, i)' /\ ~Doomed(u)'
      BY <1>0 DEF AbsentIsOwed
    <3>0. i \in Nat /\ at[t] \in Nat
      BY <1>0, Places
    <3>1. CASE i <= at[t]
      BY <3>1, <2>7, <2>8
    <3>2. CASE i > at[t]
      <4>1. attr[i] = "absent"
        BY <3>2, <1>0, <2>6, Places
      <4>2. PICK u \in Threads : Owes(u, i) /\ ~Doomed(u)
        BY <4>1 DEF IInv, AbsentIsOwed
      <4>3. u # t
        BY <4>2, <3>2, <1>0 DEF Owes, At, Attrs, Core, Ser
      <4>4. Owes(u, i)'
        BY <4>2, <4>3, <2>4 DEF Owes, At
      <4>5. ~Doomed(u)'
        <5>1. pc[u] = "delete" => at[u] \in Attrs /\ at[u] > i /\ attr[at[u]] # "absent"
          BY <4>2, <1>0 DEF Owes, Doomed, At, TypeOK
        <5>2. pc[u] = "delete" => at[u] # at[t]
          BY <5>1, <3>2, <1>0, Places
        <5> QED
          BY <5>1, <5>2, <2>4, <2>6, <4>3 DEF Doomed, At
      <4> QED
        BY <4>4, <4>5
    <3> QED
      BY <3>0, <3>1, <3>2
  <2>10. MocksAreOld'
    <3>1. \A i \in Attrs : attr[i] # "mock" => attr'[i] # "mock"
      BY <1>0, <2>1 DEF TypeOK
    <3> QED
      BY <3>1, <1>0, <2>4, <2>5 DEF IInv, MocksAreOld, At
  <2>11. FlagIsOwed'
    BY <2>7 DEF FlagIsOwed
  <2> QED
    BY <2>3, <2>9, <2>10, <2>11 DEF IInv
<1> QED
  BY <1>1, <1>2

LEMMA BuildFieldsKeeps ==
    ASSUME IInv, NEW t \in Threads, BuildFields(t) PROVE IInv'
<1>0. /\ pc[t] = "fields" /\ TypeOK /\ UNCHANGED <<complete, attr, missing, call, answer>>
  BY DEF BuildFields, At, IInv
<1>1. /\ fieldsComplete' \in BOOLEAN
      /\ \/ /\ pc' = [pc EXCEPT ![t] = "generate"] /\ at' = at /\ UNCHANGED failures
         \/ /\ pc' = [pc EXCEPT ![t] = "mock_fields"] /\ at' = [at EXCEPT ![t] = Core]
            /\ failures' = failures \cup {"mocked"}
  BY <1>0 DEF BuildFields, Goto, GotoAttr, TypeOK
<1>2. TypeOK'
  BY <1>0, <1>1, Places DEF TypeOK
<1>3. \A u \in Threads : u # t => pc'[u] = pc[u] /\ at'[u] = at[u]
  BY <1>0, <1>1 DEF TypeOK
<1>4. \/ pc'[t] = "generate" /\ UNCHANGED failures
      \/ pc'[t] = "mock_fields" /\ at'[t] = Core /\ failures' = failures \cup {"mocked"}
  BY <1>0, <1>1 DEF TypeOK
<1>5. \A i \in Attrs : Owes(t, i)' /\ ~Doomed(t)'
  BY <1>4 DEF Owes, Doomed, At, Attrs, Core, Ser
<1>6. AbsentIsOwed'
  <2>1. \A u \in Threads, i \in Attrs :
          Owes(u, i) /\ ~Doomed(u) => Owes(u, i)' /\ ~Doomed(u)'
    BY <1>0, <1>3, <1>5 DEF Owes, Doomed, At
  <2>2. "raised" \notin failures' => "raised" \notin failures
    BY <1>4
  <2> QED
    BY <1>0, <2>1, <2>2 DEF IInv, AbsentIsOwed
<1>7. MocksAreOld'
  BY <1>0, <1>3, <1>4 DEF IInv, MocksAreOld, At
<1>8. FlagIsOwed'
  BY <1>4, <1>5, Places DEF FlagIsOwed, Building
<1> QED
  BY <1>2, <1>6, <1>7, <1>8 DEF IInv

\* The mocks are all set when the flag of the fields is read again: going on or giving
\* up, the call owes nothing then.
LEMMA RecheckFieldsKeeps ==
    ASSUME IInv, NEW t \in Threads, RecheckFields(t) PROVE IInv'
<1>0. /\ pc[t] = "recheck" /\ TypeOK /\ failures # {}
      /\ UNCHANGED <<complete, fieldsComplete, attr, missing, failures, call>>
  BY DEF RecheckFields, At, IInv, MocksAreOld
<1>1. /\ at' = at /\ answer' \in [Threads -> Answers]
      /\ \E p \in {"idle", "reread", "generate"} : pc' = [pc EXCEPT ![t] = p]
  <2>1. CASE fieldsComplete
    BY <2>1, <1>0 DEF RecheckFields, Goto, TypeOK
  <2>2. CASE ~fieldsComplete
    <3>1. Return(t, "false") /\ "false" \in Answers
      BY <2>2 DEF RecheckFields, Answers
    <3> QED
      BY <1>0, <3>1, ReturnSteps
  <2> QED
    BY <2>1, <2>2
<1>2. PICK p \in {"idle", "reread", "generate"} : pc' = [pc EXCEPT ![t] = p]
  BY <1>1
<1>3. TypeOK'
  BY <1>0, <1>1, <1>2 DEF TypeOK, Steps
<1>4. AbsentIsOwed'
  <2>1. \A u \in Threads : u # t => pc'[u] = pc[u] /\ at'[u] = at[u]
    BY <1>0, <1>1, <1>2 DEF TypeOK
  <2>2. \A u \in Threads, i \in Attrs :
          Owes(u, i) /\ ~Doomed(u) => Owes(u, i)' /\ ~Doomed(u)'
    BY <1>0, <2>1 DEF Owes, Doomed, At
  <2> QED
    BY <1>0, <2>2 DEF IInv, AbsentIsOwed
<1>5. MocksAreOld' /\ FlagIsOwed'
  BY <1>0 DEF MocksAreOld, FlagIsOwed
<1> QED
  BY <1>3, <1>4, <1>5 DEF IInv

LEMMA GenerateKeeps ==
    ASSUME IInv, NEW t \in Threads, Generate(t) PROVE IInv'
<1>0. /\ pc[t] = "generate" /\ TypeOK /\ UNCHANGED <<complete, fieldsComplete, attr, missing, call>>
  BY DEF Generate, At, IInv
<1>1. CASE missing = "nothing"
  <2>1. /\ pc' = [pc EXCEPT ![t] = "set"] /\ at' = [at EXCEPT ![t] = Core]
        /\ UNCHANGED <<failures, answer>>
    BY <1>1 DEF Generate, GotoAttr
  <2>2. TypeOK'
    BY <1>0, <2>1, Places DEF TypeOK
  <2>3. \A u \in Threads : u # t => pc'[u] = pc[u] /\ at'[u] = at[u]
    BY <1>0, <2>1 DEF TypeOK
  <2>4. pc'[t] = "set" /\ at'[t] = Core
    BY <1>0, <2>1 DEF TypeOK
  <2>5. \A i \in Attrs : Owes(t, i)' /\ ~Doomed(t)' /\ Building(t)'
    BY <2>4 DEF Owes, Doomed, Building, At, Attrs, Core, Ser
  <2>6. AbsentIsOwed'
    <3>1. \A u \in Threads, i \in Attrs :
            Owes(u, i) /\ ~Doomed(u) => Owes(u, i)' /\ ~Doomed(u)'
      BY <1>0, <2>3, <2>5 DEF Owes, Doomed, At
    <3> QED
      BY <1>0, <2>1, <3>1 DEF IInv, AbsentIsOwed
  <2>7. MocksAreOld'
    BY <1>0, <2>1, <2>3, <2>4 DEF IInv, MocksAreOld, At, Attrs, Core, Ser
  <2>8. FlagIsOwed'
    BY <2>5, Places DEF FlagIsOwed
  <2> QED
    BY <2>2, <2>6, <2>7, <2>8 DEF IInv
<1>2. CASE missing # "nothing" /\ call[t].raise
  <2>1. Return(t, "undefined") /\ failures' = failures \cup {"raised"}
    BY <1>2 DEF Generate
  <2>2. /\ pc' = [pc EXCEPT ![t] = "idle"] /\ at' = at
        /\ answer' = [answer EXCEPT ![t] = "undefined"]
    BY <2>1 DEF Return, Answer, Goto
  <2>3. TypeOK'
    BY <1>0, <2>1, <2>2 DEF TypeOK, Steps, Answers
  <2>4. AbsentIsOwed' /\ MocksAreOld' /\ FlagIsOwed'
    BY <2>1, FailureLeavesLittle
  <2> QED
    BY <2>3, <2>4 DEF IInv
<1>3. CASE missing # "nothing" /\ ~call[t].raise
  <2>1. /\ pc' = [pc EXCEPT ![t] = "mock"] /\ at' = [at EXCEPT ![t] = Core]
        /\ failures' = failures \cup {"mocked"} /\ UNCHANGED answer
    BY <1>3 DEF Generate, GotoAttr
  <2>2. TypeOK'
    BY <1>0, <2>1, Places DEF TypeOK
  <2>3. \A u \in Threads : u # t => pc'[u] = pc[u] /\ at'[u] = at[u]
    BY <1>0, <2>1 DEF TypeOK
  <2>4. pc'[t] = "mock" /\ at'[t] = Core
    BY <1>0, <2>1 DEF TypeOK
  <2>5. \A i \in Attrs : Owes(t, i)' /\ ~Doomed(t)'
    BY <2>4 DEF Owes, Doomed, At, Attrs, Core, Ser
  <2>6. AbsentIsOwed'
    <3>1. \A u \in Threads, i \in Attrs :
            Owes(u, i) /\ ~Doomed(u) => Owes(u, i)' /\ ~Doomed(u)'
      BY <1>0, <2>3, <2>5 DEF Owes, Doomed, At
    <3> QED
      BY <1>0, <2>1, <3>1 DEF IInv, AbsentIsOwed
  <2>7. MocksAreOld' /\ FlagIsOwed'
    BY <2>1 DEF MocksAreOld, FlagIsOwed
  <2> QED
    BY <2>2, <2>6, <2>7 DEF IInv
<1> QED
  BY <1>1, <1>2, <1>3

\* Putting an attribute back, as a mock or for good.
LEMMA PuttingBackKeepsOwed ==
    ASSUME TypeOK, AbsentIsOwed, NEW t \in Threads, pc[t] \in {"mock_fields", "mock", "set"},
           NEW a \in {"mock", "real"}, attr' = [attr EXCEPT ![at[t]] = a],
           UNCHANGED failures,
           \A u \in Threads : u # t => pc'[u] = pc[u] /\ at'[u] = at[u],
           at[t] # Ser => pc'[t] = pc[t] /\ at'[t] = at[t] + 1
    PROVE  AbsentIsOwed'
<1> SUFFICES ASSUME "raised" \notin failures, NEW i \in Attrs, attr'[i] = "absent"
             PROVE  \E u \in Threads : Owes(u, i)' /\ ~Doomed(u)'
  BY DEF AbsentIsOwed
<1>1. at[t] \in Attrs /\ i # at[t] /\ attr[i] = "absent"
  BY DEF TypeOK
<1>2. PICK u \in Threads : Owes(u, i) /\ ~Doomed(u)
  BY <1>1 DEF AbsentIsOwed
<1>3. CASE u = t
  <2>1. at[t] < i
    BY <1>1, <1>2, <1>3 DEF Owes, At, Attrs, Core, Ser
  <2>2. pc'[t] = pc[t] /\ at'[t] = at[t] + 1 /\ at'[t] <= i
    BY <1>1, <2>1 DEF Attrs, Core, Ser
  <2> QED
    BY <2>2 DEF Owes, Doomed, At
<1>4. CASE u # t
  <2>1. Owes(u, i)'
    BY <1>2, <1>4 DEF Owes, At
  <2>2. \A j \in Attrs : attr[j] # "absent" => attr'[j] # "absent"
    BY DEF TypeOK
  <2>3. ~Doomed(u)'
    BY <1>2, <1>4, <2>2 DEF Doomed, At, TypeOK
  <2> QED
    BY <2>1, <2>3
<1> QED
  BY <1>3, <1>4

LEMMA MockAttrKeeps ==
    ASSUME IInv, NEW t \in Threads, MockAttr(t) PROVE IInv'
<1>0. /\ pc[t] \in {"mock_fields", "mock"} /\ at[t] \in Attrs /\ TypeOK /\ failures # {}
      /\ attr' = [attr EXCEPT ![at[t]] = "mock"]
      /\ UNCHANGED <<complete, fieldsComplete, missing, failures, call>>
  BY DEF MockAttr, At, IInv, TypeOK, MocksAreOld
<1>1. /\ answer' \in [Threads -> Answers]
      /\ \E p \in {"idle", "reread", "recheck", pc[t]}, j \in Attrs :
            /\ pc' = [pc EXCEPT ![t] = p] /\ at' = [at EXCEPT ![t] = j]
            /\ at[t] # Ser => p = pc[t] /\ j = at[t] + 1
  <2>1. CASE at[t] = Ser /\ ~(pc[t] = "mock_fields" /\ ~call[t].raise)
    <3>1. PICK out \in {"undefined", "false"} : Return(t, out)
      BY <2>1, <1>0 DEF MockAttr, At
    <3>2. out \in Answers
      BY DEF Answers
    <3>3. at' = [at EXCEPT ![t] = at[t]]
      BY <1>0, <3>1, <3>2, ReturnSteps DEF TypeOK
    <3> QED
      BY <1>0, <2>1, <3>1, <3>2, <3>3, ReturnSteps
  <2>2. CASE at[t] # Ser
    <3>1. at[t] + 1 \in Attrs
      BY <1>0, <2>2, Places
    <3> QED
      BY <1>0, <2>2, <3>1 DEF MockAttr, GotoAttr, TypeOK
  <2>3. CASE at[t] = Ser /\ pc[t] = "mock_fields" /\ ~call[t].raise
    BY <1>0, <2>3 DEF MockAttr, At, Goto, TypeOK
  <2> QED
    BY <2>1, <2>2, <2>3
<1>2. PICK p \in {"idle", "reread", "recheck", pc[t]}, j \in Attrs :
        /\ pc' = [pc EXCEPT ![t] = p] /\ at' = [at EXCEPT ![t] = j]
        /\ at[t] # Ser => p = pc[t] /\ j = at[t] + 1
  BY <1>1
<1>3. p \in Steps
  BY <1>0 DEF Steps
<1>4. TypeOK'
  BY <1>0, <1>1, <1>2, <1>3 DEF TypeOK
<1>5. AbsentIsOwed'
  <2>1. \A u \in Threads : u # t => pc'[u] = pc[u] /\ at'[u] = at[u]
    BY <1>0, <1>2 DEF TypeOK
  <2>2. at[t] # Ser => pc'[t] = pc[t] /\ at'[t] = at[t] + 1
    BY <1>0, <1>2 DEF TypeOK
  <2> QED
    BY <1>0, <2>1, <2>2, PuttingBackKeepsOwed DEF IInv
<1>6. MocksAreOld' /\ FlagIsOwed'
  BY <1>0 DEF MocksAreOld, FlagIsOwed
<1> QED
  BY <1>4, <1>5, <1>6 DEF IInv

LEMMA SetAttrKeeps ==
    ASSUME IInv, NEW t \in Threads, SetAttr(t) PROVE IInv'
<1>0. /\ pc[t] = "set" /\ at[t] \in Attrs /\ TypeOK
      /\ attr' = [attr EXCEPT ![at[t]] = "real"]
      /\ UNCHANGED <<complete, fieldsComplete, missing, failures, call, answer>>
  BY DEF SetAttr, At, IInv, TypeOK
<1>1. PICK p \in {"set", "finish"}, j \in Attrs :
        /\ pc' = [pc EXCEPT ![t] = p] /\ at' = [at EXCEPT ![t] = j]
        /\ at[t] = Ser => p = "finish"
        /\ at[t] # Ser => p = "set" /\ j = at[t] + 1
  <2>1. CASE at[t] = Ser
    BY <2>1, <1>0 DEF SetAttr, Goto, TypeOK
  <2>2. CASE at[t] # Ser
    <3>1. at[t] + 1 \in Attrs
      BY <1>0, <2>2, Places
    <3> QED
      BY <1>0, <2>2, <3>1 DEF SetAttr, GotoAttr
  <2> QED
    BY <2>1, <2>2
<1>2. TypeOK'
  BY <1>0, <1>1, Places DEF TypeOK
<1>3. \A u \in Threads : u # t => pc'[u] = pc[u] /\ at'[u] = at[u]
  BY <1>0, <1>1 DEF TypeOK
<1>4. \/ at[t] = Ser /\ pc'[t] = "finish"
      \/ at[t] # Ser /\ pc'[t] = "set" /\ at'[t] = at[t] + 1
  BY <1>0, <1>1 DEF TypeOK
<1>5. attr'[at[t]] = "real" /\ \A i \in Attrs : i # at[t] => attr'[i] = attr[i]
  BY <1>0 DEF TypeOK
<1>6. AbsentIsOwed'
  BY <1>0, <1>3, <1>4, PuttingBackKeepsOwed DEF IInv
<1>7. MocksAreOld'
  <2>1. \A i \in Attrs : attr[i] # "mock" => attr'[i] # "mock"
    BY <1>5
  <2>2. failures = {} => \A i \in Attrs : i <= at[t] => attr'[i] # "mock"
    BY <1>0, <1>5 DEF IInv, MocksAreOld, At, Attrs, Core, Ser
  <2>3. failures = {} /\ pc'[t] = "set" => \A i \in Attrs : i < at'[t] => attr'[i] # "mock"
    BY <1>0, <1>4, <2>2 DEF Attrs, Core, Ser
  <2>4. failures = {} /\ pc'[t] = "finish" => \A i \in Attrs : attr'[i] # "mock"
    BY <1>0, <1>4, <2>2 DEF Attrs, Core, Ser
  <2> QED
    BY <1>0, <1>3, <1>4, <2>1, <2>3, <2>4 DEF IInv, MocksAreOld, At
<1>8. FlagIsOwed'
  BY <1>4 DEF FlagIsOwed, Building, Doomed, At
<1> QED
  BY <1>2, <1>6, <1>7, <1>8 DEF IInv

LEMMA FinishKeeps ==
    ASSUME IInv, NEW t \in Threads, Finish(t) PROVE IInv'
<1>0. /\ pc[t] = "finish" /\ TypeOK /\ complete' = TRUE
      /\ UNCHANGED <<fieldsComplete, attr, missing, failures, call>>
  BY DEF Finish, At, IInv
<1>1. "true" \in Answers
  BY DEF Answers
<1>2. /\ answer' \in [Threads -> Answers] /\ at' = at
      /\ \E p \in {"idle", "reread"} : pc' = [pc EXCEPT ![t] = p]
  BY <1>0, <1>1, ReturnSteps DEF Finish
<1>3. PICK p \in {"idle", "reread"} : pc' = [pc EXCEPT ![t] = p]
  BY <1>2
<1>4. TypeOK'
  BY <1>0, <1>2, <1>3 DEF TypeOK, Steps
<1>5. \A u \in Threads : u # t => pc'[u] = pc[u] /\ at'[u] = at[u]
  BY <1>0, <1>2, <1>3 DEF TypeOK
<1>6. pc'[t] \in {"idle", "reread"}
  BY <1>0, <1>3 DEF TypeOK
<1>7. AbsentIsOwed'
  <2>1. \A u \in Threads, i \in Attrs :
          Owes(u, i) /\ ~Doomed(u) => Owes(u, i)' /\ ~Doomed(u)'
    BY <1>0, <1>5 DEF Owes, Doomed, At
  <2> QED
    BY <1>0, <2>1 DEF IInv, AbsentIsOwed
<1>8. MocksAreOld'
  BY <1>0, <1>5, <1>6 DEF IInv, MocksAreOld, At
<1>9. FlagIsOwed'
  BY <1>0 DEF FlagIsOwed
<1> QED
  BY <1>4, <1>7, <1>8, <1>9 DEF IInv

-----------------------------------------------------------------------------
LEMMA InitIInv == Init => IInv
<1> SUFFICES ASSUME Init PROVE IInv
  OBVIOUS
<1>1. TypeOK
  <2>1. "idle" \in Steps /\ "none" \in Answers
    BY DEF Steps, Answers
  <2>2. [kind |-> "use", raise |-> FALSE] \in CallsMade
    BY DEF CallsMade
  <2>3. missing \in {"nothing", "own", "nested"}
    BY ThreadsAssumption DEF Init
  <2>4. /\ attr \in [Attrs -> {"absent", "mock", "real"}]
        /\ at \in [Threads -> Attrs]
    BY Places DEF Init
  <2> QED
    BY <2>1, <2>2, <2>3, <2>4 DEF Init, TypeOK
<1>2. AbsentIsOwed
  BY DEF Init, AbsentIsOwed
<1>3. MocksAreOld
  BY DEF Init, MocksAreOld, At
<1>4. FlagIsOwed
  BY Places DEF Init, FlagIsOwed
<1> QED
  BY <1>1, <1>2, <1>3, <1>4 DEF IInv

LEMMA NextIInv == IInv /\ [Next]_vars => IInv'
<1> SUFFICES ASSUME IInv, [Next]_vars PROVE IInv'
  OBVIOUS
<1>1. ASSUME NEW t \in Threads, Use(t) PROVE IInv'
  BY <1>1, UseKeeps
<1>2. ASSUME NEW t \in Threads, NEW kind \in CallKinds, NEW raise \in BOOLEAN,
             Rebuild(t, kind, raise)
      PROVE  IInv'
  BY <1>2, RebuildKeeps
<1>3. ASSUME NEW t \in Threads, Advance(t) PROVE IInv'
  BY <1>3, ReadCompleteKeeps, ResetCompleteKeeps, CheckAttrKeeps, DeleteAttrKeeps,
     BuildFieldsKeeps, RecheckFieldsKeeps, GenerateKeeps, MockAttrKeeps, SetAttrKeeps,
     FinishKeeps, RereadKeeps
  DEF Advance
<1>4. CASE Resolve
  <2>1. missing' = "nothing"
       /\ UNCHANGED <<complete, fieldsComplete, attr, failures, pc, at, call, answer>>
    BY <1>4 DEF Resolve
  <2> QED
    BY <2>1 DEF IInv, TypeOK, AbsentIsOwed, MocksAreOld, FlagIsOwed, Owes, Doomed,
                Building, At
<1>5. CASE UNCHANGED vars
  BY <1>5 DEF vars, IInv, TypeOK, AbsentIsOwed, MocksAreOld, FlagIsOwed, Owes, Doomed,
              Building, At
<1> QED
  BY <1>1, <1>2, <1>3, <1>4, <1>5 DEF Next

THEOREM ThreadsIInv == Spec => []IInv
BY InitIInv, NextIInv, PTL DEF Spec

\* Whatever the threads do, the attributes, the flag and the calls are what
\* model_rebuild() and the handlers expect them to be.
THEOREM ThreadsTypeCorrect == Spec => []TypeOK
<1>1. IInv => TypeOK
  BY DEF IInv
<1> QED
  BY <1>1, ThreadsIInv, PTL

\* For any number of threads: an attribute that model_rebuild() deleted is owed by
\* a thread still at work, unless a rebuild raised before it had set mocks.
THEOREM DeletedAttributesAreOwed == Spec => []DeletedAttributeIsOwed
<1>1. IInv => DeletedAttributeIsOwed
  BY DEF IInv, AbsentIsOwed, DeletedAttributeIsOwed
<1> QED
  BY <1>1, ThreadsIInv, PTL

\* For any number of threads: when all are done and no build has failed, the class
\* is complete exactly if its three attributes are those of a build.
THEOREM QuietClassesAreTogether == Spec => []QuietClassIsTogether
<1>1. IInv => QuietClassIsTogether
  <2> SUFFICES ASSUME IInv, \A t \in Threads : At(t, "idle"), failures = {}
               PROVE  complete <=> \A i \in Attrs : attr[i] = "real"
    BY DEF QuietClassIsTogether
  <2>1. \A t \in Threads : ~Building(t) /\ \A i \in Attrs : ~Owes(t, i)
    BY DEF At, Owes, Building
  <2>2. \A i \in Attrs : attr[i] \in {"mock", "real"}
    BY <2>1 DEF IInv, TypeOK, AbsentIsOwed
  <2>3. complete => \A i \in Attrs : attr[i] = "real"
    BY <2>2 DEF IInv, MocksAreOld
  <2>4. ~complete => attr[Ser] = "mock"
    BY <2>1 DEF IInv, FlagIsOwed
  <2> QED
    BY <2>3, <2>4, Places
<1> QED
  BY <1>1, ThreadsIInv, PTL
=============================================================================
