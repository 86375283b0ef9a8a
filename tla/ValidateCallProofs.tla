------------------------- MODULE ValidateCallProofs -------------------------
(***************************************************************************)
(* What ValidateCall and PluginLoader promise for every program: any       *)
(* number of threads, any entry points, whatever loading them does.        *)
(***************************************************************************)
EXTENDS ValidateCall, FiniteSetTheorems, TLAPS

-----------------------------------------------------------------------------
(* The invariant of the loader.                                            *)

\* The finally clause of the thread is still to come: the flag may be up.
Marked == {"scan", "load", "reset"}

\* The thread has put its dictionary into _plugins and not left since.
Filling == Marked \cup {"mark"}

\* Neither before, nor after, get_plugins() and the loop over its answer.
Inside == Places \ {"out", "built", "raised"}

\* The plugins that loading should find.
Loadable == {e \in Range(EntryPoints) : kind[e] = "ok"} \ disabled

\* The locals of a thread fit the place where it is.
Placed(t) ==
    /\ at[t] \notin Marked => pos[t] = 1
    /\ at[t] = "load" => pos[t] <= Len(EntryPoints) /\ EntryPoints[pos[t]] \notin disabled
    /\ at[t] = "reset" /\ ~failed[t] => pos[t] > Len(EntryPoints)
    /\ failed[t] => crashed
    /\ at[t] = "iterate" => view[t] # None
    /\ at[t] \in Filling \cup {"global", "empty", "iterate"} => ~disableAll
    /\ at[t] = "choose" /\ view[t] # None => ~disableAll

\* A dictionary is made once: nothing is in it before its thread makes it.
MadeOnce ==
    /\ plugins = None => \A t \in Threads : dicts[t] = << >> /\ at[t] \notin Filling
    /\ \A t \in Threads : at[t] = "empty" => dicts[t] = << >> /\ plugins # t

\* A dictionary holds loadable plugins, each once.
Filled ==
    \A t \in Threads :
        /\ Range(dicts[t]) \subseteq Loadable
        /\ \A i, j \in 1 .. Len(dicts[t]) : dicts[t][i] = dicts[t][j] => i = j

\* Whoever put the flag up, somebody is still to take it down.
FlagComesDown == loading => \E t \in Threads : at[t] \in Marked

\* The thread that made the dictionary in use has filled it as far as it is.
Covered ==
    plugins # None /\ ~crashed =>
        \A i \in 1 .. Len(EntryPoints) :
            /\ at[plugins] \in Filling => i < pos[plugins]
            /\ EntryPoints[i] \in Loadable
            => EntryPoints[i] \in Range(dicts[plugins])

\* A thread nobody overlapped is the only one that may be loading.
Alone(t) == at[t] \in Inside => Loaders \subseteq {t}

\* It is answered the dictionary in use, and that does not change meanwhile.
Answered(t) ==
    /\ at[t] # "raised"
    /\ at[t] = "choose" => view[t] = (IF disableAll THEN None ELSE plugins)
    /\ at[t] \in {"choose", "iterate"} /\ ~disableAll => plugins # None
    /\ at[t] = "iterate" =>
          /\ view[t] = plugins /\ size[t] = Len(dicts[plugins])
          /\ Len(seen[t]) <= Len(dicts[plugins])
          /\ \A i \in 1 .. Len(seen[t]) : seen[t][i] = dicts[plugins][i]
    /\ at[t] = "built" => Range(seen[t]) = Wanted

Undisturbed == \A t \in Threads \ overlap : Alone(t) /\ (~crashed => Answered(t))

LoaderInv ==
    /\ LoaderTypeOK
    /\ \A t \in Threads : Placed(t)
    /\ MadeOnce /\ Filled /\ FlagComesDown /\ Covered /\ Undisturbed

\* The invariant of the wrapper.
Final == IF validateReturn THEN "set" ELSE "none"

Wrapped ==
    /\ complete => exists /\ argsValidator = "set" /\ returnValidator = Final
    /\ \A t \in Threads :
        /\ pc[t] \in {"return", "return_plugins", "set_none", "set_complete"} =>
              argsValidator = "set"
        /\ pc[t] \in {"return", "return_plugins"} => validateReturn
        /\ pc[t] = "set_none" => ~validateReturn
        /\ pc[t] = "set_complete" => returnValidator = Final
        /\ pc[t] \in {"validate_args", "validate_return"} => complete

Inv == TypeOK /\ LoaderInv /\ Wrapped

-----------------------------------------------------------------------------
(* Sequences.                                                              *)

LEMMA RangeOfSeq ==
    ASSUME NEW S, NEW s \in Seq(S)
    PROVE  Range(s) = {s[i] : i \in 1 .. Len(s)}
BY DEF Range

LEMMA RangeOfAppend ==
    ASSUME NEW S, NEW s \in Seq(S), NEW e \in S
    PROVE  Range(Append(s, e)) = Range(s) \cup {e}
<1>1. /\ Append(s, e) \in Seq(S) /\ Len(Append(s, e)) = Len(s) + 1
      /\ \A i \in 1 .. Len(s) : Append(s, e)[i] = s[i]
      /\ Append(s, e)[Len(s) + 1] = e
  OBVIOUS
<1> DEFINE q == Append(s, e)
<1>2. Range(q) = {q[i] : i \in 1 .. Len(s) + 1} /\ Range(s) = {s[i] : i \in 1 .. Len(s)}
  <2>1. Range(q) = {q[i] : i \in 1 .. Len(q)}
    BY <1>1, RangeOfSeq
  <2> QED
    BY <1>1, <2>1, RangeOfSeq
<1> HIDE DEF q
<1>3. \A i \in 1 .. Len(s) + 1 : i \in 1 .. Len(s) \/ i = Len(s) + 1
  OBVIOUS
<1>4. \A i \in 1 .. Len(s) : i \in 1 .. Len(s) + 1
  OBVIOUS
<1>5. Len(s) + 1 \in 1 .. Len(s) + 1
  OBVIOUS
<1>6. (\A i \in 1 .. Len(s) : q[i] = s[i]) /\ q[Len(s) + 1] = e
  BY <1>1 DEF q
<1>7. Range(q) = Range(s) \cup {e}
  BY <1>2, <1>3, <1>4, <1>5, <1>6
<1> QED
  BY <1>7 DEF q

LEMMA CardinalityUpTo ==
    ASSUME NEW n \in Nat
    PROVE  IsFiniteSet(1 .. n) /\ Cardinality(1 .. n) = n
<1>1. 1 \in Int /\ n \in Int
  OBVIOUS
<1>2. IsFiniteSet(1 .. n) /\ Cardinality(1 .. n) = IF 1 > n THEN 0 ELSE n - 1 + 1
  BY <1>1, FS_Interval, Zenon
<1>3. (IF 1 > n THEN 0 ELSE n - 1 + 1) = n
  OBVIOUS
<1> QED
  BY <1>2, <1>3

\* A sequence without duplicates is no longer than one with all its elements.
LEMMA DistinctShorter ==
    ASSUME NEW S, NEW s \in Seq(S), NEW d \in Seq(Range(s)),
           \A i, j \in 1 .. Len(d) : d[i] = d[j] => i = j
    PROVE  Len(d) <= Len(s)
<1> DEFINE A == 1 .. Len(d)
           B == 1 .. Len(s)
           f == [i \in A |-> CHOOSE k \in B : s[k] = d[i]]
<1>1. \A i \in A : \E k \in B : s[k] = d[i]
  BY RangeOfSeq
<1>2. \A i \in A : f[i] \in B /\ s[f[i]] = d[i]
  BY <1>1
<1>3. f \in Injection(A, B)
  <2>1. f \in [A -> B]
    BY <1>1
  <2>2. ASSUME NEW i \in A, NEW j \in A, f[i] = f[j] PROVE i = j
    BY <1>2, <2>2
  <2>3. IsInjective(f)
    BY <2>2 DEF IsInjective
  <2> HIDE DEF A, B, f
  <2> QED
    BY <2>1, <2>3 DEF Injection
<1>4. /\ Len(d) \in Nat /\ IsFiniteSet(A) /\ Cardinality(A) = Len(d)
      /\ Len(s) \in Nat /\ IsFiniteSet(B) /\ Cardinality(B) = Len(s)
  BY CardinalityUpTo
<1>5. Cardinality(A) <= Cardinality(B)
  <2> HIDE DEF A, B, f
  <2> QED
    BY <1>3, <1>4, FS_Injection
<1> QED
  BY <1>4, <1>5

LEMMA EntryPointsCounted == Len(EntryPoints) \in Nat
BY PluginAssumption

-----------------------------------------------------------------------------
(* What the invariant says when nobody is loading.                         *)

LEMMA QuietFlag ==
    ASSUME LoaderInv, Loaders = {}
    PROVE  ~loading
BY DEF LoaderInv, FlagComesDown, Loaders, Marked

\* A step after which no more threads are loading leaves a thread alone.
LEMMA StillAlone ==
    ASSUME LoaderInv, UNCHANGED overlap, Loaders' \subseteq Loaders,
           NEW u \in Threads \ overlap, at'[u] \in Inside => at[u] \in Inside
    PROVE  Alone(u)'
BY DEF LoaderInv, Undisturbed, Alone

\* The last loader has found everything.
LEMMA QuietDictionary ==
    ASSUME LoaderInv, Loaders = {}, plugins # None, ~crashed
    PROVE  Range(dicts[plugins]) = Loadable
<1>1. plugins \in Threads /\ at[plugins] \notin Filling
  BY DEF LoaderInv, LoaderTypeOK, Loaders, Filling, Marked
<1>2. \A i \in 1 .. Len(EntryPoints) :
        EntryPoints[i] \in Loadable => EntryPoints[i] \in Range(dicts[plugins])
  BY <1>1 DEF LoaderInv, Covered
<1>3. \A e \in Loadable : \E i \in 1 .. Len(EntryPoints) : e = EntryPoints[i]
  BY PluginAssumption, RangeOfSeq DEF Loadable
<1>4. Range(dicts[plugins]) \subseteq Loadable
  BY <1>1 DEF LoaderInv, Filled
<1> QED
  BY <1>2, <1>3, <1>4

\* Nobody else is loading while a thread is inside that nobody overlapped.
LEMMA AloneInside ==
    ASSUME LoaderInv, NEW t \in Threads \ overlap, at[t] \in Inside,
           at[t] \notin {"empty", "mark", "scan", "load", "reset"}
    PROVE  Loaders = {}
BY DEF LoaderInv, Undisturbed, Alone, Loaders

-----------------------------------------------------------------------------
(* One step of a thread in the loader.                                     *)

LEMMA GetPluginsStep ==
    ASSUME LoaderInv, NEW t \in Threads, GetPlugins(t)
    PROVE  LoaderInv'
<1> USE DEF GetPlugins, Go, settings, globals, locals, history
<1>1. LoaderTypeOK'
  BY PluginAssumption DEF LoaderInv, LoaderTypeOK, Places
<1>2. ASSUME NEW u \in Threads PROVE Placed(u)'
  BY PluginAssumption DEF LoaderInv, Placed, LoaderTypeOK, Filling, Marked
<1>3. MadeOnce'
  BY PluginAssumption DEF LoaderInv, MadeOnce, LoaderTypeOK, Filling, Marked
<1>4. Filled'
  BY DEF LoaderInv, Filled, Loadable, LoaderTypeOK
<1>5. FlagComesDown'
  BY DEF LoaderInv, FlagComesDown, LoaderTypeOK, Marked
<1>6. Covered'
  BY PluginAssumption DEF LoaderInv, Covered, Loadable, LoaderTypeOK, Filling, Marked
<1>7. ASSUME NEW u \in Threads \ overlap' PROVE Alone(u)'
  BY DEF LoaderInv, Undisturbed, Alone, Loaders, Inside, Places, LoaderTypeOK
<1>8. ASSUME NEW u \in Threads \ overlap', ~crashed' PROVE Answered(u)'
  BY <1>8 DEF LoaderInv, Undisturbed, Alone, Answered, Loaders, Inside, Places, LoaderTypeOK, Wanted
<1> QED
  BY <1>1, <1>2, <1>3, <1>4, <1>5, <1>6, <1>7, <1>8 DEF LoaderInv, Undisturbed

LEMMA ReadFlagStep ==
    ASSUME LoaderInv, NEW t \in Threads, ReadFlag(t)
    PROVE  LoaderInv'
<1> USE DEF ReadFlag, Go, settings, globals, locals, history
<1>1. LoaderTypeOK'
  <2>1. at' \in [Threads -> Places]
    BY DEF LoaderInv, LoaderTypeOK, Places
  <2>2. view' \in [Threads -> Threads \cup {None}]
    BY DEF LoaderInv, LoaderTypeOK
  <2> QED
    BY <2>1, <2>2 DEF LoaderInv, LoaderTypeOK
<1>2. ASSUME NEW u \in Threads PROVE Placed(u)'
  BY PluginAssumption DEF LoaderInv, Placed, LoaderTypeOK, Filling, Marked
<1>3. MadeOnce'
  BY PluginAssumption DEF LoaderInv, MadeOnce, LoaderTypeOK, Filling, Marked
<1>4. Filled'
  BY DEF LoaderInv, Filled, Loadable, LoaderTypeOK
<1>5. FlagComesDown'
  BY DEF LoaderInv, FlagComesDown, LoaderTypeOK, Marked
<1>6. Covered'
  BY PluginAssumption DEF LoaderInv, Covered, Loadable, LoaderTypeOK, Filling, Marked
<1>7. ASSUME NEW u \in Threads \ overlap' PROVE Alone(u)'
  <2>1. Loaders' = Loaders
    BY DEF LoaderInv, LoaderTypeOK, Loaders
  <2> QED
    BY <2>1 DEF LoaderInv, Undisturbed, Alone, LoaderTypeOK, Inside, Places
<1>8. ASSUME NEW u \in Threads \ overlap', ~crashed' PROVE Answered(u)'
  <2>1. u \in Threads \ overlap /\ ~crashed /\ Answered(u)
    BY <1>8 DEF LoaderInv, Undisturbed
  <2>2. CASE u # t
    BY <2>1, <2>2 DEF LoaderInv, Answered, LoaderTypeOK, Wanted
  <2>3. CASE u = t
    <3>1. ~loading
      BY <2>1, <2>3, AloneInside, QuietFlag DEF Inside, Places
    <3> QED
      BY <2>3, <3>1 DEF LoaderInv, LoaderTypeOK, Answered
  <2> QED
    BY <2>2, <2>3
<1> QED
  BY <1>1, <1>2, <1>3, <1>4, <1>5, <1>6, <1>7, <1>8 DEF LoaderInv, Undisturbed

LEMMA ReadGlobalStep ==
    ASSUME LoaderInv, NEW t \in Threads, ReadGlobal(t)
    PROVE  LoaderInv'
<1> USE DEF ReadGlobal, Go, settings, globals, locals, history
<1>1. LoaderTypeOK'
  <2>1. at' \in [Threads -> Places]
    BY DEF LoaderInv, LoaderTypeOK, Places
  <2>2. view' \in [Threads -> Threads \cup {None}]
    BY DEF LoaderInv, LoaderTypeOK
  <2> QED
    BY <2>1, <2>2 DEF LoaderInv, LoaderTypeOK
<1>2. ASSUME NEW u \in Threads PROVE Placed(u)'
  BY PluginAssumption DEF LoaderInv, Placed, LoaderTypeOK, Filling, Marked
<1>3. MadeOnce'
  BY PluginAssumption DEF LoaderInv, MadeOnce, LoaderTypeOK, Filling, Marked
<1>4. Filled'
  BY DEF LoaderInv, Filled, Loadable, LoaderTypeOK
<1>5. FlagComesDown'
  BY DEF LoaderInv, FlagComesDown, LoaderTypeOK, Marked
<1>6. Covered'
  BY PluginAssumption DEF LoaderInv, Covered, Loadable, LoaderTypeOK, Filling, Marked
<1>7. ASSUME NEW u \in Threads \ overlap' PROVE Alone(u)'
  <2>1. at[t] = "global" /\ at \in [Threads -> Places]
    BY DEF LoaderInv, LoaderTypeOK
  <2>2. CASE plugins = None
    <3>1. Loaders' = Loaders \cup {t} /\ at' = [at EXCEPT ![t] = "empty"]
      BY <2>1, <2>2 DEF Loaders
    <3>2. CASE u = t
      <4>1. Loaders = {}
        BY <2>2, <3>2
      <4> QED
        BY <3>1, <3>2, <4>1 DEF Alone
    <3>3. CASE u # t
      <4>1. at'[u] \notin Inside
        BY <2>1, <2>2, <3>1, <3>3 DEF Inside
      <4> QED
        BY <4>1 DEF Alone
    <3> QED
      BY <3>2, <3>3
  <2>3. CASE plugins # None
    <3>1. Loaders' = Loaders /\ u \in Threads \ overlap
      BY <2>1, <2>3 DEF Loaders
    <3> QED
      BY <2>1, <2>3, <3>1 DEF LoaderInv, Undisturbed, Alone, Inside, Places
  <2> QED
    BY <2>2, <2>3
<1>8. ASSUME NEW u \in Threads \ overlap', ~crashed' PROVE Answered(u)'
  <2>1. u \in Threads \ overlap /\ ~crashed /\ Answered(u)
    BY <1>8 DEF LoaderInv, Undisturbed
  <2>2. CASE u # t
    BY <2>1, <2>2 DEF LoaderInv, Answered, LoaderTypeOK, Wanted
  <2>3. CASE u = t
    <3>1. ~disableAll
      BY DEF LoaderInv, Placed
    <3> QED
      BY <2>3, <3>1 DEF LoaderInv, LoaderTypeOK, Answered
  <2> QED
    BY <2>2, <2>3
<1> QED
  BY <1>1, <1>2, <1>3, <1>4, <1>5, <1>6, <1>7, <1>8 DEF LoaderInv, Undisturbed

LEMMA SetEmptyStep ==
    ASSUME LoaderInv, NEW t \in Threads, SetEmpty(t)
    PROVE  LoaderInv'
<1> USE DEF SetEmpty, Go, settings, globals, locals, history
<1>1. LoaderTypeOK'
  BY PluginAssumption DEF LoaderInv, LoaderTypeOK, Places
<1>2. ASSUME NEW u \in Threads PROVE Placed(u)'
  BY PluginAssumption DEF LoaderInv, Placed, LoaderTypeOK, Filling, Marked
<1>3. MadeOnce'
  BY PluginAssumption DEF LoaderInv, MadeOnce, LoaderTypeOK, Filling, Marked
<1>4. Filled'
  BY DEF LoaderInv, Filled, Loadable, LoaderTypeOK
<1>5. FlagComesDown'
  BY DEF LoaderInv, FlagComesDown, LoaderTypeOK, Marked
<1>6. Covered'
  <2>1. at'[plugins'] \in Filling /\ pos'[plugins'] = 1
    BY DEF LoaderInv, LoaderTypeOK, Placed, Marked, Filling
  <2> QED
    BY <2>1, PluginAssumption DEF Covered
<1>7. ASSUME NEW u \in Threads \ overlap' PROVE Alone(u)'
  BY DEF LoaderInv, Undisturbed, Alone, Loaders, Inside, Places, LoaderTypeOK
<1>8. ASSUME NEW u \in Threads \ overlap', ~crashed' PROVE Answered(u)'
  <2>1. u \in Threads \ overlap /\ ~crashed /\ Answered(u) /\ Alone(u) /\ t \in Loaders
    BY <1>8 DEF LoaderInv, Undisturbed, Loaders
  <2>2. at'[u] \notin {"choose", "iterate", "raised"} /\ at'[u] \in Places
    BY <2>1 DEF LoaderInv, LoaderTypeOK, Alone, Answered, Inside, Places
  <2>3. at'[u] = "built" => at[u] = "built"
    BY DEF LoaderInv, LoaderTypeOK
  <2> QED
    BY <2>1, <2>2, <2>3 DEF Answered, Wanted
<1> QED
  BY <1>1, <1>2, <1>3, <1>4, <1>5, <1>6, <1>7, <1>8 DEF LoaderInv, Undisturbed

LEMMA MarkStep ==
    ASSUME LoaderInv, NEW t \in Threads, Mark(t)
    PROVE  LoaderInv'
<1> USE DEF Mark, Go, settings, globals, locals, history
<1>1. LoaderTypeOK'
  BY PluginAssumption DEF LoaderInv, LoaderTypeOK, Places
<1>2. ASSUME NEW u \in Threads PROVE Placed(u)'
  BY PluginAssumption DEF LoaderInv, Placed, LoaderTypeOK, Filling, Marked
<1>3. MadeOnce'
  BY PluginAssumption DEF LoaderInv, MadeOnce, LoaderTypeOK, Filling, Marked
<1>4. Filled'
  BY DEF LoaderInv, Filled, Loadable, LoaderTypeOK
<1>5. FlagComesDown'
  BY DEF LoaderInv, FlagComesDown, LoaderTypeOK, Marked
<1>6. Covered'
  BY PluginAssumption DEF LoaderInv, Covered, Loadable, LoaderTypeOK, Filling, Marked
<1>7. ASSUME NEW u \in Threads \ overlap' PROVE Alone(u)'
  BY DEF LoaderInv, Undisturbed, Alone, Loaders, Inside, Places, LoaderTypeOK
<1>8. ASSUME NEW u \in Threads \ overlap', ~crashed' PROVE Answered(u)'
  BY <1>8 DEF LoaderInv, Undisturbed, Alone, Answered, Loaders, Inside, Places, LoaderTypeOK, Wanted
<1> QED
  BY <1>1, <1>2, <1>3, <1>4, <1>5, <1>6, <1>7, <1>8 DEF LoaderInv, Undisturbed

LEMMA ScanStep ==
    ASSUME LoaderInv, NEW t \in Threads, Scan(t)
    PROVE  LoaderInv'
<1> USE DEF Scan, Go, settings, globals, locals, history
<1>1. LoaderTypeOK'
  <2>1. at' \in [Threads -> Places]
    BY DEF LoaderInv, LoaderTypeOK, Places
  <2>2. pos[t] <= Len(EntryPoints) => pos[t] + 1 \in 1 .. Len(EntryPoints) + 1
    BY EntryPointsCounted DEF LoaderInv, LoaderTypeOK
  <2>3. pos' = pos \/ (pos[t] <= Len(EntryPoints) /\ pos' = [pos EXCEPT ![t] = pos[t] + 1])
    OBVIOUS
  <2>4. pos' \in [Threads -> 1 .. Len(EntryPoints) + 1]
    BY <2>2, <2>3 DEF LoaderInv, LoaderTypeOK
  <2> QED
    BY <2>1, <2>4 DEF LoaderInv, LoaderTypeOK
<1>2. ASSUME NEW u \in Threads PROVE Placed(u)'
  BY DEF LoaderInv, Placed, LoaderTypeOK, Filling, Marked, Skipped
<1>3. MadeOnce'
  BY PluginAssumption DEF LoaderInv, MadeOnce, LoaderTypeOK, Filling, Marked
<1>4. Filled'
  BY DEF LoaderInv, Filled, Loadable, LoaderTypeOK
<1>5. FlagComesDown'
  BY DEF LoaderInv, FlagComesDown, LoaderTypeOK, Marked
<1>6. Covered'
  <2> SUFFICES ASSUME plugins # None, ~crashed, NEW i \in 1 .. Len(EntryPoints),
                      at'[plugins] \in Filling => i < pos'[plugins],
                      EntryPoints[i] \in Loadable
               PROVE  EntryPoints[i] \in Range(dicts[plugins])
    BY DEF Covered, Loadable
  <2>0. plugins \in Threads
    BY DEF LoaderInv, LoaderTypeOK
  <2>1. (at[plugins] \in Filling => i < pos[plugins]) =>
           EntryPoints[i] \in Range(dicts[plugins])
    BY DEF LoaderInv, Covered
  <2>2. CASE plugins # t
    BY <2>0, <2>1, <2>2 DEF LoaderInv, LoaderTypeOK
  <2>3. CASE plugins = t
    <3>1. CASE pos[t] > Len(EntryPoints)
      BY <2>1, <2>3, <3>1, PluginAssumption DEF LoaderInv, LoaderTypeOK
    <3>2. CASE pos[t] <= Len(EntryPoints) /\ ~Skipped(EntryPoints[pos[t]])
      BY <2>1, <2>3, <3>2 DEF LoaderInv, LoaderTypeOK, Filling, Marked
    <3>3. CASE pos[t] <= Len(EntryPoints) /\ Skipped(EntryPoints[pos[t]])
      <4>1. pos'[t] = pos[t] + 1 /\ at'[t] = "scan" /\ pos[t] \in Nat
        BY <3>3, PluginAssumption DEF LoaderInv, LoaderTypeOK
      <4>2. i < pos[t] \/ i = pos[t]
        BY <2>3, <4>1 DEF Filling, Marked
      <4>3. EntryPoints[pos[t]] \in Loadable => EntryPoints[pos[t]] \in Range(dicts[plugins])
        BY <3>3 DEF Loadable, Skipped
      <4> QED
        BY <2>1, <2>3, <4>2, <4>3
    <3> QED
      BY <3>1, <3>2, <3>3, PluginAssumption DEF LoaderInv, LoaderTypeOK
  <2> QED
    BY <2>2, <2>3
<1>7. ASSUME NEW u \in Threads \ overlap' PROVE Alone(u)'
  <2>1. Loaders' \subseteq Loaders
    BY DEF LoaderInv, LoaderTypeOK, Loaders
  <2>2. at'[u] \in Inside => at[u] \in Inside
    BY DEF LoaderInv, LoaderTypeOK, Inside, Places
  <2> QED
    BY <2>1, <2>2, StillAlone
<1>8. ASSUME NEW u \in Threads \ overlap', ~crashed' PROVE Answered(u)'
  BY <1>8 DEF LoaderInv, Undisturbed, Alone, Answered, Loaders, Inside, Places, LoaderTypeOK, Wanted
<1> QED
  BY <1>1, <1>2, <1>3, <1>4, <1>5, <1>6, <1>7, <1>8 DEF LoaderInv, Undisturbed

LEMMA ImportStep ==
    ASSUME LoaderInv, NEW t \in Threads, Import(t)
    PROVE  LoaderInv'
<1> USE DEF Import, Go, settings, globals, locals, history
<1>1. LoaderTypeOK'
  BY PluginAssumption DEF LoaderInv, LoaderTypeOK, Places
<1>2. ASSUME NEW u \in Threads PROVE Placed(u)'
  BY PluginAssumption DEF LoaderInv, Placed, LoaderTypeOK, Filling, Marked
<1>3. MadeOnce'
  BY PluginAssumption DEF LoaderInv, MadeOnce, LoaderTypeOK, Filling, Marked
<1>4. Filled'
  BY DEF LoaderInv, Filled, Loadable, LoaderTypeOK
<1>5. FlagComesDown'
  BY DEF LoaderInv, FlagComesDown, LoaderTypeOK, Marked
<1>6. Covered'
  BY PluginAssumption DEF LoaderInv, Covered, Loadable, LoaderTypeOK, Filling, Marked
<1>7. ASSUME NEW u \in Threads \ overlap' PROVE Alone(u)'
  <2>1. Loaders' \subseteq Loaders
    BY DEF LoaderInv, LoaderTypeOK, Loaders
  <2>2. at'[u] \in Inside => at[u] \in Inside
    BY DEF LoaderInv, LoaderTypeOK, Inside, Places
  <2> QED
    BY <2>1, <2>2, StillAlone
<1>8. ASSUME NEW u \in Threads \ overlap', ~crashed' PROVE Answered(u)'
  BY <1>8 DEF LoaderInv, Undisturbed, Alone, Answered, Loaders, Inside, Places, LoaderTypeOK, Wanted
<1> QED
  BY <1>1, <1>2, <1>3, <1>4, <1>5, <1>6, <1>7, <1>8 DEF LoaderInv, Undisturbed

LEMMA LoadStep ==
    ASSUME LoaderInv, NEW t \in Threads, Load(t)
    PROVE  LoaderInv'
<1> USE DEF Load, Go, settings, globals, locals, history
<1> DEFINE e == EntryPoints[pos[t]]
<1>a. /\ plugins \in Threads /\ pos[t] \in 1 .. Len(EntryPoints)
      /\ e \in Range(EntryPoints) /\ e \notin disabled
  <2>1. plugins \in Threads /\ pos[t] \in 1 .. Len(EntryPoints) /\ e \notin disabled
    BY PluginAssumption DEF LoaderInv, LoaderTypeOK, MadeOnce, Placed, Filling, Marked
  <2> QED
    BY <2>1, PluginAssumption, RangeOfSeq
<1>b. /\ dicts'[plugins] \in Seq(Range(EntryPoints))
      /\ Range(dicts'[plugins]) = Range(dicts[plugins])
                                    \cup (IF kind[e] = "ok" THEN {e} ELSE {})
      /\ \A u \in Threads \ {plugins} : dicts'[u] = dicts[u]
      /\ dicts' \in [Threads -> Seq(Range(EntryPoints))]
  <2>1. dicts[plugins] \in Seq(Range(EntryPoints)) /\ dicts \in [Threads -> Seq(Range(EntryPoints))]
    BY <1>a DEF LoaderInv, LoaderTypeOK
  <2>2. CASE kind[e] = "ok" /\ e \notin Range(dicts[plugins])
    <3>1. dicts' = [dicts EXCEPT ![plugins] = Append(@, e)]
      BY <2>2
    <3>2. dicts'[plugins] = Append(dicts[plugins], e) /\ \A u \in Threads \ {plugins} : dicts'[u] = dicts[u]
      BY <1>a, <2>1, <3>1
    <3>3. Append(dicts[plugins], e) \in Seq(Range(EntryPoints))
      BY <1>a, <2>1
    <3>4. Range(Append(dicts[plugins], e)) = Range(dicts[plugins]) \cup {e}
      BY <1>a, <2>1, RangeOfAppend
    <3> QED
      BY <2>1, <2>2, <3>1, <3>2, <3>3, <3>4
  <2>3. CASE ~(kind[e] = "ok" /\ e \notin Range(dicts[plugins]))
    BY <2>1, <2>3
  <2> QED
    BY <2>2, <2>3
<1> HIDE DEF e
<1>1. LoaderTypeOK'
  <2>1. at' \in [Threads -> Places] /\ failed' \in [Threads -> BOOLEAN]
    BY DEF LoaderInv, LoaderTypeOK, Places
  <2>2. pos' = pos \/ pos' = [pos EXCEPT ![t] = pos[t] + 1]
    OBVIOUS
  <2>3. pos[t] + 1 \in 1 .. Len(EntryPoints) + 1
    BY <1>a, EntryPointsCounted
  <2>4. pos' \in [Threads -> 1 .. Len(EntryPoints) + 1]
    BY <2>2, <2>3 DEF LoaderInv, LoaderTypeOK
  <2> QED
    BY <1>b, <2>1, <2>4 DEF LoaderInv, LoaderTypeOK
<1>2. ASSUME NEW u \in Threads PROVE Placed(u)'
  BY PluginAssumption DEF LoaderInv, Placed, LoaderTypeOK, Filling, Marked
<1>3. MadeOnce'
  <2>1. plugins # None
    BY <1>a, PluginAssumption
  <2>2. ASSUME NEW u \in Threads, at'[u] = "empty" PROVE dicts'[u] = << >> /\ plugins # u
    <3>1. at[u] = "empty"
      BY <2>2 DEF LoaderInv, LoaderTypeOK
    <3> QED
      BY <1>b, <3>1 DEF LoaderInv, MadeOnce
  <2> QED
    BY <2>1, <2>2 DEF MadeOnce
<1>4. Filled'
  <2>1. Loadable' = Loadable
    BY DEF Loadable
  <2>2. ASSUME NEW u \in Threads PROVE Range(dicts'[u]) \subseteq Loadable
    BY <1>a, <1>b DEF LoaderInv, Filled, Loadable
  <2>3. ASSUME NEW u \in Threads, NEW i \in 1 .. Len(dicts'[u]), NEW j \in 1 .. Len(dicts'[u]),
               dicts'[u][i] = dicts'[u][j]
        PROVE  i = j
    <3>1. CASE dicts'[u] = dicts[u]
      BY <2>3, <3>1 DEF LoaderInv, Filled
    <3>2. CASE dicts'[u] # dicts[u]
      <4> DEFINE d == dicts[u]
      <4>1. d \in Seq(Range(EntryPoints)) /\ e \notin Range(d) /\ dicts'[u] = Append(d, e)
        BY <1>a, <3>2 DEF LoaderInv, LoaderTypeOK, e
      <4>2. \A k \in 1 .. Len(d) : d[k] # e
        BY <4>1, RangeOfSeq
      <4>3. \A k, l \in 1 .. Len(d) : d[k] = d[l] => k = l
        BY DEF LoaderInv, Filled
      <4>4. /\ i \in 1 .. Len(d) + 1 /\ j \in 1 .. Len(d) + 1 /\ Len(d) \in Nat
            /\ Append(d, e)[i] = Append(d, e)[j]
            /\ \A k \in 1 .. Len(d) : Append(d, e)[k] = d[k]
            /\ Append(d, e)[Len(d) + 1] = e
        <5>1. i \in 1 .. Len(Append(d, e)) /\ j \in 1 .. Len(Append(d, e))
          BY <2>3, <4>1
        <5>2. Append(d, e)[i] = Append(d, e)[j]
          BY <2>3, <4>1
        <5> HIDE DEF d
        <5>3. e \in Range(EntryPoints)
          BY <1>a
        <5> HIDE DEF e
        <5> QED
          BY <4>1, <5>1, <5>2, <5>3
      <4> HIDE DEF d
      <4> QED
        BY <4>2, <4>3, <4>4
    <3> QED
      BY <3>1, <3>2
  <2> QED
    BY <2>1, <2>2, <2>3 DEF Filled
<1>5. FlagComesDown'
  BY DEF LoaderInv, FlagComesDown, LoaderTypeOK, Marked
<1>6. Covered'
  <2> SUFFICES ASSUME ~crashed', NEW i \in 1 .. Len(EntryPoints),
                      at'[plugins] \in Filling => i < pos'[plugins],
                      EntryPoints[i] \in Loadable
               PROVE  EntryPoints[i] \in Range(dicts'[plugins])
    BY DEF Covered, Loadable
  <2>1. (at[plugins] \in Filling => i < pos[plugins]) =>
           EntryPoints[i] \in Range(dicts[plugins])
    BY <1>a, PluginAssumption DEF LoaderInv, Covered
  <2>2. CASE plugins # t
    BY <1>a, <1>b, <2>1, <2>2 DEF LoaderInv, LoaderTypeOK
  <2>3. CASE plugins = t
    <3>1. kind[e] # "crash" /\ pos'[t] = pos[t] + 1 /\ at'[t] = "scan"
      BY PluginAssumption DEF LoaderInv, LoaderTypeOK, e
    <3>2. i < pos[t] \/ i = pos[t]
      BY <1>a, <2>3, <3>1 DEF Filling, Marked
    <3>3. e \in Loadable => e \in Range(dicts'[plugins])
      BY <1>b DEF Loadable
    <3> QED
      BY <1>b, <2>1, <2>3, <3>2, <3>3 DEF e
  <2> QED
    BY <2>2, <2>3
<1>7. ASSUME NEW u \in Threads \ overlap' PROVE Alone(u)'
  <2>1. Loaders' \subseteq Loaders
    BY DEF LoaderInv, LoaderTypeOK, Loaders
  <2>2. at'[u] \in Inside => at[u] \in Inside
    BY DEF LoaderInv, LoaderTypeOK, Inside, Places
  <2> QED
    BY <2>1, <2>2, StillAlone
<1>8. ASSUME NEW u \in Threads \ overlap', ~crashed' PROVE Answered(u)'
  <2>1. u \in Threads \ overlap /\ ~crashed /\ Answered(u) /\ Alone(u) /\ t \in Loaders
    BY <1>8 DEF LoaderInv, Undisturbed, Loaders
  <2>2. at[t] = "load" /\ at'[t] \in {"scan", "reset"} /\ \A v \in Threads \ {t} : at'[v] = at[v]
    BY DEF LoaderInv, LoaderTypeOK
  <2>3. at'[u] \notin {"choose", "iterate", "raised"}
    BY <2>1, <2>2 DEF Alone, Answered, Inside, Places
  <2>4. at'[u] = "built" => at[u] = "built"
    BY <2>2
  <2> QED
    BY <2>1, <2>3, <2>4 DEF Answered, Wanted
<1> QED
  BY <1>1, <1>2, <1>3, <1>4, <1>5, <1>6, <1>7, <1>8 DEF LoaderInv, Undisturbed

LEMMA ResetStep ==
    ASSUME LoaderInv, NEW t \in Threads, Reset(t)
    PROVE  LoaderInv'
<1> USE DEF Reset, Go, Unmark, settings, globals, locals, history
<1>1. LoaderTypeOK'
  <2>1. 1 \in 1 .. Len(EntryPoints) + 1
    BY EntryPointsCounted
  <2>2. pos' \in [Threads -> 1 .. Len(EntryPoints) + 1] /\ failed' \in [Threads -> BOOLEAN]
    BY <2>1 DEF LoaderInv, LoaderTypeOK
  <2>3. at' \in [Threads -> Places]
    BY DEF LoaderInv, LoaderTypeOK, Places
  <2>4. view' \in [Threads -> Threads \cup {None}]
    BY DEF LoaderInv, LoaderTypeOK
  <2> QED
    BY <2>2, <2>3, <2>4 DEF LoaderInv, LoaderTypeOK
<1>2. ASSUME NEW u \in Threads PROVE Placed(u)'
  BY PluginAssumption DEF LoaderInv, Placed, LoaderTypeOK, Filling, Marked
<1>3. MadeOnce'
  BY PluginAssumption DEF LoaderInv, MadeOnce, LoaderTypeOK, Filling, Marked
<1>4. Filled'
  BY DEF LoaderInv, Filled, Loadable, LoaderTypeOK
<1>5. FlagComesDown'
  BY DEF LoaderInv, FlagComesDown, LoaderTypeOK, Marked
<1>6. Covered'
  <2> SUFFICES ASSUME plugins # None, ~crashed, NEW i \in 1 .. Len(EntryPoints),
                      at'[plugins] \in Filling => i < pos'[plugins],
                      EntryPoints[i] \in Loadable
               PROVE  EntryPoints[i] \in Range(dicts[plugins])
    BY DEF Covered, Loadable
  <2>1. plugins \in Threads /\ ~failed[t]
    BY DEF LoaderInv, LoaderTypeOK, Placed
  <2>2. pos[t] > Len(EntryPoints) /\ pos[t] \in Nat
    BY <2>1, PluginAssumption DEF LoaderInv, LoaderTypeOK, Placed
  <2>3. at[plugins] \in Filling => i < pos[plugins]
    <3>1. CASE plugins = t
      BY <2>2, <3>1, EntryPointsCounted
    <3>2. CASE plugins # t
      BY <2>1, <3>2 DEF LoaderInv, LoaderTypeOK
    <3> QED
      BY <3>1, <3>2
  <2> QED
    BY <2>3 DEF LoaderInv, Covered
<1>7. ASSUME NEW u \in Threads \ overlap' PROVE Alone(u)'
  <2>1. Loaders' \subseteq Loaders
    BY DEF LoaderInv, LoaderTypeOK, Loaders
  <2>2. at'[u] \in Inside => at[u] \in Inside
    BY DEF LoaderInv, LoaderTypeOK, Inside, Places
  <2> QED
    BY <2>1, <2>2, StillAlone
<1>8. ASSUME NEW u \in Threads \ overlap', ~crashed' PROVE Answered(u)'
  <2>1. u \in Threads \ overlap /\ ~crashed /\ Answered(u)
    BY <1>8 DEF LoaderInv, Undisturbed
  <2>2. CASE u # t
    BY <2>1, <2>2 DEF LoaderInv, Answered, LoaderTypeOK, Wanted
  <2>3. CASE u = t
    <3>1. ~failed[t] /\ ~disableAll /\ plugins # None
      BY <2>1 DEF LoaderInv, Placed, MadeOnce, Filling, Marked
    <3> QED
      BY <2>3, <3>1 DEF LoaderInv, LoaderTypeOK, Answered
  <2> QED
    BY <2>2, <2>3
<1> QED
  BY <1>1, <1>2, <1>3, <1>4, <1>5, <1>6, <1>7, <1>8 DEF LoaderInv, Undisturbed

LEMMA ChooseStep ==
    ASSUME LoaderInv, NEW t \in Threads, Choose(t)
    PROVE  LoaderInv'
<1> USE DEF Choose, Go, settings, globals, locals, history
<1>1. LoaderTypeOK'
  <2>1. view[t] # None => Len(dicts[view[t]]) \in 0 .. Len(EntryPoints)
    <3> SUFFICES ASSUME view[t] # None PROVE Len(dicts[view[t]]) \in 0 .. Len(EntryPoints)
      OBVIOUS
    <3>1. view[t] \in Threads /\ dicts[view[t]] \in Seq(Range(EntryPoints))
      BY DEF LoaderInv, LoaderTypeOK
    <3>2. Len(dicts[view[t]]) <= Len(EntryPoints)
      BY <3>1, PluginAssumption, DistinctShorter DEF LoaderInv, Filled
    <3> QED
      BY <3>1, <3>2, PluginAssumption
  <2>2. size' \in [Threads -> 0 .. Len(EntryPoints)]
    BY <2>1 DEF LoaderInv, LoaderTypeOK
  <2>3. << >> \in Seq(Range(EntryPoints))
    OBVIOUS
  <2>4. seen' \in [Threads -> Seq(Range(EntryPoints))]
    BY <2>3 DEF LoaderInv, LoaderTypeOK
  <2>5. at' \in [Threads -> Places]
    BY DEF LoaderInv, LoaderTypeOK, Places
  <2> QED
    BY <2>2, <2>4, <2>5 DEF LoaderInv, LoaderTypeOK
<1>2. ASSUME NEW u \in Threads PROVE Placed(u)'
  BY PluginAssumption DEF LoaderInv, Placed, LoaderTypeOK, Filling, Marked
<1>3. MadeOnce'
  BY PluginAssumption DEF LoaderInv, MadeOnce, LoaderTypeOK, Filling, Marked
<1>4. Filled'
  BY DEF LoaderInv, Filled, Loadable, LoaderTypeOK
<1>5. FlagComesDown'
  BY DEF LoaderInv, FlagComesDown, LoaderTypeOK, Marked
<1>6. Covered'
  BY PluginAssumption DEF LoaderInv, Covered, Loadable, LoaderTypeOK, Filling, Marked
<1>7. ASSUME NEW u \in Threads \ overlap' PROVE Alone(u)'
  <2>1. Loaders' = Loaders
    BY DEF LoaderInv, LoaderTypeOK, Loaders
  <2> QED
    BY <2>1 DEF LoaderInv, Undisturbed, Alone, LoaderTypeOK, Inside, Places
<1>8. ASSUME NEW u \in Threads \ overlap', ~crashed' PROVE Answered(u)'
  <2>1. u \in Threads \ overlap /\ ~crashed /\ Answered(u)
    BY <1>8 DEF LoaderInv, Undisturbed
  <2>2. CASE u # t
    BY <2>1, <2>2 DEF LoaderInv, Answered, LoaderTypeOK, Wanted
  <2>3. CASE u = t
    <3>1. seen'[t] = << >> /\ Range(seen'[t]) = {} /\ view' = view /\ Wanted' = Wanted
      BY DEF LoaderInv, LoaderTypeOK, Range, Wanted
    <3>2. CASE disableAll
      <4>1. view[t] = None /\ at'[t] = "built"
        BY <2>1, <2>3, <3>2 DEF Answered, LoaderInv, LoaderTypeOK
      <4> QED
        BY <2>3, <3>1, <3>2, <4>1 DEF Answered, Wanted
    <3>3. CASE ~disableAll
      <4>1. view[t] = plugins /\ plugins # None /\ plugins \in Threads
        BY <2>1, <2>3, <3>3 DEF Answered, LoaderInv, LoaderTypeOK
      <4>2. Range(dicts[plugins]) = Wanted
        BY <2>1, <2>3, <3>3, <4>1, AloneInside, QuietDictionary DEF Inside, Places, Loadable, Wanted
      <4>3. CASE dicts[plugins] = << >>
        <5>1. at'[t] = "built" /\ Wanted = {}
          BY <4>1, <4>2, <4>3 DEF LoaderInv, LoaderTypeOK, Range
        <5> QED
          BY <2>3, <3>1, <5>1 DEF Answered
      <4>4. CASE dicts[plugins] # << >>
        <5>1. at'[t] = "iterate" /\ size'[t] = Len(dicts[plugins])
          BY <4>1, <4>4 DEF LoaderInv, LoaderTypeOK
        <5> QED
          BY <2>3, <3>1, <4>1, <5>1 DEF Answered, LoaderInv, LoaderTypeOK
      <4> QED
        BY <4>3, <4>4
    <3> QED
      BY <3>2, <3>3
  <2> QED
    BY <2>2, <2>3
<1> QED
  BY <1>1, <1>2, <1>3, <1>4, <1>5, <1>6, <1>7, <1>8 DEF LoaderInv, Undisturbed

LEMMA IterateStep ==
    ASSUME LoaderInv, NEW t \in Threads, Iterate(t)
    PROVE  LoaderInv'
<1> USE DEF Iterate, Go, settings, globals, locals, history
<1>a. view[t] \in Threads /\ dicts[view[t]] \in Seq(Range(EntryPoints)) /\ seen[t] \in Seq(Range(EntryPoints))
  BY DEF LoaderInv, LoaderTypeOK, Placed
<1>1. LoaderTypeOK'
  <2>1. ASSUME Len(seen[t]) < Len(dicts[view[t]])
        PROVE  Append(seen[t], dicts[view[t]][Len(seen[t]) + 1]) \in Seq(Range(EntryPoints))
    BY <1>a, <2>1
  <2>2. seen' \in [Threads -> Seq(Range(EntryPoints))]
    BY <2>1 DEF LoaderInv, LoaderTypeOK
  <2>3. at' \in [Threads -> Places]
    BY DEF LoaderInv, LoaderTypeOK, Places
  <2> QED
    BY <2>2, <2>3 DEF LoaderInv, LoaderTypeOK
<1>2. ASSUME NEW u \in Threads PROVE Placed(u)'
  BY PluginAssumption DEF LoaderInv, Placed, LoaderTypeOK, Filling, Marked
<1>3. MadeOnce'
  BY PluginAssumption DEF LoaderInv, MadeOnce, LoaderTypeOK, Filling, Marked
<1>4. Filled'
  BY DEF LoaderInv, Filled, Loadable, LoaderTypeOK
<1>5. FlagComesDown'
  BY DEF LoaderInv, FlagComesDown, LoaderTypeOK, Marked
<1>6. Covered'
  BY PluginAssumption DEF LoaderInv, Covered, Loadable, LoaderTypeOK, Filling, Marked
<1>7. ASSUME NEW u \in Threads \ overlap' PROVE Alone(u)'
  <2>1. Loaders' = Loaders
    BY DEF LoaderInv, LoaderTypeOK, Loaders
  <2> QED
    BY <2>1 DEF LoaderInv, Undisturbed, Alone, LoaderTypeOK, Inside, Places
<1>8. ASSUME NEW u \in Threads \ overlap', ~crashed' PROVE Answered(u)'
  <2>1. u \in Threads \ overlap /\ ~crashed /\ Answered(u)
    BY <1>8 DEF LoaderInv, Undisturbed
  <2>2. CASE u # t
    BY <2>1, <2>2 DEF LoaderInv, Answered, LoaderTypeOK, Wanted
  <2>3. CASE u = t
    <3> DEFINE d == dicts[plugins]
               s == seen[t]
    <3>1. /\ view[t] = plugins /\ size[t] = Len(d) /\ Len(s) <= Len(d)
          /\ \A i \in 1 .. Len(s) : s[i] = d[i]
          /\ plugins # None /\ ~disableAll
      BY <2>1, <2>3 DEF Answered, LoaderInv, Placed
    <3>2. d \in Seq(Range(EntryPoints)) /\ s \in Seq(Range(EntryPoints))
      BY <1>a, <3>1
    <3>3. CASE Len(s) < Len(d)
      <4>1. seen'[t] = Append(s, d[Len(s) + 1]) /\ at'[t] = "iterate"
        BY <3>1, <3>3 DEF LoaderInv, LoaderTypeOK
      <4>2. Len(seen'[t]) = Len(s) + 1 /\ \A i \in 1 .. Len(s) + 1 : seen'[t][i] = d[i]
        <5> HIDE DEF d, s
        <5> QED
          BY <3>1, <3>2, <3>3, <4>1
      <4> QED
        BY <2>3, <3>1, <3>2, <3>3, <4>1, <4>2 DEF Answered
    <3>4. CASE Len(s) = Len(d)
      <4>1. seen'[t] = s /\ at'[t] = "built"
        BY <3>1, <3>4 DEF LoaderInv, LoaderTypeOK
      <4>2. Range(s) = Range(d)
        <5> HIDE DEF d, s
        <5>1. Range(s) = {s[i] : i \in 1 .. Len(s)} /\ Range(d) = {d[i] : i \in 1 .. Len(d)}
          BY <3>2, RangeOfSeq
        <5> QED
          BY <3>1, <3>4, <5>1
      <4>3. Range(d) = Wanted
        BY <2>1, <2>3, <3>1, AloneInside, QuietDictionary DEF Inside, Places, Loadable, Wanted
      <4> QED
        BY <2>3, <4>1, <4>2, <4>3 DEF Answered, Wanted
    <3> QED
      BY <3>1, <3>2, <3>3, <3>4
  <2> QED
    BY <2>2, <2>3
<1> QED
  BY <1>1, <1>2, <1>3, <1>4, <1>5, <1>6, <1>7, <1>8 DEF LoaderInv, Undisturbed

LEMMA LeaveStep ==
    ASSUME LoaderInv, NEW t \in Threads, Leave(t)
    PROVE  LoaderInv'
<1> USE DEF Leave, Go, settings, globals, locals, history
<1>1. LoaderTypeOK'
  BY PluginAssumption DEF LoaderInv, LoaderTypeOK, Places
<1>2. ASSUME NEW u \in Threads PROVE Placed(u)'
  BY PluginAssumption DEF LoaderInv, Placed, LoaderTypeOK, Filling, Marked
<1>3. MadeOnce'
  BY PluginAssumption DEF LoaderInv, MadeOnce, LoaderTypeOK, Filling, Marked
<1>4. Filled'
  BY DEF LoaderInv, Filled, Loadable, LoaderTypeOK
<1>5. FlagComesDown'
  BY DEF LoaderInv, FlagComesDown, LoaderTypeOK, Marked
<1>6. Covered'
  BY PluginAssumption DEF LoaderInv, Covered, Loadable, LoaderTypeOK, Filling, Marked
<1>7. ASSUME NEW u \in Threads \ overlap' PROVE Alone(u)'
  BY DEF LoaderInv, Undisturbed, Alone, Loaders, Inside, Places, LoaderTypeOK
<1>8. ASSUME NEW u \in Threads \ overlap', ~crashed' PROVE Answered(u)'
  BY <1>8 DEF LoaderInv, Undisturbed, Alone, Answered, Loaders, Inside, Places, LoaderTypeOK, Wanted
<1> QED
  BY <1>1, <1>2, <1>3, <1>4, <1>5, <1>6, <1>7, <1>8 DEF LoaderInv, Undisturbed

-----------------------------------------------------------------------------
(* All steps.                                                              *)

LEMMA LoaderInitially == LoaderInit => LoaderInv
<1> SUFFICES ASSUME LoaderInit PROVE LoaderInv
  OBVIOUS
<1>1. LoaderTypeOK
  <2>1. 1 \in 1 .. Len(EntryPoints) + 1 /\ 0 \in 0 .. Len(EntryPoints)
    BY EntryPointsCounted
  <2>2. << >> \in Seq(Range(EntryPoints))
    OBVIOUS
  <2> QED
    BY <2>1, <2>2 DEF LoaderInit, LoaderTypeOK, Places
<1>2. \A t \in Threads : Placed(t)
  BY DEF LoaderInit, Placed, Filling, Marked
<1>3. MadeOnce /\ FlagComesDown /\ Covered
  BY DEF LoaderInit, MadeOnce, FlagComesDown, Covered, Filling, Marked
<1>4. Filled
  BY DEF LoaderInit, Filled, Range
<1>5. Undisturbed
  BY DEF LoaderInit, Undisturbed, Alone, Answered, Inside
<1> QED
  BY <1>1, <1>2, <1>3, <1>4, <1>5 DEF LoaderInv

\* What a step of the program does to the loader.
LEMMA NextInLoader ==
    ASSUME [Next]_vars
    PROVE  \/ UNCHANGED loaderVars
           \/ \E t \in Threads : GetPlugins(t) \/ InLoader(t) \/ Leave(t)
<1>1. ASSUME NEW a \in Annotations, Define(a) PROVE UNCHANGED loaderVars
  BY <1>1 DEF Define
<1>2. ASSUME NEW t \in Threads, Decorate(t) \/ Call(t) PROVE UNCHANGED loaderVars
  BY <1>2 DEF Decorate, Call
<1>3. ASSUME NEW t \in Threads, Proceed(t)
      PROVE  UNCHANGED loaderVars \/ GetPlugins(t) \/ InLoader(t) \/ Leave(t)
  BY <1>3 DEF Proceed, GenerateArgs, GenerateReturn, Generate, CreateValidator,
              CreateRaised, SetValidator, SetReturnValidator, SetComplete,
              ValidateArgs, ValidateReturn
<1> QED
  BY <1>1, <1>2, <1>3 DEF Next, vars

LEMMA LoaderStep ==
    ASSUME LoaderInv, [Next]_vars
    PROVE  LoaderInv'
<1>1. ASSUME UNCHANGED loaderVars PROVE LoaderInv'
  <2> USE <1>1 DEF loaderVars, globals, settings, locals, history
  <2>1. LoaderTypeOK' = LoaderTypeOK
    BY DEF LoaderTypeOK
  <2>2. ASSUME NEW t PROVE Placed(t)' = Placed(t)
    BY DEF Placed
  <2>3. MadeOnce' = MadeOnce /\ FlagComesDown' = FlagComesDown
    BY DEF MadeOnce, FlagComesDown
  <2>4. Filled' = Filled /\ Covered' = Covered
    BY DEF Filled, Covered, Loadable
  <2>5. Undisturbed' = Undisturbed
    BY DEF Undisturbed, Alone, Answered, Loaders, Wanted
  <2> QED
    BY <2>1, <2>2, <2>3, <2>4, <2>5 DEF LoaderInv
<1>2. ASSUME NEW t \in Threads, GetPlugins(t) \/ InLoader(t) \/ Leave(t) PROVE LoaderInv'
  BY <1>2, GetPluginsStep, ReadFlagStep, ReadGlobalStep, SetEmptyStep, MarkStep,
     ScanStep, ImportStep, LoadStep, ResetStep, ChooseStep, IterateStep, LeaveStep
     DEF InLoader
<1> QED
  BY <1>1, <1>2, NextInLoader

LEMMA WrapperStep ==
    ASSUME TypeOK, LoaderInv, Wrapped, [Next]_vars
    PROVE  TypeOK' /\ Wrapped'
<1>1. LoaderTypeOK'
  BY LoaderStep DEF LoaderInv
<1> USE DEF Step, wrapper, options, Annotations, Steps, Slot, Final
<1>2. ASSUME NEW a \in Annotations, Define(a) PROVE TypeOK' /\ Wrapped'
  BY <1>1, <1>2 DEF Define, TypeOK, Wrapped
<1>3. ASSUME NEW t \in Threads, Decorate(t) PROVE TypeOK' /\ Wrapped'
  BY <1>1, <1>3 DEF Decorate, TypeOK, Wrapped
<1>4. ASSUME NEW t \in Threads, Call(t) PROVE TypeOK' /\ Wrapped'
  BY <1>1, <1>4 DEF Call, NeedsBuild, TypeOK, Wrapped
<1>5. ASSUME NEW t \in Threads, GenerateArgs(t) PROVE TypeOK' /\ Wrapped'
  BY <1>1, <1>5 DEF GenerateArgs, Generate, TypeOK, Wrapped
<1>6. ASSUME NEW t \in Threads, GenerateReturn(t) PROVE TypeOK' /\ Wrapped'
  BY <1>1, <1>6 DEF GenerateReturn, Generate, TypeOK, Wrapped
<1>7. ASSUME NEW t \in Threads, CreateValidator(t) PROVE TypeOK' /\ Wrapped'
  BY <1>1, <1>7 DEF CreateValidator, TypeOK, Wrapped
<1>8. ASSUME NEW t \in Threads, CreateRaised(t) PROVE TypeOK' /\ Wrapped'
  BY <1>1, <1>8 DEF CreateRaised, TypeOK, Wrapped
<1>9. ASSUME NEW t \in Threads, SetValidator(t) PROVE TypeOK' /\ Wrapped'
  BY <1>1, <1>9 DEF SetValidator, TypeOK, Wrapped
<1>10. ASSUME NEW t \in Threads, SetReturnValidator(t) PROVE TypeOK' /\ Wrapped'
  BY <1>1, <1>10 DEF SetReturnValidator, TypeOK, Wrapped
<1>11. ASSUME NEW t \in Threads, SetComplete(t) PROVE TypeOK' /\ Wrapped'
  BY <1>1, <1>11 DEF SetComplete, Completed, TypeOK, Wrapped
<1>12. ASSUME NEW t \in Threads, ValidateArgs(t) PROVE TypeOK' /\ Wrapped'
  BY <1>1, <1>12 DEF ValidateArgs, TypeOK, Wrapped
<1>13. ASSUME NEW t \in Threads, ValidateReturn(t) PROVE TypeOK' /\ Wrapped'
  BY <1>1, <1>13 DEF ValidateReturn, TypeOK, Wrapped
<1>14. CASE UNCHANGED vars
  BY <1>1, <1>14 DEF vars, TypeOK, Wrapped
<1> QED
  BY <1>2, <1>3, <1>4, <1>5, <1>6, <1>7, <1>8, <1>9, <1>10, <1>11, <1>12, <1>13, <1>14
     DEF Next, Proceed

LEMMA InvHolds == Spec => []Inv
<1>1. Init => Inv
  <2> SUFFICES ASSUME Init PROVE Inv
    OBVIOUS
  <2>1. LoaderInv
    BY LoaderInitially DEF Init
  <2>2. TypeOK
    BY <2>1 DEF Init, LoaderInv, TypeOK, Annotations, Steps, Slot
  <2>3. Wrapped
    BY DEF Init, Wrapped
  <2> QED
    BY <2>1, <2>2, <2>3 DEF Inv
<1>2. Inv /\ [Next]_vars => Inv'
  BY LoaderStep, WrapperStep DEF Inv
<1> QED
  BY <1>1, <1>2, PTL DEF Spec

-----------------------------------------------------------------------------
(* The theorems.                                                           *)

\* The globals of the loader, the locals of its callers and the slots of the
\* wrapper only hold what the code puts there (_loader.py, _validate_call.py).
THEOREM TypeCorrect == Spec => []TypeOK
<1>1. Inv => TypeOK
  BY DEF Inv
<1> QED
  BY <1>1, InvHolds, PTL

\* However many threads load, fail to load and load again over each other's
\* dictionaries, once all are through the flag is down and the dictionary in use
\* has every plugin that loads (get_plugins, _loader.py:22-57).
THEOREM LoadingSettles == Spec => []LoaderSettles
<1>1. Inv => LoaderSettles
  BY QuietFlag, QuietDictionary DEF Inv, LoaderSettles, Loadable
<1> QED
  BY <1>1, InvHolds, PTL

\* A thread nobody overlapped builds its validators with all the plugins, and
\* can build them (PluggableSchemaValidator.__init__, _schema_validator.py).
THEOREM PluginsFoundWhenAlone == Spec => []PluginsMissedOnlyWhileLoading
<1>1. Inv => PluginsMissedOnlyWhileLoading
  BY DEF Inv, LoaderInv, Undisturbed, Answered, PluginsMissedOnlyWhileLoading
<1> QED
  BY <1>1, InvHolds, PTL

\* A call that validates finds both validators: __pydantic_complete__ is set
\* after them, and they are never unset (ValidateCallWrapper.__call__).
THEOREM ValidatorsFound == Spec => []CallsFindValidators
<1>1. Inv => CallsFindValidators
  BY DEF Inv, Wrapped, Final, CallsFindValidators
<1> QED
  BY <1>1, InvHolds, PTL
=============================================================================
