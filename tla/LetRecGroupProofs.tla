-------------------------- MODULE LetRecGroupProofs --------------------------
(***************************************************************************)
(* For a group of any size, with any kinds and any dependencies: the       *)
(* validation refuses exactly the groups that break the rule of            *)
(* docs/src/SPEC.md, and evaluating an accepted group never looks up an    *)
(* uninitialized slot.                                                     *)
(***************************************************************************)
EXTENDS LetRecGroup, SequenceTheorems, TLAPS

\* The elements of a path with one more call.
LEMMA PushedPath ==
    ASSUME NEW B, NEW p \in Seq(B), NEW x \in B
    PROVE  /\ Append(p, x) \in Seq(B)
           /\ Len(Append(p, x)) = Len(p) + 1
           /\ Append(p, x)[Len(p) + 1] = x
           /\ \A k \in 1..Len(p) : Append(p, x)[k] = p[k]
    OBVIOUS

\* The first n elements of a path.
LEMMA CutPath ==
    ASSUME NEW B, NEW p \in Seq(B), NEW n \in 0..Len(p)
    PROVE  /\ SubSeq(p, 1, n) \in Seq(B)
           /\ Len(SubSeq(p, 1, n)) = n
           /\ \A k \in 1..n : SubSeq(p, 1, n)[k] = p[k]
<1>1. Len(p) \in Nat /\ n \in Int /\ 1 \in Int
    OBVIOUS
<1>2. \A k \in 1..n : p[k] \in B
    BY <1>1
<1> QED BY <1>1, <1>2, SubSeqProperties

\* The elements of a path whose last call returned.
LEMMA PoppedPath ==
    ASSUME NEW B, NEW p \in Seq(B), p # <<>>
    PROVE  /\ SubSeq(p, 1, Len(p) - 1) \in Seq(B)
           /\ Len(SubSeq(p, 1, Len(p) - 1)) = Len(p) - 1
           /\ \A k \in 1..(Len(p) - 1) : SubSeq(p, 1, Len(p) - 1)[k] = p[k]
           /\ Len(p) \in Nat \ {0} /\ p[Len(p)] \in B
<1>1. Len(p) \in Nat \ {0} /\ p[Len(p)] \in B
    OBVIOUS
<1>2. Len(p) - 1 \in 0..Len(p)
    BY <1>1
<1> QED BY <1>1, <1>2, CutPath

\* The mentions of a binding are bindings.
LEMMA MentionsType == TypeOK => \A i \in Nat : Mentions(i) \subseteq Bindings
    BY GroupSize DEF TypeOK, References, Mentions, Bindings

\* The types of the group's variables are kept.
LEMMA TypeStep == TypeOK /\ [Next]_vars => TypeOK'
<1> SUFFICES ASSUME TypeOK, [Next]_vars PROVE TypeOK'
    OBVIOUS
<1> USE GroupSize DEF TypeOK, References, group, search, slots
<1>m. \A i \in Nat : Mentions(i) \subseteq Bindings
    BY MentionsType
<1>1. CASE BindingPassed
    BY <1>1, <1>m DEF BindingPassed, Validating, NextBinding, Mentions
<1>2. ASSUME NEW d \in unchecked, CheckDependency(d) PROVE TypeOK'
    <2>1. CASE Reject
        BY <1>2, <2>1 DEF Reject
    <2>2. CASE /\ Visit(d) /\ unchecked' = unchecked \ {d}
               /\ UNCHANGED <<group, phase, index, slots>>
        <3>1. path' \in Seq(Bindings)
            BY <2>2, PushedPath DEF Visit
        <3> QED BY <2>2, <3>1 DEF Visit
    <2>3. CASE UNCHANGED <<search, explored, group, phase, index, slots>> /\ unchecked' = unchecked \ {d}
        BY <2>3
    <2> QED BY <1>2, <2>1, <2>2, <2>3 DEF CheckDependency
<1>3. ASSUME NEW d \in Bindings, SearchDependency(d) PROVE TypeOK'
    <2>1. CASE Reject
        BY <2>1 DEF Reject
    <2>t. Top \in Bindings
        BY <1>3, PoppedPath DEF SearchDependency, Searching, Top
    <2>2. CASE /\ path' = Append(path, d)
               /\ visiting' = visiting \cup {d}
               /\ todo' = [todo EXCEPT ![Top] = @ \ {d}, ![d] = deps[d]]
               /\ explored' = explored \cup {d}
               /\ UNCHANGED <<group, phase, index, unchecked, slots>>
        <3>1. path' \in Seq(Bindings)
            BY <2>2, PushedPath
        <3> QED BY <2>2, <3>1, <2>t
    <2>3. CASE /\ todo' = [todo EXCEPT ![Top] = @ \ {d}]
               /\ UNCHANGED <<group, phase, index, unchecked, path, visiting, explored, slots>>
        BY <2>3, <2>t
    <2> QED BY <1>3, <2>1, <2>2, <2>3 DEF SearchDependency
<1>4. CASE SearchReturns
    <2>1. path' \in Seq(Bindings)
        BY <1>4, PoppedPath DEF SearchReturns, Searching
    <2> QED BY <1>4, <2>1 DEF SearchReturns
<1>5. CASE EnterGroup
    BY <1>5, <1>m DEF EnterGroup
<1>6. ASSUME NEW x \in reachable, LookUp(x) PROVE TypeOK'
    BY <1>6 DEF LookUp
<1>7. CASE InitializeSlot
    <2>1. index \in Bindings /\ index + 1 \in 0..N
        BY <1>7 DEF InitializeSlot, Bindings
    <2>2. phase' = "initializing" => index' < N
        BY <1>7, <2>1 DEF InitializeSlot
    <2> QED BY <1>7, <1>m, <2>1, <2>2 DEF InitializeSlot
<1>8. CASE Finished \/ UNCHANGED vars
    BY <1>8 DEF Finished, vars
<1> QED BY <1>1, <1>2, <1>3, <1>4, <1>5, <1>6, <1>7, <1>8 DEF Next

-----------------------------------------------------------------------------
(* Validation, one lemma per action.                                        *)

\* A value whose dependencies all passed is well-founded: they, and all that
\* the explored functions mention, are the witness.
LEMMA PassedIsWellfounded ==
    ASSUME TypeOK, GroupInv, Validating, kind[index] = "Value", unchecked = {}
    PROVE  Wellfounded(index)
<1> DEFINE S == deps[index] \cup UNION {deps[f] : f \in explored}
<1> USE DEF Validating
<1>1. index \in Bindings /\ explored \subseteq Bindings
    BY GroupSize DEF TypeOK, Bindings
<1>2. visiting = {}
    BY DEF GroupInv, SearchShape
<1>3. \A d \in S : d < index /\ (kind[d] = "Function" => d \in explored)
    BY <1>1, <1>2 DEF GroupInv, SearchSound, Cleared
<1>4. S \subseteq Bindings
    BY <1>1 DEF TypeOK, References
<1>5. S \in SUBSET (0 .. index - 1)
    BY <1>1, <1>3, <1>4, GroupSize DEF Bindings
<1>6. FunctionClosed(S)
    BY <1>3 DEF FunctionClosed
<1> QED BY <1>5, <1>6 DEF Wellfounded

LEMMA BindingPassedInv ==
    ASSUME TypeOK, GroupInv, BindingPassed
    PROVE  GroupInv'
<1> USE DEF BindingPassed, Validating, NextBinding, group, search, slots
<1>0. index \in Bindings /\ index \in Nat /\ index + 1 \in Nat
    BY GroupSize DEF TypeOK, Bindings
<1>1. /\ phase' = "validating" /\ path' = path /\ path = <<>> /\ visiting' = visiting
      /\ kind' = kind /\ deps' = deps /\ explored' = {} /\ todo' = todo
      /\ index' = index + 1 /\ unchecked' = Mentions(index + 1)
      /\ ready' = ready /\ reachable' = reachable
    OBVIOUS
<1>2. visiting = {}
    BY DEF GroupInv, SearchShape
<1>3. SearchShape'
    BY <1>1, <1>2 DEF SearchShape, Mentions
<1>4. SearchSound'
    <2>1. index' < N => deps'[index'] \ unchecked' = {}
        BY <1>1 DEF Mentions
    <2> QED BY <1>1, <2>1 DEF SearchSound
<1>5. SearchNeeded'
    BY <1>1 DEF SearchNeeded
<1>6. PassedSound'
    <2>1. kind[index] = "Value" => Wellfounded(index)
        BY PassedIsWellfounded
    <2>2. \A i \in Bindings : i < index + 1 => i < index \/ i = index
        BY <1>0 DEF Bindings
    <2>3. \A i \in Bindings : i < index + 1 /\ kind[i] = "Value" => Wellfounded(i)
        BY <1>1, <2>1, <2>2 DEF GroupInv, PassedSound
    <2> QED BY <1>1, <2>3, ZenonT(60) DEF PassedSound, Wellfounded, FunctionClosed
<1>7. ready' = {} /\ reachable' = {}
    BY <1>1 DEF GroupInv
<1> QED BY <1>1, <1>3, <1>4, <1>5, <1>6, <1>7 DEF GroupInv, VerdictIsRule

\* A rejection is justified when every closed set around the value holds a
\* binding that is not initialized.
LEMMA RejectInv ==
    ASSUME TypeOK, GroupInv, Reject, index < N, kind[index] = "Value", phase = "validating",
           NEW d \in Bindings, Uninitialized(d),
           \A S \in SUBSET Bindings : deps[index] \subseteq S /\ FunctionClosed(S) => d \in S
    PROVE  GroupInv'
<1> USE DEF Reject, group, search, slots
<1>1. ~Wellfounded(index)
    <2> SUFFICES ASSUME NEW S \in SUBSET (0 .. index - 1), deps[index] \subseteq S, FunctionClosed(S)
                 PROVE  FALSE
        BY DEF Wellfounded
    <2>1. S \in SUBSET Bindings
        BY GroupSize DEF TypeOK, Bindings
    <2>2. d \in 0 .. index - 1
        BY <2>1
    <2> QED BY <2>2, GroupSize DEF Uninitialized, TypeOK
<1>2. ~Wellfounded(index)' /\ kind'[index'] = "Value"
    BY <1>1 DEF Wellfounded, FunctionClosed
<1>3. ready' = {} /\ reachable' = {}
    BY DEF GroupInv
<1> QED BY <1>2, <1>3 DEF GroupInv, VerdictIsRule

\* A function of the group is visited from the value itself or from the
\* function at the end of the path; either way it is one that every closed
\* set around the value holds.
LEMMA VisitShape ==
    ASSUME TypeOK, GroupInv, phase = "validating", index < N, kind[index] = "Value",
           NEW d \in Bindings, kind[d] = "Function", d \notin visiting,
           path' = Append(path, d), visiting' = visiting \cup {d},
           explored' = explored \cup {d},
           todo'[d] = deps[d], todo' \in [Bindings -> SUBSET Bindings],
           \A f \in visiting : todo'[f] \subseteq todo[f],
           unchecked' \subseteq unchecked,
           UNCHANGED <<group, phase, index>>
    PROVE  SearchShape'
<1> USE DEF group
<1>0. SearchShape
    BY DEF GroupInv
<1>1. /\ Len(path') = Len(path) + 1 /\ path'[Len(path) + 1] = d /\ Len(path) \in Nat
      /\ \A k \in 1..Len(path) : path'[k] = path[k]
    BY PushedPath DEF TypeOK
<1>2. \A k \in 1..Len(path') : k \in 1..Len(path) \/ k = Len(path) + 1
    BY <1>1
<1>3. 1..Len(path) \subseteq 1..Len(path') /\ Len(path) + 1 \in 1..Len(path')
    BY <1>1
<1>4. \A k \in 1..Len(path') : path'[k] \in visiting'
    BY <1>0, <1>1, <1>2 DEF SearchShape
<1>5. \A f \in visiting' : \E k \in 1..Len(path') : path'[k] = f
    BY <1>0, <1>1, <1>3 DEF SearchShape
<1>6. \A j, k \in 1..Len(path') : path'[j] = path'[k] => j = k
    BY <1>0, <1>1, <1>2 DEF SearchShape
<1>7. \A f \in visiting' : kind'[f] = "Function" /\ todo'[f] \subseteq deps'[f] /\ f \in explored'
    BY <1>0 DEF SearchShape
<1>8. unchecked' \subseteq Mentions(index)'
    BY <1>0 DEF SearchShape, Mentions
<1>9. ~(index' = N \/ kind'[index'] = "Function")
    BY GroupSize DEF TypeOK
<1> QED BY <1>4, <1>5, <1>6, <1>7, <1>8, <1>9 DEF SearchShape

LEMMA CheckDependencyInv ==
    ASSUME TypeOK, GroupInv, NEW d \in unchecked, CheckDependency(d)
    PROVE  GroupInv'
<1> USE DEF group, search, slots
<1>0. /\ phase = "validating" /\ path = <<>> /\ index < N /\ kind[index] = "Value"
      /\ d \in Bindings /\ index \in Bindings
    BY GroupSize DEF CheckDependency, Validating, TypeOK, Bindings
<1>s. SearchShape /\ SearchSound /\ SearchNeeded /\ PassedSound
    BY <1>0 DEF GroupInv
<1>d. d \in deps[index]
    BY <1>0, <1>s DEF SearchShape, Mentions
<1>v. visiting = {}
    BY <1>0, <1>s DEF SearchShape
<1>1. CASE Uninitialized(d) /\ Reject
    BY <1>0, <1>1, <1>d, RejectInv
<1>2. CASE /\ ~Uninitialized(d) /\ unchecked' = unchecked \ {d}
           /\ kind[d] = "Function" /\ Visit(d)
           /\ UNCHANGED <<group, phase, index, slots>>
    <2> USE <1>2 DEF Visit
    <2>1. d < index
        BY <1>0, GroupSize DEF Uninitialized, TypeOK, Bindings
    <2>2. SearchShape'
        BY <1>0, <1>v, VisitShape DEF TypeOK, References
    <2>3. SearchSound'
        BY <1>0, <1>s, <1>v, <2>1 DEF SearchSound, Cleared, TypeOK
    <2>4. SearchNeeded'
        BY <1>s, <1>d DEF SearchNeeded, FunctionClosed
    <2>5. PassedSound'
        BY <1>s DEF PassedSound, Wellfounded, FunctionClosed
    <2> QED BY <1>0, <2>2, <2>3, <2>4, <2>5 DEF GroupInv, VerdictIsRule
<1>3. CASE /\ ~Uninitialized(d) /\ unchecked' = unchecked \ {d}
           /\ kind[d] = "Value" /\ UNCHANGED <<search, explored>>
           /\ UNCHANGED <<group, phase, index, slots>>
    <2> USE <1>3
    <2>1. d < index
        BY <1>0, GroupSize DEF Uninitialized, TypeOK, Bindings
    <2>2. SearchShape'
        BY <1>s DEF SearchShape, Mentions
    <2>3. SearchSound'
        BY <1>0, <1>s, <2>1 DEF SearchSound, Cleared
    <2>4. SearchNeeded'
        BY <1>s DEF SearchNeeded, FunctionClosed
    <2>5. PassedSound'
        BY <1>s DEF PassedSound, Wellfounded, FunctionClosed
    <2> QED BY <1>0, <2>2, <2>3, <2>4, <2>5 DEF GroupInv, VerdictIsRule
<1> QED BY <1>1, <1>2, <1>3 DEF CheckDependency

LEMMA SearchDependencyInv ==
    ASSUME TypeOK, GroupInv, NEW d \in Bindings, SearchDependency(d)
    PROVE  GroupInv'
<1> USE DEF group, search, slots
<1>0. phase = "validating" /\ path # <<>> /\ d \in todo[Top]
    BY DEF SearchDependency, Searching
<1>s. SearchShape /\ SearchSound /\ SearchNeeded /\ PassedSound
    BY <1>0 DEF GroupInv
<1>i. index < N /\ kind[index] = "Value" /\ index \in Bindings
    BY <1>0, <1>s, GroupSize DEF SearchShape, TypeOK, Bindings
<1>t. Top \in Bindings /\ Top \in visiting
    <2>1. Len(path) \in 1..Len(path) /\ path[Len(path)] \in Bindings
        BY <1>0, PoppedPath DEF TypeOK
    <2> QED BY <2>1, <1>s DEF SearchShape, Top
<1>u. Top \in explored /\ kind[Top] = "Function" /\ d \in deps[Top]
    BY <1>0, <1>s, <1>t DEF SearchShape
<1>d. \A S \in SUBSET Bindings : deps[index] \subseteq S /\ FunctionClosed(S) => d \in S
    BY <1>i, <1>s, <1>u DEF SearchNeeded, FunctionClosed
<1>1. CASE Uninitialized(d) /\ Reject
    BY <1>0, <1>1, <1>d, <1>i, RejectInv
<1>2. CASE /\ ~Uninitialized(d) /\ kind[d] = "Function" /\ d \notin visiting
           /\ path' = Append(path, d)
           /\ visiting' = visiting \cup {d}
           /\ todo' = [todo EXCEPT ![Top] = @ \ {d}, ![d] = deps[d]]
           /\ explored' = explored \cup {d}
           /\ UNCHANGED <<group, phase, index, unchecked, slots>>
    <2> USE <1>2
    <2>1. d < index
        BY <1>i, GroupSize DEF Uninitialized, TypeOK, Bindings
    <2>f. /\ todo' \in [Bindings -> SUBSET Bindings] /\ todo'[d] = deps[d]
          /\ d # Top /\ todo'[Top] = todo[Top] \ {d}
          /\ \A f \in Bindings \ {d, Top} : todo'[f] = todo[f]
        BY <1>t DEF TypeOK, References
    <2>g. \A f \in visiting : f # d /\ todo'[f] \subseteq todo[f]
        BY <2>f DEF TypeOK
    <2>2. SearchShape'
        BY <1>0, <1>i, <2>f, <2>g, VisitShape
    <2>3. SearchSound'
        <3>1. \A x \in Bindings : Cleared(x) => Cleared(x)'
            BY DEF Cleared
        <3>2. Cleared(d)'
            BY <2>1 DEF Cleared
        <3>3. \A f \in explored : \A x \in deps[f] : (f \in visiting /\ x \in todo[f]) \/ Cleared(x)
            BY <1>s DEF SearchSound
        <3>4. ASSUME NEW f \in explored', NEW x \in deps'[f]
              PROVE  (f \in visiting' /\ x \in todo'[f]) \/ Cleared(x)'
            <4>1. x \in Bindings /\ f \in Bindings
                BY DEF TypeOK, References
            <4>2. CASE f = d
                BY <4>2, <2>f
            <4>3. CASE f # d /\ f = Top
                BY <4>1, <4>3, <3>1, <3>2, <3>3, <2>f
            <4>4. CASE f # d /\ f # Top
                BY <4>1, <4>4, <3>1, <3>3, <2>f
            <4> QED BY <4>2, <4>3, <4>4
        <3> QED BY <1>s, <1>i, <3>1, <3>4 DEF SearchSound, TypeOK, References
    <2>4. SearchNeeded'
        BY <1>s, <1>d DEF SearchNeeded, FunctionClosed
    <2>5. PassedSound'
        BY <1>s DEF PassedSound, Wellfounded, FunctionClosed
    <2> QED BY <1>0, <2>2, <2>3, <2>4, <2>5 DEF GroupInv, VerdictIsRule
<1>3. CASE /\ ~Uninitialized(d) /\ (kind[d] = "Value" \/ d \in visiting)
           /\ todo' = [todo EXCEPT ![Top] = @ \ {d}]
           /\ UNCHANGED <<group, phase, index, unchecked, path, visiting, explored, slots>>
    <2> USE <1>3
    <2>1. d < index
        BY <1>i, GroupSize DEF Uninitialized, TypeOK, Bindings
    <2>f. /\ todo'[Top] = todo[Top] \ {d}
          /\ \A f \in Bindings \ {Top} : todo'[f] = todo[f]
        BY <1>t DEF TypeOK
    <2>2. SearchShape'
        <3>1. \A f \in visiting : todo'[f] \subseteq deps[f]
            BY <1>s, <2>f DEF SearchShape, TypeOK
        <3> QED BY <1>s, <3>1 DEF SearchShape, Mentions
    <2>3. SearchSound'
        <3>1. \A x \in Bindings : Cleared(x) => Cleared(x)'
            BY DEF Cleared
        <3>2. Cleared(d)'
            BY <1>s, <2>1 DEF Cleared, SearchShape
        <3>3. \A f \in explored : \A x \in deps[f] : (f \in visiting /\ x \in todo[f]) \/ Cleared(x)
            BY <1>s DEF SearchSound
        <3>4. ASSUME NEW f \in explored', NEW x \in deps'[f]
              PROVE  (f \in visiting' /\ x \in todo'[f]) \/ Cleared(x)'
            <4>1. x \in Bindings /\ f \in Bindings
                BY DEF TypeOK, References
            <4>2. CASE f = Top
                BY <4>1, <4>2, <3>1, <3>2, <3>3, <2>f
            <4>3. CASE f # Top
                BY <4>1, <4>3, <3>1, <3>3, <2>f
            <4> QED BY <4>2, <4>3
        <3> QED BY <1>s, <1>i, <3>1, <3>4 DEF SearchSound, TypeOK, References
    <2>4. SearchNeeded'
        BY <1>s DEF SearchNeeded, FunctionClosed
    <2>5. PassedSound'
        BY <1>s DEF PassedSound, Wellfounded, FunctionClosed
    <2> QED BY <1>0, <2>2, <2>3, <2>4, <2>5 DEF GroupInv, VerdictIsRule
<1> QED BY <1>1, <1>2, <1>3 DEF SearchDependency

LEMMA SearchReturnsInv ==
    ASSUME TypeOK, GroupInv, SearchReturns
    PROVE  GroupInv'
<1> USE DEF SearchReturns, group, search, slots
<1>0. phase = "validating" /\ path # <<>> /\ todo[Top] = {}
    BY DEF Searching
<1>s. SearchShape /\ SearchSound /\ SearchNeeded /\ PassedSound
    BY <1>0 DEF GroupInv
<1>p. /\ Len(path') = Len(path) - 1 /\ Len(path) \in Nat \ {0}
      /\ \A k \in 1..(Len(path) - 1) : path'[k] = path[k]
    BY <1>0, PoppedPath DEF TypeOK
<1>q. \A k \in 1..Len(path) : k \in 1..(Len(path) - 1) \/ k = Len(path)
    BY <1>p
<1>r. 1..(Len(path) - 1) \subseteq 1..Len(path) /\ Len(path) \in 1..Len(path)
      /\ Len(path) \notin 1..(Len(path) - 1)
    BY <1>p
<1>1. SearchShape'
    <2>1. \A k \in 1..Len(path') : path'[k] \in visiting'
        BY <1>s, <1>p, <1>r DEF SearchShape, Top
    <2>2. \A f \in visiting' : \E k \in 1..Len(path') : path'[k] = f
        <3> SUFFICES ASSUME NEW f \in visiting, f # Top
                     PROVE  \E k \in 1..Len(path') : path'[k] = f
            OBVIOUS
        <3>1. PICK k \in 1..Len(path) : path[k] = f
            BY <1>s DEF SearchShape
        <3>2. k \in 1..(Len(path) - 1)
            BY <1>q, <3>1 DEF Top
        <3> QED BY <1>p, <3>1, <3>2
    <2>3. \A j, k \in 1..Len(path') : path'[j] = path'[k] => j = k
        BY <1>s, <1>p, <1>r DEF SearchShape
    <2>4. index < N /\ kind[index] = "Value"
        BY <1>0, <1>s DEF SearchShape
    <2>5. /\ \A f \in visiting' : kind'[f] = "Function" /\ todo'[f] \subseteq deps'[f] /\ f \in explored'
          /\ unchecked' \subseteq Mentions(index)'
        BY <1>s DEF SearchShape, Mentions
    <2>6. ~(index' = N \/ kind'[index'] = "Function")
        BY <2>4, GroupSize DEF TypeOK
    <2> QED BY <2>1, <2>2, <2>3, <2>4, <2>5, <2>6 DEF SearchShape
<1>2. SearchSound'
    BY <1>0, <1>s DEF SearchSound, Cleared
<1>3. SearchNeeded'
    BY <1>s DEF SearchNeeded, FunctionClosed
<1>4. PassedSound'
    BY <1>s DEF PassedSound, Wellfounded, FunctionClosed
<1> QED BY <1>0, <1>1, <1>2, <1>3, <1>4 DEF GroupInv, VerdictIsRule

-----------------------------------------------------------------------------
(* Initialization.                                                          *)

\* What a well-founded value mentions is covered.
LEMMA MentionsCovered ==
    ASSUME TypeOK, NEW i \in Nat, Wellfounded(i), NEW x \in deps[i]
    PROVE  x < i /\ \E S \in SUBSET (0 .. i - 1) : x \in S /\ FunctionClosed(S)
<1>1. PICK S \in SUBSET (0 .. i - 1) : deps[i] \subseteq S /\ FunctionClosed(S)
    BY DEF Wellfounded
<1>2. x \in S /\ x \in 0 .. i - 1
    BY <1>1
<1> QED BY <1>1, <1>2

LEMMA EnterGroupInv ==
    ASSUME TypeOK, GroupInv, EnterGroup
    PROVE  GroupInv'
<1> USE DEF EnterGroup, group, search, slots
<1>0. PassedSound /\ ready = {}
    BY DEF GroupInv
<1>1. \A i \in Bindings : kind[i] = "Value" => Wellfounded(i)
    BY <1>0, GroupSize DEF PassedSound, Bindings
<1>2. VerdictIsRule'
    BY <1>1 DEF VerdictIsRule, Wellfounded, FunctionClosed
<1>3. phase' # "validating" /\ phase' # "rejected"
    OBVIOUS
<1>4. ASSUME phase' = "initializing", kind'[index'] = "Value", NEW x \in reachable'
      PROVE  Covered(x)'
    <2>1. N # 0 /\ index' = 0 /\ 0 \in Bindings
        BY <1>4, GroupSize DEF Bindings
    <2>2. Wellfounded(0) /\ x \in deps[0]
        BY <1>1, <1>4, <2>1, GroupSize DEF Mentions
    <2>3. x < 0 /\ \E S \in SUBSET (0 .. 0 - 1) : x \in S /\ FunctionClosed(S)
        BY <2>2, MentionsCovered
    <2> QED BY <2>1, <2>3 DEF Covered, FunctionClosed
<1>5. ready' = 0 .. index' - 1
    BY <1>0
<1> QED BY <1>2, <1>3, <1>4, <1>5 DEF GroupInv

LEMMA LookUpInv ==
    ASSUME TypeOK, GroupInv, NEW x \in reachable, LookUp(x)
    PROVE  GroupInv'
<1> USE DEF LookUp, group, search, slots
<1>0. /\ phase = "initializing" /\ kind[index] = "Value" /\ ready = 0 .. index - 1
      /\ index \in Nat /\ x \in Bindings /\ x \in Nat
      /\ \A i \in Bindings : kind[i] = "Value" => Wellfounded(i)
    BY GroupSize DEF GroupInv, VerdictIsRule, TypeOK, Bindings
<1>1. \A y \in reachable : Covered(y)
    BY <1>0 DEF GroupInv
<1>2. ASSUME NEW y \in deps[x] PROVE Covered(y)
    <2>0. y \in Bindings /\ x < index
        BY <1>0, <1>1 DEF TypeOK, References, Covered
    <2>1. CASE kind[x] = "Value"
        <3>1. y < x /\ \E S \in SUBSET (0 .. x - 1) : y \in S /\ FunctionClosed(S)
            BY <1>0, <2>1, MentionsCovered
        <3>2. PICK S \in SUBSET (0 .. x - 1) : y \in S /\ FunctionClosed(S)
            BY <3>1
        <3>3. S \in SUBSET (0 .. index - 1) /\ y < index
            BY <1>0, <2>0, <3>1, <3>2 DEF Bindings
        <3> QED BY <3>2, <3>3 DEF Covered
    <2>2. CASE kind[x] = "Function"
        <3>1. PICK S \in SUBSET (0 .. index - 1) : x \in S /\ FunctionClosed(S)
            BY <1>1, <2>2 DEF Covered
        <3>2. y \in S
            BY <2>2, <3>1 DEF FunctionClosed
        <3>3. y < index
            BY <1>0, <3>1, <3>2
        <3> QED BY <3>1, <3>2, <3>3 DEF Covered
    <2> QED BY <1>0, <2>1, <2>2 DEF TypeOK, Kinds
<1>3. \A y \in reachable' : Covered(y)'
    BY <1>1, <1>2 DEF Covered, FunctionClosed
<1>4. VerdictIsRule'
    BY DEF GroupInv, VerdictIsRule, Wellfounded, FunctionClosed
<1> QED BY <1>0, <1>3, <1>4 DEF GroupInv

LEMMA InitializeSlotInv ==
    ASSUME TypeOK, GroupInv, InitializeSlot
    PROVE  GroupInv'
<1> USE DEF InitializeSlot, group, search, slots
<1>0. /\ phase = "initializing" /\ ready = 0 .. index - 1 /\ index \in Nat /\ index < N
      /\ \A i \in Bindings : kind[i] = "Value" => Wellfounded(i)
    BY GroupSize DEF GroupInv, VerdictIsRule, TypeOK
<1>1. ready' = 0 .. index' - 1
    BY <1>0
<1>2. VerdictIsRule'
    BY <1>0 DEF VerdictIsRule, Wellfounded, FunctionClosed
<1>3. ASSUME phase' = "initializing", kind'[index'] = "Value", NEW x \in reachable'
      PROVE  Covered(x)'
    <2>1. index + 1 \in Bindings /\ index' = index + 1 /\ index + 1 < N /\ index + 1 \in Nat
        BY <1>0, <1>3, GroupSize DEF Bindings, TypeOK
    <2>2. Wellfounded(index + 1) /\ x \in deps[index + 1]
        BY <1>0, <1>3, <2>1 DEF Mentions
    <2>3. x < index + 1 /\ \E S \in SUBSET (0 .. (index + 1) - 1) : x \in S /\ FunctionClosed(S)
        BY <2>1, <2>2, MentionsCovered
    <2> QED BY <2>1, <2>3 DEF Covered, FunctionClosed
<1>4. phase' # "validating" /\ phase' # "rejected"
    OBVIOUS
<1> QED BY <1>1, <1>2, <1>3, <1>4 DEF GroupInv

-----------------------------------------------------------------------------
\* The search starts with nothing explored and no slot initialized.
LEMMA GroupInit == Init => TypeOK /\ GroupInv
<1> SUFFICES ASSUME Init PROVE TypeOK /\ GroupInv
    OBVIOUS
<1> USE GroupSize DEF Init
<1>1. TypeOK
    BY DEF TypeOK, References, Mentions, Bindings
<1>2. SearchShape /\ SearchSound /\ SearchNeeded
    BY DEF SearchShape, SearchSound, SearchNeeded, Mentions
<1>3. PassedSound
    BY DEF PassedSound, Bindings
<1> QED BY <1>1, <1>2, <1>3 DEF GroupInv, VerdictIsRule

LEMMA GroupStep == TypeOK /\ GroupInv /\ [Next]_vars => GroupInv'
<1> SUFFICES ASSUME TypeOK, GroupInv, [Next]_vars PROVE GroupInv'
    OBVIOUS
<1>1. CASE BindingPassed
    BY <1>1, BindingPassedInv
<1>2. ASSUME NEW d \in unchecked, CheckDependency(d) PROVE GroupInv'
    BY <1>2, CheckDependencyInv
<1>3. ASSUME NEW d \in Bindings, SearchDependency(d) PROVE GroupInv'
    BY <1>3, SearchDependencyInv
<1>4. CASE SearchReturns
    BY <1>4, SearchReturnsInv
<1>5. CASE EnterGroup
    BY <1>5, EnterGroupInv
<1>6. ASSUME NEW x \in reachable, LookUp(x) PROVE GroupInv'
    BY <1>6, LookUpInv
<1>7. CASE InitializeSlot
    BY <1>7, InitializeSlotInv
<1>8. CASE Finished \/ UNCHANGED vars
    <2>0. UNCHANGED vars
        BY <1>8 DEF Finished
    <2> USE <2>0 DEF vars
    <2>1. SearchShape => SearchShape'
        BY DEF SearchShape, Mentions
    <2>2. SearchSound => SearchSound'
        BY DEF SearchSound, Cleared
    <2>3. SearchNeeded => SearchNeeded'
        BY DEF SearchNeeded, FunctionClosed
    <2>4. PassedSound => PassedSound'
        BY DEF PassedSound, Wellfounded, FunctionClosed
    <2>5. VerdictIsRule => VerdictIsRule'
        BY DEF VerdictIsRule, Wellfounded, FunctionClosed
    <2>6. \A x \in reachable : Covered(x) => Covered(x)'
        BY DEF Covered, FunctionClosed
    <2> QED BY <2>1, <2>2, <2>3, <2>4, <2>5, <2>6 DEF GroupInv
<1> QED BY <1>1, <1>2, <1>3, <1>4, <1>5, <1>6, <1>7, <1>8 DEF Next

\* The types and the inductive invariant hold in every state.
LEMMA GroupInvariant == Spec => [](TypeOK /\ GroupInv)
<1> QED BY GroupInit, TypeStep, GroupStep, PTL DEF Spec

\* What the definitions of an accepted group look up while the LetRec frame
\* initializes it is initialized.
THEOREM AcceptedGroupIsSafe == Spec => []NoUninitializedRead
<1>1. TypeOK /\ GroupInv => NoUninitializedRead
    <2> SUFFICES ASSUME TypeOK, GroupInv, phase = "initializing", kind[index] = "Value",
                        NEW x \in reachable
                 PROVE  x \in ready
        BY DEF NoUninitializedRead
    <2>1. x < index /\ x \in Bindings /\ ready = 0 .. index - 1
        BY DEF GroupInv, Covered, TypeOK
    <2> QED BY <2>1, GroupSize DEF Bindings, TypeOK
<1> QED BY <1>1, GroupInvariant, PTL

\* validate_let_rec_bindings accepts exactly the groups the language's rule
\* accepts.
THEOREM ValidationIsRule == Spec => []VerdictIsRule
<1>1. GroupInv => VerdictIsRule
    BY DEF GroupInv
<1> QED BY <1>1, GroupInvariant, PTL
=============================================================================
