--------------------------- MODULE AtomicsProofs ---------------------------
(***************************************************************************)
(* Proofs about the two components that are words shared by threads and     *)
(* nothing else: the byte of Spinlock and the counters of WireTransport.    *)
(* They do not touch; each theorem is about the specification it names.     *)
(*                                                                          *)
(* Spinlock, for any set of threads and any width of the word: type         *)
(* correctness, exclusion, and that it implements SharedLock.  Exclusion is *)
(* not inductive: a writer enters on what the word says, not on who is      *)
(* inside.  WordIsExact ties the two together; it counts readers, which     *)
(* needs their set finite, and it is proved with TypeOK because the count   *)
(* stays below LockedWrite only if no reader swaps a word at the ceiling.   *)
(*                                                                          *)
(* WireTransport, for any senders, events, buffers and limits: what an      *)
(* envelope says was lost or cut before it (ReaderIsTold) and what it       *)
(* carries of its event (EnvelopeTellsAll).  The first needs the counters   *)
(* to be exact at all times (Counts), which needs every call in progress to *)
(* be undecided and no two senders in one call (InProgress), and an earlier *)
(* call that is not beside a call to be decided before that one began       *)
(* (Overlaps); then the counters a call loads lie between the losses before *)
(* it and those with what was beside it (Loaded), and so does what its      *)
(* envelope says (Told).                                                    *)
(***************************************************************************)
EXTENDS Spinlock, WireTransport, FiniteSetTheorems, SequenceTheorems, TLAPS

\* The word, a writer and the readers, as an inductive invariant.
WordInv ==
    /\ IsFiniteSet(Readers)
    /\ Writers = {} => locked = Cardinality(Readers) /\ locked < LockedWrite
    /\ Writers # {} => locked = LockedWrite /\ Readers = {}
                       /\ \E t \in Threads : Writers = {t}

IInv == TypeOK /\ WordInv

-----------------------------------------------------------------------------
(* Who is inside after a step *)

\* A thread that moves between steps outside changes nobody's place.
LEMMA MoveOutside ==
    ASSUME TypeOK, NEW t \in Threads, NEW step \in Steps \ {"reading", "writing"},
           pc[t] \notin {"reading", "writing"}, Goto(t, step)
    PROVE  Readers' = Readers /\ Writers' = Writers
BY DEF TypeOK, Goto, Readers, Writers

\* Entering and leaving as a writer.
LEMMA WriterMoves ==
    ASSUME TypeOK, NEW t \in Threads
    PROVE  /\ pc[t] = "writeCas" /\ Goto(t, "writing") =>
                Readers' = Readers /\ Writers' = Writers \cup {t}
           /\ pc[t] = "writing" /\ Goto(t, "idle") =>
                Readers' = Readers /\ Writers' = Writers \ {t} /\ t \in Writers
BY DEF TypeOK, Goto, Readers, Writers, Steps

\* Entering and leaving as a reader.
LEMMA ReaderMoves ==
    ASSUME TypeOK, NEW t \in Threads
    PROVE  /\ pc[t] = "readCas" /\ Goto(t, "reading") =>
                Writers' = Writers /\ Readers' = Readers \cup {t} /\ t \notin Readers
           /\ pc[t] = "reading" /\ Goto(t, "idle") =>
                Writers' = Writers /\ Readers' = Readers \ {t} /\ t \in Readers
BY DEF TypeOK, Goto, Readers, Writers, Steps

\* One reader more or less is one more or less in the count.
LEMMA ReaderCount ==
    ASSUME IsFiniteSet(Readers), NEW t
    PROVE  /\ Cardinality(Readers) \in Nat
           /\ Readers = {} <=> Cardinality(Readers) = 0
           /\ IsFiniteSet(Readers \cup {t}) /\ IsFiniteSet(Readers \ {t})
           /\ t \notin Readers => Cardinality(Readers \cup {t}) = Cardinality(Readers) + 1
           /\ t \in Readers => Cardinality(Readers \ {t}) = Cardinality(Readers) - 1
BY FS_CardinalityType, FS_EmptySet, FS_AddElement, FS_RemoveElement

\* Arithmetic on the word does not wrap where the code does it.
LEMMA NoWrap ==
    \A n \in 0 .. LockedWrite : n % Width = n
BY WidthAssumption DEF Width

-----------------------------------------------------------------------------
(* The inductive invariant *)

LEMMA InvInit == Init => IInv
<1> SUFFICES ASSUME Init PROVE IInv
  OBVIOUS
<1>1. TypeOK
  BY WidthAssumption DEF Init, TypeOK, Unlocked, Steps
<1>2. Readers = {} /\ Writers = {}
  BY DEF Init, Readers, Writers
<1>3. WordInv
  BY <1>2, FS_EmptySet, WidthAssumption DEF Init, WordInv, Unlocked
<1> QED  BY <1>1, <1>3 DEF IInv

\* One case per action; each says who is inside and what the word is.
LEMMA InvNext ==
    ASSUME IInv, [Next]_vars
    PROVE  IInv'
<1> USE WidthAssumption DEF IInv
<1>1. ASSUME NEW t \in Threads, StartWrite(t) \/ StartRead(t)
      PROVE  IInv'
  <2>1. TypeOK'
    BY <1>1 DEF StartWrite, StartRead, Goto, TypeOK, Steps
  <2>2. Readers' = Readers /\ Writers' = Writers
    BY <1>1, MoveOutside DEF StartWrite, StartRead, Steps
  <2> QED  BY <1>1, <2>1, <2>2 DEF StartWrite, StartRead, WordInv
<1>2. ASSUME NEW t \in Threads, WriteCas(t)
      PROVE  IInv'
  <2>1. TypeOK'
    BY <1>2 DEF WriteCas, Goto, TypeOK, Steps
  <2>2. Readers' = Readers /\ Writers' = Writers \cup {t}
    BY <1>2, WriterMoves DEF WriteCas
  <2>3. Writers = {} /\ Readers = {}
    <3>1. locked = 0 /\ locked # LockedWrite
      BY <1>2 DEF WriteCas, FreeForWriter, Unlocked
    <3>2. Writers = {} /\ Cardinality(Readers) = 0
      BY <3>1 DEF WordInv
    <3> QED  BY <3>2, ReaderCount DEF WordInv
  <2> QED  BY <1>2, <2>1, <2>2, <2>3 DEF WriteCas, WordInv
<1>3. ASSUME NEW t \in Threads, WriteUnlock(t)
      PROVE  IInv'
  <2>1. TypeOK'
    BY <1>3 DEF WriteUnlock, Unlocked, Goto, TypeOK, Steps
  <2>2. Readers' = Readers /\ Writers' = Writers \ {t} /\ t \in Writers
    BY <1>3, WriterMoves DEF WriteUnlock
  <2>3. Writers' = {} /\ Readers' = {}
    BY <2>2 DEF WordInv
  <2> QED  BY <1>3, <2>1, <2>3, FS_EmptySet DEF WriteUnlock, Unlocked, WordInv
<1>4. ASSUME NEW t \in Threads, NEW value \in 0 .. LockedWrite,
             pc[t] \in {"readLoad", "readCas"}, Consider(t, value)
      PROVE  IInv'
  <2>1. TypeOK'
    BY <1>4 DEF Consider, AtCeiling, Goto, TypeOK, Steps
  <2>2. Readers' = Readers /\ Writers' = Writers
    <3>1. \E step \in {"readLoad", "readCas"} : Goto(t, step)
      BY <1>4 DEF Consider
    <3> QED  BY <1>4, <3>1, MoveOutside DEF Steps
  <2> QED  BY <1>4, <2>1, <2>2 DEF Consider, WordInv
<1>5. ASSUME NEW t \in Threads, ReadCas(t)
      PROVE  IInv'
  <2>1. locked < LockedWrite - 1 /\ locked' = locked + 1
    BY <1>5, NoWrap DEF ReadCas, Unmoved, TypeOK
  <2>2. TypeOK'
    BY <1>5, <2>1 DEF ReadCas, Goto, TypeOK, Steps
  <2>3. Writers' = Writers /\ Readers' = Readers \cup {t} /\ t \notin Readers
    BY <1>5, ReaderMoves DEF ReadCas
  <2>4. Writers = {}
    BY <2>1 DEF WordInv
  <2> QED  BY <2>1, <2>2, <2>3, <2>4, ReaderCount DEF WordInv, TypeOK
<1>6. ASSUME NEW t \in Threads, ReadUnlock(t)
      PROVE  IInv'
  <2>1. Writers' = Writers /\ Readers' = Readers \ {t} /\ t \in Readers
    BY <1>6, ReaderMoves DEF ReadUnlock
  <2>2. Writers = {} /\ locked = Cardinality(Readers) /\ locked # 0
    BY <2>1, ReaderCount DEF WordInv
  <2>3. locked' = locked - 1
    BY <1>6, <2>2, NoWrap DEF ReadUnlock, WithoutReader, TypeOK
  <2>4. TypeOK'
    BY <1>6, <2>2, <2>3 DEF ReadUnlock, Goto, TypeOK, Steps
  <2> QED  BY <2>1, <2>2, <2>3, <2>4, ReaderCount DEF WordInv, TypeOK
<1>7. CASE UNCHANGED vars
  BY <1>7 DEF vars, TypeOK, WordInv, Readers, Writers
<1>8. locked \in 0 .. LockedWrite
  BY DEF TypeOK
<1> QED
  BY <1>1, <1>2, <1>3, <1>4, <1>5, <1>6, <1>7, <1>8
     DEF Next, ReadLoad, ReadCasFails, Actual

-----------------------------------------------------------------------------
(* Theorems *)

\* The word stays a u8 and a reader never swaps a word at the ceiling.
THEOREM TypeCorrect == Spec => []TypeOK
<1>1. IInv /\ [Next]_vars => IInv'
  BY InvNext
<1>2. IInv => TypeOK
  BY DEF IInv
<1> QED  BY InvInit, <1>1, <1>2, PTL DEF Spec

\* The word always says exactly who is inside.
THEOREM WordCounts == Spec => []WordIsExact
<1>1. IInv /\ [Next]_vars => IInv'
  BY InvNext
<1>2. IInv => WordIsExact
  BY FS_Singleton DEF IInv, WordInv, WordIsExact
<1> QED  BY InvInit, <1>1, <1>2, PTL DEF Spec

\* with_mut runs alone and with runs beside readers only.
THEOREM MutualExclusion == Spec => []Exclusion
<1>1. IInv /\ [Next]_vars => IInv'
  BY InvNext
<1>2. IInv => Exclusion
  BY DEF IInv, WordInv, Exclusion
<1> QED  BY InvInit, <1>1, <1>2, PTL DEF Spec

\* Every step of the word and its loops is a step of the readers-writer lock,
\* or changes nobody's place.
LEMMA StepSimulates ==
    ASSUME IInv, [Next]_vars
    PROVE  [Abstract!Next]_(Abstract!vars)
<1> USE WidthAssumption DEF IInv
<1> SUFFICES Abstract!Next \/ (Readers' = Readers /\ Writers' = Writers)
  BY DEF Abstract!vars
<1>1. ASSUME NEW t \in Threads, StartWrite(t) \/ StartRead(t)
      PROVE  Readers' = Readers /\ Writers' = Writers
  BY <1>1, MoveOutside DEF StartWrite, StartRead, Steps
<1>2. ASSUME NEW t \in Threads, WriteCas(t)
      PROVE  Abstract!EnterWrite(t)
  <2>1. Readers' = Readers /\ Writers' = Writers \cup {t}
    BY <1>2, WriterMoves DEF WriteCas
  <2>2. locked = 0 /\ locked # LockedWrite
    BY <1>2 DEF WriteCas, FreeForWriter, Unlocked
  <2>3. Writers = {} /\ Cardinality(Readers) = 0
    BY <2>2 DEF WordInv
  <2>4. Readers = {}
    BY <2>3, ReaderCount DEF WordInv
  <2> QED  BY <2>1, <2>3, <2>4 DEF Abstract!EnterWrite
<1>3. ASSUME NEW t \in Threads, WriteUnlock(t)
      PROVE  Abstract!LeaveWrite(t)
  BY <1>3, WriterMoves DEF WriteUnlock, Abstract!LeaveWrite
<1>4. ASSUME NEW t \in Threads, ReadLoad(t) \/ ReadCasFails(t)
      PROVE  Readers' = Readers /\ Writers' = Writers
  <2>1. \E step \in {"readLoad", "readCas"} : Goto(t, step)
    BY <1>4 DEF ReadLoad, ReadCasFails, Consider
  <2> QED  BY <1>4, <2>1, MoveOutside DEF ReadLoad, ReadCasFails, Steps
<1>5. ASSUME NEW t \in Threads, ReadCas(t)
      PROVE  Abstract!EnterRead(t)
  <2>1. Writers' = Writers /\ Readers' = Readers \cup {t} /\ t \notin Readers
    BY <1>5, ReaderMoves DEF ReadCas
  <2>2. locked < LockedWrite - 1
    BY <1>5 DEF ReadCas, Unmoved, TypeOK
  <2>3. Writers = {} /\ Cardinality(Readers) < LockedWrite - 1
    BY <2>2 DEF WordInv
  <2> QED  BY <2>1, <2>3 DEF Abstract!EnterRead, Abstract!Cardinality, Cardinality
<1>6. ASSUME NEW t \in Threads, ReadUnlock(t)
      PROVE  Abstract!LeaveRead(t)
  BY <1>6, ReaderMoves DEF ReadUnlock, Abstract!LeaveRead
<1>7. CASE UNCHANGED vars
  BY <1>7 DEF vars, Readers, Writers
<1> QED
  BY <1>1, <1>2, <1>3, <1>4, <1>5, <1>6, <1>7 DEF Next, Abstract!Next

\* The spinlock implements a readers-writer lock for LockedWrite - 1 readers.
THEOREM Implementation == Spec => ImplementsSharedLock
<1>1. Init => Abstract!Init
  BY DEF Init, Readers, Writers, Abstract!Init
<1>2. IInv /\ [Next]_vars => IInv'
  BY InvNext
<1>3. IInv /\ [Next]_vars => [Abstract!Next]_(Abstract!vars)
  BY StepSimulates
<1> QED
  BY InvInit, <1>1, <1>2, <1>3, PTL DEF Spec, ImplementsSharedLock, Abstract!Spec

-----------------------------------------------------------------------------
(* Sums over finite sets *)

\* A set that has zero and every successor of a number in it has every number.
LEMMA SetInduction ==
    ASSUME NEW T, 0 \in T, \A n \in Nat : n \in T => n + 1 \in T
    PROVE  Nat \subseteq T
<1> SUFFICES ASSUME Nat \ T # {} PROVE FALSE
  OBVIOUS
<1>1. IsWellFoundedOn(OpToRel(<, Nat), Nat)
  BY NatLessThanWellFounded
<1>2. PICK x \in Nat \ T : \A y \in Nat \ T : ~ (<<y, x>> \in OpToRel(<, Nat))
  BY <1>1, WFMin
<1>3. \A y \in Nat \ T : ~(y < x)
  BY <1>2 DEF OpToRel
<1>4. x # 0 /\ x - 1 \in Nat /\ x - 1 < x /\ (x - 1) + 1 = x
  OBVIOUS
<1> QED  BY <1>3, <1>4

\* A family that has the empty set, and a set when it has it without any one
\* element, has every finite set.
LEMMA FiniteInduct ==
    ASSUME NEW D, IsFiniteSet(D), NEW P, {} \in P,
           \A S \in SUBSET D : S # {} /\ (\A x \in S : S \ {x} \in P) => S \in P
    PROVE  SUBSET D \subseteq P
<1> DEFINE T == {n \in Nat : \A S \in SUBSET D : Cardinality(S) = n => S \in P}
<1>1. \A S \in SUBSET D :
         /\ Cardinality(S) \in Nat /\ (Cardinality(S) = 0 <=> S = {})
         /\ \A x \in S : S \ {x} \in SUBSET D /\ Cardinality(S \ {x}) = Cardinality(S) - 1
  <2>1. \A S \in SUBSET D : IsFiniteSet(S)
    BY FS_Subset
  <2>2. \A S \in SUBSET D : Cardinality(S) \in Nat /\ (Cardinality(S) = 0 <=> S = {})
    BY <2>1, FS_CardinalityType, FS_EmptySet
  <2>3. \A S \in SUBSET D : \A x \in S : Cardinality(S \ {x}) = Cardinality(S) - 1
    BY <2>1, FS_RemoveElement
  <2> QED  BY <2>2, <2>3
<1>2. 0 \in T
  BY <1>1
<1>3. ASSUME NEW n \in Nat, n \in T, NEW S \in SUBSET D, Cardinality(S) = n + 1
      PROVE  S \in P
  <2>1. S # {} /\ \A x \in S : S \ {x} \in SUBSET D /\ Cardinality(S \ {x}) = n
    BY <1>1, <1>3
  <2> QED  BY <1>3, <2>1
<1>4. \A n \in Nat : n \in T => n + 1 \in T
  BY <1>3
<1>5. Nat \subseteq T
  <2> HIDE DEF T
  <2> QED  BY <1>2, <1>4, SetInduction
<1> QED  BY <1>1, <1>5

\* f is the sum of g over the subsets of D.
Adds(f, g, D) ==
    /\ f \in [SUBSET D -> Nat] /\ f[{}] = 0
    /\ \A S \in SUBSET D : \A x \in S : f[S] = g[x] + f[S \ {x}]

LEMMA SumExists ==
    ASSUME NEW D, IsFiniteSet(D), NEW g, \A x \in D : g[x] \in Nat
    PROVE  \E f : Adds(f, g, D)
<1> DEFINE P == {S \in SUBSET D : \E f : Adds(f, g, S)}
<1>1. {} \in P
  <2>1. PICK f : f = [S \in SUBSET {} |-> 0]
    OBVIOUS
  <2>2. Adds(f, g, {})
    BY <2>1 DEF Adds
  <2> QED  BY <2>2
<1>2. ASSUME NEW S \in SUBSET D, NEW x \in S, S \ {x} \in P
      PROVE  S \in P
  <2>1. PICK f : Adds(f, g, S \ {x})
    BY <1>2
  <2>2. PICK h : h = [U \in SUBSET S |-> IF x \in U THEN g[x] + f[U \ {x}] ELSE f[U]]
    OBVIOUS
  <2>3. \A U \in SUBSET S : h[U] = IF x \in U THEN g[x] + f[U \ {x}] ELSE f[U]
    BY <2>2
  <2>4. h \in [SUBSET S -> Nat]
    <3>1. \A U \in SUBSET S : U \ {x} \in SUBSET (S \ {x}) /\ (x \notin U => U \in SUBSET (S \ {x}))
      OBVIOUS
    <3>2. \A U \in SUBSET S : (IF x \in U THEN g[x] + f[U \ {x}] ELSE f[U]) \in Nat
      BY <2>1, <3>1 DEF Adds
    <3> QED  BY <2>2, <3>2
  <2>5. h[{}] = 0
    BY <2>1, <2>3 DEF Adds
  <2>6. ASSUME NEW U \in SUBSET S, NEW y \in U
        PROVE  h[U] = g[y] + h[U \ {y}]
    <3>1. CASE x \notin U
      <4>1. U \in SUBSET (S \ {x}) /\ x \notin U \ {y} /\ U \ {y} \in SUBSET S
        BY <3>1
      <4>2. h[U] = f[U] /\ h[U \ {y}] = f[U \ {y}]
        BY <2>3, <3>1, <4>1
      <4> QED  BY <2>1, <4>1, <4>2 DEF Adds
    <3>2. CASE x \in U /\ y = x
      <4>1. U \ {x} \in SUBSET S /\ x \notin U \ {x}
        OBVIOUS
      <4> QED  BY <2>3, <3>2, <4>1
    <3>3. CASE x \in U /\ y # x
      <4>1. /\ U \ {x} \in SUBSET (S \ {x}) /\ y \in U \ {x}
            /\ U \ {y} \in SUBSET S /\ x \in U \ {y}
            /\ (U \ {x}) \ {y} = (U \ {y}) \ {x} /\ (U \ {x}) \ {y} \in SUBSET (S \ {x})
        BY <3>3
      <4>2. h[U] = g[x] + f[U \ {x}] /\ h[U \ {y}] = g[x] + f[(U \ {y}) \ {x}]
        BY <2>3, <3>3, <4>1
      <4>3. f[U \ {x}] = g[y] + f[(U \ {x}) \ {y}]
        BY <2>1, <4>1 DEF Adds
      <4>4. g[x] \in Nat /\ g[y] \in Nat /\ f[(U \ {x}) \ {y}] \in Nat
        BY <2>1, <4>1 DEF Adds
      <4>5. f[(U \ {y}) \ {x}] = f[(U \ {x}) \ {y}]
        BY <4>1
      <4> QED  BY <4>2, <4>3, <4>4, <4>5
    <3> QED  BY <3>1, <3>2, <3>3
  <2>7. Adds(h, g, S)
    BY <2>4, <2>5, <2>6 DEF Adds
  <2> QED  BY <2>7
<1>3. \A S \in SUBSET D : S # {} /\ (\A x \in S : S \ {x} \in P) => S \in P
  <2> HIDE DEF P
  <2> QED  BY <1>2
<1>4. SUBSET D \subseteq P
  <2> HIDE DEF P
  <2> QED  BY <1>1, <1>3, FiniteInduct
<1> QED  BY <1>4

\* Sums of numbers that are not smaller, over a larger set, are not smaller.
LEMMA SumAtMost ==
    ASSUME NEW D, IsFiniteSet(D), NEW E, NEW f, NEW h, NEW g, NEW k,
           Adds(f, g, D), Adds(h, k, E), D \subseteq E,
           \A x \in D : g[x] \in Nat /\ g[x] =< k[x], \A x \in E : k[x] \in Nat
    PROVE  \A S \in SUBSET D : f[S] =< h[S]
<1> DEFINE P == {S \in SUBSET D : f[S] =< h[S]}
<1>1. {} \in P
  BY DEF Adds
<1>2. ASSUME NEW S \in SUBSET D, S # {}, \A x \in S : S \ {x} \in P
      PROVE  S \in P
  <2>1. PICK x \in S : TRUE
    BY <1>2
  <2>2. S \ {x} \in SUBSET D /\ S \in SUBSET E /\ S \ {x} \in SUBSET E
    OBVIOUS
  <2>3. f[S] = g[x] + f[S \ {x}] /\ h[S] = k[x] + h[S \ {x}]
    BY <2>2 DEF Adds
  <2>4. f[S \ {x}] \in Nat /\ h[S \ {x}] \in Nat /\ f[S \ {x}] =< h[S \ {x}]
    BY <1>2, <2>2 DEF Adds
  <2>5. g[x] \in Nat /\ k[x] \in Nat /\ g[x] =< k[x]
    BY <2>2
  <2>6. f[S] =< h[S]
    BY <2>3, <2>4, <2>5
  <2> QED  BY <2>6
<1>3. SUBSET D \subseteq P
  <2> HIDE DEF P
  <2> QED  BY <1>1, <1>2, FiniteInduct
<1> QED  BY <1>3

LEMMA SumUnion ==
    ASSUME NEW D, IsFiniteSet(D), NEW f, NEW g, Adds(f, g, D), \A x \in D : g[x] \in Nat,
           NEW R \in SUBSET D
    PROVE  \A S \in SUBSET D : S \cap R = {} => f[S \cup R] = f[S] + f[R]
<1> DEFINE P == {S \in SUBSET D : S \cap R = {} => f[S \cup R] = f[S] + f[R]}
<1>1. {} \in P
  <2>1. {} \cup R = R /\ f[{}] = 0 /\ f[R] \in Nat
    BY DEF Adds
  <2> QED  BY <2>1
<1>2. ASSUME NEW S \in SUBSET D, S # {}, \A x \in S : S \ {x} \in P
      PROVE  S \in P
  <2> SUFFICES ASSUME S \cap R = {} PROVE f[S \cup R] = f[S] + f[R]
    OBVIOUS
  <2>1. PICK x \in S : TRUE
    BY <1>2
  <2>2. /\ S \ {x} \in SUBSET D /\ (S \ {x}) \cap R = {} /\ x \in S \cup R
        /\ S \cup R \in SUBSET D /\ (S \cup R) \ {x} = (S \ {x}) \cup R
    OBVIOUS
  <2>3. f[S] = g[x] + f[S \ {x}] /\ f[S \cup R] = g[x] + f[(S \ {x}) \cup R]
    BY <2>2 DEF Adds
  <2>4. f[(S \ {x}) \cup R] = f[S \ {x}] + f[R]
    BY <1>2, <2>2
  <2>5. f[S \ {x}] \in Nat /\ f[R] \in Nat /\ g[x] \in Nat
    BY <2>2 DEF Adds
  <2> QED  BY <2>3, <2>4, <2>5
<1>3. SUBSET D \subseteq P
  <2> HIDE DEF P
  <2> QED  BY <1>1, <1>2, FiniteInduct
<1> QED  BY <1>3

\* A fold that adds up g, whichever element it takes first, computes its sum.
Pick(S) == CHOOSE x \in S : TRUE
Folds(F, g, D) ==
    \A S \in SUBSET D : F[S] = IF S = {} THEN 0 ELSE g[Pick(S)] + F[S \ {Pick(S)}]

LEMMA FoldIsASum ==
    ASSUME NEW D, IsFiniteSet(D), NEW f, NEW g, Adds(f, g, D), NEW F, Folds(F, g, D)
    PROVE  F[D] = f[D]
<1> DEFINE P == {S \in SUBSET D : F[S] = f[S]}
<1>1. {} \in P
  BY DEF Adds, Folds
<1>2. ASSUME NEW S \in SUBSET D, S # {}, \A x \in S : S \ {x} \in P
      PROVE  S \in P
  <2>1. Pick(S) \in S
    BY <1>2 DEF Pick
  <2>2. F[S \ {Pick(S)}] = f[S \ {Pick(S)}]
    BY <1>2, <2>1
  <2>3. f[S] = g[Pick(S)] + f[S \ {Pick(S)}]
    BY <2>1 DEF Adds
  <2>4. F[S] = g[Pick(S)] + F[S \ {Pick(S)}]
    BY <1>2 DEF Folds
  <2> QED  BY <2>2, <2>3, <2>4
<1>3. SUBSET D \subseteq P
  <2> HIDE DEF P
  <2> QED  BY <1>1, <1>2, FiniteInduct
<1> QED  BY <1>3

\* Such a fold exists: the sum itself is one.
LEMMA FoldExists ==
    ASSUME NEW D, NEW f, NEW g, Adds(f, g, D)
    PROVE  Folds(f, g, D)
<1>1. \A S \in SUBSET D : S # {} => Pick(S) \in S
  BY DEF Pick
<1> QED  BY <1>1 DEF Adds, Folds

-----------------------------------------------------------------------------
(* The values cut short in a set of calls *)

CutOf(v, S) == MapThenSumSet(LAMBDA n : v[n].cut, S)
Cuts(v, D) == [n \in D |-> v[n].cut]

LEMMA CutIsASum ==
    ASSUME NEW D, IsFiniteSet(D), NEW v, \A n \in D : v[n].cut \in Nat
    PROVE  \E f : Adds(f, Cuts(v, D), D) /\ CutOf(v, D) = f[D]
<1> DEFINE g == Cuts(v, D)
           body(f) == [S \in SUBSET D |-> IF S = {} THEN 0 ELSE v[Pick(S)].cut + f[S \ {Pick(S)}]]
           F == CHOOSE f : f = body(f)
<1>1. \A n \in D : g[n] = v[n].cut /\ g[n] \in Nat
  BY DEF Cuts
<1> HIDE DEF g
<1>2. PICK f : Adds(f, g, D)
  BY <1>1, SumExists
<1>3. \A S \in SUBSET D : S # {} => Pick(S) \in D
  BY DEF Pick
<1>4. f = body(f)
  <2>1. \A S \in SUBSET D : f[S] = IF S = {} THEN 0 ELSE g[Pick(S)] + f[S \ {Pick(S)}]
    BY <1>2, FoldExists DEF Folds
  <2>2. \A S \in SUBSET D : f[S] = IF S = {} THEN 0 ELSE v[Pick(S)].cut + f[S \ {Pick(S)}]
    BY <1>1, <1>3, <2>1
  <2>3. f \in [SUBSET D -> Nat]
    BY <1>2 DEF Adds
  <2> QED  BY <2>2, <2>3
<1>5. F = body(F)
  <2> HIDE DEF body
  <2> QED  BY <1>4
<1>6. CutOf(v, D) = F[D]
  BY DEF CutOf, MapThenSumSet, MapThenFoldSet, Pick
<1> HIDE DEF F
<1>7. \A S \in SUBSET D : F[S] = IF S = {} THEN 0 ELSE g[Pick(S)] + F[S \ {Pick(S)}]
  <2>1. \A S \in SUBSET D : body(F)[S] = IF S = {} THEN 0 ELSE v[Pick(S)].cut + F[S \ {Pick(S)}]
    OBVIOUS
  <2> HIDE DEF body
  <2> QED  BY <1>1, <1>3, <1>5, <2>1
<1>8. F[D] = f[D]
  <2>1. Folds(F, g, D)
    BY <1>7 DEF Folds
  <2> QED  BY <1>2, <2>1, FoldIsASum
<1> QED  BY <1>2, <1>6, <1>8 DEF g

\* ... and so is that of every subset.
LEMMA CutsAdd ==
    ASSUME NEW D, IsFiniteSet(D), NEW v, \A n \in D : v[n].cut \in Nat
    PROVE  \E f : Adds(f, Cuts(v, D), D) /\ \A S \in SUBSET D : CutOf(v, S) = f[S]
<1>1. PICK f : Adds(f, Cuts(v, D), D)
  <2>1. \A n \in D : Cuts(v, D)[n] \in Nat
    BY DEF Cuts
  <2> QED  BY <2>1, SumExists
<1>2. ASSUME NEW S \in SUBSET D
      PROVE  CutOf(v, S) = f[S]
  <2>1. IsFiniteSet(S)
    BY FS_Subset
  <2>2. PICK h : Adds(h, Cuts(v, S), S) /\ CutOf(v, S) = h[S]
    BY <2>1, CutIsASum
  <2>4. h[S] =< f[S]
    <3>1. \A n \in S : Cuts(v, S)[n] \in Nat /\ Cuts(v, S)[n] =< Cuts(v, D)[n]
      BY DEF Cuts
    <3>2. \A n \in D : Cuts(v, D)[n] \in Nat
      BY DEF Cuts
    <3> QED  BY <1>1, <2>1, <2>2, <3>1, <3>2, SumAtMost
  <2>5. f[S] =< h[S]
    <3>1. PICK k : k = [U \in SUBSET S |-> f[U]]
      OBVIOUS
    <3>2. Adds(k, Cuts(v, S), S)
      <4>1. \A n \in S : Cuts(v, S)[n] = Cuts(v, D)[n]
        BY DEF Cuts
      <4>2. \A U \in SUBSET S : U \in SUBSET D /\ k[U] = f[U]
        BY <3>1
      <4>3. k \in [SUBSET S -> Nat]
        BY <1>1, <3>1, <4>2 DEF Adds
      <4>4. k[{}] = 0
        BY <1>1, <4>2 DEF Adds
      <4>5. ASSUME NEW U \in SUBSET S, NEW x \in U
            PROVE  k[U] = Cuts(v, S)[x] + k[U \ {x}]
        <5>1. f[U] = Cuts(v, D)[x] + f[U \ {x}]
          BY <1>1, <4>2 DEF Adds
        <5> QED  BY <4>1, <4>2, <5>1
      <4> QED  BY <4>3, <4>4, <4>5 DEF Adds
    <3>3. \A n \in S : Cuts(v, S)[n] \in Nat /\ Cuts(v, S)[n] =< Cuts(v, S)[n]
      BY DEF Cuts
    <3>4. k[S] =< h[S]
      BY <2>1, <2>2, <3>2, <3>3, SumAtMost
    <3> QED  BY <3>1, <3>4
  <2>6. h[S] \in Nat /\ f[S] \in Nat
    BY <1>1, <2>2 DEF Adds
  <2> QED  BY <2>2, <2>4, <2>5, <2>6
<1> QED  BY <1>1, <1>2

LEMMA CutOfType ==
    ASSUME NEW D, IsFiniteSet(D), NEW v, \A n \in D : v[n].cut \in Nat
    PROVE  CutOf(v, D) \in Nat
<1>1. PICK f : Adds(f, Cuts(v, D), D) /\ CutOf(v, D) = f[D]
  BY CutIsASum
<1> QED  BY <1>1 DEF Adds

\* Two sets of calls apart.
LEMMA CutOfUnion ==
    ASSUME NEW S, NEW R, IsFiniteSet(S), IsFiniteSet(R), S \cap R = {}, NEW v,
           \A n \in S \cup R : v[n].cut \in Nat
    PROVE  CutOf(v, S \cup R) = CutOf(v, S) + CutOf(v, R)
<1>1. PICK D : D = S \cup R
  OBVIOUS
<1>2. IsFiniteSet(D) /\ S \in SUBSET D /\ R \in SUBSET D /\ \A n \in D : v[n].cut \in Nat
  BY <1>1, FS_Union
<1>3. PICK f : Adds(f, Cuts(v, D), D) /\ \A U \in SUBSET D : CutOf(v, U) = f[U]
  BY <1>2, CutsAdd
<1>4. \A n \in D : Cuts(v, D)[n] \in Nat
  BY <1>2 DEF Cuts
<1>5. f[D] = f[S] + f[R]
  <2>1. \A U \in SUBSET D : U \cap R = {} => f[U \cup R] = f[U] + f[R]
    BY <1>2, <1>3, <1>4, SumUnion
  <2> QED  BY <1>1, <1>2, <2>1
<1> QED  BY <1>1, <1>2, <1>3, <1>5

\* One call and the others.
LEMMA CutOfOne ==
    ASSUME NEW D, IsFiniteSet(D), NEW v, \A n \in D : v[n].cut \in Nat, NEW n \in D
    PROVE  CutOf(v, D) = v[n].cut + CutOf(v, D \ {n})
<1>1. PICK f : Adds(f, Cuts(v, D), D) /\ \A U \in SUBSET D : CutOf(v, U) = f[U]
  BY CutsAdd
<1>2. Cuts(v, D)[n] = v[n].cut /\ D \in SUBSET D /\ D \ {n} \in SUBSET D
  BY DEF Cuts
<1>3. f[D] = Cuts(v, D)[n] + f[D \ {n}]
  BY <1>1, <1>2 DEF Adds
<1> QED  BY <1>1, <1>2, <1>3

\* More calls, none with less cut.
LEMMA CutOfGrows ==
    ASSUME NEW S, NEW R, IsFiniteSet(R), S \subseteq R, NEW v, NEW w,
           \A n \in S : v[n].cut \in Nat /\ v[n].cut =< w[n].cut,
           \A n \in R : w[n].cut \in Nat
    PROVE  CutOf(v, S) =< CutOf(w, R)
<1>1. IsFiniteSet(S)
  BY FS_Subset
<1>2. PICK f : Adds(f, Cuts(v, S), S) /\ CutOf(v, S) = f[S]
  BY <1>1, CutIsASum
<1>3. PICK h : Adds(h, Cuts(w, R), R) /\ CutOf(w, R) = h[R]
  BY CutIsASum
<1>4. \A n \in S : Cuts(v, S)[n] \in Nat /\ Cuts(v, S)[n] =< Cuts(w, R)[n]
  BY DEF Cuts
<1>5. \A n \in R : Cuts(w, R)[n] \in Nat
  BY DEF Cuts
<1>6. f[S] =< h[S]
  BY <1>1, <1>2, <1>3, <1>4, <1>5, SumAtMost
<1>7. h[S] =< h[R]
  <2>1. PICK U \in SUBSET R : U \cap S = {} /\ U \cup S = R
    <3>1. R \ S \in SUBSET R /\ (R \ S) \cap S = {} /\ (R \ S) \cup S = R
      OBVIOUS
    <3> QED  BY <3>1
  <2>2. h[R] = h[U] + h[S]
    <3>1. S \in SUBSET R
      OBVIOUS
    <3>2. h[U \cup S] = h[U] + h[S]
      BY <1>3, <1>5, <2>1, <3>1, SumUnion
    <3> QED  BY <2>1, <3>2, Zenon
  <2>3. h[U] \in Nat /\ h[S] \in Nat
    BY <1>3 DEF Adds
  <2> QED  BY <2>1, <2>2, <2>3
<1>8. f[S] \in Nat /\ h[S] \in Nat /\ h[R] \in Nat
  BY <1>2, <1>3 DEF Adds
<1> QED  BY <1>2, <1>3, <1>6, <1>7, <1>8

\* The same calls with the same cuts.
LEMMA CutOfSame ==
    ASSUME NEW S, IsFiniteSet(S), NEW v, NEW w,
           \A n \in S : v[n].cut \in Nat /\ v[n].cut = w[n].cut
    PROVE  CutOf(v, S) = CutOf(w, S)
<1>1. CutOf(v, S) =< CutOf(w, S) /\ CutOf(w, S) =< CutOf(v, S)
  <2>1. \A n \in S : /\ v[n].cut \in Nat /\ w[n].cut \in Nat
                     /\ v[n].cut =< w[n].cut /\ w[n].cut =< v[n].cut
    OBVIOUS
  <2> QED  BY <2>1, CutOfGrows
<1>2. CutOf(v, S) \in Nat /\ CutOf(w, S) \in Nat
  BY CutOfType
<1> QED  BY <1>1, <1>2

-----------------------------------------------------------------------------
(* The transport: its invariant *)

Phases == {"dropped", "truncated", "encode", "host", "refused"}
Loading == {"dropped", "truncated", "encode"}
Sending == [phase : Phases, number : Nat, event : Events, buffer : Buffers, scratch : Scratches,
            emits : BOOLEAN, dropped : Nat, truncated : Nat]
CallRecords == [fate : {"pending", "read", "lost"}, beside : SUBSET Nat, cut : Nat,
                logged : Events, scratch : Scratches,
                envelope : {<<>>} \cup {<<Envelope(c)>> : c \in Sending}]

TransportTypes ==
    /\ sequence \in Nat /\ dropped \in Nat /\ truncated \in Nat
    /\ sending \in [Senders -> {Idle} \cup Sending]
    /\ calls \in Seq(CallRecords) /\ Len(calls) = sequence

\* The calls not yet decided are those the senders are in, one each.
InProgress ==
    /\ \A u \in InCall : /\ sending[u].number \in DOMAIN calls
                         /\ calls[sending[u].number].fate = "pending"
    /\ \A u, w \in InCall : sending[u].number = sending[w].number => u = w
    /\ \A n \in DOMAIN calls : calls[n].fate = "pending" =>
          \E u \in InCall : sending[u].number = n
    /\ \A u \in InCall : sending[u].phase \in Loading => calls[sending[u].number].cut = 0

\* An earlier call that is not beside a call was decided before it began; a
\* call in progress has every later one beside it.
Overlaps ==
    /\ \A n \in DOMAIN calls : calls[n].beside \subseteq DOMAIN calls \ {n}
    /\ \A n, m \in DOMAIN calls : m < n /\ m \notin calls[n].beside => calls[m].fate # "pending"
    /\ \A u \in InCall : \A m \in DOMAIN calls :
          m > sending[u].number => m \in calls[sending[u].number].beside

\* The counters are exact at all times.
Counts ==
    /\ dropped = Cardinality(Lost(DOMAIN calls))
    /\ truncated = CutIn(DOMAIN calls)

Before(n) == 1..(n - 1) \ calls[n].beside
Covers(n, count) ==
    count - Cardinality(Lost(Before(n))) \in 0..Cardinality(Lost(calls[n].beside))
CoversCut(n, count) == count - CutIn(Before(n)) \in 0..CutIn(calls[n].beside)

\* What a call has loaded, and what an envelope says, covers what was before it.
Loaded == \A u \in InCall :
    /\ sending[u].phase # "dropped" => Covers(sending[u].number, sending[u].dropped)
    /\ sending[u].phase \notin {"dropped", "truncated"} =>
          CoversCut(sending[u].number, sending[u].truncated)

Told == \A n \in DOMAIN calls : calls[n].fate = "read" =>
    /\ Covers(n, calls[n].envelope[1].dropped)
    /\ CoversCut(n, calls[n].envelope[1].truncated)

\* What is encoded is what was logged.
Carried ==
    /\ \A u \in InCall : /\ sending[u].event = calls[sending[u].number].logged
                         /\ sending[u].scratch = calls[sending[u].number].scratch
    /\ \A n \in DOMAIN calls : calls[n].fate = "read" =>
          \E c \in Sending : /\ calls[n].envelope = <<Envelope(c)>>
                             /\ c.event = calls[n].logged /\ c.scratch = calls[n].scratch

TransportInv ==
    TransportTypes /\ InProgress /\ Overlaps /\ Counts /\ Loaded /\ Told /\ Carried

-----------------------------------------------------------------------------
(* What a step leaves alone *)

\* What is decided stays, and what comes beside a call comes later.
Evolves == \A m \in DOMAIN calls :
    /\ m \in DOMAIN calls'
    /\ calls[m].fate # "pending" =>
          calls'[m].fate = calls[m].fate /\ calls'[m].cut = calls[m].cut
    /\ calls[m].cut =< calls'[m].cut
    /\ calls[m].beside \subseteq calls'[m].beside
    /\ \A k \in 1..(m - 1) : k \in calls'[m].beside => k \in calls[m].beside

LEMMA CallTypes ==
    ASSUME TransportTypes
    PROVE  /\ DOMAIN calls = 1..sequence /\ sequence \in Nat /\ IsFiniteSet(DOMAIN calls)
           /\ \A n \in DOMAIN calls : /\ calls[n] \in CallRecords /\ calls[n].cut \in Nat
                                      /\ n \in Nat /\ n >= 1
           /\ \A S \in SUBSET DOMAIN calls : IsFiniteSet(S) /\ IsFiniteSet(Lost(S))
<1>1. DOMAIN calls = 1..sequence /\ sequence \in Nat
  BY DEF TransportTypes
<1>2. IsFiniteSet(DOMAIN calls)
  BY <1>1, FS_Interval
<1>3. \A n \in DOMAIN calls : calls[n] \in CallRecords /\ n \in Nat /\ n >= 1
  BY <1>1 DEF TransportTypes
<1>4. \A n \in DOMAIN calls : calls[n].cut \in Nat
  BY <1>3 DEF CallRecords
<1>5. ASSUME NEW S \in SUBSET DOMAIN calls
      PROVE  IsFiniteSet(S) /\ IsFiniteSet(Lost(S))
  <2>1. IsFiniteSet(S)
    BY <1>2, FS_Subset
  <2>2. Lost(S) \subseteq S
    BY DEF Lost
  <2> QED  BY <2>1, <2>2, FS_Subset
<1> QED  BY <1>1, <1>2, <1>3, <1>4, <1>5

LEMMA Apart ==
    ASSUME TransportTypes, Overlaps, NEW n \in DOMAIN calls
    PROVE  /\ Before(n) \subseteq DOMAIN calls /\ calls[n].beside \subseteq DOMAIN calls
           /\ Before(n) \cap calls[n].beside = {} /\ n \notin Before(n) /\ n \notin calls[n].beside
           /\ \A m \in Before(n) : m < n /\ calls[m].fate # "pending"
<1>1. DOMAIN calls = 1..sequence /\ sequence \in Nat
  BY CallTypes
<1>2. \A m \in 1..(n - 1) : m \in DOMAIN calls /\ m < n /\ m # n
  BY <1>1
<1>3. calls[n].beside \subseteq DOMAIN calls \ {n}
  BY DEF Overlaps
<1>4. \A m \in DOMAIN calls : m < n /\ m \notin calls[n].beside => calls[m].fate # "pending"
  BY DEF Overlaps
<1> QED  BY <1>2, <1>3, <1>4 DEF Before

LEMMA CoversKept ==
    ASSUME TransportTypes, TransportTypes', Overlaps, Overlaps', Evolves, NEW n \in DOMAIN calls
    PROVE  /\ \A count \in Nat : Covers(n, count) => Covers(n, count)'
           /\ \A count \in Nat : CoversCut(n, count) => CoversCut(n, count)'
<1>1. n \in DOMAIN calls'
  BY DEF Evolves
<1>2. Before(n)' = Before(n)
  BY DEF Before, Evolves
<1>3. /\ Before(n) \subseteq DOMAIN calls /\ calls[n].beside \subseteq DOMAIN calls
      /\ \A m \in Before(n) : calls[m].fate # "pending"
  BY Apart
<1>4. calls'[n].beside \subseteq DOMAIN calls' /\ calls[n].beside \subseteq calls'[n].beside
  BY <1>1 DEF Overlaps, Evolves
<1>5. Lost(Before(n))' = Lost(Before(n))
  BY <1>2, <1>3 DEF Lost, Evolves
<1>6. Lost(calls[n].beside) \subseteq Lost(calls[n].beside)'
  BY <1>3, <1>4 DEF Lost, Evolves
<1>7. /\ IsFiniteSet(Before(n)) /\ IsFiniteSet(Lost(Before(n)))
      /\ IsFiniteSet(calls[n].beside) /\ IsFiniteSet(Lost(calls[n].beside))
      /\ \A m \in DOMAIN calls : calls[m].cut \in Nat
  BY <1>3, CallTypes
<1>8. /\ IsFiniteSet(calls'[n].beside) /\ IsFiniteSet(Lost(calls[n].beside)')
      /\ \A m \in DOMAIN calls' : calls'[m].cut \in Nat
  <2>1. DOMAIN calls' = 1..sequence' /\ sequence' \in Nat /\ calls' \in Seq(CallRecords)
    BY DEF TransportTypes
  <2>2. \A m \in DOMAIN calls' : calls'[m].cut \in Nat
    <3>1. \A m \in DOMAIN calls' : calls'[m] \in CallRecords
      BY <2>1
    <3>2. \A r \in CallRecords : r.cut \in Nat
      BY DEF CallRecords
    <3> QED  BY <3>1, <3>2
  <2>3. IsFiniteSet(DOMAIN calls')
    BY <2>1, FS_Interval
  <2>4. IsFiniteSet(calls'[n].beside)
    BY <1>4, <2>3, FS_Subset
  <2>5. Lost(calls[n].beside)' \subseteq calls'[n].beside
    BY DEF Lost
  <2> QED  BY <2>2, <2>4, <2>5, FS_Subset
<1>9. /\ Cardinality(Lost(Before(n))) \in Nat /\ Cardinality(Lost(calls[n].beside)) \in Nat
      /\ Cardinality(Lost(calls[n].beside)') \in Nat
      /\ Cardinality(Lost(calls[n].beside)) =< Cardinality(Lost(calls[n].beside)')
  BY <1>6, <1>7, <1>8, FS_CardinalityType, FS_Subset
<1>10. CutOf(calls', Before(n)) = CutOf(calls, Before(n))
  <2>1. \A m \in Before(n) : calls[m].cut \in Nat /\ calls[m].cut = calls'[m].cut
    BY <1>3, <1>7 DEF Evolves
  <2> QED  BY <1>7, <2>1, CutOfSame
<1>11. CutOf(calls, calls[n].beside) =< CutOf(calls', calls'[n].beside)
  <2>1. \A m \in calls[n].beside : calls[m].cut \in Nat /\ calls[m].cut =< calls'[m].cut
    BY <1>3, <1>7 DEF Evolves
  <2>2. \A m \in calls'[n].beside : calls'[m].cut \in Nat
    BY <1>4, <1>8
  <2> QED  BY <1>4, <1>8, <2>1, <2>2, CutOfGrows
<1>12. /\ CutOf(calls, Before(n)) \in Nat /\ CutOf(calls, calls[n].beside) \in Nat
       /\ CutOf(calls', calls'[n].beside) \in Nat
  <2>1. \A m \in Before(n) : calls[m].cut \in Nat
    BY <1>3, <1>7
  <2>2. \A m \in calls[n].beside : calls[m].cut \in Nat
    BY <1>3, <1>7
  <2>3. \A m \in calls'[n].beside : calls'[m].cut \in Nat
    BY <1>4, <1>8
  <2> QED  BY <1>7, <1>8, <2>1, <2>2, <2>3, CutOfType
<1>13. /\ CutIn(Before(n)) = CutOf(calls, Before(n))
       /\ CutIn(calls[n].beside) = CutOf(calls, calls[n].beside)
       /\ CutIn(Before(n))' = CutOf(calls', Before(n)')
       /\ CutIn(calls[n].beside)' = CutOf(calls', calls'[n].beside)
  <2>1. CutIn(Before(n)) = CutOf(calls, Before(n))
    BY DEF CutIn, CutOf
  <2>2. CutIn(calls[n].beside) = CutOf(calls, calls[n].beside)
    BY DEF CutIn, CutOf
  <2>3. CutIn(Before(n))' = CutOf(calls', Before(n)')
    BY DEF CutIn, CutOf, MapThenSumSet, MapThenFoldSet
  <2>4. CutIn(calls[n].beside)' = CutOf(calls', calls'[n].beside)
    BY DEF CutIn, CutOf, MapThenSumSet, MapThenFoldSet
  <2> QED  BY <2>1, <2>2, <2>3, <2>4
<1>14. ASSUME NEW count \in Nat, Covers(n, count)
       PROVE  Covers(n, count)'
  <2>1. Cardinality(Lost(Before(n)))' = Cardinality(Lost(Before(n)))
    BY <1>5
  <2>2. /\ Cardinality(Lost(Before(n)))' = Cardinality(Lost(Before(n))')
        /\ Cardinality(Lost(calls[n].beside))' = Cardinality(Lost(calls[n].beside)')
    OBVIOUS
  <2> QED  BY <1>9, <1>14, <2>1, <2>2 DEF Covers
<1>15. ASSUME NEW count \in Nat, CoversCut(n, count)
       PROVE  CoversCut(n, count)'
  <2>1. CutIn(Before(n))' = CutIn(Before(n))
    BY <1>2, <1>10, <1>13
  <2> QED  BY <1>11, <1>12, <1>13, <1>15, <2>1 DEF CoversCut
<1> QED  BY <1>14, <1>15

-----------------------------------------------------------------------------
(* A call goes one step further *)

LEMMA InCallTypes ==
    ASSUME TransportTypes
    PROVE  /\ \A c \in {Idle} \cup Sending : c.phase = "idle" <=> c = Idle
           /\ \A u \in InCall : u \in Senders /\ sending[u] \in Sending /\ sending[u] # Idle
           /\ \A u \in Senders \ InCall : sending[u] = Idle
<1>1. \A c \in Sending : c.phase # "idle"
  BY DEF Sending, Phases
<1>2. Idle.phase = "idle"
  BY DEF Idle
<1>3. \A u \in Senders : sending[u] \in {Idle} \cup Sending
  BY DEF TransportTypes
<1>4. \A c \in {Idle} \cup Sending : c.phase = "idle" <=> c = Idle
  BY <1>1, <1>2
<1>5. \A u \in Senders : u \in InCall <=> sending[u] # Idle
  BY <1>3, <1>4 DEF InCall
<1>6. \A u \in InCall : u \in Senders
  BY DEF InCall
<1> QED  BY <1>3, <1>4, <1>5, <1>6

LEMMA CallWrite ==
    ASSUME TransportTypes, NEW n \in DOMAIN calls, NEW r \in CallRecords,
           calls' = [calls EXCEPT ![n] = r], sequence' = sequence
    PROVE  /\ calls' \in Seq(CallRecords) /\ Len(calls') = sequence'
           /\ DOMAIN calls' = DOMAIN calls
           /\ calls'[n] = r /\ \A m \in DOMAIN calls \ {n} : calls'[m] = calls[m]
<1>1. calls \in Seq(CallRecords) /\ Len(calls) = sequence
  BY DEF TransportTypes
<1>2. calls' \in Seq(CallRecords) /\ Len(calls') = Len(calls)
  BY <1>1, ExceptSeq
<1>3. DOMAIN calls' = DOMAIN calls /\ calls'[n] = r /\ \A m \in DOMAIN calls \ {n} : calls'[m] = calls[m]
  BY <1>1, <1>2
<1> QED  BY <1>1, <1>2, <1>3

\* A step of the call of s: it continues as c or is decided, and its record
\* becomes r.
Moves(s, c, r) ==
    LET n == sending[s].number
    IN  /\ c \in {Idle} \cup Sending /\ r \in CallRecords
        /\ sending' = [sending EXCEPT ![s] = c]
        /\ calls' = [calls EXCEPT ![n] = r]
        /\ sequence' = sequence
        /\ r.beside = calls[n].beside /\ calls[n].cut =< r.cut
        /\ r.logged = calls[n].logged /\ r.scratch = calls[n].scratch
        /\ c = Idle <=> r.fate # "pending"
        /\ c # Idle => /\ c.number = n
                       /\ c.event = sending[s].event /\ c.scratch = sending[s].scratch
                       /\ c.phase \in Loading => r.cut = 0
        /\ dropped' = dropped + (IF r.fate = "lost" THEN 1 ELSE 0)
        /\ truncated' = truncated + (r.cut - calls[n].cut)

\* What the call has loaded and what an envelope tells cover what was before.
MovesTold(s, c, r) ==
    LET n == sending[s].number
    IN  /\ c # Idle =>
              /\ c.phase # "dropped" => Covers(n, c.dropped)
              /\ c.phase \notin {"dropped", "truncated"} => CoversCut(n, c.truncated)
        /\ r.fate = "read" =>
              \E call \in Sending :
                 /\ r.envelope = <<Envelope(call)>>
                 /\ call.event = r.logged /\ call.scratch = r.scratch
                 /\ Covers(n, call.dropped) /\ CoversCut(n, call.truncated)

LEMMA MoveTypes ==
    ASSUME TransportTypes, InProgress, NEW s \in InCall, NEW c, NEW r, Moves(s, c, r)
    PROVE  /\ TransportTypes'
           /\ DOMAIN calls' = DOMAIN calls
           /\ calls'[sending[s].number] = r
           /\ \A m \in DOMAIN calls \ {sending[s].number} : calls'[m] = calls[m]
           /\ sending'[s] = c /\ \A u \in Senders \ {s} : sending'[u] = sending[u]
           /\ s \in Senders /\ sending[s].number \in DOMAIN calls
           /\ calls[sending[s].number].fate = "pending"
<1> DEFINE n == sending[s].number
<1>1. n \in DOMAIN calls /\ calls[n].fate = "pending"
  BY DEF InProgress
<1>2. s \in Senders /\ c \in {Idle} \cup Sending /\ r \in CallRecords
  BY DEF Moves, InCall
<1>3. /\ calls' = [calls EXCEPT ![n] = r] /\ sequence' = sequence
      /\ sending' = [sending EXCEPT ![s] = c]
  BY DEF Moves
<1>4. sending \in [Senders -> {Idle} \cup Sending]
  BY DEF TransportTypes
<1>5. /\ sending' \in [Senders -> {Idle} \cup Sending]
      /\ sending'[s] = c /\ \A u \in Senders \ {s} : sending'[u] = sending[u]
  BY <1>2, <1>3, <1>4
<1> HIDE DEF n
<1>6. /\ calls' \in Seq(CallRecords) /\ Len(calls') = sequence'
      /\ DOMAIN calls' = DOMAIN calls
      /\ calls'[n] = r /\ \A m \in DOMAIN calls \ {n} : calls'[m] = calls[m]
  BY <1>1, <1>2, <1>3, CallWrite
<1>7. sequence' \in Nat /\ dropped' \in Nat /\ truncated' \in Nat
  <2>1. sequence \in Nat /\ dropped \in Nat /\ truncated \in Nat
    BY DEF TransportTypes
  <2>2. calls[n].cut \in Nat
    BY <1>1, CallTypes
  <2>3. r.cut \in Nat
    BY <1>2 DEF CallRecords
  <2>4. /\ calls[n].cut =< r.cut /\ dropped' = dropped + (IF r.fate = "lost" THEN 1 ELSE 0)
        /\ truncated' = truncated + (r.cut - calls[n].cut)
    BY DEF Moves, n
  <2> QED  BY <1>3, <2>1, <2>2, <2>3, <2>4
<1>8. TransportTypes'
  BY <1>5, <1>6, <1>7 DEF TransportTypes
<1> QED  BY <1>1, <1>2, <1>5, <1>6, <1>8 DEF n

\* Who is in a call after the step, and in which.
LEMMA MoveInCall ==
    ASSUME TransportTypes, InProgress, NEW s \in InCall, NEW c, NEW r, Moves(s, c, r)
    PROVE  /\ \A u \in InCall' : /\ u \in InCall /\ sending'[u].number = sending[u].number
                                 /\ sending'[u].event = sending[u].event
                                 /\ sending'[u].scratch = sending[u].scratch
                                 /\ IF u = s THEN c # Idle /\ sending'[u] = c
                                             ELSE sending'[u] = sending[u]
           /\ \A u \in InCall \ {s} : u \in InCall'
           /\ c # Idle => s \in InCall'
<1>1. /\ sending'[s] = c /\ \A u \in Senders \ {s} : sending'[u] = sending[u]
      /\ s \in Senders
  BY MoveTypes
<1>2. c \in {Idle} \cup Sending /\ (c.phase = "idle" <=> c = Idle)
  BY InCallTypes DEF Moves
<1>3. \A u : u \in InCall' <=> u \in Senders /\ sending'[u].phase # "idle"
  BY DEF InCall
<1>4. \A u : u \in InCall <=> u \in Senders /\ sending[u].phase # "idle"
  BY DEF InCall
<1>5. c # Idle => /\ c.number = sending[s].number
                  /\ c.event = sending[s].event /\ c.scratch = sending[s].scratch
  BY DEF Moves
<1>6. ASSUME NEW u \in InCall'
      PROVE  /\ u \in InCall /\ sending'[u].number = sending[u].number
             /\ sending'[u].event = sending[u].event
             /\ sending'[u].scratch = sending[u].scratch
             /\ IF u = s THEN c # Idle /\ sending'[u] = c
                         ELSE sending'[u] = sending[u]
  <2>1. CASE u = s
    BY <1>1, <1>2, <1>3, <1>5, <2>1
  <2>2. CASE u # s
    BY <1>1, <1>3, <1>4, <2>2
  <2> QED  BY <2>1, <2>2
<1>7. \A u \in InCall \ {s} : u \in InCall'
  BY <1>1, <1>3, <1>4
<1>8. c # Idle => s \in InCall'
  BY <1>1, <1>2, <1>3
<1> QED  BY <1>6, <1>7, <1>8

LEMMA MoveInProgress ==
    ASSUME TransportTypes, InProgress, NEW s \in InCall, NEW c, NEW r, Moves(s, c, r)
    PROVE  InProgress'
<1> DEFINE n == sending[s].number
<1>1. /\ DOMAIN calls' = DOMAIN calls /\ calls'[n] = r
      /\ \A m \in DOMAIN calls \ {n} : calls'[m] = calls[m]
      /\ n \in DOMAIN calls
  BY MoveTypes
<1>2. /\ c = Idle <=> r.fate # "pending"
      /\ c # Idle /\ c.phase \in Loading => r.cut = 0
  BY DEF Moves
<1>3. \A u, w \in InCall : sending[u].number = sending[w].number => u = w
  BY DEF InProgress
<1>4. \A u \in InCall' : /\ u \in InCall /\ sending'[u].number = sending[u].number
                         /\ IF u = s THEN c # Idle /\ sending'[u] = c
                                     ELSE sending'[u] = sending[u]
  BY MoveInCall
<1>5. (\A u \in InCall \ {s} : u \in InCall') /\ (c # Idle => s \in InCall')
  BY MoveInCall
<1>6. ASSUME NEW u \in InCall'
      PROVE  /\ sending'[u].number \in DOMAIN calls'
             /\ calls'[sending'[u].number].fate = "pending"
             /\ sending'[u].phase \in Loading => calls'[sending'[u].number].cut = 0
  <2>1. u \in InCall /\ sending'[u].number = sending[u].number
    BY <1>4
  <2>2. CASE u = s
    BY <1>1, <1>2, <1>4, <2>1, <2>2
  <2>3. CASE u # s
    <3>1. /\ sending[u].number \in DOMAIN calls \ {n} /\ calls[sending[u].number].fate = "pending"
          /\ sending[u].phase \in Loading => calls[sending[u].number].cut = 0
      BY <1>3, <2>1, <2>3 DEF InProgress
    <3> QED  BY <1>1, <1>4, <2>1, <2>3, <3>1
  <2> QED  BY <2>2, <2>3
<1>7. \A u, w \in InCall' : sending'[u].number = sending'[w].number => u = w
  BY <1>3, <1>4
<1>8. ASSUME NEW m \in DOMAIN calls', calls'[m].fate = "pending"
      PROVE  \E u \in InCall' : sending'[u].number = m
  <2>1. CASE m = n
    <3>1. s \in InCall'
      BY <1>1, <1>2, <1>5, <1>8, <2>1
    <3>2. sending'[s].number = n
      BY <1>4, <3>1
    <3> QED  BY <2>1, <3>1, <3>2
  <2>2. CASE m # n
    <3>1. PICK u \in InCall : sending[u].number = m
      BY <1>1, <1>8, <2>2 DEF InProgress
    <3>2. u \in InCall'
      BY <1>5, <2>2, <3>1
    <3> QED  BY <1>4, <3>1, <3>2
  <2> QED  BY <2>1, <2>2
<1> QED  BY <1>6, <1>7, <1>8 DEF InProgress

LEMMA MoveOverlaps ==
    ASSUME TransportTypes, InProgress, Overlaps, NEW s \in InCall, NEW c, NEW r, Moves(s, c, r)
    PROVE  Overlaps' /\ Evolves
<1> DEFINE n == sending[s].number
<1>1. /\ DOMAIN calls' = DOMAIN calls /\ calls'[n] = r
      /\ \A m \in DOMAIN calls \ {n} : calls'[m] = calls[m]
      /\ n \in DOMAIN calls /\ calls[n].fate = "pending"
  BY MoveTypes
<1>2. r.beside = calls[n].beside /\ calls[n].cut =< r.cut
  BY DEF Moves
<1> HIDE DEF n
<1>3. ASSUME NEW m \in DOMAIN calls
      PROVE  /\ calls'[m].beside = calls[m].beside /\ calls[m].cut =< calls'[m].cut
             /\ calls[m].fate # "pending" => calls'[m] = calls[m]
  <2>1. CASE m = n
    BY <1>1, <1>2, <2>1
  <2>2. CASE m # n
    <3>1. calls[m].cut \in Nat
      BY CallTypes
    <3> QED  BY <1>1, <2>2, <3>1
  <2> QED  BY <2>1, <2>2
<1>4. Evolves
  BY <1>1, <1>3 DEF Evolves
<1>5. \A k \in DOMAIN calls' : calls'[k].beside \subseteq DOMAIN calls' \ {k}
  BY <1>1, <1>3 DEF Overlaps
<1>6. \A k, m \in DOMAIN calls' : m < k /\ m \notin calls'[k].beside => calls'[m].fate # "pending"
  BY <1>1, <1>3 DEF Overlaps
<1>7. \A u \in InCall' : \A m \in DOMAIN calls' :
         m > sending'[u].number => m \in calls'[sending'[u].number].beside
  <2>1. \A u \in InCall' : u \in InCall /\ sending'[u].number = sending[u].number
    BY MoveInCall
  <2>2. \A u \in InCall : sending[u].number \in DOMAIN calls
    BY DEF InProgress
  <2> QED  BY <1>1, <1>3, <2>1, <2>2 DEF Overlaps
<1> QED  BY <1>4, <1>5, <1>6, <1>7 DEF Overlaps

\* The counters stay exact.
LEMMA MoveCounts ==
    ASSUME TransportTypes, InProgress, Counts, NEW s \in InCall, NEW c, NEW r, Moves(s, c, r)
    PROVE  Counts'
<1> DEFINE n == sending[s].number
           D == DOMAIN calls
<1>1. /\ DOMAIN calls' = D /\ calls'[n] = r
      /\ \A m \in D \ {n} : calls'[m] = calls[m]
      /\ n \in D /\ calls[n].fate = "pending"
  BY MoveTypes
<1>2. /\ dropped' = dropped + (IF r.fate = "lost" THEN 1 ELSE 0)
      /\ truncated' = truncated + (r.cut - calls[n].cut)
      /\ r \in CallRecords
  BY DEF Moves
<1> HIDE DEF n
<1>3. IsFiniteSet(D) /\ IsFiniteSet(Lost(D)) /\ \A m \in D : calls[m].cut \in Nat
  BY CallTypes
<1>4. r.cut \in Nat
  BY <1>2 DEF CallRecords
<1>5. dropped' = Cardinality(Lost(D)')
  <2>1. n \notin Lost(D)
    BY <1>1 DEF Lost
  <2>2. CASE r.fate = "lost"
    <3>1. Lost(D)' = Lost(D) \cup {n}
      BY <1>1, <2>2 DEF Lost
    <3>2. Cardinality(Lost(D) \cup {n}) = Cardinality(Lost(D)) + 1
      BY <1>3, <2>1, FS_AddElement
    <3> QED  BY <1>2, <2>2, <3>1, <3>2 DEF Counts
  <2>3. CASE r.fate # "lost"
    <3>1. Lost(D)' = Lost(D)
      BY <1>1, <2>3 DEF Lost
    <3>2. dropped \in Nat
      BY DEF TransportTypes
    <3> QED  BY <1>2, <2>3, <3>1, <3>2 DEF Counts
  <2> QED  BY <2>2, <2>3
<1>6. truncated' = CutOf(calls', D)
  <2>1. CutOf(calls, D) = calls[n].cut + CutOf(calls, D \ {n})
    BY <1>1, <1>3, CutOfOne
  <2>2. CutOf(calls', D) = r.cut + CutOf(calls', D \ {n})
    <3>1. \A m \in D : calls'[m].cut \in Nat
      BY <1>1, <1>3, <1>4
    <3>2. CutOf(calls', D) = calls'[n].cut + CutOf(calls', D \ {n})
      BY <1>1, <1>3, <3>1, CutOfOne
    <3> QED  BY <1>1, <3>2
  <2>3. CutOf(calls', D \ {n}) = CutOf(calls, D \ {n}) /\ CutOf(calls, D \ {n}) \in Nat
    <3>1. PICK S : S = D \ {n}
      OBVIOUS
    <3>2. IsFiniteSet(S) /\ \A m \in S : calls[m].cut \in Nat /\ calls[m].cut = calls'[m].cut
      BY <1>1, <1>3, <3>1, FS_Subset
    <3> QED  BY <3>1, <3>2, CutOfSame, CutOfType
  <2>4. truncated = CutOf(calls, D)
    BY DEF Counts, CutIn, CutOf
  <2> QED  BY <1>1, <1>2, <1>3, <1>4, <2>1, <2>2, <2>3, <2>4
<1>7. CutIn(D)' = CutOf(calls', D')
  BY DEF CutIn, CutOf, MapThenSumSet, MapThenFoldSet
<1> QED  BY <1>1, <1>5, <1>6, <1>7 DEF Counts

LEMMA MoveLoaded ==
    ASSUME TransportInv, NEW s \in InCall, NEW c, NEW r, Moves(s, c, r), MovesTold(s, c, r)
    PROVE  Loaded'
<1> USE DEF TransportInv
<1>1. TransportTypes' /\ Overlaps' /\ Evolves
  BY MoveTypes, MoveOverlaps
<1>2. ASSUME NEW m \in DOMAIN calls
      PROVE  /\ \A count \in Nat : Covers(m, count) => Covers(m, count)'
             /\ \A count \in Nat : CoversCut(m, count) => CoversCut(m, count)'
  BY <1>1, CoversKept
<1>3. \A d \in Sending : d.dropped \in Nat /\ d.truncated \in Nat
  BY DEF Sending
<1>4. ASSUME NEW u \in InCall'
      PROVE  /\ sending'[u].phase # "dropped" =>
                   Covers(sending[u].number, sending'[u].dropped)
             /\ sending'[u].phase \notin {"dropped", "truncated"} =>
                   CoversCut(sending[u].number, sending'[u].truncated)
  <2>1. /\ u \in InCall
        /\ IF u = s THEN c # Idle /\ sending'[u] = c ELSE sending'[u] = sending[u]
    BY <1>4, MoveInCall
  <2>2. CASE u = s
    BY <2>1, <2>2 DEF MovesTold
  <2>3. CASE u # s
    BY <2>1, <2>3 DEF Loaded
  <2> QED  BY <2>2, <2>3
<1>5. ASSUME NEW u \in InCall'
      PROVE  /\ sending[u].number \in DOMAIN calls
             /\ sending'[u].number = sending[u].number
             /\ sending'[u].dropped \in Nat /\ sending'[u].truncated \in Nat
  <2>1. u \in InCall /\ sending'[u].number = sending[u].number
    BY <1>5, MoveInCall
  <2>2. sending[u].number \in DOMAIN calls
    BY <2>1 DEF InProgress
  <2>3. sending'[u] \in Sending
    <3>1. \A w \in InCall' : w \in Senders /\ sending'[w].phase # "idle"
      BY DEF InCall
    <3>2. sending'[u] \in {Idle} \cup Sending
      BY <1>1, <1>5, <3>1 DEF TransportTypes
    <3>3. Idle.phase = "idle"
      BY DEF Idle
    <3> QED  BY <1>5, <3>1, <3>2, <3>3
  <2> QED  BY <1>3, <2>1, <2>2, <2>3
<1> QED  BY <1>2, <1>4, <1>5 DEF Loaded

LEMMA MoveTold ==
    ASSUME TransportInv, NEW s \in InCall, NEW c, NEW r, Moves(s, c, r), MovesTold(s, c, r)
    PROVE  Told' /\ Carried'
<1> USE DEF TransportInv
<1> DEFINE n == sending[s].number
<1>1. TransportTypes' /\ Overlaps' /\ Evolves
  BY MoveTypes, MoveOverlaps
<1>2. /\ DOMAIN calls' = DOMAIN calls /\ calls'[n] = r
      /\ \A m \in DOMAIN calls \ {n} : calls'[m] = calls[m]
      /\ n \in DOMAIN calls
  BY MoveTypes
<1>3. r.fate = "read" =>
         \E call \in Sending : /\ r.envelope = <<Envelope(call)>>
                               /\ call.event = r.logged /\ call.scratch = r.scratch
                               /\ Covers(n, call.dropped) /\ CoversCut(n, call.truncated)
  BY DEF MovesTold
<1>4. ASSUME NEW m \in DOMAIN calls
      PROVE  /\ \A count \in Nat : Covers(m, count) => Covers(m, count)'
             /\ \A count \in Nat : CoversCut(m, count) => CoversCut(m, count)'
  BY <1>1, CoversKept
<1>5. \A call \in Sending : /\ Envelope(call).dropped = call.dropped /\ call.dropped \in Nat
                            /\ Envelope(call).truncated = call.truncated /\ call.truncated \in Nat
  BY DEF Sending, Envelope
<1>6. \A m \in DOMAIN calls : calls[m].fate = "read" =>
         \E call \in Sending : /\ calls[m].envelope = <<Envelope(call)>>
                               /\ call.event = calls[m].logged /\ call.scratch = calls[m].scratch
                               /\ Covers(m, call.dropped) /\ CoversCut(m, call.truncated)
  <2>1. ASSUME NEW m \in DOMAIN calls, calls[m].fate = "read"
        PROVE  \E call \in Sending :
                  /\ calls[m].envelope = <<Envelope(call)>>
                  /\ call.event = calls[m].logged /\ call.scratch = calls[m].scratch
                  /\ Covers(m, call.dropped) /\ CoversCut(m, call.truncated)
    <3>1. PICK call \in Sending :
             /\ calls[m].envelope = <<Envelope(call)>>
             /\ call.event = calls[m].logged /\ call.scratch = calls[m].scratch
      BY <2>1 DEF Carried
    <3>2. /\ Covers(m, calls[m].envelope[1].dropped)
          /\ CoversCut(m, calls[m].envelope[1].truncated)
      BY <2>1 DEF Told
    <3>3. calls[m].envelope[1] = Envelope(call)
      BY <3>1
    <3> QED  BY <1>5, <3>1, <3>2, <3>3
  <2> QED  BY <2>1
<1> HIDE DEF n
<1>7. ASSUME NEW m \in DOMAIN calls, calls'[m].fate = "read"
      PROVE  \E call \in Sending :
                /\ calls'[m].envelope = <<Envelope(call)>>
                /\ call.event = calls'[m].logged /\ call.scratch = calls'[m].scratch
                /\ Covers(m, call.dropped) /\ CoversCut(m, call.truncated)
  <2>1. CASE m = n
    BY <1>2, <1>3, <1>7, <2>1
  <2>2. CASE m # n
    <3>1. calls'[m] = calls[m]
      BY <1>2, <2>2
    <3> QED  BY <1>6, <1>7, <3>1
  <2> QED  BY <2>1, <2>2
<1>8. Told'
  <2>1. ASSUME NEW m \in DOMAIN calls, calls'[m].fate = "read"
        PROVE  /\ Covers(m, calls'[m].envelope[1].dropped)
               /\ CoversCut(m, calls'[m].envelope[1].truncated)
               /\ calls'[m].envelope[1].dropped \in Nat /\ calls'[m].envelope[1].truncated \in Nat
    <3>1. PICK call \in Sending :
                /\ calls'[m].envelope = <<Envelope(call)>>
                /\ Covers(m, call.dropped) /\ CoversCut(m, call.truncated)
      BY <1>7, <2>1
    <3>2. calls'[m].envelope[1] = Envelope(call)
      BY <3>1
    <3> QED  BY <1>5, <3>1, <3>2
  <2> QED  BY <1>2, <1>4, <2>1 DEF Told
<1>9. \A u \in InCall' : /\ sending'[u].event = calls'[sending'[u].number].logged
                         /\ sending'[u].scratch = calls'[sending'[u].number].scratch
  <2>1. ASSUME NEW m \in DOMAIN calls
        PROVE  calls'[m].logged = calls[m].logged /\ calls'[m].scratch = calls[m].scratch
    <3>1. r.logged = calls[n].logged /\ r.scratch = calls[n].scratch
      BY DEF Moves, n
    <3> QED  BY <1>2, <3>1
  <2>2. ASSUME NEW u \in InCall'
        PROVE  /\ u \in InCall /\ sending'[u].number = sending[u].number
               /\ sending'[u].event = sending[u].event
               /\ sending'[u].scratch = sending[u].scratch
    BY <2>2, MoveInCall
  <2>3. ASSUME NEW u \in InCall
        PROVE  /\ sending[u].number \in DOMAIN calls
               /\ sending[u].event = calls[sending[u].number].logged
               /\ sending[u].scratch = calls[sending[u].number].scratch
    BY DEF InProgress, Carried
  <2> QED  BY <2>1, <2>2, <2>3
<1>10. Carried'
  <2>1. ASSUME NEW m \in DOMAIN calls', calls'[m].fate = "read"
        PROVE  \E call \in Sending :
                  /\ calls'[m].envelope = <<Envelope(call)>>
                  /\ call.event = calls'[m].logged /\ call.scratch = calls'[m].scratch
    BY <1>2, <1>7, <2>1
  <2>2. Sending' = Sending
    BY DEF Sending
  <2> QED  BY <1>9, <2>1, <2>2 DEF Carried
<1> QED  BY <1>8, <1>10

LEMMA MoveKeeps ==
    ASSUME TransportInv, NEW s \in InCall, NEW c, NEW r, Moves(s, c, r), MovesTold(s, c, r)
    PROVE  TransportInv'
<1>1. TransportTypes /\ InProgress /\ Overlaps /\ Counts
  BY DEF TransportInv
<1>2. TransportTypes' /\ InProgress' /\ Overlaps' /\ Counts'
  BY <1>1, MoveTypes, MoveInProgress, MoveOverlaps, MoveCounts
<1> QED  BY <1>2, MoveLoaded, MoveTold DEF TransportInv

\* A counter loaded during a call covers what was before the call, and no more
\* than that and what is beside it.
LEMMA LoadCovers ==
    ASSUME TransportInv, NEW s \in InCall
    PROVE  /\ Covers(sending[s].number, dropped)
           /\ sending[s].phase \in Loading => CoversCut(sending[s].number, truncated)
<1> USE DEF TransportInv
<1>1. PICK n : n = sending[s].number
  OBVIOUS
<1>2. n \in DOMAIN calls /\ calls[n].fate = "pending"
  BY <1>1 DEF InProgress
<1>3. /\ Before(n) \subseteq DOMAIN calls /\ calls[n].beside \subseteq DOMAIN calls
      /\ Before(n) \cap calls[n].beside = {} /\ n \notin Before(n) /\ n \notin calls[n].beside
  BY <1>2, Apart
<1>4. PICK B, A : B = Before(n) /\ A = calls[n].beside
  OBVIOUS
<1>5. DOMAIN calls \ {n} = B \cup A
  <2>1. DOMAIN calls = 1..sequence /\ sequence \in Nat
    BY CallTypes
  <2>2. \A m \in DOMAIN calls : m > n => m \in A
    BY <1>1, <1>4 DEF Overlaps
  <2>3. \A m \in DOMAIN calls : m < n => m \in B \cup A
    BY <1>2, <1>4, <2>1 DEF Before
  <2> QED  BY <1>2, <1>3, <1>4, <2>1, <2>2, <2>3
<1>6. /\ IsFiniteSet(B) /\ IsFiniteSet(A) /\ B \cap A = {}
      /\ IsFiniteSet(Lost(B)) /\ IsFiniteSet(Lost(A)) /\ IsFiniteSet(DOMAIN calls)
      /\ \A m \in DOMAIN calls : calls[m].cut \in Nat
  BY <1>3, <1>4, CallTypes
<1>7. dropped = Cardinality(Lost(B)) + Cardinality(Lost(A))
  <2>1. Lost(DOMAIN calls) = Lost(B) \cup Lost(A) /\ Lost(B) \cap Lost(A) = {}
    BY <1>2, <1>5, <1>6 DEF Lost
  <2>2. Cardinality(Lost(B) \cup Lost(A)) = Cardinality(Lost(B)) + Cardinality(Lost(A))
    <3>1. Cardinality(Lost(B) \cap Lost(A)) = 0
      BY <2>1, FS_EmptySet
    <3>2. Cardinality(Lost(B)) \in Nat /\ Cardinality(Lost(A)) \in Nat
      BY <1>6, FS_CardinalityType
    <3>3. Cardinality(Lost(B) \cup Lost(A))
             = Cardinality(Lost(B)) + Cardinality(Lost(A)) - Cardinality(Lost(B) \cap Lost(A))
      BY <1>6, FS_Union
    <3> QED  BY <3>1, <3>2, <3>3
  <2> QED  BY <2>1, <2>2 DEF Counts
<1>8. Covers(n, dropped)
  <2>1. Cardinality(Lost(B)) \in Nat /\ Cardinality(Lost(A)) \in Nat
    BY <1>6, FS_CardinalityType
  <2> QED  BY <1>4, <1>7, <2>1 DEF Covers
<1>9. ASSUME sending[s].phase \in Loading
      PROVE  CoversCut(n, truncated)
  <2>1. calls[n].cut = 0
    BY <1>1, <1>9 DEF InProgress
  <2>2. CutOf(calls, DOMAIN calls) = calls[n].cut + CutOf(calls, DOMAIN calls \ {n})
    BY <1>2, <1>6, CutOfOne
  <2>3. \A m \in B \cup A : calls[m].cut \in Nat
    BY <1>5, <1>6
  <2>4. CutOf(calls, B \cup A) = CutOf(calls, B) + CutOf(calls, A)
    BY <1>6, <2>3, CutOfUnion
  <2>5. CutOf(calls, B) \in Nat /\ CutOf(calls, A) \in Nat
    BY <1>6, <2>3, CutOfType
  <2>6. CutIn(DOMAIN calls) = CutOf(calls, DOMAIN calls)
    BY DEF CutIn, CutOf
  <2>7. CutIn(B) = CutOf(calls, B)
    BY DEF CutIn, CutOf
  <2>8. CutIn(A) = CutOf(calls, A)
    BY DEF CutIn, CutOf
  <2>9. truncated = CutIn(B) + CutIn(A)
    <3>1. CutOf(calls, DOMAIN calls \ {n}) = CutOf(calls, B \cup A)
      BY <1>5, Zenon
    <3>2. truncated = CutOf(calls, DOMAIN calls)
      BY <2>6, Zenon DEF Counts
    <3> QED  BY <2>1, <2>2, <2>4, <2>5, <2>7, <2>8, <3>1, <3>2
  <2> QED  BY <1>4, <2>5, <2>7, <2>8, <2>9 DEF CoversCut
<1> QED  BY <1>1, <1>8, <1>9

-----------------------------------------------------------------------------
(* Recursion over the positions of a sequence *)

\* The values g of a recursion over the positions of a sequence.
Follows(g, N, first, step) == g[0] = first /\ \A n \in 1..N : g[n] = step[n][g[n - 1]]

\* Such a recursion has a value at each position.
LEMMA RecursionExists ==
    ASSUME NEW N \in Nat, NEW Codomain, NEW first \in Codomain,
           NEW step \in [1..N -> [Codomain -> Codomain]]
    PROVE  \E g \in [0..N -> Codomain] : Follows(g, N, first, step)
<1> DEFINE Up(m, g) == /\ g \in [0..m -> Codomain] /\ g[0] = first
                       /\ \A n \in 1..m : g[n] = step[n][g[n - 1]]
           T == {m \in Nat : m <= N => \E g : Up(m, g)}
<1>1. 0 \in T
  <2>1. Up(0, [n \in 0..0 |-> first])
    OBVIOUS
  <2> QED  BY <2>1
<1>2. ASSUME NEW m \in Nat, m \in T, m + 1 <= N
      PROVE  \E g : Up(m + 1, g)
  <2>1. PICK g : Up(m, g)
    BY <1>2
  <2> DEFINE h == [n \in 0..m + 1 |-> IF n = m + 1 THEN step[m + 1][g[m]] ELSE g[n]]
  <2>2. m \in 0..m /\ m + 1 \in 1..N /\ g[m] \in Codomain
    BY <1>2, <2>1
  <2>3. h \in [0..m + 1 -> Codomain]
    BY <2>1, <2>2
  <2>4. h[0] = first /\ h[m + 1] = step[m + 1][h[m]]
    BY <2>1, <2>2
  <2>5. ASSUME NEW n \in 1..m PROVE h[n] = step[n][h[n - 1]]
    BY <2>1, <2>5
  <2>6. (m + 1) - 1 = m /\ \A n \in 1..m + 1 : n = m + 1 \/ n \in 1..m
    BY <1>2
  <2> HIDE DEF h
  <2>7. \A n \in 1..m + 1 : h[n] = step[n][h[n - 1]]
    BY <2>4, <2>5, <2>6
  <2> QED  BY <2>3, <2>4, <2>7
<1>3. \A m \in Nat : m \in T => m + 1 \in T
  <2> HIDE DEF Up
  <2> QED  BY <1>2
<1>4. Nat \subseteq T
  <2> HIDE DEF T
  <2> QED  BY <1>1, <1>3, SetInduction
<1>5. PICK g : Up(N, g)
  <2> HIDE DEF Up
  <2> QED  BY <1>4
<1> QED  BY <1>5 DEF Follows

-----------------------------------------------------------------------------
(* The fields an envelope holds *)

\* The positions of the fields that are written, and how many come up to one.
Written(fields) == {i \in DOMAIN fields : Open(fields[i])}
Upto(S, n) == Cardinality({i \in S : i =< n})

LEMMA UptoStep ==
    ASSUME NEW N \in Nat, NEW S \in SUBSET (1..N)
    PROVE  /\ Upto(S, 0) = 0 /\ Upto(S, N) = Cardinality(S)
           /\ \A n \in 0..N : Upto(S, n) \in Nat
           /\ \A n \in 1..N : Upto(S, n) = Upto(S, n - 1) + (IF n \in S THEN 1 ELSE 0)
<1>0. \A i \in S : i \in Nat /\ 1 =< i /\ i =< N
  OBVIOUS
<1>1. IsFiniteSet(S) /\ \A n \in 0..N : IsFiniteSet({i \in S : i =< n})
  <2>1. IsFiniteSet(1..N)
    BY FS_Interval
  <2>2. IsFiniteSet(S)
    BY <2>1, FS_Subset
  <2>3. \A n \in 0..N : {i \in S : i =< n} \subseteq S
    OBVIOUS
  <2> QED  BY <2>2, <2>3, FS_Subset
<1>2. Upto(S, 0) = 0
  <2>1. {i \in S : i =< 0} = {}
    <3>1. \A i \in S : ~(i =< 0)
      BY <1>0
    <3> QED  BY <3>1
  <2> QED  BY <2>1, FS_EmptySet DEF Upto
<1>3. Upto(S, N) = Cardinality(S)
  <2>1. {i \in S : i =< N} = S
    BY <1>0
  <2> QED  BY <2>1 DEF Upto
<1>4. \A n \in 0..N : Upto(S, n) \in Nat
  BY <1>1, FS_CardinalityType DEF Upto
<1>5. ASSUME NEW n \in 1..N
      PROVE  Upto(S, n) = Upto(S, n - 1) + (IF n \in S THEN 1 ELSE 0)
  <2>1. PICK A, B : A = {i \in S : i =< n - 1} /\ B = {i \in S : i =< n}
    OBVIOUS
  <2>2. IsFiniteSet(A) /\ n - 1 \in 0..N
    <3>1. n - 1 \in 0..N
      OBVIOUS
    <3> QED  BY <1>1, <2>1, <3>1
  <2>5. \A i \in S : i =< n <=> i =< n - 1 \/ i = n
    BY <1>0
  <2>3. CASE n \in S
    <3>1. B = A \cup {n} /\ n \notin A
      <4>1. ~(n =< n - 1)
        OBVIOUS
      <4>2. n \notin A
        BY <2>1, <4>1
      <4>3. \A i : i \in B <=> i \in A \/ i = n
        BY <2>1, <2>3, <2>5
      <4> QED  BY <4>2, <4>3
    <3>2. Cardinality(A \cup {n}) = Cardinality(A) + 1
      BY <2>2, <3>1, FS_AddElement
    <3> QED  BY <2>1, <2>3, <3>1, <3>2 DEF Upto
  <2>4. CASE n \notin S
    <3>1. B = A
      BY <2>1, <2>4, <2>5
    <3>2. Upto(S, n) = Upto(S, n - 1) /\ Upto(S, n - 1) \in Nat
      BY <1>4, <2>1, <2>2, <3>1 DEF Upto
    <3> QED  BY <2>4, <3>2
  <2> QED  BY <2>3, <2>4
<1> QED  BY <1>2, <1>3, <1>4, <1>5

\* The fields an envelope holds are the written ones, each at its rank.
LEMMA RetainedFacts ==
    ASSUME NEW event, NEW Whatever, event.fields \in Seq(Whatever)
    PROVE  /\ Retained(event) \in Seq(Whatever)
           /\ Written(event.fields) \in SUBSET (1..Len(event.fields))
           /\ Len(Retained(event)) = Cardinality(Written(event.fields))
           /\ \A i \in Written(event.fields) :
                 /\ Upto(Written(event.fields), i) \in 1..Len(Retained(event))
                 /\ Retained(event)[Upto(Written(event.fields), i)] = event.fields[i]
           /\ \A k \in 1..Len(Retained(event)) :
                 \E i \in Written(event.fields) : Upto(Written(event.fields), i) = k
<1> DEFINE N == Len(event.fields)
           upTo[n \in 0..N] ==
             IF n = 0 THEN <<>>
             ELSE IF Open(event.fields[n]) THEN Append(upTo[n - 1], event.fields[n])
             ELSE upTo[n - 1]
<1>1. PICK fields : fields = event.fields
  OBVIOUS
<1> DEFINE step == [n \in 1..N |-> [q \in Seq(Whatever) |->
                      IF Open(fields[n]) THEN Append(q, fields[n]) ELSE q]]
           Is(g) == g = [n \in 0..N |-> IF n = 0 THEN <<>> ELSE
                           IF Open(fields[n]) THEN Append(g[n - 1], fields[n])
                           ELSE g[n - 1]]
<1>2. N \in Nat /\ N = Len(fields) /\ (\A n \in 1..N : fields[n] \in Whatever) /\ <<>> \in Seq(Whatever)
  BY <1>1
<1>3. Retained(event) = upTo[N]
  BY DEF Retained
<1>4. upTo = CHOOSE g : Is(g)
  BY <1>1
<1> HIDE DEF N, upTo
<1>5. \A n \in 1..N : \A q \in Seq(Whatever) :
         /\ step[n][q] = IF Open(fields[n]) THEN Append(q, fields[n]) ELSE q
         /\ step[n][q] \in Seq(Whatever)
  BY <1>2
<1>6. step \in [1..N -> [Seq(Whatever) -> Seq(Whatever)]]
  BY <1>5
<1> HIDE DEF step
<1>7. \E g : Is(g)
  <2>1. PICK g \in [0..N -> Seq(Whatever)] :
           g[0] = <<>> /\ \A n \in 1..N : g[n] = step[n][g[n - 1]]
    <3>1. \E g \in [0..N -> Seq(Whatever)] : Follows(g, N, <<>>, step)
      BY <1>2, <1>6, RecursionExists
    <3> QED  BY <3>1 DEF Follows
  <2>2. \A n \in 0..N : n = 0 \/ (n \in 1..N /\ n - 1 \in 0..N /\ n # 0)
    BY <1>2
  <2>3. g = [n \in 0..N |-> g[n]]
    OBVIOUS
  <2>4. \A n \in 0..N : g[n] = IF n = 0 THEN <<>> ELSE
                                 IF Open(fields[n]) THEN Append(g[n - 1], fields[n])
                                 ELSE g[n - 1]
    <3>1. ASSUME NEW n \in 1..N, n # 0, n - 1 \in 0..N
          PROVE  g[n] = IF Open(fields[n]) THEN Append(g[n - 1], fields[n])
                        ELSE g[n - 1]
      <4>1. g[n - 1] \in Seq(Whatever) /\ g[n] = step[n][g[n - 1]]
        BY <2>1, <3>1
      <4> QED  BY <1>5, <3>1, <4>1
    <3> QED  BY <2>1, <2>2, <3>1
  <2>5. Is(g)
    BY <2>3, <2>4
  <2> QED  BY <2>5
<1>8. Is(upTo)
  <2> HIDE DEF Is
  <2> QED  BY <1>4, <1>7
<1>9. /\ upTo[0] = <<>>
      /\ \A n \in 1..N : upTo[n] = IF Open(fields[n]) THEN Append(upTo[n - 1], fields[n])
                                   ELSE upTo[n - 1]
  <2>1. 0 \in 0..N /\ \A n \in 1..N : n \in 0..N /\ n # 0
    BY <1>2
  <2> QED  BY <1>8, <2>1
<1> HIDE DEF Is
<1>10. PICK S : S = Written(fields)
  OBVIOUS
<1>11. S \in SUBSET (1..N) /\ \A n \in 1..N : n \in S <=> Open(fields[n])
  BY <1>1, <1>2, <1>10 DEF Written
<1>12. /\ Upto(S, 0) = 0 /\ Upto(S, N) = Cardinality(S)
       /\ \A n \in 0..N : Upto(S, n) \in Nat
       /\ \A n \in 1..N : Upto(S, n) = Upto(S, n - 1) + (IF n \in S THEN 1 ELSE 0)
  BY <1>2, <1>11, UptoStep
<1> DEFINE Good(n) ==
             /\ upTo[n] \in Seq(Whatever) /\ Len(upTo[n]) = Upto(S, n)
             /\ \A i \in S : i =< n => /\ Upto(S, i) \in 1..Len(upTo[n])
                                       /\ upTo[n][Upto(S, i)] = fields[i]
             /\ \A k \in 1..Len(upTo[n]) : \E i \in S : i =< n /\ Upto(S, i) = k
           T == {n \in Nat : n <= N => Good(n)}
<1>13. 0 \in T
  <2>1. \A i \in S : ~(i =< 0)
    BY <1>2, <1>11
  <2>2. upTo[0] \in Seq(Whatever) /\ Len(upTo[0]) = 0
    BY <1>2, <1>9
  <2> QED  BY <1>12, <2>1, <2>2
<1>14. ASSUME NEW n \in Nat, Good(n), n + 1 <= N
       PROVE  Good(n + 1)
  <2>1. n + 1 \in 1..N /\ (n + 1) - 1 = n /\ n \in 0..N
    BY <1>2, <1>14
  <2>2. PICK q, m : q = upTo[n] /\ m = Upto(S, n)
    OBVIOUS
  <2>3. /\ upTo[n + 1] = IF n + 1 \in S THEN Append(q, fields[n + 1]) ELSE q
        /\ Upto(S, n + 1) = m + (IF n + 1 \in S THEN 1 ELSE 0)
    BY <1>9, <1>11, <1>12, <2>1, <2>2
  <2>4. /\ q \in Seq(Whatever) /\ Len(q) = m /\ m \in Nat
        /\ \A i \in S : i =< n => Upto(S, i) \in 1..m /\ q[Upto(S, i)] = fields[i]
        /\ \A k \in 1..m : \E i \in S : i =< n /\ Upto(S, i) = k
    BY <1>14, <2>2
  <2>5. \A i \in S : i =< n + 1 <=> i =< n \/ i = n + 1
    BY <1>2, <1>11
  <2>6. CASE n + 1 \in S
    <3>1. PICK p : p = Append(q, fields[n + 1])
      OBVIOUS
    <3>2. /\ p \in Seq(Whatever) /\ Len(p) = m + 1 /\ p[m + 1] = fields[n + 1]
          /\ \A k \in 1..m : p[k] = q[k]
      BY <1>2, <2>1, <2>4, <3>1
    <3>3. upTo[n + 1] = p /\ Upto(S, n + 1) = m + 1
      BY <2>3, <2>6, <3>1
    <3>4. \A k \in 1..m + 1 : k = m + 1 \/ k \in 1..m
      BY <2>4
    <3>5. 1..m \subseteq 1..m + 1 /\ m + 1 \in 1..m + 1
      BY <2>4
    <3>6. \A i \in S : i =< n + 1 => Upto(S, i) \in 1..m + 1 /\ p[Upto(S, i)] = fields[i]
      BY <2>4, <2>5, <3>2, <3>3, <3>5
    <3>7. \A k \in 1..m + 1 : \E i \in S : i =< n + 1 /\ Upto(S, i) = k
      BY <2>4, <2>5, <2>6, <3>3, <3>4
    <3> QED  BY <3>2, <3>3, <3>6, <3>7
  <2>7. CASE n + 1 \notin S
    <3>1. upTo[n + 1] = q /\ Upto(S, n + 1) = m
      BY <2>3, <2>4, <2>7
    <3>2. \A i \in S : i =< n + 1 <=> i =< n
      BY <2>5, <2>7
    <3> QED  BY <2>4, <3>1, <3>2
  <2> QED  BY <2>6, <2>7
<1>15. \A n \in Nat : n \in T => n + 1 \in T
  <2>1. ASSUME NEW n \in Nat, n \in T, n + 1 <= N PROVE Good(n + 1)
    <3>1. Good(n)
      BY <1>2, <2>1
    <3> HIDE DEF Good
    <3> QED  BY <1>14, <2>1, <3>1
  <2> HIDE DEF Good
  <2> QED  BY <2>1
<1>16. Good(N)
  <2>1. Nat \subseteq T
    <3> HIDE DEF T
    <3> QED  BY <1>13, <1>15, SetInduction
  <2>2. N \in T /\ N <= N
    BY <1>2, <2>1
  <2> HIDE DEF Good
  <2> QED  BY <2>2
<1>17. \A i \in S : i =< N
  BY <1>2, <1>11
<1>18. N = Len(event.fields)
  BY DEF N
<1> QED  BY <1>1, <1>3, <1>10, <1>11, <1>12, <1>16, <1>17, <1>18

\* The values an envelope shows, in their order.
Shown(event) == event.test \o [i \in DOMAIN Retained(event) |-> Retained(event)[i].value]
                           \o event.message

LEMMA ShownTypes ==
    ASSUME NEW event \in Events
    PROVE  /\ event.fields \in Seq(Fields)
           /\ event.test \in Seq(LoggedValues) /\ event.message \in Seq(LoggedValues)
           /\ Retained(event) \in Seq(Fields)
           /\ [i \in DOMAIN Retained(event) |-> Retained(event)[i].value] \in Seq(LoggedValues)
           /\ Shown(event) \in Seq(LoggedValues)
           /\ \A scratch : Values(event, scratch)
                             = [i \in DOMAIN Shown(event) |-> Value(Shown(event)[i], scratch)]
<1>1. /\ event.fields \in Seq(Fields)
      /\ event.test \in Seq(LoggedValues) /\ event.message \in Seq(LoggedValues)
  BY EventsAssumption
<1>2. PICK kept : kept = Retained(event)
  OBVIOUS
<1>3. kept \in Seq(Fields)
  BY <1>1, <1>2, RetainedFacts
<1>4. \A field \in Fields : field.value \in LoggedValues
  BY DEF Fields
<1>5. PICK open : open = [i \in DOMAIN kept |-> kept[i].value]
  OBVIOUS
<1>6. open \in Seq(LoggedValues)
  BY <1>3, <1>4, <1>5
<1>7. Shown(event) = event.test \o open \o event.message
  BY <1>2, <1>5 DEF Shown
<1>8. Shown(event) \in Seq(LoggedValues)
  BY <1>1, <1>6, <1>7
<1>9. \A scratch : Values(event, scratch)
                     = [i \in DOMAIN Shown(event) |-> Value(Shown(event)[i], scratch)]
  BY DEF Values, Shown
<1> QED  BY <1>1, <1>2, <1>3, <1>5, <1>6, <1>8, <1>9

LEMMA CutValuesType ==
    ASSUME NEW event \in Events, NEW scratch
    PROVE  CutValues(event, scratch) \in Nat
<1>1. PICK v : v = Values(event, scratch)
  OBVIOUS
<1>2. DOMAIN v = 1..Len(Shown(event)) /\ Len(Shown(event)) \in Nat
  <2>1. Shown(event) \in Seq(LoggedValues)
    BY ShownTypes
  <2>2. v = [i \in DOMAIN Shown(event) |-> Value(Shown(event)[i], scratch)]
    BY <1>1, ShownTypes
  <2>3. DOMAIN v = DOMAIN Shown(event)
    BY <2>2
  <2> QED  BY <2>1, <2>3
<1>3. IsFiniteSet({i \in DOMAIN v : v[i].truncated})
  <2>1. IsFiniteSet(DOMAIN v)
    BY <1>2, FS_Interval
  <2>2. {i \in DOMAIN v : v[i].truncated} \subseteq DOMAIN v
    OBVIOUS
  <2> QED  BY <2>1, <2>2, FS_Subset
<1>4. Cardinality({i \in DOMAIN v : v[i].truncated}) \in Nat
  BY <1>3, FS_CardinalityType
<1> QED  BY <1>1, <1>4 DEF CutValues

-----------------------------------------------------------------------------
(* The steps *)

LEMMA CallFacts ==
    ASSUME TransportInv, NEW s \in InCall
    PROVE  /\ s \in Senders /\ sending[s] \in Sending /\ sending[s] # Idle
           /\ sending[s].number \in DOMAIN calls
           /\ calls[sending[s].number] \in CallRecords
           /\ calls[sending[s].number].cut \in Nat
           /\ calls[sending[s].number].fate = "pending"
           /\ sending[s].phase \in Loading => calls[sending[s].number].cut = 0
           /\ sending[s].event = calls[sending[s].number].logged
           /\ sending[s].scratch = calls[sending[s].number].scratch
           /\ sending[s].event \in Events
           /\ dropped \in Nat /\ truncated \in Nat
           /\ sending \in [Senders -> {Idle} \cup Sending]
<1> USE DEF TransportInv
<1>1. s \in Senders /\ sending[s] \in Sending /\ sending[s] # Idle
  BY InCallTypes
<1>2. /\ sending[s].number \in DOMAIN calls /\ calls[sending[s].number].fate = "pending"
      /\ sending[s].phase \in Loading => calls[sending[s].number].cut = 0
  BY DEF InProgress
<1>3. /\ sending[s].event = calls[sending[s].number].logged
      /\ sending[s].scratch = calls[sending[s].number].scratch
  BY DEF Carried
<1>4. calls[sending[s].number] \in CallRecords /\ calls[sending[s].number].cut \in Nat
  BY <1>2, CallTypes
<1>5. sending[s].event \in Events
  BY <1>1 DEF Sending
<1>6. dropped \in Nat /\ truncated \in Nat /\ sending \in [Senders -> {Idle} \cup Sending]
  BY DEF TransportTypes
<1> QED  BY <1>1, <1>2, <1>3, <1>4, <1>5, <1>6

\* A step that leaves the records as they are.
LEMMA RecordsStay ==
    ASSUME TransportInv, NEW s \in InCall, NEW c \in Sending,
           sending' = [sending EXCEPT ![s] = c],
           UNCHANGED <<sequence, dropped, truncated, calls>>,
           c.number = sending[s].number, c.event = sending[s].event,
           c.scratch = sending[s].scratch,
           c.phase \in Loading => sending[s].phase \in Loading,
           c.phase # "dropped" => Covers(sending[s].number, c.dropped),
           c.phase \notin {"dropped", "truncated"} => CoversCut(sending[s].number, c.truncated)
    PROVE  TransportInv'
<1> DEFINE n == sending[s].number
<1>1. PICK r : r = calls[n]
  OBVIOUS
<1>2. /\ n \in DOMAIN calls /\ r \in CallRecords /\ r.cut \in Nat /\ r.fate = "pending"
      /\ sending[s].phase \in Loading => r.cut = 0
      /\ dropped \in Nat /\ truncated \in Nat
  BY <1>1, CallFacts
<1>3. c # Idle
  <2>1. Idle.phase = "idle" /\ c.phase # "idle"
    BY DEF Idle, Sending, Phases
  <2> QED  BY <2>1
<1>4. calls \in Seq(CallRecords)
  BY DEF TransportInv, TransportTypes
<1>5. calls' = [calls EXCEPT ![n] = r]
  BY SMTT(30), <1>1, <1>2, <1>4
<1>6. Moves(s, c, r)
  <2>1. /\ dropped' = dropped + (IF r.fate = "lost" THEN 1 ELSE 0)
        /\ truncated' = truncated + (r.cut - calls[n].cut)
    BY <1>1, <1>2
  <2>2. c = Idle <=> r.fate # "pending"
    BY <1>2, <1>3
  <2>3. calls[n].cut =< r.cut
    BY <1>1, <1>2
  <2>4. c.phase \in Loading => r.cut = 0
    BY <1>2
  <2> HIDE DEF n
  <2>5. /\ c \in {Idle} \cup Sending /\ r \in CallRecords
        /\ sequence' = sequence
        /\ r.beside = calls[n].beside /\ r.logged = calls[n].logged /\ r.scratch = calls[n].scratch
    BY <1>1, <1>2
  <2>6. n = sending[s].number
    BY DEF n
  <2> QED  BY <1>5, <2>1, <2>2, <2>3, <2>4, <2>5, <2>6 DEF Moves
<1>7. MovesTold(s, c, r)
  BY <1>2 DEF MovesTold
<1> QED  BY <1>6, <1>7, MoveKeeps

LEMMA LoadDroppedKeeps ==
    ASSUME TransportInv, NEW s \in Senders, LoadDropped(s)
    PROVE  TransportInv'
<1>1. s \in InCall /\ sending[s].phase = "dropped"
  BY DEF LoadDropped, InCall
<1>2. PICK d : d = sending[s]
  OBVIOUS
<1>3. d \in Sending /\ dropped \in Nat /\ sending \in [Senders -> {Idle} \cup Sending]
  BY <1>1, <1>2, CallFacts
<1>4. PICK c : c = [d EXCEPT !.phase = "truncated", !.dropped = dropped]
  OBVIOUS
<1>5. /\ c \in Sending /\ c.phase = "truncated" /\ c.dropped = dropped
      /\ c.number = d.number /\ c.event = d.event /\ c.scratch = d.scratch
  BY <1>3, <1>4 DEF Sending, Phases
<1>6. sending' = [sending EXCEPT ![s] = c]
  BY <1>2, <1>3, <1>4 DEF LoadDropped
<1>7. UNCHANGED <<sequence, dropped, truncated, calls>>
  BY DEF LoadDropped
<1>8. Covers(d.number, dropped)
  BY <1>1, <1>2, LoadCovers
<1>9. sending[s].phase \in Loading
  BY <1>1 DEF Loading
<1> QED  BY <1>1, <1>2, <1>5, <1>6, <1>7, <1>8, <1>9, RecordsStay

LEMMA LoadTruncatedKeeps ==
    ASSUME TransportInv, NEW s \in Senders, LoadTruncated(s)
    PROVE  TransportInv'
<1>1. s \in InCall /\ sending[s].phase = "truncated"
  BY DEF LoadTruncated, InCall
<1>2. PICK d : d = sending[s]
  OBVIOUS
<1>3. d \in Sending /\ truncated \in Nat /\ sending \in [Senders -> {Idle} \cup Sending]
  BY <1>1, <1>2, CallFacts
<1>4. PICK c : c = [d EXCEPT !.phase = "encode", !.truncated = truncated]
  OBVIOUS
<1>5. /\ c \in Sending /\ c.phase = "encode" /\ c.truncated = truncated /\ c.dropped = d.dropped
      /\ c.number = d.number /\ c.event = d.event /\ c.scratch = d.scratch
  BY <1>3, <1>4 DEF Sending, Phases
<1>6. sending' = [sending EXCEPT ![s] = c]
  BY <1>2, <1>3, <1>4 DEF LoadTruncated
<1>7. UNCHANGED <<sequence, dropped, truncated, calls>>
  BY DEF LoadTruncated
<1>8. sending[s].phase \in Loading
  BY <1>1 DEF Loading
<1>9. CoversCut(d.number, truncated)
  BY <1>1, <1>2, <1>8, LoadCovers
<1>10. Covers(d.number, d.dropped)
  BY <1>1, <1>2 DEF TransportInv, Loaded
<1> QED  BY <1>1, <1>2, <1>5, <1>6, <1>7, <1>8, <1>9, <1>10, RecordsStay

LEMMA HostRefusesKeeps ==
    ASSUME TransportInv, NEW s \in Senders, HostRefuses(s)
    PROVE  TransportInv'
<1>1. s \in InCall /\ sending[s].phase = "host"
  BY DEF HostRefuses, InCall
<1>2. PICK d : d = sending[s]
  OBVIOUS
<1>3. d \in Sending /\ sending \in [Senders -> {Idle} \cup Sending]
  BY <1>1, <1>2, CallFacts
<1>4. PICK c : c = [d EXCEPT !.phase = "refused"]
  OBVIOUS
<1>5. /\ c \in Sending /\ c.phase = "refused" /\ c.truncated = d.truncated
      /\ c.dropped = d.dropped
      /\ c.number = d.number /\ c.event = d.event /\ c.scratch = d.scratch
  BY <1>3, <1>4 DEF Sending, Phases
<1>6. sending' = [sending EXCEPT ![s] = c]
  BY <1>2, <1>3, <1>4 DEF HostRefuses
<1>7. UNCHANGED <<sequence, dropped, truncated, calls>>
  BY DEF HostRefuses
<1>8. c.phase \notin Loading
  BY <1>5 DEF Loading
<1>9. Covers(d.number, d.dropped) /\ CoversCut(d.number, d.truncated)
  BY <1>1, <1>2 DEF TransportInv, Loaded
<1> QED  BY <1>1, <1>2, <1>5, <1>6, <1>7, <1>8, <1>9, RecordsStay

\* The call is lost, and counted.
LEMMA LossKeeps ==
    ASSUME TransportInv, NEW s \in InCall, dropped' = dropped + 1,
           sending' = [sending EXCEPT ![s] = Idle],
           calls' = [calls EXCEPT ![sending[s].number].fate = "lost"],
           UNCHANGED <<sequence, truncated>>
    PROVE  TransportInv'
<1>1. PICK n, r : n = sending[s].number /\ r = [calls[n] EXCEPT !.fate = "lost"]
  OBVIOUS
<1>2. /\ n \in DOMAIN calls /\ calls[n] \in CallRecords /\ calls[n].cut \in Nat
      /\ dropped \in Nat /\ truncated \in Nat
  BY <1>1, CallFacts
<1>3. /\ r \in CallRecords /\ r.fate = "lost" /\ r.cut = calls[n].cut
      /\ r.beside = calls[n].beside /\ r.logged = calls[n].logged /\ r.scratch = calls[n].scratch
  BY <1>1, <1>2 DEF CallRecords
<1>4. calls' = [calls EXCEPT ![n] = r]
  BY <1>1
<1>5. Moves(s, Idle, r)
  <2>1. /\ dropped' = dropped + (IF r.fate = "lost" THEN 1 ELSE 0)
        /\ truncated' = truncated + (r.cut - calls[n].cut)
        /\ calls[n].cut =< r.cut
    BY <1>2, <1>3
  <2> QED  BY <1>1, <1>3, <1>4, <2>1 DEF Moves
<1>6. MovesTold(s, Idle, r)
  BY <1>3 DEF MovesTold
<1> QED  BY <1>5, <1>6, MoveKeeps

LEMMA EncodeFailsKeeps ==
    ASSUME TransportInv, NEW s \in Senders, EncodeFails(s)
    PROVE  TransportInv'
<1>1. s \in InCall
  BY DEF EncodeFails, InCall
<1> QED  BY <1>1, LossKeeps DEF EncodeFails

LEMMA CountRefusedKeeps ==
    ASSUME TransportInv, NEW s \in Senders, CountRefused(s)
    PROVE  TransportInv'
<1>1. s \in InCall
  BY DEF CountRefused, InCall
<1> QED  BY <1>1, LossKeeps DEF CountRefused, CountLoss

\* The envelope reaches a reader.
LEMMA ReadKeeps ==
    ASSUME TransportInv, NEW s \in InCall, sending[s].phase \notin {"dropped", "truncated"},
           NEW cut \in Nat, calls[sending[s].number].cut =< cut,
           truncated' = truncated + (cut - calls[sending[s].number].cut),
           sending' = [sending EXCEPT ![s] = Idle],
           calls' = [calls EXCEPT ![sending[s].number] =
                       Read([calls[sending[s].number] EXCEPT !.cut = cut], sending[s])],
           UNCHANGED <<sequence, dropped>>
    PROVE  TransportInv'
<1>1. PICK n, d : n = sending[s].number /\ d = sending[s]
  OBVIOUS
<1>2. PICK r : r = Read([calls[n] EXCEPT !.cut = cut], d)
  OBVIOUS
<1>3. /\ n \in DOMAIN calls /\ calls[n] \in CallRecords /\ calls[n].cut \in Nat
      /\ d \in Sending /\ d.event = calls[n].logged /\ d.scratch = calls[n].scratch
      /\ dropped \in Nat /\ truncated \in Nat
  BY <1>1, CallFacts
<1>4. <<Envelope(d)>> \in {<<>>} \cup {<<Envelope(c)>> : c \in Sending}
  BY <1>3
<1>5. /\ r \in CallRecords /\ r.fate = "read" /\ r.cut = cut /\ r.envelope = <<Envelope(d)>>
      /\ r.beside = calls[n].beside /\ r.logged = calls[n].logged /\ r.scratch = calls[n].scratch
  <2>1. PICK e : e = <<Envelope(d)>>
    OBVIOUS
  <2>2. r = [calls[n] EXCEPT !.cut = cut, !.fate = "read", !.envelope = e]
    BY <1>2, <1>3, <2>1 DEF Read, CallRecords
  <2> QED  BY <1>3, <1>4, <2>1, <2>2 DEF CallRecords
<1>6. calls' = [calls EXCEPT ![n] = r]
  BY <1>1, <1>2
<1>7. Moves(s, Idle, r)
  <2>1. /\ dropped' = dropped + (IF r.fate = "lost" THEN 1 ELSE 0)
        /\ truncated' = truncated + (r.cut - calls[n].cut)
        /\ calls[n].cut =< r.cut
    BY <1>1, <1>3, <1>5
  <2> QED  BY <1>1, <1>5, <1>6, <2>1 DEF Moves
<1>8. Covers(n, d.dropped) /\ CoversCut(n, d.truncated)
  BY <1>1 DEF TransportInv, Loaded
<1>9. MovesTold(s, Idle, r)
  BY <1>1, <1>3, <1>5, <1>8 DEF MovesTold
<1> QED  BY <1>7, <1>9, MoveKeeps

LEMMA HostAcceptsKeeps ==
    ASSUME TransportInv, NEW s \in Senders, HostAccepts(s)
    PROVE  TransportInv'
<1>1. s \in InCall /\ sending[s].phase = "host"
  BY DEF HostAccepts, InCall
<1>2. PICK n, cut : n = sending[s].number /\ cut = calls[n].cut
  OBVIOUS
<1>3. calls[n] \in CallRecords /\ cut \in Nat /\ truncated \in Nat
  BY <1>1, <1>2, CallFacts
<1>4. [calls[n] EXCEPT !.cut = cut] = calls[n]
  BY <1>2, <1>3 DEF CallRecords
<1>5. truncated' = truncated + (cut - calls[n].cut) /\ calls[n].cut =< cut
  BY <1>2, <1>3 DEF HostAccepts
<1>6. calls' = [calls EXCEPT ![n] = Read([calls[n] EXCEPT !.cut = cut], sending[s])]
  BY <1>2, <1>4 DEF HostAccepts
<1>7. sending' = [sending EXCEPT ![s] = Idle] /\ UNCHANGED <<sequence, dropped>>
  BY DEF HostAccepts
<1>8. sending[s].phase \notin {"dropped", "truncated"}
  BY <1>1
<1> QED  BY <1>1, <1>2, <1>3, <1>5, <1>6, <1>7, <1>8, ReadKeeps

LEMMA EncodeOkKeeps ==
    ASSUME TransportInv, NEW s \in Senders, EncodeOk(s)
    PROVE  TransportInv'
<1>1. s \in InCall /\ sending[s].phase = "encode"
  BY DEF EncodeOk, InCall
<1>2. PICK n, d : n = sending[s].number /\ d = sending[s]
  OBVIOUS
<1>3. PICK cut : cut = CutValues(d.event, d.scratch)
  OBVIOUS
<1>4. /\ n \in DOMAIN calls /\ calls[n] \in CallRecords /\ calls[n].fate = "pending"
      /\ d \in Sending /\ d.event = calls[n].logged /\ d.scratch = calls[n].scratch
      /\ dropped \in Nat /\ truncated \in Nat /\ d.event \in Events
      /\ sending \in [Senders -> {Idle} \cup Sending]
  BY <1>1, <1>2, CallFacts
<1>5. calls[n].cut = 0
  <2>1. sending[s].phase \in Loading
    BY <1>1 DEF Loading
  <2> QED  BY <1>1, <1>2, <2>1, CallFacts
<1>6. cut \in Nat
  BY <1>3, <1>4, CutValuesType
<1>7. truncated' = truncated + (cut - calls[n].cut) /\ calls[n].cut =< cut
  <2>1. truncated' = truncated + cut
    BY <1>2, <1>3 DEF EncodeOk
  <2> QED  BY <1>4, <1>5, <1>6, <2>1
<1>8. UNCHANGED <<sequence, dropped>>
  BY DEF EncodeOk
<1>9. CASE ~d.emits
  <2>1. /\ sending' = [sending EXCEPT ![s] = Idle]
        /\ calls' = [calls EXCEPT ![n] = Read([calls[n] EXCEPT !.cut = cut], d)]
    BY <1>2, <1>3, <1>9 DEF EncodeOk
  <2>2. sending[s].phase \notin {"dropped", "truncated"}
    BY <1>1
  <2> QED  BY <1>1, <1>2, <1>6, <1>7, <1>8, <2>1, <2>2, ReadKeeps
<1>10. CASE d.emits
  <2>1. PICK c, r : c = [d EXCEPT !.phase = "host"] /\ r = [calls[n] EXCEPT !.cut = cut]
    OBVIOUS
  <2>2. sending' = [sending EXCEPT ![s] = c] /\ calls' = [calls EXCEPT ![n] = r]
    BY <1>2, <1>3, <1>10, <2>1 DEF EncodeOk
  <2>3. /\ c \in Sending /\ c.phase = "host" /\ c.truncated = d.truncated
        /\ c.dropped = d.dropped
        /\ c.number = d.number /\ c.event = d.event /\ c.scratch = d.scratch
    BY <1>4, <2>1 DEF Sending, Phases
  <2>4. /\ r \in CallRecords /\ r.fate = "pending" /\ r.cut = cut /\ r.beside = calls[n].beside
        /\ r.logged = calls[n].logged /\ r.scratch = calls[n].scratch
    BY <1>4, <1>6, <2>1 DEF CallRecords
  <2>5. c # Idle /\ c.phase \notin Loading
    <3>1. Idle.phase = "idle"
      BY DEF Idle
    <3> QED  BY <2>3, <3>1 DEF Loading
  <2>6. Moves(s, c, r)
    <3>1. /\ dropped' = dropped + (IF r.fate = "lost" THEN 1 ELSE 0)
          /\ truncated' = truncated + (r.cut - calls[n].cut)
          /\ calls[n].cut =< r.cut
      BY <1>4, <1>7, <1>8, <2>4
    <3> QED  BY <1>2, <1>8, <2>2, <2>3, <2>4, <2>5, <3>1 DEF Moves
  <2>7. Covers(n, d.dropped) /\ CoversCut(n, d.truncated)
    BY <1>1, <1>2 DEF TransportInv, Loaded
  <2>8. MovesTold(s, c, r)
    BY <1>2, <2>3, <2>4, <2>7 DEF MovesTold
  <2> QED  BY <1>1, <2>6, <2>8, MoveKeeps
<1> QED  BY <1>9, <1>10

-----------------------------------------------------------------------------
(* A call begins *)

Joined(n) == IF \E u \in InCall : sending[u].number = n
             THEN [calls[n] EXCEPT !.beside = @ \cup {sequence + 1}] ELSE calls[n]

LEMMA BeginFacts ==
    ASSUME TransportInv, NEW s \in Senders, NEW event \in Events, NEW buffer \in Buffers,
           NEW scratch \in Scratches, NEW emits \in BOOLEAN,
           Begin(s, event, buffer, scratch, emits)
    PROVE  /\ TransportTypes'
           /\ s \notin InCall /\ InCall' = InCall \cup {s}
           /\ \A u \in InCall : sending'[u] = sending[u]
           /\ sending'[s].phase = "dropped" /\ sending'[s].number = sequence + 1
           /\ sending'[s].event = event /\ sending'[s].scratch = scratch
           /\ sequence' = sequence + 1 /\ dropped' = dropped /\ truncated' = truncated
           /\ DOMAIN calls = 1..sequence /\ DOMAIN calls' = 1..sequence + 1
           /\ \A n \in DOMAIN calls :
                 /\ calls'[n].fate = calls[n].fate /\ calls'[n].cut = calls[n].cut
                 /\ calls'[n].logged = calls[n].logged /\ calls'[n].scratch = calls[n].scratch
                 /\ calls'[n].envelope = calls[n].envelope
                 /\ calls'[n].beside = calls[n].beside \cup
                       (IF \E u \in InCall : sending[u].number = n THEN {sequence + 1} ELSE {})
           /\ calls'[sequence + 1].fate = "pending" /\ calls'[sequence + 1].cut = 0
           /\ calls'[sequence + 1].logged = event /\ calls'[sequence + 1].scratch = scratch
           /\ calls'[sequence + 1].beside = {sending[u].number : u \in InCall}
<1> USE DEF TransportInv
<1>1. /\ sequence \in Nat /\ dropped \in Nat /\ truncated \in Nat
      /\ sending \in [Senders -> {Idle} \cup Sending]
      /\ calls \in Seq(CallRecords) /\ Len(calls) = sequence
      /\ DOMAIN calls = 1..sequence
  BY DEF TransportTypes
<1>2. PICK k, call : /\ k = sequence + 1
                     /\ call = [phase |-> "dropped", number |-> k, event |-> event,
                                buffer |-> buffer, scratch |-> scratch, emits |-> emits,
                                dropped |-> 0, truncated |-> 0]
  OBVIOUS
<1>3. call \in Sending
  BY <1>1, <1>2 DEF Sending, Phases
<1>4. /\ sending' = [sending EXCEPT ![s] = call] /\ sequence' = k
      /\ dropped' = dropped /\ truncated' = truncated /\ sending[s].phase = "idle"
  BY <1>2 DEF Begin
<1>5. /\ sending' \in [Senders -> {Idle} \cup Sending]
      /\ sending'[s] = call /\ \A u \in Senders \ {s} : sending'[u] = sending[u]
  BY <1>1, <1>3, <1>4
<1>6. s \notin InCall
  BY <1>4 DEF InCall
<1>7. InCall' = InCall \cup {s}
  <2>1. \A u : u \in InCall' <=> u \in Senders /\ sending'[u].phase # "idle"
    BY DEF InCall
  <2>2. \A u : u \in InCall <=> u \in Senders /\ sending[u].phase # "idle"
    BY DEF InCall
  <2>3. call.phase # "idle"
    BY <1>2
  <2> QED  BY <1>5, <2>1, <2>2, <2>3
<1>8. PICK numbers : numbers = {sending[u].number : u \in InCall}
  OBVIOUS
<1>9. numbers \in SUBSET Nat
  <2>1. \A u \in InCall : sending[u].number \in DOMAIN calls
    BY DEF InProgress
  <2> QED  BY <1>1, <1>8, <2>1
<1>10. PICK new : new = [fate |-> "pending", beside |-> numbers, cut |-> 0, logged |-> event,
                         scratch |-> scratch, envelope |-> <<>>]
  OBVIOUS
<1>11. new \in CallRecords
  BY <1>9, <1>10 DEF CallRecords
<1>12. PICK old : old = [n \in DOMAIN calls |-> Joined(n)]
  OBVIOUS
<1>13. ASSUME NEW n \in DOMAIN calls
       PROVE  /\ old[n] \in CallRecords
              /\ old[n].fate = calls[n].fate /\ old[n].cut = calls[n].cut
              /\ old[n].logged = calls[n].logged /\ old[n].scratch = calls[n].scratch
              /\ old[n].envelope = calls[n].envelope
              /\ old[n].beside = calls[n].beside \cup
                       (IF \E u \in InCall : sending[u].number = n THEN {k} ELSE {})
  <2>1. calls[n] \in CallRecords /\ old[n] = Joined(n) /\ k \in Nat
    BY <1>1, <1>2, <1>12
  <2>2. CASE \E u \in InCall : sending[u].number = n
    <3>1. old[n] = [calls[n] EXCEPT !.beside = @ \cup {k}]
      BY <1>2, <2>1, <2>2 DEF Joined
    <3> QED  BY <2>1, <2>2, <3>1 DEF CallRecords
  <2>3. CASE ~ \E u \in InCall : sending[u].number = n
    <3>1. old[n] = calls[n]
      BY <2>1, <2>3 DEF Joined
    <3> QED  BY <2>1, <2>3, <3>1
  <2> QED  BY <2>2, <2>3
<1>14. old \in Seq(CallRecords) /\ Len(old) = sequence
  <2>1. old \in [1..sequence -> CallRecords]
    BY <1>1, <1>12, <1>13
  <2> QED  BY <1>1, <2>1
<1>15. calls' = Append(old, new)
  <2>1. calls' = Append([n \in DOMAIN calls |->
                          IF \E u \in InCall : sending[u].number = n
                          THEN [calls[n] EXCEPT !.beside = @ \cup {sequence + 1}] ELSE calls[n]],
                        new)
    BY <1>8, <1>10 DEF Begin
  <2> QED  BY <1>12, <2>1 DEF Joined
<1>16. /\ calls' \in Seq(CallRecords) /\ Len(calls') = k /\ DOMAIN calls' = 1..k
       /\ calls'[k] = new /\ \A n \in DOMAIN calls : calls'[n] = old[n]
  BY <1>1, <1>2, <1>11, <1>14, <1>15
<1>17. TransportTypes'
  BY <1>1, <1>2, <1>4, <1>5, <1>16 DEF TransportTypes
<1>18. /\ sending'[s].phase = "dropped" /\ sending'[s].number = k
       /\ sending'[s].event = event /\ sending'[s].scratch = scratch
  BY <1>2, <1>5
<1>19. \A u \in InCall : sending'[u] = sending[u]
  BY <1>5, <1>6 DEF InCall
<1>20. \A n \in DOMAIN calls :
          /\ calls'[n].fate = calls[n].fate /\ calls'[n].cut = calls[n].cut
          /\ calls'[n].logged = calls[n].logged /\ calls'[n].scratch = calls[n].scratch
          /\ calls'[n].envelope = calls[n].envelope
          /\ calls'[n].beside = calls[n].beside \cup
                       (IF \E u \in InCall : sending[u].number = n THEN {k} ELSE {})
  BY <1>13, <1>16
<1>21. /\ calls'[k].fate = "pending" /\ calls'[k].cut = 0
       /\ calls'[k].logged = event /\ calls'[k].scratch = scratch
       /\ calls'[k].beside = {sending[u].number : u \in InCall}
  BY <1>8, <1>10, <1>16
<1> QED  BY <1>1, <1>2, <1>4, <1>6, <1>7, <1>16, <1>17, <1>18, <1>19, <1>20, <1>21

LEMMA BeginKeeps ==
    ASSUME TransportInv, NEW s \in Senders, NEW event \in Events, NEW buffer \in Buffers,
           NEW scratch \in Scratches, NEW emits \in BOOLEAN,
           Begin(s, event, buffer, scratch, emits)
    PROVE  TransportInv'
<1> USE DEF TransportInv
<1>1. /\ TransportTypes'
      /\ s \notin InCall /\ InCall' = InCall \cup {s}
      /\ \A u \in InCall : sending'[u] = sending[u]
      /\ sending'[s].phase = "dropped" /\ sending'[s].number = sequence + 1
      /\ sending'[s].event = event /\ sending'[s].scratch = scratch
      /\ dropped' = dropped /\ truncated' = truncated
  BY BeginFacts
<1>2. PICK k : k = sequence + 1
  OBVIOUS
<1>3. /\ DOMAIN calls = 1..sequence /\ sequence \in Nat /\ DOMAIN calls' = DOMAIN calls \cup {k}
      /\ k \notin DOMAIN calls /\ \A m \in DOMAIN calls : m < k /\ m \in Nat /\ m # k
  <2>1. DOMAIN calls = 1..sequence /\ DOMAIN calls' = 1..sequence + 1
    BY BeginFacts
  <2>2. sequence \in Nat
    BY DEF TransportTypes
  <2> QED  BY <1>2, <2>1, <2>2
<1>4. \A n \in DOMAIN calls :
         /\ calls'[n].fate = calls[n].fate /\ calls'[n].cut = calls[n].cut
         /\ calls'[n].logged = calls[n].logged /\ calls'[n].scratch = calls[n].scratch
         /\ calls'[n].envelope = calls[n].envelope
         /\ calls'[n].beside = calls[n].beside \cup
               (IF \E u \in InCall : sending[u].number = n THEN {k} ELSE {})
  BY <1>2, BeginFacts
<1>5. /\ calls'[k].fate = "pending" /\ calls'[k].cut = 0
      /\ calls'[k].logged = event /\ calls'[k].scratch = scratch
      /\ calls'[k].beside = {sending[u].number : u \in InCall}
  BY <1>2, BeginFacts
<1>6. \A u \in InCall : sending[u].number \in DOMAIN calls
  BY DEF InProgress
<1>7. \A n \in DOMAIN calls : \A m \in DOMAIN calls :
         m \in calls'[n].beside <=> m \in calls[n].beside
  BY <1>3, <1>4
<1>8. InProgress'
  <2>1. \A u \in InCall' : /\ sending'[u].number \in DOMAIN calls'
                           /\ calls'[sending'[u].number].fate = "pending"
                           /\ sending'[u].phase \in Loading =>
                                 calls'[sending'[u].number].cut = 0
    <3>1. ASSUME NEW u \in InCall
          PROVE  /\ sending'[u].number \in DOMAIN calls'
                 /\ calls'[sending'[u].number].fate = "pending"
                 /\ sending'[u].phase \in Loading => calls'[sending'[u].number].cut = 0
      <4>1. /\ calls[sending[u].number].fate = "pending"
            /\ sending[u].phase \in Loading => calls[sending[u].number].cut = 0
        BY DEF InProgress
      <4> QED  BY <1>1, <1>3, <1>4, <1>6, <4>1
    <3> QED  BY <1>1, <1>2, <1>3, <1>5, <3>1
  <2>2. \A u, w \in InCall' : sending'[u].number = sending'[w].number => u = w
    <3>1. \A u, w \in InCall : sending[u].number = sending[w].number => u = w
      BY DEF InProgress
    <3> QED  BY <1>1, <1>2, <1>3, <1>6, <3>1
  <2>3. \A n \in DOMAIN calls' : calls'[n].fate = "pending" =>
           \E u \in InCall' : sending'[u].number = n
    <3>1. ASSUME NEW n \in DOMAIN calls, calls'[n].fate = "pending"
          PROVE  \E u \in InCall' : sending'[u].number = n
      <4>1. PICK u \in InCall : sending[u].number = n
        BY <1>4, <3>1 DEF InProgress
      <4> QED  BY <1>1, <4>1
    <3>2. \E u \in InCall' : sending'[u].number = k
      BY <1>1, <1>2
    <3> QED  BY <1>3, <3>1, <3>2
  <2> QED  BY <2>1, <2>2, <2>3 DEF InProgress
<1>9. Overlaps'
  <2>1. \A n \in DOMAIN calls' : calls'[n].beside \subseteq DOMAIN calls' \ {n}
    <3>1. \A n \in DOMAIN calls : calls'[n].beside \subseteq DOMAIN calls' \ {n}
      BY <1>3, <1>4 DEF Overlaps
    <3> QED  BY <1>3, <1>5, <1>6, <3>1
  <2>2. \A n, m \in DOMAIN calls' : m < n /\ m \notin calls'[n].beside => calls'[m].fate # "pending"
    <3>1. ASSUME NEW n \in DOMAIN calls, NEW m \in DOMAIN calls, m < n, m \notin calls'[n].beside
          PROVE  calls'[m].fate # "pending"
      BY <1>4, <1>7, <3>1 DEF Overlaps
    <3>2. ASSUME NEW m \in DOMAIN calls, m \notin calls'[k].beside
          PROVE  calls'[m].fate # "pending"
      <4>1. ~ \E u \in InCall : sending[u].number = m
        BY <1>5, <3>2
      <4>2. calls[m].fate = "pending" => \E u \in InCall : sending[u].number = m
        BY DEF InProgress
      <4> QED  BY <1>4, <4>1, <4>2
    <3>3. \A n \in DOMAIN calls' : ~(k < n)
      BY <1>2, <1>3
    <3> QED  BY <1>3, <3>1, <3>2, <3>3
  <2>3. \A u \in InCall' : \A m \in DOMAIN calls' :
           m > sending'[u].number => m \in calls'[sending'[u].number].beside
    <3>1. ASSUME NEW u \in InCall, NEW m \in DOMAIN calls, m > sending[u].number
          PROVE  m \in calls'[sending[u].number].beside
      <4>1. m \in calls[sending[u].number].beside
        BY <3>1 DEF Overlaps
      <4> QED  BY <1>6, <1>7, <4>1
    <3>2. \A u \in InCall : k \in calls'[sending[u].number].beside
      BY <1>4, <1>6
    <3>3. \A m \in DOMAIN calls' : ~(m > sending'[s].number)
      BY <1>1, <1>2, <1>3
    <3> QED  BY <1>1, <1>3, <3>1, <3>2, <3>3
  <2> QED  BY <2>1, <2>2, <2>3 DEF Overlaps
<1>10. \A m \in DOMAIN calls : calls[m].cut \in Nat
  BY CallTypes
<1>11. Evolves
  <2>1. ASSUME NEW m \in DOMAIN calls
        PROVE  /\ m \in DOMAIN calls'
               /\ calls[m].fate # "pending" =>
                     calls'[m].fate = calls[m].fate /\ calls'[m].cut = calls[m].cut
               /\ calls[m].cut =< calls'[m].cut
               /\ calls[m].beside \subseteq calls'[m].beside
               /\ \A i \in 1..(m - 1) : i \in calls'[m].beside => i \in calls[m].beside
    <3>1. \A i \in 1..(m - 1) : i \in DOMAIN calls
      BY <1>3
    <3>2. calls[m].cut =< calls'[m].cut
      BY <1>4, <1>10
    <3> QED  BY <1>3, <1>4, <1>7, <3>1, <3>2
  <2> QED  BY <2>1 DEF Evolves
<1>12. Counts'
  <2>1. IsFiniteSet(DOMAIN calls)
    BY CallTypes
  <2>2. Lost(DOMAIN calls)' = Lost(DOMAIN calls)
    BY <1>3, <1>4, <1>5 DEF Lost
  <2>3. CutOf(calls', DOMAIN calls') = CutOf(calls, DOMAIN calls)
    <3>1. PICK D : D = DOMAIN calls \cup {k}
      OBVIOUS
    <3>2. IsFiniteSet(D)
      BY <2>1, <3>1, FS_AddElement
    <3>3. \A m \in D : calls'[m].cut \in Nat
      BY <1>4, <1>5, <1>10, <3>1
    <3>4. k \in D /\ D \ {k} = DOMAIN calls
      BY <1>3, <3>1
    <3>5. CutOf(calls', D) = calls'[k].cut + CutOf(calls', D \ {k})
      BY <3>2, <3>3, <3>4, CutOfOne
    <3>6. CutOf(calls, DOMAIN calls) = CutOf(calls', DOMAIN calls)
      <4>1. \A m \in DOMAIN calls : calls[m].cut \in Nat /\ calls[m].cut = calls'[m].cut
        BY <1>4, <1>10
      <4> QED  BY <2>1, <4>1, CutOfSame
    <3>7. CutOf(calls, DOMAIN calls) \in Nat
      BY <1>10, <2>1, CutOfType
    <3>8. CutOf(calls', D \ {k}) = CutOf(calls', DOMAIN calls)
      BY <3>4, Zenon
    <3>9. CutOf(calls', D) = CutOf(calls, DOMAIN calls)
      BY <1>5, <3>5, <3>6, <3>7, <3>8
    <3> QED  BY <1>3, <3>1, <3>9, Zenon
  <2>4. CutIn(DOMAIN calls) = CutOf(calls, DOMAIN calls)
    BY DEF CutIn, CutOf
  <2>5. CutIn(DOMAIN calls)' = CutOf(calls', DOMAIN calls')
    BY DEF CutIn, CutOf, MapThenSumSet, MapThenFoldSet
  <2>6. dropped = Cardinality(Lost(DOMAIN calls)) /\ truncated = CutIn(DOMAIN calls)
    BY DEF Counts
  <2>7. dropped' = Cardinality(Lost(DOMAIN calls)')
    BY <1>1, <2>2, <2>6
  <2>8. truncated' = CutOf(calls', DOMAIN calls')
    BY <1>1, <2>3, <2>4, <2>6
  <2> QED  BY <2>5, <2>7, <2>8 DEF Counts
<1>13. ASSUME NEW m \in DOMAIN calls
       PROVE  /\ \A count \in Nat : Covers(m, count) => Covers(m, count)'
              /\ \A count \in Nat : CoversCut(m, count) => CoversCut(m, count)'
  BY <1>1, <1>9, <1>11, CoversKept
<1>14. Loaded'
  <2>1. ASSUME NEW u \in InCall
        PROVE  /\ sending[u].number \in DOMAIN calls /\ sending'[u] = sending[u]
               /\ sending[u].dropped \in Nat /\ sending[u].truncated \in Nat
               /\ sending[u].phase # "dropped" => Covers(sending[u].number, sending[u].dropped)
               /\ sending[u].phase \notin {"dropped", "truncated"} =>
                     CoversCut(sending[u].number, sending[u].truncated)
    <3>1. sending[u] \in Sending
      BY InCallTypes
    <3> QED  BY <1>1, <1>6, <3>1 DEF Loaded, Sending
  <2> QED  BY <1>1, <1>13, <2>1 DEF Loaded
<1>15. Told'
  <2>1. ASSUME NEW m \in DOMAIN calls, calls[m].fate = "read"
        PROVE  /\ Covers(m, calls[m].envelope[1].dropped)
               /\ CoversCut(m, calls[m].envelope[1].truncated)
               /\ calls[m].envelope[1].dropped \in Nat /\ calls[m].envelope[1].truncated \in Nat
    <3>1. PICK call \in Sending : calls[m].envelope = <<Envelope(call)>>
      BY <2>1 DEF Carried
    <3>2. /\ Envelope(call).dropped = call.dropped /\ call.dropped \in Nat
          /\ Envelope(call).truncated = call.truncated /\ call.truncated \in Nat
      BY DEF Sending, Envelope
    <3>3. calls[m].envelope[1] = Envelope(call)
      BY <3>1
    <3> QED  BY <2>1, <3>2, <3>3 DEF Told
  <2> QED  BY <1>3, <1>4, <1>5, <1>13, <2>1 DEF Told
<1>16. Carried'
  <2>1. \A u \in InCall' : /\ sending'[u].event = calls'[sending'[u].number].logged
                           /\ sending'[u].scratch = calls'[sending'[u].number].scratch
    <3>1. \A u \in InCall : /\ sending[u].event = calls[sending[u].number].logged
                            /\ sending[u].scratch = calls[sending[u].number].scratch
      BY DEF Carried
    <3> QED  BY <1>1, <1>2, <1>4, <1>5, <1>6, <3>1
  <2>2. ASSUME NEW m \in DOMAIN calls', calls'[m].fate = "read"
        PROVE  \E call \in Sending :
                  /\ calls'[m].envelope = <<Envelope(call)>>
                  /\ call.event = calls'[m].logged /\ call.scratch = calls'[m].scratch
    <3>1. m \in DOMAIN calls
      BY <1>3, <1>5, <2>2
    <3> QED  BY <1>4, <2>2, <3>1 DEF Carried
  <2>3. Sending' = Sending
    BY DEF Sending
  <2> QED  BY <2>1, <2>2, <2>3 DEF Carried
<1> QED  BY <1>1, <1>8, <1>9, <1>12, <1>14, <1>15, <1>16

-----------------------------------------------------------------------------
(* The reader is told *)

LEMMA TransportStarts == TransportInit => TransportInv
<1> SUFFICES ASSUME TransportInit PROVE TransportInv
  OBVIOUS
<1>1. /\ sequence = 0 /\ dropped = 0 /\ truncated = 0
      /\ sending = [s \in Senders |-> Idle] /\ calls = <<>>
  BY DEF TransportInit
<1>2. /\ DOMAIN calls = {} /\ Len(calls) = 0 /\ calls \in Seq(CallRecords)
      /\ 1..0 = {}
  BY <1>1
<1>3. InCall = {}
  BY <1>1 DEF InCall, Idle
<1>4. TransportTypes
  BY <1>1, <1>2 DEF TransportTypes
<1>5. InProgress /\ Overlaps /\ Loaded /\ Told /\ Carried
  BY <1>2, <1>3 DEF InProgress, Overlaps, Loaded, Told, Carried
<1>6. Counts
  <2>1. Lost({}) = {} /\ IsFiniteSet({}) /\ Cardinality({}) = 0
    BY FS_EmptySet DEF Lost
  <2>2. CutOf(calls, {}) = 0
    <3>1. PICK f : Adds(f, Cuts(calls, {}), {}) /\ CutOf(calls, {}) = f[{}]
      <4>1. \A n \in {} : calls[n].cut \in Nat
        OBVIOUS
      <4> QED  BY <2>1, <4>1, CutIsASum
    <3> QED  BY <3>1 DEF Adds
  <2>3. CutIn({}) = CutOf(calls, {})
    BY DEF CutIn, CutOf
  <2> QED  BY <1>1, <1>2, <2>1, <2>2, <2>3 DEF Counts
<1> QED  BY <1>4, <1>5, <1>6 DEF TransportInv

LEMMA TransportStays ==
    ASSUME TransportInv, UNCHANGED transportVars
    PROVE  TransportInv'
<1> USE DEF TransportInv
<1>1. /\ sequence' = sequence /\ dropped' = dropped /\ truncated' = truncated
      /\ sending' = sending /\ calls' = calls
  BY DEF transportVars
<1>2. /\ TransportTypes' = TransportTypes /\ InCall' = InCall
  BY <1>1 DEF TransportTypes, InCall
<1>3. InProgress' /\ Overlaps' /\ Carried'
  BY <1>1, <1>2 DEF TransportInv, InProgress, Overlaps, Carried, Sending
<1>4. Evolves
  <2>1. \A m \in DOMAIN calls : calls[m].cut \in Nat
    BY CallTypes
  <2> QED  BY <1>1, <2>1 DEF Evolves
<1>5. ASSUME NEW m \in DOMAIN calls
      PROVE  /\ \A count \in Nat : Covers(m, count) => Covers(m, count)'
             /\ \A count \in Nat : CoversCut(m, count) => CoversCut(m, count)'
  BY <1>2, <1>3, <1>4, CoversKept
<1>6. Counts'
  <2>1. Lost(DOMAIN calls)' = Lost(DOMAIN calls)
    BY <1>1 DEF Lost
  <2>2. CutIn(DOMAIN calls) = CutOf(calls, DOMAIN calls)
    BY DEF CutIn, CutOf
  <2>3. CutIn(DOMAIN calls)' = CutOf(calls', DOMAIN calls')
    BY DEF CutIn, CutOf, MapThenSumSet, MapThenFoldSet
  <2>4. CutOf(calls', DOMAIN calls') = CutOf(calls, DOMAIN calls)
    BY <1>1, Zenon
  <2>5. dropped = Cardinality(Lost(DOMAIN calls)) /\ truncated = CutIn(DOMAIN calls)
    BY DEF Counts
  <2>6. dropped' = Cardinality(Lost(DOMAIN calls)')
    BY <1>1, <2>1, <2>5
  <2>7. truncated' = CutOf(calls', DOMAIN calls')
    BY <1>1, <2>2, <2>4, <2>5
  <2> QED  BY <2>3, <2>6, <2>7 DEF Counts
<1>7. Loaded'
  <2>1. ASSUME NEW u \in InCall
        PROVE  /\ sending[u].number \in DOMAIN calls
               /\ sending[u].dropped \in Nat /\ sending[u].truncated \in Nat
    <3>1. sending[u] \in Sending
      BY InCallTypes
    <3> QED  BY <3>1 DEF InProgress, Sending
  <2> QED  BY <1>1, <1>2, <1>5, <2>1 DEF Loaded
<1>8. Told'
  <2>1. ASSUME NEW m \in DOMAIN calls, calls[m].fate = "read"
        PROVE  /\ calls[m].envelope[1].dropped \in Nat /\ calls[m].envelope[1].truncated \in Nat
    <3>1. PICK call \in Sending : calls[m].envelope = <<Envelope(call)>>
      BY <2>1 DEF Carried
    <3>2. /\ Envelope(call).dropped = call.dropped /\ call.dropped \in Nat
          /\ Envelope(call).truncated = call.truncated /\ call.truncated \in Nat
      BY DEF Sending, Envelope
    <3>3. calls[m].envelope[1] = Envelope(call)
      BY <3>1
    <3> QED  BY <3>2, <3>3
  <2> QED  BY <1>1, <1>5, <2>1 DEF Told
<1> QED  BY <1>2, <1>3, <1>6, <1>7, <1>8

LEMMA TransportKeeps == TransportInv /\ [TransportNext]_transportVars => TransportInv'
<1> SUFFICES ASSUME TransportInv, [TransportNext]_transportVars PROVE TransportInv'
  OBVIOUS
<1>1. CASE UNCHANGED transportVars
  BY <1>1, TransportStays
<1>2. ASSUME NEW s \in Senders, Send(s)
      PROVE  TransportInv'
  <2>1. CASE \E event \in Events, buffer \in Buffers, scratch \in Scratches, emits \in BOOLEAN :
               Begin(s, event, buffer, scratch, emits)
    BY <2>1, BeginKeeps
  <2>2. CASE LoadDropped(s)
    BY <2>2, LoadDroppedKeeps
  <2>3. CASE LoadTruncated(s)
    BY <2>3, LoadTruncatedKeeps
  <2>4. CASE EncodeOk(s)
    BY <2>4, EncodeOkKeeps
  <2>5. CASE EncodeFails(s)
    BY <2>5, EncodeFailsKeeps
  <2>6. CASE HostAccepts(s)
    BY <2>6, HostAcceptsKeeps
  <2>7. CASE HostRefuses(s)
    BY <2>7, HostRefusesKeeps
  <2>8. CASE CountRefused(s)
    BY <2>8, CountRefusedKeeps
  <2> QED  BY <1>2, <2>1, <2>2, <2>3, <2>4, <2>5, <2>6, <2>7, <2>8 DEF Send
<1> QED  BY <1>1, <1>2 DEF TransportNext

\* The counters an envelope carries account for every call lost and every value
\* cut before it, exceeding them by no more than what calls overlapping it lost
\* or cut.
THEOREM ReaderIsTold == TransportSpec => []ReaderReconstructs
<1>1. TransportInv => ReaderReconstructs
  BY DEF TransportInv, Told, Covers, CoversCut, Before, ReaderReconstructs
<1> QED  BY <1>1, TransportStarts, TransportKeeps, PTL DEF TransportSpec

-----------------------------------------------------------------------------
(* The bytes of a text *)

WidthOf(text, D) == FoldFunctionOnSet(LAMBDA width, n : width + n, 0, text, D)

LEMMA WidthIsASum ==
    ASSUME NEW D, IsFiniteSet(D), NEW text, \A n \in D : text[n] \in Nat
    PROVE  \E f : Adds(f, text, D) /\ WidthOf(text, D) = f[D]
<1> DEFINE body(f) == [S \in SUBSET D |-> IF S = {} THEN 0 ELSE text[Pick(S)] + f[S \ {Pick(S)}]]
           F == CHOOSE f : f = body(f)
<1>1. PICK f : Adds(f, text, D)
  BY SumExists
<1>2. f = body(f)
  <2>1. Folds(f, text, D)
    BY <1>1, FoldExists
  <2>2. \A S \in SUBSET D : f[S] = IF S = {} THEN 0 ELSE text[Pick(S)] + f[S \ {Pick(S)}]
    BY <2>1 DEF Folds
  <2>3. f \in [SUBSET D -> Nat]
    BY <1>1 DEF Adds
  <2> QED  BY <2>2, <2>3
<1>3. F = body(F)
  <2> HIDE DEF body
  <2> QED  BY <1>2
<1>4. WidthOf(text, D) = F[D]
  BY DEF WidthOf, FoldFunctionOnSet, MapThenFoldSet, Pick
<1> HIDE DEF F
<1>5. \A S \in SUBSET D : F[S] = IF S = {} THEN 0 ELSE text[Pick(S)] + F[S \ {Pick(S)}]
  <2>1. \A S \in SUBSET D : body(F)[S] = IF S = {} THEN 0 ELSE text[Pick(S)] + F[S \ {Pick(S)}]
    OBVIOUS
  <2> HIDE DEF body
  <2> QED  BY <1>3, <2>1
<1>6. F[D] = f[D]
  <2>1. Folds(F, text, D)
    BY <1>5 DEF Folds
  <2> QED  BY <1>1, <2>1, FoldIsASum
<1> QED  BY <1>1, <1>4, <1>6

LEMMA BytesIsASum ==
    ASSUME NEW text \in Seq(Nat)
    PROVE  \E f : Adds(f, text, DOMAIN text) /\ Bytes(text) = f[DOMAIN text]
<1>1. DOMAIN text = 1..Len(text) /\ Len(text) \in Nat /\ \A n \in DOMAIN text : text[n] \in Nat
  OBVIOUS
<1>2. IsFiniteSet(DOMAIN text)
  BY <1>1, FS_Interval
<1>3. Bytes(text) = WidthOf(text, DOMAIN text)
  BY DEF Bytes, WidthOf, FoldSeq, FoldFunction
<1> QED  BY <1>1, <1>2, <1>3, WidthIsASum

First(text, k) == SubSeq(text, 1, k)

LEMMA FirstTypes ==
    ASSUME NEW text \in Seq(Nat)
    PROVE  /\ Len(text) \in Nat /\ First(text, Len(text)) = text /\ First(text, 0) = <<>>
           /\ \A k \in 0..Len(text) :
                 /\ First(text, k) \in Seq(Nat) /\ Len(First(text, k)) = k
                 /\ \A i \in 1..k : First(text, k)[i] = text[i]
<1>1. \A k \in 0..Len(text) :
         /\ First(text, k) \in Seq(Nat) /\ Len(First(text, k)) = k
         /\ \A i \in 1..k : First(text, k)[i] = text[i]
  BY DEF First
<1>2. Len(text) \in Nat
  OBVIOUS
<1>3. 0 \in 0..Len(text) /\ Len(text) \in 0..Len(text)
  BY <1>2
<1>4. First(text, 0) = <<>>
  BY <1>1, <1>3
<1>5. First(text, Len(text)) = text
  <2>1. PICK t : t = First(text, Len(text))
    OBVIOUS
  <2>2. t \in Seq(Nat) /\ Len(t) = Len(text) /\ \A i \in 1..Len(text) : t[i] = text[i]
    BY <1>1, <1>3, <2>1
  <2>3. t = text
    BY <2>2, SeqEqual
  <2> QED  BY <2>1, <2>3
<1> QED  BY <1>1, <1>2, <1>4, <1>5

\* Each character adds its width.
LEMMA BytesStep ==
    ASSUME NEW text \in Seq(Nat)
    PROVE  /\ Bytes(<<>>) = 0
           /\ \A k \in 0..Len(text) : Bytes(First(text, k)) \in Nat
           /\ \A k \in 1..Len(text) : Bytes(First(text, k)) = Bytes(First(text, k - 1)) + text[k]
<1>1. ASSUME NEW t \in Seq(Nat)
      PROVE  Bytes(t) \in Nat /\ (t = <<>> => Bytes(t) = 0)
  <2>1. PICK f : Adds(f, t, DOMAIN t) /\ Bytes(t) = f[DOMAIN t]
    BY BytesIsASum
  <2>2. DOMAIN t \in SUBSET (DOMAIN t) /\ (t = <<>> => DOMAIN t = {})
    OBVIOUS
  <2> QED  BY <2>1, <2>2 DEF Adds
<1>2. \A k \in 0..Len(text) : Bytes(First(text, k)) \in Nat
  BY <1>1, FirstTypes
<1>3. ASSUME NEW k \in 1..Len(text)
      PROVE  Bytes(First(text, k)) = Bytes(First(text, k - 1)) + text[k]
  <2>1. PICK a, b : a = First(text, k) /\ b = First(text, k - 1)
    OBVIOUS
  <2>2. /\ a \in Seq(Nat) /\ Len(a) = k /\ (\A i \in 1..k : a[i] = text[i])
        /\ b \in Seq(Nat) /\ Len(b) = k - 1 /\ (\A i \in 1..k - 1 : b[i] = text[i])
        /\ DOMAIN a = 1..k /\ DOMAIN b = 1..k - 1
    <3>1. k \in 0..Len(text) /\ k - 1 \in 0..Len(text)
      OBVIOUS
    <3>2. /\ a \in Seq(Nat) /\ Len(a) = k /\ (\A i \in 1..k : a[i] = text[i])
          /\ b \in Seq(Nat) /\ Len(b) = k - 1 /\ (\A i \in 1..k - 1 : b[i] = text[i])
      BY <2>1, <3>1, FirstTypes
    <3> QED  BY <3>2
  <2>3. PICK f : Adds(f, a, 1..k) /\ Bytes(a) = f[1..k]
    <3>1. \E f : Adds(f, a, DOMAIN a) /\ Bytes(a) = f[DOMAIN a]
      BY <2>2, BytesIsASum
    <3> QED  BY <2>2, <3>1
  <2>4. PICK h : Adds(h, b, 1..k - 1) /\ Bytes(b) = h[1..k - 1]
    <3>1. \E g : Adds(g, b, DOMAIN b) /\ Bytes(b) = g[DOMAIN b]
      BY <2>2, BytesIsASum
    <3> QED  BY <2>2, <3>1
  <2>5. /\ 1..k - 1 \subseteq 1..k /\ (1..k) \ {k} = 1..k - 1 /\ k \in 1..k
        /\ 1..k \in SUBSET (1..k) /\ 1..k - 1 \in SUBSET (1..k - 1)
        /\ IsFiniteSet(1..k - 1)
    <3>1. k \in Nat /\ k - 1 \in Nat
      OBVIOUS
    <3>2. IsFiniteSet(1..k - 1)
      BY <3>1, FS_Interval
    <3> QED  BY <3>1, <3>2
  <2>6. f[1..k] = a[k] + f[1..k - 1]
    <3>1. PICK K : K = 1..k
      OBVIOUS
    <3>2. f[K] = a[k] + f[K \ {k}]
      BY <2>3, <2>5, <3>1 DEF Adds
    <3> QED  BY <2>5, <3>1, <3>2
  <2>7. PICK e : e = [U \in SUBSET (1..k - 1) |-> f[U]]
    OBVIOUS
  <2>8. Adds(e, b, 1..k - 1)
    <3>1. \A n \in 1..k - 1 : a[n] = b[n]
      BY <2>2, <2>5
    <3>2. \A U \in SUBSET (1..k - 1) : U \in SUBSET (1..k) /\ e[U] = f[U]
      BY <2>5, <2>7
    <3>3. e \in [SUBSET (1..k - 1) -> Nat]
      BY <2>3, <2>7, <3>2 DEF Adds
    <3>4. e[{}] = 0
      BY <2>3, <3>2 DEF Adds
    <3>5. ASSUME NEW U \in SUBSET (1..k - 1), NEW x \in U
          PROVE  e[U] = b[x] + e[U \ {x}]
      <4>1. f[U] = a[x] + f[U \ {x}]
        BY <2>3, <3>2 DEF Adds
      <4> QED  BY <3>1, <3>2, <4>1
    <3> QED  BY <3>3, <3>4, <3>5 DEF Adds
  <2>9. e[1..k - 1] = h[1..k - 1]
    <3>2. PICK K : K = 1..k - 1
      OBVIOUS
    <3>7. Adds(e, b, K) /\ Adds(h, b, K) /\ IsFiniteSet(K) /\ K \subseteq K
      BY <2>4, <2>5, <2>8, <3>2
    <3>1. \A n \in K : b[n] \in Nat /\ b[n] =< b[n]
      <4>1. \A n \in DOMAIN b : b[n] \in Nat
        <5>1. b \in Seq(Nat)
          BY <2>2
        <5> QED  BY <5>1
      <4>2. DOMAIN b = K
        BY <2>2, <3>2
      <4> QED  BY <4>1, <4>2
    <3>4. \A S \in SUBSET K : e[S] =< h[S]
      BY <3>1, <3>7, SumAtMost
    <3>5. \A S \in SUBSET K : h[S] =< e[S]
      BY <3>1, <3>7, SumAtMost
    <3>6. e[1..k - 1] =< h[1..k - 1] /\ h[1..k - 1] =< e[1..k - 1]
      BY <3>2, <3>4, <3>5
    <3>3. e[1..k - 1] \in Nat /\ h[1..k - 1] \in Nat
      BY <2>4, <2>5, <2>8 DEF Adds
    <3> QED  BY <3>3, <3>6
  <2>10. e[1..k - 1] = f[1..k - 1] /\ h[1..k - 1] \in Nat
    BY <2>4, <2>5, <2>7 DEF Adds
  <2>11. a[k] = text[k] /\ text[k] \in Nat
    BY <2>2, <2>5
  <2> QED  BY <2>1, <2>3, <2>4, <2>6, <2>9, <2>10, <2>11
<1>4. Bytes(<<>>) = 0
  <2>1. <<>> \in Seq(Nat)
    OBVIOUS
  <2> QED  BY <1>1, <2>1
<1> QED  BY <1>2, <1>3, <1>4

LEMMA BytesGrow ==
    ASSUME NEW text \in Seq(Nat), NEW i \in 0..Len(text), NEW j \in 0..Len(text), i =< j
    PROVE  Bytes(First(text, i)) =< Bytes(First(text, j))
<1> DEFINE T == {n \in Nat : i + n =< Len(text) =>
                                Bytes(First(text, i)) =< Bytes(First(text, i + n))}
<1>1. \A k \in 0..Len(text) : Bytes(First(text, k)) \in Nat
  BY BytesStep
<1>2. 0 \in T
  <2>1. i + 0 = i /\ Bytes(First(text, i)) \in Nat
    BY <1>1
  <2> QED  BY <2>1
<1>3. ASSUME NEW n \in Nat, n \in T, i + (n + 1) =< Len(text)
      PROVE  Bytes(First(text, i)) =< Bytes(First(text, i + (n + 1)))
  <2>1. PICK k : k = i + (n + 1)
    OBVIOUS
  <2>2. /\ k \in 1..Len(text) /\ k - 1 = i + n /\ k - 1 \in 0..Len(text) /\ i + n =< Len(text)
        /\ text[k] \in Nat
    BY <1>3, <2>1
  <2>3. Bytes(First(text, k)) = Bytes(First(text, k - 1)) + text[k]
    BY <2>2, BytesStep
  <2>4. Bytes(First(text, i)) =< Bytes(First(text, k - 1))
    BY <1>3, <2>2
  <2>5. Bytes(First(text, k - 1)) \in Nat /\ Bytes(First(text, i)) \in Nat
    BY <1>1, <2>2
  <2> QED  BY SMTT(30), <2>1, <2>2, <2>3, <2>4, <2>5
<1>4. \A n \in Nat : n \in T => n + 1 \in T
  BY <1>3
<1>5. Nat \subseteq T
  <2> HIDE DEF T
  <2> QED  BY <1>2, <1>4, SetInduction
<1>6. j - i \in Nat /\ i + (j - i) = j /\ j =< Len(text)
  OBVIOUS
<1>7. j - i \in T
  <2> HIDE DEF T
  <2> QED  BY <1>5, <1>6
<1> QED  BY <1>6, <1>7

\* The first m characters are the longest beginning within a limit.
Longest(text, limit, m) ==
    /\ m \in 0..Len(text) /\ Bytes(First(text, m)) =< limit
    /\ m < Len(text) => Bytes(First(text, m)) + text[m + 1] > limit

\* A cut is the longest beginning within its limit.
LEMMA CutIsLongest ==
    ASSUME NEW text \in Seq(Nat), NEW limit \in Nat
    PROVE  \E m \in 0..Len(text) : Cut(text, limit) = First(text, m) /\ Longest(text, limit, m)
<1> DEFINE N == Len(text)
           K == {k \in DOMAIN text : Bytes(SubSeq(text, 1, k)) =< limit}
           T == {n \in Nat : n =< N => Bytes(First(text, n)) =< limit}
<1>1. N \in Nat /\ DOMAIN text = 1..N
  OBVIOUS
<1>2. 0 \in T
  <2>1. Bytes(First(text, 0)) = 0
    BY BytesStep, FirstTypes
  <2> QED  BY <2>1
<1>3. \E m \in 0..N : /\ \A k \in 0..m : Bytes(First(text, k)) =< limit
                      /\ m < N => ~(Bytes(First(text, m + 1)) =< limit)
  <2>1. CASE Nat \subseteq T
    <3>1. \A k \in 0..N : Bytes(First(text, k)) =< limit
      BY <1>1, <2>1
    <3>2. N \in 0..N /\ ~(N < N)
      BY <1>1
    <3> QED  BY <3>1, <3>2
  <2>2. CASE ~(Nat \subseteq T)
    <3>1. PICK n \in Nat : n \in T /\ n + 1 \notin T
      <4> HIDE DEF T
      <4> QED  BY <1>2, <2>2, SetInduction
    <3>2. n + 1 =< N /\ ~(Bytes(First(text, n + 1)) =< limit)
      BY <3>1
    <3>3. n \in 0..N /\ Bytes(First(text, n)) =< limit
      BY <1>1, <3>1, <3>2
    <3>4. ASSUME NEW k \in 0..n
          PROVE  Bytes(First(text, k)) =< limit
      <4>1. k \in 0..Len(text) /\ n \in 0..Len(text) /\ k =< n
        BY <3>3
      <4>2. Bytes(First(text, k)) =< Bytes(First(text, n))
        BY <4>1, BytesGrow
      <4>3. Bytes(First(text, k)) \in Nat /\ Bytes(First(text, n)) \in Nat
        BY <4>1, BytesStep
      <4> QED  BY <3>3, <4>2, <4>3
    <3> QED  BY <3>2, <3>3, <3>4
  <2> QED  BY <2>1, <2>2
<1>4. PICK m \in 0..N : /\ \A k \in 0..m : Bytes(First(text, k)) =< limit
                        /\ m < N => ~(Bytes(First(text, m + 1)) =< limit)
  BY <1>3
<1>5. K = 1..m
  <2>1. \A k \in 1..m : k \in 0..m /\ k \in DOMAIN text
    BY <1>1
  <2>2. ASSUME NEW k \in K, k \notin 1..m
        PROVE  FALSE
    <3>1. /\ k \in 1..N /\ m < k /\ m + 1 =< k /\ m < N
          /\ m + 1 \in 0..Len(text) /\ k \in 0..Len(text)
      BY <1>1, <2>2
    <3>2. Bytes(First(text, m + 1)) =< Bytes(First(text, k))
      BY <3>1, BytesGrow
    <3>3. Bytes(First(text, m + 1)) \in Nat /\ Bytes(First(text, k)) \in Nat
      BY <3>1, BytesStep
    <3>4. Bytes(First(text, k)) =< limit
      BY <2>2 DEF First
    <3> QED  BY <1>4, <3>1, <3>2, <3>3, <3>4
  <2>3. \A k \in 1..m : k \in K
    BY <1>4, <2>1 DEF First
  <2> QED  BY <2>2, <2>3
<1>6. Cardinality(K) = m
  <2>1. Cardinality(1..m) = m
    BY <1>1, FS_Interval
  <2> QED  BY <1>5, <2>1
<1>7. Cut(text, limit) = First(text, m)
  BY <1>6 DEF Cut, First
<1>8. Longest(text, limit, m)
  <2>1. ASSUME m < N
        PROVE  Bytes(First(text, m)) + text[m + 1] > limit
    <3>1. m + 1 \in 1..Len(text) /\ (m + 1) - 1 = m /\ m + 1 \in 0..Len(text) /\ m \in 0..Len(text)
      BY <1>1, <2>1
    <3>2. Bytes(First(text, m + 1)) = Bytes(First(text, m)) + text[m + 1]
      BY <3>1, BytesStep
    <3>3. Bytes(First(text, m + 1)) \in Nat
      BY <3>1, BytesStep
    <3> QED  BY <1>4, <2>1, <3>2, <3>3
  <2>2. m \in 0..m
    BY <1>1
  <2> QED  BY <1>4, <2>1, <2>2 DEF Longest
<1> QED  BY <1>7, <1>8

\* One text after another.
LEMMA BytesOfBoth ==
    ASSUME NEW a \in Seq(Nat), NEW b \in Seq(Nat)
    PROVE  /\ a \o b \in Seq(Nat) /\ Len(a \o b) = Len(a) + Len(b)
           /\ \A k \in 0..Len(a) : First(a \o b, k) = First(a, k)
           /\ \A k \in 0..Len(b) :
                 /\ First(a \o b, Len(a) + k) = a \o First(b, k)
                 /\ Bytes(First(a \o b, Len(a) + k)) = Bytes(a) + Bytes(First(b, k))
<1>1. PICK t : t = a \o b
  OBVIOUS
<1>2. /\ t \in Seq(Nat) /\ Len(t) = Len(a) + Len(b) /\ Len(a) \in Nat /\ Len(b) \in Nat
      /\ \A i \in 1..Len(a) : t[i] = a[i]
      /\ \A i \in 1..Len(b) : t[Len(a) + i] = b[i]
  BY <1>1
<1>3. ASSUME NEW k \in 0..Len(a)
      PROVE  First(t, k) = First(a, k)
  <2>1. PICK p, q : p = First(t, k) /\ q = First(a, k)
    OBVIOUS
  <2>2. k \in 0..Len(t) /\ \A i \in 1..k : i \in 1..Len(a)
    BY <1>2
  <2>3. p \in Seq(Nat) /\ Len(p) = k /\ \A i \in 1..k : p[i] = t[i]
    BY <1>2, <2>1, <2>2, FirstTypes
  <2>4. q \in Seq(Nat) /\ Len(q) = k /\ \A i \in 1..k : q[i] = a[i]
    BY <2>1, FirstTypes
  <2>5. \A i \in 1..Len(p) : p[i] = q[i]
    BY <1>2, <2>2, <2>3, <2>4
  <2>6. p = q
    BY <2>3, <2>4, <2>5, SeqEqual
  <2> QED  BY <2>1, <2>6
<1>4. ASSUME NEW k \in 0..Len(b)
      PROVE  First(t, Len(a) + k) = a \o First(b, k)
  <2>1. PICK p, q : p = First(t, Len(a) + k) /\ q = First(b, k)
    OBVIOUS
  <2>2. Len(a) + k \in 0..Len(t)
    BY <1>2
  <2>3. p \in Seq(Nat) /\ Len(p) = Len(a) + k /\ \A i \in 1..Len(a) + k : p[i] = t[i]
    BY <1>2, <2>1, <2>2, FirstTypes
  <2>4. q \in Seq(Nat) /\ Len(q) = k /\ \A i \in 1..k : q[i] = b[i]
    BY <2>1, FirstTypes
  <2>5. PICK r : r = a \o q
    OBVIOUS
  <2>6. /\ r \in Seq(Nat) /\ Len(r) = Len(a) + k
        /\ \A i \in 1..Len(a) : r[i] = a[i]
        /\ \A i \in 1..k : r[Len(a) + i] = q[i]
    <3>1. q \in Seq(Nat)
      BY <2>4
    <3>2. /\ r \in Seq(Nat) /\ Len(r) = Len(a) + Len(q)
          /\ \A i \in 1..Len(a) : r[i] = a[i]
          /\ \A i \in 1..Len(q) : r[Len(a) + i] = q[i]
      BY <2>5, <3>1
    <3> QED  BY <2>4, <3>2
  <2>7. ASSUME NEW i \in 1..Len(a) + k
        PROVE  p[i] = r[i]
    <3>1. CASE i \in 1..Len(a)
      BY <1>2, <2>3, <2>6, <3>1
    <3>2. CASE i \notin 1..Len(a)
      <4>1. i - Len(a) \in 1..k /\ i - Len(a) \in 1..Len(b) /\ Len(a) + (i - Len(a)) = i
        BY <1>2, <3>2
      <4>2. t[i] = b[i - Len(a)] /\ r[i] = q[i - Len(a)] /\ q[i - Len(a)] = b[i - Len(a)]
        BY <1>2, <2>4, <2>6, <4>1
      <4> QED  BY <2>3, <4>2
    <3> QED  BY <3>1, <3>2
  <2>8. p = r
    BY <2>3, <2>6, <2>7, SeqEqual
  <2> QED  BY <2>1, <2>5, <2>8
<1> DEFINE T == {k \in Nat : k =< Len(b) =>
                    Bytes(First(t, Len(a) + k)) = Bytes(a) + Bytes(First(b, k))}
<1>5. Bytes(a) \in Nat /\ \A k \in 0..Len(b) : Bytes(First(b, k)) \in Nat
  <2>1. Len(a) \in 0..Len(a) /\ First(a, Len(a)) = a
    BY <1>2, FirstTypes
  <2> QED  BY <2>1, BytesStep
<1>6. 0 \in T
  <2>1. First(t, Len(a) + 0) = First(a, Len(a)) /\ First(a, Len(a)) = a /\ First(b, 0) = <<>>
    <3>1. Len(a) \in 0..Len(a) /\ Len(a) + 0 = Len(a)
      BY <1>2
    <3> QED  BY <1>3, <3>1, FirstTypes
  <2>2. Bytes(<<>>) = 0
    BY BytesStep
  <2> QED  BY <1>5, <2>1, <2>2
<1>7. ASSUME NEW k \in Nat, k \in T, k + 1 =< Len(b)
      PROVE  Bytes(First(t, Len(a) + (k + 1))) = Bytes(a) + Bytes(First(b, k + 1))
  <2>1. PICK i : i = Len(a) + (k + 1)
    OBVIOUS
  <2>2. /\ i \in 1..Len(t) /\ i - 1 = Len(a) + k /\ k + 1 \in 1..Len(b) /\ (k + 1) - 1 = k
        /\ k =< Len(b) /\ k \in 0..Len(b)
    BY <1>2, <1>7, <2>1
  <2>3. Bytes(First(t, i)) = Bytes(First(t, i - 1)) + t[i]
    BY <1>2, <2>2, BytesStep
  <2>4. Bytes(First(b, k + 1)) = Bytes(First(b, k)) + b[k + 1]
    <3>1. Bytes(First(b, k + 1)) = Bytes(First(b, (k + 1) - 1)) + b[k + 1]
      BY <2>2, BytesStep
    <3> QED  BY <2>2, <3>1
  <2>5. Bytes(First(t, Len(a) + k)) = Bytes(a) + Bytes(First(b, k))
    BY <1>7, <2>2
  <2>6. t[i] = b[k + 1] /\ b[k + 1] \in Nat
    <3>1. PICK j : j = k + 1
      OBVIOUS
    <3>2. j \in 1..Len(b) /\ i = Len(a) + j
      BY <2>1, <2>2, <3>1
    <3>3. b[j] \in Nat
      BY <3>2
    <3>4. t[Len(a) + j] = b[j]
      BY <1>2, <3>2
    <3> QED  BY <3>1, <3>2, <3>3, <3>4
  <2>7. Bytes(First(b, k)) \in Nat
    BY <1>5, <2>2
  <2>8. Bytes(First(t, i - 1)) = Bytes(a) + Bytes(First(b, k))
    BY <2>2, <2>5
  <2> QED  BY <1>5, <2>1, <2>3, <2>4, <2>6, <2>7, <2>8
<1>8. \A k \in Nat : k \in T => k + 1 \in T
  BY <1>7
<1>9. Nat \subseteq T
  <2> HIDE DEF T
  <2> QED  BY <1>6, <1>8, SetInduction
<1>10. \A k \in 0..Len(b) : Bytes(First(t, Len(a) + k)) = Bytes(a) + Bytes(First(b, k))
  <2>1. \A k \in 0..Len(b) : k \in Nat /\ k =< Len(b)
    BY <1>2
  <2> QED  BY <1>9, <2>1
<1> QED  BY <1>1, <1>2, <1>3, <1>4, <1>10

-----------------------------------------------------------------------------
(* A text in pieces *)

\* F[n] is the text of the first n pieces.
Joins(F, pieces) ==
    /\ F \in [0..Len(pieces) -> Texts] /\ F[0] = <<>>
    /\ \A n \in 1..Len(pieces) : F[n] = F[n - 1] \o pieces[n]

LEMMA FlattenJoins ==
    ASSUME NEW pieces \in Seq(Texts)
    PROVE  \E F : Joins(F, pieces) /\ FlattenSeq(pieces) = F[Len(pieces)]
<1> DEFINE N == Len(pieces)
           flatten[i \in 1..N] == IF i = 1 THEN pieces[i] ELSE flatten[i - 1] \o pieces[i]
           Is(g) == g = [i \in 1..N |-> IF i = 1 THEN pieces[i] ELSE g[i - 1] \o pieces[i]]
           step == [n \in 1..N |-> [q \in Texts |-> q \o pieces[n]]]
<1>1. N \in Nat /\ (\A n \in 1..N : pieces[n] \in Texts) /\ <<>> \in Texts
  BY DEF Texts
<1>2. flatten = CHOOSE g : Is(g)
  OBVIOUS
<1>3. FlattenSeq(pieces) = IF N = 0 THEN pieces ELSE flatten[N]
  BY DEF FlattenSeq
<1> HIDE DEF N, flatten
<1>4. \A n \in 1..N : \A q \in Texts : step[n][q] = q \o pieces[n] /\ step[n][q] \in Texts
  BY SMTT(30), <1>1 DEF Texts
<1>5. step \in [1..N -> [Texts -> Texts]]
  BY <1>4
<1> HIDE DEF step
<1>6. PICK F \in [0..N -> Texts] : Follows(F, N, <<>>, step)
  BY <1>1, <1>5, RecursionExists
<1>7. F[0] = <<>> /\ \A n \in 1..N : F[n] = F[n - 1] \o pieces[n]
  <2>1. \A n \in 1..N : n - 1 \in 0..N
    BY <1>1
  <2>2. \A n \in 1..N : F[n - 1] \in Texts
    BY <1>6, <2>1
  <2> QED  BY <1>4, <1>6, <2>2 DEF Follows
<1>8. Joins(F, pieces)
  BY <1>6, <1>7 DEF Joins, N
<1>9. CASE N = 0
  <2>1. pieces = <<>>
    BY <1>9 DEF N
  <2> QED  BY <1>3, <1>7, <1>8, <1>9, <2>1 DEF N
<1>10. CASE N # 0
  <2>1. F[1] = pieces[1]
    <3>1. 1 \in 1..N /\ 1 - 1 = 0
      BY <1>1, <1>10
    <3>2. F[1] = <<>> \o pieces[1] /\ pieces[1] \in Texts
      BY <1>1, <1>7, <3>1
    <3> QED  BY <3>2 DEF Texts
  <2>2. \E g : Is(g)
    <3>1. PICK g : g = [i \in 1..N |-> F[i]]
      OBVIOUS
    <3>2. \A i \in 1..N : i # 1 => i - 1 \in 1..N
      BY <1>1
    <3>3. \A i \in 1..N : g[i] = IF i = 1 THEN pieces[i] ELSE g[i - 1] \o pieces[i]
      BY <1>7, <2>1, <3>1, <3>2
    <3>4. Is(g)
      BY <3>1, <3>3
    <3> QED  BY <3>4
  <2>3. Is(flatten)
    <3> HIDE DEF Is
    <3> QED  BY <1>2, <2>2
  <2>4. \A i \in 1..N : flatten[i] = IF i = 1 THEN pieces[i] ELSE flatten[i - 1] \o pieces[i]
    BY <2>3
  <2> HIDE DEF Is
  <2> DEFINE T == {n \in Nat : n + 1 =< N => flatten[n + 1] = F[n + 1]}
  <2>5. 0 \in T
    BY <1>1, <1>10, <2>1, <2>4
  <2>6. ASSUME NEW n \in Nat, n \in T, (n + 1) + 1 =< N
        PROVE  flatten[(n + 1) + 1] = F[(n + 1) + 1]
    <3>1. PICK i : i = (n + 1) + 1
      OBVIOUS
    <3>2. i \in 1..N /\ i # 1 /\ i - 1 = n + 1 /\ n + 1 =< N
      BY <1>1, <2>6, <3>1
    <3>3. flatten[i] = flatten[i - 1] \o pieces[i] /\ F[i] = F[i - 1] \o pieces[i]
      BY <1>7, <2>4, <3>2
    <3>4. flatten[i - 1] = F[i - 1]
      BY <2>6, <3>2
    <3> QED  BY <3>1, <3>3, <3>4
  <2>7. \A n \in Nat : n \in T => n + 1 \in T
    BY <2>6
  <2>8. Nat \subseteq T
    <3> HIDE DEF T
    <3> QED  BY <2>5, <2>7, SetInduction
  <2>9. N - 1 \in Nat /\ (N - 1) + 1 = N /\ N =< N
    BY <1>1, <1>10
  <2>10. flatten[N] = F[N]
    BY <2>8, <2>9
  <2> QED  BY <1>3, <1>8, <1>10, <2>10 DEF N
<1> QED  BY <1>9, <1>10

Writings == [text : Texts, truncated : BOOLEAN]

LEMMA CutType ==
    ASSUME NEW text \in Texts, NEW limit
    PROVE  Cut(text, limit) \in Texts
<1>1. PICK K : K = {k \in DOMAIN text : Bytes(SubSeq(text, 1, k)) =< limit}
  OBVIOUS
<1>2. DOMAIN text = 1..Len(text) /\ Len(text) \in Nat /\ text \in Seq(Nat)
  BY DEF Texts
<1>3. IsFiniteSet(1..Len(text)) /\ Cardinality(1..Len(text)) = Len(text)
  <2>1. PICK N \in Nat : N = Len(text)
    BY ZenonT(60), <1>2
  <2>2. IsFiniteSet(1..N) /\ Cardinality(1..N) = N
    BY FS_Interval
  <2> QED  BY <2>1, <2>2
<1>4. K \subseteq 1..Len(text)
  BY <1>1, <1>2
<1>5. Cardinality(K) =< Cardinality(1..Len(text)) /\ IsFiniteSet(K)
  BY <1>3, <1>4, FS_Subset
<1>6. Cardinality(K) \in 0..Len(text)
  BY <1>2, <1>3, <1>5, FS_CardinalityType
<1>7. First(text, Cardinality(K)) \in Texts
  BY <1>2, <1>6, FirstTypes DEF Texts
<1> QED  BY <1>1, <1>7 DEF Cut, First

LEMMA FormattedFollows ==
    ASSUME NEW pieces \in Seq(Texts), NEW scratch
    PROVE  \E W \in [0..Len(pieces) -> Writings] :
              /\ Formatted(pieces, scratch) = W[Len(pieces)]
              /\ W[0] = [text |-> <<>>, truncated |-> FALSE]
              /\ \A n \in 1..Len(pieces) : W[n] = WritePiece(W[n - 1], pieces[n], scratch)
<1> DEFINE N == Len(pieces)
           first == [text |-> <<>>, truncated |-> FALSE]
           upTo[n \in 0..N] ==
             IF n = 0 THEN [text |-> <<>>, truncated |-> FALSE]
             ELSE WritePiece(upTo[n - 1], pieces[n], scratch)
           Is(g) == g = [n \in 0..N |-> IF n = 0 THEN [text |-> <<>>, truncated |-> FALSE]
                                        ELSE WritePiece(g[n - 1], pieces[n], scratch)]
           step == [n \in 1..N |-> [w \in Writings |-> WritePiece(w, pieces[n], scratch)]]
<1>1. N \in Nat /\ (\A n \in 1..N : pieces[n] \in Texts) /\ first \in Writings
  BY DEF Writings, Texts
<1>2. Formatted(pieces, scratch) = upTo[N]
  BY DEF Formatted
<1>3. upTo = CHOOSE g : Is(g)
  OBVIOUS
<1> HIDE DEF N, upTo
<1>4. ASSUME NEW w \in Writings, NEW piece \in Texts
      PROVE  WritePiece(w, piece, scratch) \in Writings
  <2>1. PICK part : part = Cut(piece, scratch - Bytes(w.text))
    OBVIOUS
  <2>2. part \in Texts /\ w.text \in Texts
    BY <2>1, CutType DEF Writings
  <2>3. w.text \o part \in Texts
    BY <2>2 DEF Texts
  <2>4. /\ [text |-> w.text \o part, truncated |-> w.truncated \/ part # piece] \in Writings
        /\ w \in Writings
    BY <2>3 DEF Writings
  <2> QED  BY <2>1, <2>4 DEF WritePiece, WriteStr
<1>5. \A n \in 1..N : \A w \in Writings :
         /\ step[n][w] = WritePiece(w, pieces[n], scratch) /\ step[n][w] \in Writings
  BY <1>1, <1>4
<1>6. step \in [1..N -> [Writings -> Writings]]
  BY <1>5
<1> HIDE DEF step, first
<1>7. PICK W \in [0..N -> Writings] : Follows(W, N, first, step)
  BY <1>1, <1>6, RecursionExists
<1>8. /\ W[0] = first
      /\ \A n \in 1..N : W[n] = WritePiece(W[n - 1], pieces[n], scratch)
  <2>1. \A n \in 1..N : n - 1 \in 0..N
    BY <1>1
  <2>2. \A n \in 1..N : W[n - 1] \in Writings
    BY <1>7, <2>1
  <2> QED  BY <1>5, <1>7, <2>2 DEF Follows
<1>9. Is(W)
  <2>1. \A n \in 0..N : n = 0 \/ (n \in 1..N /\ n # 0)
    BY <1>1
  <2>2. W = [n \in 0..N |-> W[n]]
    BY <1>7
  <2>3. \A n \in 0..N : W[n] = IF n = 0 THEN [text |-> <<>>, truncated |-> FALSE]
                                        ELSE WritePiece(W[n - 1], pieces[n], scratch)
    BY <1>8, <2>1 DEF first
  <2> QED  BY <2>2, <2>3
<1>10. Is(upTo)
  <2> HIDE DEF Is
  <2> QED  BY <1>3, <1>9
<1>11. /\ upTo[0] = first
       /\ \A n \in 1..N : upTo[n] = WritePiece(upTo[n - 1], pieces[n], scratch)
  <2>1. 0 \in 0..N /\ \A n \in 1..N : n \in 0..N /\ n # 0
    BY <1>1
  <2> QED  BY <1>10, <2>1 DEF first
<1> HIDE DEF Is
<1> DEFINE T == {n \in Nat : n =< N => upTo[n] = W[n]}
<1>12. 0 \in T
  BY <1>8, <1>11
<1>13. ASSUME NEW n \in Nat, n \in T, n + 1 =< N
       PROVE  upTo[n + 1] = W[n + 1]
  <2>1. n + 1 \in 1..N /\ (n + 1) - 1 = n /\ n =< N
    BY <1>1, <1>13
  <2>2. upTo[n] = W[n]
    BY <1>13, <2>1
  <2> QED  BY <1>8, <1>11, <2>1, <2>2
<1>14. \A n \in Nat : n \in T => n + 1 \in T
  BY <1>13
<1>15. Nat \subseteq T
  <2> HIDE DEF T
  <2> QED  BY <1>12, <1>14, SetInduction
<1>16. upTo[N] = W[N]
  BY <1>1, <1>15
<1> QED  BY <1>2, <1>7, <1>8, <1>16 DEF N, first

\* Of the text f the first m characters are written, all that fit.
Wrote(w, f, limit, m) ==
    /\ w.text = First(f, m) /\ Longest(f, limit, m) /\ (w.truncated <=> m < Len(f))

\* One piece more.
LEMMA WritePieceWrites ==
    ASSUME NEW f \in Texts, NEW piece \in Texts, NEW w \in Writings, NEW scratch \in Nat,
           NEW m \in 0..Len(f), Wrote(w, f, scratch, m)
    PROVE  \E k \in 0..Len(f \o piece) :
              Wrote(WritePiece(w, piece, scratch), f \o piece, scratch, k)
<1>1. PICK t : t = f \o piece
  OBVIOUS
<1>2. f \in Seq(Nat) /\ piece \in Seq(Nat)
  BY DEF Texts
<1>3. /\ t \in Seq(Nat) /\ Len(t) = Len(f) + Len(piece) /\ Len(f) \in Nat /\ Len(piece) \in Nat
      /\ \A i \in 1..Len(f) : t[i] = f[i]
      /\ \A i \in 1..Len(piece) : t[Len(f) + i] = piece[i]
  BY <1>1, <1>2
<1>4. /\ \A k \in 0..Len(f) : First(t, k) = First(f, k)
      /\ \A k \in 0..Len(piece) : /\ First(t, Len(f) + k) = f \o First(piece, k)
                                  /\ Bytes(First(t, Len(f) + k)) = Bytes(f) + Bytes(First(piece, k))
  BY ZenonT(60), <1>1, <1>2, BytesOfBoth
<1>5. CASE w.truncated
  <2>1. WritePiece(w, piece, scratch) = w
    BY <1>5 DEF WritePiece
  <2>2. m < Len(f) /\ w.text = First(f, m) /\ Longest(f, scratch, m)
    BY <1>5 DEF Wrote
  <2>3. m \in 0..Len(t) /\ m < Len(t) /\ m + 1 \in 1..Len(f)
    BY <1>3, <2>2
  <2>4. First(t, m) = First(f, m) /\ t[m + 1] = f[m + 1]
    BY <1>3, <1>4, <2>3
  <2>5. Longest(t, scratch, m)
    BY <2>2, <2>3, <2>4 DEF Longest
  <2> QED  BY <1>1, <1>5, <2>1, <2>2, <2>3, <2>4, <2>5 DEF Wrote
<1>6. CASE ~w.truncated
  <2>1. m = Len(f) /\ First(f, m) = f /\ w.text = f /\ Bytes(f) =< scratch
    <3>1. m = Len(f)
      BY <1>3, <1>6 DEF Wrote
    <3>2. First(f, Len(f)) = f
      BY <1>2, FirstTypes
    <3> QED  BY <3>1, <3>2 DEF Wrote, Longest
  <2>2. Bytes(f) \in Nat
    <3>1. Len(f) \in 0..Len(f)
      BY <1>3
    <3>2. Bytes(First(f, Len(f))) \in Nat
      BY <1>2, <3>1, BytesStep
    <3> QED  BY <2>1, <3>2
  <2>3. PICK limit : limit = scratch - Bytes(f)
    OBVIOUS
  <2>4. limit \in Nat
    BY <2>1, <2>2, <2>3
  <2>5. PICK k \in 0..Len(piece) : /\ Cut(piece, limit) = First(piece, k)
                                   /\ Longest(piece, limit, k)
    BY <1>2, <2>4, CutIsLongest
  <2>6. PICK part, v : part = First(piece, k) /\ v = WritePiece(w, piece, scratch)
    OBVIOUS
  <2>7. v.text = f \o part /\ v.truncated = (part # piece)
    <3>1. v = WriteStr(w, piece, scratch)
      BY <1>6, <2>6 DEF WritePiece
    <3>2. v = [text |-> f \o part, truncated |-> w.truncated \/ part # piece]
      BY <2>1, <2>3, <2>5, <2>6, <3>1 DEF WriteStr
    <3> QED  BY <1>6, <3>2
  <2>8. part # piece <=> k < Len(piece)
    <3>1. Len(part) = k /\ First(piece, Len(piece)) = piece
      BY <1>2, <2>6, FirstTypes
    <3> QED  BY SMTT(30), <1>3, <2>6, <3>1
  <2>9. PICK i : i = Len(f) + k
    OBVIOUS
  <2>10. i \in 0..Len(t) /\ (i < Len(t) <=> k < Len(piece))
    BY <1>3, <2>9
  <2>11. First(t, i) = f \o part /\ Bytes(First(t, i)) = Bytes(f) + Bytes(part)
    BY <1>4, <2>6, <2>9
  <2>12. Bytes(part) \in Nat /\ Bytes(part) =< limit
    <3>1. Bytes(First(piece, k)) \in Nat
      BY <1>2, BytesStep
    <3> QED  BY <2>5, <2>6, <3>1 DEF Longest
  <2>13. ASSUME i < Len(t)
         PROVE  Bytes(First(t, i)) + t[i + 1] > scratch
    <3>1. PICK j : j = k + 1
      OBVIOUS
    <3>2. j \in 1..Len(piece) /\ i + 1 = Len(f) + j
      BY <1>3, <2>9, <2>10, <2>13, <3>1
    <3>3. t[i + 1] = piece[j] /\ piece[j] \in Nat
      <4>1. t[Len(f) + j] = piece[j]
        BY <1>3, <3>2
      <4>2. piece[j] \in Nat
        BY <1>2, <3>2
      <4> QED  BY <3>2, <4>1, <4>2
    <3>4. Bytes(part) + piece[j] > limit
      BY <2>5, <2>6, <2>10, <2>13, <3>1 DEF Longest
    <3> QED  BY SMTT(30), <2>2, <2>3, <2>11, <2>12, <3>3, <3>4
  <2>14. Bytes(First(t, i)) =< scratch
    BY <2>2, <2>3, <2>11, <2>12
  <2>15. Longest(t, scratch, i)
    BY <2>10, <2>13, <2>14 DEF Longest
  <2>16. Wrote(v, t, scratch, i)
    BY <2>7, <2>8, <2>10, <2>11, <2>15 DEF Wrote
  <2> QED  BY <1>1, <2>6, <2>10, <2>16
<1> QED  BY <1>5, <1>6

\* However a value is cut into pieces, the scratch holds all of it that fits.
LEMMA FormattedIsLongest ==
    ASSUME NEW pieces \in Seq(Texts), NEW scratch \in Nat
    PROVE  /\ FlattenSeq(pieces) \in Texts
           /\ Formatted(pieces, scratch) \in Writings
           /\ \E m \in 0..Len(FlattenSeq(pieces)) :
                 Wrote(Formatted(pieces, scratch), FlattenSeq(pieces), scratch, m)
<1>1. PICK N : N = Len(pieces)
  OBVIOUS
<1>2. N \in Nat /\ \A n \in 1..N : pieces[n] \in Texts
  BY <1>1
<1>3. PICK F : Joins(F, pieces) /\ FlattenSeq(pieces) = F[N]
  BY <1>1, FlattenJoins
<1>4. /\ F \in [0..N -> Texts] /\ F[0] = <<>>
      /\ \A n \in 1..N : F[n] = F[n - 1] \o pieces[n]
  BY <1>1, <1>3 DEF Joins
<1>5. PICK W \in [0..N -> Writings] :
         /\ Formatted(pieces, scratch) = W[N]
         /\ W[0] = [text |-> <<>>, truncated |-> FALSE]
         /\ \A n \in 1..N : W[n] = WritePiece(W[n - 1], pieces[n], scratch)
  BY <1>1, FormattedFollows
<1> DEFINE T == {n \in Nat : n =< N => \E m \in 0..Len(F[n]) : Wrote(W[n], F[n], scratch, m)}
<1>6. 0 \in T
  <2>1. <<>> \in Seq(Nat) /\ Len(<<>>) = 0 /\ 0 \in 0..0
    OBVIOUS
  <2>2. First(<<>>, 0) = <<>> /\ Bytes(<<>>) = 0
    BY <2>1, FirstTypes, BytesStep
  <2>3. Wrote(W[0], <<>>, scratch, 0)
    BY <1>5, <2>1, <2>2 DEF Wrote, Longest
  <2> QED  BY <1>4, <2>1, <2>3
<1>7. ASSUME NEW n \in Nat, n \in T, n + 1 =< N
      PROVE  \E m \in 0..Len(F[n + 1]) : Wrote(W[n + 1], F[n + 1], scratch, m)
  <2>1. n + 1 \in 1..N /\ (n + 1) - 1 = n /\ n \in 0..N /\ n =< N
    BY <1>2, <1>7
  <2>2. PICK m \in 0..Len(F[n]) : Wrote(W[n], F[n], scratch, m)
    BY <1>7, <2>1
  <2>3. PICK f, w, piece : f = F[n] /\ w = W[n] /\ piece = pieces[n + 1]
    OBVIOUS
  <2>4. f \in Texts /\ w \in Writings /\ piece \in Texts
    BY <1>2, <1>4, <1>5, <2>1, <2>3
  <2>5. F[n + 1] = f \o piece /\ W[n + 1] = WritePiece(w, piece, scratch)
    BY <1>4, <1>5, <2>1, <2>3
  <2>6. \E k \in 0..Len(f \o piece) : Wrote(WritePiece(w, piece, scratch), f \o piece, scratch, k)
    BY <2>2, <2>3, <2>4, WritePieceWrites
  <2> QED  BY <2>5, <2>6
<1>8. \A n \in Nat : n \in T => n + 1 \in T
  BY <1>7
<1>9. Nat \subseteq T
  <2> HIDE DEF T
  <2> QED  BY <1>6, <1>8, SetInduction
<1>10. \E m \in 0..Len(F[N]) : Wrote(W[N], F[N], scratch, m)
  BY <1>2, <1>9
<1>11. F[N] \in Texts /\ W[N] \in Writings
  BY <1>2, <1>4, <1>5
<1> QED  BY <1>3, <1>5, <1>10, <1>11

-----------------------------------------------------------------------------
(* What an envelope shows of a value *)

LEMMA MinFacts ==
    ASSUME NEW a \in Nat, NEW b \in Nat, NEW c \in Nat
    PROVE  /\ Min({a, b, c}) \in {a, b, c}
           /\ Min({a, b, c}) =< a /\ Min({a, b, c}) =< b /\ Min({a, b, c}) =< c
<1>1. \E x \in {a, b, c} : \A y \in {a, b, c} : x =< y
  <2>1. CASE a =< b /\ a =< c
    BY <2>1
  <2>2. CASE b =< a /\ b =< c
    BY <2>2
  <2>3. CASE c =< a /\ c =< b
    BY <2>3
  <2>4. \/ a =< b /\ a =< c
        \/ b =< a /\ b =< c
        \/ c =< a /\ c =< b
    OBVIOUS
  <2> QED  BY <2>1, <2>2, <2>3, <2>4
<1>2. Min({a, b, c}) \in {a, b, c} /\ \A y \in {a, b, c} : Min({a, b, c}) =< y
  BY <1>1 DEF Min
<1> QED  BY <1>2

\* The limits on a value.
LEMMA LimitFacts ==
    ASSUME NEW scratch \in Nat
    PROVE  LET strs == Min({MaxValue, U16Max})
               rest == Min({MaxValue, U16Max, scratch})
           IN  /\ strs \in Nat /\ rest \in Nat
               /\ rest =< strs /\ rest =< scratch /\ (rest = strs \/ rest = scratch)
<1>1. MaxValue \in Nat /\ U16Max \in Nat
  BY LimitsAssumption
<1>2. PICK strs, rest : strs = Min({MaxValue, U16Max}) /\ rest = Min({MaxValue, U16Max, scratch})
  OBVIOUS
<1>3. strs \in {MaxValue, U16Max} /\ strs =< MaxValue /\ strs =< U16Max
  <2>1. PICK x : x = Min({MaxValue, U16Max, U16Max})
    OBVIOUS
  <2>2. x \in {MaxValue, U16Max, U16Max} /\ x =< MaxValue /\ x =< U16Max
    BY <1>1, <2>1, MinFacts
  <2>3. {MaxValue, U16Max, U16Max} = {MaxValue, U16Max}
    OBVIOUS
  <2>4. x = strs
    BY <1>2, <2>1, <2>3, Zenon
  <2> QED  BY <2>2, <2>4
<1>4. rest \in {MaxValue, U16Max, scratch} /\ rest =< MaxValue /\ rest =< U16Max /\ rest =< scratch
  BY <1>1, <1>2, MinFacts
<1>5. /\ strs \in Nat /\ rest \in Nat
      /\ rest =< strs /\ rest =< scratch /\ (rest = strs \/ rest = scratch)
  BY <1>1, <1>3, <1>4
<1> QED  BY <1>2, <1>5

\* What is written is cut once more.
LEMMA LimitedCuts ==
    ASSUME NEW f \in Texts, NEW w \in Writings, NEW m \in 0..Len(f),
           w.text = First(f, m), w.truncated <=> m < Len(f)
    PROVE  \E k \in 0..m : /\ Limited(w).text = First(f, k) /\ (Limited(w).truncated <=> k < Len(f))
                           /\ Bytes(First(f, k)) =< Min({MaxValue, U16Max})
                           /\ k < m => Bytes(First(f, k)) + f[k + 1] > Min({MaxValue, U16Max})
<1>1. f \in Seq(Nat) /\ Len(f) \in Nat
  BY DEF Texts
<1>2. PICK p, limit : p = First(f, m) /\ limit = Min({MaxValue, U16Max})
  OBVIOUS
<1>3. limit \in Nat
  BY <1>2, LimitFacts
<1>4. p \in Seq(Nat) /\ Len(p) = m /\ \A i \in 1..m : p[i] = f[i]
  BY <1>1, <1>2, FirstTypes
<1>5. PICK k \in 0..m : Cut(p, limit) = First(p, k) /\ Longest(p, limit, k)
  BY <1>3, <1>4, CutIsLongest
<1>6. First(p, k) = First(f, k)
  <2>1. PICK a, b : a = First(p, k) /\ b = First(f, k)
    OBVIOUS
  <2>2. a \in Seq(Nat) /\ Len(a) = k /\ \A i \in 1..k : a[i] = p[i]
    BY <1>4, <2>1, FirstTypes
  <2>3. k \in 0..Len(f) /\ \A i \in 1..k : i \in 1..m
    BY <1>1
  <2>4. b \in Seq(Nat) /\ Len(b) = k /\ \A i \in 1..k : b[i] = f[i]
    BY <1>1, <2>1, <2>3, FirstTypes
  <2>5. \A i \in 1..Len(a) : a[i] = b[i]
    BY <1>4, <2>2, <2>3, <2>4
  <2>6. a = b
    BY <2>2, <2>4, <2>5, SeqEqual
  <2> QED  BY <2>1, <2>6
<1>7. First(p, k) # p <=> k < m
  <2>1. Len(First(p, k)) = k /\ First(p, Len(p)) = p
    BY <1>4, FirstTypes
  <2> QED  BY <1>4, <2>1
<1>8. /\ Limited(w).text = First(p, k)
      /\ Limited(w).truncated <=> w.truncated \/ First(p, k) # p
  BY <1>2, <1>5 DEF Limited
<1>9. Bytes(First(f, k)) =< limit
  BY <1>5, <1>6 DEF Longest
<1>10. ASSUME k < m
       PROVE  Bytes(First(f, k)) + f[k + 1] > limit
  <2>1. k + 1 \in 1..m
    BY <1>10
  <2>2. p[k + 1] = f[k + 1]
    BY <1>4, <2>1
  <2> QED  BY <1>4, <1>5, <1>6, <1>10, <2>2 DEF Longest
<1>11. Limited(w).truncated <=> k < Len(f)
  BY <1>1, <1>7, <1>8
<1> QED  BY <1>2, <1>6, <1>8, <1>9, <1>10, <1>11

\* The beginnings of a text, as the property says it.
LEMMA FirstIsLongest ==
    ASSUME NEW f \in Texts, NEW limit, NEW k \in 0..Len(f), Bytes(First(f, k)) =< limit,
           k < Len(f) => Bytes(First(f, k)) + f[k + 1] > limit
    PROVE  IsLongest(First(f, k), f, limit) /\ (First(f, k) # f <=> k < Len(f))
<1>1. f \in Seq(Nat) /\ Len(f) \in Nat
  BY DEF Texts
<1>2. PICK p : p = First(f, k)
  OBVIOUS
<1>3. p \in Seq(Nat) /\ Len(p) = k
  BY <1>1, <1>2, FirstTypes
<1>4. First(p, Len(p)) = p /\ First(f, Len(f)) = f
  BY <1>1, <1>3, FirstTypes
<1>5. IsPrefix(p, f)
  <2>1. Len(p) <= Len(f)
    BY <1>1, <1>3
  <2>2. SubSeq(p, 1, Len(p)) = SubSeq(f, 1, Len(p))
    BY <1>2, <1>3, <1>4 DEF First
  <2> QED  BY <2>1, <2>2 DEF IsPrefix
<1>6. p # f <=> k < Len(f)
  BY <1>1, <1>2, <1>3, <1>4
<1> QED  BY <1>2, <1>3, <1>5, <1>6 DEF IsLongest

\* A value is shown to its limits, and marked when that is not all of it.
LEMMA ValueShows ==
    ASSUME NEW value \in LoggedValues, NEW scratch \in Nat
    PROVE  LET v == Value(value, scratch)
               full == FlattenSeq(value.pieces)
           IN  /\ value.kind = "fixed" => v.text = full
               /\ value.kind = "str" => IsLongest(v.text, full, Min({MaxValue, U16Max}))
               /\ value.kind = "fmt" => IsLongest(v.text, full, Min({MaxValue, U16Max, scratch}))
               /\ v.truncated <=> v.text # full
<1>1. value.pieces \in Seq(Texts) /\ value.kind \in {"fixed", "str", "fmt"}
  BY DEF LoggedValues
<1>2. PICK full, v : full = FlattenSeq(value.pieces) /\ v = Value(value, scratch)
  OBVIOUS
<1>3. full \in Texts
  BY <1>1, <1>2, FormattedIsLongest
<1>4. full \in Seq(Nat) /\ Len(full) \in Nat
  BY <1>3 DEF Texts
<1>5. PICK strs, rest : strs = Min({MaxValue, U16Max}) /\ rest = Min({MaxValue, U16Max, scratch})
  OBVIOUS
<1>6. /\ strs \in Nat /\ rest \in Nat
      /\ rest =< strs /\ rest =< scratch /\ (rest = strs \/ rest = scratch)
  BY <1>5, LimitFacts
<1>7. PICK whole : whole = [text |-> full, truncated |-> FALSE]
  OBVIOUS
<1>8. whole \in Writings /\ whole.text = full /\ ~whole.truncated
  BY <1>3, <1>7 DEF Writings
<1>9. CASE value.kind = "fixed"
  <2>1. v = whole
    BY <1>2, <1>7, <1>9 DEF Value
  <2> QED  BY <1>2, <1>8, <1>9, <2>1
<1>10. CASE value.kind = "str"
  <2>1. v = Limited(whole)
    BY <1>2, <1>7, <1>10 DEF Value
  <2>2. PICK m : m = Len(full)
    OBVIOUS
  <2>3. m \in 0..Len(full) /\ First(full, m) = full /\ ~(m < Len(full))
    BY <1>4, <2>2, FirstTypes
  <2>4. PICK k \in 0..m : /\ v.text = First(full, k) /\ (v.truncated <=> k < Len(full))
                          /\ Bytes(First(full, k)) =< strs
                          /\ k < m => Bytes(First(full, k)) + full[k + 1] > strs
    <3>1. whole.text = First(full, m) /\ (whole.truncated <=> m < Len(full))
      BY <1>8, <2>3
    <3> QED  BY <1>3, <1>5, <1>8, <2>1, <2>3, <3>1, LimitedCuts
  <2>5. IsLongest(v.text, full, strs) /\ (v.text # full <=> k < Len(full))
    BY <1>3, <2>2, <2>4, FirstIsLongest
  <2> QED  BY <1>2, <1>5, <1>10, <2>4, <2>5
<1>11. CASE value.kind = "fmt"
  <2>1. PICK w : w = Formatted(value.pieces, scratch)
    OBVIOUS
  <2>2. v = Limited(w) /\ w \in Writings
    BY <1>1, <1>2, <1>11, <2>1, FormattedIsLongest DEF Value
  <2>3. PICK m \in 0..Len(full) : Wrote(w, full, scratch, m)
    BY <1>1, <1>2, <2>1, FormattedIsLongest
  <2>4. /\ w.text = First(full, m) /\ (w.truncated <=> m < Len(full))
        /\ Bytes(First(full, m)) =< scratch
        /\ m < Len(full) => Bytes(First(full, m)) + full[m + 1] > scratch
    BY <2>3 DEF Wrote, Longest
  <2>5. PICK k \in 0..m : /\ v.text = First(full, k) /\ (v.truncated <=> k < Len(full))
                          /\ Bytes(First(full, k)) =< strs
                          /\ k < m => Bytes(First(full, k)) + full[k + 1] > strs
    BY <1>3, <1>5, <2>2, <2>4, LimitedCuts
  <2>6. k \in 0..Len(full) /\ m \in Nat
    BY <1>4
  <2>7. /\ Bytes(First(full, k)) =< Bytes(First(full, m))
        /\ Bytes(First(full, k)) \in Nat /\ Bytes(First(full, m)) \in Nat
    <3>1. k =< m
      BY <1>4
    <3>2. Bytes(First(full, k)) =< Bytes(First(full, m))
      BY <1>4, <2>6, <3>1, BytesGrow
    <3> QED  BY <1>4, <2>6, <3>2, BytesStep
  <2>8. Bytes(First(full, k)) =< rest
    BY <1>6, <2>4, <2>5, <2>7
  <2>9. ASSUME k < Len(full)
        PROVE  Bytes(First(full, k)) + full[k + 1] > rest
    <3>1. k + 1 \in 1..Len(full)
      BY <1>4, <2>6, <2>9
    <3>2. full[k + 1] \in Nat
      BY <1>4, <3>1
    <3>3. k < m \/ k = m
      BY <2>6
    <3>4. CASE k < m
      BY <1>6, <2>5, <2>7, <3>2, <3>4
    <3>5. CASE k = m
      BY <1>6, <2>4, <2>7, <2>9, <3>2, <3>5
    <3> QED  BY <3>3, <3>4, <3>5
  <2>10. IsLongest(v.text, full, rest) /\ (v.text # full <=> k < Len(full))
    BY <1>3, <2>5, <2>6, <2>8, <2>9, FirstIsLongest
  <2> QED  BY <1>2, <1>5, <1>11, <2>5, <2>10
<1> QED  BY <1>1, <1>9, <1>10, <1>11

\* The values written are those the property names.
LEMMA PublicIsRetained ==
    ASSUME NEW event \in Events
    PROVE  Public(event.fields)
             = [i \in DOMAIN Retained(event) |-> Retained(event)[i].value]
<1>1. PICK fields, kept, S : /\ fields = event.fields /\ kept = Retained(event)
                             /\ S = Written(fields)
  OBVIOUS
<1>2. fields \in Seq(Fields)
  BY <1>1, ShownTypes
<1>3. /\ kept \in Seq(Fields) /\ Len(kept) = Cardinality(S)
      /\ \A i \in S : Upto(S, i) \in 1..Len(kept) /\ kept[Upto(S, i)] = fields[i]
      /\ \A k \in 1..Len(kept) : \E i \in S : Upto(S, i) = k
  BY <1>1, <1>2, RetainedFacts
<1>4. S = {i \in DOMAIN fields : fields[i].present /\ fields[i].privacy # "Secret"}
  BY <1>1 DEF Written, Open
<1> DEFINE Nth(k) == CHOOSE i \in S : Upto(S, i) = k
<1>5. Public(fields) = [k \in 1..Cardinality(S) |-> fields[Nth(k)].value]
  BY <1>4 DEF Public, Upto
<1>6. ASSUME NEW k \in 1..Len(kept)
      PROVE  fields[Nth(k)] = kept[k]
  <2>1. Nth(k) \in S /\ Upto(S, Nth(k)) = k
    BY <1>3
  <2> HIDE DEF Nth
  <2> QED  BY <1>3, <2>1
<1> HIDE DEF Nth
<1>7. DOMAIN kept = 1..Len(kept) /\ DOMAIN kept = 1..Cardinality(S)
  BY <1>3
<1>8. [k \in 1..Cardinality(S) |-> fields[Nth(k)].value] = [i \in DOMAIN kept |-> kept[i].value]
  BY <1>6, <1>7
<1> QED  BY <1>1, <1>5, <1>8

\* What an envelope shows of one value, and what it says in all.
Shows(text, value, scratch) ==
    /\ value.kind \in {"fixed", "str", "fmt"}
    /\ value.kind = "fixed" => text = FlattenSeq(value.pieces)
    /\ value.kind = "str" => IsLongest(text, FlattenSeq(value.pieces), Min({MaxValue, U16Max}))
    /\ value.kind = "fmt" => IsLongest(text, FlattenSeq(value.pieces),
                                       Min({MaxValue, U16Max, scratch}))

Tells(envelope, fields, values, scratch) ==
    /\ "Secret" \notin {envelope.fields[i] : i \in DOMAIN envelope.fields}
    /\ Len(envelope.fields) + envelope.omitted = Len(fields)
    /\ Len(envelope.texts) = Len(values)
    /\ \A i \in DOMAIN values : Shows(envelope.texts[i], values[i], scratch)
    /\ envelope.flag <=>
          \E i \in DOMAIN values : envelope.texts[i] # FlattenSeq(values[i].pieces)

\* The envelope of a call says what the property asks.
LEMMA EnvelopeShows ==
    ASSUME NEW call \in Sending, NEW logged, NEW values, NEW envelope,
           logged = call.event, envelope = Envelope(call),
           values = logged.test \o Public(logged.fields) \o logged.message
    PROVE  Tells(envelope, logged.fields, values, call.scratch)
<1>1. logged \in Events /\ call.scratch \in Nat
  BY LimitsAssumption DEF Sending
<1>2. PICK kept, shown, scratch : /\ kept = Retained(logged) /\ shown = Values(logged, scratch)
                                  /\ scratch = call.scratch
  OBVIOUS
<1>3. /\ envelope.fields = [i \in DOMAIN kept |-> kept[i].privacy]
      /\ envelope.omitted = Len(logged.fields) - Len(kept)
      /\ envelope.texts = [i \in DOMAIN shown |-> shown[i].text]
      /\ envelope.flag = (CutValues(logged, scratch) # 0)
  BY <1>2 DEF Envelope
<1>4. logged.fields \in Seq(Fields) /\ kept \in Seq(Fields)
  BY <1>1, <1>2, ShownTypes
<1>5. "Secret" \notin {envelope.fields[i] : i \in DOMAIN envelope.fields}
  <2>1. PICK S : S = Written(logged.fields)
    OBVIOUS
  <2>2. /\ \A i \in S : kept[Upto(S, i)] = logged.fields[i]
        /\ \A k \in 1..Len(kept) : \E i \in S : Upto(S, i) = k
    BY SMTT(30), <1>2, <1>4, <2>1, RetainedFacts
  <2>3. \A i \in S : logged.fields[i].privacy # "Secret"
    BY <2>1 DEF Written, Open
  <2>4. \A k \in 1..Len(kept) : kept[k].privacy # "Secret"
    BY <2>2, <2>3
  <2>5. DOMAIN kept = 1..Len(kept)
    BY <1>4
  <2> QED  BY <1>3, <2>4, <2>5
<1>6. Len(envelope.fields) + envelope.omitted = Len(logged.fields)
  <2>1. /\ Len(kept) \in Nat /\ Len(logged.fields) \in Nat /\ DOMAIN kept = 1..Len(kept)
    BY <1>4
  <2>2. envelope.fields = [i \in 1..Len(kept) |-> kept[i].privacy]
    BY <1>3, <2>1
  <2>3. Len(envelope.fields) = Len(kept)
    BY <2>1, <2>2
  <2> QED  BY <1>3, <2>1, <2>3
<1>7. values = Shown(logged) /\ values \in Seq(LoggedValues)
  <2>1. Public(logged.fields) = [i \in DOMAIN kept |-> kept[i].value]
    BY <1>1, <1>2, PublicIsRetained
  <2>2. values = Shown(logged)
    BY <1>2, <2>1 DEF Shown
  <2> QED  BY <1>1, <2>2, ShownTypes
<1>8. shown = [i \in DOMAIN values |-> Value(values[i], scratch)]
  <2>1. Values(logged, scratch)
          = [i \in DOMAIN Shown(logged) |-> Value(Shown(logged)[i], scratch)]
    BY <1>1, ShownTypes
  <2> QED  BY <1>2, <1>7, <2>1, Zenon
<1>9. /\ Len(values) \in Nat /\ DOMAIN values = 1..Len(values) /\ DOMAIN shown = DOMAIN values
      /\ \A i \in DOMAIN values : values[i] \in LoggedValues
  BY <1>7, <1>8
<1>10. ASSUME NEW i \in DOMAIN values
       PROVE  envelope.texts[i] = Value(values[i], scratch).text
  <2>1. envelope.texts[i] = shown[i].text
    BY <1>3, <1>9, Zenon
  <2>2. shown[i] = Value(values[i], scratch)
    BY <1>8, Zenon
  <2> QED  BY <2>1, <2>2, Zenon
<1>11. Len(envelope.texts) = Len(values)
  <2>1. envelope.texts = [i \in 1..Len(values) |-> shown[i].text]
    BY SMTT(30), <1>3, <1>9
  <2> QED  BY <1>9, <2>1
<1>12. ASSUME NEW i \in DOMAIN values
       PROVE  /\ Shows(envelope.texts[i], values[i], scratch)
              /\ shown[i].truncated <=> envelope.texts[i] # FlattenSeq(values[i].pieces)
  <2>1. PICK value : value = values[i]
    OBVIOUS
  <2>2. value \in LoggedValues /\ value.kind \in {"fixed", "str", "fmt"}
    BY <1>9, <2>1 DEF LoggedValues
  <2>3. PICK v : v = Value(value, scratch)
    OBVIOUS
  <2>4. envelope.texts[i] = v.text /\ shown[i] = v
    <3>1. shown[i] = Value(values[i], scratch)
      BY <1>8, Zenon
    <3>2. envelope.texts[i] = Value(values[i], scratch).text
      BY <1>10, Zenon
    <3> QED  BY <2>1, <2>3, <3>1, <3>2, Zenon
  <2>5. scratch \in Nat
    BY <1>1, <1>2
  <2>6. /\ Shows(v.text, value, scratch)
        /\ v.truncated <=> v.text # FlattenSeq(value.pieces)
    BY <2>2, <2>3, <2>5, ValueShows DEF Shows
  <2> QED  BY <2>1, <2>4, <2>6
<1>13. envelope.flag <=> \E i \in DOMAIN values : shown[i].truncated
  <2>1. PICK K : K = {i \in DOMAIN shown : shown[i].truncated}
    OBVIOUS
  <2>2. IsFiniteSet(K)
    <3>1. PICK N \in Nat : N = Len(values)
      BY <1>9
    <3>2. IsFiniteSet(1..N)
      BY FS_Interval
    <3>3. K \subseteq 1..N
      BY <1>9, <2>1, <3>1
    <3> QED  BY <3>2, <3>3, FS_Subset
  <2>3. Cardinality(K) # 0 <=> K # {}
    BY <2>2, FS_EmptySet
  <2>4. envelope.flag <=> Cardinality(K) # 0
    BY <1>2, <1>3, <2>1 DEF CutValues
  <2> QED  BY <1>9, <2>1, <2>3, <2>4
<1>14. \A i \in DOMAIN values : Shows(envelope.texts[i], values[i], scratch)
  BY <1>12
<1>15. envelope.flag <=>
          \E i \in DOMAIN values : envelope.texts[i] # FlattenSeq(values[i].pieces)
  BY <1>12, <1>13
<1> QED  BY <1>2, <1>5, <1>6, <1>11, <1>14, <1>15, Zenon DEF Tells

\* An envelope that reaches a reader holds no secret, says how many fields it
\* leaves out and shows of every value all that its limits admit, in whatever
\* pieces it was formatted; its flag says whether anything was cut.
THEOREM EnvelopeTellsAll == TransportSpec => []EnvelopeIsFaithful
<1>1. ASSUME TransportInv, NEW n \in DOMAIN calls, calls[n].fate = "read"
      PROVE  LET logged == calls[n].logged
                 envelope == calls[n].envelope[1]
                 values == logged.test \o Public(logged.fields) \o logged.message
                 Full(i) == FlattenSeq(values[i].pieces)
                 Limit(i) == IF values[i].kind = "str" THEN Min({MaxValue, U16Max})
                                                  ELSE Min({MaxValue, U16Max, calls[n].scratch})
             IN  /\ "Secret" \notin {envelope.fields[i] : i \in DOMAIN envelope.fields}
                 /\ Len(envelope.fields) + envelope.omitted = Len(logged.fields)
                 /\ Len(envelope.texts) = Len(values)
                 /\ \A i \in DOMAIN values :
                       IF values[i].kind = "fixed" THEN envelope.texts[i] = Full(i)
                       ELSE IsLongest(envelope.texts[i], Full(i), Limit(i))
                 /\ envelope.flag <=> \E i \in DOMAIN values : envelope.texts[i] # Full(i)
  <2>1. PICK call \in Sending : /\ calls[n].envelope = <<Envelope(call)>>
                                /\ call.event = calls[n].logged
                                /\ call.scratch = calls[n].scratch
    BY <1>1 DEF TransportInv, Carried
  <2>2. PICK logged, envelope, values :
           /\ logged = calls[n].logged /\ envelope = calls[n].envelope[1]
           /\ values = logged.test \o Public(logged.fields) \o logged.message
    OBVIOUS
  <2>3. logged = call.event /\ envelope = Envelope(call)
    BY <2>1, <2>2
  <2>4. PICK scratch : scratch = calls[n].scratch
    OBVIOUS
  <2>7. Tells(envelope, logged.fields, values, call.scratch)
    BY <2>2, <2>3, EnvelopeShows
  <2>8. Tells(envelope, logged.fields, values, scratch)
    BY <2>1, <2>4, <2>7
  <2>5. ASSUME NEW i \in DOMAIN values
        PROVE  IF values[i].kind = "fixed" THEN envelope.texts[i] = FlattenSeq(values[i].pieces)
               ELSE IsLongest(envelope.texts[i], FlattenSeq(values[i].pieces),
                              IF values[i].kind = "str" THEN Min({MaxValue, U16Max})
                              ELSE Min({MaxValue, U16Max, scratch}))
    <3>1. Shows(envelope.texts[i], values[i], scratch)
      BY <2>5, <2>8 DEF Tells
    <3>2. PICK text, value, full : /\ text = envelope.texts[i] /\ value = values[i]
                                   /\ full = FlattenSeq(value.pieces)
      OBVIOUS
    <3>3. /\ value.kind \in {"fixed", "str", "fmt"}
          /\ value.kind = "fixed" => text = full
          /\ value.kind = "str" => IsLongest(text, full, Min({MaxValue, U16Max}))
          /\ value.kind = "fmt" => IsLongest(text, full, Min({MaxValue, U16Max, scratch}))
      BY <3>1, <3>2 DEF Shows
    <3>4. IF value.kind = "fixed" THEN text = full
          ELSE IsLongest(text, full, IF value.kind = "str" THEN Min({MaxValue, U16Max})
                                     ELSE Min({MaxValue, U16Max, scratch}))
      BY <3>3
    <3> QED  BY <3>2, <3>4, Zenon
  <2>6. /\ "Secret" \notin {envelope.fields[i] : i \in DOMAIN envelope.fields}
        /\ Len(envelope.fields) + envelope.omitted = Len(logged.fields)
        /\ Len(envelope.texts) = Len(values)
        /\ envelope.flag <=>
             \E i \in DOMAIN values : envelope.texts[i] # FlattenSeq(values[i].pieces)
    BY <2>8 DEF Tells
  <2> QED  BY <2>2, <2>4, <2>5, <2>6, Zenon
<1>2. TransportInv => EnvelopeIsFaithful
  BY <1>1, Zenon DEF EnvelopeIsFaithful
<1> QED  BY <1>2, TransportStarts, TransportKeeps, PTL DEF TransportSpec
=============================================================================
