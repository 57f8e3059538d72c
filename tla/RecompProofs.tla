---------------------------- MODULE RecompProofs ----------------------------
(***************************************************************************)
(* Theorems about the recompiled code and the host's loop, for every       *)
(* program, every choice of functions, and every limit and budget.         *)
(*                                                                         *)
(* The C stack is bounded and functions run in their own state, none that  *)
(* is stale.  The code and the loop together run the guest as the          *)
(* interpreter alone would: Recomp implements Guest.  What runs has been   *)
(* charged for, and where the code is left there is a way back in.         *)
(***************************************************************************)
EXTENDS Recomp, FiniteSetTheorems, SequenceTheorems, WellFoundedInduction, TLAPS

\* Keys are pairs of an address and a state.
LEMMA KeyParts ==
  ASSUME NEW k \in Nat
  PROVE  /\ Mode(k) \in {0, 1}
         /\ Address(k) \in Nat
         /\ Mode(Address(k)) = 0
         /\ Address(k) + Mode(k) = k
         /\ After(k) \in Nat
         /\ Mode(After(k)) = Mode(k)
         /\ Address(After(k)) = Address(k) + (IF Mode(k) = 1 THEN 2 ELSE 4)
BY DEF Mode, Address, After, Width

\* An address and a state make one key.
LEMMA KeyOf ==
  ASSUME NEW a \in Nat, Mode(a) = 0, NEW m \in {0, 1}
  PROVE  /\ a + m \in Nat
         /\ Mode(a + m) = m
         /\ Address(a + m) = a
BY DEF Mode, Address

LEMMA KeptIsKey ==
  ASSUME NEW k \in Nat, NEW l \in Nat
  PROVE  Kept(k, l) \in Nat
BY DEF Kept, Mode, Address

\* Every set of functions has one that starts first.
LEMMA FirstStarts ==
  ASSUME NEW fs \in SUBSET Functions, fs # {}
  PROVE  \E f \in fs : \A g \in fs : Entry[f] <= Entry[g]
<1> DEFINE R == OpToRel(<, Nat)
           T == {Entry[f] : f \in fs}
<1>1. IsWellFoundedOn(R, Nat)
  BY NatLessThanWellFounded
<1>2. T \subseteq Nat /\ T # {}
  BY RecompAssumption, InstructionsAssumption DEF RecompAssumption, InstructionsAssumption, Keys
<1>3. PICK x \in T : \A y \in T : ~(<<y, x>> \in R)
  <2> HIDE DEF R, T
  <2> QED BY <1>1, <1>2, WFMin
<1>4. R = {ss \in Nat \X Nat : ss[1] < ss[2]}
  BY Zenon DEF OpToRel
<1>5. \A y \in T : ~(y < x)
  <2> TAKE y \in T
  <2>1. <<y, x>> \in Nat \X Nat
    BY <1>2
  <2>2. <<y, x>> \in R <=> y < x
    <3> HIDE DEF R
    <3> QED BY <1>4, <2>1
  <2> QED BY <1>3, <2>2
<1>6. \A y \in T : x <= y
  BY <1>2, <1>5
<1> QED BY <1>6

\* What C functions start and hold, as far as their states go.
LEMMA FunctionFacts ==
  /\ Keys \subseteq Nat
  /\ \A f \in Functions : Entry[f] \in Keys /\ Entry[f] \in Body[f] /\ Body[f] \subseteq Keys
  /\ \A f \in Functions : \A k \in Body[f] : Mode(k) = Mode(Entry[f])
  /\ \A f \in Functions : Labels[f] \subseteq Body[f]
  /\ Overrides \cap Functions = {}
  /\ NoCode \notin Functions \cup Overrides
BY RecompAssumption, InstructionsAssumption
   DEF RecompAssumption, InstructionsAssumption, Labels

\* A name leads to a function in the state of the key it is for.
LEMMA GeneratedFits ==
  ASSUME NEW k \in Nat, Generated(k) # NoCode
  PROVE  Generated(k) \in Functions /\ Mode(Entry[Generated(k)]) = Mode(k)
<1>1. CASE \E f \in Functions : Entry[f] = k
  BY <1>1 DEF Generated
<1>2. CASE ~(\E f \in Functions : Entry[f] = k)
  <2>1. k \in DOMAIN Container /\ Generated(k) = Container[k]
    BY <1>2 DEF Generated
  <2>2. Container[k] \in Functions /\ k \in Labels[Container[k]]
    BY <2>1, RecompAssumption DEF RecompAssumption
  <2> QED BY <2>1, <2>2, FunctionFacts
<1> QED BY <1>1, <1>2

\* Code is a C function that can be called in state m.
Fits(code, m) ==
  /\ code \in Functions \cup Overrides
  /\ code \in Functions => Mode(Entry[code]) = m

LEMMA NameFits ==
  ASSUME NEW k \in Nat, Name(k) # NoCode
  PROVE  Fits(Name(k), Mode(k))
<1>1. CASE Replacing(k) # {}
  <2>1. Name(k) \in Overrides
    BY <1>1 DEF Name, Replacing
  <2> QED BY <2>1, FunctionFacts DEF Fits
<1>2. CASE Replacing(k) = {}
  BY <1>2, GeneratedFits DEF Name, Fits
<1> QED BY <1>1, <1>2

LEMMA LookupFits ==
  ASSUME NEW k \in Nat, Lookup(k) # NoCode
  PROVE  Fits(Lookup(k), Mode(k)) /\ Lookup(k) \notin stale
<1> DEFINE Holders == {f \in Functions : k \in Labels[f]}
           Starting == {f \in Holders : Entry[f] = k}
           fs == IF Starting # {} THEN Starting ELSE Holders
           first == CHOOSE f \in fs : \A g \in fs : Entry[f] <= Entry[g]
<1>1. /\ k \in DOMAIN Entries
      /\ Lookup(k) = Entries[k]
      /\ Entries[k] \notin stale
  BY DEF Lookup
<1>2. k \in (UNION {Labels[f] : f \in Functions}) \cup {Replaces[o] : o \in Overrides}
  BY <1>1 DEF Entries
<1>3. Entries[k] = IF Replacing(k) # {} THEN Name(k) ELSE first
  BY <1>2 DEF Entries
<1>4. CASE Replacing(k) # {}
  <2>1. Name(k) \in Overrides
    BY <1>4 DEF Name, Replacing
  <2> QED BY <1>1, <1>3, <1>4, <2>1, FunctionFacts DEF Fits
<1>5. CASE Replacing(k) = {}
  <2>1. fs # {} /\ fs \subseteq Holders
    <3>1. ~\E o \in Overrides : Replaces[o] = k
      BY <1>5 DEF Replacing
    <3>2. k \notin {Replaces[o] : o \in Overrides}
      BY <3>1
    <3>3. k \in UNION {Labels[f] : f \in Functions}
      BY <1>2, <3>2
    <3>4. PICK f \in Functions : k \in Labels[f]
      BY Zenon, <3>3
    <3>5. f \in Holders
      BY <3>4
    <3> HIDE DEF Holders
    <3> QED BY <3>5
  <2>2. \E f \in fs : \A g \in fs : Entry[f] <= Entry[g]
    <3> HIDE DEF fs
    <3> QED BY <2>1, FirstStarts
  <2>3. first \in fs
    <3> HIDE DEF fs
    <3> QED BY <2>2
  <2>4. first \in Functions /\ k \in Labels[first]
    <3> HIDE DEF fs, first
    <3> QED BY <2>1, <2>3
  <2> QED BY <1>1, <1>3, <1>5, <2>4, FunctionFacts DEF Fits
<1> QED BY <1>4, <1>5
-----------------------------------------------------------------------------
\* The invariant.  What each frame is: compiled code where compiled code can
\* be, none of it stale once it is past its way in, and a function written by
\* hand where only those can be.
Compiled == {"dispatch", "block", "run", "called", "tail", "svc"}
FramesFit ==
  \A i \in 1..Len(frames) :
    /\ frames[i].at \in Compiled => frames[i].fn \in Functions \ stale
    /\ frames[i].at \in {"original", "native"} => frames[i].fn \in Overrides
    /\ frames[i].at = "called" => frames[i].key \in Body[frames[i].fn]

\* What the top frame expects of the state bit, and where its key is.
TopFits ==
  InCode =>
    /\ Top.at = "in" => Fits(Top.fn, thumb)
    /\ Top.at = "dispatch" => Mode(Top.key) = 0
    /\ Top.at \in {"block", "run", "svc"} =>
         Top.key \in Body[Top.fn] /\ thumb = Mode(Entry[Top.fn])

FramesInv ==
  /\ frames \in Seq(Frame)
  /\ FramesFit
  /\ TopFits
  /\ DepthIsCalls
  /\ StackIsBounded

RegsFit ==
  /\ r15 \in Nat /\ Mode(r15) = 0
  /\ thumb \in {0, 1} /\ lr \in Nat /\ stack \in Seq(Nat)
  /\ asked \in BOOLEAN

CountsFit ==
  /\ budget \in Nat /\ given \in Nat /\ ran \in Nat
  /\ modded \in BOOLEAN /\ stale \subseteq Functions

ExitFits == exit \in Exits /\ depth \in 0..DepthLimit

Inv == RegsFit /\ CountsFit /\ ExitFits /\ FramesInv

\* What the operators on the C stack do.
LEMMA TopFacts ==
  ASSUME frames \in Seq(Frame), InCode
  PROVE  /\ Len(frames) \in Nat \ {0}
         /\ Len(frames) \in 1..Len(frames)
         /\ Top = frames[Len(frames)]
         /\ Top \in Frame
BY DEF InCode, Top, Last

LEMMA GoFacts ==
  ASSUME frames \in Seq(Frame), InCode, NEW place \in Places, NEW k \in Nat
  PROVE  /\ Go(place, k) \in Seq(Frame)
         /\ Len(Go(place, k)) = Len(frames)
         /\ Go(place, k) # <<>>
         /\ Go(place, k)[Len(frames)] = [fn |-> Top.fn, at |-> place, key |-> k]
         /\ \A i \in 1..Len(frames) - 1 : Go(place, k)[i] = frames[i]
<1> DEFINE n == Len(frames)
           t == [fn |-> Top.fn, at |-> place, key |-> k]
<1>1. n \in 1..n /\ Top = frames[n] /\ Top \in Frame /\ n \in Nat
  BY TopFacts
<1>2. t \in Frame
  BY <1>1 DEF Frame
<1>3. Go(place, k) = [frames EXCEPT ![n] = t]
  BY DEF Go
<1> HIDE DEF t
<1>4. /\ [frames EXCEPT ![n] = t] \in Seq(Frame)
      /\ Len([frames EXCEPT ![n] = t]) = n
      /\ \A j \in 1..n : [frames EXCEPT ![n] = t][j] = IF j = n THEN t ELSE frames[j]
  BY <1>1, <1>2, ExceptSeq
<1>5. Go(place, k) # <<>>
  BY <1>1, <1>3, <1>4
<1> QED BY <1>1, <1>3, <1>4, <1>5 DEF t

LEMMA FrontFacts ==
  ASSUME NEW S, NEW s \in Seq(S), s # <<>>
  PROVE  /\ Front(s) \in Seq(S)
         /\ Len(Front(s)) = Len(s) - 1
         /\ \A i \in 1..Len(s) - 1 : Front(s)[i] = s[i]
         /\ Front(s) # <<>> => Len(s) - 1 \in 1..Len(s) - 1
<1> DEFINE n == Len(s) - 1
<1>1. n \in Nat /\ \A i \in 1..n : s[i] \in S
  OBVIOUS
<1>2. /\ SubSeq(s, 1, n) \in Seq(S)
      /\ Len(SubSeq(s, 1, n)) = IF 1 <= n THEN n - 1 + 1 ELSE 0
      /\ \A i \in 1..n - 1 + 1 : SubSeq(s, 1, n)[i] = s[1 + i - 1]
  <2> HIDE DEF n
  <2> QED BY <1>1, SubSeqProperties
<1>3. Front(s) = SubSeq(s, 1, n)
  BY DEF Front
<1>4. \A i \in 1..n : 1 + i - 1 = i /\ i \in 1..n - 1 + 1
  BY <1>1
<1>5. Front(s) \in Seq(S) /\ Len(Front(s)) = n
  <2> HIDE DEF n
  <2> QED BY <1>1, <1>2, <1>3
<1>6. \A i \in 1..n : Front(s)[i] = s[i]
  <2> HIDE DEF n
  <2> QED BY <1>1, <1>2, <1>3, <1>4
<1>7. Front(s) # <<>> => n \in 1..n
  <2> HIDE DEF n
  <2> QED BY <1>1, <1>5, EmptySeq
<1> QED BY <1>5, <1>6, <1>7

LEMMA AppendFacts ==
  ASSUME NEW S, NEW s \in Seq(S), NEW e \in S
  PROVE  /\ Append(s, e) \in Seq(S)
         /\ Append(s, e) # <<>>
         /\ Len(Append(s, e)) = Len(s) + 1
         /\ Append(s, e)[Len(s) + 1] = e
         /\ \A i \in 1..Len(s) : Append(s, e)[i] = s[i]
BY AppendProperties

\* Going on in the same frame keeps the invariant.
LEMMA GoKeeps ==
  ASSUME FramesInv, InCode,
         NEW place \in {"dispatch", "block", "run", "svc", "native"}, NEW k \in Nat,
         frames' = Go(place, k),
         depth' = Len(frames) - 1, stale' = stale,
         place # "native" => Top.fn \in Functions \ stale,
         place = "native" => Top.fn \in Overrides,
         place = "dispatch" => Mode(k) = 0,
         place \in {"block", "run", "svc"} => k \in Body[Top.fn] /\ thumb' = Mode(Entry[Top.fn])
  PROVE  FramesInv'
<1> DEFINE n == Len(frames)
<1>1. frames \in Seq(Frame) /\ n \in Nat \ {0}
  BY TopFacts DEF FramesInv
<1>2. /\ frames' \in Seq(Frame)
      /\ Len(frames') = n
      /\ frames' # <<>>
      /\ frames'[n] = [fn |-> Top.fn, at |-> place, key |-> k]
      /\ \A i \in 1..n - 1 : frames'[i] = frames[i]
  BY <1>1, GoFacts DEF Places
<1>3. Top' = frames'[n] /\ InCode'
  BY <1>2 DEF Top, Last, InCode
<1>4. FramesFit'
  <2> SUFFICES ASSUME NEW i \in 1..n
               PROVE  /\ frames'[i].at \in Compiled => frames'[i].fn \in Functions \ stale
                      /\ frames'[i].at \in {"original", "native"} => frames'[i].fn \in Overrides
                      /\ frames'[i].at = "called" => frames'[i].key \in Body[frames'[i].fn]
    BY <1>2 DEF FramesFit
  <2>1. CASE i = n
    BY <1>2, <2>1 DEF Compiled
  <2>2. CASE i # n
    BY <1>1, <1>2, <2>2 DEF FramesInv, FramesFit
  <2> QED BY <2>1, <2>2
<1>5. TopFits'
  BY <1>2, <1>3 DEF TopFits
<1>6. DepthIsCalls'
  <2>1. \A i \in 1..n - 1 : Waiting(i)
    BY <1>1 DEF FramesInv, DepthIsCalls
  <2>2. ~(frames'[n].at \in {"called", "tail", "original"})
    BY <1>2
  <2> QED BY <1>1, <1>2, <2>1, <2>2 DEF DepthIsCalls, Waiting
<1>7. StackIsBounded'
  BY <1>2 DEF FramesInv, StackIsBounded
<1> QED BY <1>2, <1>4, <1>5, <1>6, <1>7 DEF FramesInv

\* So does leaving a function, with its count of the call given back.
LEMMA LeaveKeeps ==
  ASSUME FramesInv, InCode,
         frames' = Front(frames),
         depth' = Len(frames) - 1, stale' = stale
  PROVE  FramesInv'
<1> DEFINE n == Len(frames)
<1>1. frames \in Seq(Frame) /\ n \in Nat \ {0}
  BY TopFacts DEF FramesInv
<1>2. /\ frames' \in Seq(Frame)
      /\ Len(frames') = n - 1
      /\ \A i \in 1..n - 1 : frames'[i] = frames[i]
      /\ frames' # <<>> => n - 1 \in 1..n - 1
  BY <1>1, FrontFacts DEF InCode
<1>3. \A i \in 1..n - 1 : i \in 1..n
  BY <1>1
<1>4. \A i \in 1..n - 1 : Waiting(i)
  BY <1>1 DEF FramesInv, DepthIsCalls
<1>5. FramesFit'
  BY <1>1, <1>2, <1>3 DEF FramesInv, FramesFit
<1>6. InCode' => Top' = frames[n - 1] /\ Waiting(n - 1)
  BY <1>2, <1>4 DEF InCode, Top, Last
<1>7. TopFits'
  BY <1>6 DEF TopFits, Waiting
<1>8. DepthIsCalls'
  <2>1. \A i \in 1..n - 1 : frames'[i].at \in {"called", "tail", "original"}
    BY <1>2, <1>4 DEF Waiting
  <2>2. InCode' => n - 1 \in 1..n - 1
    BY <1>2 DEF InCode
  <2> QED BY <1>1, <1>2, <2>1, <2>2 DEF DepthIsCalls, Waiting
<1>9. StackIsBounded'
  BY <1>1, <1>2, RecompAssumption DEF FramesInv, StackIsBounded, RecompAssumption
<1> QED BY <1>2, <1>5, <1>7, <1>8, <1>9 DEF FramesInv

\* And a call, whether it goes in, finds nothing, or is one too deep.
LEMMA CallKeeps ==
  ASSUME FramesInv, InCode, ~Waiting(Len(frames)),
         NEW code, NEW place \in {"called", "tail", "original"}, NEW k \in Nat,
         Call(code, place, k),
         code # NoCode => Fits(code, thumb'),
         place # "original" => Top.fn \in Functions \ stale,
         place = "original" => Top.fn \in Overrides,
         place = "called" => k \in Body[Top.fn],
         stale' = stale
  PROVE  FramesInv'
<1> DEFINE n == Len(frames)
           new == [fn |-> code, at |-> "in", key |-> k]
<1>1. frames \in Seq(Frame) /\ n \in Nat \ {0} /\ FramesFit /\ n <= DepthLimit + 1
  BY TopFacts DEF FramesInv, StackIsBounded
<1>2. depth = n - 1 /\ \A i \in 1..n - 1 : Waiting(i)
  BY <1>1 DEF FramesInv, DepthIsCalls
<1>3. DepthLimit \in Nat
  BY RecompAssumption DEF RecompAssumption
<1>4. CASE depth + 1 > DepthLimit
  BY <1>2, <1>4, LeaveKeeps DEF Call
<1>5. CASE depth + 1 <= DepthLimit
  <2>1. /\ depth' = n
        /\ frames' = IF code = NoCode THEN Go(place, k) ELSE Append(Go(place, k), new)
    BY <1>1, <1>2, <1>3, <1>5 DEF Call
  <2>2. /\ Go(place, k) \in Seq(Frame)
        /\ Len(Go(place, k)) = n
        /\ Go(place, k) # <<>>
        /\ Go(place, k)[n] = [fn |-> Top.fn, at |-> place, key |-> k]
        /\ \A i \in 1..n - 1 : Go(place, k)[i] = frames[i]
    BY <1>1, GoFacts DEF Places
  <2>3. ASSUME NEW i \in 1..n
        PROVE  /\ Go(place, k)[i].at \in {"called", "tail", "original"}
               /\ Go(place, k)[i].at \in Compiled => Go(place, k)[i].fn \in Functions \ stale
               /\ Go(place, k)[i].at \in {"original", "native"} => Go(place, k)[i].fn \in Overrides
               /\ Go(place, k)[i].at = "called" => Go(place, k)[i].key \in Body[Go(place, k)[i].fn]
    <3>1. CASE i = n
      BY <2>2, <3>1 DEF Compiled
    <3>2. CASE i # n
      <4>1. i \in 1..n - 1
        BY <1>1, <3>2
      <4> QED BY <1>1, <1>2, <2>2, <4>1 DEF Waiting, FramesFit
    <3> QED BY <3>1, <3>2
  <2>4. CASE code = NoCode
    <3>1. frames' = Go(place, k) /\ Len(frames') = n
      BY <2>1, <2>2, <2>4
    <3>2. InCode' /\ Top' = frames'[n]
      BY <2>2, <3>1 DEF InCode, Top, Last
    <3>3. FramesFit'
      BY <2>3, <3>1 DEF FramesFit
    <3>4. TopFits'
      BY <2>2, <3>1, <3>2 DEF TopFits
    <3>5. DepthIsCalls'
      BY <1>1, <2>1, <2>3, <3>1 DEF DepthIsCalls, Waiting
    <3>6. StackIsBounded'
      BY <1>1, <3>1 DEF StackIsBounded
    <3> QED BY <2>2, <3>1, <3>3, <3>4, <3>5, <3>6 DEF FramesInv
  <2>5. CASE code # NoCode
    <3>1. new \in Frame
      BY <2>5 DEF Frame, Fits, Places
    <3>2. /\ frames' \in Seq(Frame)
          /\ frames' # <<>>
          /\ Len(frames') = n + 1
          /\ frames'[n + 1] = new
          /\ \A i \in 1..n : frames'[i] = Go(place, k)[i]
      <4> HIDE DEF new
      <4> QED BY <2>1, <2>2, <2>5, <3>1, AppendFacts
    <3>3. InCode' /\ Top' = new
      BY <3>2 DEF InCode, Top, Last
    <3>4. FramesFit'
      <4> SUFFICES ASSUME NEW i \in 1..n + 1
                   PROVE  /\ frames'[i].at \in Compiled => frames'[i].fn \in Functions \ stale
                          /\ frames'[i].at \in {"original", "native"} => frames'[i].fn \in Overrides
                          /\ frames'[i].at = "called" => frames'[i].key \in Body[frames'[i].fn]
        BY <3>2 DEF FramesFit
      <4>1. CASE i = n + 1
        BY <3>2, <4>1 DEF Compiled
      <4>2. CASE i # n + 1
        <5>1. i \in 1..n
          BY <1>1, <4>2
        <5> QED BY <2>3, <3>2, <5>1
      <4> QED BY <4>1, <4>2
    <3>5. TopFits'
      BY <2>5, <3>3 DEF TopFits, Fits
    <3>6. DepthIsCalls'
      <4>1. ~(frames'[n + 1].at \in {"called", "tail", "original"})
        BY <3>2
      <4>2. \A i \in 1..n : frames'[i].at \in {"called", "tail", "original"}
        BY <2>3, <3>2
      <4> HIDE DEF new
      <4> QED BY <1>1, <2>1, <3>2, <4>1, <4>2 DEF DepthIsCalls, Waiting
    <3>7. StackIsBounded'
      BY <1>1, <1>2, <1>3, <1>5, <3>2 DEF StackIsBounded
    <3> QED BY <3>2, <3>4, <3>5, <3>6, <3>7 DEF FramesInv
  <2> QED BY <2>4, <2>5
<1>6. depth \in Int
  BY <1>1, <1>2
<1> QED BY <1>3, <1>4, <1>5, <1>6

\* Going on after an instruction, in the state it left.
LEMMA ProceedKeeps ==
  ASSUME FramesInv, InCode, Top.fn \in Functions \ stale,
         NEW k \in Nat, Mode(k) = Mode(Entry[Top.fn]),
         frames' = Proceed(Top.fn, k), thumb' = Mode(k),
         depth' = Len(frames) - 1, stale' = stale
  PROVE  FramesInv'
<1>1. After(k) \in Nat /\ Mode(After(k)) = Mode(k)
  BY KeyParts
<1>2. Address(After(k)) \in Nat /\ Mode(Address(After(k))) = 0
  BY <1>1, KeyParts
<1>3. CASE After(k) \notin Body[Top.fn]
  BY <1>2, <1>3, GoKeeps DEF Proceed
<1>4. CASE After(k) \in Labels[Top.fn] /\ After(k) \in Body[Top.fn]
  BY <1>1, <1>4, GoKeeps DEF Proceed
<1>5. CASE After(k) \notin Labels[Top.fn] /\ After(k) \in Body[Top.fn]
  BY <1>1, <1>5, GoKeeps DEF Proceed
<1> QED BY <1>3, <1>4, <1>5

\* What the invariant says of the top frame.
LEMMA InFrame ==
  ASSUME Inv, InCode
  PROVE  /\ Top.key \in Nat
         /\ Len(frames) - 1 \in Nat
         /\ ~Waiting(Len(frames)) => depth = Len(frames) - 1
         /\ Waiting(Len(frames)) <=> Top.at \in {"called", "tail", "original"}
         /\ Waiting(Len(frames)) => depth - 1 = Len(frames) - 1
         /\ Top.at \in Compiled => Top.fn \in Functions \ stale
         /\ Top.at \in {"original", "native"} => Top.fn \in Overrides
         /\ Top.at \in {"block", "run", "svc"} =>
              /\ Top.key \in Body[Top.fn] /\ Top.key \in Keys
              /\ thumb = Mode(Entry[Top.fn]) /\ thumb = Mode(Top.key)
         /\ Top.at = "called" => Mode(Top.key) = Mode(Entry[Top.fn])
<1>1. /\ Len(frames) \in Nat \ {0}
      /\ Len(frames) \in 1..Len(frames)
      /\ Top = frames[Len(frames)]
      /\ Top \in Frame
  BY TopFacts DEF Inv, FramesInv
<1>2. Top.at \in Compiled => Top.fn \in Functions \ stale
  BY <1>1 DEF Inv, FramesInv, FramesFit
<1>3. Top.at \in {"original", "native"} => Top.fn \in Overrides
  BY <1>1 DEF Inv, FramesInv, FramesFit
<1>4. depth = IF Waiting(Len(frames)) THEN Len(frames) ELSE Len(frames) - 1
  BY DEF Inv, FramesInv, DepthIsCalls
<1>5. Waiting(Len(frames)) <=> Top.at \in {"called", "tail", "original"}
  BY <1>1 DEF Waiting
<1>6. Top.at \in {"block", "run", "svc"} =>
        /\ Top.key \in Body[Top.fn] /\ Top.key \in Keys
        /\ thumb = Mode(Entry[Top.fn]) /\ thumb = Mode(Top.key)
  BY <1>2, FunctionFacts DEF Inv, FramesInv, TopFits, Compiled
<1>7. Top.at = "called" => Mode(Top.key) = Mode(Entry[Top.fn])
  <2>1. Top.at = "called" => Top.key \in Body[Top.fn]
    BY <1>1 DEF Inv, FramesInv, FramesFit
  <2> QED BY <1>2, <2>1, FunctionFacts DEF Compiled
<1> QED BY <1>1, <1>2, <1>3, <1>4, <1>5, <1>6, <1>7 DEF Frame

LEMMA SavedType ==
  ASSUME NEW s \in Seq(Nat), NEW l \in Nat
  PROVE  Saved(s, l) \in Seq(Nat) /\ Popped(s) \in Nat /\ Rest(s) \in Seq(Nat)
<1>1. Saved(s, l) \in Seq(Nat)
  <2>1. StackSize \in Nat \ {0}
    BY InstructionsAssumption DEF InstructionsAssumption
  <2>2. CASE Len(s) = StackSize
    <3>1. Tail(s) \in Seq(Nat)
      BY <2>1, <2>2
    <3> QED BY <2>2, <3>1, AppendFacts DEF Saved
  <2>3. CASE Len(s) # StackSize
    BY <2>3, AppendFacts DEF Saved
  <2> QED BY <2>2, <2>3
<1>2. CASE s = <<>>
  BY <1>1, <1>2, InstructionsAssumption DEF Popped, Rest, InstructionsAssumption
<1>3. CASE s # <<>>
  BY <1>1, <1>3, FrontFacts DEF Popped, Rest, Last
<1> QED BY <1>2, <1>3

LEMMA OutcomeTypes ==
  ASSUME NEW i \in Instruction, NEW k \in Nat, NEW l \in Nat, NEW s \in Seq(Nat),
         NEW o \in Outcomes(i, k, l, s)
  PROVE  o.pc \in Nat /\ o.lr \in Nat /\ o.stack \in Seq(Nat) /\ o.asked \in BOOLEAN
<1> DEFINE At(p) == [pc |-> p, lr |-> l, stack |-> s, asked |-> FALSE]
           Typed(x) == x.pc \in Nat /\ x.lr \in Nat /\ x.stack \in Seq(Nat) /\ x.asked \in BOOLEAN
<1>1. After(k) \in Nat
  BY KeyParts
<1>2. i.to \subseteq Nat
  BY InstructionsAssumption DEF InstructionsAssumption, Instruction, Keys
<1>3. Kept(k, l) \in Nat
  BY KeptIsKey
<1>4. Saved(s, l) \in Seq(Nat) /\ Popped(s) \in Nat /\ Rest(s) \in Seq(Nat)
  BY SavedType
<1>5. o = At(After(k)) => Typed(o)
  BY <1>1
<1>6. CASE o # At(After(k))
  <2>1. i.op \in Operations
    BY DEF Instruction
  <2>2. i.op # "plain"
    BY <1>6 DEF Outcomes
  <2>3. CASE i.op = "link"
    <3>1. PICK t \in i.to : o = [pc |-> After(k), lr |-> t, stack |-> s, asked |-> FALSE]
      BY <1>6, <2>3 DEF Outcomes
    <3> QED BY <1>1, <1>2, <3>1
  <2>4. CASE i.op \in {"b", "bx"}
    <3>1. PICK t \in i.to : o = At(t)
      BY <1>6, <2>4 DEF Outcomes
    <3> QED BY <1>2, <3>1
  <2>5. CASE i.op \in {"bl", "blx"}
    <3>1. PICK t \in i.to : o = [pc |-> t, lr |-> After(k), stack |-> s, asked |-> FALSE]
      BY <1>6, <2>5 DEF Outcomes
    <3> QED BY <1>1, <1>2, <3>1
  <2>6. CASE i.op = "return"
    <3>1. o = At(l)
      BY <1>6, <2>6 DEF Outcomes
    <3> QED BY <3>1
  <2>7. CASE i.op = "movpc"
    <3>1. o = At(Kept(k, l))
      BY <1>6, <2>7 DEF Outcomes
    <3> QED BY <1>3, <3>1
  <2>8. CASE i.op = "push"
    <3>1. o = [pc |-> After(k), lr |-> l, stack |-> Saved(s, l), asked |-> FALSE]
      BY <1>6, <2>8 DEF Outcomes
    <3> QED BY <1>1, <1>4, <3>1
  <2>9. CASE i.op = "pop"
    <3>1. o = [pc |-> Popped(s), lr |-> l, stack |-> Rest(s), asked |-> FALSE]
      BY <1>6, <2>9 DEF Outcomes
    <3> QED BY <1>4, <3>1
  <2>10. CASE i.op = "svc"
    <3>1. o = [pc |-> After(k), lr |-> l, stack |-> s, asked |-> TRUE]
      BY <1>6, <2>10 DEF Outcomes
    <3> QED BY <1>1, <3>1
  <2>11. CASE i.op = "und"
    <3>1. PICK t \in i.to \cup {After(k)} : o = At(t)
      BY <1>6, <2>11 DEF Outcomes
    <3> QED BY <1>1, <1>2, <3>1
  <2> QED BY <2>1, <2>2, <2>3, <2>4, <2>5, <2>6, <2>7, <2>8, <2>9, <2>10, <2>11 DEF Operations
<1> QED BY <1>5, <1>6

LEMMA CallFits ==
  ASSUME ExitFits, NEW code, NEW place, NEW k, Call(code, place, k)
  PROVE  ExitFits'
BY RecompAssumption DEF RecompAssumption, Call, ExitFits, Exits

LEMMA PointFits ==
  ASSUME NEW k \in Nat, PointTo(k)
  PROVE  r15' \in Nat /\ Mode(r15') = 0 /\ thumb' = Mode(k) /\ thumb' \in {0, 1}
BY KeyParts DEF PointTo

LEMMA ReturnFits ==
  ASSUME NEW k \in Nat, NEW value \in Nat, ReturnTo(k, value), thumb = Mode(k)
  PROVE  r15' \in Nat /\ Mode(r15') = 0 /\ thumb' = Mode(value) /\ thumb' \in {0, 1}
BY KeyParts DEF ReturnTo

\* Every way into, through and out of a function keeps the invariant.
LEMMA EnteringSteps ==
  ASSUME Inv, WayIn \/ Dispatch \/ Block \/ Back
  PROVE  Inv'
<1> USE DEF Inv, ExitFits
<1>1. InCode
  BY DEF WayIn, Dispatch, Block, Back, Is
<1>2. /\ Top.key \in Nat
      /\ ~Waiting(Len(frames)) => depth = Len(frames) - 1
      /\ Waiting(Len(frames)) <=> Top.at \in {"called", "tail", "original"}
      /\ Waiting(Len(frames)) => depth - 1 = Len(frames) - 1
      /\ Top.at \in Compiled => Top.fn \in Functions \ stale
      /\ Len(frames) - 1 \in Nat
      /\ Top.at = "called" => Mode(Top.key) = Mode(Entry[Top.fn])
  BY <1>1, InFrame
<1>3. CASE WayIn
  <2>1. Top.at = "in" /\ Top.fn \in Functions /\ depth = Len(frames) - 1
    BY <1>2, <1>3 DEF WayIn, Is
  <2>2. RegsFit' /\ CountsFit'
    BY <1>3 DEF WayIn, RegsFit, CountsFit, regs, counts, world
  <2>3. ExitFits'
    BY <1>3 DEF WayIn, Leave, Exits
  <2>4. Mode(Entry[Top.fn]) = thumb
    BY <1>1, <2>1 DEF FramesInv, TopFits, Fits
  <2>5. CASE Top.fn \notin stale /\ r15 = Address(Entry[Top.fn])
    <3>1. frames' = Go("block", Entry[Top.fn]) /\ depth' = depth /\ stale' = stale /\ thumb' = thumb
      BY <1>3, <2>5 DEF WayIn, world, regs
    <3>2. Entry[Top.fn] \in Nat /\ Entry[Top.fn] \in Body[Top.fn]
      BY <2>1, FunctionFacts
    <3> QED BY <1>1, <2>1, <2>2, <2>3, <2>4, <2>5, <3>1, <3>2, GoKeeps
  <2>6. CASE Top.fn \in stale
    <3>1. frames' = Front(frames) /\ depth' = depth /\ stale' = stale
      BY <1>3, <2>6 DEF WayIn, Leave, world
    <3> QED BY <1>1, <2>1, <2>2, <2>3, <3>1, LeaveKeeps
  <2>7. CASE Top.fn \notin stale /\ r15 # Address(Entry[Top.fn])
    <3>1. frames' = Go("dispatch", r15) /\ depth' = depth /\ stale' = stale
      BY <1>3, <2>7 DEF WayIn, world
    <3>2. r15 \in Nat /\ Mode(r15) = 0
      BY DEF RegsFit
    <3> QED BY <1>1, <2>1, <2>2, <2>3, <2>7, <3>1, <3>2, GoKeeps
  <2> QED BY <2>2, <2>3, <2>5, <2>6, <2>7
<1>4. CASE Dispatch
  <2>1. Top.at = "dispatch" /\ depth = Len(frames) - 1 /\ Top.fn \in Functions \ stale
    BY <1>2, <1>4 DEF Dispatch, Is, Compiled
  <2>2. Mode(Top.key) = 0 /\ thumb \in {0, 1}
    BY <1>1, <2>1 DEF FramesInv, TopFits, RegsFit
  <2> DEFINE k == Top.key + thumb
  <2>3. k \in Nat /\ Mode(k) = thumb
    BY <1>2, <2>2, KeyOf
  <2>4. thumb' = thumb /\ stale' = stale /\ CountsFit'
    BY <1>4 DEF Dispatch, CountsFit, counts, world
  <2>5. CASE thumb = Mode(Entry[Top.fn]) /\ k \in Labels[Top.fn]
    <3>1. frames' = Go("block", k) /\ depth' = depth /\ UNCHANGED <<r15, exit>>
      BY <1>4, <2>5 DEF Dispatch
    <3>2. FramesInv'
      <4> HIDE DEF k
      <4> QED BY <1>1, <2>1, <2>3, <2>4, <2>5, <3>1, FunctionFacts, GoKeeps
    <3> QED BY <1>4, <2>4, <3>1, <3>2 DEF Dispatch, RegsFit
  <2>6. CASE ~(thumb = Mode(Entry[Top.fn]) /\ k \in Labels[Top.fn])
    <3>1. r15' = Top.key /\ Call(Lookup(k), "tail", k)
      BY <1>4, <2>6 DEF Dispatch
    <3>2. Lookup(k) # NoCode => Fits(Lookup(k), thumb')
      <4> HIDE DEF k
      <4> QED BY <2>3, <2>4, LookupFits
    <3>3. FramesInv' /\ ExitFits'
      <4> HIDE DEF k
      <4> QED BY <1>1, <1>2, <2>1, <2>3, <2>4, <3>1, <3>2, CallKeeps, CallFits
    <3> QED BY <1>2, <1>4, <2>2, <2>4, <3>1, <3>3 DEF Dispatch, RegsFit
  <2> QED BY <2>5, <2>6
<1>5. CASE Block
  <2> DEFINE charge == RunLength(Top.fn, Top.key)
  <2>1. /\ Top.at = "block" /\ depth = Len(frames) - 1 /\ Top.fn \in Functions \ stale
        /\ Top.key \in Body[Top.fn] /\ thumb = Mode(Entry[Top.fn])
    BY <1>1, <1>2, <1>5, InFrame DEF Block, Is, Compiled
  <2>2. charge \in Nat
    <3>1. IsFiniteSet(Body[Top.fn])
      BY <2>1, RecompAssumption DEF RecompAssumption
    <3> QED BY <3>1, FS_Subset, FS_CardinalityType DEF RunLength
  <2>3. thumb' = thumb /\ stale' = stale
    BY <1>5 DEF Block, world
  <2>4. CASE budget - charge < 0
    <3>1. r15' = Address(Top.key) /\ Leave("budget") /\ budget' = budget
      BY <1>5, <2>4 DEF Block
    <3>2. FramesInv'
      BY <1>1, <2>1, <2>3, <3>1, LeaveKeeps DEF Leave
    <3>3. RegsFit' /\ ExitFits'
      BY <1>2, <1>5, <3>1, KeyParts DEF Block, RegsFit, Leave, Exits
    <3> QED BY <1>5, <3>1, <3>2, <3>3 DEF Block, CountsFit, world
  <2>5. CASE ~(budget - charge < 0)
    <3>1. budget' = budget - charge /\ frames' = Go("run", Top.key) /\ UNCHANGED <<r15, exit, depth>>
      BY <1>5, <2>5 DEF Block
    <3>2. FramesInv'
      BY <1>1, <1>2, <2>1, <2>3, <3>1, GoKeeps
    <3>3. CountsFit'
      <4> HIDE DEF charge
      <4> QED BY <1>5, <2>2, <2>5, <3>1 DEF Block, CountsFit, world
    <3> QED BY <1>5, <3>1, <3>2, <3>3 DEF Block, RegsFit
  <2> QED BY <2>4, <2>5
<1>6. CASE Back
  <2>1. /\ Top.at \in {"called", "tail", "original"}
        /\ depth' = Len(frames) - 1
        /\ UNCHANGED <<regs, asked, counts, world, exit>>
    BY <1>2, <1>6 DEF Back
  <2>2. RegsFit' /\ CountsFit'
    BY <2>1 DEF RegsFit, CountsFit, regs, counts, world
  <2>3. ExitFits'
    BY <1>2, <2>1, RecompAssumption DEF RecompAssumption, FramesInv, StackIsBounded
  <2>4. CASE exit # "none" \/ Top.at # "called"
    <3>1. frames' = Front(frames) /\ stale' = stale
      BY <1>6, <2>4 DEF Back, world
    <3> QED BY <1>1, <2>1, <2>2, <2>3, <3>1, LeaveKeeps
  <2>5. CASE exit = "none" /\ Top.at = "called" /\ r15 = Address(After(Top.key)) /\ thumb = Mode(Top.key)
    <3>1. Top.fn \in Functions \ stale /\ frames' = Proceed(Top.fn, Top.key)
      BY <1>2, <1>6, <2>5 DEF Back, Compiled
    <3>2. thumb' = thumb /\ stale' = stale
      BY <2>1 DEF regs, world
    <3> QED BY <1>1, <1>2, <2>1, <2>2, <2>5, <2>3, <3>1, <3>2, ProceedKeeps
  <2>6. CASE exit = "none" /\ Top.at = "called" /\ ~(r15 = Address(After(Top.key)) /\ thumb = Mode(Top.key))
    <3>1. Top.fn \in Functions \ stale /\ frames' = Go("dispatch", r15)
      BY <1>2, <1>6, <2>6 DEF Back, Compiled
    <3>2. r15 \in Nat /\ Mode(r15) = 0 /\ stale' = stale
      BY <2>1 DEF RegsFit, world
    <3> QED BY <1>1, <2>1, <2>2, <2>3, <3>1, <3>2, GoKeeps
  <2> QED BY <2>4, <2>5, <2>6
<1> QED BY <1>3, <1>4, <1>5, <1>6

\* Where an instruction runs, and what of the world it leaves alone.
LEMMA RunFacts ==
  ASSUME Inv, Is("run")
  PROVE  /\ InCode /\ Top.at = "run"
         /\ Top.fn \in Functions \ stale
         /\ Top.key \in Nat /\ Top.key \in Keys /\ Top.key \in Body[Top.fn]
         /\ Made[Top.key] \in Instruction /\ Made[Top.key].to \subseteq Nat
         /\ thumb = Mode(Top.key) /\ thumb = Mode(Entry[Top.fn])
         /\ depth = Len(frames) - 1 /\ ~Waiting(Len(frames))
<1>1. InCode /\ Top.at = "run"
  BY DEF Is
<1>2. /\ Top.fn \in Functions \ stale
      /\ Top.key \in Nat /\ Top.key \in Keys /\ Top.key \in Body[Top.fn]
      /\ thumb = Mode(Top.key) /\ thumb = Mode(Entry[Top.fn])
      /\ depth = Len(frames) - 1 /\ ~Waiting(Len(frames))
  BY <1>1, InFrame DEF Compiled
<1>3. Made[Top.key] \in Instruction
  BY <1>2, InstructionsAssumption DEF InstructionsAssumption
<1>4. Made[Top.key].to \subseteq Nat
  BY <1>3, InstructionsAssumption DEF InstructionsAssumption, Instruction, Keys
<1> QED BY <1>1, <1>2, <1>3, <1>4

LEMMA RunsFacts ==
  ASSUME Inv, NEW op, Runs(op)
  PROVE  Is("run") /\ CountsFit' /\ stale' = stale
BY DEF Inv, Runs, CountsFit, world

\* Instructions that go on behind themselves.
LEMMA PlainSteps ==
  ASSUME Inv, Skip \/ Plain \/ Link \/ Push
  PROVE  Inv'
<1> USE DEF Inv
<1>1. Is("run") /\ CountsFit' /\ stale' = stale
  <2>1. CASE Skip
    BY <2>1 DEF Skip, CountsFit, world
  <2> QED BY <2>1, RunsFacts DEF Plain, Link, Push
<1>2. frames' = Proceed(Top.fn, Top.key) /\ depth' = depth /\ exit' = exit /\ thumb' = thumb
  BY DEF Skip, Plain, Link, Push, regs
<1>3. FramesInv'
  BY <1>1, <1>2, RunFacts, ProceedKeeps
<1>4. RegsFit'
  <2>1. CASE Skip \/ Plain
    BY <2>1 DEF Skip, Plain, regs, RegsFit
  <2>2. CASE Link
    BY <1>1, <2>2, RunFacts DEF Link, RegsFit
  <2>3. CASE Push
    <3>1. Saved(stack, lr) \in Seq(Nat)
      BY SavedType DEF RegsFit
    <3> QED BY <2>3, <3>1 DEF Push, RegsFit
  <2> QED BY <2>1, <2>2, <2>3
<1> QED BY <1>1, <1>2, <1>3, <1>4 DEF ExitFits

\* Branches and calls.
LEMMA BranchSteps ==
  ASSUME Inv, Branch \/ BranchRegister \/ CallDirect \/ CallRegister
  PROVE  Inv'
<1> USE DEF Inv
<1>1. Is("run") /\ CountsFit' /\ stale' = stale
  BY RunsFacts DEF Branch, BranchRegister, CallDirect, CallRegister
<1>2. /\ InCode /\ Top.at = "run"
      /\ Top.fn \in Functions \ stale
      /\ Top.key \in Nat /\ Top.key \in Keys /\ Top.key \in Body[Top.fn]
      /\ Made[Top.key].to \subseteq Nat
      /\ thumb = Mode(Top.key) /\ thumb = Mode(Entry[Top.fn])
      /\ depth = Len(frames) - 1 /\ ~Waiting(Len(frames))
  BY <1>1, RunFacts
<1>3. CASE Branch
  <2>1. PICK t \in Made[Top.key].to : Jump(t)
    BY <1>3 DEF Branch
  <2>2. t \in Nat /\ Mode(t) = Mode(Top.key)
    BY <1>2, <1>3, <2>1, InstructionsAssumption DEF Branch, Runs, InstructionsAssumption
  <2>3. thumb' = thumb /\ lr' = lr /\ stack' = stack /\ asked' = asked
    BY <1>3 DEF Branch
  <2>4. CASE t \in Labels[Top.fn]
    <3>1. frames' = Go("block", t) /\ r15' = r15 /\ exit' = exit /\ depth' = depth
      BY <2>1, <2>4 DEF Jump
    <3>2. FramesInv'
      BY <1>1, <1>2, <2>2, <2>3, <2>4, <3>1, FunctionFacts, GoKeeps
    <3> QED BY <1>1, <2>3, <3>1, <3>2 DEF RegsFit, ExitFits
  <2>5. CASE t \notin Labels[Top.fn] /\ Name(t) # NoCode
    <3>1. r15' = Address(t) /\ Call(Name(t), "tail", t)
      BY <2>1, <2>5 DEF Jump
    <3>2. Fits(Name(t), thumb')
      BY <1>2, <2>2, <2>3, <2>5, NameFits
    <3>3. FramesInv' /\ ExitFits'
      BY <1>1, <1>2, <2>2, <3>1, <3>2, CallKeeps, CallFits
    <3> QED BY <1>1, <2>2, <2>3, <3>1, <3>3, KeyParts DEF RegsFit
  <2>6. CASE t \notin Labels[Top.fn] /\ Name(t) = NoCode
    <3>1. frames' = Go("dispatch", Address(t)) /\ r15' = r15 /\ exit' = exit /\ depth' = depth
      BY <2>1, <2>6 DEF Jump
    <3>2. Address(t) \in Nat /\ Mode(Address(t)) = 0
      BY <2>2, KeyParts
    <3>3. FramesInv'
      BY <1>1, <1>2, <3>1, <3>2, GoKeeps
    <3> QED BY <1>1, <2>3, <3>1, <3>3 DEF RegsFit, ExitFits
  <2> QED BY <2>4, <2>5, <2>6
<1>4. CASE BranchRegister
  <2>1. PICK t \in Made[Top.key].to : thumb' = Mode(t) /\ frames' = Go("dispatch", Address(t))
    BY <1>4 DEF BranchRegister
  <2>2. Address(t) \in Nat /\ Mode(Address(t)) = 0 /\ Mode(t) \in {0, 1}
    BY <1>2, <2>1, KeyParts
  <2>3. UNCHANGED <<r15, lr, stack, asked, exit, depth>>
    BY <1>4 DEF BranchRegister
  <2>4. FramesInv'
    BY <1>1, <1>2, <2>1, <2>2, <2>3, GoKeeps
  <2> QED BY <1>1, <2>1, <2>2, <2>3, <2>4 DEF RegsFit, ExitFits
<1>5. CASE CallDirect
  <2>1. PICK t \in Made[Top.key].to :
          /\ ReturnTo(Top.key, t)
          /\ Call(IF Name(t) # NoCode THEN Name(t) ELSE Lookup(t), "called", Top.key)
    BY <1>5 DEF CallDirect
  <2> DEFINE code == IF Name(t) # NoCode THEN Name(t) ELSE Lookup(t)
  <2>2. lr' = After(Top.key) /\ stack' = stack /\ asked' = asked /\ t \in Nat
    BY <1>2, <1>5, <2>1 DEF CallDirect
  <2>3. r15' \in Nat /\ Mode(r15') = 0 /\ thumb' = Mode(t) /\ thumb' \in {0, 1}
    BY <1>2, <2>1, <2>2, ReturnFits
  <2>4. code # NoCode => Fits(code, thumb')
    BY <2>2, <2>3, NameFits, LookupFits
  <2>5. Call(code, "called", Top.key)
    BY <2>1
  <2>6. FramesInv' /\ ExitFits'
    <3> HIDE DEF code
    <3> QED BY <1>1, <1>2, <2>4, <2>5, CallKeeps, CallFits
  <2> QED BY <1>1, <1>2, <2>2, <2>3, <2>6, KeyParts DEF RegsFit
<1>6. CASE CallRegister
  <2>1. PICK t \in Made[Top.key].to : PointTo(t) /\ Call(Lookup(t), "called", Top.key)
    BY <1>6 DEF CallRegister
  <2>2. lr' = After(Top.key) /\ stack' = stack /\ asked' = asked /\ t \in Nat
    BY <1>2, <1>6, <2>1 DEF CallRegister
  <2>3. r15' \in Nat /\ Mode(r15') = 0 /\ thumb' = Mode(t) /\ thumb' \in {0, 1}
    BY <2>1, <2>2, PointFits
  <2>4. Lookup(t) # NoCode => Fits(Lookup(t), thumb')
    BY <2>2, <2>3, LookupFits
  <2>5. FramesInv' /\ ExitFits'
    BY <1>1, <1>2, <2>1, <2>4, CallKeeps, CallFits
  <2> QED BY <1>1, <1>2, <2>2, <2>3, <2>5, KeyParts DEF RegsFit
<1> QED BY <1>3, <1>4, <1>5, <1>6

\* Returns, and an svc.
LEMMA ReturnSteps ==
  ASSUME Inv, Return \/ MoveReturn \/ PopReturn \/ Svc
  PROVE  Inv'
<1> USE DEF Inv
<1>1. Is("run") /\ CountsFit' /\ stale' = stale
  BY RunsFacts DEF Return, MoveReturn, PopReturn, Svc
<1>2. /\ InCode /\ Top.at = "run"
      /\ Top.fn \in Functions \ stale
      /\ Top.key \in Nat /\ Top.key \in Body[Top.fn]
      /\ thumb = Mode(Top.key) /\ thumb = Mode(Entry[Top.fn])
      /\ depth = Len(frames) - 1
  BY <1>1, RunFacts
<1>3. CASE Return
  <2>1. UNCHANGED <<lr, stack, asked, exit, depth>> /\ frames' = Front(frames) /\ ReturnTo(Top.key, lr)
    BY <1>3 DEF Return
  <2>2. r15' \in Nat /\ Mode(r15') = 0 /\ thumb' \in {0, 1}
    BY <1>2, <2>1, ReturnFits DEF RegsFit
  <2>3. FramesInv'
    BY <1>1, <1>2, <2>1, LeaveKeeps
  <2> QED BY <1>1, <2>1, <2>2, <2>3 DEF RegsFit, ExitFits
<1>4. CASE MoveReturn
  <2>1. /\ UNCHANGED <<thumb, lr, stack, asked, exit, depth>>
        /\ frames' = Front(frames)
        /\ r15' = Address(Kept(Top.key, lr))
    BY <1>4 DEF MoveReturn
  <2>2. r15' \in Nat /\ Mode(r15') = 0
    BY <1>2, <2>1, KeptIsKey, KeyParts DEF RegsFit
  <2>3. FramesInv'
    BY <1>1, <1>2, <2>1, LeaveKeeps
  <2> QED BY <1>1, <2>1, <2>2, <2>3 DEF RegsFit, ExitFits
<1>5. CASE PopReturn
  <2>1. /\ UNCHANGED <<lr, asked, exit, depth>>
        /\ frames' = Front(frames)
        /\ ReturnTo(Top.key, Popped(stack)) /\ stack' = Rest(stack)
    BY <1>5 DEF PopReturn
  <2>2. Popped(stack) \in Nat /\ Rest(stack) \in Seq(Nat)
    BY SavedType DEF RegsFit
  <2>3. r15' \in Nat /\ Mode(r15') = 0 /\ thumb' \in {0, 1}
    BY <1>2, <2>1, <2>2, ReturnFits
  <2>4. FramesInv'
    BY <1>1, <1>2, <2>1, LeaveKeeps
  <2> QED BY <1>1, <2>1, <2>2, <2>3, <2>4 DEF RegsFit, ExitFits
<1>6. CASE Svc
  <2>1. /\ UNCHANGED <<thumb, lr, stack, exit, depth>>
        /\ frames' = Go("svc", Top.key)
        /\ r15' = Address(After(Top.key)) /\ asked' = TRUE
    BY <1>6 DEF Svc
  <2>2. r15' \in Nat /\ Mode(r15') = 0
    BY <1>2, <2>1, KeyParts
  <2>3. FramesInv'
    BY <1>1, <1>2, <2>1, GoKeeps
  <2> QED BY <1>1, <2>1, <2>2, <2>3 DEF RegsFit, ExitFits
<1> QED BY <1>3, <1>4, <1>5, <1>6

\* What the interpreter does, for the code and for the host.
LEMMA OutcomeFits ==
  ASSUME RegsFit, NEW k \in Keys, NEW o \in Outcomes(Memory(k), k, lr, stack),
         PointTo(o.pc), lr' = o.lr, stack' = o.stack, asked' = o.asked
  PROVE  RegsFit' /\ o.pc \in Nat /\ thumb' = Mode(o.pc)
<1>1. Memory(k) \in Instruction /\ k \in Nat
  BY InstructionsAssumption DEF InstructionsAssumption, Memory
<1>2. o.pc \in Nat /\ o.lr \in Nat /\ o.stack \in Seq(Nat) /\ o.asked \in BOOLEAN
  BY <1>1, OutcomeTypes DEF RegsFit
<1> QED BY <1>2, PointFits DEF RegsFit

LEMMA UndefinedStep ==
  ASSUME Inv, Undefined
  PROVE  Inv'
<1> USE DEF Inv
<1>1. Is("run") /\ CountsFit' /\ stale' = stale
  BY RunsFacts DEF Undefined
<1>2. /\ InCode /\ Top.fn \in Functions \ stale
      /\ Top.key \in Nat /\ Top.key \in Keys
      /\ thumb = Mode(Top.key) /\ thumb = Mode(Entry[Top.fn])
      /\ depth = Len(frames) - 1
  BY <1>1, RunFacts
<1>3. PICK o \in Outcomes(Memory(Top.key), Top.key, lr, stack) :
        /\ PointTo(o.pc)
        /\ lr' = o.lr /\ stack' = o.stack /\ asked' = o.asked
        /\ IF o.pc = After(Top.key)
           THEN frames' = Proceed(Top.fn, Top.key) /\ UNCHANGED <<exit, depth>>
           ELSE Leave("unwind")
  BY DEF Undefined
<1>4. RegsFit' /\ thumb' = Mode(o.pc)
  BY <1>2, <1>3, OutcomeFits
<1>5. CASE o.pc = After(Top.key)
  <2>1. thumb' = Mode(Top.key)
    BY <1>2, <1>4, <1>5, KeyParts
  <2>2. FramesInv'
    BY <1>1, <1>2, <1>3, <1>5, <2>1, ProceedKeeps
  <2> QED BY <1>1, <1>3, <1>4, <1>5, <2>2 DEF ExitFits
<1>6. CASE o.pc # After(Top.key)
  <2>1. frames' = Front(frames) /\ depth' = depth /\ exit' = "unwind"
    BY <1>3, <1>6 DEF Leave
  <2>2. FramesInv'
    BY <1>1, <1>2, <2>1, LeaveKeeps
  <2> QED BY <1>1, <1>4, <2>1, <2>2 DEF ExitFits, Exits
<1> QED BY <1>5, <1>6

\* Natives and functions written by hand.
LEMMA ByHandSteps ==
  ASSUME Inv, Native \/ NativeWork \/ Original
  PROVE  Inv'
<1> USE DEF Inv
<1>1. InCode /\ Top.key \in Nat /\ Len(frames) - 1 \in Nat /\ Natives \subseteq Overrides
  BY InFrame, RecompAssumption DEF Native, NativeWork, Original, Is, RecompAssumption
<1>2. Top.at \in {"in", "native"} => depth = Len(frames) - 1 /\ ~Waiting(Len(frames))
  BY <1>1, InFrame
<1>3. \A o \in Overrides : Replaces[o] \in Nat
  BY RecompAssumption, InstructionsAssumption DEF RecompAssumption, InstructionsAssumption
<1>4. CASE Native
  <2>1. /\ Top.at = "in" /\ Top.fn \in Natives
        /\ budget >= Cost[Top.fn] /\ budget' = budget - Cost[Top.fn]
        /\ frames' = Go("native", Replaces[Top.fn])
        /\ UNCHANGED <<regs, asked, given, ran, world, exit, depth>>
    BY <1>4 DEF Native, Is
  <2>2. Cost[Top.fn] \in Nat
    BY <2>1, RecompAssumption DEF RecompAssumption
  <2>3. RegsFit' /\ CountsFit' /\ ExitFits'
    BY <2>1, <2>2 DEF RegsFit, CountsFit, ExitFits, regs, world
  <2>4. FramesInv'
    BY <1>1, <1>2, <1>3, <2>1, GoKeeps DEF world
  <2> QED BY <2>3, <2>4
<1>5. CASE NativeWork
  <2>1. /\ Top.at = "native" /\ Top.fn \in Overrides
        /\ ran' = ran + 1
        /\ UNCHANGED <<lr, stack, asked, budget, given, world, exit, depth>>
    BY <1>1, <1>5, InFrame DEF NativeWork, Is
  <2>2. CountsFit' /\ ExitFits' /\ stale' = stale
    BY <2>1 DEF CountsFit, ExitFits, world
  <2>3. CASE Made[Top.key].op = "return"
    <3>1. PointTo(lr) /\ frames' = Front(frames)
      BY <1>5, <2>3 DEF NativeWork
    <3>2. r15' \in Nat /\ Mode(r15') = 0 /\ thumb' \in {0, 1}
      BY <3>1, PointFits DEF RegsFit
    <3>3. FramesInv'
      BY <1>1, <1>2, <2>1, <2>2, <3>1, LeaveKeeps
    <3> QED BY <2>1, <2>2, <3>2, <3>3 DEF RegsFit
  <2>4. CASE Made[Top.key].op # "return"
    <3>1. frames' = Go("native", After(Top.key)) /\ r15' = r15 /\ thumb' = thumb
      BY <1>5, <2>4 DEF NativeWork
    <3>2. FramesInv'
      BY <1>1, <1>2, <2>1, <2>2, <3>1, KeyParts, GoKeeps
    <3> QED BY <2>1, <2>2, <3>1, <3>2 DEF RegsFit
  <2> QED BY <2>3, <2>4
<1>6. CASE Original
  <2> DEFINE k == Replaces[Top.fn]
  <2>1. /\ Top.at = "in" /\ Top.fn \in Overrides /\ k \in Nat
        /\ IF depth + 1 > DepthLimit THEN UNCHANGED <<r15, thumb>> ELSE PointTo(k)
        /\ Call(Generated(k), "original", k)
        /\ UNCHANGED <<lr, stack, asked, counts, world>>
    BY <1>3, <1>6 DEF Original, Is
  <2>2. CountsFit' /\ ExitFits' /\ stale' = stale
    BY <2>1, CallFits DEF CountsFit, counts, world
  <2>3. r15' \in Nat /\ Mode(r15') = 0 /\ thumb' \in {0, 1}
    BY <2>1, PointFits DEF RegsFit
  <2>4. FramesInv'
    <3>1. CASE depth + 1 > DepthLimit
      BY <1>1, <1>2, <2>1, <2>2, <3>1, LeaveKeeps DEF Call
    <3>2. CASE ~(depth + 1 > DepthLimit)
      <4>1. thumb' = Mode(k)
        BY <2>1, <3>2, PointFits
      <4>2. Generated(k) # NoCode => Fits(Generated(k), thumb')
        BY <2>1, <4>1, GeneratedFits DEF Fits
      <4> HIDE DEF k
      <4> QED BY <1>1, <1>2, <2>1, <2>2, <4>2, CallKeeps
    <3> QED BY <3>1, <3>2
  <2> QED BY <2>1, <2>2, <2>3, <2>4 DEF RegsFit
<1> QED BY <1>4, <1>5, <1>6

\* The host's answers to an svc.
LEMMA ServeSteps ==
  ASSUME Inv, ServeInPlace \/ ServeAndUnwind \/ LeaveSvc
  PROVE  Inv'
<1> USE DEF Inv
<1>1. InCode /\ Top.at = "svc" /\ Budgets \subseteq Nat
  BY RecompAssumption DEF ServeInPlace, ServeAndUnwind, LeaveSvc, Is, RecompAssumption
<1>2. /\ Top.fn \in Functions \ stale /\ Top.key \in Nat
      /\ thumb = Mode(Top.key) /\ thumb = Mode(Entry[Top.fn])
      /\ depth = Len(frames) - 1
  BY <1>1, InFrame DEF Compiled
<1>3. RegsFit' /\ stale' = stale /\ thumb' = thumb
  BY DEF ServeInPlace, ServeAndUnwind, LeaveSvc, regs, world, RegsFit
<1>4. CountsFit'
  <2>1. CASE ServeInPlace
    BY <1>1, <2>1 DEF ServeInPlace, CountsFit, counts, world
  <2>2. CASE ServeAndUnwind \/ LeaveSvc
    BY <2>2 DEF ServeAndUnwind, LeaveSvc, CountsFit, counts, world
  <2> QED BY <2>1, <2>2
<1>5. CASE ServeInPlace
  <2>1. frames' = Proceed(Top.fn, Top.key) /\ depth' = depth /\ exit' = exit
    BY <1>5 DEF ServeInPlace
  <2>2. FramesInv'
    BY <1>1, <1>2, <1>3, <2>1, ProceedKeeps
  <2> QED BY <1>3, <1>4, <2>1, <2>2 DEF ExitFits
<1>6. CASE ServeAndUnwind \/ LeaveSvc
  <2>1. frames' = Front(frames) /\ depth' = depth /\ exit' \in Exits
    BY <1>6 DEF ServeAndUnwind, LeaveSvc, Leave, Exits
  <2>2. FramesInv'
    BY <1>1, <1>2, <1>3, <2>1, LeaveKeeps
  <2> QED BY <1>3, <1>4, <2>1, <2>2 DEF ExitFits
<1> QED BY <1>5, <1>6

\* With no frame on the C stack there is little to keep.
LEMMA EmptyKeeps ==
  ASSUME frames = <<>>, frames' = <<>>
  PROVE  FramesInv'
<1>1. Len(frames') = 0 /\ frames' \in Seq(Frame) /\ ~InCode'
  BY DEF InCode
<1>2. FramesFit' /\ TopFits' /\ DepthIsCalls'
  BY <1>1 DEF FramesFit, TopFits, DepthIsCalls
<1>3. StackIsBounded'
  BY <1>1, RecompAssumption DEF RecompAssumption, StackIsBounded
<1> QED BY <1>1, <1>2, <1>3 DEF FramesInv

\* The host's loop.
LEMMA LoopSteps ==
  ASSUME Inv, Interpret \/ Serve \/ Restart
  PROVE  Inv'
<1> USE DEF Inv
<1>1. ~InCode /\ UNCHANGED <<counts, world, depth, frames>> /\ exit' = "none"
  BY DEF Interpret, Serve, Restart, HasTurn
<1>2. CountsFit' /\ ExitFits' /\ FramesInv'
  BY <1>1, EmptyKeeps DEF InCode, CountsFit, counts, world, ExitFits, Exits
<1>3. CASE Interpret
  <2>1. Pc \in Keys
    BY <1>3 DEF Interpret
  <2>2. PICK o \in Outcomes(Memory(Pc), Pc, lr, stack) :
          PointTo(o.pc) /\ lr' = o.lr /\ stack' = o.stack /\ asked' = o.asked
    BY <1>3 DEF Interpret
  <2> QED BY <1>2, <2>1, <2>2, OutcomeFits
<1>4. CASE Serve
  BY <1>2, <1>4 DEF Serve, regs, RegsFit
<1>5. CASE Restart
  <2>1. PICK k \in Starts : PointTo(k)
    BY <1>5 DEF Restart
  <2>2. k \in Nat /\ Home \in Nat
    BY InstructionsAssumption DEF InstructionsAssumption
  <2>3. r15' \in Nat /\ Mode(r15') = 0 /\ thumb' \in {0, 1}
    BY <2>1, <2>2, PointFits
  <2> QED BY <1>2, <1>5, <2>2, <2>3 DEF Restart, RegsFit
<1> QED BY <1>3, <1>4, <1>5

LEMMA EnterStep ==
  ASSUME Inv, Enter
  PROVE  Inv'
<1> USE DEF Inv
<1> DEFINE new == [fn |-> Lookup(Pc), at |-> "in", key |-> Pc]
<1>1. /\ ~InCode /\ Lookup(Pc) # NoCode
      /\ exit' = "none" /\ depth' = 0 /\ ran' = 0
      /\ frames' = <<new>>
      /\ UNCHANGED <<regs, asked, world>>
  BY DEF Enter, HasTurn
<1>2. budget' \in Nat /\ given' \in Nat
  BY RecompAssumption DEF RecompAssumption, Enter
<1>3. Pc = r15 + thumb
  BY <1>1 DEF Pc
<1>4. Pc \in Nat /\ Mode(Pc) = thumb
  BY <1>3, KeyOf DEF RegsFit
<1>5. Fits(Lookup(Pc), thumb)
  BY <1>1, <1>4, LookupFits
<1>6. new \in Frame
  BY <1>4, <1>5 DEF Frame, Fits, Places
<1>7. /\ frames' \in Seq(Frame) /\ Len(frames') = 1
      /\ frames'[1] = new /\ frames' # <<>>
  <2> HIDE DEF new
  <2> QED BY <1>1, <1>6
<1>8. InCode' /\ Top' = new
  BY <1>7 DEF InCode, Top, Last
<1>9. FramesFit' /\ TopFits'
  BY <1>1, <1>5, <1>7, <1>8 DEF FramesFit, TopFits, Compiled, regs
<1>10. DepthIsCalls' /\ StackIsBounded'
  <2>1. ~(frames'[1].at \in {"called", "tail", "original"})
    BY <1>7
  <2> HIDE DEF new
  <2> QED BY <1>1, <1>7, <2>1, RecompAssumption
       DEF RecompAssumption, DepthIsCalls, Waiting, StackIsBounded
<1>11. RegsFit' /\ CountsFit'
  BY <1>1, <1>2 DEF RegsFit, CountsFit, regs, world
<1>12. ExitFits'
  BY <1>1, RecompAssumption DEF RecompAssumption, ExitFits, Exits
<1> QED BY <1>7, <1>9, <1>10, <1>11, <1>12 DEF FramesInv

\* A flag may be set when nothing that may run has a frame.
LEMMA MarkKeeps ==
  ASSUME FramesInv, NEW fs, MayMark(fs), stale' \subseteq stale \cup fs,
         UNCHANGED <<frames, depth, thumb>>
  PROVE  FramesInv'
<1>1. CASE ~InCode
  BY <1>1, EmptyKeeps DEF InCode
<1>2. CASE Is("svc") /\ \A i \in 1..Len(frames) : frames[i].fn \notin fs
  <2>1. FramesFit'
    BY <1>2 DEF FramesInv, FramesFit
  <2> QED BY <2>1 DEF FramesInv, TopFits, DepthIsCalls, Waiting, StackIsBounded, InCode, Top
<1> QED BY <1>1, <1>2 DEF MayMark

LEMMA FlagSteps ==
  ASSUME Inv, Reload \/ Mark
  PROVE  Inv'
<1> USE DEF Inv
<1>1. RegsFit' /\ ExitFits' /\ UNCHANGED <<frames, depth, thumb>>
  BY DEF Reload, Mark, regs, RegsFit, ExitFits
<1>2. CASE Reload
  <2> DEFINE fs == {f \in Functions : \E k \in Body[f] : Made[k] # Modded[k]}
  <2>1. MayMark(fs) /\ modded' = ~modded
    BY <1>2 DEF Reload
  <2>2. stale' = {f \in Functions : \E k \in Body[f] : Memory(k)' # Made[k]}
    BY <1>2 DEF Reload
  <2>3. \A k : Memory(k)' = Made[k] \/ Memory(k)' = Modded[k]
    BY DEF Memory
  <2>4. stale' \subseteq fs /\ stale' \subseteq Functions
    BY <2>2, <2>3
  <2>5. FramesInv'
    <3> HIDE DEF fs
    <3> QED BY <1>1, <2>1, <2>4, MarkKeeps
  <2> QED BY <1>1, <1>2, <2>1, <2>4, <2>5 DEF Reload, CountsFit, counts
<1>3. CASE Mark
  <2>1. \E fs : MayMark(fs) /\ fs \subseteq Functions /\ stale' = stale \cup fs
    <3>1. Markable \subseteq Functions
      BY RecompAssumption DEF RecompAssumption
    <3>2. CASE \E f \in Markable : MayMark({f}) /\ stale' = stale \cup {f}
      BY <3>1, <3>2
    <3>3. CASE \E k \in Keys : LET fs == {f \in Functions : k \in Body[f]}
                              IN fs \subseteq Markable /\ MayMark(fs) /\ stale' = stale \cup fs
      BY <3>3
    <3> QED BY <1>3, <3>2, <3>3 DEF Mark
  <2>2. FramesInv'
    BY <1>1, <2>1, MarkKeeps
  <2> QED BY <1>1, <1>3, <2>1, <2>2 DEF Mark, CountsFit, counts
<1> QED BY <1>2, <1>3
-----------------------------------------------------------------------------
LEMMA InvInit == Init => Inv
<1> SUFFICES ASSUME Init PROVE Inv
  OBVIOUS
<1>1. \A k \in Starts \cup {Home} : k \in Nat
  BY InstructionsAssumption DEF InstructionsAssumption
<1>2. RegsFit
  <2>1. PICK k \in Starts : r15 = Address(k) /\ thumb = Mode(k)
    BY DEF Init
  <2>2. k \in Nat
    BY <1>1
  <2>3. r15 \in Nat /\ Mode(r15) = 0 /\ thumb \in {0, 1}
    BY <2>1, <2>2, KeyParts
  <2>4. lr = Home /\ stack = <<>> /\ asked = FALSE
    BY DEF Init
  <2>5. <<>> \in Seq(Nat)
    BY EmptySeq
  <2> QED BY <1>1, <2>3, <2>4, <2>5 DEF RegsFit
<1>3. CountsFit /\ ExitFits
  <2>1. modded = FALSE /\ exit = "none" /\ depth = 0 /\ stale = {}
    BY DEF Init
  <2>2. budget = 0 /\ given = 0 /\ ran = 0
    BY DEF Init
  <2>3. DepthLimit \in Nat
    BY RecompAssumption DEF RecompAssumption
  <2>4. ExitFits
    BY <2>1, <2>3 DEF ExitFits, Exits
  <2>5. modded \in BOOLEAN /\ stale \subseteq Functions
    BY <2>1
  <2>6. budget \in Nat /\ given \in Nat /\ ran \in Nat
    BY <2>2
  <2> QED BY <2>4, <2>5, <2>6 DEF CountsFit
<1>4. FramesInv
  <2>1. frames = <<>> /\ Len(frames) = 0 /\ frames \in Seq(Frame) /\ ~InCode
    BY DEF Init, InCode
  <2>2. FramesFit /\ TopFits /\ DepthIsCalls
    BY <2>1 DEF FramesFit, TopFits, DepthIsCalls
  <2>3. StackIsBounded
    BY <2>1, RecompAssumption DEF RecompAssumption, StackIsBounded
  <2> QED BY <2>1, <2>2, <2>3 DEF FramesInv
<1> QED BY <1>2, <1>3, <1>4 DEF Inv

LEMMA InvStep == Inv /\ [Next]_vars => Inv'
<1> SUFFICES ASSUME Inv, [Next]_vars PROVE Inv'
  OBVIOUS
<1>1. CASE UNCHANGED vars
  BY <1>1 DEF vars, regs, counts, world, Inv, RegsFit, CountsFit, ExitFits, FramesInv, FramesFit,
              TopFits, DepthIsCalls, Waiting, StackIsBounded, InCode, Top
<1>2. CASE Code
  BY <1>2, EnteringSteps, PlainSteps, BranchSteps, ReturnSteps, UndefinedStep, ByHandSteps DEF Code
<1>3. CASE Host
  BY <1>3, ServeSteps, LoopSteps, EnterStep DEF Host
<1>4. CASE Reload \/ Mark
  BY <1>4, FlagSteps
<1> QED BY <1>1, <1>2, <1>3, <1>4 DEF Next, Step

\* The invariant holds for every program.
THEOREM Invariant == Spec => []Inv
BY InvInit, InvStep, PTL DEF Spec

\* Every variable holds what its place in the program can hold: a budget is
\* never negative, r15 always an address and the depth within its limit.
THEOREM TypeCorrect == Spec => []TypeOK
<1>1. Inv => TypeOK
  BY DEF Inv, RegsFit, CountsFit, ExitFits, FramesInv, TypeOK
<1> QED BY <1>1, Invariant, PTL

\* RECOMP_DEPTH_LIMIT: ctx->depth is the number of C calls not yet left, on
\* every way out of a function.
THEOREM DepthCorrect == Spec => []DepthIsCalls
<1>1. Inv => DepthIsCalls
  BY DEF Inv, FramesInv
<1> QED BY <1>1, Invariant, PTL

\* So the C stack is bounded, whatever the guest does.
THEOREM StackCorrect == Spec => []StackIsBounded
<1>1. Inv => StackIsBounded
  BY DEF Inv, FramesInv
<1> QED BY <1>1, Invariant, PTL

\* Code runs in the state it was made for, however it was reached.
THEOREM StateCorrect == Spec => []InOwnState
<1>1. Inv => InOwnState
  BY InFrame DEF InOwnState
<1> QED BY <1>1, Invariant, PTL

\* A function whose flag is set does not run an instruction.
THEOREM StaleCorrect == Spec => StaleRunsNoMore
<1>1. Inv /\ [Next]_vars => [ran' > ran => Top.fn \notin stale]_vars
  <2> SUFFICES ASSUME Inv, Next, ran' > ran PROVE Top.fn \notin stale
    OBVIOUS
  <2>1. CASE Is("run")
    BY <2>1, RunFacts
  <2>2. CASE NativeWork
    <3>1. Top.fn \in Overrides
      BY <2>2, InFrame DEF NativeWork, Is
    <3> QED BY <3>1, FunctionFacts DEF Inv, CountsFit
  <2>3. CASE ~Is("run") /\ ~NativeWork
    <3>1. ran \in Nat
      BY DEF Inv, CountsFit
    <3>2. ran' = ran \/ ran' = 0
      BY <2>3 DEF Next, Step, Code, Host, WayIn, Dispatch, Block, Back, Skip, Plain, Link, Push, Branch,
           BranchRegister, CallDirect, CallRegister, Return, MoveReturn, PopReturn, Svc, Undefined,
           Native, Original, Runs, ServeInPlace, ServeAndUnwind, LeaveSvc, Enter, Interpret, Serve,
           Restart, Reload, Mark, counts
    <3> QED BY <3>1, <3>2
  <2> QED BY <2>1, <2>2, <2>3
<1> QED BY <1>1, Invariant, PTL DEF Spec, StaleRunsNoMore
-----------------------------------------------------------------------------

Waits == {"called", "tail", "original"}

\* Code that is not stale is as it was made.
CodeIsMade == \A f \in Functions \ stale : \A k \in Body[f] : Memory(k) = Made[k]

\* Where in a native's work its frame is.
AtWork(n, k) ==
  \E i \in 0..Cost[n] - 1 : k = Replaces[n] + i * Width(Replaces[n])

\* What ties the state registers to the top frame: an exit is only on its way
\* through frames that wait, an svc waits where the callback runs or on the way
\* out, and a function written by hand is entered where what it replaces starts.
TopTells ==
  InCode =>
    /\ exit # "none" => Top.at \in Waits
    /\ asked => Top.at = "svc" \/ exit # "none"
    /\ Top.at = "svc" => asked /\ r15 = Address(After(Top.key))
    /\ Top.at = "in" /\ Top.fn \in Overrides => r15 + thumb = Replaces[Top.fn]
    /\ Top.at = "native" => Top.fn \in Natives /\ AtWork(Top.fn, Top.key)

Track == CodeIsMade /\ TopTells

\* A step of the guest, in terms of the code's state.
Stays == Pc' = Pc /\ UNCHANGED <<lr, stack, asked, modded>>
RunsOne ==
  /\ ~asked /\ Pc \in Keys
  /\ \E o \in Outcomes(Memory(Pc), Pc, lr, stack) :
       Pc' = o.pc /\ lr' = o.lr /\ stack' = o.stack /\ asked' = o.asked
  /\ UNCHANGED modded
ServesOne == asked /\ asked' = FALSE /\ Pc' = Pc /\ UNCHANGED <<lr, stack, modded>>

Outcome(p, l, s, a) == [pc |-> p, lr |-> l, stack |-> s, asked |-> a]

\* The outcomes there are, one operation at a time.
LEMMA OutcomesHave ==
  ASSUME NEW i, NEW k, NEW l, NEW s
  PROVE  /\ i.cond => Outcome(After(k), l, s, FALSE) \in Outcomes(i, k, l, s)
         /\ i.op = "plain" => Outcome(After(k), l, s, FALSE) \in Outcomes(i, k, l, s)
         /\ i.op = "link" => \A t \in i.to : Outcome(After(k), t, s, FALSE) \in Outcomes(i, k, l, s)
         /\ i.op \in {"b", "bx"} => \A t \in i.to : Outcome(t, l, s, FALSE) \in Outcomes(i, k, l, s)
         /\ i.op \in {"bl", "blx"} =>
              \A t \in i.to : Outcome(t, After(k), s, FALSE) \in Outcomes(i, k, l, s)
         /\ i.op = "return" => Outcome(l, l, s, FALSE) \in Outcomes(i, k, l, s)
         /\ i.op = "movpc" => Outcome(Kept(k, l), l, s, FALSE) \in Outcomes(i, k, l, s)
         /\ i.op = "push" => Outcome(After(k), l, Saved(s, l), FALSE) \in Outcomes(i, k, l, s)
         /\ i.op = "pop" => Outcome(Popped(s), l, Rest(s), FALSE) \in Outcomes(i, k, l, s)
         /\ i.op = "svc" => Outcome(After(k), l, s, TRUE) \in Outcomes(i, k, l, s)
BY DEF Outcomes, Outcome

\* An instruction that asks for nothing leaves nothing to be served.
LEMMA OnlySvcAsks ==
  ASSUME NEW i, NEW k, NEW l, NEW s, i.op = "und", NEW o \in Outcomes(i, k, l, s)
  PROVE  o.asked = FALSE
<1> DEFINE At(p) == [pc |-> p, lr |-> l, stack |-> s, asked |-> FALSE]
<1>1. Outcomes(i, k, l, s) = {At(t) : t \in i.to \cup {After(k)}}
                             \cup (IF i.cond THEN {At(After(k))} ELSE {})
  BY DEF Outcomes
<1> QED BY <1>1

\* mov pc, lr stays in the state it is in.
LEMMA KeptMode ==
  ASSUME NEW k \in Nat, NEW l \in Nat
  PROVE  Kept(k, l) \in Nat /\ Mode(Kept(k, l)) = Mode(k)
BY DEF Kept, Mode, Address
-----------------------------------------------------------------------------
\* Where the guest is once a frame has been left, or the top one has moved.
LEMMA LeavePoints ==
  ASSUME FramesInv, InCode, frames' = Front(frames)
  PROVE  /\ Pc' = r15' + thumb'
         /\ InCode' => Top.at' \in Waits
<1> DEFINE n == Len(frames)
<1>1. frames \in Seq(Frame) /\ n \in Nat \ {0}
  BY TopFacts DEF FramesInv
<1>2. /\ Len(frames') = n - 1
      /\ \A i \in 1..n - 1 : frames'[i] = frames[i]
      /\ frames' # <<>> => n - 1 \in 1..n - 1
  BY <1>1, FrontFacts DEF InCode
<1>3. \A i \in 1..n - 1 : Waiting(i)
  BY DEF FramesInv, DepthIsCalls
<1>4. InCode' => Top' = frames[n - 1] /\ Waiting(n - 1)
  BY <1>2, <1>3 DEF InCode, Top, Last
<1>5. InCode' => Top'.at \in Waits
  BY <1>4 DEF Waiting, Waits
<1> QED BY <1>5 DEF Pc, Waits

LEMMA GoPoints ==
  ASSUME FramesInv, InCode, NEW place \in Places, NEW k \in Nat, frames' = Go(place, k)
  PROVE  InCode' /\ Top' = [fn |-> Top.fn, at |-> place, key |-> k]
<1>1. frames \in Seq(Frame)
  BY DEF FramesInv
<1>2. /\ frames' # <<>> /\ Len(frames') = Len(frames)
      /\ frames'[Len(frames)] = [fn |-> Top.fn, at |-> place, key |-> k]
  BY <1>1, GoFacts
<1> QED BY <1>2 DEF InCode, Top, Last

LEMMA CallPoints ==
  ASSUME FramesInv, InCode, NEW code, NEW place \in Waits, NEW k \in Nat,
         Call(code, place, k), code # NoCode => code \in Functions \cup Overrides
  PROVE  /\ Pc' = r15' + thumb'
         /\ InCode' => \/ Top'.at \in Waits /\ exit' = "unwind"
                       \/ Top'.at = "in" /\ exit' = exit /\ Top'.fn = code /\ code # NoCode
         /\ ~InCode' => exit' = "unwind"
<1>1. CASE depth + 1 > DepthLimit
  BY <1>1, LeavePoints DEF Call
<1>2. CASE ~(depth + 1 > DepthLimit) /\ code = NoCode
  <2>1. exit' = "unwind" /\ frames' = Go(place, k)
    BY <1>2 DEF Call
  <2>2. InCode' /\ Top' = [fn |-> Top.fn, at |-> place, key |-> k]
    BY <2>1, GoPoints DEF Waits, Places
  <2> QED BY <2>1, <2>2 DEF Pc, Waits
<1>3. CASE ~(depth + 1 > DepthLimit) /\ code # NoCode
  <2> DEFINE new == [fn |-> code, at |-> "in", key |-> k]
  <2>1. exit' = exit /\ frames' = Append(Go(place, k), new)
    BY <1>3 DEF Call
  <2>2. frames \in Seq(Frame) /\ Go(place, k) \in Seq(Frame) /\ new \in Frame
    BY <1>3, GoFacts DEF FramesInv, Waits, Places, Frame
  <2>3. /\ frames' # <<>> /\ Len(frames') = Len(Go(place, k)) + 1
        /\ frames'[Len(Go(place, k)) + 1] = new
    <3> HIDE DEF new
    <3> QED BY <2>1, <2>2, AppendFacts
  <2>4. InCode' /\ Top' = new
    BY <2>3 DEF InCode, Top, Last
  <2> QED BY <1>3, <2>1, <2>4 DEF Pc
<1> QED BY <1>1, <1>2, <1>3

LEMMA ProceedPoints ==
  ASSUME FramesInv, InCode, NEW k \in Nat, frames' = Proceed(Top.fn, k), thumb' = Mode(k)
  PROVE  Pc' = After(k) /\ InCode' /\ Top'.at \in {"dispatch", "block", "run"}
<1>1. /\ After(k) \in Nat /\ Mode(After(k)) = Mode(k)
      /\ Address(After(k)) \in Nat /\ Address(After(k)) + Mode(k) = After(k)
  <2>1. After(k) \in Nat /\ Mode(After(k)) = Mode(k)
    BY KeyParts
  <2> QED BY <2>1, KeyParts
<1>2. CASE After(k) \notin Body[Top.fn]
  <2>1. InCode' /\ Top' = [fn |-> Top.fn, at |-> "dispatch", key |-> Address(After(k))]
    BY <1>1, <1>2, GoPoints DEF Proceed, Places
  <2> QED BY <1>1, <2>1 DEF Pc
<1>3. CASE After(k) \in Body[Top.fn]
  <2>1. PICK place \in {"block", "run"} : frames' = Go(place, After(k))
    BY <1>3 DEF Proceed
  <2>2. InCode' /\ Top' = [fn |-> Top.fn, at |-> place, key |-> After(k)]
    BY <1>1, <2>1, GoPoints DEF Places
  <2> QED BY <2>2 DEF Pc
<1> QED BY <1>2, <1>3
-----------------------------------------------------------------------------
\* What TopTells needs of a step that goes on in a frame, leaves one, or calls.
LEMMA GoTells ==
  ASSUME Top'.at \in {"dispatch", "block", "run"}, exit' = "none", asked' = FALSE
  PROVE  TopTells'
BY DEF TopTells, Waits

LEMMA LeaveTells ==
  ASSUME InCode' => Top'.at \in Waits, asked' => exit' # "none"
  PROVE  TopTells'
BY DEF TopTells, Waits

LEMMA CallTells ==
  ASSUME NEW code,
         InCode' => \/ Top'.at \in Waits /\ exit' = "unwind"
                    \/ Top'.at = "in" /\ exit' = exit /\ Top'.fn = code /\ code # NoCode,
         exit = "none", asked' = FALSE,
         code \in Overrides => r15' + thumb' = Replaces[code]
  PROVE  TopTells'
BY DEF TopTells, Waits

LEMMA MadeKeeps ==
  ASSUME CodeIsMade, modded' = modded, stale \subseteq stale'
  PROVE  CodeIsMade'
BY DEF CodeIsMade, Memory

\* An entry nobody replaces leads to a function.
LEMMA EntriesOutside ==
  ASSUME NEW k \in DOMAIN Entries, Replacing(k) = {}
  PROVE  Entries[k] \in Functions
<1> DEFINE Holders == {f \in Functions : k \in Labels[f]}
           Starting == {f \in Holders : Entry[f] = k}
           fs == IF Starting # {} THEN Starting ELSE Holders
           first == CHOOSE f \in fs : \A g \in fs : Entry[f] <= Entry[g]
<1>1. k \in (UNION {Labels[f] : f \in Functions}) \cup {Replaces[o] : o \in Overrides}
  BY DEF Entries
<1>2. Entries[k] = first
  BY <1>1 DEF Entries
<1>3. PICK holder \in Functions : k \in Labels[holder]
  <2>1. k \notin {Replaces[o] : o \in Overrides}
    BY DEF Replacing
  <2>2. k \in UNION {Labels[f] : f \in Functions}
    BY <1>1, <2>1
  <2> QED BY Zenon, <2>2
<1>4. fs # {} /\ fs \subseteq Functions
  BY <1>3
<1>5. \E f \in fs : \A g \in fs : Entry[f] <= Entry[g]
  <2> HIDE DEF fs
  <2> QED BY <1>4, FirstStarts
<1>6. first \in fs
  <2> HIDE DEF fs
  <2> QED BY <1>5
<1> HIDE DEF fs, first
<1> QED BY <1>2, <1>4, <1>6

\* What is called at a key and written by hand replaces what starts there.
LEMMA ByHandThere ==
  ASSUME NEW k \in Nat
  PROVE  /\ Name(k) \in Overrides => Replaces[Name(k)] = k
         /\ Lookup(k) \in Overrides => Replaces[Lookup(k)] = k
<1>1. Replacing(k) # {} => Name(k) \in Overrides /\ Replaces[Name(k)] = k
  BY DEF Name, Replacing
<1>2. Generated(k) \notin Overrides
  BY GeneratedFits, FunctionFacts
<1>3. Name(k) \in Overrides => Replaces[Name(k)] = k
  BY <1>1, <1>2 DEF Name
<1>4. ASSUME Lookup(k) \in Overrides PROVE Replaces[Lookup(k)] = k
  <2>1. k \in DOMAIN Entries /\ Lookup(k) = Entries[k]
    BY <1>4, FunctionFacts DEF Lookup
  <2>2. CASE Replacing(k) # {}
    <3>1. Entries[k] = Name(k)
      BY <2>1, <2>2 DEF Entries
    <3> QED BY <1>1, <2>1, <2>2, <3>1
  <2>3. CASE Replacing(k) = {}
    BY <1>4, <2>1, <2>3, EntriesOutside, FunctionFacts
  <2> QED BY <2>2, <2>3
<1> QED BY <1>3, <1>4

\* The frame on top, when its function is about to do something of its own.
LEMMA BusyTells ==
  ASSUME Inv, TopTells, InCode, Top.at \notin Waits
  PROVE  /\ exit = "none"
         /\ Top.at # "svc" => ~asked /\ asked = FALSE
         /\ Top.key \in Nat /\ r15 \in Nat /\ Mode(r15) = 0 /\ thumb \in {0, 1}
         /\ FramesInv
BY InFrame DEF TopTells, Inv, RegsFit

LEMMA RunTells ==
  ASSUME Inv, Track, Is("run")
  PROVE  /\ exit = "none" /\ ~asked /\ asked = FALSE
         /\ Pc = Top.key /\ Top.key \in Keys
         /\ Memory(Top.key) = Made[Top.key]
         /\ FramesInv /\ InCode /\ Top.key \in Nat
         /\ thumb = Mode(Top.key)
<1>1. /\ InCode /\ Top.at = "run" /\ Top.fn \in Functions \ stale
      /\ Top.key \in Keys /\ Top.key \in Body[Top.fn] /\ Top.key \in Nat
      /\ thumb = Mode(Top.key)
  BY RunFacts
<1>2. exit = "none" /\ ~asked /\ asked = FALSE /\ FramesInv
  BY <1>1, BusyTells DEF Track, Waits
<1>3. Memory(Top.key) = Made[Top.key]
  BY <1>1 DEF Track, CodeIsMade
<1> QED BY <1>1, <1>2, <1>3 DEF Pc

\* The instruction at the top frame's key has run as the guest runs it.
LEMMA RunIsOne ==
  ASSUME Inv, Track, Is("run"), modded' = modded, NEW p, NEW a,
         Outcome(p, lr', stack', a) \in Outcomes(Made[Top.key], Top.key, lr, stack),
         Pc' = p, asked' = a
  PROVE  RunsOne
<1>1. /\ ~asked /\ Pc = Top.key /\ Top.key \in Keys
      /\ Memory(Top.key) = Made[Top.key]
  BY RunTells
<1> DEFINE o == Outcome(p, lr', stack', a)
<1>2. o.pc = Pc' /\ o.lr = lr' /\ o.stack = stack' /\ o.asked = asked'
  BY DEF Outcome
<1>3. o \in Outcomes(Memory(Pc), Pc, lr, stack)
  BY <1>1
<1> QED BY <1>1, <1>2, <1>3, Zenon DEF RunsOne
-----------------------------------------------------------------------------
\* Ways into, through and out of a function do not move the guest.
LEMMA EnteringStays ==
  ASSUME Inv, Track, WayIn \/ Dispatch \/ Block \/ Back
  PROVE  TopTells' /\ Stays
<1> USE DEF Track
<1>1. CASE WayIn
  <2>1. InCode /\ Top.at = "in" /\ Top.fn \in Functions
    BY <1>1 DEF WayIn, Is
  <2>2. /\ exit = "none" /\ asked = FALSE /\ FramesInv
        /\ r15 \in Nat /\ Mode(r15) = 0 /\ thumb \in {0, 1}
    BY <2>1, BusyTells DEF Waits
  <2>3. UNCHANGED <<r15, thumb, lr, stack, asked, modded>> /\ Pc = r15 + thumb
    BY <1>1, <2>1 DEF WayIn, regs, world, Pc
  <2>4. CASE Top.fn \notin stale /\ r15 = Address(Entry[Top.fn])
    <3>1. frames' = Go("block", Entry[Top.fn]) /\ exit' = exit
      BY <1>1, <2>4 DEF WayIn
    <3>2. Entry[Top.fn] \in Nat /\ thumb = Mode(Entry[Top.fn])
      BY <2>1, <2>2, FunctionFacts DEF FramesInv, TopFits, Fits
    <3>3. InCode' /\ Top' = [fn |-> Top.fn, at |-> "block", key |-> Entry[Top.fn]]
      BY <2>1, <2>2, <3>1, <3>2, GoPoints DEF Places
    <3>4. Pc' = Entry[Top.fn] /\ Entry[Top.fn] = r15 + thumb
      BY <2>4, <3>2, <3>3, KeyParts DEF Pc
    <3> QED BY <2>2, <2>3, <3>1, <3>3, <3>4, GoTells DEF Stays
  <2>5. CASE Top.fn \in stale
    <3>1. frames' = Front(frames) /\ exit' = "unwind"
      BY <1>1, <2>5 DEF WayIn, Leave
    <3> QED BY <2>1, <2>2, <2>3, <3>1, LeavePoints, LeaveTells DEF Stays
  <2>6. CASE Top.fn \notin stale /\ r15 # Address(Entry[Top.fn])
    <3>1. frames' = Go("dispatch", r15) /\ exit' = exit
      BY <1>1, <2>6 DEF WayIn
    <3>2. InCode' /\ Top' = [fn |-> Top.fn, at |-> "dispatch", key |-> r15]
      BY <2>1, <2>2, <3>1, GoPoints DEF Places
    <3>3. Pc' = r15 + thumb
      BY <2>3, <3>2 DEF Pc
    <3> QED BY <2>2, <2>3, <3>1, <3>2, <3>3, GoTells DEF Stays
  <2> QED BY <2>4, <2>5, <2>6
<1>2. CASE Dispatch
  <2>1. InCode /\ Top.at = "dispatch"
    BY <1>2 DEF Dispatch, Is
  <2>2. exit = "none" /\ asked = FALSE /\ FramesInv /\ thumb \in {0, 1} /\ Top.key \in Nat
    BY <2>1, BusyTells DEF Waits
  <2> DEFINE k == Top.key + thumb
  <2>3. UNCHANGED <<thumb, lr, stack, asked, modded>> /\ Pc = k
    BY <1>2, <2>1 DEF Dispatch, world, Pc
  <2>4. k \in Nat /\ Mode(k) = thumb
    BY <2>1, <2>2, KeyOf DEF FramesInv, TopFits
  <2>5. CASE thumb = Mode(Entry[Top.fn]) /\ k \in Labels[Top.fn]
    <3>1. frames' = Go("block", k) /\ exit' = exit
      BY <1>2, <2>5 DEF Dispatch
    <3>2. InCode' /\ Top' = [fn |-> Top.fn, at |-> "block", key |-> k]
      <4> HIDE DEF k
      <4> QED BY <2>1, <2>2, <2>4, <3>1, GoPoints DEF Places
    <3>3. Pc' = k
      BY <3>2 DEF Pc
    <3> HIDE DEF k
    <3> QED BY <2>2, <2>3, <3>1, <3>2, <3>3, GoTells DEF Stays
  <2>6. CASE ~(thumb = Mode(Entry[Top.fn]) /\ k \in Labels[Top.fn])
    <3>1. r15' = Top.key /\ Call(Lookup(k), "tail", k)
      BY <1>2, <2>6 DEF Dispatch
    <3>2. r15' + thumb' = k
      BY <2>3, <3>1
    <3> HIDE DEF k
    <3>3. Lookup(k) # NoCode => Lookup(k) \in Functions \cup Overrides
      BY <2>4, LookupFits DEF Fits
    <3>4. Lookup(k) \in Overrides => Replaces[Lookup(k)] = k
      BY <2>4, ByHandThere
    <3>5. /\ Pc' = r15' + thumb'
          /\ InCode' => \/ Top'.at \in Waits /\ exit' = "unwind"
                        \/ Top'.at = "in" /\ exit' = exit /\ Top'.fn = Lookup(k) /\ Lookup(k) # NoCode
      BY <2>1, <2>2, <2>4, <3>1, <3>3, CallPoints DEF Waits
    <3>6. TopTells'
      BY <2>2, <2>3, <3>2, <3>4, <3>5, CallTells
    <3> QED BY <2>3, <3>2, <3>5, <3>6 DEF Stays
  <2> QED BY <2>5, <2>6
<1>3. CASE Block
  <2>1. /\ InCode /\ Top.at = "block"
    BY <1>3 DEF Block, Is
  <2>2. /\ exit = "none" /\ asked = FALSE /\ FramesInv /\ Top.key \in Nat
        /\ thumb = Mode(Top.key)
    BY <2>1, BusyTells, InFrame DEF Waits
  <2>3. UNCHANGED <<thumb, lr, stack, asked, modded>> /\ Pc = Top.key
    BY <1>3, <2>1 DEF Block, world, Pc
  <2>4. CASE budget - RunLength(Top.fn, Top.key) < 0
    <3>1. r15' = Address(Top.key) /\ frames' = Front(frames) /\ exit' = "budget"
      BY <1>3, <2>4 DEF Block, Leave
    <3>2. r15' + thumb' = Top.key
      BY <2>2, <2>3, <3>1, KeyParts
    <3> QED BY <2>1, <2>2, <2>3, <3>1, <3>2, LeavePoints, LeaveTells DEF Stays
  <2>5. CASE ~(budget - RunLength(Top.fn, Top.key) < 0)
    <3>1. frames' = Go("run", Top.key) /\ exit' = exit
      BY <1>3, <2>5 DEF Block
    <3>2. InCode' /\ Top' = [fn |-> Top.fn, at |-> "run", key |-> Top.key]
      BY <2>1, <2>2, <3>1, GoPoints DEF Places
    <3>3. Pc' = Top.key
      BY <3>2 DEF Pc
    <3> QED BY <2>2, <2>3, <3>1, <3>2, <3>3, GoTells DEF Stays
  <2> QED BY <2>4, <2>5
<1>4. CASE Back
  <2>1. InCode /\ Top.at \in Waits /\ FramesInv /\ Top.key \in Nat
    BY <1>4, InFrame DEF Back, Waits, Inv
  <2>2. /\ UNCHANGED <<r15, thumb, lr, stack, asked, modded, exit>>
        /\ Pc = r15 + thumb
        /\ asked => exit # "none"
        /\ r15 \in Nat /\ asked \in BOOLEAN
    BY <1>4, <2>1 DEF Back, regs, world, Pc, Waits, TopTells, Inv, RegsFit
  <2>3. CASE exit # "none" \/ Top.at # "called"
    <3>1. frames' = Front(frames)
      BY <1>4, <2>3 DEF Back
    <3> QED BY <2>1, <2>2, <3>1, LeavePoints, LeaveTells DEF Stays
  <2>4. CASE exit = "none" /\ Top.at = "called" /\ r15 = Address(After(Top.key)) /\ thumb = Mode(Top.key)
    <3>1. frames' = Proceed(Top.fn, Top.key)
      BY <1>4, <2>4 DEF Back
    <3>2. Pc' = After(Top.key) /\ InCode' /\ Top'.at \in {"dispatch", "block", "run"}
      BY <2>1, <2>2, <2>4, <3>1, ProceedPoints
    <3>3. After(Top.key) = r15 + thumb
      BY <2>1, <2>4, KeyParts
    <3> QED BY <2>2, <2>4, <3>2, <3>3, GoTells DEF Stays
  <2>5. CASE exit = "none" /\ Top.at = "called" /\ ~(r15 = Address(After(Top.key)) /\ thumb = Mode(Top.key))
    <3>1. frames' = Go("dispatch", r15)
      BY <1>4, <2>5 DEF Back
    <3>2. InCode' /\ Top' = [fn |-> Top.fn, at |-> "dispatch", key |-> r15]
      BY <2>1, <2>2, <3>1, GoPoints DEF Places
    <3>3. Pc' = r15 + thumb
      BY <2>2, <3>2 DEF Pc
    <3> QED BY <2>2, <2>5, <3>2, <3>3, GoTells DEF Stays
  <2> QED BY <2>3, <2>4, <2>5
<1> QED BY <1>1, <1>2, <1>3, <1>4

\* An instruction that runs is one of the guest's, from where the guest is to
\* where it is then.
LEMMA PlainRuns ==
  ASSUME Inv, Track, Skip \/ Plain \/ Link \/ Push
  PROVE  TopTells' /\ RunsOne
<1>1. Is("run") /\ modded' = modded
  BY DEF Skip, Plain, Link, Push, Runs, world
<1>2. /\ exit = "none" /\ asked = FALSE
      /\ FramesInv /\ InCode /\ Top.key \in Nat
      /\ thumb = Mode(Top.key)
  BY <1>1, RunTells
<1>3. frames' = Proceed(Top.fn, Top.key) /\ UNCHANGED <<thumb, asked, exit>>
  BY DEF Skip, Plain, Link, Push, regs
<1>4. Pc' = After(Top.key) /\ InCode' /\ Top'.at \in {"dispatch", "block", "run"}
  BY <1>2, <1>3, ProceedPoints
<1>5. TopTells'
  BY <1>2, <1>3, <1>4, GoTells
<1>6. Outcome(After(Top.key), lr', stack', FALSE) \in Outcomes(Made[Top.key], Top.key, lr, stack)
  <2>1. CASE Skip
    BY <2>1, OutcomesHave DEF Skip, regs
  <2>2. CASE Plain
    BY <2>2, OutcomesHave DEF Plain, Runs, regs
  <2>3. CASE Link
    BY <2>3, OutcomesHave DEF Link, Runs
  <2>4. CASE Push
    BY <2>4, OutcomesHave DEF Push, Runs
  <2> QED BY <2>1, <2>2, <2>3, <2>4
<1>7. asked' = FALSE
  BY <1>2, <1>3
<1> QED BY <1>1, <1>4, <1>5, <1>6, <1>7, RunIsOne

LEMMA BranchRuns ==
  ASSUME Inv, Track, Branch \/ BranchRegister \/ CallDirect \/ CallRegister
  PROVE  TopTells' /\ RunsOne
<1>1. Is("run") /\ modded' = modded
  BY DEF Branch, BranchRegister, CallDirect, CallRegister, Runs, world
<1>2. /\ exit = "none" /\ asked = FALSE
      /\ FramesInv /\ InCode /\ Top.key \in Nat
      /\ thumb = Mode(Top.key)
      /\ Top.key \in Keys
  BY <1>1, RunTells
<1>3. Made[Top.key].to \subseteq Nat
  BY <1>1, RunFacts
<1>4. stack' = stack /\ asked' = asked /\ asked' = FALSE
  BY <1>2 DEF Branch, BranchRegister, CallDirect, CallRegister
<1>5. CASE Branch
  <2>1. PICK t \in Made[Top.key].to : Jump(t)
    BY <1>5 DEF Branch
  <2>2. t \in Nat /\ Mode(t) = thumb /\ Address(t) \in Nat /\ Address(t) + thumb = t
    <3>1. t \in Nat /\ Mode(t) = thumb
      BY <1>2, <1>3, <1>5, <2>1, InstructionsAssumption DEF Branch, Runs, InstructionsAssumption
    <3> QED BY <3>1, KeyParts
  <2>3. Outcome(t, lr', stack', FALSE) \in Outcomes(Made[Top.key], Top.key, lr, stack)
    BY <1>4, <1>5, <2>1, OutcomesHave DEF Branch, Runs
  <2>4. thumb' = thumb
    BY <1>5 DEF Branch
  <2>5. CASE t \in Labels[Top.fn]
    <3>1. frames' = Go("block", t) /\ exit' = exit
      BY <2>1, <2>5 DEF Jump
    <3>2. InCode' /\ Top' = [fn |-> Top.fn, at |-> "block", key |-> t]
      BY <1>2, <2>2, <3>1, GoPoints DEF Places
    <3>3. Pc' = t
      BY <3>2 DEF Pc
    <3>4. TopTells'
      BY <1>2, <1>4, <3>1, <3>2, GoTells
    <3> QED BY <1>1, <1>4, <2>3, <3>3, <3>4, RunIsOne
  <2>6. CASE t \notin Labels[Top.fn] /\ Name(t) # NoCode
    <3>1. r15' = Address(t) /\ Call(Name(t), "tail", t)
      BY <2>1, <2>6 DEF Jump
    <3>2. r15' + thumb' = t
      BY <2>2, <2>4, <3>1
    <3>3. Name(t) \in Functions \cup Overrides
      BY <2>2, <2>6, NameFits DEF Fits
    <3>4. Name(t) \in Overrides => Replaces[Name(t)] = t
      BY <2>2, ByHandThere
    <3>5. /\ Pc' = r15' + thumb'
          /\ InCode' => \/ Top'.at \in Waits /\ exit' = "unwind"
                        \/ Top'.at = "in" /\ exit' = exit /\ Top'.fn = Name(t) /\ Name(t) # NoCode
      BY <1>2, <2>2, <3>1, <3>3, CallPoints DEF Waits
    <3>6. TopTells'
      BY <1>2, <1>4, <3>2, <3>4, <3>5, CallTells
    <3>7. Pc' = t
      BY <3>2, <3>5
    <3> QED BY <1>1, <1>4, <2>3, <3>6, <3>7, RunIsOne
  <2>7. CASE t \notin Labels[Top.fn] /\ Name(t) = NoCode
    <3>1. frames' = Go("dispatch", Address(t)) /\ exit' = exit
      BY <2>1, <2>7 DEF Jump
    <3>2. InCode' /\ Top' = [fn |-> Top.fn, at |-> "dispatch", key |-> Address(t)]
      BY <1>2, <2>2, <3>1, GoPoints DEF Places
    <3>3. Pc' = t
      BY <2>2, <2>4, <3>2 DEF Pc
    <3>4. TopTells'
      BY <1>2, <1>4, <3>1, <3>2, GoTells
    <3> QED BY <1>1, <1>4, <2>3, <3>3, <3>4, RunIsOne
  <2> QED BY <2>5, <2>6, <2>7
<1>6. CASE BranchRegister
  <2>1. PICK t \in Made[Top.key].to : thumb' = Mode(t) /\ frames' = Go("dispatch", Address(t))
    BY <1>6 DEF BranchRegister
  <2>2. t \in Nat /\ Address(t) \in Nat /\ Address(t) + thumb' = t
    BY <1>3, <2>1, KeyParts
  <2>3. Outcome(t, lr', stack', FALSE) \in Outcomes(Made[Top.key], Top.key, lr, stack)
    BY <1>4, <1>6, <2>1, OutcomesHave DEF BranchRegister, Runs
  <2>4. InCode' /\ Top' = [fn |-> Top.fn, at |-> "dispatch", key |-> Address(t)]
    BY <1>2, <2>1, <2>2, GoPoints DEF Places
  <2>5. Pc' = t
    BY <2>2, <2>4 DEF Pc
  <2>6. TopTells'
    BY <1>2, <1>4, <1>6, <2>4, GoTells DEF BranchRegister
  <2> QED BY <1>1, <1>4, <2>3, <2>5, <2>6, RunIsOne
<1>7. CASE CallDirect \/ CallRegister
  <2>1. \E t \in Made[Top.key].to : \E code \in {Name(t), Lookup(t)} :
          r15' = Address(t) /\ thumb' = Mode(t) /\ Call(code, "called", Top.key)
    <3>1. CASE CallDirect
      <4>1. PICK t \in Made[Top.key].to :
              /\ ReturnTo(Top.key, t)
              /\ Call(IF Name(t) # NoCode THEN Name(t) ELSE Lookup(t), "called", Top.key)
        BY <3>1 DEF CallDirect
      <4>2. r15' = Address(t) /\ thumb' = Mode(t)
        BY <1>2, <4>1 DEF ReturnTo
      <4> QED BY <4>1, <4>2
    <3>2. CASE CallRegister
      BY <3>2 DEF CallRegister, PointTo
    <3> QED BY <1>7, <3>1, <3>2
  <2>11. PICK t \in Made[Top.key].to : \E code \in {Name(t), Lookup(t)} :
           r15' = Address(t) /\ thumb' = Mode(t) /\ Call(code, "called", Top.key)
    BY <2>1
  <2>2. PICK code \in {Name(t), Lookup(t)} :
          r15' = Address(t) /\ thumb' = Mode(t) /\ Call(code, "called", Top.key)
    BY <2>11
  <2>3. t \in Nat /\ r15' + thumb' = t
    BY <1>3, <2>2, KeyParts
  <2>4. lr' = After(Top.key) /\ Made[Top.key].op \in {"bl", "blx"}
    BY <1>7 DEF CallDirect, CallRegister, Runs
  <2>5. Outcome(t, lr', stack', FALSE) \in Outcomes(Made[Top.key], Top.key, lr, stack)
    BY <1>4, <2>2, <2>4, OutcomesHave
  <2>6. code # NoCode => code \in Functions \cup Overrides
    BY <2>2, <2>3, NameFits, LookupFits DEF Fits
  <2>7. code \in Overrides => r15' + thumb' = Replaces[code]
    BY <2>2, <2>3, ByHandThere
  <2>8. /\ Pc' = r15' + thumb'
        /\ InCode' => \/ Top'.at \in Waits /\ exit' = "unwind"
                      \/ Top'.at = "in" /\ exit' = exit /\ Top'.fn = code /\ code # NoCode
    BY <1>2, <2>2, <2>6, CallPoints DEF Waits
  <2>9. TopTells'
    BY <1>2, <1>4, <2>7, <2>8, CallTells
  <2>10. Pc' = t
    BY <2>3, <2>8
  <2> QED BY <1>1, <1>4, <2>5, <2>9, <2>10, RunIsOne
<1> QED BY <1>5, <1>6, <1>7

LEMMA ReturnRuns ==
  ASSUME Inv, Track, Return \/ MoveReturn \/ PopReturn
  PROVE  TopTells' /\ RunsOne
<1>1. Is("run") /\ modded' = modded /\ frames' = Front(frames) /\ UNCHANGED <<lr, asked, exit>>
  BY DEF Return, MoveReturn, PopReturn, Runs, world
<1>2. /\ exit = "none" /\ asked = FALSE
      /\ FramesInv /\ InCode /\ Top.key \in Nat
      /\ thumb = Mode(Top.key)
  BY <1>1, RunTells
<1>3. /\ Pc' = r15' + thumb'
      /\ TopTells'
      /\ asked' = FALSE
  BY <1>1, <1>2, LeavePoints, LeaveTells
<1>4. lr \in Nat /\ stack \in Seq(Nat)
  BY DEF Inv, RegsFit
<1>5. ASSUME NEW v \in Nat, r15' = Address(v), thumb' = Mode(v) PROVE Pc' = v
  BY <1>3, <1>5, KeyParts
<1>6. CASE Return
  <2>1. r15' = Address(lr) /\ thumb' = Mode(lr)
    BY <1>2, <1>6 DEF Return, ReturnTo
  <2>2. Outcome(lr, lr', stack', FALSE) \in Outcomes(Made[Top.key], Top.key, lr, stack)
    BY <1>6, OutcomesHave DEF Return, Runs
  <2> QED BY <1>1, <1>3, <1>4, <1>5, <2>1, <2>2, RunIsOne
<1>7. CASE MoveReturn
  <2>1. Kept(Top.key, lr) \in Nat /\ Mode(Kept(Top.key, lr)) = thumb
    BY <1>2, <1>4, KeptMode
  <2>2. r15' = Address(Kept(Top.key, lr)) /\ thumb' = thumb
    BY <1>7 DEF MoveReturn
  <2>3. Outcome(Kept(Top.key, lr), lr', stack', FALSE) \in Outcomes(Made[Top.key], Top.key, lr, stack)
    BY <1>7, OutcomesHave DEF MoveReturn, Runs
  <2> QED BY <1>1, <1>3, <1>5, <2>1, <2>2, <2>3, RunIsOne
<1>8. CASE PopReturn
  <2>1. r15' = Address(Popped(stack)) /\ thumb' = Mode(Popped(stack))
    BY <1>2, <1>8 DEF PopReturn, ReturnTo
  <2>2. Outcome(Popped(stack), lr', stack', FALSE) \in Outcomes(Made[Top.key], Top.key, lr, stack)
    BY <1>8, OutcomesHave DEF PopReturn, Runs
  <2>3. Popped(stack) \in Nat
    BY <1>4, SavedType
  <2> QED BY <1>1, <1>3, <1>5, <2>1, <2>2, <2>3, RunIsOne
<1> QED BY <1>6, <1>7, <1>8

\* An svc asks, and one only the interpreter knows does what it does.
LEMMA SvcRuns ==
  ASSUME Inv, Track, Svc
  PROVE  TopTells' /\ RunsOne
<1>1. /\ Is("run") /\ modded' = modded /\ frames' = Go("svc", Top.key)
      /\ UNCHANGED <<thumb, lr, stack, exit>>
      /\ asked' = TRUE /\ r15' = Address(After(Top.key))
  BY DEF Svc, Runs, world
<1>2. /\ exit = "none" /\ FramesInv /\ InCode /\ Top.key \in Nat
      /\ thumb = Mode(Top.key)
  BY <1>1, RunTells
<1>3. InCode' /\ Top' = [fn |-> Top.fn, at |-> "svc", key |-> Top.key]
  BY <1>1, <1>2, GoPoints DEF Places
<1>4. Pc' = After(Top.key)
  <2>1. After(Top.key) \in Nat /\ Mode(After(Top.key)) = thumb
    BY <1>2, KeyParts
  <2> QED BY <1>1, <1>3, <2>1, KeyParts DEF Pc
<1>5. TopTells'
  BY <1>1, <1>2, <1>3 DEF TopTells, Waits
<1>6. Outcome(After(Top.key), lr', stack', TRUE) \in Outcomes(Made[Top.key], Top.key, lr, stack)
  BY OutcomesHave DEF Svc, Runs
<1> QED BY <1>1, <1>4, <1>5, <1>6, RunIsOne

LEMMA UndefinedRuns ==
  ASSUME Inv, Track, Undefined
  PROVE  TopTells' /\ RunsOne
<1>1. Is("run") /\ modded' = modded /\ Made[Top.key].op = "und"
  BY DEF Undefined, Runs, world
<1>2. /\ exit = "none" /\ asked = FALSE
      /\ Pc = Top.key /\ Top.key \in Keys
      /\ Memory(Top.key) = Made[Top.key]
      /\ FramesInv /\ InCode /\ Top.key \in Nat
      /\ thumb = Mode(Top.key)
  BY <1>1, RunTells
<1>3. PICK o \in Outcomes(Memory(Top.key), Top.key, lr, stack) :
        /\ PointTo(o.pc)
        /\ lr' = o.lr /\ stack' = o.stack /\ asked' = o.asked
        /\ IF o.pc = After(Top.key)
           THEN frames' = Proceed(Top.fn, Top.key) /\ UNCHANGED <<exit, depth>>
           ELSE Leave("unwind")
  BY DEF Undefined
<1>4. o.pc \in Nat /\ r15' + thumb' = o.pc /\ thumb' = Mode(o.pc)
  <2>1. o.pc \in Nat
    BY <1>2, <1>3, OutcomeFits DEF Inv
  <2> QED BY <1>3, <2>1, KeyParts DEF PointTo
<1>5. asked' = FALSE
  <2>1. Memory(Top.key).op = "und"
    BY <1>1, <1>2
  <2>2. o.asked = FALSE
    BY <2>1, OnlySvcAsks, Zenon
  <2> QED BY <1>3, <2>2
<1>6. Pc' = o.pc /\ TopTells'
  <2>1. CASE o.pc = After(Top.key)
    <3>1. thumb' = Mode(Top.key)
      BY <1>2, <1>4, <2>1, KeyParts
    <3>2. Pc' = After(Top.key) /\ InCode' /\ Top'.at \in {"dispatch", "block", "run"}
      BY <1>2, <1>3, <2>1, <3>1, ProceedPoints
    <3> QED BY <1>2, <1>3, <1>5, <2>1, <3>2, GoTells
  <2>2. CASE o.pc # After(Top.key)
    <3>1. frames' = Front(frames)
      BY <1>3, <2>2 DEF Leave
    <3> QED BY <1>2, <1>4, <1>5, <3>1, LeavePoints, LeaveTells
  <2> QED BY <2>1, <2>2
<1>7. o \in Outcomes(Memory(Pc), Pc, lr, stack)
  BY <1>2, <1>3
<1> QED BY <1>1, <1>2, <1>3, <1>6, <1>7, Zenon DEF RunsOne

\* A native does what the code it replaces does, from where that starts, and
\* a function written by hand runs its original from there.
LEMMA NativeFacts ==
  ASSUME NEW n \in Natives, NEW k, AtWork(n, k)
  PROVE  /\ k \in Keys /\ Modded[k] = Made[k] /\ Made[k].op \in {"plain", "return"}
         /\ Made[k].op = "plain" => AtWork(n, After(k))
<1> DEFINE r == Replaces[n]
           w == Width(r)
           c == Cost[n]
<1>1. PICK i \in 0..c - 1 : k = r + i * w
  BY DEF AtWork
<1>2. r \in Nat /\ c \in Nat \ {0} /\ w \in {2, 4} /\ (w = 2 <=> r % 2 = 1)
  <2>1. Natives \subseteq Overrides /\ Replaces \in [Overrides -> Keys] /\ c \in Nat \ {0}
    BY RecompAssumption DEF RecompAssumption
  <2>2. r \in Nat
    BY <2>1, FunctionFacts
  <2> QED BY <2>1, <2>2 DEF Width, Mode
<1>3. /\ k \in Keys /\ Modded[k] = Made[k]
      /\ Made[k].op = IF i = c - 1 THEN "return" ELSE "plain"
  BY <1>1, NativesAssumption DEF NativesAssumption
<1>4. ASSUME Made[k].op = "plain" PROVE AtWork(n, After(k))
  <2>1. i + 1 \in 0..c - 1
    <3>1. i # c - 1
      BY <1>3, <1>4
    <3> HIDE DEF c
    <3> QED BY <1>2, <3>1
  <2>2. After(k) = r + (i + 1) * w
    <3>1. CASE w = 2
      BY <1>1, <1>2, <3>1 DEF After, Width, Mode
    <3>2. CASE w = 4
      BY <1>1, <1>2, <3>2 DEF After, Width, Mode
    <3> QED BY <1>2, <3>1, <3>2
  <2> QED BY <2>1, <2>2 DEF AtWork
<1> QED BY <1>3, <1>4

LEMMA NativeStays ==
  ASSUME Inv, Track, Native \/ Original
  PROVE  TopTells' /\ Stays
<1> DEFINE k == Replaces[Top.fn]
<1>1. InCode /\ Top.at = "in" /\ Top.fn \in Overrides
  BY RecompAssumption DEF Native, Original, Is, RecompAssumption
<1>2. /\ exit = "none" /\ asked = FALSE /\ FramesInv
  BY <1>1, BusyTells DEF Track, Waits
<1>3. k \in Nat
  BY <1>1, RecompAssumption, InstructionsAssumption DEF RecompAssumption, InstructionsAssumption
<1>4. Pc = r15 + thumb /\ r15 + thumb = k
  BY <1>1 DEF Pc, Track, TopTells
<1>5. UNCHANGED <<lr, stack, asked, modded>>
  BY DEF Native, Original, regs, world
<1>6. CASE Native
  <2>1. Top.fn \in Natives /\ frames' = Go("native", k) /\ exit' = exit
    BY <1>6 DEF Native
  <2>2. InCode' /\ Top' = [fn |-> Top.fn, at |-> "native", key |-> k]
    BY <1>1, <1>2, <1>3, <2>1, GoPoints DEF Places
  <2>3. Pc' = k
    BY <2>2 DEF Pc
  <2>4. AtWork(Top.fn, k)
    <3>1. Cost[Top.fn] \in Nat \ {0} /\ Width(k) \in Nat
      BY <2>1, RecompAssumption DEF RecompAssumption, Width
    <3>2. 0 \in 0..Cost[Top.fn] - 1 /\ k = k + 0 * Width(k)
      BY <1>3, <3>1
    <3> QED BY <3>2 DEF AtWork
  <2>5. TopTells'
    BY <1>2, <1>5, <2>1, <2>2, <2>4 DEF TopTells, Waits, AtWork
  <2> QED BY <1>4, <1>5, <2>3, <2>5 DEF Stays
<1>7. CASE Original
  <2>1. /\ IF depth + 1 > DepthLimit THEN UNCHANGED <<r15, thumb>> ELSE PointTo(k)
        /\ Call(Generated(k), "original", k)
    BY <1>7 DEF Original
  <2>2. r15' + thumb' = k
    BY <1>3, <1>4, <2>1, KeyParts DEF PointTo
  <2>3. Generated(k) # NoCode => Generated(k) \in Functions
    BY <1>3, GeneratedFits
  <2> HIDE DEF k
  <2>4. /\ Pc' = r15' + thumb'
        /\ InCode' => \/ Top'.at \in Waits /\ exit' = "unwind"
                      \/ Top'.at = "in" /\ exit' = exit /\ Top'.fn = Generated(k) /\ Generated(k) # NoCode
    BY <1>1, <1>2, <1>3, <2>1, <2>3, CallPoints DEF Waits
  <2>5. Generated(k) \notin Overrides
    BY <2>3, FunctionFacts
  <2>6. TopTells'
    BY <1>2, <1>5, <2>4, <2>5, CallTells
  <2> QED BY <1>4, <1>5, <2>2, <2>4, <2>6 DEF Stays
<1> QED BY <1>6, <1>7

LEMMA NativeRuns ==
  ASSUME Inv, Track, NativeWork
  PROVE  TopTells' /\ RunsOne
<1>1. /\ InCode /\ Top.at = "native"
      /\ UNCHANGED <<lr, stack, asked, exit, modded>>
  BY DEF NativeWork, Is, world
<1>2. /\ exit = "none" /\ asked = FALSE /\ FramesInv /\ Top.key \in Nat
      /\ r15 \in Nat /\ lr \in Nat
  BY <1>1, BusyTells DEF Waits, Track, Inv, RegsFit
<1>3. Top.fn \in Natives /\ AtWork(Top.fn, Top.key)
  BY <1>1 DEF Track, TopTells
<1>4. /\ Top.key \in Keys /\ Memory(Top.key) = Made[Top.key]
      /\ Made[Top.key].op \in {"plain", "return"}
      /\ Made[Top.key].op = "plain" => AtWork(Top.fn, After(Top.key))
  BY <1>3, NativeFacts DEF Memory
<1>5. Pc = Top.key
  BY <1>1 DEF Pc
<1>6. ASSUME NEW p, Outcome(p, lr, stack, FALSE) \in Outcomes(Made[Top.key], Top.key, lr, stack), Pc' = p
      PROVE  RunsOne
  <2> DEFINE o == Outcome(p, lr, stack, FALSE)
  <2>1. o.pc = Pc' /\ o.lr = lr' /\ o.stack = stack' /\ o.asked = asked'
    BY <1>1, <1>2, <1>6 DEF Outcome
  <2>2. o \in Outcomes(Memory(Pc), Pc, lr, stack)
    BY <1>4, <1>5, <1>6
  <2>3. ~asked /\ Pc \in Keys /\ modded' = modded
    BY <1>1, <1>2, <1>4, <1>5
  <2> QED BY <2>1, <2>2, <2>3, Zenon DEF RunsOne
<1>7. CASE Made[Top.key].op = "return"
  <2>1. PointTo(lr) /\ frames' = Front(frames)
    BY <1>7 DEF NativeWork
  <2>2. r15' + thumb' = lr
    BY <1>2, <2>1, KeyParts DEF PointTo
  <2>3. Pc' = lr /\ TopTells'
    BY <1>1, <1>2, <2>1, <2>2, LeavePoints, LeaveTells
  <2>4. Outcome(lr, lr, stack, FALSE) \in Outcomes(Made[Top.key], Top.key, lr, stack)
    BY <1>7, OutcomesHave
  <2> QED BY <1>6, <2>3, <2>4
<1>8. CASE Made[Top.key].op = "plain"
  <2>1. frames' = Go("native", After(Top.key))
    BY <1>8 DEF NativeWork
  <2>2. InCode' /\ Top' = [fn |-> Top.fn, at |-> "native", key |-> After(Top.key)]
    BY <1>1, <1>2, <2>1, KeyParts, GoPoints DEF Places
  <2>3. Pc' = After(Top.key)
    BY <2>2 DEF Pc
  <2>4. TopTells'
    BY <1>1, <1>2, <1>3, <1>4, <1>8, <2>2 DEF TopTells, Waits, AtWork
  <2>5. Outcome(After(Top.key), lr, stack, FALSE) \in Outcomes(Made[Top.key], Top.key, lr, stack)
    BY <1>8, OutcomesHave
  <2> QED BY <1>6, <2>3, <2>4, <2>5
<1> QED BY <1>4, <1>7, <1>8

\* The host serves, enters, interprets and starts again where the guest is.
LEMMA SvcServed ==
  ASSUME Inv, Track, ServeInPlace \/ ServeAndUnwind \/ LeaveSvc
  PROVE  TopTells' /\ (Stays \/ ServesOne)
<1>1. /\ InCode /\ Top.at = "svc"
      /\ UNCHANGED <<r15, thumb, lr, stack, modded>>
  BY DEF ServeInPlace, ServeAndUnwind, LeaveSvc, Is, regs, world
<1>2. /\ exit = "none" /\ FramesInv /\ Top.key \in Nat
      /\ thumb = Mode(Top.key)
  BY <1>1, BusyTells, InFrame DEF Waits, Track
<1>3. /\ asked /\ Pc = r15 + thumb /\ r15 = Address(After(Top.key))
  BY <1>1 DEF Track, TopTells, Pc
<1>4. Pc = After(Top.key)
  <2>1. After(Top.key) \in Nat /\ Mode(After(Top.key)) = thumb
    BY <1>2, KeyParts
  <2> QED BY <1>3, <2>1, KeyParts
<1>5. CASE ServeInPlace
  <2>1. frames' = Proceed(Top.fn, Top.key) /\ asked' = FALSE /\ exit' = exit
    BY <1>5 DEF ServeInPlace
  <2>2. Pc' = After(Top.key) /\ InCode' /\ Top'.at \in {"dispatch", "block", "run"}
    BY <1>1, <1>2, <2>1, ProceedPoints
  <2>3. TopTells'
    BY <1>2, <2>1, <2>2, GoTells
  <2> QED BY <1>1, <1>3, <1>4, <2>1, <2>2, <2>3 DEF ServesOne
<1>6. CASE ServeAndUnwind
  <2>1. frames' = Front(frames) /\ asked' = FALSE
    BY <1>6 DEF ServeAndUnwind, Leave
  <2>2. Pc' = r15' + thumb' /\ TopTells'
    BY <1>1, <1>2, <2>1, LeavePoints, LeaveTells
  <2> QED BY <1>1, <1>3, <2>1, <2>2 DEF ServesOne
<1>7. CASE LeaveSvc
  <2>1. frames' = Front(frames) /\ asked' = asked /\ exit' = "svc"
    BY <1>7 DEF LeaveSvc, Leave
  <2>2. Pc' = r15' + thumb' /\ TopTells'
    BY <1>1, <1>2, <2>1, LeavePoints, LeaveTells
  <2> QED BY <1>1, <1>3, <2>1, <2>2 DEF Stays
<1> QED BY <1>5, <1>6, <1>7

LEMMA LoopStays ==
  ASSUME Inv, Track, Enter
  PROVE  TopTells' /\ Stays
<1> DEFINE new == [fn |-> Lookup(Pc), at |-> "in", key |-> Pc]
<1>1. /\ ~InCode /\ asked = FALSE /\ exit' = "none"
      /\ frames' = <<new>>
      /\ UNCHANGED <<r15, thumb, lr, stack, asked, modded>>
  BY DEF Enter, HasTurn, regs, world, Inv, RegsFit
<1>2. Pc = r15 + thumb /\ Pc \in Nat
  BY <1>1 DEF Pc, Inv, RegsFit
<1>3. InCode' /\ Top' = new
  <2>1. Len(frames') = 1 /\ frames'[1] = new /\ frames' # <<>>
    <3> HIDE DEF new
    <3> QED BY <1>1
  <2> QED BY <2>1 DEF InCode, Top, Last
<1>4. Pc' = Pc
  BY <1>1, <1>2, <1>3 DEF Pc
<1>5. Lookup(Pc) \in Overrides => Replaces[Lookup(Pc)] = Pc
  BY <1>2, ByHandThere
<1>6. TopTells'
  BY <1>1, <1>2, <1>3, <1>5 DEF TopTells, Waits
<1> QED BY <1>1, <1>4, <1>6 DEF Stays

LEMMA LoopRuns ==
  ASSUME Inv, Track, Interpret
  PROVE  TopTells' /\ RunsOne
<1>1. /\ ~InCode /\ ~asked /\ Pc \in Keys
      /\ UNCHANGED <<frames, modded>>
  BY DEF Interpret, HasTurn, world
<1>2. PICK o \in Outcomes(Memory(Pc), Pc, lr, stack) :
        PointTo(o.pc) /\ lr' = o.lr /\ stack' = o.stack /\ asked' = o.asked
  BY DEF Interpret
<1>3. ~InCode'
  BY <1>1 DEF InCode
<1>4. Pc' = o.pc
  <2>1. o.pc \in Nat
    BY <1>1, <1>2, OutcomeFits DEF Inv
  <2> QED BY <1>2, <1>3, <2>1, KeyParts DEF Pc, PointTo
<1> QED BY <1>1, <1>2, <1>3, <1>4, Zenon DEF RunsOne, TopTells

\* The outermost function has returned and the host calls another.
RestartsOne ==
  /\ ~asked /\ Pc = Home /\ Pc' \in Starts
  /\ lr' = Home /\ stack' = <<>> /\ UNCHANGED <<asked, modded>>

LEMMA LoopServes ==
  ASSUME Inv, Track, Serve \/ Restart
  PROVE  TopTells' /\ (ServesOne \/ RestartsOne)
<1>1. ~InCode /\ ~InCode' /\ modded' = modded
  BY DEF Serve, Restart, InCode, world
<1>2. TopTells'
  BY <1>1 DEF TopTells
<1>3. CASE Serve
  BY <1>1, <1>2, <1>3 DEF Serve, regs, Pc, ServesOne
<1>4. CASE Restart
  <2>1. PICK k \in Starts : PointTo(k)
    BY <1>4 DEF Restart
  <2>2. k \in Nat
    BY <2>1, InstructionsAssumption DEF InstructionsAssumption
  <2>3. Pc' = k
    BY <1>1, <2>1, <2>2, KeyParts DEF Pc, PointTo
  <2> QED BY <1>1, <1>2, <1>4, <2>3 DEF Restart, RestartsOne
<1> QED BY <1>3, <1>4

\* Flags and code in memory change around the guest, not where it is; and
\* what a check marks is exactly the code that is not as it was made.
MovesCode == Pc' = Pc /\ modded' = ~modded /\ UNCHANGED <<lr, stack, asked>>

LEMMA FlagStays ==
  ASSUME Inv, Track, Reload \/ Mark
  PROVE  Track' /\ (Stays \/ MovesCode)
<1>1. UNCHANGED <<r15, thumb, lr, stack, asked, exit, frames>>
  BY DEF Reload, Mark, regs
<1>2. TopTells' /\ Pc' = Pc
  BY <1>1 DEF Track, TopTells, Pc, InCode, Top, AtWork
<1>3. CASE Reload
  <2>1. stale' = {f \in Functions : \E k \in Body[f] : Memory(k)' # Made[k]} /\ modded' = ~modded
    BY <1>3 DEF Reload
  <2>2. CodeIsMade'
    BY <2>1 DEF CodeIsMade
  <2> QED BY <1>1, <1>2, <2>1, <2>2 DEF Track, MovesCode
<1>4. CASE Mark
  <2>1. modded' = modded /\ stale \subseteq stale'
    BY <1>4 DEF Mark
  <2> QED BY <1>1, <1>2, <2>1, MadeKeeps DEF Track, Stays
<1> QED BY <1>3, <1>4

\* So every step is one of the guest's or none.
Follows == Stays \/ RunsOne \/ ServesOne \/ RestartsOne \/ MovesCode

LEMMA StepFollows ==
  ASSUME Inv, Track, [Next]_vars
  PROVE  Track' /\ Follows
<1>1. CASE UNCHANGED vars
  BY <1>1 DEF vars, regs, counts, world, Track, TopTells, CodeIsMade, Memory, InCode, Top, AtWork,
              Pc, Follows, Stays
<1>2. CASE Reload \/ Mark
  BY <1>2, FlagStays DEF Follows
<1>3. CASE Step
  <2>1. modded' = modded /\ stale' = stale
    BY <1>3 DEF Step, Code, Host, WayIn, Dispatch, Block, Back, Skip, Plain, Link, Push, Branch,
         BranchRegister, CallDirect, CallRegister, Return, MoveReturn, PopReturn, Svc, Undefined,
         Native, NativeWork, Original, Runs, ServeInPlace, ServeAndUnwind, LeaveSvc, Enter, Interpret,
         Serve, Restart, world
  <2>2. CodeIsMade'
    BY <2>1, MadeKeeps DEF Track
  <2>3. TopTells' /\ Follows
    BY <1>3, EnteringStays, PlainRuns, BranchRuns, ReturnRuns, SvcRuns, UndefinedRuns, NativeStays,
       NativeRuns, SvcServed, LoopStays, LoopRuns, LoopServes DEF Step, Code, Host, Follows
  <2> QED BY <2>2, <2>3 DEF Track
<1> QED BY <1>1, <1>2, <1>3 DEF Next

\* docs/interface.md, Exits: wherever the code stops the host can go on from
\* r15, and the guest runs exactly as it would have, for every program.
THEOREM RunsTheGuest == Spec => Implements
<1> USE DEF Guest!Keys, Keys
<1>1. Init => Guest!Init
  <2> SUFFICES ASSUME Init PROVE Guest!Init
    OBVIOUS
  <2>1. PICK k \in Starts : r15 = Address(k) /\ thumb = Mode(k)
    BY DEF Init
  <2>2. k \in Nat /\ ~InCode
    BY InstructionsAssumption DEF InstructionsAssumption, Init, InCode
  <2>3. Pc = k
    BY <2>1, <2>2, KeyParts DEF Pc
  <2> QED BY <2>3 DEF Init, Guest!Init
<1>2. Init => Track
  BY DEF Init, Track, CodeIsMade, Memory, TopTells, InCode
<1>3. \A i, k, l, s : Guest!Outcomes(i, k, l, s) = Outcomes(i, k, l, s)
  BY DEF Guest!Outcomes, Outcomes, Guest!After, After, Guest!Width, Width, Guest!Mode, Mode,
         Guest!Kept, Kept, Guest!Address, Address, Guest!Saved, Saved, Guest!Popped, Popped,
         Guest!Rest, Rest
<1>4. Follows => [Guest!Next]_Guest!vars
  <2> USE DEF Guest!Next, Guest!vars, Guest!guestVars
  <2>1. ASSUME Stays PROVE UNCHANGED Guest!vars
    BY <2>1 DEF Stays
  <2>2. ASSUME RunsOne PROVE Guest!Run
    <3>1. Guest!Memory(Pc) = Memory(Pc)
      BY DEF Guest!Memory, Memory
    <3> QED BY <1>3, <2>2, <3>1, Zenon DEF RunsOne, Guest!Run
  <2>3. ASSUME ServesOne PROVE Guest!Serve
    BY <2>3 DEF ServesOne, Guest!Serve
  <2>4. ASSUME RestartsOne PROVE Guest!Restart
    BY <2>4 DEF RestartsOne, Guest!Restart
  <2>5. ASSUME MovesCode PROVE Guest!Reload
    BY <2>5 DEF MovesCode, Guest!Reload
  <2> QED BY <2>1, <2>2, <2>3, <2>4, <2>5 DEF Follows
<1>5. Inv /\ Track /\ [Next]_vars => Track' /\ [Guest!Next]_Guest!vars
  BY <1>4, StepFollows
<1> QED BY <1>1, <1>2, <1>5, Invariant, PTL DEF Spec, Implements, Guest!Spec
-----------------------------------------------------------------------------
\* What a block is charged for: one instruction less with each that runs.
LEMMA RunShrinks ==
  ASSUME NEW f \in Functions, NEW k \in Body[f]
  PROVE  /\ RunLength(f, k) \in Nat \ {0}
         /\ After(k) \in Body[f] \ Labels[f] => RunLength(f, After(k)) + 1 <= RunLength(f, k)
         /\ After(k) \in Body[f] \ Labels[f] => RunLength(f, After(k)) \in Nat
<1> DEFINE Run(i) == {j \in Body[f] : i <= j /\ \A l \in Labels[f] : l <= i \/ j < l}
<1>1. /\ IsFiniteSet(Body[f]) /\ Body[f] \subseteq Keys /\ Keys \subseteq Nat
      /\ Labels[f] \subseteq Body[f]
      /\ \A i \in Body[f] : Mode(i) = Mode(k)
  BY FunctionFacts, RecompAssumption DEF RecompAssumption
<1>2. \A i : IsFiniteSet(Run(i)) /\ Cardinality(Run(i)) \in Nat /\ RunLength(f, i) = Cardinality(Run(i))
  BY <1>1, FS_Subset, FS_CardinalityType DEF RunLength
<1>0. /\ k \in Nat
      /\ \A i \in Body[f] : i \in Nat
      /\ \A l \in Labels[f] : l \in Body[f] /\ l \in Nat
  BY <1>1
<1>3. k \in Run(k)
  BY <1>0
<1>4. IsFiniteSet(Run(k) \ {k}) /\ Cardinality(Run(k) \ {k}) = Cardinality(Run(k)) - 1
  <2> HIDE DEF Run
  <2> QED BY <1>2, <1>3, FS_RemoveElement
<1>5. Cardinality(Run(k) \ {k}) \in Nat
  BY <1>4, FS_CardinalityType
<1>6. ASSUME After(k) \in Body[f] \ Labels[f] PROVE Run(After(k)) \subseteq Run(k) \ {k}
  <2>1. k \in Nat /\ After(k) \in Nat /\ k < After(k)
    BY ONLY <1>0 DEF After, Width
  <2>2. \A i \in Body[f] : i < After(k) => i <= k
    <3> SUFFICES ASSUME NEW i \in Body[f], i < After(k) PROVE i <= k
      OBVIOUS
    <3>1. i \in Nat /\ Mode(i) = Mode(k)
      BY <1>1
    <3>2. Mode(k) = 0 => i % 4 = 0 /\ k % 4 = 0
      BY <1>1, <3>1, InstructionsAssumption DEF InstructionsAssumption
    <3>3. CASE Mode(k) = 0
      <4>1. i % 4 = 0 /\ k % 4 = 0 /\ After(k) = k + 4
        BY <3>2, <3>3 DEF After, Width
      <4> QED BY <2>1, <3>1, <4>1
    <3>4. CASE Mode(k) # 0
      <4>1. After(k) = k + 2 /\ i % 2 = k % 2
        BY <2>1, <3>1, <3>4 DEF After, Width, Mode
      <4> QED BY <2>1, <3>1, <4>1
    <3> QED BY <3>3, <3>4
  <2>3. ASSUME NEW j \in Run(After(k)) PROVE j \in Run(k) /\ j # k
    <3>1. j \in Body[f] /\ j \in Nat /\ After(k) <= j /\ k < j
      BY <1>0, <2>1
    <3>2. ASSUME NEW l \in Labels[f] PROVE l <= k \/ j < l
      <4>1. l \in Body[f] /\ l \in Nat /\ l # After(k)
        BY <1>0, <1>6
      <4>2. l <= After(k) \/ j < l
        BY <2>3
      <4> QED BY <2>1, <2>2, <4>1, <4>2
    <3> QED BY <2>1, <3>1, <3>2
  <2> QED BY <2>3
<1>7. ASSUME After(k) \in Body[f] \ Labels[f]
      PROVE  Cardinality(Run(After(k))) <= Cardinality(Run(k) \ {k})
  <2> HIDE DEF Run
  <2> QED BY <1>4, <1>6, <1>7, FS_Subset
<1> HIDE DEF Run
<1> QED BY <1>2, <1>4, <1>5, <1>7

\* The invariant.  Behind a call and an svc there is a label, so what goes on
\* there is charged for anew; what runs has the rest of its block to its
\* credit, and a native the rest of its work.
CallsEnd ==
  \A i \in 1..Len(frames) : frames[i].at = "called" => Made[frames[i].key].op \in {"bl", "blx"}
RestPaid(n, k) ==
  \E i \in 0..Cost[n] - 1 :
    k = Replaces[n] + i * Width(Replaces[n]) /\ ran + (Cost[n] - i) <= given - budget
TopPaid ==
  InCode =>
    /\ Top.at = "svc" => Made[Top.key].op = "svc"
    /\ Top.at = "run" => ran + RunLength(Top.fn, Top.key) <= given - budget
    /\ Top.at = "native" => Top.fn \in Natives /\ RestPaid(Top.fn, Top.key)
Paid == CallsEnd /\ TopPaid /\ RanIsCharged

LEMMA QuietPaid ==
  ASSUME CallsEnd', InCode' => Top'.at \notin {"svc", "run", "native"}, RanIsCharged'
  PROVE  Paid'
BY DEF Paid, TopPaid

LEMMA GoEnds ==
  ASSUME FramesInv, InCode, CallsEnd, NEW place \in Places \ {"called"}, NEW k \in Nat,
         frames' = Go(place, k)
  PROVE  CallsEnd'
<1>1. frames \in Seq(Frame)
  BY DEF FramesInv
<1>2. /\ Len(frames') = Len(frames)
      /\ frames'[Len(frames)] = [fn |-> Top.fn, at |-> place, key |-> k]
      /\ \A i \in 1..Len(frames) - 1 : frames'[i] = frames[i]
  BY <1>1, GoFacts
<1>3. frames'[Len(frames)].at # "called"
  BY <1>2
<1> QED BY <1>1, <1>2, <1>3 DEF CallsEnd

LEMMA LeaveEnds ==
  ASSUME FramesInv, InCode, CallsEnd, frames' = Front(frames)
  PROVE  CallsEnd' /\ (InCode' => Top'.at \in Waits)
<1>1. frames \in Seq(Frame) /\ frames # <<>>
  BY DEF FramesInv, InCode
<1>2. Len(frames') = Len(frames) - 1 /\ \A i \in 1..Len(frames) - 1 : frames'[i] = frames[i]
  BY <1>1, FrontFacts
<1> QED BY <1>1, <1>2, LeavePoints DEF CallsEnd

LEMMA CallEnds ==
  ASSUME FramesInv, InCode, CallsEnd, NEW code, NEW place \in Waits, NEW k \in Nat,
         Call(code, place, k), code # NoCode => code \in Functions \cup Overrides,
         place = "called" => Made[k].op \in {"bl", "blx"}
  PROVE  CallsEnd' /\ (InCode' => Top'.at \in Waits \cup {"in"})
<1> DEFINE new == [fn |-> code, at |-> "in", key |-> k]
<1>1. frames \in Seq(Frame) /\ Len(frames) \in Nat
  BY DEF FramesInv
<1>2. /\ Go(place, k) \in Seq(Frame)
      /\ Len(Go(place, k)) = Len(frames)
      /\ Go(place, k)[Len(frames)] = [fn |-> Top.fn, at |-> place, key |-> k]
      /\ \A i \in 1..Len(frames) - 1 : Go(place, k)[i] = frames[i]
  <2>1. place \in Places
    BY DEF Waits, Places
  <2> QED BY <1>1, <2>1, GoFacts
<1>3. \A i \in 1..Len(frames) : Go(place, k)[i].at = "called" => Made[Go(place, k)[i].key].op \in {"bl", "blx"}
  <2> SUFFICES ASSUME NEW i \in 1..Len(frames), Go(place, k)[i].at = "called"
               PROVE  Made[Go(place, k)[i].key].op \in {"bl", "blx"}
    OBVIOUS
  <2>1. CASE i = Len(frames)
    <3>1. Go(place, k)[i] = [fn |-> Top.fn, at |-> place, key |-> k]
      BY <1>2, <2>1
    <3> QED BY <3>1
  <2>2. CASE i # Len(frames)
    BY <1>1, <1>2, <2>2 DEF CallsEnd
  <2> QED BY <2>1, <2>2
<1>4. InCode' => Top'.at \in Waits \cup {"in"}
  BY CallPoints
<1>5. CASE frames' = Front(frames)
  BY <1>5, LeaveEnds
<1>6. CASE frames' = Go(place, k)
  BY <1>2, <1>3, <1>4, <1>6 DEF CallsEnd
<1>7. CASE code # NoCode /\ frames' = Append(Go(place, k), new)
  <2>1. new \in Frame
    BY <1>7 DEF Frame, Places
  <2>2. /\ Len(frames') = Len(frames) + 1
        /\ frames'[Len(frames) + 1] = new
        /\ \A i \in 1..Len(frames) : frames'[i] = Go(place, k)[i]
    <3> HIDE DEF new
    <3> QED BY <1>2, <1>7, <2>1, AppendFacts
  <2>3. frames'[Len(frames) + 1].at # "called"
    BY <2>2
  <2> HIDE DEF new
  <2>4. \A i \in 1..Len(frames) + 1 : i = Len(frames) + 1 \/ i \in 1..Len(frames)
    BY <1>1
  <2>5. CallsEnd'
    BY <1>3, <2>2, <2>3, <2>4 DEF CallsEnd
  <2> QED BY <1>4, <2>5
<1>8. \/ frames' = Front(frames) \/ frames' = Go(place, k)
      \/ code # NoCode /\ frames' = Append(Go(place, k), new)
  BY DEF Call
<1> QED BY <1>5, <1>6, <1>7, <1>8

LEMMA ProceedEnds ==
  ASSUME FramesInv, InCode, CallsEnd, NEW k \in Nat, frames' = Proceed(Top.fn, k)
  PROVE  /\ CallsEnd'
         /\ InCode' => \/ Top'.at \in {"dispatch", "block"}
                       \/ /\ After(k) \in Body[Top.fn] \ Labels[Top.fn]
                          /\ Top' = [fn |-> Top.fn, at |-> "run", key |-> After(k)]
<1>1. After(k) \in Nat /\ Address(After(k)) \in Nat
  BY KeyParts
<1>2. CASE After(k) \notin Body[Top.fn]
  BY <1>1, <1>2, GoEnds, GoPoints DEF Proceed, Places
<1>3. CASE After(k) \in Body[Top.fn] /\ After(k) \in Labels[Top.fn]
  BY <1>1, <1>3, GoEnds, GoPoints DEF Proceed, Places
<1>4. CASE After(k) \in Body[Top.fn] /\ After(k) \notin Labels[Top.fn]
  BY <1>1, <1>4, GoEnds, GoPoints DEF Proceed, Places
<1> QED BY <1>2, <1>3, <1>4

\* Behind a call or an svc there is a label, if the function goes on there.
LEMMA AfterEnds ==
  ASSUME NEW f \in Functions, NEW k \in Body[f], Made[k].op \in {"bl", "blx", "svc"}
  PROVE  After(k) \notin Body[f] \ Labels[f]
BY DEF Labels

\* Steps that run nothing and charge nothing.
LEMMA FreePaid ==
  ASSUME Inv, Paid, WayIn \/ Dispatch \/ Back \/ Original \/ ServeInPlace \/ ServeAndUnwind \/ LeaveSvc
  PROVE  Paid'
<1> USE DEF Paid
<1>1. InCode /\ FramesInv /\ Top.key \in Nat
  BY InFrame DEF WayIn, Dispatch, Back, Original, ServeInPlace, ServeAndUnwind, LeaveSvc, Is, Inv
<1>2. r15 \in Nat /\ Mode(r15) = 0 /\ thumb \in {0, 1}
  BY DEF Inv, RegsFit
<1>3. RanIsCharged'
  <2>1. CASE UNCHANGED counts
    BY <2>1 DEF counts, RanIsCharged
  <2>2. CASE ServeInPlace /\ ~UNCHANGED counts
    <3>1. PICK b \in Budgets : budget' = b /\ given' = b /\ ran' = 0
      BY <2>2 DEF ServeInPlace
    <3>2. b \in Nat
      BY RecompAssumption DEF RecompAssumption
    <3> QED BY <3>1, <3>2 DEF RanIsCharged
  <2> QED BY <2>1, <2>2 DEF WayIn, Dispatch, Back, Original, ServeAndUnwind, LeaveSvc
<1>4. CASE frames' = Front(frames)
  BY <1>1, <1>3, <1>4, LeaveEnds, QuietPaid DEF Waits
<1>5. CASE WayIn
  <2>1. Top.fn \in Functions /\ Entry[Top.fn] \in Nat
    BY <1>5, FunctionFacts DEF WayIn
  <2>2. \/ frames' = Front(frames) \/ frames' = Go("block", Entry[Top.fn])
        \/ frames' = Go("dispatch", r15)
    BY <1>5 DEF WayIn, Leave
  <2> QED BY <1>1, <1>2, <1>3, <1>4, <2>1, <2>2, GoEnds, GoPoints, QuietPaid DEF Places
<1>6. CASE Dispatch
  <2> DEFINE k == Top.key + thumb
  <2>1. k \in Nat /\ Mode(k) = thumb
    BY <1>1, <1>2, <1>6, KeyOf DEF FramesInv, TopFits, Dispatch, Is
  <2>2. frames' = Go("block", k) \/ Call(Lookup(k), "tail", k)
    BY <1>6 DEF Dispatch
  <2> HIDE DEF k
  <2>3. Lookup(k) # NoCode => Lookup(k) \in Functions \cup Overrides
    BY <2>1, LookupFits DEF Fits
  <2>4. CASE frames' = Go("block", k)
    BY <1>1, <1>3, <2>1, <2>4, GoEnds, GoPoints, QuietPaid DEF Places
  <2>5. CASE Call(Lookup(k), "tail", k)
    BY <1>1, <1>3, <2>1, <2>3, <2>5, CallEnds, QuietPaid DEF Waits
  <2> QED BY <2>2, <2>4, <2>5
<1>7. ASSUME frames' = Proceed(Top.fn, Top.key), Top.fn \in Functions, Top.key \in Body[Top.fn],
             Made[Top.key].op \in {"bl", "blx", "svc"}
      PROVE  Paid'
  <2>1. After(Top.key) \notin Body[Top.fn] \ Labels[Top.fn]
    BY <1>7, AfterEnds
  <2> QED BY <1>1, <1>3, <1>7, <2>1, ProceedEnds, QuietPaid
<1>8. CASE Back /\ frames' # Front(frames)
  <2>1. Top.at = "called" /\ (frames' = Proceed(Top.fn, Top.key) \/ frames' = Go("dispatch", r15))
    BY <1>8 DEF Back
  <2>2. Top.fn \in Functions /\ Top.key \in Body[Top.fn] /\ Made[Top.key].op \in {"bl", "blx"}
    <3>1. Len(frames) \in 1..Len(frames) /\ Top = frames[Len(frames)]
      BY <1>1, TopFacts DEF FramesInv
    <3> QED BY <1>1, <2>1, <3>1 DEF FramesInv, FramesFit, Compiled, CallsEnd
  <2>3. CASE frames' = Go("dispatch", r15)
    BY <1>1, <1>2, <1>3, <2>3, GoEnds, GoPoints, QuietPaid DEF Places
  <2> QED BY <1>7, <2>1, <2>2, <2>3
<1>9. CASE Original
  <2> DEFINE k == Replaces[Top.fn]
  <2>1. k \in Nat /\ Call(Generated(k), "original", k)
    BY <1>9, RecompAssumption, InstructionsAssumption DEF Original, RecompAssumption, InstructionsAssumption
  <2> HIDE DEF k
  <2>2. Generated(k) # NoCode => Generated(k) \in Functions \cup Overrides
    BY <2>1, GeneratedFits
  <2> QED BY <1>1, <1>3, <2>1, <2>2, CallEnds, QuietPaid DEF Waits
<1>10. CASE ServeInPlace
  <2>1. Top.at = "svc" /\ frames' = Proceed(Top.fn, Top.key)
    BY <1>10 DEF ServeInPlace, Is
  <2>2. Top.fn \in Functions /\ Top.key \in Body[Top.fn] /\ Made[Top.key].op = "svc"
    BY <1>1, <2>1, InFrame DEF Compiled, TopPaid
  <2> QED BY <1>7, <2>1, <2>2
<1>11. CASE ServeAndUnwind \/ LeaveSvc
  BY <1>4, <1>11 DEF ServeAndUnwind, LeaveSvc, Leave
<1> QED BY <1>4, <1>5, <1>6, <1>8, <1>9, <1>10, <1>11

\* The charges, of a block and of a native.
LEMMA ChargePaid ==
  ASSUME Inv, Paid, Block \/ Native
  PROVE  Paid'
<1> USE DEF Paid, RanIsCharged
<1>1. InCode /\ FramesInv /\ Top.key \in Nat
  BY InFrame DEF Block, Native, Is, Inv
<1>2. budget \in Nat /\ given \in Nat /\ ran \in Nat /\ ran' = ran /\ given' = given
  BY DEF Inv, CountsFit, Block, Native
<1>3. CASE Block
  <2> DEFINE n == RunLength(Top.fn, Top.key)
  <2>1. n \in Nat
    <3>1. Top.at = "block"
      BY <1>3 DEF Block, Is
    <3>2. Top.fn \in Functions /\ Top.key \in Body[Top.fn]
      BY <1>1, <3>1, InFrame DEF Compiled
    <3> QED BY <3>2, RunShrinks
  <2>2. CASE budget - n < 0
    <3>1. frames' = Front(frames) /\ budget' = budget
      BY <1>3, <2>2 DEF Block, Leave
    <3> QED BY <1>1, <1>2, <3>1, LeaveEnds, QuietPaid DEF Waits
  <2>3. CASE ~(budget - n < 0)
    <3>1. frames' = Go("run", Top.key) /\ budget' = budget - n
      BY <1>3, <2>3 DEF Block
    <3>2. InCode' /\ Top' = [fn |-> Top.fn, at |-> "run", key |-> Top.key] /\ CallsEnd'
      BY <1>1, <3>1, GoEnds, GoPoints DEF Places
    <3>3. RunLength(Top'.fn, Top'.key) = n
      BY <3>2
    <3> HIDE DEF n
    <3>4. ran' <= given' - budget' /\ ran' + n <= given' - budget'
      BY <1>2, <2>1, <3>1
    <3> QED BY <3>2, <3>3, <3>4 DEF TopPaid
  <2> QED BY <2>2, <2>3
<1>4. CASE Native
  <2> DEFINE k == Replaces[Top.fn]
             c == Cost[Top.fn]
  <2>1. /\ Top.fn \in Natives /\ Top.fn \in Overrides
        /\ frames' = Go("native", k) /\ budget' = budget - c /\ c \in Nat \ {0}
    BY <1>4, RecompAssumption DEF Native, RecompAssumption
  <2>2. k \in Nat
    BY <2>1, RecompAssumption, InstructionsAssumption DEF RecompAssumption, InstructionsAssumption
  <2>3. InCode' /\ Top' = [fn |-> Top.fn, at |-> "native", key |-> k] /\ CallsEnd'
    BY <1>1, <2>1, <2>2, GoEnds, GoPoints DEF Places
  <2>4. ran' <= given' - budget' /\ ran' + c <= given' - budget'
    <3> HIDE DEF c
    <3> QED BY <1>2, <2>1
  <2>5. 0 \in 0..c - 1 /\ k = k + 0 * Width(k) /\ ran' + (c - 0) <= given' - budget'
    <3>1. Width(k) \in Nat
      BY DEF Width
    <3> HIDE DEF c, k
    <3> QED BY <1>2, <2>1, <2>2, <2>4, <3>1
  <2>6. RestPaid(Top.fn, k)'
    BY <2>3, <2>5 DEF RestPaid
  <2> QED BY <2>1, <2>3, <2>4, <2>6 DEF TopPaid, RestPaid
<1> QED BY <1>3, <1>4

\* An instruction takes one from what is left of its block's charge.
LEMMA RunPaid ==
  ASSUME Inv, Paid, Is("run"), ran' = ran + 1, budget' = budget, given' = given
  PROVE  /\ RanIsCharged'
         /\ CallsEnd' /\ (InCode' => Top'.at \notin {"svc", "run", "native"}) => Paid'
         /\ frames' = Proceed(Top.fn, Top.key) => Paid'
         /\ frames' = Front(frames) => Paid'
<1> USE DEF Paid
<1>1. /\ InCode /\ Top.at = "run" /\ Top.fn \in Functions /\ Top.key \in Body[Top.fn]
      /\ Top.key \in Nat /\ FramesInv
  BY RunFacts DEF Inv
<1>2. budget \in Nat /\ given \in Nat /\ ran \in Nat
  BY DEF Inv, CountsFit
<1>3. ran + RunLength(Top.fn, Top.key) <= given - budget
  BY <1>1 DEF TopPaid
<1>4. RunLength(Top.fn, Top.key) \in Nat \ {0}
  BY <1>1, RunShrinks
<1>5. RanIsCharged'
  BY <1>2, <1>3, <1>4 DEF RanIsCharged
<1>6. CallsEnd' /\ (InCode' => Top'.at \notin {"svc", "run", "native"}) => Paid'
  BY <1>5, QuietPaid
<1>7. ASSUME frames' = Front(frames) PROVE Paid'
  BY <1>1, <1>6, <1>7, LeaveEnds DEF Waits
<1>8. ASSUME frames' = Proceed(Top.fn, Top.key) PROVE Paid'
  <2> DEFINE next == After(Top.key)
  <2>1. /\ CallsEnd'
        /\ InCode' => \/ Top'.at \in {"dispatch", "block"}
                      \/ /\ next \in Body[Top.fn] \ Labels[Top.fn]
                         /\ Top' = [fn |-> Top.fn, at |-> "run", key |-> next]
    BY <1>1, <1>8, ProceedEnds
  <2>2. CASE InCode' => Top'.at \in {"dispatch", "block"}
    BY <1>6, <2>1, <2>2
  <2>3. CASE next \in Body[Top.fn] \ Labels[Top.fn] /\ Top' = [fn |-> Top.fn, at |-> "run", key |-> next]
    <3>1. RunLength(Top.fn, next) + 1 <= RunLength(Top.fn, Top.key) /\ RunLength(Top.fn, next) \in Nat
      BY <1>1, <2>3, RunShrinks
    <3>2. ran' + RunLength(Top.fn, next) <= given' - budget'
      BY <1>2, <1>3, <1>4, <3>1
    <3>3. Top'.at = "run" /\ RunLength(Top'.fn, Top'.key) = RunLength(Top.fn, next)
      BY <2>3
    <3>4. TopPaid'
      BY <3>2, <3>3 DEF TopPaid
    <3> QED BY <1>5, <2>1, <3>4
  <2> QED BY <2>1, <2>2, <2>3
<1> QED BY <1>5, <1>6, <1>7, <1>8

LEMMA RunsPaid ==
  ASSUME Inv, Paid, \/ Skip \/ Plain \/ Link \/ Push \/ Branch \/ BranchRegister
                    \/ CallDirect \/ CallRegister \/ Return \/ MoveReturn \/ PopReturn
                    \/ Svc \/ Undefined
  PROVE  Paid'
<1>1. Is("run") /\ ran' = ran + 1 /\ budget' = budget /\ given' = given
  BY DEF Skip, Plain, Link, Push, Branch, BranchRegister, CallDirect, CallRegister, Return,
         MoveReturn, PopReturn, Svc, Undefined, Runs
<1>2. /\ InCode /\ Top.fn \in Functions /\ Top.key \in Body[Top.fn]
      /\ Top.key \in Nat /\ FramesInv /\ Made[Top.key].to \subseteq Nat
  BY <1>1, RunFacts DEF Inv
<1>3. CASE frames' = Proceed(Top.fn, Top.key) \/ frames' = Front(frames)
  BY <1>1, <1>3, RunPaid
<1>4. ASSUME CallsEnd', InCode' => Top'.at \notin {"svc", "run", "native"} PROVE Paid'
  BY <1>1, <1>4, RunPaid
<1>5. CASE Branch
  <2>1. PICK t \in Made[Top.key].to : Jump(t)
    BY <1>5 DEF Branch
  <2>2. t \in Nat /\ Address(t) \in Nat
    BY <1>2, <2>1, KeyParts
  <2>3. CASE frames' = Go("block", t) \/ frames' = Go("dispatch", Address(t))
    <3>1. PICK place \in {"block", "dispatch"}, k \in Nat : frames' = Go(place, k)
      BY <2>2, <2>3
    <3>2. place \in Places \ {"called"}
      BY DEF Places
    <3> QED BY <1>2, <1>4, <3>1, <3>2, GoEnds, GoPoints DEF Paid
  <2>4. CASE Name(t) # NoCode /\ Call(Name(t), "tail", t)
    <3>1. Name(t) \in Functions \cup Overrides
      BY <2>2, <2>4, NameFits DEF Fits
    <3> QED BY <1>2, <1>4, <2>2, <2>4, <3>1, CallEnds DEF Waits, Paid
  <2> QED BY <2>1, <2>3, <2>4 DEF Jump
<1>6. CASE BranchRegister
  <2>1. PICK t \in Made[Top.key].to : frames' = Go("dispatch", Address(t))
    BY <1>6 DEF BranchRegister
  <2>2. Address(t) \in Nat
    BY <1>2, <2>1, KeyParts
  <2> QED BY <1>2, <1>4, <2>1, <2>2, GoEnds, GoPoints DEF Places, Paid
<1>7. CASE CallDirect \/ CallRegister
  <2>1. Made[Top.key].op \in {"bl", "blx"}
    BY <1>7 DEF CallDirect, CallRegister, Runs
  <2>2. \E t \in Made[Top.key].to : \E code \in {Name(t), Lookup(t)} : Call(code, "called", Top.key)
    BY <1>7 DEF CallDirect, CallRegister
  <2>11. PICK t \in Made[Top.key].to : \E code \in {Name(t), Lookup(t)} : Call(code, "called", Top.key)
    BY <2>2
  <2>3. PICK code \in {Name(t), Lookup(t)} : Call(code, "called", Top.key)
    BY <2>11
  <2>4. code # NoCode => code \in Functions \cup Overrides
    BY <1>2, <2>3, NameFits, LookupFits DEF Fits
  <2> QED BY <1>2, <1>4, <2>1, <2>3, <2>4, CallEnds DEF Waits, Paid
<1>8. CASE Svc
  <2>1. frames' = Go("svc", Top.key) /\ Made[Top.key].op = "svc"
    BY <1>8 DEF Svc, Runs
  <2>2. InCode' /\ Top' = [fn |-> Top.fn, at |-> "svc", key |-> Top.key] /\ CallsEnd'
    BY <1>2, <2>1, GoEnds, GoPoints DEF Places, Paid
  <2>3. TopPaid'
    BY <2>1, <2>2 DEF TopPaid
  <2> QED BY <1>1, <2>2, <2>3, RunPaid DEF Paid
<1>9. CASE Undefined
  <2>1. frames' = Proceed(Top.fn, Top.key) \/ frames' = Front(frames)
    BY <1>9 DEF Undefined, Leave
  <2> QED BY <1>3, <2>1
<1> QED BY <1>3, <1>5, <1>6, <1>7, <1>8, <1>9
     DEF Skip, Plain, Link, Push, Return, MoveReturn, PopReturn

LEMMA NativePaid ==
  ASSUME Inv, Paid, NativeWork
  PROVE  Paid'
<1> USE DEF Paid
<1>1. InCode /\ Top.at = "native" /\ FramesInv /\ Top.key \in Nat
  BY InFrame DEF NativeWork, Is, Inv
<1>2. /\ budget \in Nat /\ given \in Nat /\ ran \in Nat
      /\ ran' = ran + 1 /\ budget' = budget /\ given' = given
  BY DEF Inv, CountsFit, NativeWork
<1> DEFINE n == Top.fn
           c == Cost[n]
           r == Replaces[n]
<1>3. n \in Natives /\ RestPaid(n, Top.key)
  BY <1>1 DEF TopPaid
<1>4. PICK i \in 0..c - 1 : Top.key = r + i * Width(r) /\ ran + (c - i) <= given - budget
  BY <1>3 DEF RestPaid
<1>5. c \in Nat \ {0} /\ r \in Nat
  <2>1. Natives \subseteq Overrides /\ Replaces \in [Overrides -> Keys] /\ c \in Nat \ {0}
    BY <1>3, RecompAssumption DEF RecompAssumption
  <2> QED BY <1>3, <2>1, FunctionFacts
<1>6. Made[Top.key].op = IF i = c - 1 THEN "return" ELSE "plain"
  BY <1>3, <1>4, NativesAssumption DEF NativesAssumption
<1>7. ran' <= given' - budget'
  <2> HIDE DEF c, r
  <2> QED BY <1>2, <1>4, <1>5
<1>8. CASE Made[Top.key].op = "return"
  <2>1. frames' = Front(frames)
    BY <1>8 DEF NativeWork
  <2> QED BY <1>1, <1>7, <2>1, LeaveEnds, QuietPaid DEF Waits, RanIsCharged
<1>9. CASE Made[Top.key].op # "return"
  <2>1. frames' = Go("native", After(Top.key)) /\ After(Top.key) \in Nat
    BY <1>1, <1>9, KeyParts DEF NativeWork
  <2>2. InCode' /\ Top' = [fn |-> n, at |-> "native", key |-> After(Top.key)] /\ CallsEnd'
    BY <1>1, <2>1, GoEnds, GoPoints DEF Places
  <2>3. i + 1 \in 0..c - 1 /\ ran' + (c - (i + 1)) <= given' - budget'
    <3>1. i # c - 1
      BY <1>6, <1>9
    <3> HIDE DEF c, r
    <3> QED BY <1>2, <1>4, <1>5, <3>1
  <2>4. After(Top.key) = r + (i + 1) * Width(r)
    <3> HIDE DEF r, c
    <3>1. CASE r % 2 = 1
      BY <1>4, <1>5, <3>1 DEF After, Width, Mode
    <3>2. CASE r % 2 # 1
      BY <1>4, <1>5, <3>2 DEF After, Width, Mode
    <3> QED BY <3>1, <3>2
  <2>5. \E j \in 0..Cost[n] - 1 : /\ After(Top.key) = Replaces[n] + j * Width(Replaces[n])
                                  /\ ran' + (Cost[n] - j) <= given' - budget'
    BY <2>3, <2>4
  <2>6. TopPaid'
    <3> HIDE DEF n
    <3> QED BY <1>3, <2>2, <2>5 DEF TopPaid, RestPaid
  <2> QED BY <1>7, <2>2, <2>6 DEF RanIsCharged
<1> QED BY <1>8, <1>9

\* The host's loop sets a budget only with nothing running.
LEMMA LoopPaid ==
  ASSUME Inv, Paid, Enter \/ Interpret \/ Serve \/ Restart \/ Reload \/ Mark \/ UNCHANGED vars
  PROVE  Paid'
<1> USE DEF Paid
<1>1. CASE Enter
  <2> DEFINE new == [fn |-> Lookup(Pc), at |-> "in", key |-> Pc]
  <2>1. frames' = <<new>> /\ ran' = 0
    BY <1>1 DEF Enter
  <2>2. PICK b \in Budgets : budget' = b /\ given' = b
    BY <1>1 DEF Enter
  <2>3. b \in Nat
    BY RecompAssumption DEF RecompAssumption
  <2>4. RanIsCharged'
    BY <2>1, <2>2, <2>3 DEF RanIsCharged
  <2>5. Len(frames') = 1 /\ frames'[1] = new
    <3> HIDE DEF new
    <3> QED BY <2>1
  <2>6. CallsEnd' /\ Top'.at = "in"
    BY <2>5 DEF CallsEnd, Top, Last
  <2> QED BY <2>4, <2>6, QuietPaid
<1>2. CASE Interpret \/ Serve \/ Restart \/ Reload \/ Mark \/ UNCHANGED vars
  <2>1. UNCHANGED <<frames, counts>>
    BY <1>2 DEF Interpret, Serve, Restart, Reload, Mark, vars
  <2> QED BY <2>1 DEF CallsEnd, TopPaid, RestPaid, RanIsCharged, InCode, Top, counts
<1> QED BY <1>1, <1>2

LEMMA PaidStep == Inv /\ Paid /\ [Next]_vars => Paid'
BY FreePaid, ChargePaid, RunsPaid, NativePaid, LoopPaid DEF Next, Step, Code, Host

\* No instruction runs that has not been charged for, natives and a block that
\* is left in its middle included.
THEOREM ChargeCorrect == Spec => []RanIsCharged
<1>1. Init => Paid
  <2> SUFFICES ASSUME Init PROVE Paid
    OBVIOUS
  <2>1. frames = <<>> /\ Len(frames) = 0 /\ budget = 0 /\ given = 0 /\ ran = 0
    BY DEF Init
  <2> QED BY <2>1 DEF Paid, CallsEnd, TopPaid, RanIsCharged, InCode
<1>2. Paid => RanIsCharged
  BY DEF Paid
<1> QED BY <1>1, <1>2, PaidStep, Invariant, PTL DEF Spec
-----------------------------------------------------------------------------
\* No function ends in an svc.  Analysis goes on behind one, so a function that
\* did would go on to bytes that are no instruction.
SvcsGoOn ==
  \A f \in Functions : \A k \in Body[f] : Made[k].op = "svc" => After(k) \in Body[f]

\* A block starts at a label, and while the code is left for the host to come
\* back, r15 is where there is an entry.
AtLabel == InCode /\ Top.at = "block" => Top.key \in Labels[Top.fn]
ExitKnown == exit \in {"budget", "svc"} => r15 + thumb \in DOMAIN Entries
Known == AtLabel /\ ExitKnown

LEMMA LabelFacts ==
  ASSUME NEW f \in Functions, NEW k \in Labels[f]
  PROVE  k \in Nat /\ k \in DOMAIN Entries
<1>1. k \in Nat
  BY FunctionFacts
<1>2. k \in UNION {Labels[g] : g \in Functions}
  BY Zenon
<1> QED BY <1>1, <1>2 DEF Entries

LEMMA PlaceLabel ==
  ASSUME FramesInv, InCode, NEW place \in Places, NEW k \in Nat, frames' = Go(place, k),
         place = "block" => k \in Labels[Top.fn]
  PROVE  AtLabel'
BY GoPoints DEF AtLabel

LEMMA LeaveLabel ==
  ASSUME FramesInv, InCode, frames' = Front(frames)
  PROVE  AtLabel'
BY LeavePoints DEF AtLabel, Waits

LEMMA CallLabel ==
  ASSUME FramesInv, InCode, NEW code, NEW place \in Waits, NEW k \in Nat,
         Call(code, place, k), code # NoCode => code \in Functions \cup Overrides
  PROVE  AtLabel' /\ exit' \in {exit, "unwind"}
<1>1. AtLabel'
  BY CallPoints DEF AtLabel, Waits
<1> QED BY <1>1 DEF Call

LEMMA ProceedLabel ==
  ASSUME FramesInv, InCode, NEW k \in Nat, frames' = Proceed(Top.fn, k)
  PROVE  AtLabel'
<1>1. After(k) \in Nat /\ Address(After(k)) \in Nat
  BY KeyParts
<1>2. CASE After(k) \notin Body[Top.fn]
  BY <1>1, <1>2, PlaceLabel DEF Proceed, Places
<1>3. CASE After(k) \in Body[Top.fn] /\ After(k) \in Labels[Top.fn]
  BY <1>1, <1>3, PlaceLabel DEF Proceed, Places
<1>4. CASE After(k) \in Body[Top.fn] /\ After(k) \notin Labels[Top.fn]
  BY <1>1, <1>4, PlaceLabel DEF Proceed, Places
<1> QED BY <1>2, <1>3, <1>4

\* What runs starts no exit but an unwind.
LEMMA RunsKnown ==
  ASSUME Inv, Track, \/ Skip \/ Plain \/ Link \/ Push \/ Branch \/ BranchRegister
                     \/ CallDirect \/ CallRegister \/ Return \/ MoveReturn \/ PopReturn
                     \/ Svc \/ Undefined
  PROVE  Known'
<1>1. Is("run")
  BY DEF Skip, Plain, Link, Push, Branch, BranchRegister, CallDirect, CallRegister, Return,
         MoveReturn, PopReturn, Svc, Undefined, Runs
<1>2. /\ InCode /\ Top.fn \in Functions /\ Top.key \in Nat /\ FramesInv
      /\ Made[Top.key].to \subseteq Nat /\ exit = "none"
  BY <1>1, RunFacts, RunTells
<1>3. AtLabel' /\ exit' \in {exit, "unwind"}
  <2>1. CASE Skip \/ Plain \/ Link \/ Push
    BY <1>2, <2>1, ProceedLabel DEF Skip, Plain, Link, Push
  <2>2. CASE Return \/ MoveReturn \/ PopReturn
    BY <1>2, <2>2, LeaveLabel DEF Return, MoveReturn, PopReturn
  <2>3. CASE Svc
    BY <1>2, <2>3, PlaceLabel DEF Svc, Places
  <2>4. CASE Undefined
    <3>1. \/ frames' = Proceed(Top.fn, Top.key) /\ exit' = exit
          \/ frames' = Front(frames) /\ exit' = "unwind"
      BY <2>4 DEF Undefined, Leave
    <3> QED BY <1>2, <3>1, ProceedLabel, LeaveLabel
  <2>5. CASE BranchRegister
    <3>1. PICK t \in Made[Top.key].to : frames' = Go("dispatch", Address(t))
      BY <2>5 DEF BranchRegister
    <3>2. Address(t) \in Nat
      BY <1>2, <3>1, KeyParts
    <3> QED BY <1>2, <2>5, <3>1, <3>2, PlaceLabel DEF BranchRegister, Places
  <2>6. CASE Branch
    <3>1. PICK t \in Made[Top.key].to : Jump(t)
      BY <2>6 DEF Branch
    <3>2. t \in Nat /\ Address(t) \in Nat
      BY <1>2, <3>1, KeyParts
    <3>3. CASE t \in Labels[Top.fn]
      BY <1>2, <3>1, <3>2, <3>3, PlaceLabel DEF Jump, Places
    <3>4. CASE t \notin Labels[Top.fn] /\ Name(t) # NoCode
      <4>1. Name(t) \in Functions \cup Overrides /\ Call(Name(t), "tail", t)
        BY <3>1, <3>2, <3>4, NameFits DEF Fits, Jump
      <4> QED BY <1>2, <3>2, <4>1, CallLabel DEF Waits
    <3>5. CASE t \notin Labels[Top.fn] /\ Name(t) = NoCode
      BY <1>2, <3>1, <3>2, <3>5, PlaceLabel DEF Jump, Places
    <3> QED BY <3>3, <3>4, <3>5
  <2>7. CASE CallDirect \/ CallRegister
    <3>1. \E t \in Made[Top.key].to : \E code \in {Name(t), Lookup(t)} : Call(code, "called", Top.key)
      BY <2>7 DEF CallDirect, CallRegister
    <3>11. PICK t \in Made[Top.key].to : \E code \in {Name(t), Lookup(t)} : Call(code, "called", Top.key)
      BY <3>1
    <3>2. PICK code \in {Name(t), Lookup(t)} : Call(code, "called", Top.key)
      BY <3>11
    <3>3. code # NoCode => code \in Functions \cup Overrides
      BY <1>2, <3>2, NameFits, LookupFits DEF Fits
    <3> QED BY <1>2, <3>2, <3>3, CallLabel DEF Waits
  <2> QED BY <2>1, <2>2, <2>3, <2>4, <2>5, <2>6, <2>7
<1> QED BY <1>2, <1>3 DEF Known, ExitKnown

\* The ways out that the host comes back from.
LEMMA BlockKnown ==
  ASSUME Inv, Track, Known, Block
  PROVE  Known'
<1>1. InCode /\ Top.at = "block"
  BY DEF Block, Is
<1>2. /\ exit = "none" /\ FramesInv /\ Top.key \in Nat /\ thumb = Mode(Top.key)
      /\ Top.fn \in Functions
  BY <1>1, BusyTells, InFrame DEF Waits, Track, Compiled
<1>3. thumb' = thumb
  BY DEF Block
<1>4. CASE budget - RunLength(Top.fn, Top.key) < 0
  <2>1. r15' = Address(Top.key) /\ frames' = Front(frames)
    BY <1>4 DEF Block, Leave
  <2>2. r15' + thumb' = Top.key
    BY <1>2, <1>3, <2>1, KeyParts
  <2>3. Top.key \in DOMAIN Entries
    BY <1>1, <1>2, LabelFacts DEF Known, AtLabel
  <2> QED BY <1>1, <1>2, <2>1, <2>2, <2>3, LeaveLabel DEF Known, ExitKnown
<1>5. CASE ~(budget - RunLength(Top.fn, Top.key) < 0)
  <2>1. frames' = Go("run", Top.key) /\ exit' = exit
    BY <1>5 DEF Block
  <2> QED BY <1>1, <1>2, <2>1, PlaceLabel DEF Known, ExitKnown, Places
<1> QED BY <1>4, <1>5

LEMMA SvcKnown ==
  ASSUME SvcsGoOn, Inv, Track, Paid, ServeInPlace \/ ServeAndUnwind \/ LeaveSvc
  PROVE  Known'
<1>1. /\ InCode /\ Top.at = "svc" /\ UNCHANGED <<r15, thumb>>
  BY DEF ServeInPlace, ServeAndUnwind, LeaveSvc, Is, regs
<1>2. /\ exit = "none" /\ FramesInv /\ Top.key \in Nat /\ thumb = Mode(Top.key)
      /\ Top.fn \in Functions /\ Top.key \in Body[Top.fn] /\ Made[Top.key].op = "svc"
  BY <1>1, BusyTells, InFrame DEF Waits, Track, Compiled, Paid, TopPaid
<1>3. r15 + thumb = After(Top.key)
  <2>1. r15 = Address(After(Top.key))
    BY <1>1 DEF Track, TopTells
  <2>2. After(Top.key) \in Nat /\ Mode(After(Top.key)) = thumb
    BY <1>2, KeyParts
  <2> QED BY <2>1, <2>2, KeyParts
<1>4. After(Top.key) \in DOMAIN Entries
  <2>1. After(Top.key) \in Body[Top.fn]
    BY <1>2 DEF SvcsGoOn
  <2>2. After(Top.key) \in Labels[Top.fn]
    BY <1>2, <2>1 DEF Labels
  <2> QED BY <1>2, <2>2, LabelFacts
<1>5. ExitKnown'
  BY <1>1, <1>3, <1>4 DEF ExitKnown
<1>6. frames' = Proceed(Top.fn, Top.key) \/ frames' = Front(frames)
  BY DEF ServeInPlace, ServeAndUnwind, LeaveSvc, Leave
<1> QED BY <1>1, <1>2, <1>5, <1>6, ProceedLabel, LeaveLabel DEF Known

LEMMA EnteringKnown ==
  ASSUME Inv, Track, Known, WayIn \/ Dispatch \/ Back
  PROVE  Known'
<1>1. InCode /\ FramesInv /\ Top.key \in Nat
  BY InFrame DEF WayIn, Dispatch, Back, Is, Inv
<1>2. r15 \in Nat /\ Mode(r15) = 0 /\ thumb \in {0, 1}
  BY DEF Inv, RegsFit
<1>3. CASE WayIn
  <2>1. exit = "none" /\ Top.fn \in Functions
    BY <1>1, <1>3, BusyTells DEF WayIn, Is, Waits, Track
  <2>2. Entry[Top.fn] \in Nat /\ Entry[Top.fn] \in Labels[Top.fn]
    BY <2>1, FunctionFacts DEF Labels
  <2>3. \/ frames' = Front(frames) /\ exit' = "unwind"
        \/ frames' = Go("block", Entry[Top.fn]) /\ exit' = exit
        \/ frames' = Go("dispatch", r15) /\ exit' = exit
    BY <1>3 DEF WayIn, Leave
  <2>4. AtLabel'
    BY <1>1, <1>2, <2>2, <2>3, LeaveLabel, PlaceLabel DEF Places
  <2> QED BY <2>1, <2>3, <2>4 DEF Known, ExitKnown
<1>4. CASE Dispatch
  <2> DEFINE k == Top.key + thumb
  <2>1. exit = "none"
    BY <1>1, <1>4, BusyTells DEF Dispatch, Is, Waits, Track
  <2>2. k \in Nat
    BY <1>1, <1>2
  <2>3. \/ k \in Labels[Top.fn] /\ frames' = Go("block", k) /\ exit' = exit
        \/ Call(Lookup(k), "tail", k)
    BY <1>4 DEF Dispatch
  <2> HIDE DEF k
  <2>4. Lookup(k) # NoCode => Lookup(k) \in Functions \cup Overrides
    BY <2>2, LookupFits DEF Fits
  <2>5. AtLabel' /\ exit' \in {exit, "unwind"}
    BY <1>1, <2>2, <2>3, <2>4, PlaceLabel, CallLabel DEF Places, Waits
  <2> QED BY <2>1, <2>5 DEF Known, ExitKnown
<1>5. CASE Back
  <2>1. UNCHANGED <<r15, thumb, exit>>
    BY <1>5 DEF Back, regs
  <2>2. \/ frames' = Front(frames) \/ frames' = Proceed(Top.fn, Top.key)
        \/ frames' = Go("dispatch", r15)
    BY <1>5 DEF Back
  <2>3. AtLabel'
    BY <1>1, <1>2, <2>2, LeaveLabel, ProceedLabel, PlaceLabel DEF Places
  <2> QED BY <2>1, <2>3 DEF Known, ExitKnown
<1> QED BY <1>3, <1>4, <1>5

LEMMA ByHandKnown ==
  ASSUME Inv, Track, Native \/ NativeWork \/ Original
  PROVE  Known'
<1>1. InCode /\ FramesInv /\ Top.key \in Nat
  BY InFrame DEF Native, NativeWork, Original, Is, Inv
<1>2. exit = "none"
  BY <1>1, BusyTells DEF Native, NativeWork, Original, Is, Waits, Track
<1>3. \A o \in Overrides : Replaces[o] \in Nat
  BY RecompAssumption, InstructionsAssumption DEF RecompAssumption, InstructionsAssumption
<1>4. AtLabel' /\ exit' \in {exit, "unwind"}
  <2>1. CASE Native
    <3>1. Top.fn \in Overrides
      BY <2>1, RecompAssumption DEF Native, RecompAssumption
    <3> QED BY <1>1, <1>3, <2>1, <3>1, PlaceLabel DEF Native, Places
  <2>2. CASE NativeWork
    <3>1. exit' = exit /\ (frames' = Front(frames) \/ frames' = Go("native", After(Top.key)))
      BY <2>2 DEF NativeWork
    <3>2. After(Top.key) \in Nat
      BY <1>1, KeyParts
    <3> QED BY <1>1, <3>1, <3>2, LeaveLabel, PlaceLabel DEF Places
  <2>3. CASE Original
    <3> DEFINE k == Replaces[Top.fn]
    <3>1. k \in Nat /\ Call(Generated(k), "original", k)
      BY <1>3, <2>3 DEF Original
    <3> HIDE DEF k
    <3> QED BY <1>1, <3>1, GeneratedFits, CallLabel DEF Waits
  <2> QED BY <2>1, <2>2, <2>3
<1> QED BY <1>2, <1>4 DEF Known, ExitKnown

LEMMA LoopKnown ==
  ASSUME Known, Enter \/ Interpret \/ Serve \/ Restart \/ Reload \/ Mark \/ UNCHANGED vars
  PROVE  Known'
<1>1. CASE Enter
  <2> DEFINE new == [fn |-> Lookup(Pc), at |-> "in", key |-> Pc]
  <2>1. frames' = <<new>> /\ exit' = "none"
    BY <1>1 DEF Enter
  <2>2. Len(frames') = 1 /\ frames'[1] = new
    <3> HIDE DEF new
    <3> QED BY <2>1
  <2>3. Top'.at = "in"
    BY <2>2 DEF Top, Last
  <2> QED BY <2>1, <2>3 DEF Known, AtLabel, ExitKnown
<1>2. CASE Interpret \/ Serve \/ Restart
  <2>1. frames' = frames /\ exit' = "none"
    BY <1>2 DEF Interpret, Serve, Restart
  <2> QED BY <2>1 DEF Known, AtLabel, ExitKnown, InCode, Top
<1>3. CASE Reload \/ Mark \/ UNCHANGED vars
  <2>1. UNCHANGED <<frames, exit, r15, thumb>>
    BY <1>3 DEF Reload, Mark, vars, regs
  <2> QED BY <2>1 DEF Known, AtLabel, ExitKnown, InCode, Top
<1> QED BY <1>1, <1>2, <1>3

\* docs/interface.md, Entries: where the budget ran out and behind an svc there
\* is an entry, so the host comes back to code unless that is stale.
THEOREM EntriesCorrect == ASSUME SvcsGoOn PROVE Spec => []ComesBackIn
<1>1. Init => Track /\ Paid /\ Known
  <2> SUFFICES ASSUME Init PROVE Track /\ Paid /\ Known
    OBVIOUS
  <2>1. /\ frames = <<>> /\ Len(frames) = 0 /\ budget = 0 /\ given = 0 /\ ran = 0
        /\ exit = "none" /\ modded = FALSE
    BY DEF Init
  <2>2. Track
    BY <2>1 DEF Track, CodeIsMade, Memory, TopTells, InCode
  <2>3. Paid
    BY <2>1 DEF Paid, CallsEnd, TopPaid, RanIsCharged, InCode
  <2>4. Known
    BY <2>1 DEF Known, AtLabel, ExitKnown, InCode
  <2> QED BY <2>2, <2>3, <2>4
<1>2. Inv /\ Track /\ Paid /\ Known /\ [Next]_vars => Track' /\ Paid' /\ Known'
  <2> SUFFICES ASSUME Inv, Track, Paid, Known, [Next]_vars PROVE Track' /\ Paid' /\ Known'
    OBVIOUS
  <2>1. Track' /\ Paid'
    BY StepFollows, PaidStep
  <2>2. Known'
    BY SvcsGoOn, BlockKnown, SvcKnown, EnteringKnown, RunsKnown, ByHandKnown, LoopKnown
       DEF Next, Step, Code, Host
  <2> QED BY <2>1, <2>2
<1>3. Known => ComesBackIn
  BY DEF Known, ExitKnown, ComesBackIn, Pc
<1> QED BY <1>1, <1>2, <1>3, Invariant, PTL DEF Spec
=============================================================================
