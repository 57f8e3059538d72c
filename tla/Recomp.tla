------------------------------- MODULE Recomp -------------------------------
(***************************************************************************)
(* The recompiled code running on a Context, and the host's loop around    *)
(* it: the functions src/src/codegen writes in C with the macros of        *)
(* src/abi/recomp.h, and the host of src/src/verify.rs.                    *)
(*                                                                         *)
(* One thread runs all of it.  A guest call is a C call, so the state has  *)
(* the C stack: a frame is a C function and how far it is.  An action is   *)
(* what C does between two points where the guest's state can be read: the *)
(* way in, dispatch, the charge at a block's start, one instruction, the   *)
(* way on after a call.                                                    *)
(***************************************************************************)
EXTENDS Instructions, FiniteSets

CONSTANTS
  Functions,   \* the guest functions that become C
  Entry,       \* where each starts
  Body,        \* the instructions each holds
  Container,   \* functions held by a bigger one: entry -> the one that runs it
  Overrides,   \* functions written by hand, and natives
  Replaces,    \* the entry each of those replaces
  Natives,     \* the ones natives.c holds
  Cost,        \* what a native charges
  NoCode,      \* the null Code
  DepthLimit,  \* RECOMP_DEPTH_LIMIT
  Budgets,     \* bound: the budgets a host gives
  Markable     \* bound: the functions a host may mark stale on its own

VARIABLES
  r15,     \* ctx->r[15]
  thumb,   \* ctx->thumb
  lr,      \* ctx->r[14]
  stack,   \* the guest's stack
  asked,   \* an svc waits to be served
  modded,  \* whether memory holds the code of a mod
  exit,    \* ctx->exit
  depth,   \* ctx->depth
  budget,  \* ctx->budget
  given,   \* the host's: what budget was when it last set it
  ran,     \* instructions the code ran since then, a history
  stale,   \* the functions whose stale flag is set and start is NO_START
  frames   \* the C stack, its top last

regs == <<r15, thumb, lr, stack>>
counts == <<budget, given, ran>>
world == <<modded, stale>>
vars == <<regs, asked, counts, world, exit, depth, frames>>

Exits == {"none", "svc", "budget", "unwind"}
Places == {"in", "dispatch", "block", "run", "called", "tail", "original", "svc", "native"}

\* Mutant: no label after an svc.
LabelsFew == [f \in Functions |->
  {k \in Body[f] :
     \/ k = Entry[f]
     \/ \E j \in Body[f] : Made[j].op = "b" /\ k \in Made[j].to
     \/ \E j \in Body[f] : Made[j].op \in {"bl", "blx"} /\ k = After(j)}]

\* A label is where execution can enter a function's code: its entry, its
\* branches' targets, what follows a call or an svc, and what follows an
\* instruction left to the interpreter.
Labels == [f \in Functions |->
  {k \in Body[f] :
     \/ k = Entry[f]
     \/ \E j \in Body[f] : Made[j].op = "b" /\ k \in Made[j].to
     \/ \E j \in Body[f] : Made[j].op \in {"bl", "blx", "svc"} /\ k = After(j)
     \/ \E j \in Body[f] : /\ Made[j].op = "und" /\ j < k
                           /\ ~\E i \in Body[f] : j < i /\ i < k}]

\* Mutant: a block is charged for without its last instruction.
ShortRun(f, k) ==
  Cardinality({j \in Body[f] : k < j /\ \A i \in Labels[f] : i <= k \/ j < i})

\* The instructions from label k to the next one, which BLOCK charges for.
RunLength(f, k) ==
  Cardinality({j \in Body[f] : k <= j /\ \A i \in Labels[f] : i <= k \/ j < i})

\* The C function a call or a branch to k names: an override before the
\* function it replaces, a container for a function it holds.
Generated(k) ==
  IF \E f \in Functions : Entry[f] = k
  THEN CHOOSE f \in Functions : Entry[f] = k
  ELSE IF k \in DOMAIN Container THEN Container[k] ELSE NoCode
Replacing(k) == {o \in Overrides : Replaces[o] = k}
Name(k) ==
  IF Replacing(k) # {} THEN CHOOSE o \in Replacing(k) : TRUE ELSE Generated(k)

\* The entry table: every label, with the function that starts there if one
\* does and the first that holds it if not, and the overrides over those.
Entries ==
  LET Holders(k) == {f \in Functions : k \in Labels[f]}
      Starting(k) == {f \in Holders(k) : Entry[f] = k}
      First(fs) == CHOOSE f \in fs : \A g \in fs : Entry[f] <= Entry[g]
  IN [k \in (UNION {Labels[f] : f \in Functions}) \cup {Replaces[o] : o \in Overrides} |->
        IF Replacing(k) # {} THEN Name(k)
        ELSE First(IF Starting(k) # {} THEN Starting(k) ELSE Holders(k))]

\* Mutant: a stale function's entries are found as well.
LookupStale(k) ==
  IF k \in DOMAIN Entries THEN Entries[k] ELSE NoCode

\* Library::lookup.  An override has NO_ORIGIN for its owner, never stale.
Lookup(k) ==
  IF k \in DOMAIN Entries /\ Entries[k] \notin stale THEN Entries[k] ELSE NoCode

ASSUME RecompAssumption ==
  /\ Entry \in [Functions -> Keys]
  /\ \A f, g \in Functions : Entry[f] = Entry[g] => f = g
  /\ Body \in [Functions -> SUBSET Keys]
  /\ \A f \in Functions : IsFiniteSet(Body[f])
  /\ \A f \in Functions : Entry[f] \in Body[f]
  /\ \A f \in Functions : \A k \in Body[f] : Mode(k) = Mode(Entry[f])
  /\ \A k \in DOMAIN Container :
       /\ Container[k] \in Functions
       /\ k \in Labels[Container[k]]
       /\ \A f \in Functions : Entry[f] # k
  /\ Overrides \cap Functions = {} /\ Natives \subseteq Overrides
  /\ NoCode \notin Functions \cup Overrides
  /\ Replaces \in [Overrides -> Keys]
  /\ \A o \in Overrides : Generated(Replaces[o]) # NoCode
  /\ \A o, p \in Overrides : Replaces[o] = Replaces[p] => o = p
  /\ Cost \in [Natives -> Nat \ {0}]
  /\ DepthLimit \in Nat
  /\ Budgets \subseteq Nat
  /\ Markable \subseteq Functions

\* The code a native stands for: no mod changes it, and the Cost of it are
\* instructions in a row that end in a return.
ASSUME NativesAssumption ==
  \A n \in Natives : \A i \in 0..Cost[n] - 1 :
    LET k == Replaces[n] + i * Width(Replaces[n])
    IN /\ k \in Keys /\ Modded[k] = Made[k]
       /\ Made[k].op = IF i = Cost[n] - 1 THEN "return" ELSE "plain"

Memory(k) == IF modded THEN Modded[k] ELSE Made[k]
-----------------------------------------------------------------------------
Top == Last(frames)
InCode == frames # <<>>
Is(place) == InCode /\ Top.at = place

\* The frames with the top one at another place.
Go(place, k) ==
  [frames EXCEPT ![Len(frames)] = [fn |-> Top.fn, at |-> place, key |-> k]]

\* After the instruction at k in f: the next one if f has it, a block of its
\* own at a label, and dispatch if the code of f does not go on there.
Proceed(f, k) ==
  IF After(k) \notin Body[f] THEN Go("dispatch", Address(After(k)))
  ELSE Go(IF After(k) \in Labels[f] THEN "block" ELSE "run", After(k))

\* The state registers in which the guest is at k.
PointTo(k) == r15' = Address(k) /\ thumb' = Mode(k)

\* RETURN_TO_A and RETURN_TO_T, from code in k's state: thumb is only
\* written when it changes.
ReturnTo(k, value) ==
  /\ r15' = Address(value)
  /\ thumb' = IF Mode(value) # Mode(k) THEN Mode(value) ELSE thumb

\* Mutant: the limit is only looked at after the call that passes it.
CallDeep(code, place, k) ==
  IF depth > DepthLimit
  THEN exit' = "unwind" /\ frames' = Front(frames) /\ UNCHANGED depth
  ELSE /\ depth' = depth + 1
       /\ IF code = NoCode
          THEN exit' = "unwind" /\ frames' = Go(place, k)
          ELSE /\ frames' = Append(Go(place, k), [fn |-> code, at |-> "in", key |-> k])
               /\ UNCHANGED exit

\* Mutant: a call too deep does not take its count back.
CallCounted(code, place, k) ==
  IF depth + 1 > DepthLimit
  THEN exit' = "unwind" /\ frames' = Front(frames) /\ depth' = depth + 1
  ELSE /\ depth' = depth + 1
       /\ IF code = NoCode
          THEN exit' = "unwind" /\ frames' = Go(place, k)
          ELSE /\ frames' = Append(Go(place, k), [fn |-> code, at |-> "in", key |-> k])
               /\ UNCHANGED exit

\* CALL(code), with place where the caller waits.  NoCode is recomp_call
\* when its lookup finds nothing: it sets exit and returns.
Call(code, place, k) ==
  IF depth + 1 > DepthLimit
  THEN exit' = "unwind" /\ frames' = Front(frames) /\ UNCHANGED depth
  ELSE /\ depth' = depth + 1
       /\ IF code = NoCode
          THEN exit' = "unwind" /\ frames' = Go(place, k)
          ELSE /\ frames' = Append(Go(place, k), [fn |-> code, at |-> "in", key |-> k])
               /\ UNCHANGED exit

\* Leaving the function with exit set.
Leave(why) == exit' = why /\ frames' = Front(frames) /\ UNCHANGED depth
-----------------------------------------------------------------------------
Init ==
  /\ \E k \in Starts : r15 = Address(k) /\ thumb = Mode(k)
  /\ lr = Home
  /\ stack = <<>>
  /\ asked = FALSE
  /\ modded = FALSE
  /\ exit = "none"
  /\ depth = 0
  /\ budget = 0 /\ given = 0 /\ ran = 0
  /\ stale = {}
  /\ frames = <<>>

\* Mutant: a function entered past its start is not looked at.
WayInPast ==
  /\ Is("in") /\ Top.fn \in Functions
  /\ IF r15 # Address(Entry[Top.fn])
     THEN frames' = Go("dispatch", r15) /\ UNCHANGED <<exit, depth>>
     ELSE IF Top.fn \in stale
     THEN Leave("unwind")
     ELSE frames' = Go("block", Entry[Top.fn]) /\ UNCHANGED <<exit, depth>>
  /\ UNCHANGED <<regs, asked, counts, world>>

\* The way in: straight to the start, unless r15 is somewhere else or the
\* function is stale, when its start is NO_START.
WayIn ==
  /\ Is("in") /\ Top.fn \in Functions
  /\ IF Top.fn \notin stale /\ r15 = Address(Entry[Top.fn])
     THEN frames' = Go("block", Entry[Top.fn]) /\ UNCHANGED <<exit, depth>>
     ELSE IF Top.fn \in stale
     THEN Leave("unwind")
     ELSE frames' = Go("dispatch", r15) /\ UNCHANGED <<exit, depth>>
  /\ UNCHANGED <<regs, asked, counts, world>>

\* dispatch: to a label of the function, in its own state, and through the
\* host's lookup to anywhere else.
Dispatch ==
  /\ Is("dispatch")
  /\ LET f == Top.fn
         k == Top.key + thumb
     IN IF thumb = Mode(Entry[f]) /\ k \in Labels[f]
        THEN frames' = Go("block", k) /\ UNCHANGED <<r15, exit, depth>>
        ELSE r15' = Top.key /\ Call(Lookup(k), "tail", k)
  /\ UNCHANGED <<thumb, lr, stack, asked, counts, world>>

\* Mutant: the budget is not put back.
BlockSpent ==
  /\ Is("block")
  /\ LET n == RunLength(Top.fn, Top.key)
     IN /\ budget' = budget - n
        /\ IF budget - n < 0
           THEN r15' = Address(Top.key) /\ Leave("budget")
           ELSE frames' = Go("run", Top.key) /\ UNCHANGED <<r15, exit, depth>>
  /\ UNCHANGED <<thumb, lr, stack, asked, given, ran, world>>

\* BLOCK: the charge, or out_of_budget.
Block ==
  /\ Is("block")
  /\ LET n == RunLength(Top.fn, Top.key)
     IN IF budget - n < 0
        THEN /\ r15' = Address(Top.key)
             /\ Leave("budget")
             /\ UNCHANGED budget
        ELSE /\ budget' = budget - n
             /\ frames' = Go("run", Top.key)
             /\ UNCHANGED <<r15, exit, depth>>
  /\ UNCHANGED <<thumb, lr, stack, asked, given, ran, world>>

\* The top frame runs the instruction at its key, an op.
Runs(op) ==
  /\ Is("run")
  /\ Made[Top.key].op = op
  /\ ran' = ran + 1
  /\ UNCHANGED <<budget, given, world>>

\* A condition that does not hold.
Skip ==
  /\ Is("run")
  /\ Made[Top.key].cond
  /\ ran' = ran + 1
  /\ frames' = Proceed(Top.fn, Top.key)
  /\ UNCHANGED <<regs, asked, budget, given, world, exit, depth>>

Plain ==
  /\ Runs("plain")
  /\ frames' = Proceed(Top.fn, Top.key)
  /\ UNCHANGED <<regs, asked, exit, depth>>

\* An instruction that writes r14: a callee may change where it returns to.
Link ==
  /\ Runs("link")
  /\ lr' \in Made[Top.key].to
  /\ frames' = Proceed(Top.fn, Top.key)
  /\ UNCHANGED <<r15, thumb, stack, asked, exit, depth>>

Push ==
  /\ Runs("push")
  /\ stack' = Saved(stack, lr)
  /\ frames' = Proceed(Top.fn, Top.key)
  /\ UNCHANGED <<r15, thumb, lr, asked, exit, depth>>

\* jump: to a label, a tail call to a function the code knows, or dispatch.
Jump(t) ==
  IF t \in Labels[Top.fn]
  THEN frames' = Go("block", t) /\ UNCHANGED <<r15, exit, depth>>
  ELSE IF Name(t) # NoCode
  THEN r15' = Address(t) /\ Call(Name(t), "tail", t)
  ELSE frames' = Go("dispatch", Address(t)) /\ UNCHANGED <<r15, exit, depth>>

Branch ==
  /\ Runs("b")
  /\ \E t \in Made[Top.key].to : Jump(t)
  /\ UNCHANGED <<thumb, lr, stack, asked>>

\* JUMP_TO: the state first, then dispatch.
BranchRegister ==
  /\ Runs("bx")
  /\ \E t \in Made[Top.key].to :
       /\ thumb' = Mode(t)
       /\ frames' = Go("dispatch", Address(t))
  /\ UNCHANGED <<r15, lr, stack, asked, exit, depth>>

\* bl and blx to an address.  thumb is only written when it changes.
CallDirect ==
  /\ Runs("bl")
  /\ lr' = After(Top.key)
  /\ \E t \in Made[Top.key].to :
       /\ ReturnTo(Top.key, t)
       /\ Call(IF Name(t) # NoCode THEN Name(t) ELSE Lookup(t), "called", Top.key)
  /\ UNCHANGED <<stack, asked>>

\* blx through a register.
CallRegister ==
  /\ Runs("blx")
  /\ lr' = After(Top.key)
  /\ \E t \in Made[Top.key].to :
       /\ PointTo(t)
       /\ Call(Lookup(t), "called", Top.key)
  /\ UNCHANGED <<stack, asked>>

\* bx lr.
Return ==
  /\ Runs("return")
  /\ ReturnTo(Top.key, lr)
  /\ frames' = Front(frames)
  /\ UNCHANGED <<lr, stack, asked, exit, depth>>

\* mov pc, lr.
MoveReturn ==
  /\ Runs("movpc")
  /\ r15' = Address(Kept(Top.key, lr))
  /\ frames' = Front(frames)
  /\ UNCHANGED <<thumb, lr, stack, asked, exit, depth>>

\* pop with pc in the list.
PopReturn ==
  /\ Runs("pop")
  /\ ReturnTo(Top.key, Popped(stack))
  /\ stack' = Rest(stack)
  /\ frames' = Front(frames)
  /\ UNCHANGED <<lr, asked, exit, depth>>

\* Mutant: r15 points at the svc.
SvcAgain ==
  /\ Runs("svc")
  /\ r15' = Address(Top.key)
  /\ asked' = TRUE
  /\ frames' = Go("svc", Top.key)
  /\ UNCHANGED <<thumb, lr, stack, exit, depth>>

\* SVC: r15 points after it, and the host's callback runs.
Svc ==
  /\ Runs("svc")
  /\ r15' = Address(After(Top.key))
  /\ asked' = TRUE
  /\ frames' = Go("svc", Top.key)
  /\ UNCHANGED <<thumb, lr, stack, exit, depth>>

\* INTERPRET: the host's interpreter runs the instruction, and the code goes
\* on unless that led it anywhere but to the next one.
Undefined ==
  /\ Runs("und")
  /\ \E o \in Outcomes(Memory(Top.key), Top.key, lr, stack) :
       /\ PointTo(o.pc)
       /\ lr' = o.lr
       /\ stack' = o.stack
       /\ asked' = o.asked
       /\ IF o.pc = After(Top.key)
          THEN frames' = Proceed(Top.fn, Top.key) /\ UNCHANGED <<exit, depth>>
          ELSE Leave("unwind")

\* Mutant: RETURNED only looks at the address.
BackAnyState ==
  /\ InCode
  /\ Top.at \in {"called", "tail", "original"}
  /\ depth' = depth - 1
  /\ frames' = IF exit # "none" \/ Top.at # "called" THEN Front(frames)
               ELSE IF r15 = Address(After(Top.key))
               THEN Proceed(Top.fn, Top.key)
               ELSE Go("dispatch", r15)
  /\ UNCHANGED <<regs, asked, counts, world, exit>>

\* The end of CALL in the caller: leave as well when the host has to take
\* over, return after a tail call and an override's original, and after a
\* call go on behind it or, RETURNED, wherever r15 points.
Back ==
  /\ InCode
  /\ Top.at \in {"called", "tail", "original"}
  /\ depth' = depth - 1
  /\ frames' = IF exit # "none" \/ Top.at # "called" THEN Front(frames)
               ELSE IF r15 = Address(After(Top.key)) /\ thumb = Mode(Top.key)
               THEN Proceed(Top.fn, Top.key)
               ELSE Go("dispatch", r15)
  /\ UNCHANGED <<regs, asked, counts, world, exit>>

\* RECOMP_NATIVE: the native is on, it fits the operands and the budget.
\* Its work is what the replaced code does.
Native ==
  /\ Is("in") /\ Top.fn \in Natives
  /\ budget >= Cost[Top.fn]
  /\ budget' = budget - Cost[Top.fn]
  /\ frames' = Go("native", Replaces[Top.fn])
  /\ UNCHANGED <<regs, asked, given, ran, world, exit, depth>>

NativeWork ==
  /\ Is("native")
  /\ ran' = ran + 1
  /\ IF Made[Top.key].op = "return"
     THEN PointTo(lr) /\ frames' = Front(frames)
     ELSE frames' = Go("native", After(Top.key)) /\ UNCHANGED <<r15, thumb>>
  /\ UNCHANGED <<lr, stack, asked, budget, given, world, exit, depth>>

\* A native that may not run, or an override written by hand: CALL of
\* RECOMP_ORIGINAL, which points r15 at the start of what it replaces.
Original ==
  /\ Is("in") /\ Top.fn \in Overrides
  /\ LET k == Replaces[Top.fn]
     IN /\ IF depth + 1 > DepthLimit THEN UNCHANGED <<r15, thumb>> ELSE PointTo(k)
        /\ Call(Generated(k), "original", k)
  /\ UNCHANGED <<lr, stack, asked, counts, world>>
-----------------------------------------------------------------------------
\* Where the guest is.
Pc ==
  IF ~InCode \/ Top.at \in {"in", "called", "tail", "original", "svc"}
  THEN r15 + thumb
  ELSE IF Top.at = "dispatch" THEN Top.key + thumb ELSE Top.key

\* The host's svc callback, in each of the ways docs/interface.md gives it:
\* right there, leaving the budget or setting another;
ServeInPlace ==
  /\ Is("svc")
  /\ asked' = FALSE
  /\ frames' = Proceed(Top.fn, Top.key)
  /\ \/ UNCHANGED counts
     \/ \E b \in Budgets : budget' = b /\ given' = b /\ ran' = 0
  /\ UNCHANGED <<regs, world, exit, depth>>

\* right there, and the code stops;
ServeAndUnwind ==
  /\ Is("svc")
  /\ asked' = FALSE
  /\ Leave("unwind")
  /\ UNCHANGED <<regs, counts, world>>

\* and left for the host's loop.
LeaveSvc ==
  /\ Is("svc")
  /\ Leave("svc")
  /\ UNCHANGED <<regs, asked, counts, world>>

\* The host's loop.  spent == 0 after EXIT_BUDGET: the block did not fit.
HasTurn == ~InCode /\ ~asked /\ Pc # Home
DidNotFit == exit = "budget" /\ given - budget = 0

\* Mutant: the loop does not look whether the run made progress.
EnterAgain ==
  /\ HasTurn
  /\ Lookup(Pc) # NoCode
  /\ \E b \in Budgets : budget' = b /\ given' = b
  /\ ran' = 0
  /\ exit' = "none"
  /\ depth' = 0
  /\ frames' = <<[fn |-> Lookup(Pc), at |-> "in", key |-> Pc]>>
  /\ UNCHANGED <<regs, asked, world>>

\* The host runs the code there is for r15, with a new budget.
Enter ==
  /\ HasTurn /\ ~DidNotFit
  /\ Lookup(Pc) # NoCode
  /\ \E b \in Budgets : budget' = b /\ given' = b
  /\ ran' = 0
  /\ exit' = "none"
  /\ depth' = 0
  /\ frames' = <<[fn |-> Lookup(Pc), at |-> "in", key |-> Pc]>>
  /\ UNCHANGED <<regs, asked, world>>

\* The host's interpreter takes a step where there is no code, or where its
\* first block did not fit.
Interpret ==
  /\ HasTurn /\ Pc \in Keys
  /\ DidNotFit \/ Lookup(Pc) = NoCode
  /\ \E o \in Outcomes(Memory(Pc), Pc, lr, stack) :
       /\ PointTo(o.pc)
       /\ lr' = o.lr
       /\ stack' = o.stack
       /\ asked' = o.asked
  /\ exit' = "none"
  /\ UNCHANGED <<counts, world, depth, frames>>

Serve ==
  /\ ~InCode /\ asked
  /\ asked' = FALSE
  /\ exit' = "none"
  /\ UNCHANGED <<regs, counts, world, depth, frames>>

\* The outermost function returned, and the host calls another.
Restart ==
  /\ ~InCode /\ ~asked /\ Pc = Home
  /\ \E k \in Starts : PointTo(k)
  /\ lr' = Home
  /\ stack' = <<>>
  /\ exit' = "none"
  /\ UNCHANGED <<asked, counts, world, depth, frames>>

\* When a host may change flags: in its loop, and in its svc callback for
\* functions that are not on the C stack.
MayMark(fs) ==
  \/ ~InCode
  \/ Is("svc") /\ \A i \in 1..Len(frames) : frames[i].fn \notin fs

\* The code in memory changes and the host checks it, which also takes back
\* the marks it made.
Reload ==
  /\ MayMark({f \in Functions : \E k \in Body[f] : Made[k] # Modded[k]})
  /\ modded' = ~modded
  /\ stale' = {f \in Functions : \E k \in Body[f] : Memory(k)' # Made[k]}
  /\ UNCHANGED <<regs, asked, counts, exit, depth, frames>>

\* Library::interpret marks a function, Library::interpret_at each one whose
\* code takes in an address.
Mark ==
  /\ \/ \E f \in Markable : MayMark({f}) /\ stale' = stale \cup {f}
     \/ \E k \in Keys :
          LET fs == {f \in Functions : k \in Body[f]}
          IN fs \subseteq Markable /\ MayMark(fs) /\ stale' = stale \cup fs
  /\ UNCHANGED <<regs, asked, counts, modded, exit, depth, frames>>
-----------------------------------------------------------------------------
Code ==
  \/ WayIn \/ Dispatch \/ Block \/ Back
  \/ Skip \/ Plain \/ Link \/ Push \/ Branch \/ BranchRegister
  \/ CallDirect \/ CallRegister \/ Return \/ MoveReturn \/ PopReturn
  \/ Svc \/ Undefined
  \/ Native \/ NativeWork \/ Original

Host ==
  \/ ServeInPlace \/ ServeAndUnwind \/ LeaveSvc
  \/ Enter \/ Interpret \/ Serve \/ Restart

Step == Code \/ Host
Next == Step \/ Reload \/ Mark

\* The one thread that runs the code and the host's loop keeps running.
Spec == Init /\ [][Next]_vars /\ WF_vars(Step)
-----------------------------------------------------------------------------
Frame == [fn : Functions \cup Overrides, at : Places, key : Nat]

\* Each variable holds what its place in the program can hold.
TypeOK ==
  /\ r15 \in Nat /\ thumb \in {0, 1}
  /\ lr \in Nat /\ stack \in Seq(Nat)
  /\ asked \in BOOLEAN /\ modded \in BOOLEAN
  /\ exit \in Exits
  /\ depth \in 0..DepthLimit
  /\ budget \in Nat /\ given \in Nat /\ ran \in Nat
  /\ stale \subseteq Functions
  /\ frames \in Seq(Frame)

\* docs/interface.md, Exits: wherever the code stops the host can go on from
\* r15, and the guest runs exactly as it would have.
Guest == INSTANCE Guest WITH pc <- Pc
Implements == Guest!Spec

\* The guest gets on: no way of leaving the code and entering it again, with
\* stale functions, budgets too small for a block and calls too deep, goes
\* on for ever without an instruction.
Progress ==
  []<><<Guest!Run \/ Guest!Serve \/ Guest!Restart>>_<<Guest!guestVars>>

\* CALL, recomp.h 623-630: depth counts the C calls that have not been left,
\* through every way out of a function: all frames but the top one, and that
\* one too when its callee has returned and it has not counted that yet.
Waiting(i) == frames[i].at \in {"called", "tail", "original"}
DepthIsCalls ==
  InCode =>
    /\ depth = IF Waiting(Len(frames)) THEN Len(frames) ELSE Len(frames) - 1
    /\ \A i \in 1..Len(frames) - 1 : Waiting(i)

\* A guest that never returns cannot overflow the C stack: it holds one
\* frame more than RECOMP_DEPTH_LIMIT at most.
StackIsBounded == Len(frames) <= DepthLimit + 1

\* codegen/mod.rs 497: a function is only ever entered in its own state,
\* callers and the host's lookups see to that; and what runs in it runs in
\* that state, where the code was made for it, after every call it makes.
InOwnState ==
  InCode /\ Top.fn \in Functions /\ Top.at \in {"block", "run", "svc"} =>
    /\ Top.key \in Body[Top.fn]
    /\ thumb = Mode(Top.key)

\* The code never runs an instruction it has not charged for, natives and
\* the block it is leaving included, and no budget it leaves is negative.
RanIsCharged == ran <= given - budget

\* docs/interface.md, Origins: from the moment its flag is set no
\* instruction of a function runs, however the function is reached.
StaleRunsNoMore ==
  [][ran' > ran => Top.fn \notin stale]_vars

\* docs/interface.md, Entries: there is an entry for every place execution
\* can come back to, after the budget ran out and after an svc.
ComesBackIn ==
  ~InCode /\ exit \in {"budget", "svc"} => Pc \in DOMAIN Entries
=============================================================================
