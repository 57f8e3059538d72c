------------------------------- MODULE Locals -------------------------------
(***************************************************************************)
(* keep of src/src/codegen/locals.rs: the registers a generated function   *)
(* keeps in C locals, which of them each point where something else looks  *)
(* at the context stores there, worked out by two passes over the          *)
(* function's lines, and then the C that is made of it, run as the macros  *)
(* of recomp.h have it run.                                                *)
(*                                                                         *)
(* Of a value the model keeps whether it is the guest's: a register's      *)
(* local, and its place in the context, either have what the register      *)
(* holds at that point or something older.  The budget and the page tables *)
(* are kept in locals too, but every SYNC_OUT stores the budget and no     *)
(* code sets the tables, so they are left out.                             *)
(***************************************************************************)
EXTENDS Emitted, FiniteSets

CONSTANTS
  Functions,  \* bound: the functions there are, as their labels and instructions
  Exits       \* EXITS

R15 == 15

VARIABLES
  code,          \* the function's tokens
  phase,         \* "scan", "behind", "live", "ways" and "run"
  i,             \* the token, or the line, a pass is at
  blocks,        \* Blocks, whether each open brace, and the statement, is guarded
  used,          \* the registers the function uses
  events,        \* what each line does
  falling,       \* what the line before brings that the context is behind on
  changed,       \* whether this round of a pass found anything new
  jumped,        \* what jumps bring to each line
  stores,        \* what the syncs of each line store
  budgets,       \* what the context is behind on at the block that starts there
  falls,         \* whether execution goes on to the next line
  liveIn,        \* what the code from each line on may read
  liveAtBudget,  \* what it may read past the check of the budget
  ways,          \* what the way out of the block that starts there stores
  at,            \* the token execution is at
  where,         \* "in" the function, or what has the context
  target,        \* the label target is at, or Elsewhere
  ctx,           \* the registers the context has right
  loc,           \* and the locals
  writing        \* those the statement has assigned

scanning == <<used, events, blocks>>
forwards == <<falling, jumped, stores, budgets, falls>>
backwards == <<liveIn, liveAtBudget>>
analysis == <<i, changed, scanning, forwards, backwards>>
running == <<at, where, target, ctx, loc, writing>>
vars == <<code, phase, analysis, ways, running>>

\* The tokens of a text one after another, each with its line.
Tokens(text) ==
  LET tokens(l) == [n \in 1..Len(text[l]) |-> [t |-> text[l][n].t, of |-> text[l][n].of, line |-> l]]
  IN FlattenSeq([l \in 1..Len(text) |-> tokens(l)])

LastLine == code[Len(code)].line
Lines == 1..LastLine

\* The labels of a text, and where a label's token is.
Labels(text) == {k.of : k \in {k \in ToSet(text) : k.t = "Label"}} \ {Dispatch}
Place(text, label) == CHOOSE p \in 1..Len(text) : text[p].t = "Label" /\ text[p].of = label
LineOf(label) == code[Place(code, label)].line

\* The last token of the statement of a text that starts at p: its semicolon,
\* or the brace that closes the one it opens.
Stops(text, p) == {q \in p..Len(text) : text[q].t \in {"Open", "Semi", "GotoDispatch"}}
Closes(text, p) ==
  LET Number(q, t) == Cardinality({r \in p..q : text[r].t = t})
  IN {q \in p..Len(text) : Number(q, "Open") = Number(q, "Close")}
StatementEnd(text, p) ==
  LET first == Min(Stops(text, p))
  IN IF text[first].t = "Open" THEN Min(Closes(text, first)) ELSE first

AccessesThatRead == {"Read", "Modify"}
Accesses == {"Read", "Assign", "Modify"}

-----------------------------------------------------------------------------
(* What texts are like, whatever the instructions *)

\* A line's tokens come after those of the lines before.
LinesFollow(text) ==
  /\ text \in Seq([t : STRING, of : Int, line : Nat \ {0}]) /\ text # <<>>
  /\ \A p, q \in 1..Len(text) : p <= q => text[p].line <= text[q].line

\* A brace closes past a whole statement, a statement goes on past what it reads
\* and writes, a condition is what an if starts with, what it or an else is for
\* is a statement, and a call is one.
StatementsAreWhole(text) ==
  \A p \in 1..Len(text) :
    /\ text[p].t = "Close" => p > 1 /\ text[p - 1].t \in {"Open", "Close", "Semi", "GotoDispatch"}
    /\ text[p].t \in Accesses => p < Len(text) /\ text[p + 1].line = text[p].line
    /\ text[p].t = "Then" =>
         \E g \in 1..p - 1 : text[g].t = "Guard" /\ \A r \in g + 1..p - 1 : text[r].t = "Read"
    /\ text[p].t \in {"Then", "Else"} =>
         /\ Stops(text, p + 1) # {}
         /\ LET first == Min(Stops(text, p + 1)) IN text[first].t = "Open" => Closes(text, first) # {}
    /\ text[p].t \in {"Jump", "ReturnTo"} =>
         /\ p > 1 /\ text[p - 1].t \notin Accesses
         /\ Stops(text, p) # {} /\ text[Min(Stops(text, p))].t # "Open"
    /\ text[p].t = "Returned" =>
         p > 3 /\ text[p - 1].t = "Semi" /\ text[p - 2].t = "Sync" /\ text[p - 3].t \in {"Semi", "Close"}

\* Labels are lines of their own, one for dispatch and the others for blocks,
\* and are all that gotos name.
LabelsStartBlocks(text) ==
  LET Label(p) == text[p].t = "Label"
      Starts(p) == p = 1 \/ text[p - 1].line < text[p].line
      Leads(p) == p < Len(text) /\ Starts(p + 1) /\ text[p + 1].t = "Block" /\ text[p + 1].of = text[p].of
  IN /\ \E p \in 1..Len(text) : Label(p) /\ text[p].of = Dispatch
     /\ \A p, q \in 1..Len(text) : Label(p) /\ Label(q) /\ text[p].of = text[q].of => p = q
     /\ \A p \in 1..Len(text) :
          /\ Label(p) => Starts(p) /\ (text[p].of = Dispatch \/ (text[p].of \in Nat /\ Leads(p)))
          /\ text[p].t = "Block" => p > 1 /\ Label(p - 1) /\ text[p - 1].of # Dispatch /\ Leads(p - 1)
          /\ text[p].t = "Goto" => text[p].of \in Labels(text)

\* From the start, with target at a label, execution comes to the label's case
\* past nothing but other cases and reads of r15.
CasesLeadIn(text) ==
  LET Case(p) == /\ text[p].t = "Then" /\ text[p].of \in Labels(text)
                 /\ p + 3 <= Len(text)
                 /\ text[p + 1].t = "Goto" /\ text[p + 1].of = text[p].of
                 /\ text[p + 2].t = "Semi" /\ text[p + 3].t # "Else"
  IN \A label \in Labels(text) : \E p \in 1..Len(text) :
       /\ Case(p)
       /\ text[p].of = label
       /\ \A q \in 1..p : \/ text[q].t \in {"Semi", "Guard", "Open", "Label"}
                          \/ (text[q].t = "Read" /\ text[q].of = R15)
                          \/ (text[q].t = "Then" /\ text[q].of = OwnState)
                          \/ Case(q)
                          \/ (text[q].t = "Goto" /\ q > 1 /\ Case(q - 1))

\* Past the last label execution surely leaves.
LeavesAtTheEnd(text) ==
  \E z \in 1..Len(text) :
    /\ text[z].t \in {"Goto", "Return", "ReturnTo", "Jump", "GotoDispatch"}
    /\ \A p \in z + 1..Len(text) : text[p].t # "Label"
    /\ \A p \in 1..z - 1 : text[p].t \in {"Then", "Else"} => StatementEnd(text, p + 1) < z

WellFormed(text) ==
  /\ LinesFollow(text)
  /\ StatementsAreWhole(text)
  /\ LabelsStartBlocks(text)
  /\ CasesLeadIn(text)
  /\ LeavesAtTheEnd(text)

\* That write_body's texts are well-formed C, whatever is in the instructions.
ASSUME LocalsAssumption ==
  /\ Exits \in Nat
  /\ \A g \in Functions : WellFormed(Tokens(WriteBody(g.labels, g.instructions)))

-----------------------------------------------------------------------------
(* Scanning the lines *)

\* What the events of a token are.
EventsOf(k) ==
  CASE k.t = "Read" -> <<"Read">>
    [] k.t = "Assign" -> <<"Replace">>
    [] k.t = "Modify" -> <<"Read", "Change">>
    [] k.t \in {"Open", "Close", "Semi"} -> <<"Boundary">>
    [] k.t = "Sync" -> <<"Sync">>
    [] k.t \in {"Return", "ReturnTo"} -> <<"Leave">>
    [] k.t \in {"Jump", "GotoDispatch"} -> <<"Dispatch">>
    [] k.t = "Goto" -> <<"Goto">>
    [] k.t = "Block" -> <<"Budget">>
    [] OTHER -> <<>>

GuardedInStatement(b) == b.statement
Guarded(b) == b.statement \/ \E n \in 1..Len(b.open) : b.open[n]

\* The braces and the statement after a token.
After(b, t) ==
  CASE t = "Open" -> [open |-> Append(b.open, b.statement), statement |-> FALSE]
    [] t = "Close" -> [open |-> Front(b.open), statement |-> FALSE]
    [] t \in {"Semi", "GotoDispatch"} -> [b EXCEPT !.statement = FALSE]
    [] t \in {"Quest", "Guard", "Else"} -> [b EXCEPT !.statement = TRUE]
    [] OTHER -> b

\* A token.
Scan ==
  /\ phase = "scan"
  /\ LET k == code[i]
         new == [n \in 1..Len(EventsOf(k)) |->
                   [e |-> EventsOf(k)[n], of |-> k.of, guarded |-> Guarded(blocks)]]
     IN /\ blocks' = After(blocks, k.t)
        /\ events' = [events EXCEPT ![k.line] = @ \o new]
        /\ used' = IF k.t \in Accesses THEN used \cup {k.of} ELSE used
  /\ IF i < Len(code) THEN i' = i + 1 /\ UNCHANGED phase ELSE i' = 1 /\ phase' = "behind"
  /\ UNCHANGED <<code, changed, forwards, backwards, ways, running>>

-----------------------------------------------------------------------------
(* What the context is behind on, forwards *)

Writes == {"Replace", "Change"}
Leaves == {"Leave", "Dispatch", "Goto"}

\* The events of a line up to the first that surely ends it.
Ending(l) == {n \in 1..Len(events[l]) : events[l][n].e \in Leaves /\ ~events[l][n].guarded}
Reached(l) == 1..(IF Ending(l) = {} THEN Len(events[l]) ELSE Min(Ending(l)))

\* What the context is behind on at event n of a line that starts behind on some:
\* what was written since the last sync that surely happens.
BehindAt(l, n, entry) ==
  LET syncs == {m \in 1..n - 1 : events[l][m].e = "Sync" /\ ~events[l][m].guarded}
      since == IF syncs = {} THEN 0 ELSE Max(syncs)
  IN (IF syncs = {} THEN entry ELSE {})
     \cup {events[l][m].of : m \in {m \in since + 1..n - 1 : events[l][m].e \in Writes}}

\* Whether jumps bring something there was not.
BroughtOther(jumps) == \E l \in Lines : jumps[l] # jumped[l]
Brought(jumps) == \E l \in Lines : ~(jumps[l] \subseteq jumped[l])

\* A line of a round, of which there is another when a jump brought something
\* new.  The function starts with the context complete.
Behind ==
  /\ phase = "behind"
  /\ LET entry == falling \cup jumped[i]
         Brings(ns) == UNION {BehindAt(i, n, entry) : n \in ns}
         Events(kinds) == {n \in Reached(i) : events[i][n].e \in kinds}
         jumps == [l \in Lines |-> Brings({n \in Events({"Goto"}) : LineOf(events[i][n].of) = l})]
         new == changed \/ Brought(jumps)
     IN /\ jumped' = [l \in Lines |-> jumped[l] \cup jumps[l]]
        /\ stores' = [stores EXCEPT ![i] = Brings(Events({"Sync", "Leave", "Dispatch"}))]
        /\ budgets' = [budgets EXCEPT ![i] = Brings(Events({"Budget"}))]
        /\ falls' = [falls EXCEPT ![i] = Ending(i) = {}]
        /\ falling' = IF Ending(i) # {} \/ i = LastLine THEN {}
                      ELSE BehindAt(i, Len(events[i]) + 1, entry)
        /\ changed' = (new /\ i < LastLine)
        /\ CASE i < LastLine -> i' = i + 1 /\ UNCHANGED <<phase, liveAtBudget>>
             [] i = LastLine /\ new -> i' = 1 /\ UNCHANGED <<phase, liveAtBudget>>
             [] OTHER -> i' = i /\ phase' = "live" /\ liveAtBudget' = [l \in Lines |-> used]
  /\ UNCHANGED <<code, scanning, liveIn, ways, running>>

-----------------------------------------------------------------------------
(* What the code may still read, backwards *)

\* What may be read from an event that is no read or write on, when next may
\* be past it.
Through(event, next) ==
  CASE event.e \in {"Sync", "Leave", "Dispatch"} -> used
    [] event.e = "Goto" -> liveIn[LineOf(event.of)] \cup (IF event.guarded THEN next ELSE {})
    [] OTHER -> next

LiveFromInOrder(l, out) ==
  LET last == Len(events[l]) + 1
      from[n \in 1..last] ==
        IF n = last THEN out
        ELSE LET event == events[l][n]
             IN CASE event.e = "Read" -> from[n + 1] \cup {event.of}
                  [] event.e = "Replace" /\ ~event.guarded -> from[n + 1] \ {event.of}
                  [] OTHER -> Through(event, from[n + 1])
  IN from

\* What may be read from each event of a line on, when out may be past it.  A
\* statement's reads come before its writes, whatever their order in it, and a
\* write only ends a value's life when nothing guards it and it replaces it.
LiveFrom(l, out) ==
  LET last == Len(events[l]) + 1
      Of(ns, e) == {events[l][k].of : k \in
                     {k \in ns : events[l][k].e = e /\ (e = "Replace" => ~events[l][k].guarded)}}
      from[n \in 1..last] ==
        LET end == Min({last} \cup {k \in n..last - 1 : events[l][k].e \notin Writes \cup {"Read"}})
            next == IF end = last THEN out ELSE Through(events[l][end], from[end + 1])
        IN (next \ Of(n..end - 1, "Replace")) \cup Of(n..end - 1, "Read")
  IN from

\* A line of a round, the last one first.
Live ==
  /\ phase = "live"
  /\ LET from == LiveFrom(i, IF falls[i] /\ i < LastLine THEN liveIn[i + 1] ELSE {})
         checks == {n \in 1..Len(events[i]) : events[i][n].e = "Budget"}
         new == changed \/ ~(from[1] \subseteq liveIn[i])
     IN /\ liveIn' = [liveIn EXCEPT ![i] = @ \cup from[1]]
        /\ liveAtBudget' = [liveAtBudget EXCEPT ![i] = IF checks = {} THEN @ ELSE from[Min(checks) + 1]]
        /\ changed' = (new /\ i > 1)
        /\ CASE i > 1 -> i' = i - 1 /\ UNCHANGED phase
             [] i = 1 /\ new -> i' = LastLine /\ UNCHANGED phase
             [] OTHER -> i' = i /\ phase' = "ways"
  /\ UNCHANGED <<code, scanning, forwards, ways, running>>

-----------------------------------------------------------------------------
(* The ways out *)

\* What a block that the budget stops stores.
Exit(l) == (budgets[l] \cap liveAtBudget[l]) \ {R15}
Checks == {l \in Lines : \E n \in 1..Len(events[l]) : events[l][n].e = "Budget"}

\* The order of sets as bits, and of the sets of the blocks: the most common
\* ones come first.
Less(a, b) == a # b /\ Max((a \cup b) \ (a \cap b)) \in b
Count(set) == Cardinality({l \in Checks : Exit(l) = set})
Sooner(a, b) == Count(a) > Count(b) \/ (Count(a) = Count(b) /\ Less(a, b))

Ways ==
  /\ phase = "ways"
  /\ LET sets == {Exit(l) : l \in Checks}
         common == {set \in sets : Cardinality({s \in sets : Sooner(s, set)}) < Exits}
     IN ways' = [l \in Checks |-> IF Exit(l) \in common THEN Exit(l) ELSE UNION (sets \ common)]
  /\ phase' = "run"
  /\ ctx' = used
  /\ UNCHANGED <<code, analysis, at, where, target, loc, writing>>

-----------------------------------------------------------------------------
(* Running it *)

Now == code[at]

\* Where execution is past the statement that starts at p, and past its else.
Past(p) == IF code[StatementEnd(code, p) + 1].t = "Else" THEN StatementEnd(code, p) + 2 ELSE StatementEnd(code, p) + 1

\* Assignments happen once what they assign has been read.
Written == [ctx |-> ctx \ writing, loc |-> loc \cup writing]

\* SYNC_OUT as a define has it.
Stored(set) == (Written.ctx \ set) \cup (set \cap Written.loc)

\* Execution goes on at p, with the context and the locals as they are.
Go(p) == at' = p /\ ctx' = Written.ctx /\ loc' = Written.loc /\ writing' = {}

Run == phase = "run" /\ where = "in" /\ UNCHANGED <<code, phase, analysis, ways>>

Access ==
  /\ Run /\ Now.t \in Accesses
  /\ at' = at + 1
  /\ writing' = IF Now.t = "Read" THEN writing ELSE writing \cup {Now.of}
  /\ UNCHANGED <<where, target, ctx, loc>>

Pass ==
  /\ Run /\ Now.t \in {"Guard", "Quest", "Open", "Close", "Semi", "Label", "Returned"}
  /\ Go(at + 1)
  /\ UNCHANGED <<where, target>>

\* Execution comes to an else only from the end of what its if is taken for.
Else ==
  /\ Run /\ Now.t = "Else"
  /\ Go(StatementEnd(code, at + 1) + 1)
  /\ UNCHANGED <<where, target>>

Taken ==
  /\ Run /\ Now.t = "Then" /\ Now.of \in {Anything, OwnState, target}
  /\ Go(at + 1)
  /\ UNCHANGED <<where, target>>

NotTaken ==
  /\ Run /\ Now.t = "Then" /\ Now.of # target
  /\ Now.of = OwnState => target = Elsewhere
  /\ Go(Past(at + 1))
  /\ UNCHANGED <<where, target>>

Goto ==
  /\ Run /\ Now.t = "Goto"
  /\ Go(Place(code, Now.of))
  /\ UNCHANGED <<where, target>>

\* The budget covers the block, and execution goes on in it, or it does not,
\* and the way out leaves r15 at the block.
Fits ==
  /\ Run /\ Now.t = "Block"
  /\ Go(at + 1)
  /\ UNCHANGED <<where, target>>

OutOfBudget ==
  /\ Run /\ Now.t = "Block"
  /\ where' = "stopped"
  /\ target' = Now.of
  /\ ctx' = Stored(ways[Now.line]) \cup {R15}
  /\ loc' = {} /\ writing' = {}
  /\ UNCHANGED at

\* CALL, INTERPRET, SVC and VFP_VECTOR hand the context over, and what gets it
\* leaves it whole; the code goes on with the locals taken again, or leaves.
SyncOut ==
  /\ Run /\ Now.t = "Sync"
  /\ where' = "called"
  /\ ctx' = Stored(stores[Now.line])
  /\ loc' = {} /\ writing' = {}
  /\ UNCHANGED <<at, target>>

SyncIn ==
  /\ phase = "run" /\ where = "called"
  /\ where' = "in"
  /\ at' = at + 1
  /\ ctx' = used /\ loc' = ctx'
  /\ UNCHANGED <<code, phase, analysis, ways, target, writing>>

Exited ==
  /\ phase = "run" /\ where = "called"
  /\ where' = "left"
  /\ ctx' = used
  /\ UNCHANGED <<code, phase, analysis, ways, at, target, loc, writing>>

\* The call returned to some place else, which dispatch may know.
ReturnedElsewhere ==
  /\ Run /\ Now.t = "Returned"
  /\ target' \in Labels(code) \cup {Elsewhere}
  /\ Go(Place(code, Dispatch))
  /\ UNCHANGED where

\* RETURN has r15 from a local, the RETURN_TOs set it past SYNC_OUT.
Return ==
  /\ Run /\ Now.t \in {"Return", "ReturnTo"}
  /\ where' = "left"
  /\ ctx' = Stored(stores[Now.line]) \cup (IF Now.t = "Return" THEN {} ELSE {R15})
  /\ loc' = {} /\ writing' = {}
  /\ UNCHANGED <<at, target>>

\* A jump through dispatch, with SYNC_OUT first, to a label or somewhere else.
DispatchTo ==
  /\ Run /\ Now.t \in {"Jump", "GotoDispatch"}
  /\ target' \in Labels(code) \cup {Elsewhere}
  /\ at' = Place(code, Dispatch)
  /\ ctx' = Stored(stores[Now.line]) /\ loc' = Written.loc /\ writing' = {}
  /\ UNCHANGED where

\* The host has the function run: at any of its labels with a context that is
\* whole, or from where the budget stopped it.
Enter ==
  /\ phase = "run" /\ where \in {"left", "stopped"}
  /\ where = "left" => target' \in Labels(code)
  /\ where = "stopped" => target' = target
  /\ where' = "in"
  /\ at' = 1
  /\ loc' = ctx
  /\ UNCHANGED <<code, phase, analysis, ways, ctx, writing>>

Init ==
  /\ \E g \in Functions : code = Tokens(WriteBody(g.labels, g.instructions))
  /\ phase = "scan" /\ i = 1 /\ changed = FALSE
  /\ blocks = [open |-> <<>>, statement |-> FALSE]
  /\ used = {} /\ events = [l \in Lines |-> <<>>]
  /\ falling = {}
  /\ jumped = [l \in Lines |-> {}]
  /\ stores = [l \in Lines |-> {}]
  /\ budgets = [l \in Lines |-> {}]
  /\ falls = [l \in Lines |-> TRUE]
  /\ liveIn = [l \in Lines |-> {}]
  /\ liveAtBudget = [l \in Lines |-> {}]
  /\ ways = <<>>
  /\ at = 1 /\ where = "left" /\ target = Elsewhere
  /\ ctx = {} /\ loc = {} /\ writing = {}

Keep == Scan \/ Behind \/ Live \/ Ways
Step ==
  \/ Access \/ Pass \/ Else \/ Taken \/ NotTaken \/ Goto \/ Fits \/ OutOfBudget
  \/ SyncOut \/ SyncIn \/ Exited \/ ReturnedElsewhere \/ Return \/ DispatchTo \/ Enter
Next == Keep \/ Step

\* keep is a loop that is run to its end.
Spec == Init /\ [][Next]_vars /\ WF_vars(Keep)

-----------------------------------------------------------------------------
(* Properties *)

TypeOK ==
  /\ phase \in {"scan", "behind", "live", "ways", "run"}
  /\ i \in (IF phase = "scan" THEN 1..Len(code) ELSE Lines) /\ changed \in BOOLEAN /\ falling \subseteq used
  /\ \A l \in Lines : /\ jumped[l] \subseteq used /\ stores[l] \subseteq used
                      /\ budgets[l] \subseteq used /\ liveIn[l] \subseteq used
                      /\ liveAtBudget[l] \subseteq used /\ falls[l] \in BOOLEAN
  /\ at \in 1..Len(code)
  /\ where \in {"in", "called", "left", "stopped"}
  /\ target \in Labels(code) \cup {Elsewhere}
  /\ ctx \subseteq used \cup {R15} /\ loc \subseteq used \cup {R15} /\ writing \subseteq used

\* The argument of a macro is read before the macro does anything.
Argument == {code[p].of : p \in {p \in at..StatementEnd(code, at) : code[p].t = "Read"}}
Reads ==
  CASE Now.t \in {"Read", "Modify"} -> {Now.of}
    [] Now.t \in {"Jump", "ReturnTo"} -> Argument
    [] OTHER -> {}

\* Whatever the code reads has the value the guest's register has there, on
\* every path, after calls, and when the host has it go on past a way out that
\* left registers old in the context: those are set before they are read.
ReadsAreRight == phase = "run" /\ where = "in" => Reads \subseteq loc

\* Whatever looks at the context finds every register the function uses right
\* in it: the callee, the interpreter, the host's svc, the vector operation
\* and the caller.  SYNC_OUT stores no more than what a pass found the context
\* behind on, and no register of another path's.
ContextIsWhole == phase = "run" /\ where \in {"called", "left"} => used \subseteq ctx

\* Both passes come to an end, loops and jumps backwards or not.
KeepEnds == <>(phase = "run")
=============================================================================
