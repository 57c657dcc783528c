----------------------------- MODULE SchemeHeap -----------------------------
(***************************************************************************)
(* The cells of TinyScheme.  The evaluator asks for cells (get_cell,       *)
(* get_consecutive_cells); when the free list cannot serve it, gc marks    *)
(* what the registers, the recent allocations and the arguments of the     *)
(* request lead to, sweeps the rest onto the free list in the order of the *)
(* addresses, and a new segment may be allocated.  mark uses no stack for  *)
(* pairs: on its way down it turns the links around, and back on its way   *)
(* up.  For the cells of a vector it calls itself.                         *)
(*                                                                         *)
(* A cell is a number.  Segments do not touch: sc->malloc gives more than  *)
(* alloc_cellseg uses.                                                     *)
(***************************************************************************)
EXTENDS Integers, Sequences, FiniteSets, SequencesExt

CONSTANTS
    Reg,            \* oblist, global_env, args, envir, code, value, the frames of
                    \* the dump stack: what gc marks on its own account
    SegSize,        \* CELL_SEGSIZE
    MaxSegs,        \* CELL_NSEGMENT
    MinPerSeg,      \* so many cells per segment gc should recover
    MaxLen,         \* bound: the length of a vector
    MaxOps          \* bound: requests and assignments

ASSUME RegAssumption  == IsFiniteSet(Reg)
ASSUME SizeAssumption == /\ SegSize \in Nat \ {0} /\ MaxSegs \in Nat \ {0}
                         /\ MinPerSeg \in Nat /\ MaxLen \in Nat /\ MaxOps \in Nat

VARIABLES
    segs,           \* the segments that have been allocated, by position
    cell,           \* the cells
    free_cell, fcells,
    sink,           \* car(sc->sink): the list of recent allocations
    reg,            \* Reg -> what it points to
    no_memory,
    req,            \* the request that is being served
    gc,             \* where gc is, the roots it has still to mark, the calls of
                    \* mark, and the cell it sweeps next
    ops,            \* bound
    locals,         \* history: what the opcode has been given since ok_to_freely_gc
    before          \* history: the cells when gc began

heap == <<segs, cell, free_cell, fcells>>
vars == <<heap, sink, reg, no_memory, req, gc, ops, locals, before>>

Nil   == 0      \* sc->NIL
Null  == -1     \* the null pointer, which ends the chain of turned links
Base(k)    == k * (SegSize + 1) + 1
CellsOf(k) == Base(k) .. Base(k) + SegSize - 1
Cells      == UNION {CellsOf(k) : k \in 0 .. MaxSegs - 1}
Allocated  == UNION {CellsOf(k) : k \in segs}

\* A cell: "block" is a cell of a vector that holds two of its elements.
Unused == [type |-> "none", atom |-> FALSE, mark |-> FALSE, len |-> 0, car |-> Nil, cdr |-> Nil]
Pair(type, a, b) == [Unused EXCEPT !.type = type, !.car = a, !.cdr = b]
Number    == [Unused EXCEPT !.type = "number", !.atom = TRUE]
Vector(n) == [Unused EXCEPT !.type = "vector", !.atom = TRUE, !.len = n]
\* A vector of n elements is followed by so many cells.
Blocks(n) == (n + 1) \div 2

NoRequest == [kind |-> "none", a |-> Nil, b |-> Nil, n |-> 0, atom |-> FALSE]
NoGc      == [pc |-> "off", todo |-> <<>>, calls |-> <<>>, scan |-> 0]

Init ==
    /\ \E k \in 0 .. MaxSegs - 1 :          \* FIRST_CELLSEGS is one here
        /\ segs = {k} /\ free_cell = Base(k)
        /\ cell = [c \in Cells |-> IF c \in CellsOf(k) /\ c + 1 \in CellsOf(k)
                                   THEN [Unused EXCEPT !.cdr = c + 1] ELSE Unused]
    /\ fcells = SegSize /\ sink = Nil
    /\ reg = [r \in Reg |-> Nil] /\ no_memory = FALSE
    /\ req = NoRequest /\ gc = NoGc
    /\ ops = 0 /\ locals = {} /\ before = cell

-----------------------------------------------------------------------------
(* The evaluator.                                                          *)

Running  == req = NoRequest /\ gc.pc = "off" /\ ~no_memory
Operands == {Nil} \union {reg[r] : r \in Reg} \union locals
Counted  == ops < MaxOps /\ ops' = ops + 1

\* cons, mk_integer and the like, mk_vector, reserve_cells.
Request ==
    /\ Running /\ Counted
    /\ \/ \E a, b \in Operands :
            req' = [NoRequest EXCEPT !.kind = "cell", !.a = a, !.b = b]
       \/ req' = [NoRequest EXCEPT !.kind = "cell", !.atom = TRUE]
       \/ \E n \in 0 .. MaxLen : req' = [NoRequest EXCEPT !.kind = "vector", !.n = n]
       \/ req' = [NoRequest EXCEPT !.kind = "reserve", !.n = SegSize]
    /\ UNCHANGED <<heap, sink, reg, no_memory, gc, locals, before>>

\* A register is loaded, with an operand or what is in one.
Parts(x) == IF x # Nil /\ cell[x].type = "pair" THEN {x, cell[x].car, cell[x].cdr} ELSE {x}
Load ==
    /\ Running /\ Counted
    /\ \E r \in Reg : \E x \in UNION {Parts(x) : x \in Operands} \ {reg[r]} :
        reg' = [reg EXCEPT ![r] = x]
    /\ UNCHANGED <<heap, sink, no_memory, req, gc, locals, before>>

\* set_car, set_cdr and set_vector_elem.
Assign ==
    /\ Running /\ Counted
    /\ \E x \in Operands \ {Nil}, y \in Operands :
        \/ /\ cell[x].type = "pair"
           /\ \/ cell' = [cell EXCEPT ![x].car = y]
              \/ cell' = [cell EXCEPT ![x].cdr = y]
        \/ \E i \in 0 .. cell[x].len - 1 :
            cell' = IF i % 2 = 0 THEN [cell EXCEPT ![x + 1 + i \div 2].car = y]
                    ELSE [cell EXCEPT ![x + 1 + i \div 2].cdr = y]
    /\ cell' # cell
    /\ UNCHANGED <<segs, free_cell, fcells, sink, reg, no_memory, req, gc, locals, before>>

\* Eval_Cycle calls ok_to_freely_gc before each opcode.
NextOpcode ==
    /\ Running /\ sink # Nil
    /\ sink' = Nil /\ locals' = {}
    /\ UNCHANGED <<heap, reg, no_memory, req, gc, ops, before>>

-----------------------------------------------------------------------------
(* Serving a request.                                                      *)

\* find_consecutive_cells: the first n free cells in a row.  A free list is
\* followed by its links.
Follow(c, k) == LET at[i \in 0 .. k] == IF i = 0 THEN c
                                        ELSE IF at[i - 1] = Nil THEN Nil ELSE cell[at[i - 1]].cdr
                IN  at[k]
FreeList == {Follow(free_cell, k) : k \in 0 .. Cardinality(Cells)} \ {Nil}
Rows(n)  == {x \in FreeList : \A j \in 0 .. n - 1 : Follow(x, j) = x + j}
Earliest(S) == CHOOSE x \in S : \E k \in 0 .. Cardinality(Cells) :
                    /\ Follow(free_cell, k) = x
                    /\ \A i \in 0 .. k - 1 : Follow(free_cell, i) \notin S

Wanted == Blocks(req.n) + 1
Served == CASE req.kind \in {"cell", "holder"} -> free_cell # Nil
            [] req.kind = "vector"             -> Rows(Wanted) # {}
            [] req.kind = "reserve"            -> fcells >= req.n
            [] OTHER                           -> FALSE

\* gc has not been tried, or all has been done that can be.
MayTake == gc.pc \in {"off", "grown"}

\* get_cell: the cell is made a pair at once, and then remembered.
TakeCell ==
    /\ req.kind = "cell" /\ MayTake /\ Served
    /\ cell' = [cell EXCEPT ![free_cell] = Pair("pair", req.a, req.b)]
    /\ free_cell' = cell[free_cell].cdr /\ fcells' = fcells - 1
    /\ req' = [req EXCEPT !.kind = "holder", !.a = free_cell, !.b = Nil]
    /\ gc' = NoGc
    /\ UNCHANGED <<segs, sink, reg, no_memory, ops, locals, before>>

\* push_recent_alloc, and what mk_integer does with the cell afterwards.
\* (Mutant: the holder is not linked to those before it.)
Unlinked == Nil
Linked   == sink
TakeHolder ==
    LET x == req.a IN
    /\ req.kind = "holder" /\ MayTake /\ Served
    /\ cell' = [cell EXCEPT ![free_cell] = Pair("pair", x, Linked),
                            ![x] = IF req.atom THEN Number ELSE @]
    /\ free_cell' = cell[free_cell].cdr /\ fcells' = fcells - 1
    /\ sink' = free_cell
    /\ locals' = locals \union {x}
    /\ req' = NoRequest /\ gc' = NoGc
    /\ UNCHANGED <<segs, reg, no_memory, ops, before>>

\* get_vector_object: the cells are taken off the list, filled and remembered.
TakeVector ==
    LET n == Wanted  x == Earliest(Rows(n))  rest == Follow(x, n) IN
    /\ req.kind = "vector" /\ MayTake /\ Served
    /\ cell' = [c \in Cells |->
            IF c = x THEN Vector(req.n)
            ELSE IF c \in x + 1 .. x + n - 1 THEN Pair("block", Nil, Nil)
            ELSE IF c \in FreeList /\ cell[c].cdr = x THEN [cell[c] EXCEPT !.cdr = rest]
            ELSE cell[c]]
    /\ free_cell' = IF free_cell = x THEN rest ELSE free_cell
    /\ fcells' = fcells - n
    /\ req' = [NoRequest EXCEPT !.kind = "holder", !.a = x]
    /\ gc' = NoGc
    /\ UNCHANGED <<segs, sink, reg, no_memory, ops, locals, before>>

\* reserve_cells only looks.
Reserved ==
    /\ req.kind = "reserve" /\ MayTake /\ Served
    /\ req' = NoRequest /\ gc' = NoGc
    /\ UNCHANGED <<heap, sink, reg, no_memory, ops, locals, before>>

\* alloc_cellseg: the cells of the new segment go into the free list by address.
\* (Mutant: always in front.)
InFront(k) == TRUE
First(k)   == free_cell = Nil \/ Base(k) + SegSize < free_cell
NewSegment(k) ==
    LET last  == Base(k) + SegSize - 1
        prev  == CHOOSE c \in FreeList :        \* the last one before it
                    /\ cell[c].cdr = Nil \/ cell[c].cdr >= Base(k)
                    /\ \A d \in FreeList : d < c => ~ (cell[d].cdr = Nil \/ cell[d].cdr >= Base(k))
        fresh == [c \in Cells |-> IF c \in CellsOf(k) THEN [Unused EXCEPT !.cdr = c + 1]
                                  ELSE cell[c]]
    IN  /\ segs' = segs \union {k}
        /\ fcells' = fcells + SegSize
        /\ IF First(k)
           THEN /\ cell' = [fresh EXCEPT ![last].cdr = free_cell]
                /\ free_cell' = Base(k)
           ELSE /\ cell' = [fresh EXCEPT ![last].cdr = cell[prev].cdr, ![prev].cdr = Base(k)]
                /\ UNCHANGED free_cell

\* After gc: enough, a new segment, or none to be had.
TooFew == IF req.kind \in {"cell", "holder"}
          THEN fcells < (Cardinality(segs) - 1) * MinPerSeg \/ free_cell = Nil
          ELSE ~Served
Grow ==
    /\ gc.pc = "swept"
    /\ \/ ~TooFew /\ UNCHANGED heap
       \/ TooFew /\ \E k \in (0 .. MaxSegs - 1) \ segs : NewSegment(k)
       \/ TooFew /\ UNCHANGED heap
    /\ gc' = [gc EXCEPT !.pc = "grown"]
    /\ UNCHANGED <<sink, reg, no_memory, req, ops, locals, before>>
NoMemory ==
    /\ gc.pc = "grown" /\ ~Served
    /\ no_memory' = TRUE /\ req' = NoRequest /\ gc' = NoGc
    /\ UNCHANGED <<heap, sink, reg, ops, locals, before>>

-----------------------------------------------------------------------------
(* mark.                                                                   *)

\* The registers in some order, the recent allocations, the arguments.  (mark(NIL)
\* leads nowhere, and gc clears the mark of NIL afterwards.)
Root(x) == IF x = Nil THEN <<>> ELSE <<x>>
Roots   == SetToSeq({reg[r] : r \in Reg} \ {Nil}) \o Root(sink) \o Root(req.a) \o Root(req.b)
BeginGc ==
    /\ req.kind # "none" /\ gc.pc = "off" /\ ~Served
    /\ gc' = [NoGc EXCEPT !.pc = "mark", !.todo = Roots]
    /\ before' = cell
    /\ UNCHANGED <<heap, sink, reg, no_memory, req, ops, locals>>

\* One call of mark: its variables p and t, its place, and its vector's index.
Call(c) == [p |-> c, t |-> Null, at |-> "E2", i |-> 0]
Top     == Head(gc.calls)
In(at)  == gc.pc = "mark" /\ gc.calls # <<>> /\ Top.at = at
\* The innermost call goes on; or another one begins.
Goes(call)       == [gc EXCEPT !.calls = <<call>> \o Tail(@)]
Calls(call, c)   == [gc EXCEPT !.calls = <<Call(c), call>> \o Tail(@)]
MarkUnchanged    == UNCHANGED <<segs, free_cell, fcells, sink, reg, no_memory, req, ops, locals, before>>

MarkRoot ==
    /\ gc.pc = "mark" /\ gc.calls = <<>> /\ gc.todo # <<>>
    /\ gc' = [gc EXCEPT !.calls = <<Call(Head(gc.todo))>>, !.todo = Tail(@)]
    /\ UNCHANGED cell /\ MarkUnchanged

E2 ==
    /\ In("E2")
    /\ cell' = [cell EXCEPT ![Top.p].mark = TRUE]
    /\ gc' = Goes([Top EXCEPT !.i = 0, !.at = IF cell[Top.p].type = "vector" THEN "E3"
                                              ELSE IF cell[Top.p].atom THEN "E6" ELSE "E4"])
    /\ MarkUnchanged

\* The cells of a vector.
E3 ==
    /\ In("E3")
    /\ gc' = IF Top.i < Blocks(cell[Top.p].len)
             THEN Calls([Top EXCEPT !.i = @ + 1], Top.p + 1 + Top.i)
             ELSE Goes([Top EXCEPT !.at = "E6"])
    /\ UNCHANGED cell /\ MarkUnchanged

ToMark(q) == q \notin {Nil, Null} /\ ~cell[q].mark

\* Down car: T_ATOM notes that car, and not cdr, has been turned around.
\* (Mutant: without the note.)
NoNote(h, p, t)    == [h EXCEPT ![p].car = t]
CarTurned(h, p, t) == [h EXCEPT ![p].car = t, ![p].atom = TRUE]
E4 ==
    LET q == cell[Top.p].car IN
    /\ In("E4")
    /\ IF ToMark(q)
       THEN /\ cell' = CarTurned(cell, Top.p, Top.t)
            /\ gc' = Goes([Top EXCEPT !.t = Top.p, !.p = q, !.at = "E2"])
       ELSE gc' = Goes([Top EXCEPT !.at = "E5"]) /\ UNCHANGED cell
    /\ MarkUnchanged

\* Down cdr.
E5 ==
    LET q == cell[Top.p].cdr IN
    /\ In("E5")
    /\ IF ToMark(q)
       THEN /\ cell' = [cell EXCEPT ![Top.p].cdr = Top.t]
            /\ gc' = Goes([Top EXCEPT !.t = Top.p, !.p = q, !.at = "E2"])
       ELSE gc' = Goes([Top EXCEPT !.at = "E6"]) /\ UNCHANGED cell
    /\ MarkUnchanged

\* Up: a link is turned back.  (Mutant: the note is left.)
NoteLeft(h, q, p) == [h EXCEPT ![q].car = p]
CarBack(h, q, p)  == [h EXCEPT ![q].car = p, ![q].atom = FALSE]
CdrBack(h, q, p)  == [h EXCEPT ![q].cdr = p]
\* The chain goes on with what the link was.  (Mutant: it is read when it has been
\* turned back.)
ReadAfter(h, q, p) == CdrBack(h, q, p)[q].cdr
ReadFirst(h, q, p) == h[q].cdr
E6 ==
    LET q == Top.t IN
    /\ In("E6")
    /\ IF q \notin Cells
       THEN gc' = [gc EXCEPT !.calls = Tail(@)] /\ UNCHANGED cell
       ELSE IF cell[q].atom
       THEN /\ cell' = CarBack(cell, q, Top.p)
            /\ gc' = Goes([Top EXCEPT !.t = cell[q].car, !.p = q, !.at = "E5"])
       ELSE /\ cell' = CdrBack(cell, q, Top.p)
            /\ gc' = Goes([Top EXCEPT !.t = ReadFirst(cell, q, Top.p), !.p = q, !.at = "E6"])
    /\ MarkUnchanged

-----------------------------------------------------------------------------
(* The sweep, from the last cell to the first.                             *)

Highest(S) == CHOOSE x \in S \union {0} : \A y \in S : y <= x
Below(c)   == Highest({d \in Allocated : d < c})
\* The free cells are counted anew.
Count == 0
BeginSweep ==
    /\ gc.pc = "mark" /\ gc.calls = <<>> /\ gc.todo = <<>>
    /\ gc' = [gc EXCEPT !.pc = "sweep", !.scan = Highest(Allocated)]
    /\ fcells' = Count /\ free_cell' = Nil
    /\ UNCHANGED <<segs, cell, sink, reg, no_memory, req, ops, locals, before>>

SweepCell ==
    LET c == gc.scan IN
    /\ gc.pc = "sweep"
    /\ IF cell[c].mark
       THEN /\ cell' = [cell EXCEPT ![c].mark = FALSE]
            /\ UNCHANGED <<free_cell, fcells>>
       ELSE /\ cell' = [cell EXCEPT ![c] = [Unused EXCEPT !.cdr = free_cell]]
            /\ fcells' = fcells + 1 /\ free_cell' = c
    /\ gc' = [gc EXCEPT !.scan = Below(c), !.pc = IF Below(c) = 0 THEN "swept" ELSE @]
    /\ UNCHANGED <<segs, sink, reg, no_memory, req, ops, locals, before>>

Mark  == MarkRoot \/ E2 \/ E3 \/ E4 \/ E5 \/ E6
Sweep == BeginSweep \/ SweepCell
Serve == \/ TakeCell \/ TakeHolder \/ TakeVector \/ Reserved
         \/ BeginGc \/ Mark \/ Sweep \/ Grow \/ NoMemory
Next == Request \/ Load \/ Assign \/ NextOpcode \/ Serve

\* A request that is being served goes on: there is only one thread.
Spec == Init /\ [][Next]_vars /\ WF_vars(Serve)

-----------------------------------------------------------------------------
(* What must hold.                                                         *)

Pointers == Cells \union {Nil}
TypeOK ==
    /\ segs \subseteq 0 .. MaxSegs - 1
    /\ cell \in [Cells -> [type : {"none", "pair", "number", "vector", "block"},
                           atom : BOOLEAN, mark : BOOLEAN, len : 0 .. MaxLen,
                           car : Pointers \union {Null}, cdr : Pointers \union {Null}]]
    /\ free_cell \in Pointers /\ fcells \in 0 .. Cardinality(Cells) /\ sink \in Pointers
    /\ reg \in [Reg -> Pointers] /\ no_memory \in BOOLEAN
    /\ req \in [kind : {"none", "cell", "holder", "vector", "reserve"}, a : Pointers,
                b : Pointers, n : Nat, atom : BOOLEAN]
    /\ gc.pc \in {"off", "mark", "sweep", "swept", "grown"}
    /\ gc.todo \in Seq(Cells) /\ gc.scan \in Cells \union {0}
    /\ gc.calls \in Seq([p : Cells, t : Cells \union {Null}, at : {"E2", "E3", "E4", "E5", "E6"},
                         i : Nat])
    /\ ops \in 0 .. MaxOps /\ locals \subseteq Cells

\* What cells lead to, in a heap with its links in place.
Links(h, c) == IF h[c].type = "vector" THEN c + 1 .. c + Blocks(h[c].len)
               ELSE IF h[c].atom THEN {} ELSE {h[c].car, h[c].cdr} \ {Nil}
Reach(h, S) ==
    LET R[k \in 0 .. Cardinality(Cells)] ==
            IF k = 0 THEN S \ {Nil} ELSE R[k - 1] \union UNION {Links(h, c) : c \in R[k - 1]}
    IN  R[Cardinality(Cells)]

\* The heap without the detours of a call of mark: its chain is followed up and each
\* link turned back.  Then without those of all calls.
Back(u) ==
    LET q == u.t IN
    IF q \notin Cells THEN u
    ELSE IF u.h[q].atom
    THEN [h |-> CarBack(u.h, q, u.p), p |-> q, t |-> u.h[q].car]
    ELSE [h |-> CdrBack(u.h, q, u.p), p |-> q, t |-> u.h[q].cdr]
Undone(h, call) ==
    LET U[k \in 0 .. Cardinality(Cells)] ==
            IF k = 0 THEN [h |-> h, p |-> call.p, t |-> call.t] ELSE Back(U[k - 1])
    IN  U[Cardinality(Cells)].h
Unmarked(h) == [c \in Cells |-> [h[c] EXCEPT !.mark = FALSE]]

\* At every step of mark the turned links can be turned back: no pointer is lost,
\* whatever cycles, shared cells and vectors the heap has.
Recovered ==
    LET V[k \in 0 .. Len(gc.calls)] == IF k = 0 THEN cell ELSE Undone(V[k - 1], gc.calls[k])
    IN  V[Len(gc.calls)]
LinksRecoverable == gc.pc = "mark" => Unmarked(Recovered) = before

\* When gc is over, what the roots lead to is as it was, and everything else is
\* free.
GcExact == gc.pc = "swept" =>
    LET live == Reach(before, {reg[r] : r \in Reg} \union {sink, req.a, req.b})
    IN  \A c \in Allocated : IF c \in live THEN cell[c] = before[c] ELSE cell[c].type = "none"

\* What the evaluator may still use has not been reclaimed: what the registers lead
\* to, and what it has been given since ok_to_freely_gc, although no register
\* knows that yet.
Known    == Reach(IF gc.pc = "off" THEN cell ELSE before, Operands \union {req.a, req.b})
KnownKept == \A c \in Known : cell[c].type # "none"

\* The free list has exactly the cells that are not in use, once each, in the order
\* of their addresses, and fcells counts them; find_consecutive_cells relies on it.
FreeListSound == gc.pc \notin {"mark", "sweep"} =>
    /\ FreeList = {c \in Allocated : cell[c].type = "none"}
    /\ fcells = Cardinality(FreeList)
    /\ \A c \in FreeList : cell[c].cdr = Nil \/ cell[c].cdr > c
\* The heap is well-formed and its free list sound whenever the marker is not at it.
FreeListOK == TypeOK /\ FreeListSound

\* Every request is served or refused: mark comes to an end on every graph.
RequestsEnd == []<>(req = NoRequest)
=============================================================================
