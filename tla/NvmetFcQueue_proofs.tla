------------------------- MODULE NvmetFcQueue_proofs -------------------------
(***************************************************************************)
(* Proofs about NvmetFcQueue, for every set of commands, request blocks    *)
(* and deleting threads: its type invariant, that every command has one    *)
(* owner, that the references of the queue are exact and free it in time,  *)
(* and that the driver sees an exchange (NvmetFcExchange) in every run of  *)
(* the queue.                                                              *)
(***************************************************************************)
EXTENDS NvmetFcQueue, FiniteSetTheorems, SequenceTheorems, TLAPS

\* What a thread knows of its request block: it has a command unless the block
\* is idle or about to be, and data is left to move where it goes on to move it.
Outside == {"idle", "next"}
Lldd == {"lldd", "done", "failed"}
BlockOK(f) ==
    /\ cmd[f] = NoCmd <=> at[f] \in Outside
    /\ at[f] \in {"transfer", "chunk"} => fod[f].offset < Chunks
    /\ at[f] \in Lldd /\ op[cmd[f]] # "RSP" => fod[f].offset < Chunks
    /\ at[f] \in Lldd /\ op[cmd[f]] = "WRITEDATA" => dir[cmd[f]] = "write"
    /\ at[f] \in {"execute", "complete"} /\ dir[cmd[f]] = "read" /\ fod[f].data
         => fod[f].offset < Chunks
BlocksOK == \A f \in Fod : BlockOK(f)

\* ... and what a deletion knows: the block it marks, the command it drops.
DelOK == \A d \in Deleter :
    /\ del[d].pc = "drop" <=> del[d].cmd # NoCmd
    /\ del[d].pc \in {"mark", "waiting", "call", "fcp_abort"} => del[d].fod \in Fod

\* The inductive invariant.
Inv == TypeOK /\ OneOwner /\ BlocksOK /\ DelOK

USE CmdAssumption, FodAssumption, DeleterAssumption, ChunksAssumption, DirsAssumption,
    DriverAssumption

-----------------------------------------------------------------------------
(* What a step leaves alone.                                               *)

\* A thread outside has no command, a thread with a block has one.
LEMMA HasCmd ==
    ASSUME Inv, NEW f \in Fod
    PROVE  /\ at[f] \in Outside => cmd[f] = NoCmd
           /\ at[f] \notin Outside => cmd[f] \in Cmd
           /\ at[f] \notin Outside => cmd[f] # NoCmd
<1>1. cmd[f] \in Cmd \union {NoCmd}
  BY DEF Inv, TypeOK
<1>2. cmd[f] = NoCmd <=> at[f] \in Outside
  BY DEF Inv, BlocksOK, BlockOK
<1>. QED
  BY <1>1, <1>2

\* A thread goes on with its block: nobody's ownership changes.
LEMMA GoOn ==
    ASSUME Inv, NEW f \in Fod, at[f] \notin Outside, at'[f] \notin Outside,
           \A g \in Fod \ {f} : at'[g] = at[g],
           UNCHANGED <<stage, cmd, fod_list, pending, del>>
    PROVE  OneOwner' /\ DelOK' /\ (\A g \in Fod : cmd'[g] = NoCmd <=> at'[g] \in Outside)
<1>1. Busy' = Busy
  BY DEF Busy, Inv, TypeOK, Outside, Places
<1>2. OneOwner'
  BY <1>1 DEF Inv, OneOwner, FodsOwn, ListOwns, DropOwns, NoneLost, Waiting
<1>3. DelOK'
  BY DEF Inv, DelOK
<1>4. \A g \in Fod : cmd'[g] = NoCmd <=> at'[g] \in Outside
  BY DEF Inv, TypeOK, BlocksOK, BlockOK
<1>. QED
  BY <1>2, <1>3, <1>4

\* A deletion goes on without touching the commands.
LEMMA DelGoesOn ==
    ASSUME Inv, UNCHANGED <<stage, at, cmd, fod_list, pending>>,
           \A d \in Deleter : del'[d].cmd = del[d].cmd
    PROVE  OneOwner'
<1>1. Busy' = Busy /\ Waiting' = Waiting
  BY DEF Busy, Waiting
<1>. QED
  BY <1>1 DEF Inv, OneOwner, FodsOwn, ListOwns, DropOwns, NoneLost

\* The blocks stay as they are, or only their flags change.
LEMMA OnlyFlags ==
    ASSUME Inv, UNCHANGED <<at, cmd, op, dir>>,
           \A f \in Fod : /\ fod'[f].offset = fod[f].offset
                          /\ fod'[f].data = fod[f].data
    PROVE  BlocksOK'
  BY DEF Inv, BlocksOK, BlockOK

\* What a thread does to its block does not disturb the others.
LEMMA OtherBlocks ==
    ASSUME Inv, NEW f \in Fod, cmd[f] # NoCmd, UNCHANGED <<cmd, dir>>,
           \A g \in Fod \ {f} : at'[g] = at[g] /\ fod'[g] = fod[g],
           \A c \in Cmd \ {cmd[f]} : op'[c] = op[c],
           BlockOK(f)'
    PROVE  BlocksOK'
<1>1. ASSUME NEW g \in Fod, g # f
      PROVE  BlockOK(g)'
  <2>1. CASE cmd[g] = NoCmd
    <3>1. at[g] \in Outside
      BY <2>1 DEF Inv, BlocksOK, BlockOK
    <3>2. at'[g] \notin Lldd \union {"transfer", "chunk", "execute", "complete"}
      BY <1>1, <3>1 DEF Outside, Lldd
    <3>. QED
      BY <1>1, <2>1, <3>1, <3>2 DEF BlockOK
  <2>2. CASE cmd[g] # NoCmd
    <3>1. cmd[g] \in Cmd \ {cmd[f]}
      BY <1>1, <2>2 DEF Inv, TypeOK, OneOwner, FodsOwn
    <3>2. op'[cmd[g]] = op[cmd[g]]
      BY <3>1
    <3>. QED
      BY <1>1, <3>2 DEF Inv, BlocksOK, BlockOK
  <2>. QED
    BY <2>1, <2>2
<1>. QED
  BY <1>1 DEF BlocksOK

-----------------------------------------------------------------------------
(* The thread of a request block.                                          *)

\* A step of the thread that works on f, which keeps its command and touches
\* nothing but that, the block and what the driver was told.
Within(f) ==
    /\ at[f] \notin Outside /\ at'[f] \notin Outside
    /\ at' \in [Fod -> Places] /\ fod' \in [Fod -> Fields]
    /\ private' \in [Cmd -> Fod \union {NoFod}] /\ op' \in [Cmd -> Ops]
    /\ answers' \in [Cmd -> Nat] /\ aborts' \subseteq Cmd \union {NoCmd}
    /\ \A g \in Fod \ {f} : at'[g] = at[g] /\ fod'[g] = fod[g]
    /\ \A c \in Cmd \ {cmd[f]} : op'[c] = op[c]
    /\ UNCHANGED <<dir, stage, cmd, fod_list, queueVars, abts, del>>

\* The blocks with a field of one changed.
LEMMA FieldsType ==
    ASSUME NEW g \in [Fod -> Fields], NEW f \in Fod
    PROVE  /\ \A b \in BOOLEAN :
                /\ [g EXCEPT ![f].active = b] \in [Fod -> Fields]
                /\ [g EXCEPT ![f].abort = b] \in [Fod -> Fields]
                /\ [g EXCEPT ![f].aborted = b] \in [Fod -> Fields]
                /\ [g EXCEPT ![f].writedataactive = b] \in [Fod -> Fields]
                /\ [g EXCEPT ![f].data = b] \in [Fod -> Fields]
                /\ [g EXCEPT ![f].req = b] \in [Fod -> Fields]
           /\ \A c \in Cmd \union {NoCmd} : [g EXCEPT ![f].fcpreq = c] \in [Fod -> Fields]
           /\ \A n \in 0 .. Chunks : [g EXCEPT ![f].offset = n] \in [Fod -> Fields]
  BY DEF Fields

\* What the thread that works on f starts from.
LEMMA Knows ==
    ASSUME Inv, NEW f \in Fod
    PROVE  /\ fod \in [Fod -> Fields] /\ at \in [Fod -> Places]
           /\ private \in [Cmd -> Fod \union {NoFod}] /\ op \in [Cmd -> Ops]
           /\ answers \in [Cmd -> Nat] /\ aborts \subseteq Cmd \union {NoCmd}
           /\ BlockOK(f)
           /\ TRUE \in BOOLEAN /\ FALSE \in BOOLEAN /\ fod[f].active \in BOOLEAN
           /\ 0 \in 0 .. Chunks /\ fod[f].offset \in Nat
           /\ fod[f].offset < Chunks => fod[f].offset + 1 \in 0 .. Chunks
  BY DEF Inv, TypeOK, Fields, BlocksOK

\* Such a step keeps the invariant if the block is left right.
LEMMA WithinStep ==
    ASSUME Inv, NEW f \in Fod, Within(f), BlockOK(f)'
    PROVE  Inv'
<1>1. TypeOK'
  BY DEF Inv, TypeOK, Within, queueVars, refVars, deferVars
<1>2. UNCHANGED <<stage, cmd, dir, fod_list, pending, del>>
  BY DEF Within, queueVars, deferVars
<1>3. OneOwner' /\ DelOK'
  BY <1>2, GoOn DEF Within
<1>4. cmd[f] # NoCmd
  BY HasCmd DEF Within
<1>5. BlocksOK'
  BY <1>2, <1>4, OtherBlocks DEF Within
<1>. QED
  BY <1>1, <1>3, <1>5 DEF Inv

\* The command is bound to the block it was given.
LEMMA SubmitStep ==
    ASSUME Inv, NEW f \in Fod, Submit(f)
    PROVE  Inv'
<1>1. at[f] \notin Outside /\ cmd[f] \in Cmd /\ cmd[f] # NoCmd
  BY HasCmd DEF Submit, Outside
<1>3. fod' \in [Fod -> Fields]
  BY <1>1, Knows, FieldsType, ZenonT(60) DEF Submit, Bind
<1>4. at' \in [Fod -> Places] /\ at'[f] \notin Outside
  BY Knows DEF Places, Outside, Submit, Bind, Goto
<1>5. /\ private' \in [Cmd -> Fod \union {NoFod}] /\ op' \in [Cmd -> Ops]
      /\ answers' \in [Cmd -> Nat] /\ aborts' \subseteq Cmd \union {NoCmd}
  BY <1>1, Knows DEF Ops, Submit, Bind, cmdVars, lldd
<1>6. Within(f)
  BY <1>1, <1>3, <1>4, <1>5, Knows
     DEF Within, Inv, TypeOK, Submit, Bind, Goto, cmdVars, lldd, fodVars,
         queueVars
<1>7. BlockOK(f)'
  BY <1>1, <1>3, <1>4, Knows
     DEF Inv, TypeOK, Fields, BlockOK, Outside, Lldd, Submit, Bind, Goto, cmdVars,
         fodVars
<1>. QED
  BY <1>6, <1>7, WithinStep

\* It is taken up: aborted, answered, moved or executed.
LEMMA HandleStep ==
    ASSUME Inv, NEW f \in Fod, Handle(f)
    PROVE  Inv'
<1>1. at[f] \notin Outside /\ cmd[f] \in Cmd /\ cmd[f] # NoCmd
  BY HasCmd DEF Handle, Outside
<1>2. \/ fod' = fod
      \/ fod' = [fod EXCEPT ![f].data = FALSE]
      \/ fod' = [fod EXCEPT ![f].data = FALSE, ![f].req = TRUE]
      \/ fod' = [fod EXCEPT ![f].data = TRUE, ![f].req = TRUE, ![f].offset = 0]
      \/ fod' = [fod EXCEPT ![f].data = FALSE, ![f].req = TRUE, ![f].offset = 0]
  BY <1>1, Knows DEF BlockOK, Lldd, Handle
<1>3. fod' \in [Fod -> Fields]
  <2>1. CASE fod' = fod
    BY <2>1, Knows, FieldsType, Zenon
  <2>2. CASE fod' = [fod EXCEPT ![f].data = FALSE]
    BY <2>2, Knows, FieldsType, Zenon
  <2>3. CASE fod' = [fod EXCEPT ![f].data = FALSE, ![f].req = TRUE]
    BY <2>3, Knows, FieldsType, Zenon
  <2>4. CASE fod' = [fod EXCEPT ![f].data = TRUE, ![f].req = TRUE, ![f].offset = 0]
    BY <2>4, Knows, FieldsType, ZenonT(60)
  <2>5. CASE fod' = [fod EXCEPT ![f].data = FALSE, ![f].req = TRUE, ![f].offset = 0]
    BY <2>5, Knows, FieldsType, ZenonT(60)
  <2>. QED
    BY <1>2, <2>1, <2>2, <2>3, <2>4, <2>5
<1>4. at' \in [Fod -> Places] /\ at'[f] \notin Outside
  BY Knows DEF Places, Outside, Handle, Goto
<1>5. /\ private' \in [Cmd -> Fod \union {NoFod}] /\ op' \in [Cmd -> Ops]
      /\ answers' \in [Cmd -> Nat] /\ aborts' \subseteq Cmd \union {NoCmd}
  BY <1>1, Knows DEF Ops, Handle, cmdVars, lldd
<1>6. Within(f)
  BY <1>1, <1>3, <1>4, <1>5, Knows
     DEF Within, Inv, TypeOK, Handle, Goto, cmdVars, lldd, fodVars,
         queueVars
<1>7. BlockOK(f)'
  BY <1>1, <1>3, <1>4, Knows, SMTT(30)
     DEF Inv, TypeOK, Fields, BlockOK, Outside, Lldd, Handle, Goto, cmdVars,
         fodVars
<1>. QED
  BY <1>6, <1>7, WithinStep

\* The NVMe layer is done with it; a read moves its data next.
LEMMA CmdDoneStep ==
    ASSUME Inv, NEW f \in Fod, CmdDone(f)
    PROVE  Inv'
<1>1. at[f] \notin Outside /\ cmd[f] \in Cmd /\ cmd[f] # NoCmd
  BY HasCmd DEF CmdDone, Outside
<1>2. \/ fod' = [fod EXCEPT ![f].req = FALSE]
      \/ fod' = [fod EXCEPT ![f].data = FALSE, ![f].req = FALSE]
  BY <1>1, Knows DEF BlockOK, Lldd, CmdDone
<1>3. fod' \in [Fod -> Fields]
  <2>1. CASE fod' = [fod EXCEPT ![f].req = FALSE]
    BY <2>1, Knows, FieldsType, Zenon
  <2>2. CASE fod' = [fod EXCEPT ![f].data = FALSE, ![f].req = FALSE]
    BY <2>2, Knows, FieldsType, Zenon
  <2>. QED
    BY <1>2, <2>1, <2>2
<1>4. at' \in [Fod -> Places] /\ at'[f] \notin Outside
  BY Knows DEF Places, Outside, CmdDone, Goto
<1>5. /\ private' \in [Cmd -> Fod \union {NoFod}] /\ op' \in [Cmd -> Ops]
      /\ answers' \in [Cmd -> Nat] /\ aborts' \subseteq Cmd \union {NoCmd}
  BY <1>1, Knows DEF Ops, CmdDone, cmdVars, lldd
<1>6. Within(f)
  BY <1>1, <1>3, <1>4, <1>5, Knows
     DEF Within, Inv, TypeOK, CmdDone, Goto, cmdVars, lldd, fodVars,
         queueVars
<1>7. BlockOK(f)'
  <2>1. at'[f] \in {"abort", "transfer", "respond"}
    BY Knows DEF CmdDone, Goto
  <2>2. fod'[f].offset = fod[f].offset
    BY <1>2, Knows DEF Fields
  <2>3. at'[f] = "transfer" => fod[f].offset < Chunks
    BY Knows DEF CmdDone, Goto, BlockOK
  <2>. QED
    BY <1>1, <2>1, <2>2, <2>3 DEF BlockOK, Outside, Lldd, CmdDone, fodVars
<1>. QED
  BY <1>6, <1>7, WithinStep

\* A chunk goes to the driver, or is not taken.
LEMMA TransferStep ==
    ASSUME Inv, NEW f \in Fod, Transfer(f)
    PROVE  Inv'
<1>1. at[f] \notin Outside /\ cmd[f] \in Cmd /\ cmd[f] # NoCmd
  BY HasCmd DEF Transfer, Outside
<1>2. \/ fod' = fod
      \/ fod' = [fod EXCEPT ![f].abort = TRUE, ![f].writedataactive = FALSE]
      \/ fod' = [fod EXCEPT ![f].abort = TRUE]
  BY <1>1, Knows DEF BlockOK, Lldd, Transfer
<1>3. fod' \in [Fod -> Fields]
  <2>1. CASE fod' = fod
    BY <2>1, Knows, FieldsType, Zenon
  <2>2. CASE fod' = [fod EXCEPT ![f].abort = TRUE, ![f].writedataactive = FALSE]
    BY <2>2, Knows, FieldsType, Zenon
  <2>3. CASE fod' = [fod EXCEPT ![f].abort = TRUE]
    BY <2>3, Knows, FieldsType, Zenon
  <2>. QED
    BY <1>2, <2>1, <2>2, <2>3
<1>4. at' \in [Fod -> Places] /\ at'[f] \notin Outside
  BY Knows DEF Places, Outside, Transfer, TransferOp, LastChunk, Answered, Goto
<1>5. /\ private' \in [Cmd -> Fod \union {NoFod}] /\ op' \in [Cmd -> Ops]
      /\ answers' \in [Cmd -> Nat] /\ aborts' \subseteq Cmd \union {NoCmd}
  BY <1>1, Knows DEF Ops, Transfer, TransferOp, Answered, cmdVars, lldd
<1>6. Within(f)
  BY <1>1, <1>3, <1>4, <1>5, Knows
     DEF Within, Inv, TypeOK, Transfer, TransferOp, LastChunk, Answered, Goto, cmdVars, lldd,
         fodVars,
         queueVars
<1>7. BlockOK(f)'
  BY <1>1, <1>3, <1>4, Knows, SMTT(30)
     DEF Inv, TypeOK, Fields, BlockOK, Outside, Lldd, Transfer, TransferOp, LastChunk,
         Answered, Goto, cmdVars,
         fodVars
<1>. QED
  BY <1>6, <1>7, WithinStep

\* The driver reports an operation.
LEMMA LlddDoneStep ==
    ASSUME Inv, NEW f \in Fod, LlddDone(f)
    PROVE  Inv'
<1>1. at[f] \notin Outside /\ cmd[f] \in Cmd /\ cmd[f] # NoCmd
  BY HasCmd DEF LlddDone, Outside
<1>3. fod' \in [Fod -> Fields]
  BY <1>1, Knows, FieldsType, Zenon DEF LlddDone
<1>4. at' \in [Fod -> Places] /\ at'[f] \notin Outside
  BY Knows DEF Places, Outside, LlddDone, Goto
<1>5. /\ private' \in [Cmd -> Fod \union {NoFod}] /\ op' \in [Cmd -> Ops]
      /\ answers' \in [Cmd -> Nat] /\ aborts' \subseteq Cmd \union {NoCmd}
  BY <1>1, Knows DEF Ops, LlddDone, cmdVars, lldd
<1>6. Within(f)
  BY <1>1, <1>3, <1>4, <1>5, Knows
     DEF Within, Inv, TypeOK, LlddDone, Goto, cmdVars, lldd, fodVars,
         queueVars
<1>7. BlockOK(f)'
  BY <1>1, <1>3, <1>4, Knows
     DEF Inv, TypeOK, Fields, BlockOK, Outside, Lldd, LlddDone, Goto, cmdVars,
         fodVars
<1>. QED
  BY <1>6, <1>7, WithinStep

\* A chunk of a write is there: the offset stays within the data.
LEMMA WriteDoneStep ==
    ASSUME Inv, NEW f \in Fod, WriteDone(f)
    PROVE  Inv'
<1>1. at[f] \notin Outside /\ cmd[f] \in Cmd /\ cmd[f] # NoCmd
  BY HasCmd DEF WriteDone, Outside
<1>2. \/ fod' = [fod EXCEPT ![f].writedataactive = FALSE, ![f].abort = TRUE]
      \/ /\ fod[f].offset < Chunks
         /\ fod' = [fod EXCEPT ![f].writedataactive = FALSE,
                               ![f].offset = fod[f].offset + 1]
  BY <1>1, Knows DEF BlockOK, Lldd, WriteDone, AllMoved
<1>3. fod' \in [Fod -> Fields]
  <2>1. CASE fod' = [fod EXCEPT ![f].writedataactive = FALSE, ![f].abort = TRUE]
    BY <2>1, Knows, FieldsType, Zenon
  <2>2. CASE /\ fod[f].offset < Chunks
             /\ fod' = [fod EXCEPT ![f].writedataactive = FALSE,
                                   ![f].offset = fod[f].offset + 1]
    BY <2>2, Knows, FieldsType, ZenonT(60)
  <2>. QED
    BY <1>2, <2>1, <2>2
<1>4. at' \in [Fod -> Places] /\ at'[f] \notin Outside
  BY Knows DEF Places, Outside, WriteDone, AllMoved, Goto
<1>5. /\ private' \in [Cmd -> Fod \union {NoFod}] /\ op' \in [Cmd -> Ops]
      /\ answers' \in [Cmd -> Nat] /\ aborts' \subseteq Cmd \union {NoCmd}
  BY <1>1, Knows DEF Ops, WriteDone, cmdVars, lldd
<1>6. Within(f)
  BY <1>1, <1>3, <1>4, <1>5, Knows
     DEF Within, Inv, TypeOK, WriteDone, AllMoved, Goto, cmdVars, lldd, fodVars,
         queueVars
<1>7. BlockOK(f)'
  BY <1>1, <1>3, <1>4, Knows, SMTT(30)
     DEF Inv, TypeOK, Fields, BlockOK, Outside, Lldd, WriteDone, AllMoved, Goto, cmdVars,
         fodVars
<1>. QED
  BY <1>6, <1>7, WithinStep

\* The next chunk of a write is announced.
LEMMA NextChunkStep ==
    ASSUME Inv, NEW f \in Fod, NextChunk(f)
    PROVE  Inv'
<1>1. at[f] \notin Outside /\ cmd[f] \in Cmd /\ cmd[f] # NoCmd
  BY HasCmd DEF NextChunk, Outside
<1>3. fod' \in [Fod -> Fields]
  BY <1>1, Knows, FieldsType, Zenon DEF NextChunk
<1>4. at' \in [Fod -> Places] /\ at'[f] \notin Outside
  BY Knows DEF Places, Outside, NextChunk, Goto
<1>5. /\ private' \in [Cmd -> Fod \union {NoFod}] /\ op' \in [Cmd -> Ops]
      /\ answers' \in [Cmd -> Nat] /\ aborts' \subseteq Cmd \union {NoCmd}
  BY <1>1, Knows DEF Ops, NextChunk, cmdVars, lldd
<1>6. Within(f)
  BY <1>1, <1>3, <1>4, <1>5, Knows
     DEF Within, Inv, TypeOK, NextChunk, Goto, cmdVars, lldd, fodVars,
         queueVars
<1>7. BlockOK(f)'
  BY <1>1, <1>3, <1>4, Knows
     DEF Inv, TypeOK, Fields, BlockOK, Outside, Lldd, NextChunk, Goto, cmdVars,
         fodVars
<1>. QED
  BY <1>6, <1>7, WithinStep

\* A chunk of a read is sent: the offset stays within the data.
LEMMA ReadDoneStep ==
    ASSUME Inv, NEW f \in Fod, ReadDone(f)
    PROVE  Inv'
<1>1. at[f] \notin Outside /\ cmd[f] \in Cmd /\ cmd[f] # NoCmd
  BY HasCmd DEF ReadDone, Outside
<1>2. \/ fod' = [fod EXCEPT ![f].writedataactive = FALSE]
      \/ fod' = [fod EXCEPT ![f].writedataactive = FALSE, ![f].data = FALSE]
      \/ /\ fod[f].offset < Chunks
         /\ fod' = [fod EXCEPT ![f].writedataactive = FALSE,
                               ![f].offset = fod[f].offset + 1, ![f].data = TRUE]
      \/ /\ fod[f].offset < Chunks
         /\ fod' = [fod EXCEPT ![f].writedataactive = FALSE,
                               ![f].offset = fod[f].offset + 1, ![f].data = FALSE]
  BY <1>1, Knows DEF BlockOK, Lldd, ReadDone, AllMoved
<1>3. fod' \in [Fod -> Fields]
  <2>1. CASE fod' = [fod EXCEPT ![f].writedataactive = FALSE]
    BY <2>1, Knows, FieldsType, Zenon
  <2>2. CASE fod' = [fod EXCEPT ![f].writedataactive = FALSE, ![f].data = FALSE]
    BY <2>2, Knows, FieldsType, Zenon
  <2>3. CASE /\ fod[f].offset < Chunks
             /\ fod' = [fod EXCEPT ![f].writedataactive = FALSE,
                                   ![f].offset = fod[f].offset + 1, ![f].data = TRUE]
    BY <2>3, Knows, FieldsType, ZenonT(60)
  <2>4. CASE /\ fod[f].offset < Chunks
             /\ fod' = [fod EXCEPT ![f].writedataactive = FALSE,
                                   ![f].offset = fod[f].offset + 1, ![f].data = FALSE]
    BY <2>4, Knows, FieldsType, ZenonT(60)
  <2>. QED
    BY <1>2, <2>1, <2>2, <2>3, <2>4
<1>4. at' \in [Fod -> Places] /\ at'[f] \notin Outside
  BY Knows DEF Places, Outside, ReadDone, AllMoved, CarriedResponse, Goto
<1>5. /\ private' \in [Cmd -> Fod \union {NoFod}] /\ op' \in [Cmd -> Ops]
      /\ answers' \in [Cmd -> Nat] /\ aborts' \subseteq Cmd \union {NoCmd}
  BY <1>1, Knows DEF Ops, ReadDone, cmdVars, lldd
<1>6. Within(f)
  BY <1>1, <1>3, <1>4, <1>5, Knows
     DEF Within, Inv, TypeOK, ReadDone, AllMoved, CarriedResponse, Goto, cmdVars, lldd, fodVars,
         queueVars
<1>7. BlockOK(f)'
  BY <1>1, <1>3, <1>4, Knows, SMTT(30)
     DEF Inv, TypeOK, Fields, BlockOK, Outside, Lldd, ReadDone, AllMoved, CarriedResponse,
         Goto, cmdVars,
         fodVars
<1>. QED
  BY <1>6, <1>7, WithinStep

\* The response is sent.
LEMMA RspDoneStep ==
    ASSUME Inv, NEW f \in Fod, RspDone(f)
    PROVE  Inv'
<1>1. at[f] \notin Outside /\ cmd[f] \in Cmd /\ cmd[f] # NoCmd
  BY HasCmd DEF RspDone, Outside
<1>3. fod' \in [Fod -> Fields]
  BY <1>1, Knows, FieldsType, Zenon DEF RspDone
<1>4. at' \in [Fod -> Places] /\ at'[f] \notin Outside
  BY Knows DEF Places, Outside, RspDone, Goto
<1>5. /\ private' \in [Cmd -> Fod \union {NoFod}] /\ op' \in [Cmd -> Ops]
      /\ answers' \in [Cmd -> Nat] /\ aborts' \subseteq Cmd \union {NoCmd}
  BY <1>1, Knows DEF Ops, RspDone, cmdVars, lldd
<1>6. Within(f)
  BY <1>1, <1>3, <1>4, <1>5, Knows
     DEF Within, Inv, TypeOK, RspDone, Goto, cmdVars, lldd, fodVars,
         queueVars
<1>7. BlockOK(f)'
  BY <1>1, <1>3, <1>4, Knows
     DEF Inv, TypeOK, Fields, BlockOK, Outside, Lldd, RspDone, Goto, cmdVars,
         fodVars
<1>. QED
  BY <1>6, <1>7, WithinStep

\* The response goes to the driver, or is not taken.
LEMMA XmtRspStep ==
    ASSUME Inv, NEW f \in Fod, XmtRsp(f)
    PROVE  Inv'
<1>1. at[f] \notin Outside /\ cmd[f] \in Cmd /\ cmd[f] # NoCmd
  BY HasCmd DEF XmtRsp, Outside
<1>3. fod' \in [Fod -> Fields]
  BY <1>1, Knows, FieldsType, Zenon DEF XmtRsp
<1>4. at' \in [Fod -> Places] /\ at'[f] \notin Outside
  BY Knows DEF Places, Outside, XmtRsp, Answered, Goto
<1>5. /\ private' \in [Cmd -> Fod \union {NoFod}] /\ op' \in [Cmd -> Ops]
      /\ answers' \in [Cmd -> Nat] /\ aborts' \subseteq Cmd \union {NoCmd}
  BY <1>1, Knows DEF Ops, XmtRsp, Answered, cmdVars, lldd
<1>6. Within(f)
  BY <1>1, <1>3, <1>4, <1>5, Knows
     DEF Within, Inv, TypeOK, XmtRsp, Answered, Goto, cmdVars, lldd, fodVars,
         queueVars
<1>7. BlockOK(f)'
  BY <1>1, <1>3, <1>4, Knows
     DEF Inv, TypeOK, Fields, BlockOK, Outside, Lldd, XmtRsp, Answered, Goto, cmdVars,
         fodVars
<1>. QED
  BY <1>6, <1>7, WithinStep

\* The driver may be told to abort the command.
LEMMA AbortOpStep ==
    ASSUME Inv, NEW f \in Fod, AbortOp(f)
    PROVE  Inv'
<1>1. at[f] \notin Outside /\ cmd[f] \in Cmd /\ cmd[f] # NoCmd
  BY HasCmd DEF AbortOp, Outside
<1>3. fod' \in [Fod -> Fields]
  BY <1>1, Knows, FieldsType, Zenon DEF AbortOp
<1>4. at' \in [Fod -> Places] /\ at'[f] \notin Outside
  BY Knows DEF Places, Outside, AbortOp, Told, Goto
<1>5. /\ private' \in [Cmd -> Fod \union {NoFod}] /\ op' \in [Cmd -> Ops]
      /\ answers' \in [Cmd -> Nat] /\ aborts' \subseteq Cmd \union {NoCmd}
  BY <1>1, Knows DEF Ops, AbortOp, Told, cmdVars, lldd
<1>6. Within(f)
  BY <1>1, <1>3, <1>4, <1>5, Knows
     DEF Within, Inv, TypeOK, AbortOp, Told, Goto, cmdVars, lldd, fodVars,
         queueVars
<1>7. BlockOK(f)'
  BY <1>1, <1>3, <1>4, Knows
     DEF Inv, TypeOK, Fields, BlockOK, Outside, Lldd, AbortOp, Told, Goto, cmdVars,
         fodVars
<1>. QED
  BY <1>6, <1>7, WithinStep

\* A command that waited is bound to the block.
LEMMA ReuseStep ==
    ASSUME Inv, NEW f \in Fod, Reuse(f)
    PROVE  Inv'
<1>1. at[f] \notin Outside /\ cmd[f] \in Cmd /\ cmd[f] # NoCmd
  BY HasCmd DEF Reuse, Outside
<1>3. fod' \in [Fod -> Fields]
  BY <1>1, Knows, FieldsType, ZenonT(60) DEF Reuse, Bind
<1>4. at' \in [Fod -> Places] /\ at'[f] \notin Outside
  BY Knows DEF Places, Outside, Reuse, Bind, Goto
<1>5. /\ private' \in [Cmd -> Fod \union {NoFod}] /\ op' \in [Cmd -> Ops]
      /\ answers' \in [Cmd -> Nat] /\ aborts' \subseteq Cmd \union {NoCmd}
  BY <1>1, Knows DEF Ops, Reuse, Bind, cmdVars, lldd
<1>6. Within(f)
  BY <1>1, <1>3, <1>4, <1>5, Knows
     DEF Within, Inv, TypeOK, Reuse, Bind, Goto, cmdVars, lldd, fodVars,
         queueVars
<1>7. BlockOK(f)'
  BY <1>1, <1>3, <1>4, Knows
     DEF Inv, TypeOK, Fields, BlockOK, Outside, Lldd, Reuse, Bind, Goto, cmdVars,
         fodVars
<1>. QED
  BY <1>6, <1>7, WithinStep

-----------------------------------------------------------------------------
(* Steps that leave every command where it is.                             *)

DelRec == [pc : DelPc, todo : SUBSET Fod, fod : Fod \union {NoFod},
           disconnect : BOOLEAN, cmd : Cmd \union {NoCmd},
           doomed : Cmd \union {NoCmd}, fcpreq : Cmd \union {NoCmd}]

\* The deletions with a field of one changed.
LEMMA DelType ==
    ASSUME NEW g \in [Deleter -> DelRec], NEW d \in Deleter
    PROVE  /\ \A p \in DelPc : [g EXCEPT ![d].pc = p] \in [Deleter -> DelRec]
           /\ \A t \in SUBSET Fod : [g EXCEPT ![d].todo = t] \in [Deleter -> DelRec]
           /\ \A f \in Fod \union {NoFod} : [g EXCEPT ![d].fod = f] \in [Deleter -> DelRec]
           /\ \A b \in BOOLEAN : [g EXCEPT ![d].disconnect = b] \in [Deleter -> DelRec]
           /\ \A c \in Cmd \union {NoCmd} :
                /\ [g EXCEPT ![d].cmd = c] \in [Deleter -> DelRec]
                /\ [g EXCEPT ![d].doomed = c] \in [Deleter -> DelRec]
                /\ [g EXCEPT ![d].fcpreq = c] \in [Deleter -> DelRec]
  BY DEF DelRec

\* What a thread that deletes the queue starts from.
LEMMA DelKnows ==
    ASSUME Inv, NEW d \in Deleter
    PROVE  /\ del \in [Deleter -> DelRec]
           /\ del[d].todo \in SUBSET Fod /\ del[d].cmd \in Cmd \union {NoCmd}
           /\ del[d].pc = "drop" <=> del[d].cmd # NoCmd
           /\ del[d].pc \in {"mark", "waiting", "call", "fcp_abort"} => del[d].fod \in Fod
  BY DEF Inv, TypeOK, DelRec, DelOK

\* A reference is taken or dropped.
LEMMA RefType ==
    ASSUME Inv, QGet \/ QPut \/ UNCHANGED refVars
    PROVE  ref' \in Nat /\ freed' \in BOOLEAN
<1>1. ref \in Nat /\ freed \in BOOLEAN
  BY DEF Inv, TypeOK
<1>2. ref' \in Nat
  BY <1>1 DEF QGet, QPut, refVars
<1>3. freed' \in BOOLEAN
  BY <1>1, Zenon DEF QGet, QPut, refVars
<1>. QED
  BY <1>2, <1>3

\* A step aside: of a command, only whether the driver was told to abort it
\* changes, of a block only its flags.
Aside ==
    /\ UNCHANGED <<cmdVars, answers, at, cmd, fod_list, pending, deferred>>
    /\ fod' \in [Fod -> Fields] /\ aborts' \subseteq Cmd \union {NoCmd}
    /\ \A f \in Fod : fod'[f].offset = fod[f].offset /\ fod'[f].data = fod[f].data
    /\ connected' \in BOOLEAN /\ sq' \in BOOLEAN /\ avail' \in Nat
    /\ ref' \in Nat /\ freed' \in BOOLEAN
    /\ qlock' \in Deleter \union Cmd \union {Nobody}
    /\ abts' \in [Cmd -> [pc : AbtsPc, fod : Fod \union {NoFod}]]

\* Such a step keeps the invariant if the deletions are left right.
LEMMA AsideStep ==
    ASSUME Inv, Aside, del' \in [Deleter -> DelRec], DelOK',
           \A d \in Deleter : del'[d].cmd = del[d].cmd
    PROVE  Inv'
<1>1. TypeOK'
  BY DEF Inv, TypeOK, Aside, DelRec, cmdVars
<1>2. OneOwner'
  BY DelGoesOn DEF Aside, cmdVars
<1>3. BlocksOK'
  BY OnlyFlags DEF Aside, cmdVars
<1>. QED
  BY <1>1, <1>2, <1>3 DEF Inv

\* ... of a thread that reports an ABTS ...
LEMMA AbtsStep ==
    ASSUME Inv, NEW c \in Cmd, AbtsLook(c) \/ AbtsLock(c) \/ AbtsMark(c)
    PROVE  Inv'
<1>. DEFINE AbtsRec == [pc : AbtsPc, fod : Fod \union {NoFod}]
<1>1. abts \in [Cmd -> AbtsRec]
  BY DEF Inv, TypeOK
<1>2. UNCHANGED <<cmdVars, answers, at, cmd, fod_list, pending, deferred, aborts, connected,
                  sq, avail, ref, freed, del>>
  BY DEF AbtsLook, AbtsLock, AbtsMark, cmdVars, lldd, fodVars, queueVars, refVars, deferVars
<1>3. qlock' \in Deleter \union Cmd \union {Nobody}
  BY DEF Inv, TypeOK, AbtsLook, AbtsLock, AbtsMark, Unlocked, queueVars
<1>4. abts' \in [Cmd -> AbtsRec]
  <2>1. CASE AbtsLook(c)
    <3>1. private[c] \in Fod \union {NoFod}
      BY DEF Inv, TypeOK
    <3>2. \E p \in AbtsPc, f \in Fod \union {NoFod} :
            abts' = [abts EXCEPT ![c] = [pc |-> p, fod |-> f]]
      BY <2>1, <3>1 DEF AbtsLook, AbtsGoto, AbtsPc
    <3>. QED
      BY <1>1, <3>2
  <2>2. CASE AbtsLock(c)
    BY <1>1, <2>2 DEF AbtsLock, AbtsGoto, AbtsPc
  <2>3. CASE AbtsMark(c)
    BY <1>1, <2>3 DEF AbtsMark, AbtsGoto, AbtsPc
  <2>. QED
    BY <2>1, <2>2, <2>3
<1>5. /\ fod' \in [Fod -> Fields]
      /\ \A f \in Fod : fod'[f].offset = fod[f].offset /\ fod'[f].data = fod[f].data
  <2>1. CASE UNCHANGED fod
    BY <2>1 DEF Inv, TypeOK
  <2>2. CASE AbtsMark(c)
    <3>. DEFINE f == abts[c].fod
    <3>1. fod \in [Fod -> Fields] /\ TRUE \in BOOLEAN
      BY DEF Inv, TypeOK
    <3>2. fod' = [fod EXCEPT ![f].abort = TRUE, ![f].aborted = TRUE]
      BY <2>2, SMTT(30) DEF AbtsMark
    <3>3. CASE f \in Fod
      <4>1. fod' \in [Fod -> Fields]
        BY <3>1, <3>2, <3>3, FieldsType, Zenon
      <4>. QED
        BY <3>1, <3>2, <3>3, <4>1 DEF Fields
    <3>4. CASE f \notin Fod
      BY <3>1, <3>2, <3>4
    <3>. QED
      BY <3>3, <3>4
  <2>. QED
    BY <2>1, <2>2 DEF AbtsLook, AbtsLock, fodVars
<1>6. Aside
  BY <1>2, <1>3, <1>4, <1>5 DEF Aside, Inv, TypeOK
<1>7. DelOK' /\ del' \in [Deleter -> DelRec] /\ \A d \in Deleter : del'[d].cmd = del[d].cmd
  BY <1>2 DEF Inv, TypeOK, DelOK, DelRec
<1>. QED
  BY <1>6, <1>7, AsideStep

\* ... and of one that deletes the queue.
LEMMA DelStep ==
    ASSUME Inv, NEW d \in Deleter, Aside, del' \in [Deleter -> DelRec],
           \A e \in Deleter \ {d} : del'[e] = del[e], del'[d].cmd = del[d].cmd,
           del[d].pc # "drop", del'[d].pc # "drop",
           del'[d].pc \in {"mark", "waiting", "call", "fcp_abort"} => del'[d].fod \in Fod
    PROVE  Inv'
<1>1. DelOK'
  BY DelKnows DEF Inv, DelOK
<1>. QED
  BY <1>1, AsideStep

\* A deletion that only goes on, with the block it has.
LEMMA DelGotoStep ==
    ASSUME Inv, NEW d \in Deleter, NEW pc \in DelPc, Aside, DelGoto(d, pc),
           del[d].pc # "drop", pc \notin {"drop", "mark", "fcp_abort"},
           pc \in {"waiting", "call"} => del[d].fod \in Fod
    PROVE  Inv'
<1>1. del' = [del EXCEPT ![d].pc = pc] /\ del \in [Deleter -> DelRec]
  BY DelKnows DEF DelGoto
<1>2. del' \in [Deleter -> DelRec]
  BY <1>1, DelType, Zenon
<1>3. /\ \A e \in Deleter \ {d} : del'[e] = del[e]
      /\ del'[d].cmd = del[d].cmd /\ del'[d].fod = del[d].fod /\ del'[d].pc = pc
  BY <1>1 DEF DelRec
<1>. QED
  BY <1>2, <1>3, DelStep

\* The caller takes a reference.
LEMMA DelGetStep ==
    ASSUME Inv, NEW d \in Deleter, DelGet(d)
    PROVE  Inv'
<1>1. ref' \in Nat /\ freed' \in BOOLEAN
  BY RefType DEF DelGet, refVars
<1>2. Aside
  BY <1>1 DEF Aside, Inv, TypeOK, DelGet, cmdVars, lldd, fodVars, queueVars, deferVars
<1>3. DelGoto(d, "begin") /\ "begin" \in DelPc /\ del[d].pc # "drop"
  BY DEF DelGet, DelPc
<1>. QED
  BY <1>2, <1>3, DelGotoStep

\* The spare list elements go.
LEMMA DelAvailStep ==
    ASSUME Inv, NEW d \in Deleter, DelAvail(d)
    PROVE  Inv'
<1>1. ref' \in Nat /\ freed' \in BOOLEAN
  BY RefType DEF DelAvail, refVars
<1>2. Aside
  BY <1>1 DEF Aside, Inv, TypeOK, DelAvail, cmdVars, lldd, fodVars, queueVars, deferVars
<1>3. DelGoto(d, "drain") /\ "drain" \in DelPc /\ del[d].pc # "drop"
  BY DEF DelAvail, DelPc
<1>. QED
  BY <1>2, <1>3, DelGotoStep

\* The submission queue goes.
LEMMA DelDestroyStep ==
    ASSUME Inv, NEW d \in Deleter, DelDestroy(d)
    PROVE  Inv'
<1>1. ref' \in Nat /\ freed' \in BOOLEAN
  BY RefType DEF DelDestroy, refVars
<1>2. Aside
  BY <1>1 DEF Aside, Inv, TypeOK, DelDestroy, cmdVars, lldd, fodVars, queueVars, deferVars
<1>3. DelGoto(d, "put") /\ "put" \in DelPc /\ del[d].pc # "drop"
  BY DEF DelDestroy, DelPc
<1>. QED
  BY <1>2, <1>3, DelGotoStep

\* References are dropped.
LEMMA DelPutStep ==
    ASSUME Inv, NEW d \in Deleter, DelPut(d)
    PROVE  Inv'
<1>1. ref' \in Nat /\ freed' \in BOOLEAN
  BY RefType DEF DelPut
<1>2. Aside
  BY <1>1 DEF Aside, Inv, TypeOK, DelPut, cmdVars, lldd, fodVars, queueVars, deferVars
<1>3. PICK pc \in {"return", "over"} : DelGoto(d, pc)
  BY DEF DelPut
<1>4. pc \in DelPc /\ del[d].pc # "drop"
  BY DEF DelPut, DelPc
<1>. QED
  BY <1>2, <1>3, <1>4, DelGotoStep

\* The pointer of the block is loaded, and the driver told to abort what it names.
LEMMA DelCallStep ==
    ASSUME Inv, NEW d \in Deleter, DelLoad(d) \/ DelCall(d)
    PROVE  Inv'
<1>1. PICK pc \in {"fcp_abort", "scan"}, c \in Cmd \union {NoCmd}, b \in Cmd \union {NoCmd} :
        del' = [del EXCEPT ![d].pc = pc, ![d].doomed = b, ![d].fcpreq = c]
  <2>1. CASE DelLoad(d)
    <3>1. fod[del[d].fod].fcpreq \in Cmd \union {NoCmd}
      BY <2>1, DelKnows DEF DelLoad, Inv, TypeOK, Fields
    <3>2. del' = [del EXCEPT ![d].pc = "fcp_abort", ![d].doomed = del[d].doomed,
                             ![d].fcpreq = fod[del[d].fod].fcpreq]
      BY <2>1, DelKnows DEF DelLoad, DelRec
    <3>3. del[d].doomed \in Cmd \union {NoCmd}
      BY DelKnows DEF DelRec
    <3>. QED
      BY <3>1, <3>2, <3>3
  <2>2. CASE DelCall(d)
    BY <2>2 DEF DelCall
  <2>. QED
    BY <2>1, <2>2
<1>2. del \in [Deleter -> DelRec] /\ pc \in DelPc
  BY DelKnows DEF DelPc
<1>3. del' \in [Deleter -> DelRec]
  BY <1>1, <1>2, DelType, ZenonT(60)
<1>4. /\ \A e \in Deleter \ {d} : del'[e] = del[e]
      /\ del'[d].cmd = del[d].cmd /\ del'[d].fod = del[d].fod /\ del'[d].pc = pc
  BY <1>1, <1>2 DEF DelRec
<1>5. del[d].pc \in {"call", "fcp_abort"} /\ del[d].fod \in Fod
  BY DelKnows DEF DelLoad, DelCall
<1>6. aborts' \subseteq Cmd \union {NoCmd}
  BY DelKnows DEF Inv, TypeOK, DelRec, DelLoad, DelCall, lldd
<1>7. Aside
  BY <1>6 DEF Aside, Inv, TypeOK, DelLoad, DelCall, cmdVars, lldd, fodVars, queueVars, refVars,
              deferVars
<1>. QED
  BY <1>3, <1>4, <1>5, <1>7, DelStep

\* The deletion marks the block it stopped at.
LEMMA DelMarkStep ==
    ASSUME Inv, NEW d \in Deleter, DelMark(d) \/ DelAborted(d)
    PROVE  Inv'
<1>1. del[d].fod \in Fod /\ del[d].pc # "drop"
  BY DelKnows DEF DelMark, DelAborted
<1>2. fod \in [Fod -> Fields] /\ TRUE \in BOOLEAN
  BY DEF Inv, TypeOK
<1>3. \/ fod' = [fod EXCEPT ![del[d].fod].abort = TRUE]
      \/ fod' = [fod EXCEPT ![del[d].fod].aborted = TRUE]
  BY DEF DelMark, DelAborted
<1>4. fod' \in [Fod -> Fields]
  <2>1. CASE fod' = [fod EXCEPT ![del[d].fod].abort = TRUE]
    BY <1>1, <1>2, <2>1, FieldsType, Zenon
  <2>2. CASE fod' = [fod EXCEPT ![del[d].fod].aborted = TRUE]
    BY <1>1, <1>2, <2>2, FieldsType, Zenon
  <2>. QED
    BY <1>3, <2>1, <2>2
<1>5. \A f \in Fod : fod'[f].offset = fod[f].offset /\ fod'[f].data = fod[f].data
  BY <1>1, <1>2, <1>3 DEF Fields
<1>6. Aside
  BY <1>4, <1>5 DEF Aside, Inv, TypeOK, DelMark, DelAborted, cmdVars, lldd, queueVars, refVars,
                    deferVars
<1>7. CASE \E pc \in {"scan", "call"} : DelGoto(d, pc)
  BY <1>1, <1>6, <1>7, DelGotoStep DEF DelPc
<1>8. CASE del' = [del EXCEPT ![d].pc = "waiting", ![d].doomed = cmd[del[d].fod]]
  <2>1. /\ del \in [Deleter -> DelRec] /\ "waiting" \in DelPc
        /\ cmd[del[d].fod] \in Cmd \union {NoCmd}
    BY <1>1, DelKnows DEF DelPc, Inv, TypeOK
  <2>2. del' \in [Deleter -> DelRec]
    BY <1>8, <2>1, DelType, Zenon
  <2>3. /\ \A e \in Deleter \ {d} : del'[e] = del[e]
        /\ del'[d].cmd = del[d].cmd /\ del'[d].fod = del[d].fod /\ del'[d].pc = "waiting"
    BY <1>8, <2>1 DEF DelRec
  <2>. QED
    BY <1>1, <1>6, <2>2, <2>3, DelStep
<1>. QED
  BY <1>7, <1>8 DEF DelMark, DelAborted

\* The queue is disconnected.
LEMMA DelDisconnectStep ==
    ASSUME Inv, NEW d \in Deleter, DelDisconnect(d)
    PROVE  Inv'
<1>1. /\ del \in [Deleter -> DelRec] /\ connected \in BOOLEAN /\ "lock" \in DelPc
      /\ del' = [del EXCEPT ![d].pc = "lock", ![d].disconnect = connected]
  BY DelKnows DEF DelDisconnect, DelPc, Inv, TypeOK
<1>2. del' \in [Deleter -> DelRec]
  BY <1>1, DelType, Zenon
<1>3. /\ \A e \in Deleter \ {d} : del'[e] = del[e]
      /\ del'[d].cmd = del[d].cmd /\ del'[d].pc = "lock"
  BY <1>1 DEF DelRec
<1>4. Aside
  BY DEF Aside, Inv, TypeOK, DelDisconnect, cmdVars, lldd, fodVars, refVars, deferVars
<1>5. del[d].pc # "drop"
  BY DEF DelDisconnect
<1>. QED
  BY <1>2, <1>3, <1>4, <1>5, DelStep

\* The scan of the blocks begins ...
LEMMA DelLockStep ==
    ASSUME Inv, NEW d \in Deleter, DelLock(d)
    PROVE  Inv'
<1>1. /\ del \in [Deleter -> DelRec] /\ Fod \in SUBSET Fod /\ "scan" \in DelPc
      /\ del' = [del EXCEPT ![d].pc = "scan", ![d].todo = Fod]
  BY DelKnows DEF DelLock, DelPc
<1>2. del' \in [Deleter -> DelRec]
  BY <1>1, DelType, Zenon
<1>3. /\ \A e \in Deleter \ {d} : del'[e] = del[e]
      /\ del'[d].cmd = del[d].cmd /\ del'[d].pc = "scan"
  BY <1>1 DEF DelRec
<1>4. Aside
  BY DEF Aside, Inv, TypeOK, DelLock, cmdVars, lldd, fodVars, refVars, deferVars
<1>5. del[d].pc # "drop"
  BY DEF DelLock
<1>. QED
  BY <1>2, <1>3, <1>4, <1>5, DelStep

\* ... and comes to the next block.
LEMMA DelScanStep ==
    ASSUME Inv, NEW d \in Deleter, NEW f \in Fod, DelScan(d, f)
    PROVE  Inv'
<1>1. PICK p \in {"mark", "scan"}, g \in Fod \union {NoFod} :
        /\ p = "mark" => g \in Fod
        /\ del' = [del EXCEPT ![d].todo = del[d].todo \ {f}, ![d].pc = p, ![d].fod = g]
  BY DEF DelScan
<1>2. del \in [Deleter -> DelRec] /\ p \in DelPc /\ del[d].todo \ {f} \in SUBSET Fod
  BY DelKnows DEF DelPc
<1>3. del' \in [Deleter -> DelRec]
  BY <1>1, <1>2, DelType, ZenonT(60)
<1>4. /\ \A e \in Deleter \ {d} : del'[e] = del[e]
      /\ del'[d].cmd = del[d].cmd /\ del'[d].pc = p /\ del'[d].fod = g
  BY <1>1, <1>2 DEF DelRec
<1>5. Aside
  BY DEF Aside, Inv, TypeOK, DelScan, cmdVars, lldd, fodVars, queueVars, refVars, deferVars
<1>6. del[d].pc # "drop"
  BY DEF DelScan
<1>. QED
  BY <1>1, <1>3, <1>4, <1>5, <1>6, DelStep

-----------------------------------------------------------------------------
(* Steps that give a command, or a block, to another owner.                *)

\* Before it is taken, and once it is refused, a command has no owner.
LEMMA StageStep ==
    ASSUME Inv, NEW c \in Cmd, stage[c] \in {"new", "found", "kmalloc"},
           NEW s \in {"found", "kmalloc", "refused"}, Stage(c, s),
           UNCHANGED <<dir, private, op, lldd, fodVars, connected, sq, qlock, deferVars,
                       abts, del>>,
           ref' \in Nat, freed' \in BOOLEAN
    PROVE  Inv'
<1>1. stage \in [Cmd -> Stages] /\ stage' \in [Cmd -> Stages]
  BY DEF Inv, TypeOK, Stage, Stages
<1>2. TypeOK'
  BY <1>1 DEF Inv, TypeOK, lldd, fodVars, deferVars
<1>3. UNCHANGED <<at, cmd, fod, fod_list, op, dir, pending, del>>
  BY DEF fodVars, deferVars
<1>4. Busy' = Busy /\ Waiting' = Waiting
  BY <1>3 DEF Busy, Waiting
<1>5. stage'[c] = s /\ \A b \in Cmd \ {c} : stage'[b] = stage[b]
  BY <1>1 DEF Stage
<1>7. \A b \in Cmd : stage[b] \in {"running", "closing"} <=> stage'[b] \in {"running", "closing"}
  BY <1>5
<1>8. \A b \in Cmd : stage[b] = "pending" <=> stage'[b] = "pending"
  BY <1>5
<1>9. OneOwner'
  <2>1. /\ cmd \in [Fod -> Cmd \union {NoCmd}] /\ pending \in Seq(Cmd)
        /\ \A d \in Deleter : del[d].cmd \in Cmd \union {NoCmd}
    BY DEF Inv, TypeOK
  <2>2. FodsOwn' /\ ListOwns' /\ DropOwns' /\ NoneLost'
    BY <1>3, <1>4, <1>7, <1>8, <2>1 DEF Inv, OneOwner, FodsOwn, ListOwns, DropOwns, NoneLost
  <2>. QED
    BY <1>3, <1>4, <2>2 DEF Inv, OneOwner
<1>10. BlocksOK' /\ DelOK'
  BY <1>3, OnlyFlags DEF Inv, DelOK
<1>. QED
  BY <1>2, <1>9, <1>10 DEF Inv

\* It comes to the end of the list of those that wait.
LEMMA DeferStep ==
    ASSUME Inv, NEW c \in Cmd, stage[c] \in {"found", "kmalloc"}, Defer(c),
           UNCHANGED <<dir, private, op, lldd, fodVars, connected, refVars, sq, qlock, abts, del>>,
           avail' \in Nat
    PROVE  Inv'
<1>1. stage \in [Cmd -> Stages] /\ stage' \in [Cmd -> Stages]
  BY DEF Inv, TypeOK, Defer, Stage, Stages
<1>2. /\ pending \in Seq(Cmd) /\ pending' \in Seq(Cmd) /\ Len(pending') = Len(pending) + 1
      /\ \A i \in 1 .. Len(pending) : pending[i] \in Cmd /\ pending'[i] = pending[i]
      /\ pending'[Len(pending) + 1] = c /\ Len(pending) \in Nat
  BY DEF Inv, TypeOK, Defer
<1>3. TypeOK'
  BY <1>1, <1>2 DEF Inv, TypeOK, Defer, lldd, fodVars, refVars
<1>4. UNCHANGED <<at, cmd, fod, fod_list, op, dir, del>>
  BY DEF fodVars
<1>5. Busy' = Busy
  BY <1>4 DEF Busy
<1>6. stage'[c] = "pending" /\ \A b \in Cmd \ {c} : stage'[b] = stage[b]
  BY <1>1 DEF Defer, Stage
<1>7. Waiting' = Waiting \union {c}
  BY <1>2 DEF Waiting
<1>8. /\ \A i \in 1 .. Len(pending) : pending[i] # c
      /\ \A d \in Deleter : del[d].cmd # NoCmd => del[d].cmd # c
      /\ \A g \in Fod : cmd[g] # NoCmd => cmd[g] # c
  BY <1>1 DEF Inv, OneOwner, FodsOwn, ListOwns, DropOwns
<1>9. FodsOwn'
  BY <1>4, <1>6, <1>8 DEF Inv, TypeOK, OneOwner, FodsOwn
<1>10. ListOwns'
  BY <1>2, <1>6, <1>8, SMTT(30) DEF Inv, OneOwner, ListOwns
<1>11. DropOwns'
  BY <1>4, <1>6, <1>7, <1>8, DelKnows DEF Inv, OneOwner, DropOwns
<1>12. NoneLost'
  BY <1>4, <1>6, <1>7 DEF Inv, OneOwner, NoneLost
<1>13. BlocksOK' /\ DelOK'
  BY <1>4, OnlyFlags DEF Inv, DelOK
<1>. QED
  BY <1>3, <1>4, <1>5, <1>9, <1>10, <1>11, <1>12, <1>13 DEF Inv, OneOwner

\* A command is looked up.
LEMMA FindTargetQueueStep ==
    ASSUME Inv, NEW c \in Cmd, FindTargetQueue(c)
    PROVE  Inv'
<1>1. ref' \in Nat /\ freed' \in BOOLEAN
  BY RefType DEF FindTargetQueue
<1>. QED
  BY <1>1, StageStep DEF FindTargetQueue, Refuse

\* It is refused, or waits, or wants memory.
LEMMA NoFodFreeStep ==
    ASSUME Inv, NEW c \in Cmd, NoFodFree(c)
    PROVE  Inv'
<1>1. CASE Defer(c) /\ avail' = avail - 1 /\ avail > 0 /\ UNCHANGED refVars
  <2>1. avail' \in Nat
    BY <1>1 DEF Inv, TypeOK
  <2>. QED
    BY <1>1, <2>1, DeferStep DEF NoFodFree
<1>2. CASE /\ LookupPut \/ UNCHANGED refVars
           /\ Stage(c, "refused") \/ Stage(c, "kmalloc")
           /\ UNCHANGED deferVars
  <2>1. ref' \in Nat /\ freed' \in BOOLEAN
    BY <1>2, RefType DEF LookupPut
  <2>. QED
    BY <1>2, <2>1, StageStep DEF NoFodFree
<1>. QED
  BY <1>1, <1>2 DEF NoFodFree, Refuse

\* It has memory now, or is refused.
LEMMA KmallocStep ==
    ASSUME Inv, NEW c \in Cmd, Kmalloc(c)
    PROVE  Inv'
<1>1. CASE Defer(c) /\ UNCHANGED refVars
  <2>1. avail' \in Nat
    BY <1>1 DEF Inv, TypeOK, Kmalloc
  <2>. QED
    BY <1>1, <2>1, DeferStep DEF Kmalloc
<1>2. CASE LookupPut /\ Refuse(c) /\ UNCHANGED <<pending, deferred>>
  <2>1. ref' \in Nat /\ freed' \in BOOLEAN
    BY <1>2, RefType DEF LookupPut
  <2>. QED
    BY <1>2, <2>1, StageStep DEF Kmalloc, Refuse, deferVars
<1>. QED
  BY <1>1, <1>2 DEF Kmalloc

\* A thread begins, or stops, to work on f: there is nothing more to know of it.
LEMMA NewWorker ==
    ASSUME Inv, NEW f \in Fod, UNCHANGED <<op, dir>>,
           \A g \in Fod \ {f} : at'[g] = at[g] /\ cmd'[g] = cmd[g],
           \A g \in Fod \ {f} : fod'[g] = fod[g],
           at'[f] \in {"submit", "reuse", "release", "next", "idle"},
           cmd'[f] = NoCmd <=> at'[f] \in Outside
    PROVE  BlocksOK'
<1>1. BlockOK(f)'
  BY DEF BlockOK, Outside, Lldd
<1>2. ASSUME NEW g \in Fod, g # f
      PROVE  BlockOK(g)'
  BY <1>2 DEF Inv, BlocksOK, BlockOK
<1>. QED
  BY <1>1, <1>2 DEF BlocksOK

\* A free block gets the command: neither had another owner.
LEMMA AllocFodStep ==
    ASSUME Inv, NEW c \in Cmd, AllocFod(c)
    PROVE  Inv'
<1>1. PICK f \in fod_list :
        /\ fod_list' = fod_list \ {f}
        /\ fod' = [fod EXCEPT ![f].active = TRUE]
        /\ at' = [at EXCEPT ![f] = "submit"]
        /\ cmd' = [cmd EXCEPT ![f] = c]
  BY DEF AllocFod
<1>2. f \in Fod /\ at[f] = "idle" /\ cmd[f] = NoCmd
  BY HasCmd DEF Inv, TypeOK, OneOwner, Busy, Outside
<1>3. /\ fod' \in [Fod -> Fields]
      /\ \A g \in Fod \ {f} : fod'[g] = fod[g]
  <2>1. fod' \in [Fod -> Fields]
    BY <1>1, <1>2, Knows, FieldsType, Zenon
  <2>. QED
    BY <1>1, <1>2, <2>1, Knows
<1>4. /\ at' \in [Fod -> Places] /\ at'[f] = "submit"
      /\ \A g \in Fod \ {f} : at'[g] = at[g]
  BY <1>1, <1>2 DEF Inv, TypeOK, Places
<1>5. /\ cmd' \in [Fod -> Cmd \union {NoCmd}] /\ cmd'[f] = c
      /\ \A g \in Fod \ {f} : cmd'[g] = cmd[g]
  BY <1>1, <1>2 DEF Inv, TypeOK
<1>6. /\ stage' \in [Cmd -> Stages] /\ stage[c] = "found" /\ stage'[c] = "running"
      /\ \A b \in Cmd \ {c} : stage'[b] = stage[b]
  BY DEF Inv, TypeOK, AllocFod, Stage, Stages
<1>7. UNCHANGED <<dir, private, op, lldd, queueVars, pending, abts, del>>
  BY DEF AllocFod, queueVars, deferVars
<1>8. TypeOK'
  BY <1>1, <1>3, <1>4, <1>5, <1>6, <1>7
     DEF Inv, TypeOK, lldd, queueVars, refVars, deferVars
<1>9. fod_list' = Fod \ Busy' /\ Waiting' = Waiting
  BY <1>1, <1>2, <1>4, <1>7 DEF Inv, OneOwner, Busy, Waiting
<1>10. /\ \A g \in Fod : cmd[g] # NoCmd => cmd[g] # c
       /\ \A i \in 1 .. Len(pending) : pending[i] # c
       /\ \A d \in Deleter : del[d].cmd # NoCmd => del[d].cmd # c
  BY <1>6 DEF Inv, OneOwner, FodsOwn, ListOwns, DropOwns
<1>11. FodsOwn'
  <2>. SUFFICES ASSUME NEW g \in Fod, cmd'[g] # NoCmd
                PROVE  /\ stage'[cmd'[g]] \in {"running", "closing"}
                       /\ \A h \in Fod : cmd'[h] = cmd'[g] => h = g
    BY DEF FodsOwn
  <2>1. CASE g = f
    BY <1>2, <1>5, <1>6, <1>10, <2>1
  <2>2. CASE g # f
    <3>1. cmd'[g] = cmd[g] /\ cmd[g] \in Cmd \ {c}
      BY <1>5, <1>10, <2>2 DEF Inv, TypeOK
    <3>2. stage[cmd[g]] \in {"running", "closing"} /\ \A h \in Fod : cmd[h] = cmd[g] => h = g
      BY <1>5, <2>2, <3>1 DEF Inv, OneOwner, FodsOwn
    <3>. QED
      BY <1>2, <1>5, <1>6, <2>2, <3>1, <3>2
  <2>. QED
    BY <2>1, <2>2
<1>12. ListOwns'
  <2>1. \A i \in 1 .. Len(pending) : pending[i] \in Cmd \ {c}
    BY <1>10 DEF Inv, TypeOK
  <2>2. ListOwns
    BY DEF Inv, OneOwner
  <2>. QED
    BY <1>6, <1>7, <2>1, <2>2 DEF ListOwns
<1>13. DropOwns'
  BY <1>6, <1>7, <1>9, <1>10, DelKnows DEF Inv, OneOwner, DropOwns
<1>14. NoneLost'
  BY <1>2, <1>5, <1>6, <1>7, <1>9 DEF Inv, OneOwner, NoneLost
<1>15. BlocksOK'
  BY <1>2, <1>3, <1>4, <1>5, <1>7, NewWorker DEF Outside
<1>16. DelOK'
  BY <1>7 DEF Inv, DelOK
<1>. QED
  BY <1>8, <1>9, <1>11, <1>12, <1>13, <1>14, <1>15, <1>16 DEF Inv, OneOwner

\* The block forgets the command ...
LEMMA FreeFodStep ==
    ASSUME Inv, NEW f \in Fod, FreeFod(f)
    PROVE  Inv'
<1>1. at[f] = "free" /\ cmd[f] \in Cmd /\ cmd[f] # NoCmd
  BY HasCmd DEF FreeFod, Outside
<1>. DEFINE c == cmd[f]
<1>2. fod' \in [Fod -> Fields]
  BY Knows, FieldsType, ZenonT(60) DEF FreeFod
<1>3. \A g \in Fod \ {f} : fod'[g] = fod[g]
  BY DEF FreeFod, Inv, TypeOK
<1>4. /\ at' \in [Fod -> Places] /\ at'[f] = "release"
      /\ \A g \in Fod \ {f} : at'[g] = at[g]
  BY DEF Inv, TypeOK, Places, FreeFod, Goto
<1>6. /\ stage' \in [Cmd -> Stages] /\ stage'[c] = "closing"
      /\ stage[c] \in {"running", "closing"}
      /\ \A b \in Cmd \ {c} : stage'[b] = stage[b]
  BY <1>1 DEF Inv, TypeOK, OneOwner, FodsOwn, FreeFod, Stage, Stages
<1>7. private' \in [Cmd -> Fod \union {NoFod}]
  BY DEF Inv, TypeOK, FreeFod
<1>8. UNCHANGED <<dir, op, lldd, cmd, fod_list, queueVars, pending, abts, del>>
  BY DEF FreeFod, queueVars, deferVars
<1>9. TypeOK'
  BY <1>2, <1>4, <1>6, <1>7, <1>8 DEF Inv, TypeOK, lldd, queueVars, refVars, deferVars
<1>10. Busy' = Busy /\ Waiting' = Waiting
  BY <1>1, <1>4, <1>8 DEF Busy, Waiting
<1>11. /\ \A b \in Cmd : stage[b] \in {"running", "closing"}
                            <=> stage'[b] \in {"running", "closing"}
       /\ \A b \in Cmd : stage[b] = "pending" <=> stage'[b] = "pending"
  BY <1>6
<1>12. /\ cmd \in [Fod -> Cmd \union {NoCmd}] /\ pending \in Seq(Cmd)
       /\ \A d \in Deleter : del[d].cmd \in Cmd \union {NoCmd}
  BY DEF Inv, TypeOK
<1>13. FodsOwn' /\ ListOwns' /\ DropOwns' /\ NoneLost'
  BY <1>8, <1>10, <1>11, <1>12 DEF Inv, OneOwner, FodsOwn, ListOwns, DropOwns, NoneLost
<1>14. BlocksOK'
  BY <1>1, <1>3, <1>4, <1>8, NewWorker DEF Outside
<1>15. DelOK'
  BY <1>8 DEF Inv, DelOK
<1>. QED
  BY <1>8, <1>9, <1>10, <1>13, <1>14, <1>15 DEF Inv, OneOwner

\* ... and the driver gets it back: it had no other owner.
LEMMA ReleaseStep ==
    ASSUME Inv, NEW f \in Fod, Release(f)
    PROVE  Inv'
<1>1. at[f] = "release" /\ cmd[f] \in Cmd /\ cmd[f] # NoCmd
  BY HasCmd DEF Release, Outside
<1>. DEFINE c == cmd[f]
<1>3. \A g \in Fod \ {f} : fod'[g] = fod[g]
  BY DEF Release
<1>4. /\ at' \in [Fod -> Places] /\ at'[f] = "next"
      /\ \A g \in Fod \ {f} : at'[g] = at[g]
  BY DEF Inv, TypeOK, Places, Release, Goto
<1>5. /\ cmd' \in [Fod -> Cmd \union {NoCmd}] /\ cmd'[f] = NoCmd
      /\ \A g \in Fod \ {f} : cmd'[g] = cmd[g]
  BY DEF Inv, TypeOK, Release
<1>6. /\ stage' \in [Cmd -> Stages] /\ stage'[c] = "released" /\ stage[c] \in {"running", "closing"}
      /\ \A b \in Cmd \ {c} : stage'[b] = stage[b]
  BY <1>1 DEF Inv, TypeOK, OneOwner, FodsOwn, Release, Stage, Stages
<1>8. UNCHANGED <<dir, private, op, lldd, fod, fod_list, queueVars, pending, abts, del>>
  BY DEF Release, queueVars, deferVars
<1>9. TypeOK'
  BY <1>4, <1>5, <1>6, <1>8
     DEF Inv, TypeOK, lldd, queueVars, refVars, deferVars
<1>10. Busy' = Busy /\ Waiting' = Waiting
  BY <1>1, <1>4, <1>8 DEF Busy, Waiting
<1>11. /\ \A g \in Fod \ {f} : cmd[g] # c
       /\ \A i \in 1 .. Len(pending) : pending[i] # c
       /\ \A d \in Deleter : del[d].cmd # NoCmd => del[d].cmd # c
  BY <1>1, <1>6 DEF Inv, OneOwner, FodsOwn, ListOwns, DropOwns
<1>12. FodsOwn'
  <2>. SUFFICES ASSUME NEW g \in Fod, cmd'[g] # NoCmd
                PROVE  /\ stage'[cmd'[g]] \in {"running", "closing"}
                       /\ \A h \in Fod : cmd'[h] = cmd'[g] => h = g
    BY DEF FodsOwn
  <2>1. g # f /\ cmd'[g] = cmd[g] /\ cmd[g] \in Cmd \ {c}
    BY <1>5, <1>11 DEF Inv, TypeOK
  <2>2. stage[cmd[g]] \in {"running", "closing"} /\ \A h \in Fod : cmd[h] = cmd[g] => h = g
    BY <2>1, <1>5 DEF Inv, OneOwner, FodsOwn
  <2>. QED
    BY <1>5, <1>6, <2>1, <2>2
<1>13. ListOwns'
  <2>1. \A i \in 1 .. Len(pending) : pending[i] \in Cmd \ {c}
    BY <1>11 DEF Inv, TypeOK
  <2>2. ListOwns
    BY DEF Inv, OneOwner
  <2>. QED
    BY <1>6, <1>8, <2>1, <2>2 DEF ListOwns
<1>14. DropOwns'
  BY <1>6, <1>8, <1>10, <1>11, DelKnows DEF Inv, OneOwner, DropOwns
<1>15. NoneLost'
  BY <1>5, <1>6, <1>8, <1>10 DEF Inv, OneOwner, NoneLost
<1>16. BlocksOK'
  BY <1>3, <1>4, <1>5, <1>8, NewWorker DEF Outside
<1>17. DelOK'
  BY <1>8 DEF Inv, DelOK
<1>. QED
  BY <1>8, <1>9, <1>10, <1>12, <1>13, <1>14, <1>15, <1>16, <1>17 DEF Inv, OneOwner

\* The block is free, and has no command.
LEMMA FodFreeStep ==
    ASSUME Inv, NEW f \in Fod, FodFree(f)
    PROVE  Inv'
<1>1. at[f] = "next" /\ cmd[f] = NoCmd
  BY HasCmd DEF FodFree, Outside
<1>2. /\ at' \in [Fod -> Places] /\ at'[f] = "idle"
      /\ \A g \in Fod \ {f} : at'[g] = at[g]
  BY DEF Inv, TypeOK, Places, FodFree, Goto
<1>3. ref' \in Nat /\ freed' \in BOOLEAN
  BY RefType DEF FodFree
<1>4. UNCHANGED <<cmdVars, dir, op, stage, lldd, fod, cmd, connected, sq, qlock, deferVars,
                  pending, abts, del>>
  BY DEF FodFree, cmdVars, deferVars
<1>5. fod_list' = fod_list \union {f}
  BY DEF FodFree
<1>6. TypeOK'
  BY <1>2, <1>3, <1>4, <1>5 DEF Inv, TypeOK, cmdVars, lldd, deferVars
<1>7. fod_list' = Fod \ Busy' /\ Waiting' = Waiting
  BY <1>2, <1>4, <1>5 DEF Inv, OneOwner, Busy, Waiting
<1>8. FodsOwn' /\ ListOwns' /\ DropOwns' /\ NoneLost'
  BY <1>4, <1>7 DEF Inv, OneOwner, FodsOwn, ListOwns, DropOwns, NoneLost
<1>9. BlocksOK'
  BY <1>1, <1>2, <1>4, NewWorker DEF Outside
<1>10. DelOK'
  BY <1>4 DEF Inv, DelOK
<1>. QED
  BY <1>6, <1>7, <1>8, <1>9, <1>10 DEF Inv, OneOwner

\* The first of the list is taken out of it.
LEMMA HeadTail ==
    ASSUME Inv, pending # <<>>, pending' = Tail(pending)
    PROVE  /\ Head(pending) \in Waiting /\ Head(pending) \in Cmd
           /\ stage[Head(pending)] = "pending"
           /\ pending' \in Seq(Cmd)
           /\ Waiting' = Waiting \ {Head(pending)}
           /\ \A i \in 1 .. Len(pending') :
                /\ pending'[i] \in Cmd \ {Head(pending)} /\ stage[pending'[i]] = "pending"
                /\ \A j \in 1 .. Len(pending') : pending'[j] = pending'[i] => j = i
<1>1. pending \in Seq(Cmd) /\ Len(pending) \in Nat \ {0} /\ Head(pending) = pending[1]
  BY DEF Inv, TypeOK
<1>2. /\ pending' \in Seq(Cmd) /\ Len(pending') = Len(pending) - 1
      /\ \A i \in 1 .. Len(pending') : pending'[i] = pending[i + 1]
  BY <1>1
<1>3. \A i \in 1 .. Len(pending) :
        /\ pending[i] \in Cmd /\ stage[pending[i]] = "pending"
        /\ \A j \in 1 .. Len(pending) : pending[j] = pending[i] => j = i
  BY <1>1 DEF Inv, OneOwner, ListOwns
<1>4. \A i \in 1 .. Len(pending') :
        /\ pending'[i] \in Cmd \ {Head(pending)} /\ stage[pending'[i]] = "pending"
        /\ \A j \in 1 .. Len(pending') : pending'[j] = pending'[i] => j = i
  BY <1>1, <1>2, <1>3
<1>5. Waiting' = Waiting \ {Head(pending)}
  <2>1. ASSUME NEW b \in Waiting', TRUE
        PROVE  b \in Waiting \ {Head(pending)}
    <3>1. PICK i \in 1 .. Len(pending') : b = pending'[i]
      BY <2>1 DEF Waiting
    <3>2. i + 1 \in 1 .. Len(pending) /\ b = pending[i + 1] /\ b # Head(pending)
      BY <1>1, <1>2, <1>4, <3>1
    <3>. QED
      BY <3>2 DEF Waiting
  <2>2. ASSUME NEW b \in Waiting, b # Head(pending)
        PROVE  b \in Waiting'
    <3>1. PICK i \in 1 .. Len(pending) : b = pending[i]
      BY <2>2 DEF Waiting
    <3>2. i - 1 \in 1 .. Len(pending') /\ b = pending'[i - 1]
      BY <1>1, <1>2, <2>2, <3>1
    <3>. QED
      BY <3>2 DEF Waiting
  <2>. QED
    BY <2>1, <2>2
<1>. QED
  BY <1>1, <1>2, <1>3, <1>4, <1>5 DEF Waiting

\* The first that waits gets the block, and waits no more.
LEMMA FodNextStep ==
    ASSUME Inv, NEW f \in Fod, FodNext(f)
    PROVE  Inv'
<1>. DEFINE c == Head(pending)
<1>1. pending # <<>> /\ pending' = Tail(pending)
  BY DEF FodNext, Rest
<1>2. /\ c \in Waiting /\ c \in Cmd /\ stage[c] = "pending" /\ pending' \in Seq(Cmd)
      /\ Waiting' = Waiting \ {c}
      /\ \A i \in 1 .. Len(pending') :
           /\ pending'[i] \in Cmd \ {c} /\ stage[pending'[i]] = "pending"
           /\ \A j \in 1 .. Len(pending') : pending'[j] = pending'[i] => j = i
  BY <1>1, HeadTail
<1>3. at[f] = "next" /\ cmd[f] = NoCmd
  BY HasCmd DEF FodNext, Outside
<1>4. /\ at' \in [Fod -> Places] /\ at'[f] = "reuse"
      /\ \A g \in Fod \ {f} : at'[g] = at[g]
  BY DEF Inv, TypeOK, Places, FodNext, Goto
<1>5. /\ cmd' \in [Fod -> Cmd \union {NoCmd}] /\ cmd'[f] = c
      /\ \A g \in Fod \ {f} : cmd'[g] = cmd[g]
  BY <1>2 DEF Inv, TypeOK, FodNext
<1>6. /\ stage' \in [Cmd -> Stages] /\ stage'[c] = "running"
      /\ \A b \in Cmd \ {c} : stage'[b] = stage[b]
  BY <1>2 DEF Inv, TypeOK, FodNext, Stage, Stages
<1>7. UNCHANGED <<dir, private, op, lldd, fod, fod_list, connected, refVars, sq, qlock,
                  deferred, abts, del>>
  BY DEF FodNext
<1>8. avail' \in Nat
  BY DEF Inv, TypeOK, FodNext
<1>9. TypeOK'
  BY <1>2, <1>4, <1>5, <1>6, <1>7, <1>8 DEF Inv, TypeOK, lldd, refVars
<1>10. Busy' = Busy
  BY <1>3, <1>4 DEF Busy
<1>11. /\ \A g \in Fod : cmd[g] # NoCmd => cmd[g] # c
       /\ \A d \in Deleter : del[d].cmd # NoCmd => del[d].cmd # c
  BY <1>2 DEF Inv, OneOwner, FodsOwn, DropOwns
<1>12. FodsOwn'
  <2>. SUFFICES ASSUME NEW g \in Fod, cmd'[g] # NoCmd
                PROVE  /\ stage'[cmd'[g]] \in {"running", "closing"}
                       /\ \A h \in Fod : cmd'[h] = cmd'[g] => h = g
    BY DEF FodsOwn
  <2>1. CASE g = f
    BY <1>2, <1>5, <1>6, <1>11, <2>1
  <2>2. CASE g # f
    <3>1. cmd'[g] = cmd[g] /\ cmd[g] \in Cmd \ {c}
      BY <1>5, <1>11, <2>2
    <3>2. stage[cmd[g]] \in {"running", "closing"} /\ \A h \in Fod : cmd[h] = cmd[g] => h = g
      BY <3>1 DEF Inv, OneOwner, FodsOwn
    <3>. QED
      BY <1>5, <1>6, <2>2, <3>1, <3>2
  <2>. QED
    BY <2>1, <2>2
<1>13. ListOwns'
  BY <1>2, <1>6 DEF ListOwns
<1>14. DropOwns'
  BY <1>2, <1>6, <1>7, <1>11, DelKnows DEF Inv, OneOwner, DropOwns
<1>15. NoneLost'
  BY <1>2, <1>3, <1>5, <1>6, <1>7 DEF Inv, OneOwner, NoneLost
<1>16. BlocksOK'
  BY <1>2, <1>4, <1>5, <1>7, NewWorker DEF Outside
<1>17. DelOK'
  BY <1>7 DEF Inv, DelOK
<1>. QED
  BY <1>7, <1>9, <1>10, <1>12, <1>13, <1>14, <1>15, <1>16, <1>17 DEF Inv, OneOwner

\* The deletion takes the first that waits, or ends the list.
LEMMA DelDrainStep ==
    ASSUME Inv, NEW d \in Deleter, DelDrain(d)
    PROVE  Inv'
<1>1. CASE pending = <<>>
  <2>1. Aside
    BY <1>1 DEF Aside, Inv, TypeOK, DelDrain, Unlocked, cmdVars, lldd, fodVars, refVars
  <2>2. DelGoto(d, "destroy") /\ "destroy" \in DelPc /\ del[d].pc # "drop"
    BY <1>1 DEF DelDrain, DelPc
  <2>. QED
    BY <2>1, <2>2, DelGotoStep
<1>2. CASE pending # <<>>
  <2>. DEFINE c == Head(pending)
  <2>1. /\ c \in Waiting /\ c \in Cmd /\ stage[c] = "pending" /\ pending' \in Seq(Cmd)
        /\ Waiting' = Waiting \ {c}
        /\ \A i \in 1 .. Len(pending') :
             /\ pending'[i] \in Cmd \ {c} /\ stage[pending'[i]] = "pending"
             /\ \A j \in 1 .. Len(pending') : pending'[j] = pending'[i] => j = i
    BY <1>2, HeadTail DEF DelDrain
  <2>2. /\ del \in [Deleter -> DelRec] /\ "drop" \in DelPc /\ c \in Cmd \union {NoCmd}
        /\ del' = [del EXCEPT ![d].pc = "drop", ![d].cmd = c]
    BY <1>2, <2>1, DelKnows DEF DelDrain, DelPc
  <2>3. del' \in [Deleter -> DelRec]
    BY <2>2, DelType, Zenon
  <2>4. /\ \A e \in Deleter \ {d} : del'[e] = del[e]
        /\ del'[d].cmd = c /\ del'[d].pc = "drop" /\ c # NoCmd
    BY <2>1, <2>2 DEF DelRec
  <2>5. UNCHANGED <<cmdVars, dir, op, stage, lldd, fodVars, at, cmd, fod, fod_list, connected,
                    refVars, sq, avail, deferred, abts>>
    BY DEF DelDrain, cmdVars, fodVars
  <2>6. TypeOK'
    BY <2>1, <2>3, <2>5
       DEF Inv, TypeOK, DelDrain, Unlocked, DelRec, cmdVars, lldd, refVars
  <2>7. fod_list' = Fod \ Busy' /\ FodsOwn'
    BY <2>5 DEF Inv, OneOwner, Busy, FodsOwn
  <2>8. ListOwns'
    BY <2>1, <2>5 DEF ListOwns
  <2>9. del[d].cmd = NoCmd /\ \A e \in Deleter : del[e].cmd # NoCmd => del[e].cmd # c
    BY <2>1, DelKnows DEF DelDrain, Inv, OneOwner, DropOwns
  <2>10. DropOwns'
    BY <2>1, <2>4, <2>5, <2>9 DEF Inv, OneOwner, DropOwns
  <2>11. NoneLost'
    <3>. SUFFICES ASSUME NEW b \in Cmd, stage[b] = "pending"
                  PROVE  b \in Waiting' \/ \E e \in Deleter : del'[e].cmd = b
      BY <2>5 DEF Inv, OneOwner, NoneLost
    <3>1. CASE b = c
      BY <2>4, <3>1
    <3>2. CASE b # c
      <4>1. b \in Waiting \/ \E e \in Deleter : del[e].cmd = b
        BY DEF Inv, OneOwner, NoneLost
      <4>2. b # NoCmd
        OBVIOUS
      <4>. QED
        BY <2>1, <2>4, <2>9, <3>2, <4>1, <4>2
    <3>. QED
      BY <3>1, <3>2
  <2>12. BlocksOK'
    BY <2>5, OnlyFlags
  <2>13. DelOK'
    BY <2>4 DEF Inv, DelOK
  <2>. QED
    BY <2>6, <2>7, <2>8, <2>10, <2>11, <2>12, <2>13 DEF Inv, OneOwner
<1>. QED
  BY <1>1, <1>2

\* It drops what it took: nobody else had it.
LEMMA DelDropStep ==
    ASSUME Inv, NEW d \in Deleter, DelDrop(d)
    PROVE  Inv'
<1>. DEFINE c == del[d].cmd
<1>1. /\ c \in Cmd /\ c # NoCmd /\ stage[c] = "pending" /\ c \notin Waiting
      /\ \A e \in Deleter : del[e].cmd = c => e = d
  BY DelKnows DEF DelDrop, Inv, OneOwner, DropOwns
<1>2. /\ del \in [Deleter -> DelRec] /\ "drain" \in DelPc /\ NoCmd \in Cmd \union {NoCmd}
      /\ del' = [del EXCEPT ![d].pc = "drain", ![d].cmd = NoCmd]
  BY DelKnows DEF DelDrop, DelPc
<1>3. del' \in [Deleter -> DelRec]
  BY <1>2, DelType, Zenon
<1>4. /\ \A e \in Deleter \ {d} : del'[e] = del[e]
      /\ del'[d].cmd = NoCmd /\ del'[d].pc = "drain"
  BY <1>2 DEF DelRec
<1>5. /\ stage' \in [Cmd -> Stages] /\ stage'[c] = "released"
      /\ \A b \in Cmd \ {c} : stage'[b] = stage[b]
  BY <1>1 DEF Inv, TypeOK, DelDrop, Stage, Stages
<1>6. UNCHANGED <<dir, private, op, answers, fodVars, at, cmd, fod, fod_list, connected, refVars,
                  sq, pending, deferVars, abts>>
  BY DEF DelDrop, fodVars, deferVars
<1>7. aborts' \subseteq Cmd \union {NoCmd} /\ qlock' \in Deleter
  BY <1>1 DEF Inv, TypeOK, DelDrop
<1>8. TypeOK'
  BY <1>3, <1>5, <1>6, <1>7 DEF Inv, TypeOK, DelRec, refVars, deferVars
<1>9. fod_list' = Fod \ Busy' /\ Waiting' = Waiting
  BY <1>6 DEF Inv, OneOwner, Busy, Waiting
<1>10. \A g \in Fod : cmd[g] # NoCmd => cmd[g] # c
  BY <1>1 DEF Inv, OneOwner, FodsOwn
<1>11. FodsOwn'
  BY <1>5, <1>6, <1>10 DEF Inv, TypeOK, OneOwner, FodsOwn
<1>12. ListOwns'
  <2>1. \A i \in 1 .. Len(pending) : pending[i] \in Cmd \ {c}
    BY <1>1 DEF Inv, TypeOK, Waiting
  <2>2. ListOwns
    BY DEF Inv, OneOwner
  <2>. QED
    BY <1>5, <1>6, <2>1, <2>2 DEF ListOwns
<1>13. DropOwns'
  BY <1>1, <1>4, <1>5, <1>9, DelKnows DEF Inv, OneOwner, DropOwns
<1>14. NoneLost'
  <2>. SUFFICES ASSUME NEW b \in Cmd
                PROVE  /\ stage'[b] \in {"running", "closing"} => \E f \in Fod : cmd'[f] = b
                       /\ stage'[b] = "pending" =>
                            b \in Waiting' \/ \E e \in Deleter : del'[e].cmd = b
    BY DEF NoneLost
  <2>1. CASE b = c
    BY <1>5, <2>1
  <2>2. CASE b # c
    BY <1>4, <1>5, <1>6, <1>9, <2>2 DEF Inv, OneOwner, NoneLost
  <2>. QED
    BY <2>1, <2>2
<1>15. BlocksOK'
  BY <1>6, OnlyFlags
<1>16. DelOK'
  BY <1>4 DEF Inv, DelOK
<1>. QED
  BY <1>8, <1>9, <1>11, <1>12, <1>13, <1>14, <1>15, <1>16 DEF Inv, OneOwner

-----------------------------------------------------------------------------
(* The theorems.                                                           *)

\* The invariant holds at first, ...
LEMMA InvInit ==
    ASSUME Init
    PROVE  Inv
<1>1. TypeOK
  <2>1. fod \in [Fod -> Fields]
    BY DEF Init, Blank, Fields
  <2>2. del \in [Deleter -> DelRec]
    BY DEF Init, DelRec, DelPc
  <2>3. /\ stage \in [Cmd -> Stages] /\ op \in [Cmd -> Ops] /\ at \in [Fod -> Places]
        /\ abts \in [Cmd -> [pc : AbtsPc, fod : Fod \union {NoFod}]]
    BY DEF Init, Stages, Ops, Places, AbtsPc
  <2>4. freed \in BOOLEAN /\ connected \in BOOLEAN /\ sq \in BOOLEAN
    BY DEF Init
  <2>5. /\ dir \in [Cmd -> Dirs] /\ private \in [Cmd -> Fod \union {NoFod}]
        /\ answers \in [Cmd -> Nat] /\ aborts \subseteq Cmd \union {NoCmd}
        /\ cmd \in [Fod -> Cmd \union {NoCmd}] /\ fod_list \subseteq Fod
    BY DEF Init
  <2>6. /\ ref \in Nat /\ qlock \in Deleter \union Cmd \union {Nobody}
        /\ pending \in Seq(Cmd) /\ avail \in Nat /\ deferred \subseteq Cmd
    BY DEF Init
  <2>. QED
    BY <2>1, <2>2, <2>3, <2>4, <2>5, <2>6 DEF TypeOK, DelRec
<1>2. OneOwner
  BY DEF Init, OneOwner, FodsOwn, ListOwns, DropOwns, NoneLost, Busy
<1>3. BlocksOK
  BY DEF Init, BlocksOK, BlockOK, Outside, Lldd
<1>4. DelOK
  BY DEF Init, DelOK
<1>. QED
  BY <1>1, <1>2, <1>3, <1>4 DEF Inv

\* ... every step keeps it, ...
LEMMA InvStep ==
    ASSUME Inv, [Next]_vars
    PROVE  Inv'
<1>1. CASE UNCHANGED vars
  BY <1>1 DEF Inv, TypeOK, OneOwner, FodsOwn, ListOwns, DropOwns, NoneLost, Busy, Waiting,
     BlocksOK, BlockOK, Outside, Lldd, DelOK, vars, cmdVars, lldd, fodVars, queueVars, refVars,
     deferVars
<1>2. ASSUME NEW c \in Cmd, FindTargetQueue(c) \/ Arrival(c) \/ AbtsLook(c) \/ Abort(c)
      PROVE  Inv'
  BY <1>2, FindTargetQueueStep, AllocFodStep, NoFodFreeStep, KmallocStep, AbtsStep
     DEF Arrival, Abort
<1>3. ASSUME NEW f \in Fod, Work(f)
      PROVE  Inv'
  BY <1>3, SubmitStep, HandleStep, CmdDoneStep, TransferStep, LlddDoneStep, WriteDoneStep,
     NextChunkStep, ReadDoneStep, RspDoneStep, XmtRspStep, AbortOpStep, FreeFodStep,
     ReleaseStep, FodFreeStep, FodNextStep, ReuseStep
     DEF Work
<1>4. ASSUME NEW d \in Deleter, DelGet(d) \/ Delete(d)
      PROVE  Inv'
  BY <1>4, DelGetStep, DelDisconnectStep, DelLockStep, DelScanStep, DelMarkStep, DelCallStep,
     DelAvailStep, DelDrainStep, DelDropStep, DelDestroyStep, DelPutStep
     DEF Delete
<1>. QED
  BY <1>1, <1>2, <1>3, <1>4 DEF Next

\* ... and so it holds always.
LEMMA Invariance == Spec => []Inv
<1>1. Init => Inv
  BY InvInit
<1>2. Inv /\ [Next]_vars => Inv'
  BY InvStep
<1>. QED
  BY <1>1, <1>2, PTL DEF Spec

\* The types hold: nobody indexes the fields of a command, a block or a
\* deletion with something that is not one, as the code that follows
\* fcpreq->nvmet_fc_private, fod->fcpreq and the list heads takes for granted.
THEOREM TypeCorrect == Spec => []TypeOK
  BY Invariance, PTL DEF Inv

\* A command that nvmet_fc_rcv_fcp_req took is in one place until the driver
\* gets it back: with one request block, once in pending_cmd_list, or with the
\* deletion that drops it; and a block is free exactly when nobody works on it.
THEOREM OwnerCorrect == Spec => []OneOwner
  BY Invariance, PTL DEF Inv

-----------------------------------------------------------------------------
(* The references.                                                         *)

\* A command that waits has been deferred, and one that was deferred has been
\* taken.
DeferredOK == \A c \in Cmd :
    /\ stage[c] = "pending" => c \in deferred
    /\ c \in deferred => stage[c] \in {"pending", "running", "closing", "released"}

\* The inductive invariant of the references, beside Inv.
RefInv == RefsExact /\ (freed <=> ref = 0) /\ DeferredOK

\* The holders of references are finitely many.
LEMMA HoldersFinite ==
    ASSUME Inv
    PROVE  /\ IsFiniteSet(Arriving) /\ Cardinality(Arriving) \in Nat
           /\ IsFiniteSet(Busy) /\ Cardinality(Busy) \in Nat
           /\ IsFiniteSet(Deleting) /\ Cardinality(Deleting) \in Nat
           /\ IsFiniteSet(Dropped) /\ Cardinality(Dropped) \in Nat
           /\ IsFiniteSet(deferred) /\ Cardinality(deferred) \in Nat
           /\ ref \in Nat
<1>1. IsFiniteSet(Arriving) /\ IsFiniteSet(deferred)
  BY FS_Subset DEF Arriving, Inv, TypeOK
<1>2. IsFiniteSet(Busy)
  BY FS_Subset DEF Busy
<1>3. IsFiniteSet(Deleting) /\ IsFiniteSet(Dropped)
  BY FS_Subset DEF Deleting, Dropped
<1>4. ref \in Nat
  BY DEF Inv, TypeOK
<1>. QED
  BY <1>1, <1>2, <1>3, <1>4, FS_CardinalityType

\* Nobody comes to hold a reference, and nobody lets go of one.
LEMMA SameHolders ==
    ASSUME Inv, RefInv, UNCHANGED <<refVars, Arriving, Busy, Deleting, Dropped, deferred>>,
           DeferredOK'
    PROVE  RefInv'
  BY DEF RefInv, RefsExact, refVars

\* What a get and a put do.
LEMMA GetPut ==
    ASSUME Inv, RefInv
    PROVE  /\ QGet => ref' = ref + 1 /\ (freed' <=> ref' = 0)
           /\ QPut => ref' = ref - 1 /\ (freed' <=> ref' = 0)
<1>1. ref \in Nat
  BY DEF Inv, TypeOK
<1>2. QGet => ref' = ref + 1 /\ ref' # 0 /\ ref # 0
  BY <1>1 DEF QGet
<1>3. QGet => ~ freed'
  BY <1>2, Zenon DEF RefInv, QGet
<1>4. QPut => ref' = ref - 1 /\ (ref = 1 <=> ref' = 0)
  BY <1>1 DEF QPut
<1>5. QPut => (freed' <=> ref = 1)
  BY Zenon DEF QPut
<1>. QED
  BY <1>2, <1>3, <1>4, <1>5, Zenon

\* A step of a command on its way in, or of the deletions, with the change of
\* one stage that keeps DeferredOK.
LEMMA StagedOK ==
    ASSUME Inv, RefInv, NEW c \in Cmd, NEW s \in Stages, Stage(c, s),
           \/ /\ deferred' = deferred /\ stage[c] \in {"new", "found", "kmalloc"}
              /\ s # "pending"
           \/ /\ deferred' = deferred /\ stage[c] \in {"pending", "running", "closing"}
              /\ s \in {"running", "closing", "released"}
           \/ deferred' = deferred \union {c} /\ s = "pending"
    PROVE  DeferredOK'
<1>1. stage'[c] = s /\ \A b \in Cmd \ {c} : stage'[b] = stage[b]
  BY DEF Inv, TypeOK, Stage
<1>2. DeferredOK
  BY DEF RefInv
<1>. QED
  BY <1>1, <1>2 DEF DeferredOK

\* A command is looked up.
LEMMA FindRefs ==
    ASSUME Inv, RefInv, NEW c \in Cmd, FindTargetQueue(c)
    PROVE  RefInv'
<1>1. Busy' = Busy /\ Deleting' = Deleting /\ Dropped' = Dropped /\ deferred' = deferred
  BY DEF FindTargetQueue, Busy, Deleting, Dropped, fodVars, deferVars
<1>2. DeferredOK'
  BY <1>1, StagedOK DEF FindTargetQueue, Refuse, Stages
<1>3. \A s \in Stages :
        Stage(c, s) => stage'[c] = s /\ \A b \in Cmd \ {c} : stage'[b] = stage[b]
  BY DEF Inv, TypeOK, Stage
<1>4. CASE QGet /\ Stage(c, "found")
  <2>1. Arriving' = Arriving \union {c} /\ c \notin Arriving
    BY <1>3, <1>4 DEF FindTargetQueue, Arriving, Stages
  <2>2. Cardinality(Arriving') = Cardinality(Arriving) + 1
    BY <2>1, HoldersFinite, FS_AddElement
  <2>. QED
    BY <1>1, <1>2, <1>4, <2>2, GetPut, HoldersFinite DEF RefInv, RefsExact
<1>5. CASE Refuse(c) /\ UNCHANGED refVars
  <2>1. Arriving' = Arriving
    BY <1>3, <1>5 DEF FindTargetQueue, Refuse, Arriving, Stages
  <2>. QED
    BY <1>1, <1>2, <1>5, <2>1, SameHolders DEF refVars
<1>. QED
  BY <1>4, <1>5 DEF FindTargetQueue

\* The block inherits the reference of the command.
LEMMA AllocRefs ==
    ASSUME Inv, RefInv, NEW c \in Cmd, AllocFod(c)
    PROVE  RefInv'
<1>1. /\ Deleting' = Deleting /\ Dropped' = Dropped /\ deferred' = deferred
      /\ ref' = ref /\ freed' = freed
  BY DEF AllocFod, Deleting, Dropped, queueVars, refVars, deferVars
<1>2. DeferredOK'
  BY <1>1, StagedOK DEF AllocFod, Stages
<1>3. stage'[c] = "running" /\ \A b \in Cmd \ {c} : stage'[b] = stage[b]
  BY DEF Inv, TypeOK, AllocFod, Stage
<1>4. Arriving' = Arriving \ {c} /\ c \in Arriving
  BY <1>3 DEF AllocFod, Arriving
<1>5. PICK f \in fod_list : at' = [at EXCEPT ![f] = "submit"]
  BY DEF AllocFod
<1>6. Busy' = Busy \union {f} /\ f \notin Busy
  BY <1>5 DEF Inv, TypeOK, OneOwner, Busy
<1>7. Cardinality(Arriving') = Cardinality(Arriving) - 1
  BY <1>4, HoldersFinite, FS_RemoveElement
<1>8. Cardinality(Busy') = Cardinality(Busy) + 1
  BY <1>6, HoldersFinite, FS_AddElement
<1>. QED
  BY <1>1, <1>2, <1>7, <1>8, HoldersFinite DEF RefInv, RefsExact

\* A refused command drops its reference, one that waits keeps it.
LEMMA NoFodRefs ==
    ASSUME Inv, RefInv, NEW c \in Cmd, NoFodFree(c) \/ Kmalloc(c)
    PROVE  RefInv'
<1>1. Busy' = Busy /\ Deleting' = Deleting /\ Dropped' = Dropped
  BY DEF NoFodFree, Kmalloc, Busy, Deleting, Dropped, fodVars
<1>2. \A s \in Stages :
        Stage(c, s) => stage'[c] = s /\ \A b \in Cmd \ {c} : stage'[b] = stage[b]
  BY DEF Inv, TypeOK, Stage
<1>3. c \in Arriving
  BY DEF NoFodFree, Kmalloc, Arriving
<1>4. CASE QPut /\ Refuse(c) /\ deferred' = deferred
  <2>1. Arriving' = Arriving \ {c}
    BY <1>2, <1>4 DEF Refuse, Arriving, Stages
  <2>2. Cardinality(Arriving') = Cardinality(Arriving) - 1
    BY <1>3, <2>1, HoldersFinite, FS_RemoveElement
  <2>3. DeferredOK'
    BY <1>4, StagedOK DEF NoFodFree, Kmalloc, Refuse, Stages
  <2>. QED
    BY <1>1, <1>4, <2>2, <2>3, GetPut, HoldersFinite DEF RefInv, RefsExact
<1>5. CASE Defer(c) /\ UNCHANGED refVars
  <2>1. Arriving' = Arriving \ {c}
    BY <1>2, <1>5 DEF Defer, Arriving, Stages
  <2>2. Cardinality(Arriving') = Cardinality(Arriving) - 1
    BY <1>3, <2>1, HoldersFinite, FS_RemoveElement
  <2>3. deferred' = deferred \union {c} /\ c \notin deferred
    BY <1>5 DEF Defer, RefInv, DeferredOK, NoFodFree, Kmalloc
  <2>4. Cardinality(deferred') = Cardinality(deferred) + 1
    BY <2>3, HoldersFinite, FS_AddElement
  <2>5. DeferredOK'
    BY <1>5, <2>3, StagedOK DEF Defer, Stages
  <2>. QED
    BY <1>1, <1>5, <2>2, <2>4, <2>5, HoldersFinite DEF RefInv, RefsExact, refVars
<1>6. CASE Stage(c, "kmalloc") /\ UNCHANGED <<refVars, deferred>>
  <2>1. Arriving' = Arriving
    BY <1>2, <1>3, <1>6 DEF Arriving, Stages
  <2>2. DeferredOK'
    BY <1>6, StagedOK DEF NoFodFree, Kmalloc, Stages
  <2>. QED
    BY <1>1, <1>6, <2>1, <2>2, SameHolders
<1>. QED
  BY <1>4, <1>5, <1>6 DEF NoFodFree, Kmalloc, LookupPut, deferVars

\* A block is free again, or is kept for a command that waits.
LEMMA FodFreeRefs ==
    ASSUME Inv, RefInv, NEW f \in Fod, FodFree(f)
    PROVE  RefInv'
<1>1. /\ Arriving' = Arriving /\ Deleting' = Deleting /\ Dropped' = Dropped
      /\ deferred' = deferred
  BY DEF FodFree, Arriving, Deleting, Dropped, cmdVars, deferVars
<1>2. Busy' = Busy \ {f} /\ f \in Busy
  BY DEF Inv, TypeOK, FodFree, Goto, Busy
<1>3. Cardinality(Busy') = Cardinality(Busy) - 1
  BY <1>2, HoldersFinite, FS_RemoveElement
<1>4. DeferredOK'
  BY <1>1 DEF RefInv, DeferredOK, FodFree, cmdVars
<1>5. ref' = ref - 1 /\ (freed' <=> ref' = 0)
  BY GetPut DEF FodFree
<1>6. RefsExact'
  BY <1>1, <1>3, <1>5, HoldersFinite, SMTT(30) DEF RefInv, RefsExact
<1>. QED
  BY <1>4, <1>5, <1>6 DEF RefInv

\* The other steps of the thread of a block.
LEMMA WorkRefs ==
    ASSUME Inv, RefInv, NEW f \in Fod, Work(f), ~ FodFree(f)
    PROVE  RefInv'
<1>1. UNCHANGED <<refVars, deferred, del>>
  BY DEF Work, Submit, Handle, CmdDone, Transfer, LlddDone, WriteDone, NextChunk, ReadDone,
         RspDone, XmtRsp, AbortOp, FreeFod, Release, FodNext, Reuse, queueVars, deferVars
<1>2. Deleting' = Deleting /\ Dropped' = Dropped
  BY <1>1 DEF Deleting, Dropped
<1>3. at[f] # "idle" /\ at'[f] # "idle" /\ \A g \in Fod \ {f} : at'[g] = at[g]
  BY DEF Inv, TypeOK, Work, Submit, Bind, Handle, CmdDone, Transfer, LlddDone, WriteDone,
         NextChunk, ReadDone, RspDone, XmtRsp, AbortOp, FreeFod, Release, FodNext, Reuse, Goto
<1>4. Busy' = Busy
  BY <1>3 DEF Busy
<1>5. CASE UNCHANGED stage
  <2>1. Arriving' = Arriving /\ DeferredOK'
    BY <1>1, <1>5 DEF Arriving, RefInv, DeferredOK
  <2>. QED
    BY <1>1, <1>2, <1>4, <2>1, SameHolders
<1>6. ASSUME NEW c \in Cmd, stage[c] \in {"pending", "running", "closing"},
             NEW s \in {"running", "closing", "released"}, Stage(c, s)
      PROVE  RefInv'
  <2>1. DeferredOK'
    BY <1>1, <1>6, StagedOK DEF Stages
  <2>2. stage'[c] = s /\ \A b \in Cmd \ {c} : stage'[b] = stage[b]
    BY <1>6 DEF Inv, TypeOK, Stage
  <2>3. Arriving' = Arriving
    BY <1>6, <2>2 DEF Arriving
  <2>. QED
    BY <1>1, <1>2, <1>4, <2>1, <2>3, SameHolders
<1>7. CASE FreeFod(f) \/ Release(f)
  <2>1. /\ cmd[f] \in Cmd /\ stage[cmd[f]] \in {"running", "closing"}
        /\ Stage(cmd[f], "closing") \/ Stage(cmd[f], "released")
    BY <1>7, HasCmd DEF FreeFod, Release, Outside, Inv, OneOwner, FodsOwn
  <2>. QED
    BY <1>6, <2>1
<1>8. CASE FodNext(f)
  <2>1. /\ Head(pending) \in Cmd /\ stage[Head(pending)] = "pending"
        /\ Stage(Head(pending), "running")
    BY <1>8, HeadTail DEF FodNext, Rest
  <2>. QED
    BY <1>6, <2>1
<1>. QED
  BY <1>5, <1>7, <1>8
     DEF Work, Submit, Handle, CmdDone, Transfer, LlddDone, WriteDone, NextChunk, ReadDone,
         RspDone, XmtRsp, AbortOp, Reuse, cmdVars

\* The driver's ABTS holds no reference.
LEMMA AbtsRefs ==
    ASSUME Inv, RefInv, NEW c \in Cmd, AbtsLook(c) \/ Abort(c)
    PROVE  RefInv'
<1>1. UNCHANGED <<refVars, deferred, del, stage, at>>
  BY DEF AbtsLook, Abort, AbtsLock, AbtsMark, queueVars, deferVars, cmdVars, fodVars
<1>2. UNCHANGED <<Arriving, Busy, Deleting, Dropped>> /\ DeferredOK'
  BY <1>1 DEF Arriving, Busy, Deleting, Dropped, RefInv, DeferredOK
<1>. QED
  BY <1>1, <1>2, SameHolders

\* A deletion has a reference from its get to its last put, and drops another.
LEMMA DelGetRefs ==
    ASSUME Inv, RefInv, NEW d \in Deleter, DelGet(d)
    PROVE  RefInv'
<1>1. /\ UNCHANGED <<stage, at, deferred>>
      /\ del' = [del EXCEPT ![d].pc = "begin"] /\ del[d].pc = "none" /\ QGet
  BY DEF DelGet, DelGoto, cmdVars, fodVars, deferVars
<1>2. Arriving' = Arriving /\ Busy' = Busy /\ DeferredOK'
  BY <1>1 DEF Arriving, Busy, RefInv, DeferredOK
<1>3. del'[d].pc = "begin" /\ \A e \in Deleter \ {d} : del'[e] = del[e]
  BY <1>1, DelKnows DEF DelRec
<1>4. Deleting' = Deleting \union {d} /\ d \notin Deleting /\ Dropped' = Dropped
  BY <1>1, <1>3 DEF Deleting, Dropped
<1>5. Cardinality(Deleting') = Cardinality(Deleting) + 1
  BY <1>4, HoldersFinite, FS_AddElement
<1>. QED
  BY <1>1, <1>2, <1>4, <1>5, GetPut, HoldersFinite DEF RefInv, RefsExact

LEMMA DelPutRefs ==
    ASSUME Inv, RefInv, NEW d \in Deleter, DelPut(d)
    PROVE  RefInv'
<1>1. /\ UNCHANGED <<stage, at, deferred>> /\ QPut
      /\ \/ del[d].pc = "put" /\ del' = [del EXCEPT ![d].pc = "return"]
         \/ del[d].pc = "return" /\ del' = [del EXCEPT ![d].pc = "over"]
  BY DEF DelPut, DelGoto, cmdVars, fodVars, deferVars
<1>2. Arriving' = Arriving /\ Busy' = Busy /\ DeferredOK'
  BY <1>1 DEF Arriving, Busy, RefInv, DeferredOK
<1>3. CASE del[d].pc = "put" /\ del' = [del EXCEPT ![d].pc = "return"]
  <2>1. del'[d].pc = "return" /\ \A e \in Deleter \ {d} : del'[e] = del[e]
    BY <1>3, DelKnows DEF DelRec
  <2>2. Deleting' = Deleting /\ Dropped' = Dropped \union {d} /\ d \notin Dropped
    BY <1>3, <2>1 DEF Deleting, Dropped
  <2>3. Cardinality(Dropped') = Cardinality(Dropped) + 1
    BY <2>2, HoldersFinite, FS_AddElement
  <2>. QED
    BY <1>1, <1>2, <2>2, <2>3, GetPut, HoldersFinite DEF RefInv, RefsExact
<1>4. CASE del[d].pc = "return" /\ del' = [del EXCEPT ![d].pc = "over"]
  <2>1. del'[d].pc = "over" /\ \A e \in Deleter \ {d} : del'[e] = del[e]
    BY <1>4, DelKnows DEF DelRec
  <2>2. Deleting' = Deleting \ {d} /\ d \in Deleting /\ Dropped' = Dropped
    BY <1>4, <2>1 DEF Deleting, Dropped
  <2>3. Cardinality(Deleting') = Cardinality(Deleting) - 1
    BY <2>2, HoldersFinite, FS_RemoveElement
  <2>. QED
    BY <1>1, <1>2, <2>2, <2>3, GetPut, HoldersFinite DEF RefInv, RefsExact
<1>. QED
  BY <1>1, <1>3, <1>4

\* Its other steps leave the references alone.
LEMMA DeleteRefs ==
    ASSUME Inv, RefInv, NEW d \in Deleter, Delete(d), ~ DelPut(d)
    PROVE  RefInv'
<1>1. UNCHANGED <<refVars, deferred, at>>
  BY DEF Delete, DelDisconnect, DelLock, DelScan, DelMark, DelAborted, DelLoad, DelCall, DelAvail,
         DelDrain, DelDrop, DelDestroy, fodVars, queueVars, deferVars
<1>. DEFINE Inside == {"begin", "lock", "scan", "mark", "waiting", "call", "fcp_abort", "drain", "drop",
                       "destroy", "put"}
<1>2. /\ del[d].pc \in Inside /\ del'[d].pc \in Inside
      /\ \A e \in Deleter \ {d} : del'[e] = del[e]
  <2>1. del \in [Deleter -> DelRec]
    BY DelKnows
  <2>2. CASE DelDisconnect(d) \/ DelLock(d)
    BY <2>1, <2>2 DEF DelDisconnect, DelLock, DelRec
  <2>3. CASE DelMark(d) \/ DelAborted(d) \/ DelLoad(d) \/ DelCall(d) \/ DelAvail(d) \/ DelDestroy(d)
    BY <2>1, <2>3 DEF DelMark, DelAborted, DelLoad, DelCall, DelAvail, DelDestroy, DelGoto, DelRec
  <2>4. CASE DelDrain(d) \/ DelDrop(d)
    BY <2>1, <2>4 DEF DelDrain, DelDrop, DelGoto, DelRec
  <2>5. ASSUME NEW f \in Fod, DelScan(d, f)
        PROVE  /\ del[d].pc \in Inside /\ del'[d].pc \in Inside
               /\ \A e \in Deleter \ {d} : del'[e] = del[e]
    <3>1. PICK p \in {"mark", "scan"}, g \in Fod \union {NoFod} :
            del' = [del EXCEPT ![d].todo = del[d].todo \ {f}, ![d].pc = p, ![d].fod = g]
      BY <2>5 DEF DelScan
    <3>. QED
      BY <2>1, <2>5, <3>1 DEF DelScan, DelRec
  <2>. QED
    BY <2>2, <2>3, <2>4, <2>5 DEF Delete
<1>3. Deleting' = Deleting /\ Dropped' = Dropped /\ Busy' = Busy
  BY <1>1, <1>2 DEF Deleting, Dropped, Busy
<1>4. CASE UNCHANGED stage
  <2>1. Arriving' = Arriving /\ DeferredOK'
    BY <1>1, <1>4 DEF Arriving, RefInv, DeferredOK
  <2>. QED
    BY <1>1, <1>3, <2>1, SameHolders
<1>5. CASE DelDrop(d)
  <2>1. /\ del[d].cmd \in Cmd /\ stage[del[d].cmd] = "pending"
        /\ Stage(del[d].cmd, "released")
    BY <1>5, DelKnows DEF DelDrop, Inv, OneOwner, DropOwns
  <2>2. DeferredOK'
    BY <1>1, <2>1, StagedOK DEF Stages
  <2>3. /\ stage'[del[d].cmd] = "released"
        /\ \A b \in Cmd \ {del[d].cmd} : stage'[b] = stage[b]
    BY <2>1 DEF Inv, TypeOK, Stage
  <2>4. Arriving' = Arriving
    BY <2>1, <2>3 DEF Arriving
  <2>. QED
    BY <1>1, <1>3, <2>2, <2>4, SameHolders
<1>. QED
  BY <1>4, <1>5
     DEF Delete, DelDisconnect, DelLock, DelScan, DelMark, DelAborted, DelLoad, DelCall, DelAvail,
         DelDrain, DelDestroy, cmdVars

\* At first the queue has the reference it was created with, ...
LEMMA RefInit ==
    ASSUME Init
    PROVE  RefInv
<1>1. Arriving = {} /\ Busy = {} /\ Deleting = {} /\ Dropped = {} /\ deferred = {}
  BY DEF Init, Arriving, Busy, Deleting, Dropped
<1>2. Cardinality({}) = 0
  BY FS_EmptySet
<1>3. RefsExact
  BY <1>1, <1>2 DEF RefsExact, Init
<1>4. DeferredOK
  BY DEF Init, DeferredOK
<1>. QED
  BY <1>3, <1>4 DEF RefInv, Init

\* ... and every step keeps the count.
LEMMA RefStep ==
    ASSUME Inv, RefInv, [Next]_vars
    PROVE  RefInv'
<1>1. CASE UNCHANGED vars
  BY <1>1 DEF RefInv, RefsExact, DeferredOK, Arriving, Busy, Deleting, Dropped, vars, cmdVars,
     fodVars, queueVars, refVars, deferVars
<1>2. ASSUME NEW c \in Cmd, FindTargetQueue(c) \/ Arrival(c) \/ AbtsLook(c) \/ Abort(c)
      PROVE  RefInv'
  BY <1>2, FindRefs, AllocRefs, NoFodRefs, AbtsRefs DEF Arrival
<1>3. ASSUME NEW f \in Fod, Work(f)
      PROVE  RefInv'
  BY <1>3, FodFreeRefs, WorkRefs
<1>4. ASSUME NEW d \in Deleter, DelGet(d) \/ Delete(d)
      PROVE  RefInv'
  BY <1>4, DelGetRefs, DelPutRefs, DeleteRefs
<1>. QED
  BY <1>1, <1>2, <1>3, <1>4 DEF Next

LEMMA RefInvariance == Spec => [](Inv /\ RefInv)
<1>1. Init => Inv /\ RefInv
  BY InvInit, RefInit
<1>2. (Inv /\ RefInv) /\ [Next]_vars => (Inv /\ RefInv)'
  BY InvStep, RefStep
<1>. QED
  BY <1>1, <1>2, PTL DEF Spec

\* The references of a queue are at any time exactly those of its creation, its
\* commands, its blocks in use and its deletions, and the ones that commands
\* which had to wait leave behind.
THEOREM RefsCorrect == Spec => []RefsExact
  BY RefInvariance, PTL DEF RefInv

\* As long as no more than one deletion has dropped the reference of the creation,
\* the queue is freed when the last of its users lets go of it, and not before,
\* however many threads delete it.
THEOREM FreedUnlessTwice == Spec => [](Cardinality(Dropped) <= 1 => FreedInTime)
<1>1. ASSUME Inv, RefInv, Cardinality(Dropped) <= 1
      PROVE  FreedInTime
  <2>1. QueueOutlives
    <3>1. SUFFICES ASSUME freed
                   PROVE  Arriving = {} /\ Busy = {} /\ Waiting = {} /\ Deleting = {}
      BY DEF QueueOutlives
    <3>2. ref = 0
      BY <1>1, <3>1 DEF RefInv
    <3>3. /\ Cardinality(Arriving) = 0 /\ Cardinality(Busy) = 0
          /\ Cardinality(Deleting) = 0 /\ Cardinality(deferred) = 0
      BY <1>1, <3>2, HoldersFinite DEF RefInv, RefsExact
    <3>4. Arriving = {} /\ Busy = {} /\ Deleting = {} /\ deferred = {}
      BY <1>1, <3>3, HoldersFinite, FS_EmptySet
    <3>5. \A c \in Waiting : c \in deferred
      BY <1>1 DEF Waiting, Inv, TypeOK, OneOwner, ListOwns, RefInv, DeferredOK
    <3>. QED
      BY <3>4, <3>5
  <2>2. FreedAtRest
    <3>1. SUFFICES ASSUME deferred = {}, NEW d \in Deleter, del[d].pc = "over",
                          Deleting = {}, Arriving = {}, Busy = {}
                   PROVE  freed
      BY DEF FreedAtRest
    <3>2. d \in Dropped
      BY <3>1 DEF Dropped
    <3>3. Cardinality(Dropped) # 0
      BY <1>1, <3>2, HoldersFinite, FS_EmptySet
    <3>4. ref + Cardinality(Dropped) = 1
      BY <1>1, <3>1, FS_EmptySet DEF RefInv, RefsExact
    <3>5. ref = 0
      BY <1>1, <3>3, <3>4, HoldersFinite
    <3>. QED
      BY <1>1, <3>5 DEF RefInv
  <2>. QED
    BY <2>1, <2>2 DEF FreedInTime
<1>2. Inv /\ RefInv => (Cardinality(Dropped) <= 1 => FreedInTime)
  BY <1>1
<1>. QED
  BY <1>2, RefInvariance, PTL

\* If only one thread deletes the queue, no more than one deletion ever does.
THEOREM FreedCorrect ==
    ASSUME Cardinality(Deleter) <= 1
    PROVE  Spec => []FreedInTime
<1>1. Inv => Cardinality(Dropped) <= 1
  BY FS_Subset, FS_CardinalityType, HoldersFinite DEF Dropped
<1>. QED
  BY <1>1, FreedUnlessTwice, RefInvariance, PTL

-----------------------------------------------------------------------------
(* What the driver was told.                                               *)

\* The queue is not being deleted and no ABTS has come.
Quiet == connected /\ \A c \in Cmd : abts[c].pc = "none"

\* How far the thread of a block is tells whether its command was answered, and
\* the block names no command but that one.
Early == {"submit", "reuse", "handle", "execute", "complete", "transfer", "chunk", "respond"}
Carries == {"READDATA_RSP", "RSP"}
Progress(f) ==
    /\ at[f] \in Early => answers[cmd[f]] = 0
    /\ at[f] \in Lldd /\ op[cmd[f]] \in Carries =>
         \/ answers[cmd[f]] = 1
         \/ at[f] = "failed" /\ op[cmd[f]] = "READDATA_RSP" /\ answers[cmd[f]] = 0
    /\ at[f] \in Lldd /\ op[cmd[f]] \notin Carries => answers[cmd[f]] = 0
    /\ at[f] \in {"abort", "free", "release"} => answers[cmd[f]] \in {0, 1}
    /\ at[f] = "execute" /\ dir[cmd[f]] = "write" => fod[f].offset = Chunks
    /\ fod[f].fcpreq \in {NoCmd, cmd[f]}
    /\ at[f] = "release" => fod[f].fcpreq = NoCmd
    /\ Quiet => ~ fod[f].aborted
    /\ Quiet /\ at[f] \in {"free", "release"} => answers[cmd[f]] > 0 \/ cmd[f] \in aborts

\* Without a block a command is not answered, and it is answered at most once.
Unanswered(c) ==
    /\ stage[c] \in {"new", "found", "kmalloc", "pending", "refused"} => answers[c] = 0
    /\ stage[c] = "released" => /\ answers[c] \in {0, 1}
                                /\ Quiet => answers[c] > 0 \/ c \in aborts

Untouched == Quiet => \A d \in Deleter : del[d].pc \in {"none", "begin"}

\* The inductive invariant of the exchange, beside Inv.
ExchangeInv == (\A f \in Fod : Progress(f)) /\ (\A c \in Cmd : Unanswered(c)) /\ Untouched

\* Quiet does not come back.
LEMMA QuietLasts ==
    ASSUME Inv, Next
    PROVE  Quiet' => Quiet
<1>1. ASSUME NEW c \in Cmd, FindTargetQueue(c) \/ Arrival(c) \/ AbtsLook(c) \/ Abort(c)
      PROVE  Quiet' => Quiet
  <2>1. CASE FindTargetQueue(c) \/ Arrival(c)
    BY <2>1 DEF FindTargetQueue, Arrival, AllocFod, NoFodFree, Kmalloc, queueVars, Quiet
  <2>2. CASE AbtsLook(c) \/ Abort(c)
    <3>1. abts \in [Cmd -> [pc : AbtsPc, fod : Fod \union {NoFod}]]
      BY DEF Inv, TypeOK
    <3>2. abts'[c].pc # "none"
      BY <2>2, <3>1, SMTT(30) DEF AbtsLook, Abort, AbtsLock, AbtsMark, AbtsGoto
    <3>. QED
      BY <3>2 DEF Quiet
  <2>. QED
    BY <1>1, <2>1, <2>2
<1>2. ASSUME NEW f \in Fod, Work(f)
      PROVE  Quiet' => Quiet
  BY <1>2 DEF Work, Submit, Handle, CmdDone, Transfer, LlddDone, WriteDone, NextChunk,
     ReadDone, RspDone, XmtRsp, AbortOp, FreeFod, Release, FodFree, FodNext, Reuse,
     queueVars, Quiet
<1>3. ASSUME NEW d \in Deleter, DelGet(d) \/ Delete(d)
      PROVE  Quiet' => Quiet
  BY <1>3 DEF DelGet, Delete, DelDisconnect, DelLock, DelScan, DelMark, DelAborted, DelLoad,
     DelCall, DelAvail, DelDrain, DelDrop, DelDestroy, DelPut, queueVars, Quiet
<1>. QED
  BY <1>1, <1>2, <1>3 DEF Next

-----------------------------------------------------------------------------
(* The thread of a block.                                                  *)

\* A step of the thread that works on f and keeps its command.
LEMMA WithinExchange ==
    ASSUME Inv, ExchangeInv, NEW f \in Fod, cmd[f] \in Cmd, at[f] \notin Outside,
           at' \in [Fod -> Places], UNCHANGED <<dir, stage, cmd, connected, abts, del>>,
           \A g \in Fod \ {f} : at'[g] = at[g] /\ fod'[g] = fod[g],
           \A c \in Cmd \ {cmd[f]} : op'[c] = op[c] /\ answers'[c] = answers[c],
           aborts \subseteq aborts',
           Progress(f)'
    PROVE  ExchangeInv'
<1>1. Quiet' = Quiet
  BY DEF Quiet
<1>2. ASSUME NEW g \in Fod, g # f
      PROVE  Progress(g)'
  <2>1. CASE cmd[g] = NoCmd
    <3>1. at[g] \in Outside
      BY <2>1 DEF Inv, BlocksOK, BlockOK
    <3>2. at'[g] \notin Early \union Lldd \union {"abort", "free", "release", "execute"}
      BY <1>2, <3>1 DEF Outside, Lldd, Early
    <3>. QED
      BY <1>1, <1>2, <2>1, <3>2 DEF Progress, ExchangeInv
  <2>2. CASE cmd[g] # NoCmd
    <3>1. cmd[g] \in Cmd \ {cmd[f]}
      BY <1>2, <2>2 DEF Inv, TypeOK, OneOwner, FodsOwn
    <3>2. op'[cmd[g]] = op[cmd[g]] /\ answers'[cmd[g]] = answers[cmd[g]]
      BY <3>1
    <3>. QED
      BY <1>1, <1>2, <3>2 DEF Progress, ExchangeInv
  <2>. QED
    BY <2>1, <2>2
<1>3. ASSUME NEW c \in Cmd
      PROVE  Unanswered(c)'
  <2>1. CASE c = cmd[f]
    <3>1. stage[c] \in {"running", "closing"}
      BY <2>1 DEF Inv, OneOwner, FodsOwn
    <3>. QED
      BY <3>1 DEF Unanswered
  <2>2. CASE c # cmd[f]
    BY <1>1, <2>2 DEF Unanswered, ExchangeInv
  <2>. QED
    BY <2>1, <2>2
<1>4. Untouched'
  BY <1>1 DEF Untouched, ExchangeInv
<1>. QED
  BY <1>2, <1>3, <1>4 DEF ExchangeInv

\* What such a thread starts from.
LEMMA Starts ==
    ASSUME Inv, ExchangeInv, NEW f \in Fod
    PROVE  /\ fod \in [Fod -> Fields] /\ at \in [Fod -> Places] /\ op \in [Cmd -> Ops]
           /\ answers \in [Cmd -> Nat] /\ aborts \subseteq Cmd \union {NoCmd}
           /\ BlockOK(f) /\ Progress(f)
           /\ cmd[f] \in Cmd \union {NoCmd} /\ dir \in [Cmd -> Dirs]
           /\ at[f] \notin Outside => cmd[f] \in Cmd
  BY HasCmd DEF Inv, TypeOK, BlocksOK, ExchangeInv

\* Neither the answers nor the operation change.
LEMMA QuietWork ==
    ASSUME Inv, ExchangeInv, NEW f \in Fod,
           \/ Submit(f) \/ Handle(f) \/ CmdDone(f) \/ LlddDone(f) \/ WriteDone(f)
           \/ NextChunk(f) \/ ReadDone(f) \/ RspDone(f) \/ Reuse(f)
    PROVE  ExchangeInv'
<1>1. at[f] \notin Outside /\ cmd[f] \in Cmd
  BY Starts DEF Submit, Handle, CmdDone, LlddDone, WriteDone, NextChunk, ReadDone, RspDone,
     Reuse, Outside
<1>2. UNCHANGED <<dir, stage, cmd, connected, abts, del, op, answers, aborts>>
  BY DEF Submit, Handle, CmdDone, LlddDone, WriteDone, NextChunk, ReadDone, RspDone, Reuse,
     cmdVars, lldd, queueVars
<1>3. /\ at' \in [Fod -> Places]
      /\ \A g \in Fod \ {f} : at'[g] = at[g] /\ fod'[g] = fod[g]
  BY Starts DEF Submit, Bind, Handle, CmdDone, LlddDone, WriteDone, NextChunk, ReadDone,
     RspDone, Reuse, Goto, Places, AllMoved, CarriedResponse
<1>4. Quiet' = Quiet
  BY <1>2 DEF Quiet
<1>5. /\ fod'[f].fcpreq \in {NoCmd, cmd[f]}
      /\ fod'[f].aborted = fod[f].aborted
  <2>1. CASE Submit(f) \/ Reuse(f)
    BY <1>1, <2>1, Starts DEF Submit, Reuse, Bind, Fields
  <2>2. CASE Handle(f)
    BY <1>1, <2>2, Starts DEF Handle, Progress, Fields
  <2>3. CASE CmdDone(f) \/ LlddDone(f) \/ NextChunk(f) \/ RspDone(f)
    BY <1>1, <2>3, Starts, SMTT(30)
       DEF CmdDone, LlddDone, NextChunk, RspDone, Progress, Fields
  <2>4. CASE WriteDone(f) \/ ReadDone(f)
    BY <1>1, <2>4, Starts DEF WriteDone, ReadDone, Progress, Fields
  <2>. QED
    BY <2>1, <2>2, <2>3, <2>4
<1>6. /\ at'[f] \in Early => answers[cmd[f]] = 0
      /\ at'[f] \in Lldd /\ op[cmd[f]] \in Carries =>
           \/ answers[cmd[f]] = 1
           \/ at'[f] = "failed" /\ op[cmd[f]] = "READDATA_RSP" /\ answers[cmd[f]] = 0
      /\ at'[f] \in Lldd /\ op[cmd[f]] \notin Carries => answers[cmd[f]] = 0
      /\ at'[f] \in {"abort", "free"} => answers[cmd[f]] \in {0, 1}
      /\ at'[f] = "free" => answers[cmd[f]] > 0
      /\ at'[f] # "release"
  <2>1. CASE Submit(f) \/ Reuse(f) \/ NextChunk(f)
    BY <1>1, <2>1, Starts DEF Progress, Submit, Bind, NextChunk, Reuse, Goto, Early, Lldd
  <2>2. CASE CmdDone(f)
    BY <1>1, <2>2, Starts DEF Progress, CmdDone, Goto, Early, Lldd
  <2>3. CASE LlddDone(f)
    BY <1>1, <2>3, Starts DEF Progress, LlddDone, Goto, Early, Lldd
  <2>4. CASE WriteDone(f)
    BY <1>1, <2>4, Starts DEF Progress, WriteDone, Goto, Early, Lldd, Carries
  <2>5. CASE ReadDone(f)
    BY <1>1, <2>5, Starts DEF Progress, ReadDone, Goto, Early, Lldd, Carries, CarriedResponse
  <2>6. CASE RspDone(f)
    BY <1>1, <2>6, Starts DEF Progress, RspDone, Goto, Early, Lldd, Carries
  <2>7. CASE Handle(f)
    <3>1. at[f] = "handle" /\ answers[cmd[f]] = 0
      BY <2>7, Starts DEF Handle, Progress, Early
    <3>2. at'[f] \in {"abort", "complete", "transfer", "execute"}
      BY <2>7, Starts, ZenonT(60) DEF Handle, Goto
    <3>. QED
      BY <3>1, <3>2 DEF Early, Lldd
  <2>. QED
    BY <2>1, <2>2, <2>3, <2>4, <2>5, <2>6, <2>7
<1>7. at'[f] = "execute" /\ dir[cmd[f]] = "write" => fod'[f].offset = Chunks
  BY <1>1, Starts DEF BlockOK, Lldd, Submit, Bind, Handle, CmdDone, LlddDone, WriteDone,
     NextChunk, ReadDone, RspDone, Reuse, Goto, Fields, AllMoved, CarriedResponse
<1>8. Progress(f)'
  BY <1>2, <1>4, <1>5, <1>6, <1>7, Starts DEF Progress
<1>. QED
  BY <1>1, <1>2, <1>3, <1>8, WithinExchange

\* A chunk goes to the driver, the last one of a read perhaps as the answer.
LEMMA TransferExchange ==
    ASSUME Inv, ExchangeInv, NEW f \in Fod, Transfer(f)
    PROVE  ExchangeInv'
<1>1. at[f] = "transfer" /\ at[f] \notin Outside /\ cmd[f] \in Cmd
  BY Starts DEF Transfer, Outside
<1>2. UNCHANGED <<dir, stage, cmd, connected, abts, del, aborts>>
  BY DEF Transfer, queueVars
<1>3. /\ at' \in [Fod -> Places]
      /\ \A g \in Fod \ {f} : at'[g] = at[g] /\ fod'[g] = fod[g]
      /\ \A c \in Cmd \ {cmd[f]} : op'[c] = op[c] /\ answers'[c] = answers[c]
  BY Starts DEF Transfer, Goto, Answered, Places
<1>4. Quiet' = Quiet
  BY <1>2 DEF Quiet
<1>5. op'[cmd[f]] = TransferOp(f) /\ answers[cmd[f]] = 0
  BY <1>1, Starts DEF Transfer, Progress, Early
<1>6. /\ fod'[f].fcpreq \in {NoCmd, cmd[f]}
      /\ fod'[f].aborted = fod[f].aborted
  BY <1>1, Starts DEF Progress, Transfer, Fields
<1>7. at'[f] \in {"lldd", "complete", "failed"}
  BY Starts DEF Transfer, Goto
<1>8. at'[f] = "lldd" /\ TransferOp(f) = "READDATA_RSP" => answers'[cmd[f]] = 1
  BY <1>1, <1>5, Starts DEF Transfer, Goto, Answered
<1>9. ~ (at'[f] = "lldd" /\ TransferOp(f) = "READDATA_RSP") => answers'[cmd[f]] = 0
  BY <1>1, <1>5, Starts DEF Transfer, Goto
<1>10. Progress(f)'
  BY <1>2, <1>4, <1>5, <1>6, <1>7, <1>8, <1>9, Starts
     DEF Progress, Early, Lldd, Carries, TransferOp
<1>. QED
  BY <1>1, <1>2, <1>3, <1>10, WithinExchange

\* The response goes to the driver.
LEMMA XmtRspExchange ==
    ASSUME Inv, ExchangeInv, NEW f \in Fod, XmtRsp(f)
    PROVE  ExchangeInv'
<1>1. at[f] = "respond" /\ at[f] \notin Outside /\ cmd[f] \in Cmd
  BY Starts DEF XmtRsp, Outside
<1>2. UNCHANGED <<dir, stage, cmd, connected, abts, del, aborts, fod>>
  BY DEF XmtRsp, queueVars
<1>3. /\ at' \in [Fod -> Places]
      /\ \A g \in Fod \ {f} : at'[g] = at[g] /\ fod'[g] = fod[g]
      /\ \A c \in Cmd \ {cmd[f]} : op'[c] = op[c] /\ answers'[c] = answers[c]
  BY Starts DEF XmtRsp, Goto, Answered, Places
<1>4. Quiet' = Quiet
  BY <1>2 DEF Quiet
<1>5. op'[cmd[f]] = "RSP" /\ answers[cmd[f]] = 0
  BY <1>1, Starts DEF XmtRsp, Progress, Early
<1>6. \/ at'[f] = "lldd" /\ answers'[cmd[f]] = 1
      \/ at'[f] = "abort" /\ answers'[cmd[f]] = 0
  BY <1>1, <1>5, Starts DEF XmtRsp, Goto, Answered
<1>7. Progress(f)'
  BY <1>2, <1>4, <1>5, <1>6, Starts DEF Progress, Early, Lldd, Carries
<1>. QED
  BY <1>1, <1>2, <1>3, <1>7, WithinExchange

\* The driver is told to abort the command, unless somebody else tells it.
LEMMA AbortOpExchange ==
    ASSUME Inv, ExchangeInv, NEW f \in Fod, AbortOp(f)
    PROVE  ExchangeInv'
<1>1. at[f] = "abort" /\ at[f] \notin Outside /\ cmd[f] \in Cmd
  BY Starts DEF AbortOp, Outside
<1>2. UNCHANGED <<dir, stage, cmd, connected, abts, del, op, answers>>
  BY DEF AbortOp, queueVars, cmdVars
<1>3. /\ at' \in [Fod -> Places] /\ at'[f] = "free"
      /\ \A g \in Fod \ {f} : at'[g] = at[g] /\ fod'[g] = fod[g]
  BY Starts DEF AbortOp, Goto, Places
<1>4. Quiet' = Quiet
  BY <1>2 DEF Quiet
<1>5. fod'[f].fcpreq = fod[f].fcpreq /\ fod'[f].aborted = fod[f].aborted
  BY Starts DEF AbortOp, Fields
<1>6. aborts \subseteq aborts' /\ (Quiet => cmd[f] \in aborts')
  BY Starts DEF AbortOp, Told, Progress
<1>7. Progress(f)'
  BY <1>1, <1>2, <1>3, <1>4, <1>5, <1>6, Starts DEF Progress, Early, Lldd
<1>. QED
  BY <1>1, <1>2, <1>3, <1>6, <1>7, WithinExchange

-----------------------------------------------------------------------------
(* The other steps.                                                        *)

\* One block, or none, is left or taken over; the others go on as they were.
LEMMA BlocksProgress ==
    ASSUME Inv, ExchangeInv, NEW f \in Fod, UNCHANGED <<dir, op, answers>>,
           Quiet' => Quiet, aborts \subseteq aborts',
           \A g \in Fod \ {f} : at'[g] = at[g] /\ cmd'[g] = cmd[g] /\ fod'[g] = fod[g],
           Progress(f)'
    PROVE  \A g \in Fod : Progress(g)'
  BY DEF ExchangeInv, Progress

\* A free block gets a command that was not answered.
LEMMA AllocExchange ==
    ASSUME Inv, ExchangeInv, NEW c \in Cmd, AllocFod(c)
    PROVE  ExchangeInv'
<1>1. PICK f \in fod_list :
        /\ fod' = [fod EXCEPT ![f].active = TRUE]
        /\ at' = [at EXCEPT ![f] = "submit"]
        /\ cmd' = [cmd EXCEPT ![f] = c]
  BY DEF AllocFod
<1>2. f \in Fod /\ at[f] = "idle" /\ cmd[f] = NoCmd /\ fod_list \subseteq Fod
  BY HasCmd DEF Inv, TypeOK, OneOwner, Busy, Outside
<1>3. UNCHANGED <<dir, op, answers, aborts, connected, abts, del>>
  BY DEF AllocFod, lldd, queueVars
<1>4. stage[c] = "found" /\ stage'[c] = "running" /\ \A b \in Cmd \ {c} : stage'[b] = stage[b]
  BY DEF Inv, TypeOK, AllocFod, Stage
<1>5. Quiet' = Quiet
  BY <1>3 DEF Quiet
<1>6. /\ at'[f] = "submit" /\ cmd'[f] = c
      /\ fod'[f].fcpreq = NoCmd /\ fod'[f].aborted = fod[f].aborted
      /\ \A g \in Fod \ {f} : at'[g] = at[g] /\ cmd'[g] = cmd[g] /\ fod'[g] = fod[g]
  BY <1>1, <1>2, Starts DEF Inv, TypeOK, Fields, Progress
<1>7. answers[c] = 0
  BY <1>4 DEF ExchangeInv, Unanswered
<1>8. Progress(f)'
  BY <1>2, <1>3, <1>5, <1>6, <1>7, Starts DEF Progress, Lldd
<1>9. \A g \in Fod : Progress(g)'
  BY <1>2, <1>3, <1>5, <1>6, <1>8, BlocksProgress
<1>10. \A b \in Cmd : Unanswered(b)'
  BY <1>3, <1>4, <1>5 DEF ExchangeInv, Unanswered
<1>11. Untouched'
  BY <1>3, <1>5 DEF ExchangeInv, Untouched
<1>. QED
  BY <1>9, <1>10, <1>11 DEF ExchangeInv

\* So does a block whose command is done.
LEMMA FodNextExchange ==
    ASSUME Inv, ExchangeInv, NEW f \in Fod, FodNext(f)
    PROVE  ExchangeInv'
<1>. DEFINE c == Head(pending)
<1>1. c \in Cmd /\ stage[c] = "pending"
  BY HeadTail DEF FodNext, Rest
<1>2. UNCHANGED <<dir, op, answers, aborts, connected, abts, del, fod>>
  BY DEF FodNext, lldd
<1>3. stage'[c] = "running" /\ \A b \in Cmd \ {c} : stage'[b] = stage[b]
  BY <1>1 DEF Inv, TypeOK, FodNext, Stage
<1>4. Quiet' = Quiet
  BY <1>2 DEF Quiet
<1>5. /\ at'[f] = "reuse" /\ cmd'[f] = c /\ cmd[f] = NoCmd
      /\ \A g \in Fod \ {f} : at'[g] = at[g] /\ cmd'[g] = cmd[g] /\ fod'[g] = fod[g]
  BY <1>2, HasCmd DEF Inv, TypeOK, FodNext, Goto, Outside
<1>6. answers[c] = 0
  BY <1>1 DEF ExchangeInv, Unanswered
<1>7. Progress(f)'
  BY <1>2, <1>4, <1>5, <1>6, Starts DEF Progress, Lldd
<1>8. \A g \in Fod : Progress(g)'
  BY <1>2, <1>4, <1>5, <1>7, BlocksProgress
<1>9. \A b \in Cmd : Unanswered(b)'
  BY <1>1, <1>2, <1>3, <1>4 DEF ExchangeInv, Unanswered
<1>10. Untouched'
  BY <1>2, <1>4 DEF ExchangeInv, Untouched
<1>. QED
  BY <1>8, <1>9, <1>10 DEF ExchangeInv

\* The driver has heard of the command when the block forgets it ...
LEMMA FreeFodExchange ==
    ASSUME Inv, ExchangeInv, NEW f \in Fod, FreeFod(f)
    PROVE  ExchangeInv'
<1>. DEFINE c == cmd[f]
<1>1. /\ c \in Cmd /\ at[f] = "free" /\ stage[c] \in {"running", "closing"}
      /\ answers[c] \in {0, 1}
      /\ Quiet => answers[c] > 0 \/ c \in aborts
  BY HasCmd, Starts DEF FreeFod, Outside, Inv, OneOwner, FodsOwn, Progress
<1>2. UNCHANGED <<dir, op, cmd, answers, aborts, connected, abts, del>>
  BY DEF FreeFod, lldd, queueVars
<1>3. stage'[c] = "closing" /\ \A b \in Cmd \ {c} : stage'[b] = stage[b]
  BY <1>1 DEF Inv, TypeOK, FreeFod, Stage
<1>4. Quiet' = Quiet
  BY <1>2 DEF Quiet
<1>5. /\ at'[f] = "release" /\ fod'[f].fcpreq = NoCmd /\ fod'[f].aborted = FALSE
      /\ \A g \in Fod \ {f} : at'[g] = at[g] /\ fod'[g] = fod[g]
  BY Starts DEF Inv, TypeOK, FreeFod, Goto, Fields
<1>6. Progress(f)'
  BY <1>1, <1>2, <1>4, <1>5 DEF Progress, Early, Lldd
<1>7. \A g \in Fod : Progress(g)'
  BY <1>2, <1>4, <1>5, <1>6, BlocksProgress
<1>8. \A b \in Cmd : Unanswered(b)'
  BY <1>1, <1>2, <1>3, <1>4 DEF ExchangeInv, Unanswered
<1>9. Untouched'
  BY <1>2, <1>4 DEF ExchangeInv, Untouched
<1>. QED
  BY <1>7, <1>8, <1>9 DEF ExchangeInv

\* ... and the driver gets it back.
LEMMA ReleaseExchange ==
    ASSUME Inv, ExchangeInv, NEW f \in Fod, Release(f)
    PROVE  ExchangeInv'
<1>. DEFINE c == cmd[f]
<1>1. c \in Cmd /\ at[f] = "release" /\ stage[c] \in {"running", "closing"}
  BY HasCmd DEF Release, Outside, Inv, OneOwner, FodsOwn
<1>2. UNCHANGED <<dir, op, fod, answers, aborts, connected, abts, del>>
  BY DEF Release, lldd, queueVars
<1>3. stage'[c] = "released" /\ \A b \in Cmd \ {c} : stage'[b] = stage[b]
  BY <1>1 DEF Inv, TypeOK, Release, Stage
<1>4. Quiet' = Quiet
  BY <1>2 DEF Quiet
<1>5. /\ at'[f] = "next" /\ cmd'[f] = NoCmd
      /\ \A g \in Fod \ {f} : at'[g] = at[g] /\ cmd'[g] = cmd[g]
  BY Starts DEF Inv, TypeOK, Release, Goto
<1>6. fod[f].fcpreq = NoCmd
  BY <1>1, Starts DEF Progress
<1>7. Progress(f)'
  BY <1>2, <1>4, <1>5, <1>6, Starts DEF Progress, Early, Lldd
<1>8. \A g \in Fod : Progress(g)'
  BY <1>2, <1>4, <1>5, <1>7, BlocksProgress
<1>9. \A b \in Cmd : Unanswered(b)'
  BY <1>1, <1>2, <1>3, <1>4, Starts DEF ExchangeInv, Unanswered, Progress
<1>10. Untouched'
  BY <1>2, <1>4 DEF ExchangeInv, Untouched
<1>. QED
  BY <1>8, <1>9, <1>10 DEF ExchangeInv

LEMMA FodFreeExchange ==
    ASSUME Inv, ExchangeInv, NEW f \in Fod, FodFree(f)
    PROVE  ExchangeInv'
<1>1. UNCHANGED <<dir, op, answers, aborts, connected, abts, del, fod, cmd, stage>>
  BY DEF FodFree, cmdVars, lldd
<1>2. Quiet' = Quiet
  BY <1>1 DEF Quiet
<1>3. at'[f] = "idle" /\ \A g \in Fod \ {f} : at'[g] = at[g]
  BY DEF Inv, TypeOK, FodFree, Goto
<1>4. Progress(f)'
  BY <1>1, <1>2, <1>3, Starts DEF Progress, Early, Lldd
<1>5. \A g \in Fod : Progress(g)'
  BY <1>1, <1>2, <1>3, <1>4, BlocksProgress
<1>. QED
  BY <1>1, <1>2, <1>5 DEF ExchangeInv, Unanswered, Untouched

\* A command on its way in.
LEMMA ArrivalExchange ==
    ASSUME Inv, ExchangeInv, NEW c \in Cmd,
           FindTargetQueue(c) \/ NoFodFree(c) \/ Kmalloc(c)
    PROVE  ExchangeInv'
<1>1. UNCHANGED <<dir, op, answers, aborts, connected, abts, del, fod, cmd, at>>
  BY DEF FindTargetQueue, NoFodFree, Kmalloc, lldd, fodVars
<1>2. Quiet' = Quiet
  BY <1>1 DEF Quiet
<1>3. PICK s \in {"found", "refused", "pending", "kmalloc"} : Stage(c, s)
  BY DEF FindTargetQueue, NoFodFree, Kmalloc, Refuse, Defer
<1>4. /\ stage[c] \in {"new", "found", "kmalloc"}
      /\ stage'[c] = s /\ \A b \in Cmd \ {c} : stage'[b] = stage[b]
  BY <1>3 DEF Inv, TypeOK, Stage, FindTargetQueue, NoFodFree, Kmalloc
<1>5. \A g \in Fod : Progress(g)'
  BY <1>1, <1>2 DEF ExchangeInv, Progress
<1>6. \A b \in Cmd : Unanswered(b)'
  BY <1>1, <1>2, <1>4 DEF ExchangeInv, Unanswered
<1>. QED
  BY <1>1, <1>2, <1>5, <1>6 DEF ExchangeInv, Untouched

\* A step after which the queue is being deleted, or an ABTS has come, and which
\* leaves the commands and their answers alone.
LEMMA NoisyExchange ==
    ASSUME Inv, ExchangeInv, ~ Quiet', UNCHANGED <<dir, stage, at, cmd, op, answers>>,
           \A f \in Fod : fod'[f].offset = fod[f].offset /\ fod'[f].fcpreq = fod[f].fcpreq
    PROVE  ExchangeInv'
<1>1. \A f \in Fod : Progress(f)'
  BY DEF ExchangeInv, Progress
<1>2. \A c \in Cmd : Unanswered(c)'
  BY DEF ExchangeInv, Unanswered
<1>. QED
  BY <1>1, <1>2 DEF ExchangeInv, Untouched

\* An ABTS comes, and marks a block.
LEMMA AbtsExchange ==
    ASSUME Inv, ExchangeInv, NEW c \in Cmd, AbtsLook(c) \/ Abort(c)
    PROVE  ExchangeInv'
<1>1. UNCHANGED <<dir, stage, at, cmd, op, answers>>
  BY DEF AbtsLook, Abort, AbtsLock, AbtsMark, cmdVars, lldd, fodVars
<1>2. ~ Quiet'
  <2>1. abts \in [Cmd -> [pc : AbtsPc, fod : Fod \union {NoFod}]]
    BY DEF Inv, TypeOK
  <2>2. abts'[c].pc # "none"
    BY <2>1 DEF AbtsLook, Abort, AbtsLock, AbtsMark, AbtsGoto
  <2>. QED
    BY <2>2 DEF Quiet
<1>3. \A f \in Fod : fod'[f].offset = fod[f].offset /\ fod'[f].fcpreq = fod[f].fcpreq
  <2>1. CASE UNCHANGED fod
    BY <2>1
  <2>2. CASE AbtsMark(c)
    <3>1. fod \in [Fod -> Fields]
      BY DEF Inv, TypeOK
    <3>2. fod' = [fod EXCEPT ![abts[c].fod].abort = TRUE, ![abts[c].fod].aborted = TRUE]
      BY <2>2 DEF AbtsMark
    <3>. QED
      BY <3>1, <3>2 DEF Fields
  <2>. QED
    BY <2>1, <2>2 DEF AbtsLook, Abort, AbtsLock, fodVars
<1>. QED
  BY <1>1, <1>2, <1>3, NoisyExchange

\* A deletion begins ...
LEMMA DelGetExchange ==
    ASSUME Inv, ExchangeInv, NEW d \in Deleter, DelGet(d)
    PROVE  ExchangeInv'
<1>1. UNCHANGED <<dir, stage, fod, at, cmd, op, answers, aborts, connected, abts>>
  BY DEF DelGet, cmdVars, lldd, fodVars
<1>2. Quiet' = Quiet
  BY <1>1 DEF Quiet
<1>3. del'[d].pc = "begin" /\ \A e \in Deleter \ {d} : del'[e] = del[e]
  BY DelKnows DEF DelGet, DelGoto, DelRec
<1>4. Untouched'
  BY <1>2, <1>3 DEF ExchangeInv, Untouched
<1>5. (\A f \in Fod : Progress(f)') /\ \A c \in Cmd : Unanswered(c)'
  BY <1>1, <1>2 DEF ExchangeInv, Progress, Unanswered
<1>. QED
  BY <1>4, <1>5 DEF ExchangeInv

\* ... and goes on.
LEMMA DeleteNoisy ==
    ASSUME Inv, ExchangeInv, NEW d \in Deleter, Delete(d)
    PROVE  ~ Quiet'
<1>1. CASE DelDisconnect(d)
  BY <1>1 DEF DelDisconnect, Quiet
<1>2. CASE ~ DelDisconnect(d)
  <2>1. del[d].pc \notin {"none", "begin"}
    BY <1>2 DEF Delete, DelLock, DelScan, DelMark, DelAborted, DelLoad, DelCall, DelAvail,
       DelDrain, DelDrop, DelDestroy, DelPut
  <2>2. ~ Quiet
    BY <2>1, ZenonT(60) DEF ExchangeInv, Untouched
  <2>3. UNCHANGED <<connected, abts>>
    BY <1>2 DEF Delete, DelLock, DelScan, DelMark, DelAborted, DelLoad, DelCall, DelAvail,
       DelDrain, DelDrop, DelDestroy, DelPut, queueVars
  <2>. QED
    BY <2>2, <2>3, ZenonT(60) DEF Quiet
<1>. QED
  BY <1>1, <1>2

\* What a deletion leaves of the blocks.
LEMMA DeleteBlocks ==
    ASSUME Inv, NEW d \in Deleter, Delete(d)
    PROVE  /\ UNCHANGED <<dir, at, cmd, op, answers>>
           /\ \A f \in Fod : /\ fod'[f].offset = fod[f].offset
                             /\ fod'[f].fcpreq = fod[f].fcpreq
           /\ DelDrop(d) \/ UNCHANGED stage
<1>1. CASE DelMark(d) \/ DelAborted(d)
  <2>1. fod \in [Fod -> Fields]
    BY DEF Inv, TypeOK
  <2>2. \/ fod' = [fod EXCEPT ![del[d].fod].abort = TRUE]
        \/ fod' = [fod EXCEPT ![del[d].fod].aborted = TRUE]
    BY <1>1 DEF DelMark, DelAborted
  <2>3. \A f \in Fod : fod'[f].offset = fod[f].offset /\ fod'[f].fcpreq = fod[f].fcpreq
    BY <2>1, <2>2, SMTT(30) DEF Fields
  <2>. QED
    BY <1>1, <2>3 DEF DelMark, DelAborted, cmdVars, lldd
<1>2. CASE ~ (DelMark(d) \/ DelAborted(d))
  BY <1>2 DEF Delete, DelDisconnect, DelLock, DelScan, DelLoad, DelCall, DelAvail, DelDrain,
     DelDrop, DelDestroy, DelPut, cmdVars, lldd, fodVars
<1>. QED
  BY <1>1, <1>2

LEMMA DeleteExchange ==
    ASSUME Inv, ExchangeInv, NEW d \in Deleter, Delete(d)
    PROVE  ExchangeInv'
<1>1. CASE UNCHANGED stage
  BY <1>1, DeleteNoisy, DeleteBlocks, NoisyExchange
<1>2. CASE DelDrop(d)
  <2>. DEFINE c == del[d].cmd
  <2>1. c \in Cmd /\ stage[c] = "pending"
    BY <1>2, DelKnows DEF DelDrop, Inv, OneOwner, DropOwns
  <2>2. stage'[c] = "released" /\ \A b \in Cmd \ {c} : stage'[b] = stage[b]
    BY <1>2, <2>1 DEF Inv, TypeOK, DelDrop, Stage
  <2>3. \A b \in Cmd : Unanswered(b)'
    BY <2>1, <2>2, DeleteNoisy, DeleteBlocks DEF ExchangeInv, Unanswered
  <2>4. \A f \in Fod : Progress(f)'
    BY DeleteNoisy, DeleteBlocks DEF ExchangeInv, Progress
  <2>. QED
    BY <2>3, <2>4, DeleteNoisy DEF ExchangeInv, Untouched
<1>. QED
  BY <1>1, <1>2, DeleteBlocks

\* The driver was told nothing at first, ...
LEMMA ExchangeInit ==
    ASSUME Init
    PROVE  ExchangeInv
<1>1. ASSUME NEW f \in Fod
      PROVE  Progress(f)
  BY DEF Init, Blank, Progress, Early, Lldd
<1>2. ASSUME NEW c \in Cmd
      PROVE  Unanswered(c)
  BY DEF Init, Unanswered
<1>. QED
  BY <1>1, <1>2 DEF Init, ExchangeInv, Untouched

\* ... and every step keeps the invariant.
LEMMA ExchangeStep ==
    ASSUME Inv, ExchangeInv, [Next]_vars
    PROVE  ExchangeInv'
<1>1. CASE UNCHANGED vars
  BY <1>1 DEF ExchangeInv, Progress, Unanswered, Untouched, Quiet, vars, cmdVars, lldd,
     fodVars, queueVars
<1>2. ASSUME NEW c \in Cmd, FindTargetQueue(c) \/ Arrival(c) \/ AbtsLook(c) \/ Abort(c)
      PROVE  ExchangeInv'
  BY <1>2, ArrivalExchange, AllocExchange, AbtsExchange DEF Arrival
<1>3. ASSUME NEW f \in Fod, Work(f)
      PROVE  ExchangeInv'
  BY <1>3, QuietWork, TransferExchange, XmtRspExchange, AbortOpExchange, FreeFodExchange,
     ReleaseExchange, FodFreeExchange, FodNextExchange DEF Work
<1>4. ASSUME NEW d \in Deleter, DelGet(d) \/ Delete(d)
      PROVE  ExchangeInv'
  BY <1>4, DelGetExchange, DeleteExchange
<1>. QED
  BY <1>1, <1>2, <1>3, <1>4 DEF Next

LEMMA ExchangeInvariance == Spec => [](Inv /\ ExchangeInv)
<1>1. Init => Inv /\ ExchangeInv
  BY InvInit, ExchangeInit
<1>2. (Inv /\ ExchangeInv) /\ [Next]_vars => (Inv /\ ExchangeInv)'
  BY InvStep, ExchangeStep
<1>. QED
  BY <1>1, <1>2, PTL DEF Spec

\* The NVMe layer executes a write only when the driver has fetched all its data.
THEOREM WriteCorrect == Spec => []WriteAfterData
<1>1. ExchangeInv => WriteAfterData
  BY DEF ExchangeInv, Progress, WriteAfterData
<1>. QED
  BY <1>1, ExchangeInvariance, PTL

\* Unless the queue is deleted or an ABTS comes, the driver hears of each command
\* before it gets it back.
THEOREM HeardCorrect == Spec => []HeardOf
<1>1. ExchangeInv => HeardOf
  BY DEF ExchangeInv, Unanswered, HeardOf, Quiet
<1>. QED
  BY <1>1, ExchangeInvariance, PTL

-----------------------------------------------------------------------------
(* The command a deletion tells the driver to abort.                       *)

\* A block names its command from its binding on until it is freed, the stage of
\* the command tells when that is, and only the data of a write is fetched.
Unbound == Outside \union {"submit", "reuse", "release"}
Serves(f) ==
    /\ cmd[f] # NoCmd => stage[cmd[f]] = IF at[f] = "release" THEN "closing" ELSE "running"
    /\ fod[f].fcpreq = IF at[f] \in Unbound THEN NoCmd ELSE cmd[f]
    /\ fod[f].writedataactive => \/ at[f] = "transfer" /\ dir[cmd[f]] = "write"
                                 \/ at[f] \in Lldd /\ op[cmd[f]] = "WRITEDATA"
    /\ at[f] = "chunk" => dir[cmd[f]] = "write"

\* Who holds qlock between two of its steps.
Holding == {"scan", "mark", "waiting", "call", "fcp_abort", "drain"}
LockOK == /\ \A d \in Deleter : del[d].pc \in Holding => qlock = d
          /\ \A c \in Cmd : abts[c].pc = "mark" => qlock = c

\* As long as a deletion holds qlock, the block it looks at serves the command it
\* served then, or has given it back and waits for qlock.  What the deletion then
\* reads there is that command, or nothing when the command was being closed.
Caught(f, c) ==
    /\ at[f] \notin {"submit", "reuse", "idle"}
    /\ \/ cmd[f] = c
       \/ at[f] = "next" /\ stage[c] = "released"
Past == {"running", "closing", "released"}
DoomOK(d) ==
    /\ del[d].doomed # NoCmd <=> del[d].pc \in {"waiting", "call", "fcp_abort"}
    /\ del[d].doomed # NoCmd => stage[del[d].doomed] \in Past
    /\ del[d].pc \in {"waiting", "call"} => Caught(del[d].fod, del[d].doomed)
    /\ del[d].pc = "fcp_abort" =>
         \/ del[d].fcpreq = del[d].doomed
         \/ del[d].fcpreq = NoCmd /\ stage[del[d].doomed] \in {"closing", "released"}

ServeInv == (\A f \in Fod : Serves(f)) /\ LockOK
DoomInv == \A d \in Deleter : DoomOK(d)

\* What the thread of one block does leaves the other blocks right.
LEMMA OthersServe ==
    ASSUME Inv, Inv', ServeInv, NEW f \in Fod, UNCHANGED dir,
           \A g \in Fod \ {f} : at'[g] = at[g] /\ cmd'[g] = cmd[g] /\ fod'[g] = fod[g],
           \A c \in Cmd \ {cmd[f], cmd'[f]} : op'[c] = op[c] /\ stage'[c] = stage[c],
           Serves(f)'
    PROVE  \A g \in Fod : Serves(g)'
<1>1. ASSUME NEW g \in Fod, g # f
      PROVE  Serves(g)'
  <2>1. CASE cmd[g] = NoCmd
    <3>1. at[g] \in Outside
      BY <2>1 DEF Inv, BlocksOK, BlockOK
    <3>. QED
      BY <1>1, <2>1, <3>1 DEF ServeInv, Serves, Outside, Lldd
  <2>2. CASE cmd[g] # NoCmd
    <3>1. cmd[g] \in Cmd \ {cmd[f], cmd'[f]}
      BY <1>1, <2>2 DEF Inv, TypeOK, OneOwner, FodsOwn
    <3>2. op'[cmd[g]] = op[cmd[g]] /\ stage'[cmd[g]] = stage[cmd[g]]
      BY <3>1
    <3>. QED
      BY <1>1, <3>2 DEF ServeInv, Serves
  <2>. QED
    BY <2>1, <2>2
<1>. QED
  BY <1>1

\* What such a thread starts from.
LEMMA ServeStarts ==
    ASSUME Inv, ServeInv, NEW f \in Fod
    PROVE  /\ fod \in [Fod -> Fields] /\ at \in [Fod -> Places] /\ op \in [Cmd -> Ops]
           /\ cmd \in [Fod -> Cmd \union {NoCmd}] /\ stage \in [Cmd -> Stages]
           /\ BlockOK(f) /\ Serves(f)
           /\ at[f] \notin Outside => cmd[f] \in Cmd /\ cmd[f] # NoCmd
  BY HasCmd DEF Inv, TypeOK, BlocksOK, ServeInv

\* The thread of a block, while it keeps its command ...
LEMMA KeptServe ==
    ASSUME Inv, ServeInv, NEW f \in Fod,
           \/ Submit(f) \/ Handle(f) \/ CmdDone(f) \/ Transfer(f) \/ LlddDone(f)
           \/ WriteDone(f) \/ NextChunk(f) \/ ReadDone(f) \/ RspDone(f) \/ XmtRsp(f)
           \/ AbortOp(f) \/ Reuse(f)
    PROVE  /\ Serves(f)'
           /\ at[f] \notin Outside /\ cmd[f] \in Cmd
           /\ UNCHANGED <<dir, stage, cmd>>
           /\ \A g \in Fod \ {f} : at'[g] = at[g] /\ fod'[g] = fod[g]
           /\ \A c \in Cmd \ {cmd[f]} : op'[c] = op[c]
           /\ at'[f] \notin Outside \union {"submit", "reuse"}
<1>1. CASE Submit(f) \/ Reuse(f)
  BY <1>1, ServeStarts
     DEF Submit, Reuse, Bind, Goto, Serves, Unbound, Outside, Lldd, Fields
<1>2. CASE Handle(f)
  <2>1. /\ at[f] = "handle" /\ at[f] \notin Outside /\ cmd[f] \in Cmd
        /\ fod[f].fcpreq = cmd[f] /\ ~ fod[f].writedataactive
    BY <1>2, ServeStarts DEF Handle, Serves, Unbound, Outside, Lldd
  <2>2. /\ UNCHANGED <<dir, stage, cmd, op>>
        /\ at'[f] \in {"abort", "complete", "transfer", "execute"}
        /\ \A g \in Fod \ {f} : at'[g] = at[g]
    BY <1>2, ServeStarts, ZenonT(60) DEF Handle, Goto, cmdVars
  <2>3. /\ fod'[f].fcpreq = cmd[f] /\ ~ fod'[f].writedataactive
        /\ \A g \in Fod \ {f} : fod'[g] = fod[g]
    BY <1>2, <2>1, ServeStarts DEF Handle, Fields
  <2>. QED
    BY <2>1, <2>2, <2>3, ServeStarts DEF Serves, Unbound, Outside
<1>3. CASE CmdDone(f)
  BY <1>3, ServeStarts DEF CmdDone, Goto, Serves, Unbound, Outside, Lldd, Fields, cmdVars
<1>4. CASE Transfer(f)
  BY <1>4, ServeStarts
     DEF Transfer, TransferOp, Goto, Serves, Unbound, Outside, Lldd, Fields
<1>5. CASE LlddDone(f) \/ NextChunk(f)
  BY <1>5, ServeStarts
     DEF LlddDone, NextChunk, Goto, Serves, Unbound, Outside, Lldd, Fields, cmdVars
<1>6. CASE WriteDone(f)
  BY <1>6, ServeStarts
     DEF WriteDone, Goto, Serves, Unbound, Outside, Lldd, Fields, cmdVars, BlockOK
<1>7. CASE ReadDone(f) \/ RspDone(f)
  BY <1>7, ServeStarts
     DEF ReadDone, RspDone, Goto, Serves, Unbound, Outside, Lldd, Fields, cmdVars
<1>8. CASE XmtRsp(f) \/ AbortOp(f)
  BY <1>8, ServeStarts
     DEF XmtRsp, AbortOp, Goto, Serves, Unbound, Outside, Lldd, Fields, cmdVars
<1>. QED
  BY <1>1, <1>2, <1>3, <1>4, <1>5, <1>6, <1>7, <1>8

\* ... when it gives it back ...
LEMMA FreeServe ==
    ASSUME Inv, ServeInv, NEW f \in Fod, FreeFod(f) \/ Release(f)
    PROVE  /\ Serves(f)' /\ UNCHANGED <<dir, op>>
           /\ cmd[f] \in Cmd /\ stage[cmd[f]] \in Past
           /\ \A g \in Fod \ {f} : at'[g] = at[g] /\ cmd'[g] = cmd[g] /\ fod'[g] = fod[g]
           /\ \A c \in Cmd \ {cmd[f]} : stage'[c] = stage[c]
           /\ FreeFod(f) => /\ at'[f] = "release" /\ cmd'[f] = cmd[f]
                            /\ stage[cmd[f]] = "running" /\ stage'[cmd[f]] = "closing"
           /\ Release(f) => /\ at'[f] = "next"
                            /\ stage[cmd[f]] = "closing" /\ stage'[cmd[f]] = "released"
<1>1. CASE FreeFod(f)
  <2>1. at[f] = "free" /\ cmd[f] \in Cmd /\ stage[cmd[f]] = "running"
    BY <1>1, ServeStarts DEF FreeFod, Serves, Outside
  <2>2. /\ at' = [at EXCEPT ![f] = "release"] /\ UNCHANGED <<cmd, dir, op>>
        /\ stage' = [stage EXCEPT ![cmd[f]] = "closing"]
    BY <1>1 DEF FreeFod, Goto, Stage
  <2>3. /\ fod'[f].fcpreq = NoCmd /\ ~ fod'[f].writedataactive
        /\ \A g \in Fod \ {f} : fod'[g] = fod[g]
    BY <1>1, ServeStarts DEF FreeFod, Fields
  <2>4. Serves(f)'
    BY <2>1, <2>2, <2>3, ServeStarts DEF Serves, Unbound, Outside
  <2>. QED
    BY <2>1, <2>2, <2>3, <2>4, ServeStarts DEF Release, Past
<1>2. CASE Release(f)
  <2>1. /\ at[f] = "release" /\ cmd[f] \in Cmd /\ stage[cmd[f]] = "closing"
        /\ fod[f].fcpreq = NoCmd /\ ~ fod[f].writedataactive
    BY <1>2, ServeStarts DEF Release, Serves, Unbound, Outside, Lldd
  <2>2. /\ at' = [at EXCEPT ![f] = "next"] /\ cmd' = [cmd EXCEPT ![f] = NoCmd]
        /\ stage' = [stage EXCEPT ![cmd[f]] = "released"] /\ UNCHANGED <<dir, op, fod>>
    BY <1>2 DEF Release, Goto, Stage
  <2>3. Serves(f)'
    BY <2>1, <2>2, ServeStarts DEF Serves, Unbound, Outside
  <2>. QED
    BY <2>1, <2>2, <2>3, ServeStarts DEF FreeFod, Past
<1>. QED
  BY <1>1, <1>2

\* ... and when the block becomes free or takes the next one.
LEMMA NextServe ==
    ASSUME Inv, ServeInv, NEW f \in Fod, FodFree(f) \/ FodNext(f)
    PROVE  /\ Serves(f)' /\ UNCHANGED <<dir, op, fod>> /\ qlock = Nobody
           /\ \A g \in Fod \ {f} : at'[g] = at[g] /\ cmd'[g] = cmd[g]
           /\ \A c \in Cmd : \/ stage'[c] = stage[c]
                             \/ c = cmd'[f] /\ stage[c] = "pending"
<1>1. CASE FodFree(f)
  <2>1. at[f] = "next" /\ cmd[f] = NoCmd /\ fod[f].fcpreq = NoCmd /\ ~ fod[f].writedataactive
    BY <1>1, HasCmd, ServeStarts DEF FodFree, Serves, Unbound, Outside, Lldd
  <2>2. /\ at' = [at EXCEPT ![f] = "idle"]
        /\ UNCHANGED <<dir, op, fod, cmd, stage>> /\ qlock = Nobody
    BY <1>1 DEF FodFree, Goto, cmdVars
  <2>3. Serves(f)'
    BY <2>1, <2>2, ServeStarts DEF Serves, Unbound, Outside
  <2>. QED
    BY <2>2, <2>3, ServeStarts
<1>2. CASE FodNext(f)
  <2>1. Head(pending) \in Cmd /\ stage[Head(pending)] = "pending"
    BY <1>2, HeadTail DEF FodNext, Rest
  <2>. QED
    <3>1. at[f] = "next" /\ fod[f].fcpreq = NoCmd /\ ~ fod[f].writedataactive
      BY <1>2, HasCmd, ServeStarts DEF FodNext, Serves, Unbound, Outside, Lldd
    <3>2. /\ at' = [at EXCEPT ![f] = "reuse"] /\ cmd' = [cmd EXCEPT ![f] = Head(pending)]
          /\ stage' = [stage EXCEPT ![Head(pending)] = "running"]
          /\ UNCHANGED <<dir, op, fod>> /\ qlock = Nobody
      BY <1>2 DEF FodNext, Goto, Stage
    <3>3. Serves(f)'
      BY <2>1, <3>1, <3>2, ServeStarts DEF Serves, Unbound, Outside
    <3>. QED
      BY <2>1, <3>2, <3>3, ServeStarts
<1>. QED
  BY <1>1, <1>2

LEMMA WorkServe ==
    ASSUME Inv, Inv', ServeInv, NEW f \in Fod, Work(f)
    PROVE  ServeInv'
<1>1. LockOK'
  <2>1. UNCHANGED <<qlock, del, abts>>
    BY DEF Work, Submit, Handle, CmdDone, Transfer, LlddDone, WriteDone, NextChunk, ReadDone,
       RspDone, XmtRsp, AbortOp, FreeFod, Release, FodFree, FodNext, Reuse, queueVars
  <2>. QED
    BY <2>1 DEF ServeInv, LockOK
<1>2. CASE FreeFod(f) \/ Release(f)
  BY <1>1, <1>2, FreeServe, OthersServe DEF ServeInv
<1>3. CASE FodFree(f) \/ FodNext(f)
  BY <1>1, <1>3, NextServe, OthersServe DEF ServeInv
<1>4. CASE ~ (FreeFod(f) \/ Release(f)) /\ ~ (FodFree(f) \/ FodNext(f))
  <2>1. \/ Submit(f) \/ Handle(f) \/ CmdDone(f) \/ Transfer(f) \/ LlddDone(f)
        \/ WriteDone(f) \/ NextChunk(f) \/ ReadDone(f) \/ RspDone(f) \/ XmtRsp(f)
        \/ AbortOp(f) \/ Reuse(f)
    BY <1>4 DEF Work
  <2>. QED
    BY <1>1, <2>1, KeptServe, OthersServe DEF ServeInv
<1>. QED
  BY <1>2, <1>3, <1>4

\* A step that leaves the blocks, but for the flags that ask for an abort, and the
\* commands they serve.
LEMMA AsideServe ==
    ASSUME Inv, ServeInv, LockOK', UNCHANGED <<dir, op, at, cmd>>,
           \A c \in Cmd : stage[c] \in {"running", "closing"} => stage'[c] = stage[c],
           \A f \in Fod : /\ fod'[f].fcpreq = fod[f].fcpreq
                          /\ fod'[f].writedataactive = fod[f].writedataactive
    PROVE  ServeInv'
<1>1. ASSUME NEW f \in Fod
      PROVE  Serves(f)'
  <2>1. cmd[f] # NoCmd => stage'[cmd[f]] = stage[cmd[f]]
    BY DEF Inv, TypeOK, OneOwner, FodsOwn
  <2>. QED
    BY <2>1 DEF ServeInv, Serves
<1>. QED
  BY <1>1 DEF ServeInv

\* A command on its way in,
LEMMA ArrivalServe ==
    ASSUME Inv, Inv', ServeInv, NEW c \in Cmd, FindTargetQueue(c) \/ Arrival(c)
    PROVE  /\ ServeInv'
           /\ stage[c] \in {"new", "found", "kmalloc"}
           /\ \A b \in Cmd \ {c} : stage'[b] = stage[b]
<1>1. LockOK'
  <2>1. UNCHANGED <<qlock, del, abts>>
    BY DEF FindTargetQueue, Arrival, AllocFod, NoFodFree, Kmalloc, queueVars
  <2>. QED
    BY <2>1 DEF ServeInv, LockOK
<1>2. /\ stage[c] \in {"new", "found", "kmalloc"}
      /\ \A b \in Cmd \ {c} : stage'[b] = stage[b]
  <2>1. PICK t \in {"found", "refused", "pending", "kmalloc", "running"} : Stage(c, t)
    BY DEF FindTargetQueue, Arrival, AllocFod, NoFodFree, Kmalloc, Refuse, Defer
  <2>2. stage[c] \in {"new", "found", "kmalloc"}
    BY DEF FindTargetQueue, Arrival, AllocFod, NoFodFree, Kmalloc
  <2>. QED
    BY <2>1, <2>2 DEF Inv, TypeOK, Stage
<1>3. CASE AllocFod(c)
  <2>1. PICK f \in fod_list :
          /\ fod' = [fod EXCEPT ![f].active = TRUE]
          /\ at' = [at EXCEPT ![f] = "submit"]
          /\ cmd' = [cmd EXCEPT ![f] = c]
    BY <1>3 DEF AllocFod
  <2>2. f \in Fod /\ at[f] = "idle" /\ stage'[c] = "running"
    BY <1>3 DEF Inv, TypeOK, OneOwner, Busy, AllocFod, Stage
  <2>3. UNCHANGED <<dir, op>>
    BY <1>3 DEF AllocFod
  <2>4. Serves(f)'
    BY <2>1, <2>2, ServeStarts DEF Serves, Unbound, Outside, Lldd, Fields
  <2>5. \A g \in Fod : Serves(g)'
    <3>1. cmd'[f] = c
      BY <2>1, <2>2, ServeStarts
    <3>2. \A g \in Fod \ {f} : at'[g] = at[g] /\ cmd'[g] = cmd[g] /\ fod'[g] = fod[g]
      BY <2>1, <2>2, ServeStarts
    <3>. QED
      BY <1>2, <2>2, <2>3, <2>4, <3>1, <3>2, OthersServe
  <2>. QED
    BY <1>1, <1>2, <2>5 DEF ServeInv
<1>4. CASE ~ AllocFod(c)
  <2>1. UNCHANGED <<dir, op, fod, at, cmd>>
    BY <1>4 DEF FindTargetQueue, Arrival, NoFodFree, Kmalloc, fodVars
  <2>. QED
    BY <1>1, <1>2, <2>1, AsideServe
<1>. QED
  BY <1>3, <1>4

\* an ABTS,
LEMMA AbtsServe ==
    ASSUME Inv, ServeInv, NEW c \in Cmd, AbtsLook(c) \/ Abort(c)
    PROVE  ServeInv'
<1>1. UNCHANGED <<dir, op, stage, at, cmd, del>>
  BY DEF AbtsLook, Abort, AbtsLock, AbtsMark, cmdVars, fodVars
<1>2. \A f \in Fod : /\ fod'[f].fcpreq = fod[f].fcpreq
                     /\ fod'[f].writedataactive = fod[f].writedataactive
  <2>1. CASE UNCHANGED fod
    BY <2>1
  <2>2. CASE AbtsMark(c)
    <3>1. fod \in [Fod -> Fields]
      BY DEF Inv, TypeOK
    <3>2. fod' = [fod EXCEPT ![abts[c].fod].abort = TRUE, ![abts[c].fod].aborted = TRUE]
      BY <2>2 DEF AbtsMark
    <3>. QED
      BY <3>1, <3>2 DEF Fields
  <2>. QED
    BY <2>1, <2>2 DEF AbtsLook, Abort, AbtsLock, fodVars
<1>3. LockOK'
  <2>. abts \in [Cmd -> [pc : AbtsPc, fod : Fod \union {NoFod}]]
    BY DEF Inv, TypeOK
  <2>1. CASE AbtsLook(c)
    BY <1>1, <2>1 DEF AbtsLook, AbtsGoto, queueVars, ServeInv, LockOK
  <2>2. CASE AbtsLock(c)
    BY <1>1, <2>2 DEF AbtsLock, AbtsGoto, ServeInv, LockOK
  <2>3. CASE AbtsMark(c)
    BY <1>1, <2>3 DEF AbtsMark, AbtsGoto, Unlocked, ServeInv, LockOK
  <2>. QED
    BY <2>1, <2>2, <2>3 DEF Abort
<1>. QED
  BY <1>1, <1>2, <1>3, AsideServe

\* a deletion.
LEMMA DeleteOthers ==
    ASSUME Inv, NEW d \in Deleter, DelGet(d) \/ Delete(d)
    PROVE  \A e \in Deleter \ {d} : del'[e] = del[e]
<1>. del \in [Deleter -> DelRec]
  BY DelKnows
<1>1. CASE DelGet(d) \/ DelDisconnect(d) \/ DelLock(d) \/ DelMark(d) \/ DelAborted(d)
  BY <1>1 DEF DelGet, DelDisconnect, DelLock, DelMark, DelAborted, DelGoto
<1>2. CASE (\E f \in Fod : DelScan(d, f)) \/ DelLoad(d) \/ DelCall(d) \/ DelAvail(d)
  BY <1>2 DEF DelScan, DelLoad, DelCall, DelAvail, DelGoto
<1>3. CASE DelDrain(d) \/ DelDrop(d) \/ DelDestroy(d) \/ DelPut(d)
  BY <1>3 DEF DelDrain, DelDrop, DelDestroy, DelPut, DelGoto
<1>. QED
  BY <1>1, <1>2, <1>3 DEF Delete

LEMMA DeleteLock ==
    ASSUME Inv, ServeInv, NEW d \in Deleter, DelGet(d) \/ Delete(d)
    PROVE  LockOK'
<1>. del \in [Deleter -> DelRec]
  BY DelKnows
<1>. \A e \in Deleter \ {d} : del'[e] = del[e]
  BY DeleteOthers
<1>1. UNCHANGED abts
  BY DEF DelGet, Delete, DelDisconnect, DelLock, DelScan, DelMark, DelAborted, DelLoad,
     DelCall, DelAvail, DelDrain, DelDrop, DelDestroy, DelPut
<1>2. CASE DelLock(d) \/ DelDrop(d)
  BY <1>1, <1>2 DEF DelLock, DelDrop, ServeInv, LockOK
<1>3. CASE DelDrain(d)
  BY <1>1, <1>3 DEF DelDrain, DelGoto, DelRec, Unlocked, ServeInv, LockOK, Holding
<1>4. CASE DelGet(d) \/ DelDisconnect(d) \/ DelDestroy(d) \/ DelPut(d)
  BY <1>1, <1>4
     DEF DelGet, DelDisconnect, DelDestroy, DelPut, DelGoto, DelRec, ServeInv, LockOK, Holding
<1>5. CASE \/ \E f \in Fod : DelScan(d, f)
           \/ DelMark(d) \/ DelAborted(d) \/ DelLoad(d) \/ DelCall(d) \/ DelAvail(d)
  <2>1. UNCHANGED qlock /\ del[d].pc \in Holding
    BY <1>5 DEF DelScan, DelMark, DelAborted, DelLoad, DelCall, DelAvail, queueVars, Holding
  <2>. QED
    BY <1>1, <2>1 DEF ServeInv, LockOK
<1>. QED
  BY <1>2, <1>3, <1>4, <1>5 DEF Delete

LEMMA DeleteFlags ==
    ASSUME Inv, NEW g \in Fod, \/ fod' = [fod EXCEPT ![g].abort = TRUE]
                               \/ fod' = [fod EXCEPT ![g].aborted = TRUE]
    PROVE  \A f \in Fod : /\ fod'[f].fcpreq = fod[f].fcpreq
                          /\ fod'[f].writedataactive = fod[f].writedataactive
<1>1. fod \in [Fod -> Fields]
  BY DEF Inv, TypeOK
<1>. QED
  BY <1>1 DEF Fields

LEMMA DeleteServe ==
    ASSUME Inv, ServeInv, NEW d \in Deleter, DelGet(d) \/ Delete(d)
    PROVE  ServeInv'
<1>1. UNCHANGED <<dir, op, at, cmd>>
  BY DeleteBlocks DEF DelGet, cmdVars, fodVars
<1>2. \A c \in Cmd : stage[c] \in {"running", "closing"} => stage'[c] = stage[c]
  <2>1. CASE DelDrop(d)
    <3>1. del[d].cmd \in Cmd /\ stage[del[d].cmd] = "pending"
      BY <2>1, DelKnows DEF DelDrop, Inv, OneOwner, DropOwns
    <3>. QED
      BY <2>1, <3>1 DEF Inv, TypeOK, DelDrop, Stage
  <2>2. CASE UNCHANGED stage
    BY <2>2
  <2>. QED
    BY <2>1, <2>2, DeleteBlocks DEF DelGet, cmdVars
<1>3. \A f \in Fod : /\ fod'[f].fcpreq = fod[f].fcpreq
                     /\ fod'[f].writedataactive = fod[f].writedataactive
  <2>1. CASE DelMark(d) \/ DelAborted(d)
    <3>1. \/ fod' = [fod EXCEPT ![del[d].fod].abort = TRUE]
          \/ fod' = [fod EXCEPT ![del[d].fod].aborted = TRUE]
      BY <2>1 DEF DelMark, DelAborted
    <3>2. del[d].fod \in Fod
      BY <2>1, DelKnows DEF DelMark, DelAborted
    <3>. QED
      BY <3>1, <3>2, DeleteFlags
  <2>2. CASE ~ (DelMark(d) \/ DelAborted(d))
    BY <2>2 DEF DelGet, Delete, DelDisconnect, DelLock, DelScan, DelLoad, DelCall, DelAvail,
       DelDrain, DelDrop, DelDestroy, DelPut, fodVars
  <2>. QED
    BY <2>1, <2>2
<1>. QED
  BY <1>1, <1>2, <1>3, DeleteLock, AsideServe

LEMMA ServeStep ==
    ASSUME Inv, Inv', ServeInv, [Next]_vars
    PROVE  ServeInv'
<1>1. CASE UNCHANGED vars
  BY <1>1 DEF ServeInv, Serves, LockOK, vars, cmdVars, fodVars, queueVars
<1>2. CASE Next
  BY <1>2, ArrivalServe, AbtsServe, WorkServe, DeleteServe DEF Next
<1>. QED
  BY <1>1, <1>2

\* A command that has a block goes only forward.
LEMMA PastLasts ==
    ASSUME Inv, Inv', ServeInv, NEW c \in Cmd, Next
    PROVE  /\ stage[c] \in Past => stage'[c] \in Past
           /\ stage[c] \in {"closing", "released"} => stage'[c] \in {"closing", "released"}
           /\ stage[c] = "released" => stage'[c] = "released"
<1>1. CASE stage'[c] = stage[c]
  BY <1>1
<1>2. CASE \E b \in Cmd : FindTargetQueue(b) \/ Arrival(b)
  BY <1>2, ArrivalServe DEF Past
<1>3. CASE \E b \in Cmd : AbtsLook(b) \/ Abort(b)
  BY <1>1, <1>3 DEF AbtsLook, Abort, AbtsLock, AbtsMark, cmdVars
<1>4. ASSUME NEW f \in Fod, Work(f)
      PROVE  \/ stage'[c] = stage[c] \/ stage[c] = "pending"
             \/ stage[c] = "running" /\ stage'[c] = "closing"
             \/ stage[c] = "closing" /\ stage'[c] = "released"
  <2>1. CASE FreeFod(f) \/ Release(f)
    BY <2>1, FreeServe
  <2>2. CASE FodFree(f) \/ FodNext(f)
    BY <2>2, NextServe
  <2>. QED
    BY <1>4, <2>1, <2>2, KeptServe DEF Work
<1>5. ASSUME NEW d \in Deleter, DelGet(d) \/ Delete(d)
      PROVE  stage'[c] = stage[c] \/ stage[c] = "pending"
  <2>1. CASE DelDrop(d)
    BY <2>1, DelKnows DEF DelDrop, Stage, Inv, TypeOK, OneOwner, DropOwns
  <2>. QED
    BY <1>5, <2>1, DeleteBlocks DEF DelGet, cmdVars
<1>. QED
  BY <1>1, <1>2, <1>3, <1>4, <1>5 DEF Next, Past

\* While qlock is held, a block takes no other command.
LEMMA CaughtLasts ==
    ASSUME Inv, Inv', ServeInv, NEW f \in Fod, NEW c \in Cmd, Caught(f, c),
           qlock # Nobody, Next
    PROVE  Caught(f, c)'
<1>0. stage[c] = "released" => stage'[c] = "released"
  BY PastLasts
<1>1. CASE at'[f] = at[f] /\ cmd'[f] = cmd[f]
  BY <1>0, <1>1 DEF Caught
<1>2. ASSUME NEW b \in Cmd, FindTargetQueue(b) \/ Arrival(b) \/ AbtsLook(b) \/ Abort(b)
      PROVE  UNCHANGED <<at, cmd>>
  BY <1>2 DEF FindTargetQueue, Arrival, AllocFod, NoFodFree, Kmalloc, AbtsLook, Abort,
     AbtsLock, AbtsMark, fodVars
<1>3. ASSUME NEW d \in Deleter, DelGet(d) \/ Delete(d)
      PROVE  UNCHANGED <<at, cmd>>
  BY <1>3, DeleteBlocks DEF DelGet, fodVars
<1>4. ASSUME NEW g \in Fod, Work(g)
      PROVE  Caught(f, c)'
  <2>1. ~ (FodFree(g) \/ FodNext(g))
    BY NextServe
  <2>2. CASE FreeFod(g) \/ Release(g)
    <3>1. CASE g # f
      BY <1>1, <2>2, <3>1, FreeServe
    <3>2. CASE g = f
      <4>1. cmd[f] = c
        BY <2>2, <3>2 DEF Caught, FreeFod, Release
      <4>. QED
        BY <2>2, <3>2, <4>1, FreeServe DEF Caught
    <3>. QED
      BY <3>1, <3>2
  <2>3. CASE ~ (FreeFod(g) \/ Release(g))
    <3>1. /\ at[g] \notin Outside /\ UNCHANGED cmd
          /\ \A h \in Fod \ {g} : at'[h] = at[h]
          /\ at'[g] \notin Outside \union {"submit", "reuse"}
      BY <1>4, <2>1, <2>3, KeptServe DEF Work
    <3>2. CASE g # f
      BY <1>1, <3>1, <3>2
    <3>3. CASE g = f
      BY <3>1, <3>3 DEF Caught, Outside
    <3>. QED
      BY <3>2, <3>3
  <2>. QED
    BY <2>2, <2>3
<1>. QED
  BY <1>1, <1>2, <1>3, <1>4 DEF Next

\* What a deletion has seen stays true when others go on ...
LEMMA OthersDoom ==
    ASSUME Inv, Inv', ServeInv, NEW d \in Deleter, DoomOK(d), del'[d] = del[d], Next
    PROVE  DoomOK(d)'
<1>. DEFINE c == del[d].doomed
<1>1. CASE c = NoCmd
  BY <1>1 DEF DoomOK
<1>2. CASE c # NoCmd
  <2>1. c \in Cmd /\ qlock # Nobody
    BY <1>2 DEF DoomOK, ServeInv, LockOK, Holding, Inv, TypeOK
  <2>2. del[d].pc \in {"waiting", "call"} => del[d].fod \in Fod
    BY DelKnows
  <2>3. del[d].pc \in {"waiting", "call"} => Caught(del[d].fod, c)'
    BY <2>1, <2>2, CaughtLasts DEF DoomOK
  <2>. QED
    BY <1>2, <2>1, <2>3, PastLasts DEF DoomOK, Caught
<1>. QED
  BY <1>1, <1>2

\* ... and when it goes on itself.
LEMMA OwnDoom ==
    ASSUME Inv, Inv', ServeInv, NEW d \in Deleter, DoomOK(d), DelGet(d) \/ Delete(d)
    PROVE  DoomOK(d)'
<1>. DEFINE f == del[d].fod
            c == del[d].doomed
<1>0. /\ del \in [Deleter -> DelRec] /\ c \in Cmd \union {NoCmd}
      /\ del[d].pc \in {"mark", "waiting", "call", "fcp_abort"} => f \in Fod
  BY DelKnows DEF DelRec
<1>1. CASE DelMark(d)
  <2>1. UNCHANGED <<at, cmd, stage>> /\ c = NoCmd /\ f \in Fod
    BY <1>0, <1>1 DEF DelMark, DoomOK, cmdVars
  <2>2. CASE fod[f].writedataactive /\ del' = [del EXCEPT ![d].pc = "waiting",
                                                          ![d].doomed = cmd[f]]
    <3>1. at[f] \in Lldd \union {"transfer"}
      BY <2>1, <2>2 DEF ServeInv, Serves
    <3>2. cmd[f] \in Cmd /\ cmd[f] # NoCmd /\ stage[cmd[f]] = "running"
      BY <2>1, <3>1, HasCmd DEF ServeInv, Serves, Outside, Lldd
    <3>3. del'[d].pc = "waiting" /\ del'[d].doomed = cmd[f] /\ del'[d].fod = f
      BY <1>0, <2>2 DEF DelRec
    <3>. QED
      BY <2>1, <3>1, <3>2, <3>3 DEF DoomOK, Caught, Past, Lldd
  <2>3. CASE DelGoto(d, "scan")
    BY <1>0, <2>1, <2>3 DEF DelGoto, DelRec, DoomOK
  <2>. QED
    BY <1>1, <2>2, <2>3 DEF DelMark
<1>2. CASE DelAborted(d)
  <2>1. UNCHANGED <<at, cmd, stage>> /\ del[d].pc = "waiting"
    BY <1>2 DEF DelAborted, cmdVars
  <2>2. del'[d].pc = "call" /\ del'[d].doomed = c /\ del'[d].fod = f
    BY <1>0, <1>2 DEF DelAborted, DelGoto, DelRec
  <2>. QED
    BY <2>1, <2>2 DEF DoomOK, Caught
<1>3. CASE DelLoad(d)
  <2>1. UNCHANGED stage /\ del[d].pc = "call" /\ f \in Fod
    BY <1>0, <1>3 DEF DelLoad, cmdVars
  <2>2. del'[d].pc = "fcp_abort" /\ del'[d].doomed = c /\ del'[d].fcpreq = fod[f].fcpreq
    BY <1>0, <1>3 DEF DelLoad, DelRec
  <2>3. c # NoCmd /\ c \in Cmd /\ stage[c] \in Past /\ Caught(f, c)
    BY <1>0, <2>1 DEF DoomOK
  <2>4. \/ fod[f].fcpreq = c
        \/ fod[f].fcpreq = NoCmd /\ stage[c] \in {"closing", "released"}
    BY <2>1, <2>3, HasCmd DEF Caught, ServeInv, Serves, Unbound, Outside
  <2>. QED
    BY <2>1, <2>2, <2>3, <2>4 DEF DoomOK
<1>4. CASE DelCall(d)
  <2>1. del'[d].pc = "scan" /\ del'[d].doomed = NoCmd
    BY <1>0, <1>4 DEF DelCall, DelRec
  <2>. QED
    BY <2>1 DEF DoomOK
<1>5. CASE ~ (DelMark(d) \/ DelAborted(d)) /\ ~ (DelLoad(d) \/ DelCall(d))
  <2>1. /\ del[d].pc \notin {"waiting", "call", "fcp_abort"}
        /\ del'[d].pc \notin {"waiting", "call", "fcp_abort"} /\ del'[d].doomed = c
    <3>1. CASE DelGet(d) \/ DelDisconnect(d) \/ DelLock(d)
      BY <1>0, <3>1 DEF DelGet, DelDisconnect, DelLock, DelGoto, DelRec
    <3>2. CASE (\E g \in Fod : DelScan(d, g)) \/ DelAvail(d)
      <4>1. ASSUME NEW g \in Fod, DelScan(d, g)
            PROVE  /\ del[d].pc = "scan" /\ del'[d].pc \in {"mark", "scan"}
                   /\ del'[d].doomed = c
        BY <1>0, <4>1 DEF DelScan, DelRec
      <4>2. CASE DelAvail(d)
        BY <1>0, <4>2 DEF DelAvail, DelGoto, DelRec
      <4>. QED
        BY <3>2, <4>1, <4>2
    <3>3. CASE DelDrain(d) \/ DelDrop(d)
      BY <1>0, <3>3 DEF DelDrain, DelDrop, DelGoto, DelRec
    <3>4. CASE DelDestroy(d) \/ DelPut(d)
      BY <1>0, <3>4 DEF DelDestroy, DelPut, DelGoto, DelRec
    <3>. QED
      BY <1>5, <3>1, <3>2, <3>3, <3>4 DEF Delete
  <2>. QED
    BY <2>1 DEF DoomOK
<1>. QED
  BY <1>1, <1>2, <1>3, <1>4, <1>5

LEMMA DoomStep ==
    ASSUME Inv, Inv', ServeInv, DoomInv, [Next]_vars
    PROVE  DoomInv'
<1>1. CASE UNCHANGED vars
  BY <1>1 DEF DoomInv, DoomOK, Caught, vars, cmdVars, fodVars
<1>2. CASE Next
  <2>1. ASSUME NEW d \in Deleter
        PROVE  DoomOK(d)'
    <3>1. CASE DelGet(d) \/ Delete(d)
      BY <3>1, OwnDoom DEF DoomInv
    <3>2. CASE ~ (DelGet(d) \/ Delete(d))
      <4>1. del'[d] = del[d]
        <5>1. ASSUME NEW e \in Deleter, DelGet(e) \/ Delete(e)
              PROVE  del'[d] = del[d]
          BY <3>2, <5>1, DeleteOthers
        <5>2. ASSUME NEW c \in Cmd,
                     FindTargetQueue(c) \/ Arrival(c) \/ AbtsLook(c) \/ Abort(c)
              PROVE  del' = del
          BY <5>2 DEF FindTargetQueue, Arrival, AllocFod, NoFodFree, Kmalloc, AbtsLook,
             Abort, AbtsLock, AbtsMark
        <5>3. ASSUME NEW f \in Fod, Work(f)
              PROVE  del' = del
          BY <5>3 DEF Work, Submit, Handle, CmdDone, Transfer, LlddDone, WriteDone,
             NextChunk, ReadDone, RspDone, XmtRsp, AbortOp, FreeFod, Release, FodFree,
             FodNext, Reuse
        <5>. QED
          BY <1>2, <5>1, <5>2, <5>3 DEF Next
      <4>. QED
        BY <1>2, <4>1, OthersDoom DEF DoomInv
    <3>. QED
      BY <3>1, <3>2
  <2>. QED
    BY <2>1 DEF DoomInv
<1>. QED
  BY <1>1, <1>2

LEMMA DoomInvariance == Spec => [](Inv /\ ExchangeInv /\ ServeInv /\ DoomInv)
<1>1. Init => ServeInv /\ DoomInv
  BY DEF Init, Blank, ServeInv, Serves, LockOK, DoomInv, DoomOK, Unbound, Outside, Holding,
     Lldd
<1>2. Init => Inv /\ ExchangeInv
  BY InvInit, ExchangeInit
<1>3. Inv /\ ExchangeInv /\ ServeInv /\ DoomInv /\ [Next]_vars
        => (Inv /\ ExchangeInv /\ ServeInv /\ DoomInv)'
  BY InvStep, ExchangeStep, ServeStep, DoomStep
<1>. QED
  BY <1>1, <1>2, <1>3, PTL DEF Spec

-----------------------------------------------------------------------------
(* What the driver sees is the exchange.                                   *)

\* How far a command is for the driver.
LEMMA SeenIs ==
    ASSUME Inv, ExchangeInv, NEW c \in Cmd
    PROVE  /\ stage[c] \in {"new", "found", "kmalloc"} => Seen(c) = "new"
           /\ stage[c] = "refused" => Seen(c) = "refused"
           /\ stage[c] = "released" => answers[c] \in {0, 1} /\ Seen(c) = "closed"
           /\ stage[c] = "pending" => answers[c] = 0 /\ Seen(c) = "open"
           /\ stage[c] = "closing" => answers[c] \in {0, 1} /\ Seen(c) = "closing"
           /\ stage[c] = "running" => /\ answers[c] \in {0, 1}
                                      /\ answers[c] = 0 => Seen(c) = "open"
                                      /\ answers[c] = 1 => Seen(c) = "answered"
<1>1. /\ stage[c] \in {"new", "found", "kmalloc", "pending", "refused"} => answers[c] = 0
      /\ stage[c] = "released" => answers[c] \in {0, 1}
  BY DEF ExchangeInv, Unanswered
<1>2. stage[c] \in {"new", "found", "kmalloc"} => Seen(c) = "new"
  BY <1>1 DEF Seen
<1>3. ASSUME stage[c] \in {"running", "closing"}
      PROVE  answers[c] \in {0, 1}
  <2>1. PICK f \in Fod : cmd[f] = c
    BY <1>3 DEF Inv, OneOwner, NoneLost
  <2>2. at[f] \in Early \union Lldd \union {"abort", "free", "release"}
    BY <2>1, HasCmd, Starts DEF Outside, Places, Early, Lldd
  <2>. QED
    BY <2>1, <2>2, Starts DEF Progress
<1>4. stage[c] \in {"refused", "closing"} => Seen(c) = stage[c]
  BY <1>1, <1>3 DEF Seen
<1>5. stage[c] = "released" => Seen(c) = "closed"
  BY <1>1 DEF Seen
<1>6. stage[c] = "pending" => Seen(c) = "open"
  BY <1>1 DEF Seen
<1>7. stage[c] = "running" => (answers[c] = 0 => Seen(c) = "open")
  BY DEF Seen
<1>8. stage[c] = "running" => (answers[c] = 1 => Seen(c) = "answered")
  BY DEF Seen
<1>. QED
  BY <1>1, <1>2, <1>3, <1>4, <1>5, <1>6, <1>7, <1>8

\* A step the driver does not see ...
LEMMA NotSeen ==
    ASSUME \A c \in Cmd : Seen(c)' = Seen(c), aborts' = aborts, Doomed' = Doomed
    PROVE  UNCHANGED Exchange!vars
<1>1. [c \in Cmd |-> Seen(c)]' = [c \in Cmd |-> Seen(c)]
  OBVIOUS
<1>. QED
  BY <1>1 DEF Exchange!vars

\* ... and one that moves a command.
LEMMA SeenMove ==
    ASSUME NEW c \in Cmd, \A b \in Cmd \ {c} : Seen(b)' = Seen(b), Doomed' = Doomed,
           NEW from, Seen(c) \in from
    PROVE  Exchange!Move(c, from, Seen(c)')
<1>1. [b \in Cmd |-> Seen(b)]' = [[b \in Cmd |-> Seen(b)] EXCEPT ![c] = Seen(c)']
  OBVIOUS
<1>. QED
  BY <1>1 DEF Exchange!Move

LEMMA OthersSeen ==
    ASSUME NEW c \in Cmd, stage'[c] = stage[c], answers'[c] = answers[c]
    PROVE  Seen(c)' = Seen(c)
  BY DEF Seen

\* The driver is told to abort a command it has given,
LEMMA SeenAbort ==
    ASSUME Inv, ExchangeInv, NEW c \in Cmd, stage[c] = "running",
           \A b \in Cmd : Seen(b)' = Seen(b), aborts' = aborts \union {c}, Doomed' = Doomed
    PROVE  Exchange!Next
<1>1. [b \in Cmd |-> Seen(b)]' = [b \in Cmd |-> Seen(b)]
  OBVIOUS
<1>2. Seen(c) \in {"open", "answered"}
  BY SeenIs
<1>3. Exchange!Abort(c)
  BY <1>1, <1>2 DEF Exchange!Abort
<1>. QED
  BY <1>3 DEF Exchange!Next

\* or gets it back.
LEMMA SeenClose ==
    ASSUME Inv, ExchangeInv, NEW c \in Cmd, UNCHANGED answers, Doomed' = Doomed,
           \/ stage[c] = "running" /\ Stage(c, "closing") /\ UNCHANGED aborts
           \/ stage[c] = "closing" /\ Stage(c, "released") /\ UNCHANGED aborts
           \/ /\ stage[c] = "pending" /\ Stage(c, "released")
              /\ aborts' = aborts \union {c}
    PROVE  Exchange!Next
<1>1. PICK s \in {"closing", "released"} : Stage(c, s)
  OBVIOUS
<1>2. stage'[c] = s /\ \A b \in Cmd \ {c} : stage'[b] = stage[b]
  BY <1>1 DEF Inv, TypeOK, Stage
<1>3. \A b \in Cmd \ {c} : Seen(b)' = Seen(b)
  BY <1>2, OthersSeen
<1>4. answers[c] \in {0, 1}
  BY SeenIs
<1>5. Seen(c)' = IF s = "closing" THEN "closing" ELSE "closed"
  BY <1>2, <1>4 DEF Seen
<1>6. CASE stage[c] = "running" /\ Stage(c, "closing") /\ UNCHANGED aborts
  <2>1. s = "closing"
    BY <1>2, <1>6 DEF Inv, TypeOK, Stage
  <2>2. Exchange!Move(c, {"open", "answered"}, "closing")
    BY <1>3, <1>5, <1>6, <2>1, SeenIs, SeenMove
  <2>3. Exchange!Closing(c)
    BY <1>6, <2>2 DEF Exchange!Closing
  <2>. QED
    BY <2>3 DEF Exchange!Next
<1>7. CASE stage[c] = "closing" /\ Stage(c, "released") /\ UNCHANGED aborts
  <2>1. s = "released"
    BY <1>2, <1>7 DEF Inv, TypeOK, Stage
  <2>2. Exchange!Move(c, {"closing"}, "closed")
    BY <1>3, <1>5, <1>7, <2>1, SeenIs, SeenMove
  <2>3. Exchange!Close(c)
    BY <1>7, <2>2 DEF Exchange!Close
  <2>. QED
    BY <2>3 DEF Exchange!Next
<1>8. CASE /\ stage[c] = "pending" /\ Stage(c, "released")
           /\ aborts' = aborts \union {c}
  <2>1. s = "released"
    BY <1>2, <1>8 DEF Inv, TypeOK, Stage
  <2>2. Exchange!Move(c, {"open"}, "closed")
    BY <1>3, <1>5, <1>8, <2>1, SeenIs, SeenMove
  <2>3. Exchange!Drop(c)
    BY <1>8, <2>2 DEF Exchange!Drop
  <2>. QED
    BY <2>3 DEF Exchange!Next
<1>. QED
  BY <1>6, <1>7, <1>8

\* It gets the answer of the command,
LEMMA SeenAnswer ==
    ASSUME Inv, ExchangeInv, NEW c \in Cmd, stage[c] = "running", answers[c] = 0,
           Answered(c), UNCHANGED <<stage, aborts>>, Doomed' = Doomed
    PROVE  Exchange!Next
<1>1. answers'[c] = 1 /\ \A b \in Cmd \ {c} : answers'[b] = answers[b]
  BY DEF Inv, TypeOK, Answered
<1>2. \A b \in Cmd \ {c} : Seen(b)' = Seen(b)
  BY <1>1, OthersSeen
<1>3. Seen(c) = "open" /\ Seen(c)' = "answered"
  BY <1>1, SeenIs DEF Seen
<1>4. Exchange!Move(c, {"open"}, "answered")
  BY <1>2, <1>3, SeenMove
<1>5. Exchange!Answer(c)
  BY <1>4 DEF Exchange!Answer
<1>. QED
  BY <1>5 DEF Exchange!Next

\* but does not see that a command no longer waits.
LEMMA SeenReuse ==
    ASSUME Inv, ExchangeInv, NEW c \in Cmd, stage[c] = "pending", Stage(c, "running"),
           UNCHANGED <<answers, aborts>>, Doomed' = Doomed
    PROVE  UNCHANGED Exchange!vars
<1>1. stage'[c] = "running" /\ \A b \in Cmd \ {c} : stage'[b] = stage[b]
  BY DEF Inv, TypeOK, Stage
<1>2. Seen(c) = "open" /\ Seen(c)' = "open"
  BY <1>1, SeenIs DEF ExchangeInv, Unanswered, Seen
<1>3. \A b \in Cmd \ {c} : Seen(b)' = Seen(b)
  BY <1>1, OthersSeen
<1>. QED
  BY <1>2, <1>3, NotSeen

\* A command on its way in is refused, or opened, or the driver sees nothing.
LEMMA ArrivalSeen ==
    ASSUME Inv, ExchangeInv, NEW c \in Cmd, FindTargetQueue(c) \/ Arrival(c)
    PROVE  [Exchange!Next]_(Exchange!vars)
<1>1. UNCHANGED <<answers, aborts>> /\ Doomed' = Doomed
  BY DEF FindTargetQueue, Arrival, AllocFod, NoFodFree, Kmalloc, lldd, Doomed
<1>2. PICK s \in {"found", "refused", "pending", "kmalloc", "running"} : Stage(c, s)
  BY DEF FindTargetQueue, Arrival, AllocFod, NoFodFree, Kmalloc, Refuse, Defer
<1>3. stage[c] \in {"new", "found", "kmalloc"}
  BY DEF FindTargetQueue, Arrival, AllocFod, NoFodFree, Kmalloc
<1>4. stage'[c] = s /\ \A b \in Cmd \ {c} : stage'[b] = stage[b]
  BY <1>2 DEF Inv, TypeOK, Stage
<1>5. \A b \in Cmd \ {c} : Seen(b)' = Seen(b)
  BY <1>1, <1>4, OthersSeen
<1>6. Seen(c) = "new" /\ answers[c] = 0
  BY <1>3, SeenIs DEF ExchangeInv, Unanswered
<1>7. /\ s \in {"found", "kmalloc"} => Seen(c)' = "new"
      /\ s = "refused" => Seen(c)' = "refused"
      /\ s \in {"pending", "running"} => Seen(c)' = "open"
  BY <1>1, <1>4, <1>6 DEF Seen
<1>8. CASE s \in {"found", "kmalloc"}
  <2>1. UNCHANGED Exchange!vars
    BY <1>1, <1>5, <1>6, <1>7, <1>8, NotSeen
  <2>. QED
    BY <2>1
<1>9. CASE s \in {"refused", "pending", "running"}
  <2>1. Exchange!Move(c, {"new"}, Seen(c)')
    BY <1>1, <1>5, <1>6, SeenMove
  <2>2. Exchange!Refuse(c) \/ Exchange!Open(c)
    BY <1>1, <1>7, <1>9, <2>1 DEF Exchange!Refuse, Exchange!Open
  <2>. QED
    BY <2>2 DEF Exchange!Next
<1>. QED
  BY <1>8, <1>9

\* What the driver sees of a step of the thread of a block.
LEMMA WorkSeen ==
    ASSUME Inv, ExchangeInv, ServeInv, NEW f \in Fod, Work(f)
    PROVE  [Exchange!Next]_(Exchange!vars)
<1>0. Doomed' = Doomed
  <2>1. del' = del
    BY DEF Work, Submit, Handle, CmdDone, Transfer, LlddDone, WriteDone, NextChunk, ReadDone,
       RspDone, XmtRsp, AbortOp, FreeFod, Release, FodFree, FodNext, Reuse
  <2>. QED
    BY <2>1 DEF Doomed
<1>1. CASE \/ Submit(f) \/ Handle(f) \/ CmdDone(f) \/ LlddDone(f) \/ WriteDone(f)
           \/ NextChunk(f) \/ ReadDone(f) \/ RspDone(f) \/ Reuse(f) \/ FodFree(f)
  <2>1. UNCHANGED <<stage, answers, aborts>>
    BY <1>1 DEF Submit, Handle, CmdDone, LlddDone, WriteDone, NextChunk, ReadDone, RspDone,
       Reuse, FodFree, cmdVars, lldd
  <2>2. UNCHANGED Exchange!vars
    BY <1>0, <2>1, OthersSeen, NotSeen
  <2>. QED
    BY <2>2
<1>2. CASE Transfer(f) \/ XmtRsp(f)
  <2>. DEFINE c == cmd[f]
  <2>1. c \in Cmd /\ stage[c] = "running" /\ answers[c] = 0
    BY <1>2, Starts, HasCmd
       DEF Transfer, XmtRsp, Outside, Early, Progress, ServeInv, Serves
  <2>2. UNCHANGED <<stage, aborts>> /\ (UNCHANGED answers \/ Answered(c))
    BY <1>2 DEF Transfer, XmtRsp
  <2>3. CASE UNCHANGED answers
    <3>1. UNCHANGED Exchange!vars
      BY <1>0, <2>2, <2>3, OthersSeen, NotSeen
    <3>. QED
      BY <3>1
  <2>4. CASE Answered(c)
    BY <1>0, <2>1, <2>2, <2>4, SeenAnswer
  <2>. QED
    BY <2>2, <2>3, <2>4
<1>3. CASE AbortOp(f)
  <2>. DEFINE c == cmd[f]
  <2>1. c \in Cmd /\ stage[c] = "running"
    BY <1>3, HasCmd DEF AbortOp, Outside, ServeInv, Serves
  <2>2. UNCHANGED <<stage, answers>> /\ aborts' \in {aborts, aborts \union {c}}
    BY <1>3 DEF AbortOp, cmdVars
  <2>3. \A b \in Cmd : Seen(b)' = Seen(b)
    BY <2>2, OthersSeen
  <2>4. CASE aborts' = aborts
    BY <1>0, <2>3, <2>4, NotSeen
  <2>5. CASE aborts' = aborts \union {c}
    BY <1>0, <2>1, <2>3, <2>5, SeenAbort
  <2>. QED
    BY <2>2, <2>4, <2>5
<1>4. CASE FreeFod(f)
  <2>. DEFINE c == cmd[f]
  <2>1. /\ c \in Cmd /\ stage[c] = "running" /\ Stage(c, "closing")
        /\ UNCHANGED <<answers, aborts>>
    BY <1>4, HasCmd DEF FreeFod, Outside, ServeInv, Serves, lldd
  <2>. QED
    BY <1>0, <2>1, SeenClose
<1>5. CASE Release(f)
  <2>. DEFINE c == cmd[f]
  <2>1. /\ c \in Cmd /\ stage[c] = "closing" /\ Stage(c, "released")
        /\ UNCHANGED <<answers, aborts>>
    BY <1>5, HasCmd DEF Release, Outside, ServeInv, Serves, lldd
  <2>. QED
    BY <1>0, <2>1, SeenClose
<1>6. CASE FodNext(f)
  <2>. DEFINE c == Head(pending)
  <2>1. /\ c \in Cmd /\ stage[c] = "pending" /\ Stage(c, "running")
        /\ UNCHANGED <<answers, aborts>>
    BY <1>6, HeadTail DEF FodNext, Rest, lldd
  <2>. QED
    BY <1>0, <2>1, SeenReuse
<1>. QED
  BY <1>1, <1>2, <1>3, <1>4, <1>5, <1>6 DEF Work

\* Only the deletion that holds qlock has doomed a command.
LEMMA OnlyDoomed ==
    ASSUME ServeInv, DoomInv, NEW d \in Deleter, del[d].pc \in Holding
    PROVE  Doomed = {del[d].doomed} \ {NoCmd}
<1>1. ASSUME NEW e \in Deleter, e # d
      PROVE  del[e].doomed = NoCmd
  BY <1>1 DEF ServeInv, LockOK, DoomInv, DoomOK, Holding
<1>. QED
  BY <1>1 DEF Doomed

\* The deletion sees that a command's data is being fetched,
LEMMA MarkSeen ==
    ASSUME Inv, ExchangeInv, ServeInv, DoomInv, NEW d \in Deleter, DelMark(d)
    PROVE  [Exchange!Next]_(Exchange!vars)
<1>. DEFINE f == del[d].fod
            c == cmd[f]
<1>0. /\ del \in [Deleter -> DelRec] /\ f \in Fod /\ del[d].doomed = NoCmd
      /\ del[d].pc \in Holding
  BY DelKnows DEF DelMark, DoomInv, DoomOK, Holding
<1>1. UNCHANGED <<stage, answers, aborts>>
  BY DEF DelMark, cmdVars, lldd
<1>2. \A b \in Cmd : Seen(b)' = Seen(b)
  BY <1>1, OthersSeen
<1>3. CASE DelGoto(d, "scan")
  <2>1. \A e \in Deleter : del'[e].doomed = del[e].doomed
    BY <1>0, <1>3 DEF DelGoto, DelRec
  <2>2. Doomed' = Doomed
    BY <2>1 DEF Doomed
  <2>3. UNCHANGED Exchange!vars
    BY <1>1, <1>2, <2>2, NotSeen
  <2>. QED
    BY <2>3
<1>4. CASE /\ fod[f].writedataactive
           /\ del' = [del EXCEPT ![d].pc = "waiting", ![d].doomed = c]
  <2>1. c \in Cmd /\ stage[c] = "running" /\ answers[c] = 0
    <3>1. \/ at[f] = "transfer"
          \/ at[f] \in Lldd /\ op[c] = "WRITEDATA"
      BY <1>0, <1>4 DEF ServeInv, Serves
    <3>. QED
      BY <1>0, <3>1, HasCmd, Starts
         DEF ServeInv, Serves, Outside, Lldd, Progress, Early, Carries
  <2>2. Doomed = {} /\ Doomed' = {c}
    <3>1. del'[d].doomed = c /\ \A e \in Deleter \ {d} : del'[e] = del[e]
      BY <1>0, <1>4 DEF DelRec
    <3>2. \A e \in Deleter \ {d} : del[e].doomed = NoCmd
      BY <1>0 DEF ServeInv, LockOK, DoomInv, DoomOK, Holding
    <3>3. c # NoCmd
      BY <2>1
    <3>. QED
      BY <1>0, <3>1, <3>2, <3>3 DEF Doomed
  <2>3. Seen(c) = "open"
    BY <2>1, SeenIs
  <2>4. [b \in Cmd |-> Seen(b)]' = [b \in Cmd |-> Seen(b)]
    BY <1>2
  <2>5. Exchange!Doom(c)
    BY <1>1, <2>1, <2>2, <2>3, <2>4 DEF Exchange!Doom
  <2>. QED
    BY <2>1, <2>5 DEF Exchange!Next
<1>. QED
  BY <1>3, <1>4 DEF DelMark

\* and tells the driver to abort it, though it may have given it back meanwhile.
LEMMA CallSeen ==
    ASSUME Inv, ExchangeInv, ServeInv, DoomInv, NEW d \in Deleter, DelCall(d)
    PROVE  [Exchange!Next]_(Exchange!vars)
<1>. DEFINE c == del[d].doomed
<1>0. del \in [Deleter -> DelRec] /\ del[d].pc = "fcp_abort" /\ del[d].pc \in Holding
  BY DelKnows DEF DelCall, Holding
<1>1. UNCHANGED <<stage, answers>> /\ aborts' = aborts \union {del[d].fcpreq}
  BY DEF DelCall, cmdVars
<1>2. c \in Cmd
  BY <1>0 DEF DoomInv, DoomOK, DelRec
<1>3. \/ del[d].fcpreq = c
      \/ del[d].fcpreq = NoCmd /\ stage[c] \in {"closing", "released"}
  BY <1>0 DEF DoomInv, DoomOK
<1>4. Doomed = {c} /\ Doomed' = {}
  <2>1. del'[d].doomed = NoCmd /\ \A e \in Deleter \ {d} : del'[e] = del[e]
    BY <1>0 DEF DelCall, DelRec
  <2>2. \A e \in Deleter \ {d} : del[e].doomed = NoCmd
    BY <1>0 DEF ServeInv, LockOK, DoomInv, DoomOK, Holding
  <2>3. c # NoCmd
    BY <1>2
  <2>. QED
    BY <2>1, <2>2, <2>3 DEF Doomed
<1>5. stage[c] \in {"closing", "released"} => Seen(c) \in {"closing", "closed"}
  BY <1>2, SeenIs
<1>6. [b \in Cmd |-> Seen(b)]' = [b \in Cmd |-> Seen(b)]
  BY <1>1, OthersSeen
<1>7. Exchange!AbortDoomed(c)
  BY <1>1, <1>2, <1>3, <1>4, <1>5, <1>6 DEF Exchange!AbortDoomed
<1>. QED
  BY <1>2, <1>7 DEF Exchange!Next

\* What the driver sees of a deletion: aborts, and commands it gets back.
LEMMA DeleteSeen ==
    ASSUME Inv, ExchangeInv, ServeInv, DoomInv, NEW d \in Deleter, DelGet(d) \/ Delete(d)
    PROVE  [Exchange!Next]_(Exchange!vars)
<1>1. CASE DelMark(d) \/ DelCall(d)
  BY <1>1, MarkSeen, CallSeen
<1>2. CASE ~ (DelMark(d) \/ DelCall(d))
  <2>1. Doomed' = Doomed
    <3>1. del \in [Deleter -> DelRec] /\ \A e \in Deleter \ {d} : del'[e] = del[e]
      BY DelKnows, DeleteOthers
    <3>2. CASE DelGet(d) \/ DelDisconnect(d) \/ DelLock(d) \/ DelAborted(d) \/ DelLoad(d)
      BY <3>1, <3>2 DEF DelGet, DelDisconnect, DelLock, DelAborted, DelLoad, DelGoto, DelRec,
         Doomed
    <3>3. CASE \E f \in Fod : DelScan(d, f)
      BY <3>1, <3>3 DEF DelScan, DelRec, Doomed
    <3>4. CASE DelAvail(d) \/ DelDrain(d) \/ DelDrop(d) \/ DelDestroy(d) \/ DelPut(d)
      BY <3>1, <3>4 DEF DelAvail, DelDrain, DelDrop, DelDestroy, DelPut, DelGoto, DelRec,
         Doomed
    <3>. QED
      BY <1>2, <3>2, <3>3, <3>4 DEF Delete
  <2>2. CASE DelDrop(d)
    <3>. DEFINE c == del[d].cmd
    <3>1. /\ c \in Cmd /\ stage[c] = "pending" /\ Stage(c, "released")
          /\ UNCHANGED answers /\ aborts' = aborts \union {c}
      BY <2>2, DelKnows DEF DelDrop, Inv, OneOwner, DropOwns
    <3>. QED
      BY <2>1, <3>1, SeenClose
  <2>3. CASE ~ DelDrop(d)
    <3>1. UNCHANGED <<stage, answers, aborts>>
      BY <1>2, <2>3 DEF DelGet, Delete, DelDisconnect, DelLock, DelScan, DelAborted, DelLoad,
         DelAvail, DelDrain, DelDestroy, DelPut, cmdVars, lldd
    <3>2. UNCHANGED Exchange!vars
      BY <2>1, <3>1, OthersSeen, NotSeen
    <3>. QED
      BY <3>2, ZenonT(60)
  <2>. QED
    BY <2>2, <2>3
<1>. QED
  BY <1>1, <1>2

LEMMA AbtsSeen ==
    ASSUME NEW c \in Cmd, AbtsLook(c) \/ Abort(c)
    PROVE  UNCHANGED Exchange!vars
<1>1. UNCHANGED <<stage, answers, aborts>> /\ Doomed' = Doomed
  BY DEF AbtsLook, Abort, AbtsLock, AbtsMark, cmdVars, lldd, Doomed
<1>. QED
  BY <1>1, OthersSeen, NotSeen

\* Of each command that is delivered the driver sees that it is refused, or opened
\* and closed once, answered at most once, and neither answered nor aborted when it
\* is not open: nvmet_fc keeps the exchange, with all its threads, lists and flags,
\* but for the one command whose data a deletion saw being fetched; its abort may
\* come late, and name nothing if the block was forgetting the command just then.
THEOREM ImplementsCorrect == Spec => ImplementsExchange
<1>1. Init => Exchange!Init
  BY DEF Init, Exchange!Init, Seen, Doomed
<1>2. ASSUME Inv, ExchangeInv, ServeInv, DoomInv, [Next]_vars
      PROVE  [Exchange!Next]_(Exchange!vars)
  <2>1. CASE UNCHANGED vars
    <3>1. UNCHANGED <<stage, answers, aborts>> /\ Doomed' = Doomed
      BY <2>1 DEF vars, cmdVars, lldd, Doomed
    <3>2. UNCHANGED Exchange!vars
      BY <3>1, OthersSeen, NotSeen
    <3>. QED
      BY <3>2
  <2>2. CASE Next
    BY <1>2, <2>2, ArrivalSeen, WorkSeen, DeleteSeen, AbtsSeen DEF Next
  <2>. QED
    BY <1>2, <2>1, <2>2
<1>. QED
  BY <1>1, <1>2, DoomInvariance, PTL DEF Spec, ImplementsExchange, Exchange!Spec

=============================================================================
