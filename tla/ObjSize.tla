------------------------------ MODULE ObjSize ------------------------------
(***************************************************************************)
(* c_objsize of libs/objsize/c_objsize.c: the size of the OCaml values     *)
(* reachable from one value.  The walk marks a block by giving its header  *)
(* the colour blue and puts the colour it had in the log of RleColors; a   *)
(* second walk, which must retrace the first one exactly, takes the        *)
(* colours out of the log again.                                           *)
(*                                                                         *)
(* A heap gives every block its fields (a block or NoBlock, for what       *)
(* COND_BLOCK rejects: immediate values and addresses outside the heap),   *)
(* whether its tag is No_scan_tag or above, and its colour.                *)
(***************************************************************************)
EXTENDS RleColors, SequencesExt, FiniteSets

CONSTANTS NoBlock,     \* a value COND_BLOCK rejects
          Calls        \* the calls: [heap, v, scan, reach]

ASSUME CallsAssumption ==
  \A c \in Calls :
    /\ IsFiniteSet(DOMAIN c.heap) /\ NoBlock \notin DOMAIN c.heap
    /\ c.v \in DOMAIN c.heap \cup {NoBlock}
    /\ c.scan \in Seq(DOMAIN c.heap) /\ c.reach \in Seq(DOMAIN c.heap)
    /\ \A b \in DOMAIN c.heap :
         /\ c.heap[b].fields \in Seq(DOMAIN c.heap \cup {NoBlock})
         /\ c.heap[b].opaque \in BOOLEAN
         /\ c.heap[b].color \in {Col_white, Col_gray, Col_black}

VARIABLES call,     \* the arguments and the heap as it was at the call
          phase,    \* where c_objsize is
          head,     \* the elements of the scan list that are left
          col,      \* the colour in each block's header
          log,      \* the log of colours
          stack,    \* the activations of c_rec_objsize or restore_colors, last first
          acc,      \* acc_hdrs, acc_data and acc_depth
          reached   \* whether a block of the reach list was marked

sizeVars == <<call, phase, head, col, log, stack, acc, reached>>

Blocks == DOMAIN call.heap
Fields(b) == call.heap[b].fields
Opaque(b) == call.heap[b].opaque
IsBlock(f) == f # NoBlock

Marked(b) == col[b] = Col_blue

SizeInit ==
  /\ call \in Calls
  /\ phase = "scan"
  /\ head = call.scan
  /\ col = [b \in DOMAIN call.heap |-> call.heap[b].color]
  /\ log = NewLog
  /\ stack = <<>>
  /\ acc = [hdrs |-> 0, data |-> 0, depth |-> 0]
  /\ reached = FALSE

-----------------------------------------------------------------------------
(* The three uses of store_explicit: a mark, and a colour restored.        *)
MarkBlock(b) ==
  /\ log' = writecolor(log, col[b])
  /\ col' = [col EXCEPT ![b] = Col_blue]

RestoreBlock(b) ==
  LET read == readcolor(log)
  IN /\ log' = read.log
     /\ col' = [col EXCEPT ![b] = read.color]

(* An activation that has just entered its block; one whose tag is         *)
(* No_scan_tag or above walks no field.                                    *)
Frame(b, depth) ==
  [v |-> b, depth |-> depth, prev |-> NoBlock,
   i |-> IF Opaque(b) THEN Len(Fields(b)) ELSE 0]

(* c_rec_objsize from rec_enter to its walk.                               *)
EnterBlock(b, depth) ==
  /\ acc' = [hdrs |-> acc.hdrs + 1,
             data |-> acc.data + Len(Fields(b)),
             depth |-> IF depth > acc.depth THEN depth ELSE acc.depth]
  /\ MarkBlock(b)

(* What the macro REC_WALK gets from its two uses: the test of a child and *)
(* the visit.                                                              *)
Due(b) == IF phase = "restore" THEN Marked(b) ELSE ~Marked(b)

Visit(b, depth) ==
  IF phase = "restore" THEN RestoreBlock(b) /\ UNCHANGED acc ELSE EnterBlock(b, depth)

(* The walk of a block's fields.  A child waits in prev_block until the    *)
(* next child is found, and is then visited by a call; the last child is   *)
(* visited by a goto, which reuses the activation.                         *)
RecWalk ==
  LET top == Head(stack)
      rest == Tail(stack)
      due == top.prev # NoBlock /\ Due(top.prev)
  IN \/ /\ top.i < Len(Fields(top.v))
        /\ LET f == Fields(top.v)[top.i + 1]
               next == [top EXCEPT !.i = @ + 1, !.prev = IF IsBlock(f) THEN f ELSE @]
           IN \/ /\ IsBlock(f) /\ due
                 /\ stack' = <<Frame(top.prev, top.depth + 1), next>> \o rest
                 /\ Visit(top.prev, top.depth + 1)
              \/ /\ ~(IsBlock(f) /\ due)
                 /\ stack' = <<next>> \o rest
                 /\ UNCHANGED <<acc, log, col>>
     \/ /\ top.i = Len(Fields(top.v))
        /\ \/ /\ due
              /\ stack' = <<Frame(top.prev, top.depth + 1)>> \o rest
              /\ Visit(top.prev, top.depth + 1)
           \/ /\ ~due
              /\ stack' = rest
              /\ UNCHANGED <<acc, log, col>>

-----------------------------------------------------------------------------
(* The first loop over scan: blocks that are not to be measured.           *)
ExcludeNext ==
  /\ phase = "scan" /\ head # <<>>
  /\ head' = Tail(head)
  /\ IF Marked(Head(head)) THEN UNCHANGED <<col, log>> ELSE MarkBlock(Head(head))
  /\ UNCHANGED <<call, phase, stack, acc, reached>>

(* The call of c_rec_objsize.                                              *)
StartMeasure ==
  /\ phase = "scan" /\ head = <<>>
  /\ phase' = "measure"
  /\ IF IsBlock(call.v) /\ ~Marked(call.v)
     THEN stack' = <<Frame(call.v, 0)>> /\ EnterBlock(call.v, 0)
     ELSE UNCHANGED <<stack, acc, log, col>>
  /\ UNCHANGED <<call, head, reached>>

Measure ==
  /\ phase = "measure" /\ stack # <<>>
  /\ RecWalk
  /\ UNCHANGED <<call, phase, head, reached>>

\* Mutant of FlushLog: rle_init is not called again before the log is read.
FlushLogOnly ==
  /\ phase = "measure" /\ stack = <<>>
  /\ log' = rle_write_flush(log)
  /\ phase' = "unscan"
  /\ head' = call.scan
  /\ UNCHANGED <<call, col, stack, acc, reached>>

(* rle_write_flush and rle_init, when c_rec_objsize has returned.          *)
FlushLog ==
  /\ phase = "measure" /\ stack = <<>>
  /\ log' = rle_init(rle_write_flush(log))
  /\ phase' = "unscan"
  /\ head' = call.scan
  /\ UNCHANGED <<call, col, stack, acc, reached>>

(* The second loop over scan gives the excluded blocks their colours back. *)
IncludeNext ==
  /\ phase = "unscan" /\ head # <<>>
  /\ head' = Tail(head)
  /\ IF Marked(Head(head)) THEN RestoreBlock(Head(head)) ELSE UNCHANGED <<col, log>>
  /\ UNCHANGED <<call, phase, stack, acc, reached>>

\* Mutant of StartRestore: the reach list is looked at before the excluded blocks
\* have their colours back.
StartRestoreEarly ==
  /\ phase = "unscan"
  /\ reached' = \E i \in DOMAIN call.reach : Marked(call.reach[i])
  /\ phase' = "restore"
  /\ IF IsBlock(call.v) /\ Marked(call.v)
     THEN stack' = <<Frame(call.v, 0)>> /\ RestoreBlock(call.v)
     ELSE UNCHANGED <<stack, log, col>>
  /\ UNCHANGED <<call, head, acc>>

(* The loop over reach, which the marks left by the walk answer, then the  *)
(* call of restore_colors.                                                 *)
StartRestore ==
  /\ phase = "unscan" /\ head = <<>>
  /\ reached' = \E i \in DOMAIN call.reach : Marked(call.reach[i])
  /\ phase' = "restore"
  /\ IF IsBlock(call.v) /\ Marked(call.v)
     THEN stack' = <<Frame(call.v, 0)>> /\ RestoreBlock(call.v)
     ELSE UNCHANGED <<stack, log, col>>
  /\ UNCHANGED <<call, head, acc>>

Restore ==
  /\ phase = "restore" /\ stack # <<>>
  /\ RecWalk
  /\ UNCHANGED <<call, phase, head, reached>>

(* rle_read_flush and colors_deinit.                                       *)
Finish ==
  /\ phase = "restore" /\ stack = <<>>
  /\ log' = rle_read_flush(log)
  /\ phase' = "done"
  /\ UNCHANGED <<call, head, col, stack, acc, reached>>

(* No step follows an ASSERT that failed: ABORT exits.                     *)
SizeNext ==
  /\ log.ok
  /\ \/ ExcludeNext \/ StartMeasure \/ Measure \/ FlushLog
     \/ IncludeNext \/ StartRestore \/ Restore \/ Finish

SizeSpec == SizeInit /\ [][SizeNext]_sizeVars /\ WF_sizeVars(SizeNext)

-----------------------------------------------------------------------------
SizeTypeOK ==
  /\ phase \in {"scan", "measure", "unscan", "restore", "done"}
  /\ col \in [Blocks -> {Col_white, Col_gray, Col_blue, Col_black}]
  /\ acc \in [hdrs : Nat, data : Nat, depth : Nat]
  /\ reached \in BOOLEAN
  /\ \A i \in DOMAIN stack :
       stack[i].v \in Blocks /\ stack[i].i \in 0..Len(Fields(stack[i].v))

(* The value as mathematics: what can be reached from v without passing    *)
(* through an excluded block, and how far from v each block is.            *)
Children(b) == IF Opaque(b) THEN {} ELSE ToSet(Fields(b)) \ {NoBlock}

Within ==
  LET excluded == ToSet(call.scan)
      Ball[n \in 0..Cardinality(Blocks)] ==
        IF n = 0 THEN {call.v} \ (excluded \cup {NoBlock})
        ELSE LET nearer == Ball[n - 1]
             IN nearer \cup ((UNION {Children(b) : b \in nearer}) \ excluded)
  IN Ball

Reachable == Within[Cardinality(Blocks)]

(* Whatever the two walks have done so far, a block that is not marked has *)
(* the colour it had before the call; at the end none is marked.  It needs *)
(* restore_colors to visit the blocks in the order c_rec_objsize visited   *)
(* them, and the log to give back what was written.                        *)
MarkedOrOriginal ==
  \A b \in Blocks :
    \/ col[b] = call.heap[b].color
    \/ phase # "done" /\ Marked(b)

(* The answer is that of the heap as a graph: acc_hdrs and acc_data count   *)
(* every reachable block once and no block reached only through an         *)
(* excluded one, acc_depth is at least the distance of the farthest, and   *)
(* the answer about the reach list, which is taken between the two         *)
(* restorations, is about measured blocks and not about excluded ones.     *)
MeasuresReachable ==
  /\ phase = "unscan" =>
       /\ acc.hdrs = Cardinality(Reachable)
       /\ acc.data = Cardinality(UNION { {b} \X DOMAIN Fields(b) : b \in Reachable })
       /\ Within[acc.depth] = Reachable
  /\ phase = "done" => (reached <=> ToSet(call.reach) \cap Reachable # {})

(* The optimization for lists: where no block has two children, the walk   *)
(* never has more than one activation on the C stack.                      *)
ListsInConstantStack ==
  (\A b \in Blocks : Cardinality({i \in DOMAIN Fields(b) : IsBlock(Fields(b)[i])}) <= 1)
    => Len(stack) <= 1

(* Every call returns: the two walks end and no ASSERT fails.              *)
Returns == <>(phase = "done")
=============================================================================
