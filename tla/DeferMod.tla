----------------------------- MODULE DeferMod ------------------------------
(***************************************************************************)
(* std/evil/mods/Defer.hx: the mod that moves `defer` statements to the end *)
(* of their block.  The parser calls its callbacks while it reads nested    *)
(* blocks (src/syntax/grammar.mly); the stack `deferredExpressions` is a    *)
(* global variable of the macro interpreter that outlives a file and a      *)
(* failed parse.  The model reads the statements of function bodies, blocks *)
(* within blocks, deferred blocks and, when Lambdas holds, the blocks of    *)
(* the trailing lambda mod (std/evil/mods/TrailingLambda.hx).               *)
(***************************************************************************)
EXTENDS Naturals, Sequences, SequencesExt

CONSTANTS
    Exprs,          \* simple expressions
    Body,           \* stands for a block that has been read
    Null,           \* the `null` that onExpr leaves where the defer statement was
    Lambdas,        \* is trailing_lambda one of the file's mods?
    MaxInstalled,   \* bound: how often defer's callbacks are on the hook lists
    MaxDepth, MaxStatements, MaxFrames   \* bounds on the text and on leftovers

ASSUME DeferAssumption == /\ Lambdas \in BOOLEAN /\ MaxInstalled \in Nat \ {0}
                          /\ MaxDepth \in Nat /\ MaxStatements \in Nat /\ MaxFrames \in Nat

VARIABLES
    installed,      \* copies of defer's callbacks on each hook list
    open,           \* the blocks being read, innermost last; `own` is history: the
                    \* expressions that the text defers in that block, the last
                    \* one first
    deferred,       \* deferredExpressions, its head last
    lambdas,        \* history: a trailing lambda has been read
    last,           \* history: the block read by the last step, and what the text
                    \* says it is
    refused         \* history: a defer statement was taken for a syntax error

vars == <<installed, open, deferred, lambdas, last, refused>>

Elements == Exprs \cup {Body, Null}
Block == [kind : {"block", "deferred", "lambda"}, at : Nat, fresh : BOOLEAN,
          out : Seq(Elements), own : Seq(Elements)]

TypeOK ==
    /\ installed \in 1 .. MaxInstalled
    /\ open \in Seq(Block) /\ Len(open) <= Len(deferred)
    /\ deferred \in Seq(Seq(Elements))
    /\ last \in [got : Seq(Elements), want : Seq(Elements), lambda : BOOLEAN]
    /\ lambdas \in BOOLEAN /\ refused \in BOOLEAN

Nothing == [got |-> <<>>, want |-> <<>>, lambda |-> FALSE]

Init == /\ installed = 1 /\ open = <<>> /\ deferred = <<>>
        /\ lambdas = FALSE /\ last = Nothing /\ refused = FALSE

Depth == Len(open)
Inner == open[Depth]
HasRoom == open # <<>> /\ Len(Inner.out) < MaxStatements

NewBlock(kind, at) == [kind |-> kind, at |-> at, fresh |-> TRUE, out |-> <<>>, own |-> <<>>]

\* Mutant of Pushed: onBlockExpr reuses a frame that an earlier block left behind.
PushedIfEmpty == IF Len(deferred) > Len(open) THEN deferred ELSE Append(deferred, <<>>)

\* on_block_start calls every onBlockExpr on the list: each adds a frame.
Pushed == deferred \o [i \in 1 .. installed |-> <<>>]

\* A `{` where a statement or a function body begins.
OpenBlock ==
    /\ Depth < MaxDepth /\ (open = <<>> \/ HasRoom) /\ Len(Pushed) <= MaxFrames
    /\ open' = Append(open, NewBlock("block", 0))
    /\ deferred' = Pushed
    /\ last' = Nothing
    /\ UNCHANGED <<installed, lambdas, refused>>

\* `defer {`: onExpr has evaluated deferredExpressions.first() when nextExpr starts.
OpenDeferred ==
    /\ HasRoom /\ ~Inner.fresh /\ Depth < MaxDepth /\ Len(Pushed) <= MaxFrames
    /\ open' = Append(open, NewBlock("deferred", Len(deferred)))
    /\ deferred' = Pushed
    /\ last' = Nothing
    /\ UNCHANGED <<installed, lambdas, refused>>

\* `f { a ->`: parseBlockInternals calls on_block_start as well.
OpenLambda ==
    /\ Lambdas /\ HasRoom /\ Depth < MaxDepth /\ Len(Pushed) <= MaxFrames
    /\ open' = Append(open, [NewBlock("lambda", 0) EXCEPT !.fresh = FALSE])
    /\ deferred' = Pushed
    /\ lambdas' = TRUE
    /\ last' = Nothing
    /\ UNCHANGED <<installed, refused>>

Statement(e) ==
    /\ HasRoom
    /\ open' = [open EXCEPT ![Depth].out = Append(@, e), ![Depth].fresh = FALSE]
    /\ last' = Nothing
    /\ UNCHANGED <<installed, deferred, lambdas, refused>>

\* onExpr: the expression is added to the frame at the head of the stack, and the
\* block gets `macro null` in its place.
Defer(e) ==
    /\ HasRoom /\ ~Inner.fresh
    /\ open' = [open EXCEPT ![Depth].own = <<e>> \o @, ![Depth].out = Append(@, Null)]
    /\ deferred' = [deferred EXCEPT ![Len(deferred)] = Append(@, e)]
    /\ last' = Nothing
    /\ UNCHANGED <<installed, lambdas, refused>>

\* The identifier `defer` at the start of a block: block1 has consumed it, block2
\* parses what follows with expr_next, and the expression after it is an error.
DeferFirst ==
    /\ HasRoom /\ Inner.fresh
    /\ refused' = TRUE
    /\ open' = <<>>
    /\ last' = Nothing
    /\ UNCHANGED <<installed, deferred, lambdas>>

\* Any other error in the body: the exception leaves the parser, and the frames of
\* the blocks that were open stay on the stack.
Abort ==
    /\ open # <<>>
    /\ open' = <<>>
    /\ last' = Nothing
    /\ UNCHANGED <<installed, deferred, lambdas, refused>>

\* Mutant of WithDeferred: the expressions are appended in the order of the frame.
WithDeferredInOrder(out, exprs) == out \o exprs

\* What a block with elements `out` becomes with the deferred expressions `exprs`:
\* they are popped, so the last one deferred comes first.
WithDeferred(out, exprs) == out \o Reverse(exprs)

\* The result of onAfterBlockExpr, and what the text says.
BlockRead == [got |-> WithDeferred(Inner.out, Last(deferred)),
              want |-> Inner.out \o Inner.own, lambda |-> FALSE]

\* The block that has been read is a statement of the one around it.
Closed == IF Depth = 1 THEN <<>>
          ELSE [Front(open) EXCEPT ![Depth - 1].out = Append(@, Body),
                                   ![Depth - 1].fresh = FALSE]

\* `}`: on_block_next calls the first onAfterBlockExpr, whose result is never null.
CloseBlock ==
    /\ open # <<>> /\ Inner.kind = "block"
    /\ last' = BlockRead
    /\ deferred' = Front(deferred)
    /\ open' = Closed
    /\ UNCHANGED <<installed, lambdas, refused>>

\* The `}` of a deferred block, which is then added to the frame found before.
CloseDeferred ==
    /\ open # <<>> /\ Inner.kind = "deferred"
    /\ last' = BlockRead
    /\ deferred' = [Front(deferred) EXCEPT ![Inner.at] = Append(@, Body)]
    /\ open' = [Front(open) EXCEPT ![Depth - 1].own = <<Body>> \o @,
                                   ![Depth - 1].out = Append(@, Null)]
    /\ UNCHANGED <<installed, lambdas, refused>>

\* The `}` of a trailing lambda, which the mod consumes itself.
CloseLambda ==
    /\ open # <<>> /\ Inner.kind = "lambda"
    /\ last' = [got |-> Inner.out, want |-> Inner.out \o Inner.own, lambda |-> TRUE]
    /\ open' = Closed
    /\ UNCHANGED <<installed, deferred, lambdas, refused>>

\* The next file with #evil(defer): on_parse_file_start adds the callbacks again
\* (clear_hooks leaves the lists of the file before as they are).
NextFile ==
    /\ open = <<>> /\ installed < MaxInstalled
    /\ installed' = installed + 1
    /\ last' = Nothing
    /\ UNCHANGED <<open, deferred, lambdas, refused>>

Next == \/ OpenBlock \/ OpenDeferred \/ OpenLambda \/ CloseBlock \/ CloseDeferred
        \/ CloseLambda \/ DeferFirst \/ Abort \/ NextFile
        \/ \E e \in Exprs : Statement(e) \/ Defer(e)

Spec == Init /\ [][Next]_vars

-----------------------------------------------------------------------------
(* Properties *)

\* The callbacks are installed once, and no trailing lambda has been read so far.
Plain == installed = 1 /\ ~lambdas

\* README.md: deferred expressions are moved to the end of their block scope, the
\* last one first; none is lost and none ends up in another block.
DefersStayInTheirBlock == last.got = last.want

\* So it is, whatever blocks were nested in between and whatever earlier parses left
\* on the stack, until a second file installs the callbacks or a lambda is read.
PlainDefersStay == Plain => DefersStayInTheirBlock

\* The frames at the head of the stack are those of the open blocks, in order.
FramesMatch ==
    /\ Len(open) <= Len(deferred)
    /\ \A i \in 1 .. Len(open) :
         open[i].own = Reverse(deferred[Len(deferred) - Len(open) + i])

\* Until then the head of the stack follows the open blocks, through nested blocks,
\* deferred blocks and exceptions; frames left by failed parses are out of reach.
PlainFramesMatch == Plain => FramesMatch

\* A block without blocks inside keeps its own deferred expressions even when the
\* callbacks are installed several times and trailing lambdas leave frames behind.
FlatBlocksKeepDefers ==
    ~last.lambda /\ Body \notin ToSet(last.want) => last.got = last.want

\* The example of README.md begins with a defer statement: such a text is read.
DeferAnywhere == ~refused
=============================================================================
