---------------------------- MODULE Conditionals ---------------------------
(***************************************************************************)
(* src/syntax/parserEntry.ml: conditional compilation.  While the parser   *)
(* pulls tokens, #if, #elseif, #else and #end switch between live code and *)
(* skipped code; a condition_handler keeps the condition under which the   *)
(* current text is compiled and a dead_block_collector the blocks that are *)
(* skipped, for display requests.  A condition is abstracted to its value, *)
(* any value for each one the text contains.                               *)
(***************************************************************************)
EXTENDS Naturals, Sequences, SequencesExt, Folds

CONSTANTS
    MaxNesting,       \* bound on the nesting of #if
    MaxBranches     \* bound on the #elseif and #else of one #if

ASSUME ConditionalsAssumption == MaxNesting \in Nat /\ MaxBranches \in Nat

VARIABLES
    stack,          \* conditional_stack: the values of the conditions, head last
    depths,         \* how many entries each open #if has there, head last
    mstack,         \* the number of entries of mstack
    skips,          \* the calls of skip_tokens that are active: their `test`, <<>> in
                    \* live code
    current,        \* current_block: the value of the condition of each open dead block
    deadWhenTrue,   \* a dead block was recorded whose condition holds
    text,           \* history: the open #ifs as the text says, head last
    wellFormed      \* history: no branch has followed an #else

condVars == <<stack, depths, mstack, skips, current, deadWhenTrue, text, wellFormed>>

\* Of an open #if: does an earlier branch hold, does this one, is it the #else?
Branch == [earlier : BOOLEAN, holds : BOOLEAN, last : BOOLEAN, branches : 0 .. MaxBranches]

CondTypeOK ==
    /\ stack \in Seq(BOOLEAN) /\ depths \in Seq(1 .. MaxBranches + 1)
    /\ mstack \in 0 .. MaxNesting
    /\ skips \in Seq(BOOLEAN) /\ current \in Seq(BOOLEAN)
    /\ deadWhenTrue \in BOOLEAN /\ wellFormed \in BOOLEAN
    /\ text \in Seq(Branch) /\ Len(text) <= MaxNesting
    /\ \A i \in 2 .. Len(skips) : ~skips[i]

CondInit ==
    /\ stack = <<>> /\ depths = <<>> /\ mstack = 0 /\ skips = <<>>
    /\ current = <<>> /\ deadWhenTrue = FALSE /\ text = <<>> /\ wellFormed = TRUE

Live == skips = <<>>
Test == Last(skips)
ReplaceLast(s, x) == Append(Front(s), x)

-----------------------------------------------------------------------------
(* condition_handler *)

CondIf(v) == stack' = Append(stack, v) /\ depths' = Append(depths, 1)

\* Mutant of Negated: the condition of the branch before stays as it is.
NotNegated == stack

\* cond_else
Negated == ReplaceLast(stack, ~Last(stack))

CondElseIf(v) == /\ stack' = Append(Negated, v)
                 /\ depths' = ReplaceLast(depths, Last(depths) + 1)

CondElse == stack' = Negated /\ UNCHANGED depths

CondEnd == /\ stack' = SubSeq(stack, 1, Len(stack) - Last(depths))
           /\ depths' = Front(depths)

\* get_current_condition: the conjunction of the stack s.
Condition(s) == \A i \in 1 .. Len(s) : s[i]

-----------------------------------------------------------------------------
(* dead_block_collector *)

Opened(blocks) == Append(blocks, Condition(stack'))

CloseDeadBlock == deadWhenTrue' = (deadWhenTrue \/ Last(current))

-----------------------------------------------------------------------------
(* Tokens *)

\* The text goes on with a branch of the innermost #if.
MayBranch == text # <<>> /\ Last(text).branches < MaxBranches

NextBranch(v, last) ==
    /\ text' = ReplaceLast(text, [earlier |-> Last(text).earlier \/ Last(text).holds,
                                  holds |-> v, last |-> last,
                                  branches |-> Last(text).branches + 1])
    /\ wellFormed' = (wellFormed /\ ~Last(text).last)

FirstBranch(v) == [earlier |-> FALSE, holds |-> v, last |-> FALSE, branches |-> 0]

\* enter_macro: the condition decides whether the text that follows is live.
Enter(v, blocks) ==
    IF v THEN /\ mstack' = mstack + 1 /\ skips' = <<>> /\ current' = blocks
         ELSE /\ skips' = <<TRUE>> /\ current' = Opened(blocks)
              /\ UNCHANGED mstack

If(v) ==
    /\ Len(text) < MaxNesting
    /\ text' = Append(text, FirstBranch(v))
    /\ CondIf(v)
    /\ IF Live THEN Enter(v, current)
       ELSE /\ current' = Opened(current)
            /\ skips' = Append(skips, FALSE)
            /\ UNCHANGED mstack
    /\ UNCHANGED <<deadWhenTrue, wellFormed>>

\* #elseif or #else after a branch that was compiled: the rest is skipped.
LeaveBranch ==
    /\ Live /\ mstack > 0
    /\ mstack' = mstack - 1
    /\ skips' = <<FALSE>>
    /\ current' = Opened(current)
    /\ UNCHANGED deadWhenTrue

\* One within skipped code that no branch of this #if can make live.
SkipBranch ==
    /\ ~Live /\ ~Test
    /\ CloseDeadBlock
    /\ current' = Opened(Front(current))
    /\ UNCHANGED <<mstack, skips>>

\* Mutant of ElseIf: once skipping, every #elseif is tried.
ElseIfTried(v) ==
    /\ MayBranch /\ NextBranch(v, FALSE)
    /\ CondElseIf(v)
    /\ \/ LeaveBranch
       \/ /\ ~Live /\ Len(skips) = 1
          /\ CloseDeadBlock /\ Enter(v, Front(current))

ElseIf(v) ==
    /\ MayBranch /\ NextBranch(v, FALSE)
    /\ CondElseIf(v)
    /\ \/ LeaveBranch
       \/ SkipBranch
       \/ /\ ~Live /\ Test
          /\ CloseDeadBlock /\ Enter(v, Front(current))

Else ==
    /\ MayBranch /\ NextBranch(TRUE, TRUE)
    /\ CondElse
    /\ \/ LeaveBranch
       \/ SkipBranch
       \/ /\ ~Live /\ Test
          /\ CloseDeadBlock /\ Enter(TRUE, Front(current))

\* #end: of the innermost call of skip_tokens, when there is one.
End ==
    /\ text # <<>>
    /\ text' = Front(text)
    /\ CondEnd
    /\ IF Live THEN /\ mstack > 0 /\ mstack' = mstack - 1
                    /\ UNCHANGED <<skips, current, deadWhenTrue>>
       ELSE /\ CloseDeadBlock /\ current' = Front(current)
            /\ skips' = Front(skips)
            /\ UNCHANGED mstack
    /\ UNCHANGED wellFormed

CondNext == (\E v \in BOOLEAN : If(v) \/ ElseIf(v)) \/ Else \/ End

CondSpec == CondInit /\ [][CondNext]_condVars

-----------------------------------------------------------------------------
(* Properties *)

\* A token is compiled exactly when each #if around it is at its first branch that
\* holds, at any depth, also behind #if blocks nested in skipped code and after #else.
LiveAsWritten ==
    Live <=> \A i \in 1 .. Len(text) : text[i].holds /\ ~text[i].earlier

\* The conditions that are reported, as long as #else is the last branch of each #if
\* (the code accepts others): that of the text holds exactly when the text is live, and
\* every dead block that is recorded then has one that does not hold.
ConditionMatches ==
    wellFormed => /\ Live <=> Condition(stack)
                  /\ ~deadWhenTrue /\ ~\E i \in 1 .. Len(current) : current[i]

\* The four records of the nesting agree: cond_else, cond_end and close_dead_block
\* never find their lists empty, mstack is empty when all #ifs are closed, and no dead
\* block is open in live code, as get_dead_blocks asserts at the end.
StacksAgree ==
    /\ Len(depths) = Len(text) /\ Len(text) = mstack + Len(skips)
    /\ Len(current) = Len(skips)
    /\ \A i \in 1 .. Len(text) : depths[i] <= text[i].branches + 1
    /\ FoldFunction(+, 0, depths) = Len(stack)
=============================================================================
