----------------------------- MODULE ParserProofs ---------------------------
(***************************************************************************)
(* Proofs about the parsers, for any text of any nesting.                  *)
(* DeferMod: until the callbacks are installed a second time or a trailing *)
(* lambda is read, every block keeps its deferred expressions.             *)
(* Conditionals: code is compiled exactly where the #ifs around it say so, *)
(* and the conditions that are reported are those of the text.             *)
(* XmlParser: wherever the one-pass parser of NativeXmlImport.cpp stands,  *)
(* its line, the texts it is about to cut and the calls of itself agree    *)
(* with the document it has read so far.                                   *)
(***************************************************************************)
EXTENDS DeferMod, Conditionals, XmlParser, SequenceTheorems, FiniteSetTheorems, TLAPS

-----------------------------------------------------------------------------
(* DeferMod.                                                               *)

\* The frames as the sequence of the stack above the leftovers, indexed from below;
\* a deferred block goes to the frame right under its own.
Shape ==
    /\ installed = 1
    /\ open \in Seq(Block) /\ deferred \in Seq(Seq(Elements))
    /\ \A i \in 1 .. Len(open) :
         /\ open[i].kind # "lambda"
         /\ open[i].kind = "deferred" =>
              i > 1 /\ open[i].at = Len(deferred) - Len(open) + i - 1

Inv == Shape /\ FramesMatch /\ DefersStayInTheirBlock

\* installed only grows and a lambda is never forgotten: a plain state has had only
\* plain states before it, so that Inv may be assumed of them.
IInv == installed \in Nat \ {0} /\ (Plain => Inv)

\* The last expression of a frame is the first to be popped.
LEMMA ReverseAppend ==
    ASSUME NEW S, NEW s \in Seq(S), NEW e \in S
    PROVE  Append(s, e) \in Seq(S) /\ <<e>> \o Reverse(s) = Reverse(Append(s, e))
<1> DEFINE n == Len(s)
           new == Append(s, e)
           rest == Reverse(s)
<1>1. /\ n \in Nat /\ new \in Seq(S) /\ Len(new) = n + 1 /\ new[n + 1] = e
      /\ \A i \in 1 .. n : new[i] = s[i] /\ s[i] \in S
  OBVIOUS
<1>2. rest = [i \in 1 .. n |-> s[(n - i) + 1]] BY DEF Reverse
<1>3. \A i \in 1 .. n : (n - i) + 1 \in 1 .. n BY <1>1
<1>4. rest \in Seq(S) /\ Len(rest) = n
  <2>1. \A i \in 1 .. n : s[(n - i) + 1] \in S BY <1>1, <1>3
  <2>2. rest \in [1 .. n -> S] BY <1>2, <2>1
  <2>3. QED BY <1>1, <2>2, SeqDef, LenProperties
<1>5. /\ Len(<<e>> \o rest) = n + 1
      /\ \A i \in 1 .. n + 1 : (<<e>> \o rest)[i] = IF i <= 1 THEN <<e>>[i] ELSE rest[i - 1]
      /\ <<e>> \o rest \in Seq(S)
  <2>1. <<e>> \in Seq(S) /\ Len(<<e>>) = 1 OBVIOUS
  <2> HIDE DEF rest, n
  <2>2. /\ Len(<<e>> \o rest) = 1 + n
        /\ \A i \in 1 .. 1 + n : (<<e>> \o rest)[i] = IF i <= 1 THEN <<e>>[i] ELSE rest[i - 1]
        /\ <<e>> \o rest \in Seq(S)
    BY <1>4, <2>1, ConcatProperties
  <2>3. 1 + n = n + 1 BY <1>1
  <2>4. QED BY <2>2, <2>3
<1>6. Reverse(new) = [i \in 1 .. n + 1 |-> new[(n + 1 - i) + 1]] BY <1>1 DEF Reverse
<1>7. ASSUME NEW i \in 1 .. n + 1 PROVE (<<e>> \o rest)[i] = new[(n + 1 - i) + 1]
  <2>1. CASE i = 1
    <3>1. (n + 1 - i) + 1 = n + 1 BY <1>1, <2>1
    <3>2. (<<e>> \o rest)[i] = e BY <1>5, <2>1
    <3>3. QED BY <1>1, <3>1, <3>2
  <2>2. CASE i # 1
    <3>1. /\ ~(i <= 1) /\ i - 1 \in 1 .. n /\ (n - (i - 1)) + 1 = (n + 1 - i) + 1
          /\ (n - (i - 1)) + 1 \in 1 .. n
      BY <1>1, <2>2
    <3>2. (<<e>> \o rest)[i] = rest[i - 1] BY <1>5, <3>1
    <3>3. rest[i - 1] = s[(n - (i - 1)) + 1] BY <1>2, <3>1
    <3>4. QED BY <1>1, <3>1, <3>2, <3>3
  <2>3. QED BY <2>1, <2>2
<1>8. <<e>> \o rest = [i \in 1 .. n + 1 |-> (<<e>> \o rest)[i]] BY <1>1, <1>5
<1> HIDE DEF rest, new, n
<1>9. <<e>> \o rest = Reverse(new) BY <1>6, <1>7, <1>8
<1>10. QED BY <1>1, <1>9 DEF rest, new

LEMMA ReverseEmpty == Reverse(<<>>) = <<>>
BY DEF Reverse

LEMMA InitInv == Init => IInv
BY DEF Init, IInv, Inv, Shape, FramesMatch, DefersStayInTheirBlock, Nothing

\* What on_block_start does when there is one callback: one frame more.
LEMMA PushedOnce ==
    ASSUME Shape
    PROVE  /\ Pushed \in Seq(Seq(Elements)) /\ Len(Pushed) = Len(deferred) + 1
           /\ \A i \in 1 .. Len(deferred) : Pushed[i] = deferred[i]
           /\ Pushed[Len(deferred) + 1] = <<>>
<1>1. [i \in 1 .. installed |-> <<>>] = << <<>> >> BY DEF Shape
<1>2. Pushed = deferred \o << <<>> >> BY <1>1 DEF Pushed
<1>3. << <<>> >> \in Seq(Seq(Elements)) OBVIOUS
<1>4. QED BY <1>2, <1>3 DEF Shape

\* A new innermost block, whose frame is the one that on_block_start adds.
LEMMA OpenedFrame ==
    ASSUME Inv, NEW b \in Block, b.own = <<>>, b.kind # "lambda",
           b.kind = "deferred" => open # <<>> /\ b.at = Len(deferred),
           open' = Append(open, b), deferred' = Pushed,
           installed' = installed, last' = Nothing
    PROVE  Inv'
<1>1. /\ open \in Seq(Block) /\ deferred \in Seq(Seq(Elements)) /\ Len(open) \in Nat
      /\ Len(open) <= Len(deferred) /\ Len(deferred) \in Nat
  BY DEF Inv, Shape, FramesMatch
<1>2. /\ open' \in Seq(Block) /\ Len(open') = Len(open) + 1
      /\ \A i \in 1 .. Len(open) : open'[i] = open[i]
      /\ open'[Len(open) + 1] = b
  BY <1>1
<1>3. /\ deferred' \in Seq(Seq(Elements)) /\ Len(deferred') = Len(deferred) + 1
      /\ \A i \in 1 .. Len(deferred) : deferred'[i] = deferred[i]
      /\ deferred'[Len(deferred) + 1] = <<>>
  BY PushedOnce DEF Inv
<1>4. ASSUME NEW i \in 1 .. Len(open')
      PROVE  /\ open'[i].kind # "lambda"
             /\ open'[i].kind = "deferred" =>
                  i > 1 /\ open'[i].at = Len(deferred') - Len(open') + i - 1
             /\ open'[i].own = Reverse(deferred'[Len(deferred') - Len(open') + i])
  <2>1. CASE i \in 1 .. Len(open)
    <3>1. /\ Len(deferred') - Len(open') + i = Len(deferred) - Len(open) + i
          /\ Len(deferred) - Len(open) + i \in 1 .. Len(deferred)
      BY ONLY <1>1, <1>2, <1>3, <2>1
    <3>2. open'[i] = open[i] BY ONLY <1>2, <2>1
    <3>3. deferred'[Len(deferred) - Len(open) + i] = deferred[Len(deferred) - Len(open) + i]
      BY ONLY <1>3, <3>1
    <3>4. /\ open[i].kind # "lambda"
          /\ open[i].kind = "deferred" =>
               i > 1 /\ open[i].at = Len(deferred) - Len(open) + i - 1
          /\ open[i].own = Reverse(deferred[Len(deferred) - Len(open) + i])
      BY ONLY <2>1, Inv DEF Inv, Shape, FramesMatch
    <3>5. QED BY ONLY <3>1, <3>2, <3>3, <3>4
  <2>2. CASE i = Len(open) + 1
    <3>1. Len(deferred') - Len(open') + i = Len(deferred) + 1 /\ Len(open) + 1 - 1 = Len(open)
      BY ONLY <1>1, <1>2, <1>3, <2>2
    <3>2. open'[i] = b BY ONLY <1>2, <2>2
    <3>3. open # <<>> => Len(open) > 0 BY <1>1
    <3>4. b.kind = "deferred" =>
            i > 1 /\ b.at = Len(deferred') - Len(open') + i - 1
      BY ONLY <1>1, <1>2, <1>3, <3>1, <3>3, <2>2, b.kind = "deferred" => open # <<>> /\ b.at = Len(deferred)
    <3>5. b.own = Reverse(deferred'[Len(deferred) + 1]) /\ b.kind # "lambda"
      BY <1>3, ReverseEmpty
    <3>6. QED BY ONLY <3>1, <3>2, <3>4, <3>5
  <2>3. QED BY <1>1, <1>2, <2>1, <2>2
<1>5. Shape' BY ONLY <1>2, <1>3, <1>4, Inv, installed' = installed DEF Inv, Shape
<1>6. Len(open') <= Len(deferred') BY ONLY <1>1, <1>2, <1>3
<1>7. FramesMatch' BY ONLY <1>4, <1>6 DEF FramesMatch
<1>8. QED BY <1>5, <1>7 DEF Inv, DefersStayInTheirBlock, Nothing

LEMMA OpenInv == ASSUME Inv, OpenBlock \/ OpenDeferred PROVE Inv'
<1>1. CASE OpenBlock
  <2>1. NewBlock("block", 0) \in Block BY DEF NewBlock, Block
  <2>2. QED BY <1>1, <2>1, OpenedFrame DEF OpenBlock, NewBlock
<1>2. CASE OpenDeferred
  <2>1. Len(deferred) \in Nat BY DEF Inv, Shape
  <2>2. NewBlock("deferred", Len(deferred)) \in Block BY <2>1 DEF NewBlock, Block
  <2>3. QED BY <1>2, <2>2, OpenedFrame DEF OpenDeferred, HasRoom, NewBlock
<1>3. QED BY <1>1, <1>2

\* The exception of a failed parse leaves only the frames.
LEMMA AbortInv == ASSUME Inv, Abort \/ DeferFirst PROVE Inv'
<1>1. /\ open' = <<>> /\ deferred' = deferred /\ last' = Nothing /\ installed' = installed
      /\ deferred \in Seq(Seq(Elements)) /\ Len(deferred) \in Nat /\ installed = 1
  BY DEF Inv, Shape, Abort, DeferFirst
<1>2. open' \in Seq(Block) /\ Len(open') = 0 BY <1>1
<1>3. Shape' BY <1>1, <1>2 DEF Shape
<1>4. FramesMatch' BY <1>1, <1>2 DEF FramesMatch
<1>5. QED BY <1>1, <1>3, <1>4 DEF Inv, DefersStayInTheirBlock, Nothing

LEMMA StatementInv == ASSUME Inv, NEW e \in Exprs, Statement(e) PROVE Inv'
<1> DEFINE old == open[Depth]
           new == [old EXCEPT !.out = Append(old.out, e), !.fresh = FALSE]
<1>1. open \in Seq(Block) /\ Depth \in 1 .. Len(open)
  BY DEF Inv, Shape, Statement, HasRoom, Depth
<1>2. old \in Block BY <1>1
<1>3. e \in Elements BY DEF Elements
<1>4. new \in Block /\ new.own = old.own /\ new.kind = old.kind /\ new.at = old.at
  <2>1. Append(old.out, e) \in Seq(Elements) BY ONLY <1>2, <1>3 DEF Block
  <2> HIDE DEF old
  <2>2. QED BY ONLY <1>2, <2>1 DEF Block, new
<1>5. open' = [open EXCEPT ![Depth] = new] BY <1>1 DEF Statement
<1> HIDE DEF new
<1>6. /\ open' \in Seq(Block) /\ Len(open') = Len(open)
      /\ \A i \in 1 .. Len(open) : /\ open'[i].own = open[i].own
                                    /\ open'[i].kind = open[i].kind
                                    /\ open'[i].at = open[i].at
  BY <1>1, <1>4, <1>5
<1>7. deferred' = deferred /\ last' = Nothing /\ installed' = installed BY DEF Statement
<1>8. Shape' BY <1>6, <1>7 DEF Inv, Shape
<1>9. FramesMatch' BY <1>6, <1>7 DEF Inv, FramesMatch
<1>10. QED BY <1>7, <1>8, <1>9 DEF Inv, DefersStayInTheirBlock, Nothing

\* What the invariant says about the innermost block and the head of the stack.
LEMMA Innermost ==
    ASSUME Inv, open # <<>>
    PROVE  /\ Depth \in 1 .. Len(open) /\ Depth = Len(open) /\ Depth \in Nat
           /\ open \in Seq(Block) /\ deferred \in Seq(Seq(Elements))
           /\ Len(deferred) \in Nat /\ Len(open) <= Len(deferred)
           /\ open[Depth] \in Block
           /\ open[Depth].own = Reverse(deferred[Len(deferred)])
           /\ open[Depth].kind # "lambda"
           /\ open[Depth].kind = "deferred" =>
                Depth > 1 /\ open[Depth].at = Len(deferred) - 1
<1>1. /\ open \in Seq(Block) /\ deferred \in Seq(Seq(Elements)) /\ Len(open) <= Len(deferred)
      /\ Len(open) \in Nat /\ Len(deferred) \in Nat
  BY DEF Inv, Shape, FramesMatch
<1>2. Depth = Len(open) /\ Depth \in 1 .. Len(open) BY <1>1 DEF Depth
<1>3. Len(deferred) - Len(open) + Depth = Len(deferred) BY <1>1, <1>2
<1>4. open[Depth].own = Reverse(deferred[Len(deferred)])
  BY <1>2, <1>3 DEF Inv, FramesMatch
<1>5. /\ open[Depth].kind # "lambda"
      /\ open[Depth].kind = "deferred" =>
           Depth > 1 /\ open[Depth].at = Len(deferred) - Len(open) + Depth - 1
  BY <1>2 DEF Inv, Shape
<1>6. QED BY <1>1, <1>2, <1>3, <1>4, <1>5

LEMMA DeferInv == ASSUME Inv, NEW e \in Exprs, Defer(e) PROVE Inv'
<1> DEFINE n == Len(deferred)
           old == open[Depth]
           frame == deferred[n]
           own == <<e>> \o old.own
           out == Append(old.out, Null)
           new == [old EXCEPT !.own = own, !.out = out]
           pushed == Append(frame, e)
<1>1. /\ Depth \in 1 .. Len(open) /\ Depth = Len(open) /\ open \in Seq(Block)
      /\ deferred \in Seq(Seq(Elements)) /\ n \in Nat /\ Len(open) <= n
      /\ old \in Block /\ old.own = Reverse(frame)
  BY Innermost DEF Defer, HasRoom
<1>2. e \in Elements /\ Null \in Elements BY DEF Elements
<1>3. frame \in Seq(Elements) BY ONLY <1>1
<1>4. pushed \in Seq(Elements) /\ own = Reverse(pushed) BY ONLY <1>1, <1>2, <1>3, ReverseAppend
<1>5. own \in Seq(Elements) /\ out \in Seq(Elements)
  <2>1. old.own \in Seq(Elements) /\ old.out \in Seq(Elements) BY ONLY <1>1 DEF Block
  <2>2. <<e>> \in Seq(Elements) BY ONLY <1>2
  <2> HIDE DEF old
  <2>3. QED BY ONLY <1>2, <2>1, <2>2, ConcatProperties
<1>6. open' = [open EXCEPT ![Depth] = new] BY <1>1 DEF Defer
<1>7. deferred' = [deferred EXCEPT ![n] = pushed] BY <1>1 DEF Defer
<1> HIDE DEF own, out, old, pushed, frame
<1>8. new \in Block /\ new.own = own /\ new.kind = old.kind /\ new.at = old.at
  BY ONLY <1>1, <1>5 DEF Block
<1> HIDE DEF new
<1>9. /\ open' \in Seq(Block) /\ Len(open') = Len(open) /\ open'[Depth] = new
      /\ \A i \in 1 .. Len(open) : i # Depth => open'[i] = open[i]
  BY ONLY <1>1, <1>6, <1>8
<1>10. /\ deferred' \in Seq(Seq(Elements)) /\ Len(deferred') = n /\ deferred'[n] = pushed
       /\ \A i \in 1 .. n : i # n => deferred'[i] = deferred[i]
  BY ONLY <1>1, <1>4, <1>7
<1> HIDE DEF n
<1>11. ASSUME NEW i \in 1 .. Len(open)
       PROVE  /\ open'[i].kind = open[i].kind /\ open'[i].at = open[i].at
              /\ open'[i].own = Reverse(deferred'[n - Len(open) + i])
  <2>1. CASE i = Depth
    <3>1. n - Len(open) + i = n BY ONLY <1>1, <2>1
    <3>2. QED BY ONLY <1>4, <1>8, <1>9, <1>10, <2>1, <3>1 DEF old
  <2>2. CASE i # Depth
    <3>1. n - Len(open) + i \in 1 .. n /\ n - Len(open) + i # n BY ONLY <1>1, <2>2
    <3>2. open[i].own = Reverse(deferred[n - Len(open) + i])
      BY ONLY Inv DEF Inv, FramesMatch, n
    <3>3. QED BY ONLY <1>9, <1>10, <2>2, <3>1, <3>2
  <2>3. QED BY <2>1, <2>2
<1>12. installed' = installed /\ last' = Nothing BY DEF Defer
<1>13. Shape' BY ONLY <1>9, <1>10, <1>11, <1>12, Inv DEF Inv, Shape, n
<1>14. FramesMatch' BY ONLY <1>1, <1>9, <1>10, <1>11 DEF FramesMatch
<1>15. QED BY <1>12, <1>13, <1>14 DEF Inv, DefersStayInTheirBlock, Nothing

\* The innermost block is closed and its frame popped; the block around it and the
\* frame of that block may get the result, both in the same way.
LEMMA Popped ==
    ASSUME Inv, open # <<>>, installed' = installed,
           open' \in Seq(Block), Len(open') = Len(open) - 1,
           deferred' \in Seq(Seq(Elements)), Len(deferred') = Len(deferred) - 1,
           \A i \in 1 .. Len(open) - 1 :
             open'[i].kind = open[i].kind /\ open'[i].at = open[i].at,
           \A i \in 1 .. Len(open) - 1 :
             \/ /\ open'[i].own = open[i].own
                /\ deferred'[Len(deferred) - Len(open) + i] = deferred[Len(deferred) - Len(open) + i]
             \/ open'[i].own = Reverse(deferred'[Len(deferred) - Len(open) + i])
    PROVE  Shape' /\ FramesMatch'
<1>1. Len(open) \in Nat /\ Len(deferred) \in Nat /\ Len(open) <= Len(deferred)
  BY Innermost
<1>2. /\ Len(deferred') - Len(open') = Len(deferred) - Len(open)
      /\ Len(open') <= Len(deferred')
  BY ONLY <1>1, Len(open') = Len(open) - 1, Len(deferred') = Len(deferred) - 1
<1>3. ASSUME NEW i \in 1 .. Len(open')
      PROVE  /\ open'[i].kind # "lambda"
             /\ open'[i].kind = "deferred" =>
                  i > 1 /\ open'[i].at = Len(deferred') - Len(open') + i - 1
             /\ open'[i].own = Reverse(deferred'[Len(deferred') - Len(open') + i])
  <2>1. i \in 1 .. Len(open) - 1 /\ i \in 1 .. Len(open) BY <1>1
  <2>2. /\ open[i].kind # "lambda"
        /\ open[i].kind = "deferred" =>
             i > 1 /\ open[i].at = Len(deferred) - Len(open) + i - 1
        /\ open[i].own = Reverse(deferred[Len(deferred) - Len(open) + i])
    BY ONLY <2>1, Inv DEF Inv, Shape, FramesMatch
  <2>3. QED BY <1>2, <2>1, <2>2
<1>4. Shape' BY <1>3 DEF Inv, Shape
<1>5. FramesMatch' BY <1>2, <1>3 DEF FramesMatch
<1>6. QED BY <1>4, <1>5

\* A sequence without its last element.
LEMMA FrontFacts ==
    ASSUME NEW S, NEW q \in Seq(S), q # <<>>
    PROVE  /\ Front(q) \in Seq(S) /\ Len(Front(q)) = Len(q) - 1 /\ Len(q) \in Nat \ {0}
           /\ \A i \in 1 .. Len(q) - 1 : Front(q)[i] = q[i]
<1>1. Len(q) \in Nat \ {0} /\ \A i \in 1 .. Len(q) : q[i] \in S OBVIOUS
<1> DEFINE n == Len(q) - 1
<1>3. n \in Int /\ \A i \in 1 .. n : q[i] \in S BY <1>1
<1>4. /\ SubSeq(q, 1, n) \in Seq(S)
      /\ Len(SubSeq(q, 1, n)) = IF 1 <= n THEN n - 1 + 1 ELSE 0
      /\ \A i \in 1 .. n - 1 + 1 : SubSeq(q, 1, n)[i] = q[1 + i - 1]
  BY <1>3, SubSeqProperties
<1>5. Len(SubSeq(q, 1, n)) = Len(q) - 1
  <2> DEFINE m == Len(SubSeq(q, 1, n))
             k == Len(q)
  <2>1. /\ k \in Nat \ {0} /\ n = k - 1
        /\ m = IF 1 <= n THEN n - 1 + 1 ELSE 0
    BY <1>1, <1>4
  <2> HIDE DEF m, k, n
  <2>2. m = k - 1 BY ONLY <2>1
  <2>3. QED BY ONLY <2>2 DEF m, k
<1>6. \A i \in 1 .. Len(q) - 1 : 1 + i - 1 = i /\ i \in 1 .. n - 1 + 1 BY <1>1
<1>7. QED BY <1>1, <1>4, <1>5, <1>6 DEF Front

LEMMA CloseBlockInv == ASSUME Inv, CloseBlock PROVE Inv'
<1>1. /\ Depth \in 1 .. Len(open) /\ Depth = Len(open) /\ open \in Seq(Block)
      /\ deferred \in Seq(Seq(Elements)) /\ Len(deferred) \in Nat
      /\ Len(open) <= Len(deferred) /\ open[Depth].own = Reverse(deferred[Len(deferred)])
      /\ open # <<>> /\ deferred # <<>>
  BY Innermost DEF CloseBlock
<1>2. last'.got = last'.want
  BY <1>1 DEF CloseBlock, BlockRead, WithDeferred, Inner, Last
<1>3. /\ deferred' = Front(deferred) /\ installed' = installed
      /\ open' = Closed
  BY DEF CloseBlock
<1>4. /\ deferred' \in Seq(Seq(Elements)) /\ Len(deferred') = Len(deferred) - 1
      /\ \A i \in 1 .. Len(deferred) - 1 : deferred'[i] = deferred[i]
  BY ONLY <1>1, <1>3, FrontFacts
<1>5. /\ open' \in Seq(Block) /\ Len(open') = Len(open) - 1
      /\ \A i \in 1 .. Len(open) - 1 : /\ open'[i].kind = open[i].kind
                                        /\ open'[i].at = open[i].at
                                        /\ open'[i].own = open[i].own
  <2>1. CASE Depth = 1
    BY ONLY <1>1, <1>3, <2>1 DEF Closed
  <2>2. CASE Depth # 1
    <3> DEFINE old == Front(open)[Depth - 1]
               new == [old EXCEPT !.out = Append(old.out, Body), !.fresh = FALSE]
    <3>1. /\ Front(open) \in Seq(Block) /\ Len(Front(open)) = Len(open) - 1
          /\ \A i \in 1 .. Len(open) - 1 : Front(open)[i] = open[i]
      BY ONLY <1>1, FrontFacts
    <3>2. Depth - 1 \in 1 .. Len(Front(open)) BY ONLY <1>1, <2>2, <3>1
    <3>3. old \in Block BY ONLY <3>1, <3>2
    <3>4. Append(old.out, Body) \in Seq(Elements) BY ONLY <3>3 DEF Block, Elements
    <3>5. open' = [Front(open) EXCEPT ![Depth - 1] = new]
      BY ONLY <1>3, <2>2, <3>1, <3>2 DEF Closed
    <3> HIDE DEF old
    <3>6. new \in Block /\ new.own = old.own /\ new.kind = old.kind /\ new.at = old.at
      BY ONLY <3>3, <3>4 DEF Block
    <3> HIDE DEF new
    <3>7. QED BY ONLY <3>1, <3>2, <3>5, <3>6 DEF old
  <2>3. QED BY <2>1, <2>2
<1>6. \A i \in 1 .. Len(open) - 1 :
        Len(deferred) - Len(open) + i \in 1 .. Len(deferred) - 1
  BY ONLY <1>1
<1>7. Shape' /\ FramesMatch'
  BY ONLY Inv, <1>1, <1>3, <1>4, <1>5, <1>6, Popped
<1>8. QED BY <1>2, <1>7 DEF Inv, DefersStayInTheirBlock

LEMMA CloseDeferredInv == ASSUME Inv, CloseDeferred PROVE Inv'
<1> DEFINE n == Len(deferred)
<1>1. /\ Depth \in 1 .. Len(open) /\ Depth = Len(open) /\ open \in Seq(Block)
      /\ deferred \in Seq(Seq(Elements)) /\ n \in Nat
      /\ Len(open) <= n /\ open[Depth].own = Reverse(deferred[n])
      /\ open # <<>> /\ deferred # <<>> /\ Depth > 1 /\ open[Depth].at = n - 1
  BY Innermost DEF CloseDeferred, Inner
<1>2. last'.got = last'.want
  BY <1>1 DEF CloseDeferred, BlockRead, WithDeferred, Inner, Last
<1>3. /\ deferred' = [Front(deferred) EXCEPT ![n - 1] = Append(Front(deferred)[n - 1], Body)]
      /\ open' = [Front(open) EXCEPT ![Depth - 1].own = <<Body>> \o @,
                                     ![Depth - 1].out = Append(@, Null)]
      /\ installed' = installed
  BY <1>1 DEF CloseDeferred, Inner
<1>4. /\ Front(open) \in Seq(Block) /\ Len(Front(open)) = Len(open) - 1
      /\ \A i \in 1 .. Len(open) - 1 : Front(open)[i] = open[i]
  BY ONLY <1>1, FrontFacts
<1>5. /\ Front(deferred) \in Seq(Seq(Elements)) /\ Len(Front(deferred)) = n - 1
      /\ \A i \in 1 .. n - 1 : Front(deferred)[i] = deferred[i]
  BY ONLY <1>1, FrontFacts
<1>6. /\ Depth - 1 \in 1 .. Len(open) - 1 /\ n - 1 \in 1 .. n - 1
      /\ n - Len(open) + (Depth - 1) = n - 1
  BY ONLY <1>1
<1> DEFINE old == Front(open)[Depth - 1]
           frame == Front(deferred)[n - 1]
           own == <<Body>> \o old.own
           out == Append(old.out, Null)
           new == [old EXCEPT !.own = own, !.out = out]
           pushed == Append(frame, Body)
<1>7. old \in Block /\ frame \in Seq(Elements) BY ONLY <1>4, <1>5, <1>6
<1>8. own \in Seq(Elements) /\ out \in Seq(Elements) /\ Body \in Elements
  <2>1. /\ old.own \in Seq(Elements) /\ old.out \in Seq(Elements)
        /\ Body \in Elements /\ Null \in Elements
    BY ONLY <1>7 DEF Block, Elements
  <2>2. <<Body>> \in Seq(Elements) BY ONLY <2>1
  <2> HIDE DEF old
  <2>3. QED BY ONLY <2>1, <2>2, ConcatProperties
<1>9. old.own = Reverse(frame)
  <2>1. Front(deferred)[n - 1] = deferred[n - 1] BY ONLY <1>5, <1>6
  <2>2. old = open[Depth - 1] BY ONLY <1>4, <1>6
  <2>3. Depth - 1 \in 1 .. Len(open) BY ONLY <1>1, <1>6
  <2>4. open[Depth - 1].own = Reverse(deferred[n - Len(open) + (Depth - 1)])
    BY ONLY <2>3, Inv DEF Inv, FramesMatch
  <2>5. QED BY <2>1, <2>2, <2>4, <1>6
<1>9a. pushed \in Seq(Elements) /\ own = Reverse(pushed)
  BY ONLY <1>7, <1>8, <1>9, ReverseAppend
<1>10. deferred' = [Front(deferred) EXCEPT ![n - 1] = pushed] BY ONLY <1>3, <1>9
<1>11. open' = [Front(open) EXCEPT ![Depth - 1] = new] BY ONLY <1>3, <1>4, <1>6
<1> HIDE DEF own, out, old, n, frame, pushed
<1>12. new \in Block /\ new.own = own /\ new.kind = old.kind /\ new.at = old.at
  BY ONLY <1>7, <1>8 DEF Block
<1> HIDE DEF new
<1>13. /\ open' \in Seq(Block) /\ Len(open') = Len(open) - 1 /\ open'[Depth - 1] = new
       /\ \A i \in 1 .. Len(open) - 1 : i # Depth - 1 => open'[i] = open[i]
  BY ONLY <1>4, <1>6, <1>11, <1>12
<1>14. /\ deferred' \in Seq(Seq(Elements)) /\ Len(deferred') = n - 1
       /\ deferred'[n - 1] = pushed
       /\ \A i \in 1 .. n - 1 : i # n - 1 => deferred'[i] = deferred[i]
  BY ONLY <1>5, <1>6, <1>9a, <1>10
<1>15. \A i \in 1 .. Len(open) - 1 :
         open'[i].kind = open[i].kind /\ open'[i].at = open[i].at
  BY ONLY <1>4, <1>6, <1>12, <1>13 DEF old
<1>16. ASSUME NEW i \in 1 .. Len(open) - 1
       PROVE  \/ /\ open'[i].own = open[i].own
                 /\ deferred'[n - Len(open) + i] = deferred[n - Len(open) + i]
              \/ open'[i].own = Reverse(deferred'[n - Len(open) + i])
  <2>1. CASE i = Depth - 1 BY ONLY <1>6, <1>12, <1>13, <1>14, <1>9a, <2>1
  <2>2. CASE i # Depth - 1
    <3>1. n - Len(open) + i \in 1 .. n - 1 /\ n - Len(open) + i # n - 1
      BY ONLY <1>1, <2>2
    <3>2. QED BY ONLY <1>13, <1>14, <2>2, <3>1
  <2>3. QED BY <2>1, <2>2
<1>17. Shape' /\ FramesMatch'
  BY ONLY Inv, <1>1, <1>3, <1>13, <1>14, <1>15, <1>16, Popped DEF n
<1>18. QED BY <1>2, <1>17 DEF Inv, DefersStayInTheirBlock

LEMMA PlainStep == ASSUME Inv, [Next]_vars, Plain' PROVE Inv'
<1>1. CASE UNCHANGED vars
  BY <1>1 DEF Inv, Shape, FramesMatch, DefersStayInTheirBlock, vars
<1>2. CASE OpenBlock \/ OpenDeferred BY <1>2, OpenInv
<1>3. CASE OpenLambda BY <1>3 DEF OpenLambda, Plain
<1>4. CASE CloseBlock BY <1>4, CloseBlockInv
<1>5. CASE CloseDeferred BY <1>5, CloseDeferredInv
<1>6. CASE CloseLambda BY <1>6, Innermost DEF CloseLambda, Inner
<1>7. CASE DeferFirst \/ Abort BY <1>7, AbortInv
<1>8. CASE NextFile BY <1>8 DEF NextFile, Plain, Inv, Shape
<1>9. ASSUME NEW e \in Exprs, Statement(e) \/ Defer(e) PROVE Inv'
  BY <1>9, StatementInv, DeferInv
<1>10. QED
  BY <1>1, <1>2, <1>3, <1>4, <1>5, <1>6, <1>7, <1>8, <1>9 DEF Next

\* No step makes the state plain again, and only NextFile changes installed.
LEMMA NeverPlainAgain ==
    ASSUME installed \in Nat \ {0}, [Next]_vars
    PROVE  installed' \in Nat \ {0} /\ (Plain' => Plain)
<1>1. /\ installed' \in {installed, installed + 1}
      /\ lambdas' = lambdas \/ lambdas' = TRUE
  <2>1. CASE UNCHANGED vars BY <2>1 DEF vars
  <2>2. CASE OpenBlock \/ OpenDeferred \/ OpenLambda
    BY <2>2 DEF OpenBlock, OpenDeferred, OpenLambda
  <2>3. CASE CloseBlock \/ CloseDeferred \/ CloseLambda
    BY <2>3 DEF CloseBlock, CloseDeferred, CloseLambda
  <2>4. CASE DeferFirst \/ Abort \/ NextFile BY <2>4 DEF DeferFirst, Abort, NextFile
  <2>5. CASE \E e \in Exprs : Statement(e) \/ Defer(e) BY <2>5 DEF Statement, Defer
  <2>6. QED BY <2>1, <2>2, <2>3, <2>4, <2>5 DEF Next
<1>2. installed' \in Nat \ {0} /\ (installed' = 1 => installed = 1) BY <1>1
<1>3. QED BY <1>1, <1>2 DEF Plain

LEMMA StepInv == IInv /\ [Next]_vars => IInv'
<1> SUFFICES ASSUME IInv, [Next]_vars PROVE IInv'
  OBVIOUS
<1>1. installed' \in Nat \ {0} /\ (Plain' => Plain) BY NeverPlainAgain DEF IInv
<1>2. ASSUME Plain' PROVE Inv' BY <1>1, <1>2, PlainStep DEF IInv
<1>3. QED BY <1>1, <1>2 DEF IInv

\* Defer.hx keeps its promise for every text and every depth: until its callbacks are
\* installed again or a trailing lambda is read, each block ends with exactly the
\* expressions that it defers, in reverse order.
THEOREM DeferCorrect == Spec => []PlainDefersStay
<1>1. IInv => PlainDefersStay BY DEF IInv, Inv, PlainDefersStay
<1>2. Init => IInv BY InitInv
<1>3. IInv /\ [Next]_vars => IInv' BY StepInv
<1>4. QED BY <1>1, <1>2, <1>3, PTL DEF Spec

\* The stack of frames follows the open blocks, above whatever failed parses left.
THEOREM FramesFollowBlocks == Spec => []PlainFramesMatch
<1>1. IInv => PlainFramesMatch BY DEF IInv, Inv, PlainFramesMatch
<1>2. Init => IInv BY InitInv
<1>3. IInv /\ [Next]_vars => IInv' BY StepInv
<1>4. QED BY <1>1, <1>2, <1>3, PTL DEF Spec

-----------------------------------------------------------------------------
(* Conditionals.                                                           *)

\* An open #if of any number of branches; it is compiled when its branch is the first
\* that holds.
Level == [earlier : BOOLEAN, holds : BOOLEAN, last : BOOLEAN, branches : Nat]
Compiled(b) == b.holds /\ ~b.earlier

\* The entries from + 1 .. upto of the stack s are what cond_if and cond_else have made
\* of an #if: the negated conditions of the earlier branches and the present one's, and
\* after #else the negated ones only.
Fits(s, b, from, upto) ==
    /\ b.last => b.holds /\ ((\A k \in from + 1 .. upto : s[k]) <=> ~b.earlier)
    /\ ~b.last => /\ s[upto] <=> b.holds
                  /\ (\A k \in from + 1 .. upto - 1 : s[k]) <=> ~b.earlier

\* The stack s is made of the entries of each open #if, the i-th one's after off[i].
Offsets(off, s, d) ==
    /\ off \in [1 .. Len(d) + 1 -> Nat] /\ off[1] = 0 /\ off[Len(d) + 1] = Len(s)
    /\ \A i \in 1 .. Len(d) : off[i + 1] = off[i] + d[i]
    /\ \A i, j \in 1 .. Len(d) + 1 : i <= j => off[i] <= off[j]
    /\ \A k \in 1 .. Len(s) : \E i \in 1 .. Len(d) : k \in off[i] + 1 .. off[i + 1]

Segments(off, s, d, levels) ==
    \A i \in 1 .. Len(d) : Fits(s, levels[i], off[i], off[i + 1])

LEMMA Grown ==
    ASSUME NEW S, NEW s \in Seq(S), NEW x \in S
    PROVE  /\ Append(s, x) \in Seq(S) /\ Len(s) \in Nat /\ Len(Append(s, x)) = Len(s) + 1
           /\ \A i \in 1 .. Len(s) : Append(s, x)[i] = s[i]
           /\ Append(s, x)[Len(s) + 1] = x
OBVIOUS

LEMMA Cut ==
    ASSUME NEW S, NEW s \in Seq(S), NEW n \in 0 .. Len(s)
    PROVE  /\ SubSeq(s, 1, n) \in Seq(S) /\ Len(SubSeq(s, 1, n)) = n
           /\ \A i \in 1 .. n : SubSeq(s, 1, n)[i] = s[i]
<1>1. n \in Nat /\ Len(s) \in Nat /\ \A i \in 1 .. n : i \in 1 .. Len(s)
  OBVIOUS
<1>2. \A i \in 1 .. n : s[i] \in S
  BY <1>1, ElementOfSeq
<1>3. /\ SubSeq(s, 1, n) \in Seq(S) /\ Len(SubSeq(s, 1, n)) = IF 1 <= n THEN n - 1 + 1 ELSE 0
      /\ \A i \in 1 .. n - 1 + 1 : SubSeq(s, 1, n)[i] = s[1 + i - 1]
  BY <1>1, <1>2, SubSeqProperties
<1>4. \A i \in 1 .. n : i \in 1 .. n - 1 + 1 /\ 1 + i - 1 = i
  BY <1>1
<1> QED BY <1>1, <1>3, <1>4

LEMMA NotEmpty ==
    ASSUME NEW S, NEW s \in Seq(S)
    PROVE  /\ Len(s) \in Nat /\ s = << >> <=> Len(s) = 0
           /\ s # << >> <=> Len(s) >= 1
BY EmptySeq

LEMMA Replaced ==
    ASSUME NEW S, NEW s \in Seq(S), s # << >>, NEW x \in S
    PROVE  /\ ReplaceLast(s, x) \in Seq(S) /\ Len(ReplaceLast(s, x)) = Len(s)
           /\ \A i \in 1 .. Len(s) - 1 : ReplaceLast(s, x)[i] = s[i]
           /\ ReplaceLast(s, x)[Len(s)] = x
<1> DEFINE f == SubSeq(s, 1, Len(s) - 1)
<1>1. Len(s) - 1 \in 0 .. Len(s) /\ Len(s) \in Nat
  BY NotEmpty
<1>2. /\ f \in Seq(S) /\ Len(f) = Len(s) - 1 /\ \A i \in 1 .. Len(s) - 1 : f[i] = s[i]
  BY <1>1, Cut
<1>3. ReplaceLast(s, x) = Append(f, x)
  BY DEF ReplaceLast, Front
<1> HIDE DEF f
<1> QED BY <1>1, <1>2, <1>3, Grown

LEMMA Fronted ==
    ASSUME NEW S, NEW s \in Seq(S), s # << >>
    PROVE  /\ Front(s) \in Seq(S) /\ Len(Front(s)) = Len(s) - 1
           /\ \A i \in 1 .. Len(s) - 1 : Front(s)[i] = s[i]
           /\ Last(s) = s[Len(s)] /\ s[Len(s)] \in S
<1>1. Len(s) - 1 \in 0 .. Len(s) /\ Len(s) \in 1 .. Len(s)
  BY NotEmpty
<1> QED BY <1>1, Cut, ElementOfSeq DEF Front, Last

\* A segment keeps its meaning when the stack changes above it only.
LEMMA FitsKept ==
    ASSUME NEW s, NEW s1, NEW m \in Nat, \A k \in 1 .. m : s1[k] = s[k],
           NEW b, NEW from \in Nat, NEW upto \in Nat, from < upto, upto <= m,
           Fits(s, b, from, upto)
    PROVE  Fits(s1, b, from, upto)
<1>1. upto \in 1 .. m
  OBVIOUS
<1>2. \A k \in from + 1 .. upto : k \in 1 .. m
  OBVIOUS
<1>3. \A k \in from + 1 .. upto - 1 : k \in 1 .. m
  OBVIOUS
<1> QED BY <1>1, <1>2, <1>3 DEF Fits

\* The i-th segment: not empty, within the stack, and below the later ones.
LEMMA Segment ==
    ASSUME NEW s \in Seq(BOOLEAN), NEW d \in Seq(Nat \ {0}), NEW off, Offsets(off, s, d),
           NEW i \in 1 .. Len(d)
    PROVE  /\ Len(d) \in Nat /\ Len(s) \in Nat /\ i \in 1 .. Len(d) + 1 /\ i + 1 \in 1 .. Len(d) + 1
           /\ d[i] \in Nat \ {0} /\ off[i] \in Nat /\ off[i + 1] \in Nat
           /\ off[i + 1] = off[i] + d[i] /\ off[i] < off[i + 1] /\ off[i + 1] <= Len(s)
           /\ \A j \in 1 .. Len(d) : i < j => off[i + 1] <= off[j]
<1>1. /\ off \in [1 .. Len(d) + 1 -> Nat] /\ off[Len(d) + 1] = Len(s)
      /\ off[i + 1] = off[i] + d[i]
      /\ \A k, j \in 1 .. Len(d) + 1 : k <= j => off[k] <= off[j]
  BY DEF Offsets
<1>2. /\ Len(d) \in Nat /\ Len(s) \in Nat /\ i \in 1 .. Len(d) + 1 /\ i + 1 \in 1 .. Len(d) + 1
      /\ i + 1 <= Len(d) + 1 /\ Len(d) + 1 \in 1 .. Len(d) + 1
      /\ \A j \in 1 .. Len(d) : j \in 1 .. Len(d) + 1 /\ (i < j => i + 1 <= j)
  OBVIOUS
<1>3. d[i] \in Nat \ {0}
  BY ElementOfSeq
<1>4. off[i] \in Nat /\ off[i + 1] \in Nat
  BY <1>1, <1>2
<1>5. off[i + 1] <= Len(s) /\ \A j \in 1 .. Len(d) : i < j => off[i + 1] <= off[j]
  BY <1>1, <1>2
<1>6. off[i] < off[i + 1]
  BY <1>1, <1>3, <1>4
<1> QED BY <1>1, <1>2, <1>3, <1>4, <1>5, <1>6

\* One #if more: its entry is the only one of a new segment.
LEMMA SegmentsIf ==
    ASSUME NEW s \in Seq(BOOLEAN), NEW d \in Seq(Nat \ {0}), NEW levels \in Seq(Level),
           Len(levels) = Len(d), NEW off, Offsets(off, s, d), NEW v \in BOOLEAN
    PROVE  \E o : /\ Offsets(o, Append(s, v), Append(d, 1))
                  /\ Segments(off, s, d, levels) =>
                       Segments(o, Append(s, v), Append(d, 1), Append(levels, FirstBranch(v)))
<1> DEFINE n == Len(d)
           s1 == Append(s, v)
           d1 == Append(d, 1)
           levels1 == Append(levels, FirstBranch(v))
           o == [i \in 1 .. n + 2 |-> IF i = n + 2 THEN Len(s) + 1 ELSE off[i]]
<1>1. FirstBranch(v) = [earlier |-> FALSE, holds |-> v, last |-> FALSE, branches |-> 0]
  BY DEF FirstBranch
<1>2. FirstBranch(v) \in Level
  BY <1>1 DEF Level
<1>3. /\ n \in Nat /\ Len(s) \in Nat /\ Len(s1) = Len(s) + 1 /\ Len(d1) = n + 1
      /\ \A i \in 1 .. Len(s) : s1[i] = s[i]
      /\ s1[Len(s) + 1] = v
  BY Grown
<1>4. d1[n + 1] = 1 /\ \A i \in 1 .. n : d1[i] = d[i]
  OBVIOUS
<1>5. levels1[n + 1] = FirstBranch(v) /\ \A i \in 1 .. n : levels1[i] = levels[i]
  BY <1>2
<1>6. /\ off \in [1 .. n + 1 -> Nat] /\ off[1] = 0 /\ off[n + 1] = Len(s)
      /\ \A i \in 1 .. n : off[i + 1] = off[i] + d[i]
      /\ \A i, j \in 1 .. n + 1 : i <= j => off[i] <= off[j]
      /\ \A k \in 1 .. Len(s) : \E i \in 1 .. n : k \in off[i] + 1 .. off[i + 1]
  BY DEF Offsets
<1>7. /\ \A i \in 1 .. n + 1 : o[i] = off[i]
      /\ o[n + 2] = Len(s) + 1
  BY <1>3
<1> HIDE DEF s1, d1, levels1
<1>8. Offsets(o, s1, d1)
  <2>1. o \in [1 .. Len(d1) + 1 -> Nat] /\ o[1] = 0 /\ o[Len(d1) + 1] = Len(s1)
    BY <1>3, <1>6, <1>7
  <2>2. \A i \in 1 .. Len(d1) : o[i + 1] = o[i] + d1[i]
    <3>1. \A i \in 1 .. n : i \in 1 .. n + 1 /\ i + 1 \in 1 .. n + 1
      BY <1>3
    <3>2. \A i \in 1 .. Len(d1) : i \in 1 .. n \/ i = n + 1
      BY <1>3
    <3>3. o[(n + 1) + 1] = o[n + 1] + d1[n + 1]
      BY <1>3, <1>4, <1>6, <1>7
    <3> QED BY <1>4, <1>6, <1>7, <3>1, <3>2, <3>3
  <2>3. \A i, j \in 1 .. Len(d1) + 1 : i <= j => o[i] <= o[j]
    <3>1. \A i \in 1 .. n + 1 : off[i] <= Len(s)
      BY <1>3, <1>6
    <3>2. \A i \in 1 .. Len(d1) + 1 : i \in 1 .. n + 1 \/ i = n + 2
      BY <1>3
    <3> HIDE DEF o
    <3>3. ASSUME NEW i \in 1 .. Len(d1) + 1, NEW j \in 1 .. Len(d1) + 1, i <= j
          PROVE  o[i] <= o[j]
      <4>1. CASE j \in 1 .. n + 1
        <5>1. i \in 1 .. n + 1 BY <1>3, <3>3, <4>1
        <5> QED BY <1>6, <1>7, <3>3, <4>1, <5>1
      <4>2. CASE j = n + 2 /\ i \in 1 .. n + 1
        <5>1. o[i] = off[i] /\ off[i] <= Len(s) /\ off[i] \in Nat /\ o[j] = Len(s) + 1
          BY <1>6, <1>7, <3>1, <4>2
        <5> QED BY <1>3, <5>1
      <4>3. CASE j = n + 2 /\ i = n + 2
        BY <1>3, <1>7, <4>3
      <4> QED BY <3>2, <4>1, <4>2, <4>3
    <3> QED BY <3>3
  <2>4. ASSUME NEW k \in 1 .. Len(s1)
        PROVE  \E i \in 1 .. Len(d1) : k \in o[i] + 1 .. o[i + 1]
    <3>1. CASE k \in 1 .. Len(s)
      <4>1. PICK i \in 1 .. n : k \in off[i] + 1 .. off[i + 1]
        BY <1>6, <3>1
      <4>2. i \in 1 .. Len(d1) /\ i \in 1 .. n + 1 /\ i + 1 \in 1 .. n + 1
        BY <1>3
      <4> QED BY <1>7, <4>1, <4>2
    <3>2. CASE k = Len(s) + 1
      <4>1. n + 1 \in 1 .. Len(d1) /\ n + 1 \in 1 .. n + 1 /\ n + 2 = (n + 1) + 1
        BY <1>3
      <4>2. o[n + 1] = Len(s) /\ o[(n + 1) + 1] = Len(s) + 1
        BY <1>6, <1>7, <4>1
      <4> HIDE DEF o
      <4>3. k \in o[n + 1] + 1 .. o[(n + 1) + 1]
        BY <1>3, <3>2, <4>2
      <4> QED BY <4>1, <4>3
    <3>3. k \in 1 .. Len(s) \/ k = Len(s) + 1
      BY <1>3
    <3> QED BY <3>1, <3>2, <3>3
  <2> QED BY <2>1, <2>2, <2>3, <2>4 DEF Offsets
<1>9. ASSUME Segments(off, s, d, levels)
      PROVE  Segments(o, s1, d1, levels1)
  <2>1. ASSUME NEW i \in 1 .. n
        PROVE  Fits(s1, levels1[i], o[i], o[i + 1])
    <3>1. /\ i \in 1 .. n + 1 /\ i + 1 \in 1 .. n + 1
          /\ off[i] \in Nat /\ off[i + 1] \in Nat /\ off[i] < off[i + 1] /\ off[i + 1] <= Len(s)
      BY Segment
    <3>2. Fits(s, levels[i], off[i], off[i + 1])
      BY <1>9 DEF Segments
    <3> HIDE DEF o
    <3>3. Fits(s1, levels1[i], off[i], off[i + 1])
      BY <1>3, <1>5, <3>1, <3>2, FitsKept
    <3> QED BY <1>7, <3>1, <3>3
  <2>2. Fits(s1, levels1[n + 1], o[n + 1], o[(n + 1) + 1])
    <3>1. o[n + 1] = Len(s) /\ o[(n + 1) + 1] = Len(s) + 1
      BY <1>3, <1>6, <1>7
    <3>2. ~levels1[n + 1].last /\ ~levels1[n + 1].earlier /\ levels1[n + 1].holds = v
      BY <1>1, <1>5
    <3>3. ~\E k \in Len(s) + 1 .. (Len(s) + 1) - 1 : TRUE
      BY <1>3
    <3> HIDE DEF o
    <3>4. Fits(s1, levels1[n + 1], Len(s), Len(s) + 1)
      BY <1>3, <3>2, <3>3 DEF Fits
    <3> QED BY <3>1, <3>4
  <2>3. \A i \in 1 .. Len(d1) : i \in 1 .. n \/ i = n + 1
    BY <1>3
  <2> QED BY <2>1, <2>2, <2>3 DEF Segments
<1> QED BY <1>8, <1>9 DEF s1, d1, levels1

LEMMA AllOfSegment ==
    ASSUME NEW s, NEW from \in Nat, NEW upto \in Nat, from < upto
    PROVE  (\A k \in from + 1 .. upto : s[k]) <=> (\A k \in from + 1 .. upto - 1 : s[k]) /\ s[upto]
<1>1. \A k : k \in from + 1 .. upto <=> k \in from + 1 .. upto - 1 \/ k = upto
  OBVIOUS
<1> QED BY <1>1

\* cond_else: the last entry is negated.
LEMMA NegatedLast ==
    ASSUME stack \in Seq(BOOLEAN), stack # << >>
    PROVE  \E x \in BOOLEAN : Negated = ReplaceLast(stack, x) /\ (x <=> ~stack[Len(stack)])
<1>1. stack[Len(stack)] \in BOOLEAN
  BY EmptySeq, ElementOfSeq
<1> QED BY <1>1 DEF ReplaceLast, Last, Negated

\* The last branch of an #if that is not #else, with its condition negated: all the
\* entries hold when no branch up to it does.
LEMMA NegatedFits ==
    ASSUME NEW s \in Seq(BOOLEAN), NEW d \in Seq(Nat \ {0}), d # << >>,
           NEW off, Offsets(off, s, d), NEW x \in BOOLEAN, x <=> ~s[Len(s)]
    PROVE  /\ Len(d) \in 1 .. Len(d) /\ Len(s) >= 1 /\ s # << >> /\ off[Len(d) + 1] = Len(s)
           /\ off[Len(d)] \in Nat /\ off[Len(d)] < Len(s)
           /\ ReplaceLast(s, x) \in Seq(BOOLEAN)
           /\ Len(ReplaceLast(s, x)) = Len(s)
           /\ \A k \in 1 .. off[Len(d)] : ReplaceLast(s, x)[k] = s[k]
           /\ \A b : Fits(s, b, off[Len(d)], Len(s)) /\ ~b.last =>
                ((\A k \in off[Len(d)] + 1 .. Len(s) : ReplaceLast(s, x)[k])
                   <=> ~(b.earlier \/ b.holds))
<1>1. Len(d) \in 1 .. Len(d)
  BY NotEmpty
<1>2. /\ off[Len(d)] \in Nat /\ off[Len(d)] < off[Len(d) + 1] /\ Len(s) \in Nat
      /\ off[Len(d) + 1] = Len(s)
  <2>1. off[Len(d) + 1] = Len(s)
    BY DEF Offsets
  <2> QED BY <1>1, <2>1, Segment
<1>3. Len(s) >= 1 /\ s # << >>
  BY <1>2, NotEmpty
<1> DEFINE neg == ReplaceLast(s, x)
<1>6. /\ neg \in Seq(BOOLEAN) /\ Len(neg) = Len(s)
      /\ \A k \in 1 .. Len(s) - 1 : neg[k] = s[k]
      /\ neg[Len(s)] = x
  BY <1>3, Replaced
<1> HIDE DEF neg
<1>7. \A k \in 1 .. off[Len(d)] : k \in 1 .. Len(s) - 1
  BY <1>2
<1>8. ASSUME NEW b, Fits(s, b, off[Len(d)], Len(s)), ~b.last
      PROVE  (\A k \in off[Len(d)] + 1 .. Len(s) : neg[k]) <=> ~(b.earlier \/ b.holds)
  <2>1. (\A k \in off[Len(d)] + 1 .. Len(s) : neg[k])
          <=> (\A k \in off[Len(d)] + 1 .. Len(s) - 1 : neg[k]) /\ neg[Len(s)]
    BY <1>2, AllOfSegment
  <2>2. \A k \in off[Len(d)] + 1 .. Len(s) - 1 : k \in 1 .. Len(s) - 1
    BY <1>2
  <2>3. (\A k \in off[Len(d)] + 1 .. Len(s) - 1 : neg[k])
          <=> (\A k \in off[Len(d)] + 1 .. Len(s) - 1 : s[k])
    BY <1>6, <2>2
  <2>4. neg[Len(s)] <=> ~s[Len(s)]
    BY <1>6
  <2>5. /\ s[Len(s)] <=> b.holds
        /\ (\A k \in off[Len(d)] + 1 .. Len(s) - 1 : s[k]) <=> ~b.earlier
    BY <1>8 DEF Fits
  <2> QED BY <2>1, <2>3, <2>4, <2>5
<1> QED BY <1>1, <1>2, <1>3, <1>6, <1>7, <1>8 DEF neg

\* #else: the segment stays, and its entries are the negated conditions.
LEMMA SegmentsElse ==
    ASSUME NEW s \in Seq(BOOLEAN), NEW d \in Seq(Nat \ {0}), d # << >>, NEW levels \in Seq(Level),
           Len(levels) = Len(d), NEW off, Offsets(off, s, d),
           NEW x \in BOOLEAN, x <=> ~s[Len(s)],
           NEW b \in Level, b.holds, b.last,
           b.earlier <=> levels[Len(d)].earlier \/ levels[Len(d)].holds
    PROVE  /\ Offsets(off, ReplaceLast(s, x), d)
           /\ Segments(off, s, d, levels) /\ ~levels[Len(d)].last =>
                Segments(off, ReplaceLast(s, x), d, ReplaceLast(levels, b))
<1> DEFINE n == Len(d)
           s1 == ReplaceLast(s, x)
           levels1 == ReplaceLast(levels, b)
<1>1. /\ n \in 1 .. n /\ Len(s) >= 1 /\ off[n + 1] = Len(s)
      /\ off[n] \in Nat /\ off[n] < Len(s)
      /\ s1 \in Seq(BOOLEAN) /\ Len(s1) = Len(s)
      /\ \A k \in 1 .. off[n] : s1[k] = s[k]
      /\ \A lv : Fits(s, lv, off[n], Len(s)) /\ ~lv.last =>
           ((\A k \in off[n] + 1 .. Len(s) : s1[k]) <=> ~(lv.earlier \/ lv.holds))
  BY NegatedFits
<1>2. levels # << >>
  BY <1>1, NotEmpty
<1>3. levels1[n] = b /\ \A i \in 1 .. n - 1 : levels1[i] = levels[i]
  <2>1. /\ levels1[Len(levels)] = b
        /\ \A i \in 1 .. Len(levels) - 1 : levels1[i] = levels[i]
    BY ONLY <1>2, levels \in Seq(Level), b \in Level, Replaced
  <2> QED BY <2>1
<1> HIDE DEF s1, levels1
<1>4. Offsets(off, s1, d)
  BY <1>1 DEF Offsets
<1>5. ASSUME Segments(off, s, d, levels), ~levels[n].last
      PROVE  Segments(off, s1, d, levels1)
  <2>1. ASSUME NEW i \in 1 .. n, i # n
        PROVE  Fits(s1, levels1[i], off[i], off[i + 1])
    <3>1. i \in 1 .. n - 1 /\ i < n /\ n \in Nat
      BY <1>1, <2>1
    <3>2. /\ off[i] \in Nat /\ off[i + 1] \in Nat /\ off[i] < off[i + 1] /\ off[i + 1] <= off[n]
      BY <1>1, <3>1, Segment
    <3>3. Fits(s, levels[i], off[i], off[i + 1])
      BY <1>5 DEF Segments
    <3>4. Fits(s1, levels[i], off[i], off[i + 1])
      BY <1>1, <3>2, <3>3, FitsKept
    <3> QED BY <1>3, <3>1, <3>4
  <2>2. Fits(s, levels[n], off[n], Len(s))
    BY <1>1, <1>5 DEF Segments
  <2>3. Fits(s1, levels1[n], off[n], off[n + 1])
    BY <1>1, <1>3, <1>5, <2>2 DEF Fits
  <2> QED BY <2>1, <2>3 DEF Segments
<1> QED BY <1>4, <1>5 DEF s1, levels1

\* #elseif: one entry more in the last segment.
LEMMA SegmentsElseIf ==
    ASSUME NEW s \in Seq(BOOLEAN), NEW d \in Seq(Nat \ {0}), d # << >>, NEW levels \in Seq(Level),
           Len(levels) = Len(d), NEW off, Offsets(off, s, d),
           NEW x \in BOOLEAN, x <=> ~s[Len(s)], NEW v \in BOOLEAN,
           NEW b \in Level, b.holds = v, ~b.last,
           b.earlier <=> levels[Len(d)].earlier \/ levels[Len(d)].holds
    PROVE  \E o : /\ Offsets(o, Append(ReplaceLast(s, x), v), ReplaceLast(d, d[Len(d)] + 1))
                  /\ Segments(off, s, d, levels) /\ ~levels[Len(d)].last =>
                       Segments(o, Append(ReplaceLast(s, x), v), ReplaceLast(d, d[Len(d)] + 1),
                                ReplaceLast(levels, b))
<1> DEFINE n == Len(d)
           neg == ReplaceLast(s, x)
           s1 == Append(neg, v)
           d1 == ReplaceLast(d, d[n] + 1)
           levels1 == ReplaceLast(levels, b)
           o == [off EXCEPT ![n + 1] = Len(s) + 1]
<1>1. /\ n \in 1 .. n /\ Len(s) >= 1 /\ off[n + 1] = Len(s)
      /\ off[n] \in Nat /\ off[n] < Len(s)
      /\ neg \in Seq(BOOLEAN) /\ Len(neg) = Len(s)
      /\ \A k \in 1 .. off[n] : neg[k] = s[k]
      /\ \A lv : Fits(s, lv, off[n], Len(s)) /\ ~lv.last =>
           ((\A k \in off[n] + 1 .. Len(s) : neg[k]) <=> ~(lv.earlier \/ lv.holds))
  BY NegatedFits
<1>2. n \in Nat /\ Len(s) \in Nat /\ d[n] \in Nat \ {0} /\ levels # << >>
  BY <1>1, NotEmpty, ElementOfSeq
<1>3. levels1[n] = b /\ \A i \in 1 .. n - 1 : levels1[i] = levels[i]
  <2>1. /\ levels1[Len(levels)] = b
        /\ \A i \in 1 .. Len(levels) - 1 : levels1[i] = levels[i]
    BY ONLY <1>2, levels \in Seq(Level), b \in Level, Replaced
  <2> QED BY <2>1
<1>4. /\ Len(d1) = n /\ d1[n] = d[n] + 1 /\ \A i \in 1 .. n - 1 : d1[i] = d[i]
  <2> DEFINE P == Nat \ {0}
  <2>1. d[n] + 1 \in P /\ d \in Seq(P)
    BY <1>2
  <2> HIDE DEF P
  <2>2. ASSUME NEW y \in P
        PROVE  /\ Len(ReplaceLast(d, y)) = Len(d) /\ ReplaceLast(d, y)[Len(d)] = y
               /\ \A i \in 1 .. Len(d) - 1 : ReplaceLast(d, y)[i] = d[i]
    BY ONLY <2>1, d # << >>, y \in P, Replaced
  <2> QED BY <2>1, <2>2
<1> HIDE DEF neg
<1>5. /\ Len(s1) = Len(s) + 1 /\ s1[Len(s) + 1] = v
      /\ \A k \in 1 .. Len(s) : s1[k] = neg[k]
  BY <1>1, Grown
<1>6. /\ off \in [1 .. n + 1 -> Nat] /\ off[1] = 0
      /\ \A i \in 1 .. n : off[i + 1] = off[i] + d[i]
      /\ \A i, j \in 1 .. n + 1 : i <= j => off[i] <= off[j]
      /\ \A k \in 1 .. Len(s) : \E i \in 1 .. n : k \in off[i] + 1 .. off[i + 1]
  BY DEF Offsets
<1>7. /\ o \in [1 .. n + 1 -> Nat] /\ o[n + 1] = Len(s) + 1
      /\ \A i \in 1 .. n : o[i] = off[i] /\ i \in 1 .. n + 1
      /\ \A i \in 1 .. n + 1 : i \in 1 .. n \/ i = n + 1
      /\ 1 \in 1 .. n
  <2>1. \A i \in 1 .. n : i \in 1 .. n + 1 /\ i # n + 1
    BY ONLY <1>2
  <2>2. \A i \in 1 .. n + 1 : i \in 1 .. n \/ i = n + 1
    BY ONLY <1>2
  <2>3. n + 1 \in 1 .. n + 1 /\ 1 \in 1 .. n /\ Len(s) + 1 \in Nat
    BY ONLY <1>1, <1>2
  <2>4. o \in [1 .. n + 1 -> Nat] /\ o[n + 1] = Len(s) + 1
    BY <1>6, <2>3
  <2>5. \A i \in 1 .. n : o[i] = off[i]
    BY <1>6, <2>1
  <2> QED BY <2>1, <2>2, <2>3, <2>4, <2>5
<1> HIDE DEF s1, d1, levels1, o
<1>8. Offsets(o, s1, d1)
  <2>1. o \in [1 .. Len(d1) + 1 -> Nat] /\ o[1] = 0 /\ o[Len(d1) + 1] = Len(s1)
    BY <1>4, <1>5, <1>6, <1>7
  <2>2. ASSUME NEW i \in 1 .. n
        PROVE  o[i + 1] = o[i] + d1[i]
    <3>1. CASE i = n
      <4>1. off[n + 1] = off[n] + d[n]
        BY <1>1, <1>6
      <4>2. o[n + 1] = Len(s) + 1 /\ o[n] = off[n] /\ d1[n] = d[n] + 1
        BY <1>1, <1>4, <1>7
      <4>3. off[n] \in Nat /\ d[n] \in Nat /\ off[n] + d[n] = Len(s)
        BY <1>1, <1>2, <4>1
      <4>4. Len(s) + 1 = off[n] + (d[n] + 1)
        BY ONLY <4>3
      <4> QED BY <3>1, <4>2, <4>4
    <3>2. CASE i # n
      <4>1. i \in 1 .. n - 1 /\ i + 1 \in 1 .. n
        BY <1>2, <3>2
      <4> QED BY <1>4, <1>6, <1>7, <4>1
    <3> QED BY <3>1, <3>2
  <2>3. ASSUME NEW i \in 1 .. n + 1, NEW j \in 1 .. n + 1, i <= j
        PROVE  o[i] <= o[j]
    <3>1. CASE j \in 1 .. n
      <4>1. i \in 1 .. n BY <1>2, <2>3, <3>1
      <4> QED BY <1>6, <1>7, <2>3, <3>1, <4>1
    <3>2. CASE j = n + 1 /\ i \in 1 .. n
      <4>1. off[n + 1] = Len(s)
        BY DEF Offsets
      <4>2. i \in 1 .. n + 1 /\ n + 1 \in 1 .. n + 1 /\ i <= n + 1
        BY ONLY <1>2, <3>2, n \in Nat
      <4>3. off[i] <= Len(s) /\ off[i] \in Nat
        BY ONLY <1>6, <4>1, <4>2
      <4> QED BY <1>2, <1>7, <3>2, <4>3
    <3>3. CASE j = n + 1 /\ i = n + 1
      BY <1>2, <1>7, <3>3
    <3> QED BY <1>7, <3>1, <3>2, <3>3
  <2>4. ASSUME NEW k \in 1 .. Len(s) + 1
        PROVE  \E i \in 1 .. n : k \in o[i] + 1 .. o[i + 1]
    <3>1. CASE k > off[n]
      <4>1. k \in o[n] + 1 .. o[n + 1]
        BY <1>1, <1>2, <1>7, <3>1
      <4> QED BY <1>1, <4>1
    <3>2. CASE ~ k > off[n]
      <4>1. k \in 1 .. Len(s)
        BY <1>1, <1>2, <3>2
      <4>2. PICK i \in 1 .. n : k \in off[i] + 1 .. off[i + 1]
        BY <1>6, <4>1
      <4>3. CASE i = n
        BY <1>1, <3>2, <4>2, <4>3
      <4>4. CASE i # n
        <5>1. i + 1 \in 1 .. n
          BY <1>2, <4>4
        <5> QED BY <1>7, <4>2, <5>1
      <4> QED BY <4>3, <4>4
    <3> QED BY <3>1, <3>2
  <2> QED BY <1>4, <1>5, <2>1, <2>2, <2>3, <2>4 DEF Offsets
<1>9. ASSUME Segments(off, s, d, levels), ~levels[n].last
      PROVE  Segments(o, s1, d1, levels1)
  <2>1. ASSUME NEW i \in 1 .. n, i # n
        PROVE  Fits(s1, levels1[i], o[i], o[i + 1])
    <3>1. i \in 1 .. n - 1 /\ i < n /\ i + 1 \in 1 .. n
      BY <1>2, <2>1
    <3>2. /\ off[i] \in Nat /\ off[i + 1] \in Nat /\ off[i] < off[i + 1] /\ off[i + 1] <= off[n]
      BY <1>1, <3>1, Segment
    <3>3. Fits(s, levels[i], off[i], off[i + 1])
      BY <1>9 DEF Segments
    <3>4. \A k \in 1 .. off[n] : s1[k] = s[k]
      <4>1. \A k \in 1 .. off[n] : k \in 1 .. Len(s)
        BY <1>1, <1>2
      <4> QED BY <1>1, <1>5, <4>1
    <3>5. Fits(s1, levels[i], off[i], off[i + 1])
      <4> DEFINE m == off[n]
                 from == off[i]
                 upto == off[i + 1]
                 lv == levels[i]
      <4>1. m \in Nat /\ from \in Nat /\ upto \in Nat /\ from < upto /\ upto <= m
        BY <1>1, <3>2
      <4>2. Fits(s, lv, from, upto) /\ \A k \in 1 .. m : s1[k] = s[k]
        BY <3>3, <3>4
      <4> HIDE DEF m, from, upto, lv
      <4>3. Fits(s1, lv, from, upto)
        BY ONLY <4>1, <4>2, FitsKept
      <4> QED BY <4>3 DEF from, upto, lv
    <3> QED BY <1>3, <1>7, <3>1, <3>5
  <2>2. Fits(s, levels[n], off[n], Len(s))
    BY <1>1, <1>9 DEF Segments
  <2>3. (\A k \in off[n] + 1 .. Len(s) : neg[k]) <=> ~b.earlier
    BY <1>1, <1>9, <2>2
  <2>4. \A k \in off[n] + 1 .. Len(s) : s1[k] = neg[k]
    BY <1>1, <1>5
  <2>5. (Len(s) + 1) - 1 = Len(s)
    BY <1>2
  <2>6. Fits(s1, levels1[n], off[n], Len(s) + 1)
    BY <1>3, <1>5, <2>3, <2>4, <2>5 DEF Fits
  <2>7. Fits(s1, levels1[n], o[n], o[n + 1])
    BY <1>1, <1>7, <2>6
  <2> QED BY <1>4, <2>1, <2>7 DEF Segments
<1> QED BY <1>8, <1>9 DEF neg, s1, d1, levels1

\* #end: the entries of the last segment go, and nothing else.
LEMMA SegmentsEnd ==
    ASSUME NEW s \in Seq(BOOLEAN), NEW d \in Seq(Nat \ {0}), d # << >>, NEW levels \in Seq(Level),
           Len(levels) = Len(d), NEW off, Offsets(off, s, d)
    PROVE  /\ d[Len(d)] \in 0 .. Len(s)
           /\ \E o : /\ Offsets(o, SubSeq(s, 1, Len(s) - d[Len(d)]), Front(d))
                     /\ Segments(off, s, d, levels) =>
                          Segments(o, SubSeq(s, 1, Len(s) - d[Len(d)]), Front(d), Front(levels))
<1> DEFINE n == Len(d)
           s1 == SubSeq(s, 1, Len(s) - d[n])
           d1 == Front(d)
           levels1 == Front(levels)
           o == [i \in 1 .. n |-> off[i]]
<1>1. n \in Nat /\ n >= 1 /\ n \in 1 .. n /\ levels # << >>
  BY NotEmpty
<1>2. /\ Len(s) \in Nat /\ d[n] \in Nat \ {0} /\ off[n] \in Nat /\ off[n + 1] = off[n] + d[n]
      /\ off[n + 1] <= Len(s)
  <2>1. n \in 1 .. Len(d) /\ d \in Seq(Nat \ {0}) /\ s \in Seq(BOOLEAN) /\ Offsets(off, s, d)
    BY <1>1
  <2>2. \A i \in 1 .. Len(d) : /\ Len(s) \in Nat /\ d[i] \in Nat \ {0} /\ off[i] \in Nat
                               /\ off[i + 1] = off[i] + d[i] /\ off[i + 1] <= Len(s)
    BY ONLY <2>1, Segment
  <2> QED BY <2>1, <2>2
<1>3. /\ off \in [1 .. n + 1 -> Nat] /\ off[1] = 0 /\ off[n + 1] = Len(s)
      /\ \A i \in 1 .. n : off[i + 1] = off[i] + d[i]
      /\ \A i, j \in 1 .. n + 1 : i <= j => off[i] <= off[j]
      /\ \A k \in 1 .. Len(s) : \E i \in 1 .. n : k \in off[i] + 1 .. off[i + 1]
  BY DEF Offsets
<1>4. Len(s) - d[n] = off[n] /\ off[n] \in 0 .. Len(s) /\ off[n] < Len(s)
  BY <1>2, <1>3
<1>5. s1 \in Seq(BOOLEAN) /\ Len(s1) = off[n] /\ \A k \in 1 .. off[n] : s1[k] = s[k]
  BY <1>4, Cut
<1>6. Len(d1) = n - 1 /\ \A i \in 1 .. n - 1 : d1[i] = d[i]
  BY Fronted
<1>7. \A i \in 1 .. n - 1 : levels1[i] = levels[i]
  BY <1>1, Fronted
<1>8. /\ o \in [1 .. n -> Nat] /\ \A i \in 1 .. n : o[i] = off[i] /\ i \in 1 .. n + 1
      /\ (n - 1) + 1 = n /\ \A i \in 1 .. n - 1 : i \in 1 .. n /\ i + 1 \in 1 .. n
      /\ 1 \in 1 .. n
  BY <1>1, <1>3
<1> HIDE DEF s1, d1, levels1, o
<1>9. Offsets(o, s1, d1)
  <2>1. o \in [1 .. Len(d1) + 1 -> Nat] /\ o[1] = 0 /\ o[Len(d1) + 1] = Len(s1)
    BY <1>1, <1>3, <1>5, <1>6, <1>8
  <2>2. \A i \in 1 .. n - 1 : o[i + 1] = o[i] + d1[i]
    BY <1>3, <1>6, <1>8
  <2>3. \A i, j \in 1 .. n : i <= j => o[i] <= o[j]
    BY <1>3, <1>8
  <2>4. ASSUME NEW k \in 1 .. off[n]
        PROVE  \E i \in 1 .. n - 1 : k \in o[i] + 1 .. o[i + 1]
    <3>1. k \in 1 .. Len(s)
      BY <1>2, <1>4
    <3>2. PICK i \in 1 .. n : k \in off[i] + 1 .. off[i + 1]
      BY <1>3, <3>1
    <3>3. i # n
      BY <1>2, <3>2
    <3>4. i \in 1 .. n - 1
      BY <1>1, <3>3
    <3> QED BY <1>8, <3>2, <3>4
  <2> QED BY <1>5, <1>6, <1>8, <2>1, <2>2, <2>3, <2>4 DEF Offsets
<1>10. ASSUME Segments(off, s, d, levels)
       PROVE  Segments(o, s1, d1, levels1)
  <2>1. ASSUME NEW i \in 1 .. n - 1
        PROVE  Fits(s1, levels1[i], o[i], o[i + 1])
    <3>1. i \in 1 .. n /\ i < n
      BY <1>1
    <3>2. /\ off[i] \in Nat /\ off[i + 1] \in Nat /\ off[i] < off[i + 1] /\ off[i + 1] <= off[n]
      BY <1>1, <3>1, Segment
    <3>3. Fits(s, levels[i], off[i], off[i + 1])
      BY <1>10, <3>1 DEF Segments
    <3>4. Fits(s1, levels[i], off[i], off[i + 1])
      BY ONLY <1>2, <1>5, <3>2, <3>3, FitsKept
    <3> QED BY <1>7, <1>8, <3>4
  <2> QED BY <1>6, <2>1 DEF Segments
<1>11. d[n] \in 0 .. Len(s)
  BY <1>2, <1>3
<1> QED BY <1>9, <1>10, <1>11 DEF s1, d1, levels1

CondTypes ==
    /\ stack \in Seq(BOOLEAN) /\ depths \in Seq(Nat \ {0}) /\ mstack \in Nat
    /\ skips \in Seq(BOOLEAN) /\ current \in Seq(BOOLEAN)
    /\ deadWhenTrue \in BOOLEAN /\ wellFormed \in BOOLEAN /\ text \in Seq(Level)
    /\ Len(depths) = Len(text) /\ Len(text) = mstack + Len(skips) /\ Len(current) = Len(skips)

\* The #ifs counted in mstack are compiled, the next one, if any, is not; its branches
\* are tried while none of them has held, and those of #ifs in skipped code never are.
SkipsFit(m, sk, levels) ==
    /\ \A i \in 1 .. m : Compiled(levels[i])
    /\ sk # << >> => /\ sk[1] => ~levels[m + 1].holds /\ ~levels[m + 1].earlier
                     /\ ~sk[1] => levels[m + 1].earlier
    /\ \A j \in 2 .. Len(sk) : ~sk[j]

SkipInv == SkipsFit(mstack, skips, text)

StackInv ==
    \E off : Offsets(off, stack, depths) /\ (wellFormed => Segments(off, stack, depths, text))

DeadInv == wellFormed => ~deadWhenTrue /\ \A i \in 1 .. Len(current) : ~current[i]

-----------------------------------------------------------------------------
\* The stack holds exactly when every open #if is at a branch that is compiled.
LEMMA ConditionIsText ==
    ASSUME NEW s \in Seq(BOOLEAN), NEW d \in Seq(Nat \ {0}), NEW levels, Len(levels) = Len(d),
           NEW off, Offsets(off, s, d), Segments(off, s, d, levels)
    PROVE  Condition(s) <=> \A i \in 1 .. Len(levels) : Compiled(levels[i])
<1>1. ASSUME NEW i \in 1 .. Len(d)
      PROVE  /\ (\A k \in off[i] + 1 .. off[i + 1] : s[k]) <=> Compiled(levels[i])
             /\ off[i] \in Nat /\ off[i + 1] \in Nat /\ off[i + 1] <= Len(s)
  <2>1. off[i] \in Nat /\ off[i + 1] \in Nat /\ off[i] < off[i + 1] /\ off[i + 1] <= Len(s)
    BY Segment
  <2>2. Fits(s, levels[i], off[i], off[i + 1])
    BY DEF Segments
  <2>3. (\A k \in off[i] + 1 .. off[i + 1] : s[k])
          <=> (\A k \in off[i] + 1 .. off[i + 1] - 1 : s[k]) /\ s[off[i + 1]]
    BY <2>1, AllOfSegment
  <2> QED BY <2>1, <2>2, <2>3 DEF Fits, Compiled
<1>2. \A k \in 1 .. Len(s) : \E i \in 1 .. Len(d) : k \in off[i] + 1 .. off[i + 1]
  BY DEF Offsets
<1>3. ASSUME Condition(s), NEW i \in 1 .. Len(d)
      PROVE  Compiled(levels[i])
  <2>1. \A k \in off[i] + 1 .. off[i + 1] : k \in 1 .. Len(s)
    <3>1. Len(s) \in Nat OBVIOUS
    <3> QED BY <1>1, <3>1
  <2> QED BY <1>1, <1>3, <2>1 DEF Condition
<1>4. ASSUME \A i \in 1 .. Len(d) : Compiled(levels[i]), NEW k \in 1 .. Len(s)
      PROVE  s[k]
  <2>1. PICK i \in 1 .. Len(d) : k \in off[i] + 1 .. off[i + 1]
    BY <1>2
  <2> QED BY <1>1, <1>4, <2>1
<1> QED BY <1>3, <1>4 DEF Condition

\* Code is live exactly when every open #if is at a branch that is compiled.
LEMMA SkipsFollowText ==
    ASSUME NEW m \in Nat, NEW sk \in Seq(BOOLEAN), NEW levels, Len(levels) = m + Len(sk),
           SkipsFit(m, sk, levels)
    PROVE  sk = << >> <=> \A i \in 1 .. Len(levels) : Compiled(levels[i])
<1>1. /\ Len(sk) \in Nat /\ (sk = << >> <=> Len(sk) = 0)
      /\ sk # << >> => Len(sk) >= 1
  BY NotEmpty
<1>2. ASSUME sk = << >>
      PROVE  \A i \in 1 .. Len(levels) : Compiled(levels[i])
  <2>1. Len(levels) = m
    BY <1>1, <1>2
  <2> QED BY <2>1 DEF SkipsFit
<1>3. ASSUME sk # << >>
      PROVE  m + 1 \in 1 .. Len(levels) /\ ~Compiled(levels[m + 1])
  <2>1. m + 1 \in 1 .. Len(levels)
    BY <1>1, <1>3
  <2>2. sk[1] \in BOOLEAN
    BY <1>1, <1>3, ElementOfSeq
  <2> QED BY <1>3, <2>1, <2>2 DEF SkipsFit, Compiled
<1> QED BY <1>2, <1>3

-----------------------------------------------------------------------------
\* What the text becomes.
LEMMA TextIf ==
    ASSUME text \in Seq(Level), NEW v \in BOOLEAN
    PROVE  /\ Append(text, FirstBranch(v)) \in Seq(Level)
           /\ Len(Append(text, FirstBranch(v))) = Len(text) + 1
           /\ \A i \in 1 .. Len(text) : Append(text, FirstBranch(v))[i] = text[i]
           /\ ~Append(text, FirstBranch(v))[Len(text) + 1].earlier
           /\ Append(text, FirstBranch(v))[Len(text) + 1].holds = v
<1>1. FirstBranch(v) \in Level
  BY DEF FirstBranch, Level
<1> QED BY <1>1, Grown DEF FirstBranch

LEMMA TextBranch ==
    ASSUME text \in Seq(Level), text # << >>, wellFormed \in BOOLEAN,
           NEW v \in BOOLEAN, NEW e \in BOOLEAN, NextBranch(v, e)
    PROVE  \E b \in Level :
             /\ b.holds = v /\ b.last = e
             /\ b.earlier <=> text[Len(text)].earlier \/ text[Len(text)].holds
             /\ text' = ReplaceLast(text, b)
             /\ text' \in Seq(Level) /\ Len(text') = Len(text) /\ text'[Len(text)] = b
             /\ \A i \in 1 .. Len(text) - 1 : text'[i] = text[i]
             /\ wellFormed' \in BOOLEAN /\ (wellFormed' <=> wellFormed /\ ~text[Len(text)].last)
<1>1. Last(text) = text[Len(text)] /\ text[Len(text)] \in Level
  BY Fronted
<1> DEFINE b == [earlier |-> Last(text).earlier \/ Last(text).holds, holds |-> v, last |-> e,
                 branches |-> Last(text).branches + 1]
<1>2. b.holds = v /\ b.last = e /\ (b.earlier <=> text[Len(text)].earlier \/ text[Len(text)].holds)
  BY <1>1
<1>3. b \in Level
  BY <1>1 DEF Level
<1>4. text' = ReplaceLast(text, b)
  BY DEF NextBranch
<1>5. wellFormed' \in BOOLEAN /\ (wellFormed' <=> wellFormed /\ ~text[Len(text)].last)
  BY <1>1 DEF NextBranch
<1> HIDE DEF b
<1>6. /\ text' \in Seq(Level) /\ Len(text') = Len(text) /\ text'[Len(text)] = b
      /\ \A i \in 1 .. Len(text) - 1 : text'[i] = text[i]
  <2> DEFINE t == ReplaceLast(text, b)
  <2>1. /\ t \in Seq(Level) /\ Len(t) = Len(text) /\ t[Len(text)] = b
        /\ \A i \in 1 .. Len(text) - 1 : t[i] = text[i]
    BY ONLY text \in Seq(Level), text # << >>, <1>3, Replaced
  <2>2. text' = t
    BY <1>4
  <2> HIDE DEF t
  <2> QED BY <2>1, <2>2
<1> QED BY <1>2, <1>3, <1>4, <1>5, <1>6

\* condition_handler follows the text.
StackTypes ==
    /\ stack \in Seq(BOOLEAN) /\ depths \in Seq(Nat \ {0}) /\ text \in Seq(Level)
    /\ wellFormed \in BOOLEAN /\ Len(depths) = Len(text)

LEMMA StackIf ==
    ASSUME StackTypes, StackInv, NEW v \in BOOLEAN, If(v)
    PROVE  StackTypes' /\ StackInv'
<1>1. PICK off : Offsets(off, stack, depths) /\ (wellFormed => Segments(off, stack, depths, text))
  BY DEF StackInv
<1>2. /\ stack' = Append(stack, v) /\ depths' = Append(depths, 1)
      /\ text' = Append(text, FirstBranch(v)) /\ wellFormed' = wellFormed
  BY DEF If, CondIf
<1>3. PICK o : /\ Offsets(o, Append(stack, v), Append(depths, 1))
               /\ Segments(off, stack, depths, text) =>
                    Segments(o, Append(stack, v), Append(depths, 1), Append(text, FirstBranch(v)))
  BY <1>1, SegmentsIf DEF StackTypes
<1>4. Offsets(o, stack', depths') /\ (wellFormed' => Segments(o, stack', depths', text'))
  BY <1>1, <1>2, <1>3
<1>5. StackTypes'
  <2>1. stack' \in Seq(BOOLEAN) BY <1>2, Grown DEF StackTypes
  <2>2. depths' \in Seq(Nat \ {0}) /\ Len(depths') = Len(depths) + 1
    BY <1>2 DEF StackTypes
  <2>3. text' \in Seq(Level) /\ Len(text') = Len(text) + 1
    BY <1>2, TextIf DEF StackTypes
  <2> QED BY <1>2, <2>1, <2>2, <2>3 DEF StackTypes
<1> QED BY <1>4, <1>5 DEF StackInv

LEMMA StackElse ==
    ASSUME StackTypes, StackInv, text # << >>, NextBranch(TRUE, TRUE), CondElse
    PROVE  StackTypes' /\ StackInv'
<1>1. PICK off : Offsets(off, stack, depths) /\ (wellFormed => Segments(off, stack, depths, text))
  BY DEF StackInv
<1>2. PICK b \in Level :
        /\ b.holds /\ b.last
        /\ b.earlier <=> text[Len(text)].earlier \/ text[Len(text)].holds
        /\ text' = ReplaceLast(text, b) /\ text' \in Seq(Level) /\ Len(text') = Len(text)
        /\ wellFormed' \in BOOLEAN /\ (wellFormed' <=> wellFormed /\ ~text[Len(text)].last)
  BY TextBranch DEF StackTypes
<1>3. depths # << >> /\ Len(depths) = Len(text) /\ depths' = depths
  BY NotEmpty DEF StackTypes, CondElse
<1>4. stack # << >>
  <2> DEFINE n == Len(depths)
  <2>1. n \in 1 .. n
    BY <1>3, NotEmpty DEF StackTypes
  <2>2. off[n] \in Nat /\ off[n + 1] \in Nat /\ off[n] < off[n + 1] /\ off[n + 1] <= Len(stack)
    BY <1>1, <2>1, Segment DEF StackTypes
  <2>3. Len(stack) >= 1
    BY <2>2 DEF StackTypes
  <2> QED BY <2>3, NotEmpty DEF StackTypes
<1>5. PICK x \in BOOLEAN : stack' = ReplaceLast(stack, x) /\ (x <=> ~stack[Len(stack)])
  BY <1>4, NegatedLast DEF StackTypes, CondElse
<1>6. stack' \in Seq(BOOLEAN)
  BY <1>4, <1>5, Replaced DEF StackTypes
<1>7. /\ Offsets(off, ReplaceLast(stack, x), depths)
      /\ Segments(off, stack, depths, text) /\ ~text[Len(depths)].last =>
           Segments(off, ReplaceLast(stack, x), depths, ReplaceLast(text, b))
  BY <1>1, <1>2, <1>3, <1>5, SegmentsElse DEF StackTypes
<1>8. Offsets(off, stack', depths') /\ (wellFormed' => Segments(off, stack', depths', text'))
  BY <1>1, <1>2, <1>3, <1>5, <1>7
<1> QED BY <1>2, <1>3, <1>6, <1>8 DEF StackInv, StackTypes

LEMMA StackElseIf ==
    ASSUME StackTypes, StackInv, text # << >>, NEW v \in BOOLEAN, NextBranch(v, FALSE),
           CondElseIf(v)
    PROVE  StackTypes' /\ StackInv'
<1>1. PICK off : Offsets(off, stack, depths) /\ (wellFormed => Segments(off, stack, depths, text))
  BY DEF StackInv
<1>2. PICK b \in Level :
        /\ b.holds = v /\ ~b.last
        /\ b.earlier <=> text[Len(text)].earlier \/ text[Len(text)].holds
        /\ text' = ReplaceLast(text, b) /\ text' \in Seq(Level) /\ Len(text') = Len(text)
        /\ wellFormed' \in BOOLEAN /\ (wellFormed' <=> wellFormed /\ ~text[Len(text)].last)
  BY TextBranch DEF StackTypes
<1>3. depths # << >> /\ Len(depths) = Len(text) /\ Len(depths) \in 1 .. Len(depths)
  BY NotEmpty DEF StackTypes
<1>4. depths[Len(depths)] \in Nat \ {0}
  BY <1>3, ElementOfSeq DEF StackTypes
<1>5. stack # << >>
  <2> DEFINE n == Len(depths)
  <2>1. off[n] \in Nat /\ off[n + 1] \in Nat /\ off[n] < off[n + 1] /\ off[n + 1] <= Len(stack)
    BY <1>1, <1>3, Segment DEF StackTypes
  <2>2. Len(stack) >= 1
    BY <2>1 DEF StackTypes
  <2> QED BY <2>2, NotEmpty DEF StackTypes
<1>6. PICK x \in BOOLEAN : Negated = ReplaceLast(stack, x) /\ (x <=> ~stack[Len(stack)])
  BY <1>5, NegatedLast DEF StackTypes
<1>7. /\ stack' = Append(ReplaceLast(stack, x), v)
      /\ depths' = ReplaceLast(depths, depths[Len(depths)] + 1)
  BY <1>6 DEF CondElseIf, Last
<1>8. stack' \in Seq(BOOLEAN)
  <2>1. ReplaceLast(stack, x) \in Seq(BOOLEAN)
    BY <1>5, Replaced DEF StackTypes
  <2> QED BY <1>7, <2>1, Grown
<1>9. depths' \in Seq(Nat \ {0}) /\ Len(depths') = Len(depths)
  <2> DEFINE P == Nat \ {0}
             y == depths[Len(depths)] + 1
  <2>1. y \in P /\ depths \in Seq(P)
    BY <1>4 DEF StackTypes
  <2> HIDE DEF P, y
  <2>2. ReplaceLast(depths, y) \in Seq(P) /\ Len(ReplaceLast(depths, y)) = Len(depths)
    BY ONLY <1>3, <2>1, Replaced
  <2> QED BY <1>7, <2>2 DEF P, y
<1>10. PICK o : /\ Offsets(o, Append(ReplaceLast(stack, x), v),
                           ReplaceLast(depths, depths[Len(depths)] + 1))
                /\ Segments(off, stack, depths, text) /\ ~text[Len(depths)].last =>
                     Segments(o, Append(ReplaceLast(stack, x), v),
                              ReplaceLast(depths, depths[Len(depths)] + 1), ReplaceLast(text, b))
  BY <1>1, <1>2, <1>3, <1>6, SegmentsElseIf DEF StackTypes
<1>11. Offsets(o, stack', depths') /\ (wellFormed' => Segments(o, stack', depths', text'))
  BY <1>1, <1>2, <1>3, <1>7, <1>10
<1> QED BY <1>2, <1>3, <1>8, <1>9, <1>11 DEF StackInv, StackTypes

LEMMA StackEnd ==
    ASSUME StackTypes, StackInv, End
    PROVE  StackTypes' /\ StackInv'
<1>1. PICK off : Offsets(off, stack, depths) /\ (wellFormed => Segments(off, stack, depths, text))
  BY DEF StackInv
<1>2. /\ text # << >> /\ text' = Front(text) /\ wellFormed' = wellFormed
      /\ stack' = SubSeq(stack, 1, Len(stack) - depths[Len(depths)]) /\ depths' = Front(depths)
  BY DEF End, CondEnd, Last
<1>3. depths # << >> /\ Len(depths) = Len(text)
  BY <1>2, NotEmpty DEF StackTypes
<1>4. /\ depths[Len(depths)] \in 0 .. Len(stack)
      /\ \E o : /\ Offsets(o, SubSeq(stack, 1, Len(stack) - depths[Len(depths)]), Front(depths))
                /\ Segments(off, stack, depths, text) =>
                     Segments(o, SubSeq(stack, 1, Len(stack) - depths[Len(depths)]), Front(depths),
                              Front(text))
  BY <1>1, <1>3, SegmentsEnd DEF StackTypes
<1>5. \E o : Offsets(o, stack', depths') /\ (wellFormed' => Segments(o, stack', depths', text'))
  BY <1>1, <1>2, <1>4
<1>6. stack' \in Seq(BOOLEAN)
  <2>1. Len(stack) - depths[Len(depths)] \in 0 .. Len(stack)
    BY <1>4 DEF StackTypes
  <2> QED BY <1>2, <2>1, Cut DEF StackTypes
<1>7. depths' \in Seq(Nat \ {0}) /\ Len(depths') = Len(depths) - 1
  BY <1>2, <1>3, Fronted DEF StackTypes
<1>8. text' \in Seq(Level) /\ Len(text') = Len(text) - 1
  BY <1>2, Fronted DEF StackTypes
<1> QED BY <1>2, <1>3, <1>5, <1>6, <1>7, <1>8 DEF StackInv, StackTypes

-----------------------------------------------------------------------------
\* skip_tokens and the dead blocks follow the text.
ModeTypes ==
    /\ mstack \in Nat /\ skips \in Seq(BOOLEAN) /\ current \in Seq(BOOLEAN)
    /\ Len(text) = mstack + Len(skips) /\ Len(current) = Len(skips)

\* The blocks are the earlier ones, or opened in skipped code with the condition there.
Blocks ==
    /\ deadWhenTrue' \in BOOLEAN
    /\ deadWhenTrue' => deadWhenTrue \/ \E j \in 1 .. Len(current) : current[j]
    /\ \A i \in 1 .. Len(current') :
         current'[i] => \/ \E j \in 1 .. Len(current) : current[j]
                        \/ skips' # << >> /\ Condition(stack')

LEMMA OpenedBlock ==
    ASSUME NEW blocks \in Seq(BOOLEAN), current' = Opened(blocks)
    PROVE  /\ current' \in Seq(BOOLEAN) /\ Len(current') = Len(blocks) + 1
           /\ \A i \in 1 .. Len(current') : i \in 1 .. Len(blocks) \/ i = Len(blocks) + 1
           /\ \A i \in 1 .. Len(blocks) : current'[i] = blocks[i]
           /\ current'[Len(blocks) + 1] <=> Condition(stack')
<1>1. \E x \in BOOLEAN : Opened(blocks) = Append(blocks, x) /\ (x <=> Condition(stack'))
  <2>1. CASE Condition(stack')
    <3>1. Condition(stack') = TRUE
      BY <2>1 DEF Condition
    <3>2. Opened(blocks) = Append(blocks, TRUE)
      BY <3>1 DEF Opened
    <3> QED BY <2>1, <3>2
  <2>2. CASE ~Condition(stack')
    <3>1. Condition(stack') = FALSE
      BY <2>2 DEF Condition
    <3>2. Opened(blocks) = Append(blocks, FALSE)
      BY <3>1 DEF Opened
    <3> QED BY <2>2, <3>2
  <2> QED BY <2>1, <2>2
<1>2. PICK x \in BOOLEAN : current' = Append(blocks, x) /\ (x <=> Condition(stack'))
  BY <1>1
<1> QED BY <1>2, Grown

LEMMA ClosedBlock ==
    ASSUME current \in Seq(BOOLEAN), current # << >>, deadWhenTrue \in BOOLEAN, CloseDeadBlock
    PROVE  /\ deadWhenTrue' \in BOOLEAN
           /\ deadWhenTrue' => deadWhenTrue \/ \E j \in 1 .. Len(current) : current[j]
           /\ Front(current) \in Seq(BOOLEAN) /\ Len(Front(current)) = Len(current) - 1
           /\ \A i \in 1 .. Len(current) - 1 : /\ Front(current)[i] = current[i]
                                              /\ i \in 1 .. Len(current)
<1>1. Last(current) = current[Len(current)] /\ Len(current) \in 1 .. Len(current)
  BY Fronted, NotEmpty
<1>2. /\ Front(current) \in Seq(BOOLEAN) /\ Len(Front(current)) = Len(current) - 1
      /\ \A i \in 1 .. Len(current) - 1 : Front(current)[i] = current[i]
  BY Fronted
<1> QED BY <1>1, <1>2 DEF CloseDeadBlock

\* The condition of the outermost #if that is not compiled yet decides.
LEMMA EnterMode ==
    ASSUME NEW blocks \in Seq(BOOLEAN), Len(blocks) = 0, mstack \in Nat, Len(text') = mstack + 1,
           \A i \in 1 .. mstack : Compiled(text'[i]), NEW v \in BOOLEAN,
           text'[mstack + 1].holds = v, ~text'[mstack + 1].earlier, Enter(v, blocks)
    PROVE  /\ ModeTypes' /\ SkipInv'
           /\ \A i \in 1 .. Len(current') : skips' # << >> /\ (current'[i] => Condition(stack'))
<1>1. CASE v
  <2>1. mstack' = mstack + 1 /\ skips' = << >> /\ current' = blocks
    BY <1>1 DEF Enter
  <2>2. Len(skips') = 0 /\ skips' \in Seq(BOOLEAN)
    BY <2>1
  <2>3. ModeTypes'
    BY <2>1, <2>2 DEF ModeTypes
  <2>4. \A i \in 1 .. mstack' : Compiled(text'[i])
    <3>1. \A i \in 1 .. mstack' : i \in 1 .. mstack \/ i = mstack + 1
      BY <2>1
    <3> QED BY <1>1, <3>1 DEF Compiled
  <2> QED BY <2>1, <2>2, <2>3, <2>4 DEF SkipInv, SkipsFit
<1>2. CASE ~v
  <2>1. mstack' = mstack /\ skips' = << TRUE >> /\ current' = Opened(blocks)
    BY <1>2 DEF Enter
  <2>2. skips' \in Seq(BOOLEAN) /\ Len(skips') = 1 /\ skips'[1] /\ skips' # << >>
    BY <2>1
  <2>3. /\ current' \in Seq(BOOLEAN) /\ Len(current') = 1
        /\ \A i \in 1 .. Len(current') : i = 1 /\ (current'[i] <=> Condition(stack'))
    <3>1. /\ current' \in Seq(BOOLEAN) /\ Len(current') = Len(blocks) + 1
          /\ \A i \in 1 .. Len(current') : i \in 1 .. Len(blocks) \/ i = Len(blocks) + 1
          /\ current'[Len(blocks) + 1] <=> Condition(stack')
      BY <2>1, OpenedBlock
    <3> QED BY <3>1
  <2> QED BY <1>2, <2>1, <2>2, <2>3 DEF ModeTypes, SkipInv, SkipsFit
<1> QED BY <1>1, <1>2

LEMMA ModeIf ==
    ASSUME CondTypes, SkipInv, NEW v \in BOOLEAN, If(v)
    PROVE  ModeTypes' /\ SkipInv' /\ Blocks
<1>1. /\ Len(text') = Len(text) + 1 /\ \A i \in 1 .. Len(text) : text'[i] = text[i]
      /\ ~text'[Len(text) + 1].earlier /\ text'[Len(text) + 1].holds = v
  BY TextIf DEF CondTypes, If
<1>2. /\ Len(text) = mstack + Len(skips) /\ mstack \in Nat /\ skips \in Seq(BOOLEAN)
      /\ Len(skips) \in Nat /\ (skips = << >> <=> Len(skips) = 0)
      /\ current \in Seq(BOOLEAN) /\ Len(current) = Len(skips)
      /\ deadWhenTrue' = deadWhenTrue /\ deadWhenTrue \in BOOLEAN
  BY NotEmpty DEF CondTypes, If
<1>3. CASE skips = << >>
  <2>1. Enter(v, current) /\ Len(current) = 0 /\ mstack = Len(text)
    BY <1>2, <1>3 DEF If, Live
  <2>2. \A i \in 1 .. mstack : Compiled(text'[i])
    BY <1>1, <2>1 DEF SkipInv, SkipsFit
  <2>3. /\ ModeTypes' /\ SkipInv'
        /\ \A i \in 1 .. Len(current') : skips' # << >> /\ (current'[i] => Condition(stack'))
    BY <1>1, <1>2, <2>1, <2>2, EnterMode
  <2> QED BY <1>2, <2>3 DEF Blocks
<1>4. CASE skips # << >>
  <2>1. mstack' = mstack /\ skips' = Append(skips, FALSE) /\ current' = Opened(current)
    BY <1>4 DEF If, Live
  <2>2. /\ skips' \in Seq(BOOLEAN) /\ Len(skips') = Len(skips) + 1 /\ ~skips'[Len(skips) + 1]
        /\ \A i \in 1 .. Len(skips) : skips'[i] = skips[i]
    <3>1. FALSE \in BOOLEAN OBVIOUS
    <3> QED BY <1>2, <2>1, <3>1, Grown
  <2>3. /\ current' \in Seq(BOOLEAN) /\ Len(current') = Len(current) + 1
        /\ \A i \in 1 .. Len(current') : i \in 1 .. Len(current) \/ i = Len(current) + 1
        /\ \A i \in 1 .. Len(current) : current'[i] = current[i]
        /\ current'[Len(current) + 1] <=> Condition(stack')
    BY <1>2, <2>1, OpenedBlock
  <2>4. skips' # << >>
    BY <1>2, <2>2, NotEmpty
  <2>5. ModeTypes'
    BY <1>1, <1>2, <2>1, <2>2, <2>3 DEF ModeTypes
  <2>6. SkipInv'
    <3>1. /\ \A i \in 1 .. mstack : i \in 1 .. Len(text)
          /\ mstack + 1 \in 1 .. Len(text) /\ 1 \in 1 .. Len(skips)
          /\ \A j \in 2 .. Len(skips) + 1 : j \in 2 .. Len(skips) \/ j = Len(skips) + 1
          /\ \A j \in 2 .. Len(skips) : j \in 1 .. Len(skips)
      BY <1>2, <1>4
    <3>2. \A i \in 1 .. mstack : Compiled(text'[i])
      BY <1>1, <3>1 DEF SkipInv, SkipsFit
    <3>3. text'[mstack + 1] = text[mstack + 1] /\ skips'[1] = skips[1]
      BY <1>1, <2>2, <3>1
    <3>4. \A j \in 2 .. Len(skips') : ~skips'[j]
      BY <2>2, <3>1 DEF SkipInv, SkipsFit
    <3> QED BY <1>4, <2>1, <3>2, <3>3, <3>4 DEF SkipInv, SkipsFit
  <2>7. Blocks
    BY <1>2, <2>3, <2>4 DEF Blocks
  <2> QED BY <2>5, <2>6, <2>7
<1> QED BY <1>3, <1>4

\* #elseif and #else: the last #if of the text goes on.
LEMMA ModeBranch ==
    ASSUME CondTypes, SkipInv, text # << >>, Len(text') = Len(text), NEW v \in BOOLEAN,
           \A i \in 1 .. Len(text) - 1 : text'[i] = text[i],
           text'[Len(text)].earlier <=> text[Len(text)].earlier \/ text[Len(text)].holds,
           text'[Len(text)].holds = v,
           \/ LeaveBranch \/ SkipBranch
           \/ ~Live /\ Test /\ CloseDeadBlock /\ Enter(v, Front(current))
    PROVE  ModeTypes' /\ SkipInv' /\ Blocks
<1> DEFINE n == Len(text)
<1>1. /\ n = mstack + Len(skips) /\ mstack \in Nat /\ skips \in Seq(BOOLEAN)
      /\ Len(skips) \in Nat /\ (skips = << >> <=> Len(skips) = 0)
      /\ current \in Seq(BOOLEAN) /\ Len(current) = Len(skips)
      /\ deadWhenTrue \in BOOLEAN
  BY NotEmpty DEF CondTypes
<1>2. n \in Nat /\ n >= 1
  BY NotEmpty DEF CondTypes
<1>3. \A i \in 1 .. mstack : Compiled(text[i])
  BY DEF SkipInv, SkipsFit
<1>4. CASE LeaveBranch
  <2>1. /\ mstack' = mstack - 1 /\ skips' = << FALSE >> /\ current' = Opened(current)
        /\ deadWhenTrue' = deadWhenTrue /\ skips = << >>
    BY <1>4 DEF LeaveBranch, Live
  <2>2. /\ mstack = n /\ mstack' \in Nat /\ mstack' + 1 = n /\ Len(current) = 0
        /\ \A i \in 1 .. mstack' : i \in 1 .. n - 1 /\ i \in 1 .. mstack
        /\ n \in 1 .. mstack
    BY <1>1, <1>2, <2>1
  <2>3. skips' \in Seq(BOOLEAN) /\ Len(skips') = 1 /\ skips'[1] = FALSE /\ skips' # << >>
    BY <2>1
  <2>4. /\ current' \in Seq(BOOLEAN) /\ Len(current') = 1
        /\ \A i \in 1 .. Len(current') : current'[i] <=> Condition(stack')
    <3>1. /\ current' \in Seq(BOOLEAN) /\ Len(current') = Len(current) + 1
          /\ \A i \in 1 .. Len(current') : i \in 1 .. Len(current) \/ i = Len(current) + 1
          /\ current'[Len(current) + 1] <=> Condition(stack')
      BY <1>1, <2>1, OpenedBlock
    <3> QED BY <2>2, <3>1
  <2>5. ModeTypes'
    BY <2>2, <2>3, <2>4 DEF ModeTypes
  <2>6. text'[mstack' + 1].earlier
    BY <1>3, <2>2 DEF Compiled
  <2>7. \A i \in 1 .. mstack' : Compiled(text'[i])
    BY <1>3, <2>2
  <2>8. SkipInv'
    BY <2>3, <2>6, <2>7 DEF SkipInv, SkipsFit
  <2>9. Blocks
    BY <1>1, <2>1, <2>3, <2>4 DEF Blocks
  <2> QED BY <2>5, <2>8, <2>9
<1>5. ASSUME skips # << >>, CloseDeadBlock
      PROVE  /\ deadWhenTrue' \in BOOLEAN
             /\ deadWhenTrue' => deadWhenTrue \/ \E j \in 1 .. Len(current) : current[j]
             /\ Front(current) \in Seq(BOOLEAN) /\ Len(Front(current)) = Len(current) - 1
             /\ \A i \in 1 .. Len(current) - 1 : /\ Front(current)[i] = current[i]
                                                /\ i \in 1 .. Len(current)
             /\ Len(skips) >= 1 /\ Test = skips[Len(skips)]
             /\ skips[Len(skips)] \in BOOLEAN
  <2>1. current # << >>
    BY <1>1, <1>5, NotEmpty
  <2>2. Len(skips) >= 1 /\ Test = skips[Len(skips)] /\ skips[Len(skips)] \in BOOLEAN
    BY <1>1, <1>5, Fronted, NotEmpty DEF Test
  <2> QED BY <1>1, <1>5, <2>1, <2>2, ClosedBlock
<1>6. CASE SkipBranch
  <2>1. /\ mstack' = mstack /\ skips' = skips /\ current' = Opened(Front(current))
        /\ skips # << >> /\ CloseDeadBlock /\ ~Test
    BY <1>6 DEF SkipBranch, Live
  <2>2. /\ Front(current) \in Seq(BOOLEAN) /\ Len(Front(current)) = Len(current) - 1
        /\ \A i \in 1 .. Len(current) - 1 : /\ Front(current)[i] = current[i]
                                           /\ i \in 1 .. Len(current)
        /\ Len(skips) >= 1 /\ ~skips[Len(skips)]
    BY <1>5, <2>1
  <2>3. /\ current' \in Seq(BOOLEAN) /\ Len(current') = Len(current)
        /\ \A i \in 1 .. Len(current') :
             current'[i] => \/ i \in 1 .. Len(current) /\ current[i]
                            \/ Condition(stack')
    <3> DEFINE f == Front(current)
    <3>1. /\ current' \in Seq(BOOLEAN) /\ Len(current') = Len(f) + 1
          /\ \A i \in 1 .. Len(current') : i \in 1 .. Len(f) \/ i = Len(f) + 1
          /\ \A i \in 1 .. Len(f) : current'[i] = f[i]
          /\ current'[Len(f) + 1] <=> Condition(stack')
      BY <2>1, <2>2, OpenedBlock
    <3>2. Len(f) + 1 = Len(current) /\ Len(f) = Len(current) - 1
      BY <1>1, <2>2
    <3>3. \A i \in 1 .. Len(f) : i \in 1 .. Len(current) /\ f[i] = current[i]
      BY <2>2, <3>2
    <3> HIDE DEF f
    <3> QED BY <3>1, <3>2, <3>3
  <2>4. ModeTypes'
    BY <1>1, <2>1, <2>3 DEF ModeTypes
  <2>5. /\ \A i \in 1 .. mstack : i \in 1 .. n - 1
        /\ Len(skips) = 1 \/ mstack + 1 \in 1 .. n - 1
    BY <1>1, <2>2
  <2>6. \A i \in 1 .. mstack : Compiled(text'[i])
    BY <1>3, <2>5
  <2>7. /\ skips[1] => ~text'[mstack + 1].holds /\ ~text'[mstack + 1].earlier
        /\ ~skips[1] => text'[mstack + 1].earlier
    <3>1. CASE Len(skips) = 1
      <4>1. mstack + 1 = n /\ ~skips[1]
        BY <1>1, <2>2, <3>1
      <4>2. text[n].earlier
        BY <2>1, <4>1 DEF SkipInv, SkipsFit
      <4> QED BY <4>1, <4>2
    <3>2. CASE mstack + 1 \in 1 .. n - 1
      BY <2>1, <3>2 DEF SkipInv, SkipsFit
    <3> QED BY <2>5, <3>1, <3>2
  <2>8. SkipInv'
    BY <2>1, <2>6, <2>7 DEF SkipInv, SkipsFit
  <2>9. Blocks
    BY <1>5, <2>1, <2>2, <2>3 DEF Blocks
  <2> QED BY <2>4, <2>8, <2>9
<1>7. CASE ~Live /\ Test /\ CloseDeadBlock /\ Enter(v, Front(current))
  <2>1. skips # << >>
    BY <1>7 DEF Live
  <2>2. /\ Front(current) \in Seq(BOOLEAN) /\ Len(Front(current)) = Len(current) - 1
        /\ Len(skips) >= 1 /\ skips[Len(skips)]
        /\ deadWhenTrue' \in BOOLEAN
        /\ deadWhenTrue' => deadWhenTrue \/ \E j \in 1 .. Len(current) : current[j]
    BY <1>5, <1>7, <2>1
  <2>3. Len(skips) = 1
    <3>1. \A j \in 2 .. Len(skips) : ~skips[j]
      BY DEF SkipInv, SkipsFit
    <3>2. Len(skips) \notin 2 .. Len(skips)
      BY <2>2, <3>1
    <3> QED BY <1>1, <2>2, <3>2
  <2>4. /\ mstack + 1 = n /\ Len(Front(current)) = 0
        /\ \A i \in 1 .. mstack : i \in 1 .. n - 1
    BY <1>1, <2>2, <2>3
  <2>5. ~text[n].holds /\ ~text[n].earlier
    BY <2>1, <2>2, <2>3, <2>4 DEF SkipInv, SkipsFit
  <2>6. /\ \A i \in 1 .. mstack : Compiled(text'[i])
        /\ text'[mstack + 1].holds = v /\ ~text'[mstack + 1].earlier
        /\ Len(text') = mstack + 1
    BY <1>3, <2>4, <2>5
  <2>7. /\ ModeTypes' /\ SkipInv'
        /\ \A i \in 1 .. Len(current') : skips' # << >> /\ (current'[i] => Condition(stack'))
    BY <1>1, <1>7, <2>2, <2>4, <2>6, EnterMode
  <2> QED BY <2>2, <2>7 DEF Blocks
<1> QED BY <1>4, <1>6, <1>7

LEMMA ModeEnd ==
    ASSUME CondTypes, SkipInv, End
    PROVE  ModeTypes' /\ SkipInv' /\ Blocks
<1> DEFINE n == Len(text)
<1>1. /\ n = mstack + Len(skips) /\ mstack \in Nat /\ skips \in Seq(BOOLEAN)
      /\ Len(skips) \in Nat /\ (skips = << >> <=> Len(skips) = 0)
      /\ current \in Seq(BOOLEAN) /\ Len(current) = Len(skips)
      /\ deadWhenTrue \in BOOLEAN
  BY NotEmpty DEF CondTypes
<1>2. /\ n \in Nat /\ n >= 1 /\ Len(text') = n - 1
      /\ \A i \in 1 .. n - 1 : text'[i] = text[i]
  <2>1. text \in Seq(Level) /\ text # << >> /\ text' = Front(text)
    BY DEF CondTypes, End
  <2>2. n \in Nat /\ n >= 1
    BY <2>1, NotEmpty
  <2>3. Len(text') = n - 1 /\ \A i \in 1 .. n - 1 : text'[i] = text[i]
    BY <2>1, Fronted
  <2> QED BY <2>2, <2>3
<1>3. \A i \in 1 .. mstack : Compiled(text[i])
  BY DEF SkipInv, SkipsFit
<1>4. CASE skips = << >>
  <2>1. /\ mstack' = mstack - 1 /\ skips' = skips /\ current' = current /\ deadWhenTrue' = deadWhenTrue
    BY <1>4 DEF End, Live
  <2>2. /\ mstack' \in Nat /\ \A i \in 1 .. mstack' : i \in 1 .. n - 1 /\ i \in 1 .. mstack
        /\ Len(text') = mstack' + Len(skips)
    BY <1>1, <1>2, <1>4, <2>1
  <2>3. SkipInv'
    BY <1>2, <1>3, <1>4, <2>1, <2>2 DEF SkipInv, SkipsFit
  <2>4. ModeTypes'
    BY <1>1, <2>1, <2>2 DEF ModeTypes
  <2>5. Blocks
    BY <1>1, <2>1 DEF Blocks
  <2> QED BY <2>3, <2>4, <2>5
<1>5. CASE skips # << >>
  <2>1. /\ mstack' = mstack /\ skips' = Front(skips) /\ current' = Front(current) /\ CloseDeadBlock
    BY <1>5 DEF End, Live
  <2>2. /\ skips' \in Seq(BOOLEAN) /\ Len(skips') = Len(skips) - 1 /\ Len(skips) >= 1
        /\ \A j \in 1 .. Len(skips) - 1 : skips'[j] = skips[j]
    BY <1>1, <1>5, <2>1, Fronted
  <2>3. current # << >>
    BY <1>1, <1>5, NotEmpty
  <2>4. /\ current' \in Seq(BOOLEAN) /\ Len(current') = Len(current) - 1
        /\ \A i \in 1 .. Len(current) - 1 : current'[i] = current[i] /\ i \in 1 .. Len(current)
        /\ deadWhenTrue' \in BOOLEAN
        /\ deadWhenTrue' => deadWhenTrue \/ \E j \in 1 .. Len(current) : current[j]
    BY <1>1, <2>1, <2>3, ClosedBlock
  <2>5. ModeTypes'
    BY <1>1, <1>2, <2>1, <2>2, <2>4 DEF ModeTypes
  <2>6. \A i \in 1 .. mstack : i \in 1 .. n - 1
    BY <1>1, <2>2
  <2>7. \A i \in 1 .. mstack : Compiled(text'[i])
    BY <1>2, <1>3, <2>6
  <2>8. \A j \in 2 .. Len(skips') : ~skips'[j]
    <3>1. \A j \in 2 .. Len(skips') : j \in 2 .. Len(skips) /\ j \in 1 .. Len(skips) - 1
      BY <1>1, <2>2
    <3> QED BY <2>2, <3>1 DEF SkipInv, SkipsFit
  <2>9. ASSUME skips' # << >>
        PROVE  /\ skips'[1] => ~text'[mstack + 1].holds /\ ~text'[mstack + 1].earlier
               /\ ~skips'[1] => text'[mstack + 1].earlier
    <3>1. Len(skips') >= 1
      BY <2>2, <2>9, NotEmpty
    <3>2. 1 \in 1 .. Len(skips) - 1 /\ mstack + 1 \in 1 .. n - 1
      BY <1>1, <2>2, <3>1
    <3> QED BY <1>2, <1>5, <2>2, <3>2 DEF SkipInv, SkipsFit
  <2>10. SkipInv'
    BY <2>1, <2>7, <2>8, <2>9 DEF SkipInv, SkipsFit
  <2>11. Blocks
    BY <2>4 DEF Blocks
  <2> QED BY <2>5, <2>10, <2>11
<1> QED BY <1>4, <1>5

-----------------------------------------------------------------------------
CondInv == CondTypes /\ SkipInv /\ StackInv /\ DeadInv

LEMMA CondInvInit == CondInit => CondInv
<1> SUFFICES ASSUME CondInit PROVE CondInv
  OBVIOUS
<1>1. /\ stack = << >> /\ depths = << >> /\ mstack = 0 /\ skips = << >> /\ current = << >>
      /\ deadWhenTrue = FALSE /\ text = << >> /\ wellFormed = TRUE
  BY DEF CondInit
<1>2. CondTypes
  <2>1. Len(stack) = 0 /\ Len(depths) = 0 /\ Len(skips) = 0 /\ Len(current) = 0 /\ Len(text) = 0
    BY <1>1
  <2>2. /\ stack \in Seq(BOOLEAN) /\ depths \in Seq(Nat \ {0}) /\ skips \in Seq(BOOLEAN)
        /\ current \in Seq(BOOLEAN) /\ text \in Seq(Level)
    BY <1>1, EmptySeq
  <2>3. mstack \in Nat /\ deadWhenTrue \in BOOLEAN /\ wellFormed \in BOOLEAN
    BY <1>1
  <2>4. Len(text) = mstack + Len(skips)
    BY ONLY <1>1, <2>1
  <2> QED BY <2>1, <2>2, <2>3, <2>4 DEF CondTypes
<1>3. SkipInv
  BY <1>1 DEF SkipInv, SkipsFit
<1>4. StackInv
  <2> DEFINE off == [i \in 1 .. 1 |-> 0]
  <2>1. Len(stack) = 0 /\ Len(depths) = 0
    BY <1>1
  <2>2. off \in [1 .. Len(depths) + 1 -> Nat] /\ off[1] = 0 /\ off[Len(depths) + 1] = Len(stack)
    BY <2>1
  <2>3. \A i \in 1 .. Len(depths) + 1 : off[i] = 0
    BY <2>1
  <2> HIDE DEF off
  <2>4. Offsets(off, stack, depths)
    BY <2>1, <2>2, <2>3 DEF Offsets
  <2>5. Segments(off, stack, depths, text)
    BY <2>1 DEF Segments
  <2> QED BY <2>4, <2>5 DEF StackInv
<1>5. DeadInv
  BY <1>1 DEF DeadInv
<1> QED BY <1>2, <1>3, <1>4, <1>5 DEF CondInv

LEMMA CondStep ==
    ASSUME CondInv, [CondNext]_(condVars)
    PROVE  CondInv'
<1>1. CASE UNCHANGED condVars
  <2>1. UNCHANGED <<stack, depths, mstack, skips, current, deadWhenTrue, text, wellFormed>>
    BY <1>1 DEF condVars
  <2> QED BY <2>1 DEF CondInv, CondTypes, SkipInv, StackInv, DeadInv
<1>2. CASE CondNext
  <2>1. StackTypes /\ StackInv /\ CondTypes /\ SkipInv /\ DeadInv
    BY DEF CondInv, CondTypes, StackTypes
  <2>2. ASSUME text # << >>, NEW v \in BOOLEAN, NEW e \in BOOLEAN, NextBranch(v, e)
        PROVE  /\ Len(text') = Len(text) /\ \A i \in 1 .. Len(text) - 1 : text'[i] = text[i]
               /\ text'[Len(text)].earlier <=> text[Len(text)].earlier \/ text[Len(text)].holds
               /\ text'[Len(text)].holds = v /\ (wellFormed' => wellFormed)
    BY <2>1, <2>2, TextBranch DEF StackTypes
  <2>3. /\ StackTypes' /\ StackInv' /\ ModeTypes' /\ SkipInv' /\ Blocks
        /\ wellFormed' => wellFormed
    <3>1. ASSUME NEW v \in BOOLEAN, If(v)
          PROVE  /\ StackTypes' /\ StackInv' /\ ModeTypes' /\ SkipInv' /\ Blocks
                 /\ wellFormed' => wellFormed
      <4>1. wellFormed' = wellFormed
        BY <3>1 DEF If
      <4> QED BY <2>1, <3>1, <4>1, StackIf, ModeIf
    <3>2. ASSUME NEW v \in BOOLEAN, ElseIf(v)
          PROVE  /\ StackTypes' /\ StackInv' /\ ModeTypes' /\ SkipInv' /\ Blocks
                 /\ wellFormed' => wellFormed
      <4>1. /\ text # << >> /\ NextBranch(v, FALSE) /\ CondElseIf(v) /\ FALSE \in BOOLEAN
            /\ \/ LeaveBranch \/ SkipBranch
               \/ ~Live /\ Test /\ CloseDeadBlock /\ Enter(v, Front(current))
        BY <3>2 DEF ElseIf, MayBranch
      <4>2. StackTypes' /\ StackInv'
        BY <2>1, <4>1, StackElseIf
      <4>3. ModeTypes' /\ SkipInv' /\ Blocks
        BY <2>1, <2>2, <4>1, ModeBranch
      <4> QED BY <2>2, <4>1, <4>2, <4>3
    <3>3. ASSUME Else
          PROVE  /\ StackTypes' /\ StackInv' /\ ModeTypes' /\ SkipInv' /\ Blocks
                 /\ wellFormed' => wellFormed
      <4>1. /\ text # << >> /\ NextBranch(TRUE, TRUE) /\ CondElse /\ TRUE \in BOOLEAN
            /\ \/ LeaveBranch \/ SkipBranch
               \/ ~Live /\ Test /\ CloseDeadBlock /\ Enter(TRUE, Front(current))
        BY <3>3 DEF Else, MayBranch
      <4>2. StackTypes' /\ StackInv'
        BY <2>1, <4>1, StackElse
      <4>3. ModeTypes' /\ SkipInv' /\ Blocks
        BY <2>1, <2>2, <4>1, ModeBranch
      <4> QED BY <2>2, <4>1, <4>2, <4>3
    <3>4. ASSUME End
          PROVE  /\ StackTypes' /\ StackInv' /\ ModeTypes' /\ SkipInv' /\ Blocks
                 /\ wellFormed' => wellFormed
      <4>1. wellFormed' = wellFormed
        BY <3>4 DEF End
      <4> QED BY <2>1, <3>4, <4>1, StackEnd, ModeEnd
    <3> QED BY <1>2, <3>1, <3>2, <3>3, <3>4 DEF CondNext
  <2>4. CondTypes'
    BY <2>3 DEF CondTypes, StackTypes, ModeTypes, Blocks
  <2>5. ASSUME wellFormed'
        PROVE  ~(skips' # << >> /\ Condition(stack'))
    <3>1. PICK off : Offsets(off, stack', depths') /\ Segments(off, stack', depths', text')
      BY <2>3, <2>5 DEF StackInv
    <3>2. Condition(stack') <=> \A i \in 1 .. Len(text') : Compiled(text'[i])
      BY <2>3, <3>1, ConditionIsText DEF StackTypes
    <3>3. skips' = << >> <=> \A i \in 1 .. Len(text') : Compiled(text'[i])
      BY <2>3, SkipsFollowText DEF ModeTypes, SkipInv
    <3> QED BY <3>2, <3>3
  <2>6. DeadInv'
    BY <2>1, <2>3, <2>5 DEF DeadInv, Blocks
  <2> QED BY <2>3, <2>4, <2>6 DEF CondInv
<1> QED BY <1>1, <1>2

LEMMA CondCorrect ==
    ASSUME CondInv
    PROVE  LiveAsWritten /\ ConditionMatches
<1>1. Live <=> \A i \in 1 .. Len(text) : Compiled(text[i])
  BY SkipsFollowText DEF CondInv, CondTypes, SkipInv, Live
<1>2. LiveAsWritten
  BY <1>1 DEF LiveAsWritten, Compiled
<1>3. ASSUME wellFormed
      PROVE  Live <=> Condition(stack)
  <2>1. PICK off : Offsets(off, stack, depths) /\ Segments(off, stack, depths, text)
    BY <1>3 DEF CondInv, StackInv
  <2>2. Condition(stack) <=> \A i \in 1 .. Len(text) : Compiled(text[i])
    BY <2>1, ConditionIsText DEF CondInv, CondTypes
  <2> QED BY <1>1, <2>2
<1>4. ConditionMatches
  BY <1>3 DEF ConditionMatches, CondInv, DeadInv
<1> QED BY <1>2, <1>4

\* A token is compiled exactly when each #if around it is at its first branch that holds.
THEOREM CodeIsLiveAsWritten == CondSpec => []LiveAsWritten
<1>1. CondInv /\ [CondNext]_(condVars) => CondInv'
  BY CondStep
<1>2. CondInv => LiveAsWritten
  BY CondCorrect
<1> QED BY <1>1, <1>2, CondInvInit, PTL DEF CondSpec

\* While no branch follows an #else, the condition of condition_handler holds exactly in
\* live code, and no dead block has a condition that holds.
THEOREM ConditionsAreOfTheText == CondSpec => []ConditionMatches
<1>1. CondInv /\ [CondNext]_(condVars) => CondInv'
  BY CondStep
<1>2. CondInv => ConditionMatches
  BY CondCorrect
<1> QED BY <1>1, <1>2, CondInvInit, PTL DEF CondSpec

-----------------------------------------------------------------------------
(* XmlParser.                                                              *)

\* The activations over a text whose characters are in S.
Records(Q, N, I, T, A) ==
    [state : Q, next : Q, start : N, nsubs : N, nbrackets : I,
     aname : T, attribs : A, nodename : T, parentname : T]
States ==
    {"IGNORE_SPACES", "BEGIN", "BEGIN_NODE", "TAG_NAME", "BODY", "ATTRIB_NAME", "EQUALS",
     "ATTVAL_BEGIN", "ATTRIB_VAL", "CHILDS", "CLOSE", "WAIT_END", "WAIT_END_RET", "PCDATA",
     "HEADER", "COMMENT", "DOCTYPE", "CDATA"}
Frames(S) == Records(States, Nat, Int, Seq(S), SUBSET (Seq(S) \X Seq(S)))

\* What IGNORE_SPACES can lead to, and the states of an element that has its name.
Resumed == {"BEGIN", "BEGIN_NODE", "BODY", "EQUALS", "ATTVAL_BEGIN", "CLOSE", "WAIT_END_RET"}
Named == {"BODY", "ATTRIB_NAME", "EQUALS", "ATTVAL_BEGIN", "ATTRIB_VAL", "CHILDS"}
Closing == {"CLOSE", "WAIT_END_RET"}

\* Spaces are skipped with what the next state needs.
Heading(f) == IF f.state = "IGNORE_SPACES" THEN f.next ELSE f.state

\* An activation when the pointer is at `at`.
FrameOk(f, at, S) ==
    /\ f \in Frames(S) /\ f.next \in Resumed
    /\ f.start <= at
    /\ Heading(f) \in Cutting => f.start >= 1
    /\ f.state = "ATTRIB_VAL" => f.start < at
    /\ Heading(f) \in Named => f.nodename # << >>
    /\ Heading(f) \in Closing => f.parentname # << >>

\* The stack of activations, innermost first.
Called(inner, outer) ==
    outer.state = "CHILDS" /\ inner.parentname = outer.nodename /\ inner.parentname # << >>

StackOk(s, at, S) ==
    /\ s \in Seq(Frames(S)) /\ s # << >>
    /\ \A i \in 1 .. Len(s) : FrameOk(s[i], at, S)
    /\ s[Len(s)].parentname = << >>
    /\ \A i \in 1 .. Len(s) - 1 : Called(s[i], s[i + 1])

Breaks(t, at) == {i \in 2 .. at : i <= Len(t) /\ t[i] = Newline}

Chars == ToSet(doc.text)

\* The pointer and the line that goes with it.
PlaceInv ==
    /\ doc \in Documents /\ doc.text \in Seq(Chars)
    /\ p \in 1 .. Len(doc.text) + 1
    /\ IsFiniteSet(Breaks(doc.text, p)) /\ line = Cardinality(Breaks(doc.text, p))

XmlInv == PlaceInv /\ StackOk(activations, p, Chars)

\* The ways in which an activation changes itself.
ToState(f, st) == [f EXCEPT !.state = st]
ToAnother(f, st, k) == [f EXCEPT !.state = st, !.nsubs = k]
FromState(f, st, n) == [f EXCEPT !.state = st, !.start = n]
SkipToState(f, nx) == [f EXCEPT !.state = "IGNORE_SPACES", !.next = nx]
SkipFrom(f, nx, n) == [f EXCEPT !.state = "IGNORE_SPACES", !.next = nx, !.start = n]
SkipToAnother(f, nx, k) == [f EXCEPT !.state = "IGNORE_SPACES", !.next = nx, !.nsubs = k]
Element(f, nx, name, a) ==
    [f EXCEPT !.state = "IGNORE_SPACES", !.next = nx, !.nodename = name, !.attribs = a]
Attribute(f, nx, name) == [f EXCEPT !.state = "IGNORE_SPACES", !.next = nx, !.aname = name]
Value(f, nx, a) == [f EXCEPT !.state = "IGNORE_SPACES", !.next = nx, !.attribs = a]
Nested(f, b) == [f EXCEPT !.nbrackets = b]

Agrees(g, f, st, nx, n, name) ==
    /\ g.state = st /\ g.next = nx /\ g.start = n /\ g.nodename = name
    /\ g.parentname = f.parentname

LEMMA Edited ==
    ASSUME NEW S, NEW f \in Frames(S)
    PROVE  /\ \A st \in States :
                ToState(f, st) \in Frames(S) /\ Agrees(ToState(f, st), f, st, f.next, f.start, f.nodename)
           /\ \A st \in States, k \in Nat :
                /\ ToAnother(f, st, k) \in Frames(S)
                /\ Agrees(ToAnother(f, st, k), f, st, f.next, f.start, f.nodename)
           /\ \A st \in States, n \in Nat :
                /\ FromState(f, st, n) \in Frames(S)
                /\ Agrees(FromState(f, st, n), f, st, f.next, n, f.nodename)
           /\ \A nx \in States :
                /\ SkipToState(f, nx) \in Frames(S)
                /\ Agrees(SkipToState(f, nx), f, "IGNORE_SPACES", nx, f.start, f.nodename)
           /\ \A nx \in States, n \in Nat :
                /\ SkipFrom(f, nx, n) \in Frames(S)
                /\ Agrees(SkipFrom(f, nx, n), f, "IGNORE_SPACES", nx, n, f.nodename)
           /\ \A nx \in States, k \in Nat :
                /\ SkipToAnother(f, nx, k) \in Frames(S)
                /\ Agrees(SkipToAnother(f, nx, k), f, "IGNORE_SPACES", nx, f.start, f.nodename)
           /\ \A nx \in States, name \in Seq(S), a \in SUBSET (Seq(S) \X Seq(S)) :
                /\ Element(f, nx, name, a) \in Frames(S)
                /\ Agrees(Element(f, nx, name, a), f, "IGNORE_SPACES", nx, f.start, name)
           /\ \A nx \in States, name \in Seq(S) :
                /\ Attribute(f, nx, name) \in Frames(S)
                /\ Agrees(Attribute(f, nx, name), f, "IGNORE_SPACES", nx, f.start, f.nodename)
           /\ \A nx \in States, a \in SUBSET (Seq(S) \X Seq(S)) :
                /\ Value(f, nx, a) \in Frames(S)
                /\ Agrees(Value(f, nx, a), f, "IGNORE_SPACES", nx, f.start, f.nodename)
           /\ \A b \in Int :
                /\ Nested(f, b) \in Frames(S)
                /\ Agrees(Nested(f, b), f, f.state, f.next, f.start, f.nodename)
<1> DEFINE Q == States
           N == Nat
           I == Int
           T == Seq(S)
           A == SUBSET (Seq(S) \X Seq(S))
           F == Records(Q, N, I, T, A)
<1>1. f \in F /\ Frames(S) = F /\ "IGNORE_SPACES" \in Q
  BY DEF Frames, States
<1> HIDE DEF Q, N, I, T, A
<1>2. \A st \in Q :
        ToState(f, st) \in F /\ Agrees(ToState(f, st), f, st, f.next, f.start, f.nodename)
  BY <1>1 DEF Records, Agrees, ToState
<1>3. \A st \in Q, k \in N :
        /\ ToAnother(f, st, k) \in F
        /\ Agrees(ToAnother(f, st, k), f, st, f.next, f.start, f.nodename)
  BY <1>1 DEF Records, Agrees, ToAnother
<1>4. \A st \in Q, n \in N :
        FromState(f, st, n) \in F /\ Agrees(FromState(f, st, n), f, st, f.next, n, f.nodename)
  BY <1>1 DEF Records, Agrees, FromState
<1>5. \A nx \in Q :
        SkipToState(f, nx) \in F /\ Agrees(SkipToState(f, nx), f, "IGNORE_SPACES", nx, f.start, f.nodename)
  BY <1>1 DEF Records, Agrees, SkipToState
<1>6. \A nx \in Q, n \in N :
        /\ SkipFrom(f, nx, n) \in F
        /\ Agrees(SkipFrom(f, nx, n), f, "IGNORE_SPACES", nx, n, f.nodename)
  BY <1>1 DEF Records, Agrees, SkipFrom
<1>7. \A nx \in Q, k \in N :
        /\ SkipToAnother(f, nx, k) \in F
        /\ Agrees(SkipToAnother(f, nx, k), f, "IGNORE_SPACES", nx, f.start, f.nodename)
  BY <1>1 DEF Records, Agrees, SkipToAnother
<1>8. ASSUME NEW nx \in Q, NEW name \in T, NEW a \in A
      PROVE  /\ Element(f, nx, name, a) \in F
             /\ Agrees(Element(f, nx, name, a), f, "IGNORE_SPACES", nx, f.start, name)
  <2> DEFINE e == SkipToState(f, nx)
             g == [e EXCEPT !.nodename = name, !.attribs = a]
  <2>1. /\ e \in F /\ e.state = "IGNORE_SPACES" /\ e.next = nx /\ e.start = f.start
        /\ e.parentname = f.parentname
    BY <1>1 DEF Records, SkipToState
  <2>2. Element(f, nx, name, a) = g
    BY DEF Element, SkipToState
  <2> HIDE DEF e
  <2>3. g \in F /\ Agrees(g, f, "IGNORE_SPACES", nx, f.start, name)
    BY <2>1 DEF Records, Agrees
  <2> HIDE DEF g
  <2> QED BY <2>2, <2>3
<1>9. \A nx \in Q, name \in T :
        /\ Attribute(f, nx, name) \in F
        /\ Agrees(Attribute(f, nx, name), f, "IGNORE_SPACES", nx, f.start, f.nodename)
  BY <1>1 DEF Records, Agrees, Attribute
<1>10. \A nx \in Q, a \in A :
        /\ Value(f, nx, a) \in F
        /\ Agrees(Value(f, nx, a), f, "IGNORE_SPACES", nx, f.start, f.nodename)
  BY <1>1 DEF Records, Agrees, Value
<1>11. \A b \in I :
        Nested(f, b) \in F /\ Agrees(Nested(f, b), f, f.state, f.next, f.start, f.nodename)
  BY <1>1 DEF Records, Agrees, Nested
<1> HIDE DEF F
<1> QED BY <1>1, <1>2, <1>3, <1>4, <1>5, <1>6, <1>7, <1>8, <1>9, <1>10, <1>11
    DEF Q, N, I, T, A

\* The pointer goes on from `at` and passes no line break unseen.
LEMMA BreaksNext ==
    ASSUME NEW S, NEW t \in Seq(S), NEW at \in 1 .. Len(t), NEW from \in at .. Len(t),
           \A i \in at + 1 .. from : t[i] # Newline, IsFiniteSet(Breaks(t, at))
    PROVE  /\ IsFiniteSet(Breaks(t, from + 1))
           /\ Cardinality(Breaks(t, from + 1)) =
                IF from + 1 <= Len(t) /\ t[from + 1] = Newline
                THEN Cardinality(Breaks(t, at)) + 1 ELSE Cardinality(Breaks(t, at))
<1>1. Len(t) \in Nat /\ at \in Nat /\ from \in Nat /\ 1 <= at /\ at <= from /\ from <= Len(t)
  OBVIOUS
<1>2. CASE from + 1 <= Len(t) /\ t[from + 1] = Newline
  <2>1. Breaks(t, from + 1) = Breaks(t, at) \cup {from + 1} /\ from + 1 \notin Breaks(t, at)
    BY <1>1, <1>2 DEF Breaks
  <2> QED BY <1>2, <2>1, FS_AddElement
<1>3. CASE ~(from + 1 <= Len(t) /\ t[from + 1] = Newline)
  <2>1. Breaks(t, from + 1) = Breaks(t, at)
    BY <1>1, <1>3 DEF Breaks
  <2> QED BY <1>3, <2>1
<1> QED BY <1>2, <1>3

\* The three ways in which the stack changes.
LEMMA Behind ==
    ASSUME NEW S, NEW s \in Seq(S), s # << >>, NEW x \in S
    PROVE  /\ <<x>> \o Tail(s) \in Seq(S) /\ <<x>> \o Tail(s) # << >>
           /\ Len(<<x>> \o Tail(s)) = Len(s) /\ (<<x>> \o Tail(s))[1] = x
           /\ \A i \in 2 .. Len(s) : (<<x>> \o Tail(s))[i] = s[i]
<1>1. /\ Tail(s) \in Seq(S) /\ Len(s) \in Nat /\ Len(s) >= 1 /\ Len(Tail(s)) = Len(s) - 1
      /\ \A i \in 1 .. Len(Tail(s)) : Tail(s)[i] = s[i + 1]
  BY NotEmpty, HeadTailProperties
<1>2. <<x>> \in Seq(S) /\ Len(<<x>>) = 1 /\ <<x>>[1] = x
  OBVIOUS
<1> DEFINE u == <<x>>
           v == Tail(s)
           w == u \o v
<1> HIDE DEF u, v
<1>3. /\ w \in Seq(S) /\ Len(w) = Len(u) + Len(v)
      /\ \A i \in 1 .. Len(u) + Len(v) : w[i] = IF i <= Len(u) THEN u[i] ELSE v[i - Len(u)]
  BY <1>1, <1>2, ConcatProperties DEF u, v
<1> HIDE DEF w
<1>4. Len(u) + Len(v) = Len(s) /\ Len(u) = 1 /\ u[1] = x
  BY <1>1, <1>2 DEF u, v
<1>5. ASSUME NEW i \in 2 .. Len(s)
      PROVE  w[i] = s[i]
  <2>1. i \in 1 .. Len(s) /\ ~(i <= 1) /\ i - 1 \in 1 .. Len(s) - 1 /\ (i - 1) + 1 = i
    BY <1>1
  <2>2. w[i] = v[i - 1]
    BY <1>3, <1>4, <2>1
  <2>3. v[i - 1] = s[(i - 1) + 1]
    BY <1>1, <2>1 DEF v
  <2> QED BY <2>1, <2>2, <2>3
<1>6. w[1] = x /\ Len(w) >= 1
  BY <1>1, <1>3, <1>4
<1>7. w # << >>
  BY <1>3, <1>6, NotEmpty
<1> QED BY <1>3, <1>4, <1>5, <1>6, <1>7 DEF u, v, w

LEMMA PushedFrame ==
    ASSUME NEW S, NEW s \in Seq(S), NEW x \in S
    PROVE  /\ <<x>> \o s \in Seq(S) /\ <<x>> \o s # << >>
           /\ Len(<<x>> \o s) = Len(s) + 1 /\ (<<x>> \o s)[1] = x
           /\ \A i \in 2 .. Len(s) + 1 : (<<x>> \o s)[i] = s[i - 1]
<1>1. Len(s) \in Nat
  OBVIOUS
<1>2. <<x>> \in Seq(S) /\ Len(<<x>>) = 1 /\ <<x>>[1] = x
  OBVIOUS
<1> DEFINE u == <<x>>
           w == u \o s
<1> HIDE DEF u
<1>3. /\ w \in Seq(S) /\ Len(w) = Len(u) + Len(s)
      /\ \A i \in 1 .. Len(u) + Len(s) : w[i] = IF i <= Len(u) THEN u[i] ELSE s[i - Len(u)]
  BY <1>2, ConcatProperties DEF u
<1> HIDE DEF w
<1>4. Len(u) = 1 /\ u[1] = x
  BY <1>2 DEF u
<1>5. \A i \in 2 .. Len(s) + 1 : w[i] = s[i - 1]
  BY <1>1, <1>3, <1>4
<1>6. w[1] = x /\ Len(w) = Len(s) + 1
  BY <1>1, <1>3, <1>4
<1>7. w # << >>
  BY <1>1, <1>3, <1>6, NotEmpty
<1> QED BY <1>3, <1>5, <1>6, <1>7 DEF u, w

LEMMA Later ==
    ASSUME NEW S, NEW at \in Nat, NEW on \in Nat, at <= on, NEW f, FrameOk(f, at, S)
    PROVE  FrameOk(f, on, S)
<1>1. f.start \in Nat
  BY DEF FrameOk, Frames, Records
<1> QED BY <1>1 DEF FrameOk

LEMMA StackBreak ==
    ASSUME NEW S, NEW s, NEW at \in Nat, NEW on \in Nat, at <= on, StackOk(s, at, S),
           NEW f, FrameOk(f, on, S), f.parentname = Head(s).parentname
    PROVE  StackOk(<<f>> \o Tail(s), on, S)
<1> DEFINE w == <<f>> \o Tail(s)
           F == Frames(S)
<1>1. s \in Seq(F) /\ s # << >> /\ f \in F
  BY DEF StackOk, FrameOk
<1> HIDE DEF F
<1>2. /\ w \in Seq(F) /\ w # << >> /\ Len(w) = Len(s) /\ w[1] = f
      /\ \A i \in 2 .. Len(s) : w[i] = s[i]
  BY ONLY <1>1, Behind
<1>3. Len(s) \in Nat /\ Len(s) >= 1 /\ Head(s) = s[1]
  BY <1>1, NotEmpty
<1> HIDE DEF w
<1>4. ASSUME NEW i \in 1 .. Len(s)
      PROVE  FrameOk(w[i], on, S) /\ w[i].parentname = s[i].parentname
  <2>1. CASE i = 1
    BY <1>2, <1>3, <2>1
  <2>2. CASE i # 1
    <3>1. i \in 2 .. Len(s) BY <1>3, <2>2
    <3>2. FrameOk(s[i], at, S) BY DEF StackOk
    <3>3. FrameOk(s[i], on, S) BY ONLY <3>2, Later, at \in Nat, on \in Nat, at <= on
    <3> QED BY <1>2, <3>1, <3>3
  <2> QED BY <2>1, <2>2
<1>5. ASSUME NEW i \in 1 .. Len(s) - 1
      PROVE  Called(w[i], w[i + 1])
  <2>1. i \in 1 .. Len(s) /\ i + 1 \in 2 .. Len(s)
    BY <1>3
  <2>2. Called(s[i], s[i + 1]) BY DEF StackOk
  <2>3. w[i].parentname = s[i].parentname /\ w[i + 1] = s[i + 1]
    BY <1>2, <1>4, <2>1
  <2> QED BY <2>2, <2>3 DEF Called
<1>6. w[Len(w)].parentname = << >>
  <2>1. Len(s) \in 1 .. Len(s) BY <1>3
  <2> QED BY <1>2, <1>4, <2>1 DEF StackOk
<1>7. StackOk(w, on, S)
  BY <1>2, <1>4, <1>5, <1>6 DEF StackOk, F
<1> QED BY <1>7 DEF w

LEMMA StackCall ==
    ASSUME NEW S, NEW s, NEW at \in Nat, StackOk(s, at, S), Head(s).state = "CHILDS"
    PROVE  StackOk(<<Frame(Head(s).nodename)>> \o s, at, S)
<1> DEFINE f == Frame(Head(s).nodename)
           w == <<f>> \o s
           F == Frames(S)
<1>1. s \in Seq(F) /\ s # << >>
  BY DEF StackOk
<1>2. Len(s) \in Nat /\ Len(s) >= 1 /\ Head(s) = s[1] /\ 1 \in 1 .. Len(s)
  BY <1>1, NotEmpty
<1>3. FrameOk(Head(s), at, S)
  BY <1>2 DEF StackOk
<1>4. Head(s).nodename \in Seq(S) /\ Head(s).nodename # << >>
  BY <1>3 DEF FrameOk, Frames, Records, Heading, Named
<1>5. FrameOk(f, at, S) /\ f.parentname = Head(s).nodename
  <2>1. << >> \in Seq(S) /\ {} \in SUBSET (Seq(S) \X Seq(S)) /\ 0 \in Nat /\ 0 \in Int
    OBVIOUS
  <2>2. f \in Frames(S)
    <3> DEFINE T == Seq(S)
               A == SUBSET (Seq(S) \X Seq(S))
               n == Head(s).nodename
               Q == States
    <3>1. << >> \in T /\ {} \in A /\ n \in T /\ "BEGIN" \in Q
      BY <1>4, <2>1 DEF States
    <3> HIDE DEF T, A, n, Q
    <3>2. Frame(n) \in Records(Q, Nat, Int, T, A)
      BY <2>1, <3>1 DEF Frame, Records
    <3> QED BY <3>2 DEF T, A, n, Q, Frames
  <2>3. /\ f.state = "BEGIN" /\ f.next = "BEGIN" /\ f.start = 0
        /\ f.parentname = Head(s).nodename
    BY DEF Frame
  <2> HIDE DEF f
  <2> QED BY <2>2, <2>3 DEF FrameOk, Heading, Named, Closing, Cutting, Resumed
<1>6. f \in F
  BY <1>5 DEF FrameOk
<1> HIDE DEF F, f
<1>7. /\ w \in Seq(F) /\ w # << >> /\ Len(w) = Len(s) + 1 /\ w[1] = f
      /\ \A i \in 2 .. Len(s) + 1 : w[i] = s[i - 1]
  BY ONLY <1>1, <1>6, PushedFrame
<1> HIDE DEF w
<1>8. ASSUME NEW i \in 1 .. Len(s) + 1
      PROVE  FrameOk(w[i], at, S)
  <2>1. CASE i = 1
    BY <1>5, <1>7, <2>1
  <2>2. CASE i # 1
    <3>1. i \in 2 .. Len(s) + 1 /\ i - 1 \in 1 .. Len(s) BY <1>2, <2>2
    <3>2. FrameOk(s[i - 1], at, S) BY <3>1 DEF StackOk
    <3> QED BY <1>7, <3>1, <3>2
  <2> QED BY <2>1, <2>2
<1>9. ASSUME NEW i \in 1 .. Len(s)
      PROVE  Called(w[i], w[i + 1])
  <2>1. i + 1 \in 2 .. Len(s) + 1 /\ (i + 1) - 1 = i
    BY <1>2
  <2>2. w[i + 1] = s[i]
    BY <1>7, <2>1
  <2>3. CASE i = 1
    BY <1>2, <1>4, <1>5, <1>7, <2>2, <2>3 DEF Called
  <2>4. CASE i # 1
    <3>1. i \in 2 .. Len(s) + 1 /\ i - 1 \in 1 .. Len(s) - 1 /\ (i - 1) + 1 = i BY <1>2, <2>4
    <3>2. Called(s[i - 1], s[(i - 1) + 1]) BY <3>1 DEF StackOk
    <3> QED BY <1>7, <2>2, <3>1, <3>2
  <2> QED BY <2>3, <2>4
<1>10. w[Len(w)].parentname = << >>
  <2>1. Len(s) + 1 \in 2 .. Len(s) + 1 /\ (Len(s) + 1) - 1 = Len(s) BY <1>2
  <2> QED BY <1>7, <2>1 DEF StackOk
<1>11. \A i \in 1 .. Len(w) - 1 : i \in 1 .. Len(s)
  BY <1>2, <1>7
<1>12. StackOk(w, at, S)
  BY <1>7, <1>8, <1>9, <1>10, <1>11 DEF StackOk, F
<1> QED BY <1>12 DEF w, f

LEMMA StackReturn ==
    ASSUME NEW S, NEW s, NEW at \in Nat, StackOk(s, at, S), Head(s).parentname # << >>
    PROVE  StackOk(<<[s[2] EXCEPT !.state = "BEGIN", !.start = at]>> \o Tail(Tail(s)), at + 1, S)
<1> DEFINE f == [s[2] EXCEPT !.state = "BEGIN", !.start = at]
           t == Tail(s)
           F == Frames(S)
<1>1. s \in Seq(F) /\ s # << >>
  BY DEF StackOk
<1>2. Len(s) \in Nat /\ Len(s) >= 1 /\ Head(s) = s[1] /\ 1 \in 1 .. Len(s)
  BY <1>1, NotEmpty
<1>3. Len(s) >= 2
  <2>1. Len(s) # 1
    BY <1>2 DEF StackOk
  <2> QED BY <1>2, <2>1
<1>4. /\ t \in Seq(F) /\ Len(t) = Len(s) - 1
      /\ \A i \in 1 .. Len(t) : t[i] = s[i + 1]
  BY <1>1, HeadTailProperties
<1>5. t # << >> /\ Head(t) = s[2]
  <2>1. Len(t) >= 1 /\ 1 \in 1 .. Len(t)
    BY <1>2, <1>3, <1>4
  <2>2. t # << >> /\ t[1] = s[2]
    BY ONLY <1>4, <2>1, NotEmpty
  <2> HIDE DEF t
  <2> QED BY <1>4, <2>2
<1>6. StackOk(t, at, S)
  <2>1. ASSUME NEW i \in 1 .. Len(t)
        PROVE  FrameOk(t[i], at, S)
    <3>1. i + 1 \in 1 .. Len(s) BY <1>2, <1>4
    <3> QED BY <1>4, <3>1 DEF StackOk
  <2>2. ASSUME NEW i \in 1 .. Len(t) - 1
        PROVE  Called(t[i], t[i + 1])
    <3>1. i + 1 \in 1 .. Len(s) - 1 /\ i \in 1 .. Len(t) /\ i + 1 \in 1 .. Len(t)
      BY <1>2, <1>4
    <3>2. Called(s[i + 1], s[(i + 1) + 1]) BY <3>1 DEF StackOk
    <3> QED BY <1>4, <3>1, <3>2
  <2>3. t[Len(t)] = s[Len(s)]
    <3>1. Len(t) \in 1 .. Len(t) /\ Len(t) + 1 = Len(s) BY <1>3, <1>2, <1>4
    <3> QED BY <1>4, <3>1
  <2> HIDE DEF t
  <2> QED BY <1>4, <1>5, <2>1, <2>2, <2>3 DEF StackOk, F
<1>7. FrameOk(s[2], at, S)
  BY <1>2, <1>3 DEF StackOk
<1>8. FrameOk(f, at + 1, S) /\ f.parentname = s[2].parentname
  <2>1. /\ f \in Frames(S) /\ f.state = "BEGIN" /\ f.next = s[2].next /\ f.start = at
        /\ f.parentname = s[2].parentname
    <3> DEFINE T == Seq(S)
               A == SUBSET (Seq(S) \X Seq(S))
               r == s[2]
               Q == States
               N == Nat
    <3>1. r \in Records(Q, N, Int, T, A) /\ "BEGIN" \in Q /\ at \in N
      BY <1>7 DEF FrameOk, Frames, States
    <3> HIDE DEF T, A, r, Q, N
    <3> DEFINE g == [r EXCEPT !.state = "BEGIN", !.start = at]
    <3>2. /\ g \in Records(Q, N, Int, T, A) /\ g.state = "BEGIN" /\ g.next = r.next /\ g.start = at
          /\ g.parentname = r.parentname
      BY <3>1 DEF Records
    <3> QED BY <3>2 DEF T, A, r, Q, N, Frames
  <2> HIDE DEF f
  <2>2. at <= at + 1
    OBVIOUS
  <2> QED BY <1>7, <2>1, <2>2 DEF FrameOk, Heading, Named, Closing, Cutting
<1> HIDE DEF f, t
<1>9. at + 1 \in Nat /\ at <= at + 1
  OBVIOUS
<1>10. StackOk(<<f>> \o Tail(t), at + 1, S)
  BY ONLY <1>5, <1>6, <1>8, <1>9, at \in Nat, StackBreak
<1> QED BY <1>10 DEF f, t

\* What the invariant says of the activation at work.
LEMMA XmlFacts ==
    ASSUME XmlInv
    PROVE  /\ p \in Nat /\ p >= 1 /\ Len(doc.text) \in Nat
           /\ FrameOk(top, p, Chars)
           /\ c # NUL => p \in 1 .. Len(doc.text) /\ c = doc.text[p]
           /\ \A i \in Nat : i > p /\ Char(i) # NUL => i <= Len(doc.text) /\ Char(i) = doc.text[i]
<1>1. Len(doc.text) \in Nat /\ p \in Nat /\ p >= 1
  BY DEF XmlInv, PlaceInv
<1>2. activations \in Seq(Frames(Chars)) /\ activations # << >>
  BY DEF XmlInv, StackOk
<1>3. Len(activations) >= 1 /\ 1 \in 1 .. Len(activations)
  BY <1>2, NotEmpty
<1>4. FrameOk(activations[1], p, Chars)
  BY <1>3 DEF XmlInv, StackOk
<1>5. top = activations[1]
  BY <1>2 DEF top
<1>6. c # NUL => p \in 1 .. Len(doc.text) /\ c = doc.text[p]
  BY <1>1 DEF c, Char
<1>7. \A i \in Nat : i > p /\ Char(i) # NUL => i <= Len(doc.text) /\ Char(i) = doc.text[i]
  BY DEF Char
<1> QED BY <1>1, <1>4, <1>5, <1>6, <1>7

\* The end of an iteration.
LEMMA PlaceNext ==
    ASSUME XmlInv, NEW from \in p .. Len(doc.text), p <= Len(doc.text),
           \A i \in p + 1 .. from : doc.text[i] # Newline, doc' = doc, p' = from + 1,
           line' = IF Char(from + 1) = Newline THEN line + 1 ELSE line
    PROVE  PlaceInv' /\ Chars' = Chars
<1> DEFINE t == doc.text
           S == Chars
<1>1. p \in Nat /\ p >= 1 /\ Len(t) \in Nat
  BY XmlFacts
<1>2. t \in Seq(S) /\ IsFiniteSet(Breaks(t, p)) /\ line = Cardinality(Breaks(t, p))
  BY DEF XmlInv, PlaceInv
<1>3. p \in 1 .. Len(t) /\ from \in p .. Len(t) /\ \A i \in p + 1 .. from : t[i] # Newline
  BY <1>1
<1>4. Char(from + 1) = Newline <=> from + 1 <= Len(t) /\ t[from + 1] = Newline
  BY DEF Char, NUL, Newline
<1>5. Chars' = Chars
  BY DEF Chars
<1>6. doc' \in Documents /\ doc'.text = t /\ t \in Seq(Chars')
  BY <1>2, <1>5 DEF XmlInv, PlaceInv
<1>7. p' \in 1 .. Len(t) + 1
  BY <1>1
<1> HIDE DEF t, S
<1>8. /\ IsFiniteSet(Breaks(t, from + 1))
      /\ Cardinality(Breaks(t, from + 1)) =
           IF from + 1 <= Len(t) /\ t[from + 1] = Newline
           THEN Cardinality(Breaks(t, p)) + 1 ELSE Cardinality(Breaks(t, p))
  BY ONLY <1>2, <1>3, BreaksNext
<1>9. line' = Cardinality(Breaks(t, from + 1))
  BY <1>2, <1>4, <1>8
<1> QED BY <1>5, <1>6, <1>7, <1>8, <1>9 DEF PlaceInv

LEMMA XmlBreak ==
    ASSUME XmlInv, NEW from \in p .. Len(doc.text), NEW f,
           \A i \in p + 1 .. from : doc.text[i] # Newline,
           p <= Len(doc.text), Break(f, from),
           FrameOk(f, from + 1, Chars), f.parentname = top.parentname
    PROVE  XmlInv'
<1>1. p \in Nat /\ p >= 1 /\ Len(doc.text) \in Nat
  BY XmlFacts
<1>2. /\ activations' = <<f>> \o Tail(activations)
      /\ p' = from + 1 /\ doc' = doc
      /\ line' = IF Char(from + 1) = Newline THEN line + 1 ELSE line
  BY DEF Break
<1>3. PlaceInv' /\ Chars' = Chars
  BY <1>2, PlaceNext
<1>4. from \in Nat /\ p <= from + 1 /\ from + 1 \in Nat
  BY <1>1
<1> DEFINE S == Chars
           s == activations
<1>5. StackOk(s, p, S) /\ f.parentname = Head(s).parentname /\ FrameOk(f, from + 1, S)
  BY DEF XmlInv, top
<1> HIDE DEF S, s
<1>6. StackOk(<<f>> \o Tail(s), from + 1, S)
  BY ONLY <1>1, <1>4, <1>5, StackBreak
<1> QED BY <1>2, <1>3, <1>6 DEF XmlInv, S, s

\* An iteration that goes on to the next character, or stays at this one.
LEMMA XmlBreakHere ==
    ASSUME XmlInv, c # NUL, NEW f, Break(f, p),
           FrameOk(f, p + 1, Chars), f.parentname = top.parentname
    PROVE  XmlInv'
<1>1. p \in Nat /\ p \in 1 .. Len(doc.text) /\ Len(doc.text) \in Nat
  BY XmlFacts
<1>2. p \in p .. Len(doc.text) /\ \A i \in p + 1 .. p : doc.text[i] # Newline
  BY <1>1
<1> QED BY <1>1, <1>2, XmlBreak

LEMMA XmlContinue ==
    ASSUME XmlInv, NEW f, Continue(f), FrameOk(f, p, Chars), f.parentname = top.parentname
    PROVE  XmlInv'
<1>1. activations' = <<f>> \o Tail(activations) /\ p' = p /\ doc' = doc /\ line' = line
  BY DEF Continue
<1>2. Chars' = Chars
  BY <1>1 DEF Chars
<1>3. p \in Nat /\ p <= p
  BY XmlFacts
<1>4. StackOk(activations', p', Chars')
  <2> DEFINE S == Chars
             s == activations
  <2>1. StackOk(s, p, S) /\ f.parentname = Head(s).parentname /\ FrameOk(f, p, S)
    BY DEF XmlInv, top
  <2> HIDE DEF S, s
  <2>2. StackOk(<<f>> \o Tail(s), p, S)
    BY ONLY <1>3, <2>1, StackBreak
  <2> QED BY <1>1, <1>2, <2>2 DEF S, s
<1>5. PlaceInv'
  BY <1>1, <1>2 DEF XmlInv, PlaceInv
<1> QED BY <1>4, <1>5 DEF XmlInv

LEMMA XmlUnchanged ==
    ASSUME XmlInv, UNCHANGED <<doc, p, line, activations>>
    PROVE  XmlInv'
<1>1. Chars' = Chars
  BY DEF Chars
<1> QED BY <1>1 DEF XmlInv, PlaceInv

\* When they leave it well-formed, as the pointer goes on from `at` to `on`.
GoesOn(at, on) == at \in Nat /\ on \in Nat /\ at <= on
CanBe(f, st) == st \in {"BEGIN", "WAIT_END", "CHILDS"} /\ (st = "CHILDS" => f.nodename # << >>)
CanStart(f, st, n, on) ==
    /\ st \in {"PCDATA", "CDATA", "TAG_NAME", "ATTRIB_NAME", "ATTRIB_VAL", "COMMENT", "DOCTYPE",
              "HEADER"}
    /\ n \in Nat /\ n >= 1 /\ n <= on /\ (st = "ATTRIB_VAL" => n < on)
    /\ st \in Named => f.nodename # << >>
CanSkip(f, nx) ==
    /\ nx \in {"BEGIN_NODE", "BODY", "EQUALS", "ATTVAL_BEGIN", "WAIT_END_RET"}
    /\ nx = "WAIT_END_RET" => f.parentname # << >>
    /\ nx \in Named => f.nodename # << >>

LEMMA OkTo ==
    ASSUME NEW S, NEW at, NEW on, GoesOn(at, on), NEW f, FrameOk(f, at, S),
           NEW st, CanBe(f, st)
    PROVE  /\ FrameOk(ToState(f, st), on, S) /\ ToState(f, st).parentname = f.parentname
           /\ \A k \in Nat : /\ FrameOk(ToAnother(f, st, k), on, S)
                             /\ ToAnother(f, st, k).parentname = f.parentname
<1>1. /\ f \in Frames(S) /\ f.next \in Resumed /\ f.start \in Nat /\ f.start <= on
      /\ st \in States /\ st # "IGNORE_SPACES"
  <2>1. f.start \in Nat
    BY DEF FrameOk, Frames, Records
  <2> QED BY <2>1 DEF FrameOk, States, GoesOn, CanBe
<1>2. /\ st \notin Cutting /\ st # "ATTRIB_VAL" /\ st \notin Closing
      /\ st \in Named => f.nodename # << >>
  BY DEF Cutting, Closing, Named, CanBe
<1>3. ASSUME NEW g \in Frames(S), Agrees(g, f, st, f.next, f.start, f.nodename)
      PROVE  FrameOk(g, on, S) /\ g.parentname = f.parentname
  BY <1>1, <1>2, <1>3 DEF FrameOk, Agrees, Heading
<1> QED BY <1>1, <1>3, Edited

LEMMA OkFrom ==
    ASSUME NEW S, NEW at, NEW on, GoesOn(at, on), NEW f, FrameOk(f, at, S),
           NEW st, NEW n, CanStart(f, st, n, on)
    PROVE  FrameOk(FromState(f, st, n), on, S) /\ FromState(f, st, n).parentname = f.parentname
<1>1. /\ f \in Frames(S) /\ f.next \in Resumed
      /\ st \in States /\ st # "IGNORE_SPACES" /\ st \notin Closing
  BY DEF FrameOk, States, Closing, CanStart
<1>2. /\ FromState(f, st, n) \in Frames(S)
      /\ Agrees(FromState(f, st, n), f, st, f.next, n, f.nodename)
  BY <1>1, Edited DEF CanStart
<1> QED BY <1>1, <1>2 DEF FrameOk, Agrees, Heading, CanStart

LEMMA OkSkip ==
    ASSUME NEW S, NEW at, NEW on, GoesOn(at, on), NEW f, FrameOk(f, at, S),
           NEW nx, CanSkip(f, nx), NEW g \in Frames(S),
           Agrees(g, f, "IGNORE_SPACES", nx, f.start, f.nodename)
    PROVE  FrameOk(g, on, S) /\ g.parentname = f.parentname
<1>1. /\ f \in Frames(S) /\ nx \in Resumed /\ nx \notin Cutting /\ nx # "CLOSE"
      /\ f.start \in Nat /\ f.start <= on
  <2>1. f.start \in Nat
    BY DEF FrameOk, Frames, Records
  <2> QED BY <2>1 DEF FrameOk, Resumed, Cutting, GoesOn, CanSkip
<1>2. nx \in Closing => f.parentname # << >>
  BY <1>1 DEF Closing, CanSkip
<1> QED BY <1>1, <1>2 DEF FrameOk, Agrees, Heading, CanSkip

LEMMA Sliced ==
    ASSUME XmlInv, NEW from \in Nat, from >= 1, from <= p
    PROVE  /\ Slice(from, p) \in Seq(Chars)
           /\ from < p => Slice(from, p) # << >>
<1>1. p \in Nat /\ Len(doc.text) \in Nat /\ p - 1 <= Len(doc.text) /\ doc.text \in Seq(Chars)
  BY XmlFacts DEF XmlInv, PlaceInv
<1>2. \A i \in from .. p - 1 : doc.text[i] \in Chars
  BY <1>1, ElementOfSeq
<1>3. from \in Int /\ p - 1 \in Int /\ p - 1 - from + 1 = p - from
  BY <1>1
<1> DEFINE t == SubSeq(doc.text, from, p - 1)
<1>4. t \in Seq(Chars) /\ Len(t) = IF from <= p - 1 THEN p - 1 - from + 1 ELSE 0
  BY ONLY <1>2, <1>3, SubSeqProperties
<1>5. from < p => Len(t) >= 1
  BY <1>1, <1>4
<1> HIDE DEF t
<1>6. from < p => t # << >>
  BY <1>4, <1>5, NotEmpty
<1> QED BY <1>4, <1>6 DEF Slice, t

\* The activation at work with its pointer moved on.
LEMMA XmlSame ==
    ASSUME XmlInv
    PROVE  /\ FrameOk(top, p, Chars) /\ FrameOk(top, p + 1, Chars)
           /\ top \in Frames(Chars) /\ top.start \in Nat /\ top.start <= p
           /\ top.nsubs + 1 \in Nat /\ top.attribs \in SUBSET (Seq(Chars) \X Seq(Chars))
           /\ top.aname \in Seq(Chars) /\ top.nbrackets \in Int
           /\ p \in Nat /\ p >= 1 /\ p + 1 \in Nat /\ p <= p /\ p <= p + 1
<1>1. FrameOk(top, p, Chars) /\ p \in Nat /\ p >= 1
  BY XmlFacts
<1>2. p + 1 \in Nat /\ p <= p + 1 /\ p <= p
  BY <1>1
<1>3. FrameOk(top, p + 1, Chars)
  BY ONLY <1>1, <1>2, Later
<1>4. /\ top.start \in Nat /\ top.nsubs \in Nat
      /\ top.attribs \in SUBSET (Seq(Chars) \X Seq(Chars))
      /\ top.aname \in Seq(Chars) /\ top.nbrackets \in Int
  <2> DEFINE A == SUBSET (Seq(Chars) \X Seq(Chars))
  <2>1. /\ top.start \in Nat /\ top.nsubs \in Nat /\ top.attribs \in A
        /\ top.aname \in Seq(Chars) /\ top.nbrackets \in Int
    BY <1>1 DEF FrameOk, Frames, Records
  <2> QED BY <2>1
<1>5. top \in Frames(Chars) /\ top.start <= p /\ top.nsubs + 1 \in Nat
  BY <1>1, <1>4 DEF FrameOk
<1> QED BY <1>1, <1>2, <1>3, <1>4, <1>5

\* The operators of XmlParser are those of the activation at work.
LEMMA Forms ==
    /\ \A st : To(st) = ToState(top, st)
    /\ \A st, n : From(st, n) = FromState(top, st, n)
    /\ \A nx : SkipTo(nx) = SkipToState(top, nx)
BY DEF To, From, SkipTo, ToState, FromState, SkipToState

LEMMA TopTo ==
    ASSUME XmlInv, NEW on \in Nat, p <= on, NEW st \in {"BEGIN", "WAIT_END", "CHILDS"},
           st = "CHILDS" => top.nodename # << >>
    PROVE  /\ FrameOk(To(st), on, Chars) /\ To(st).parentname = top.parentname
           /\ LET g == ToAnother(top, st, top.nsubs + 1)
              IN FrameOk(g, on, Chars) /\ g.parentname = top.parentname
<1> DEFINE f == top
           S == Chars
           k == top.nsubs + 1
<1>1. FrameOk(f, p, S) /\ GoesOn(p, on) /\ CanBe(f, st) /\ k \in Nat
  BY XmlSame DEF GoesOn, CanBe
<1> HIDE DEF f, S, k
<1>2. /\ FrameOk(ToState(f, st), on, S) /\ ToState(f, st).parentname = f.parentname
      /\ FrameOk(ToAnother(f, st, k), on, S) /\ ToAnother(f, st, k).parentname = f.parentname
  BY <1>1, OkTo
<1> QED BY <1>2, Forms DEF f, S, k

LEMMA TopFrom ==
    ASSUME XmlInv, NEW on \in Nat, p <= on,
           NEW st, NEW n, CanStart(top, st, n, on)
    PROVE  FrameOk(From(st, n), on, Chars) /\ From(st, n).parentname = top.parentname
<1> DEFINE f == top
           S == Chars
<1>1. FrameOk(f, p, S) /\ GoesOn(p, on) /\ CanStart(f, st, n, on)
  BY XmlSame DEF GoesOn, CanStart
<1> HIDE DEF f, S
<1>2. FrameOk(FromState(f, st, n), on, S) /\ FromState(f, st, n).parentname = f.parentname
  BY <1>1, OkFrom
<1> QED BY <1>2, Forms DEF f, S

LEMMA TopSkip ==
    ASSUME XmlInv, NEW on \in {p, p + 1}, NEW nx,
           CanSkip(top, nx)
    PROVE  /\ FrameOk(SkipTo(nx), on, Chars) /\ SkipTo(nx).parentname = top.parentname
           /\ LET g == SkipToAnother(top, nx, top.nsubs + 1)
              IN FrameOk(g, on, Chars) /\ g.parentname = top.parentname
           /\ \A name \in Seq(Chars) :
                /\ FrameOk(Attribute(top, nx, name), on, Chars)
                /\ Attribute(top, nx, name).parentname = top.parentname
           /\ \A a \in SUBSET (Seq(Chars) \X Seq(Chars)) :
                /\ FrameOk(Value(top, nx, a), on, Chars)
                /\ Value(top, nx, a).parentname = top.parentname
<1> DEFINE f == top
           S == Chars
           k == top.nsubs + 1
<1>1. FrameOk(f, p, S) /\ GoesOn(p, on) /\ CanSkip(f, nx) /\ k \in Nat
  BY XmlSame DEF GoesOn
<1> HIDE DEF f, S, k
<1>2. f \in Frames(S) /\ nx \in States
  BY <1>1 DEF FrameOk, CanSkip, States
<1>3. ASSUME NEW g \in Frames(S), Agrees(g, f, "IGNORE_SPACES", nx, f.start, f.nodename)
      PROVE  FrameOk(g, on, S) /\ g.parentname = f.parentname
  BY ONLY <1>1, <1>3, g \in Frames(S), OkSkip
<1>4. FrameOk(SkipToState(f, nx), on, S) /\ SkipToState(f, nx).parentname = f.parentname
  BY <1>2, <1>3, Edited
<1>5. /\ FrameOk(SkipToAnother(f, nx, k), on, S)
      /\ SkipToAnother(f, nx, k).parentname = f.parentname
  BY <1>1, <1>2, <1>3, Edited
<1>6. ASSUME NEW name \in Seq(S)
      PROVE  /\ FrameOk(Attribute(f, nx, name), on, S)
             /\ Attribute(f, nx, name).parentname = f.parentname
  BY <1>2, <1>3, Edited
<1>7. ASSUME NEW a \in SUBSET (Seq(S) \X Seq(S))
      PROVE  FrameOk(Value(f, nx, a), on, S) /\ Value(f, nx, a).parentname = f.parentname
  BY <1>2, <1>3, Edited
<1> QED BY <1>4, <1>5, <1>6, <1>7, Forms DEF f, S, k

LEMMA BreakSame == ASSUME XmlInv, c # NUL, Break(top, p) PROVE XmlInv'
BY XmlSame, XmlBreakHere

LEMMA XIgnoreSpaces == ASSUME XmlInv, IgnoreSpaces PROVE XmlInv'
<1>1. c # NUL /\ top.state = "IGNORE_SPACES"
  BY DEF IgnoreSpaces, In
<1>2. CASE Continue(To(top.next))
  <2> DEFINE f == top
             g == ToState(f, f.next)
  <2>1. f.next \in Resumed /\ f.next \in States /\ f.next # "IGNORE_SPACES" /\ f.next # "ATTRIB_VAL"
    BY XmlSame DEF FrameOk, Resumed, States
  <2>2. f \in Frames(Chars) /\ FrameOk(f, p, Chars) /\ f.state = "IGNORE_SPACES"
    BY <1>1, XmlSame
  <2> HIDE DEF f
  <2>3. g \in Frames(Chars) /\ Agrees(g, f, f.next, f.next, f.start, f.nodename)
    BY <2>1, <2>2, Edited
  <2> HIDE DEF g
  <2>4. FrameOk(g, p, Chars) /\ g.parentname = f.parentname
    BY <2>1, <2>2, <2>3 DEF FrameOk, Agrees, Heading
  <2>5. Continue(g) /\ FrameOk(g, p, Chars) /\ g.parentname = top.parentname
    BY <1>2, <2>4, Forms DEF f, g
  <2> QED BY <2>5, XmlContinue
<1> QED BY <1>1, <1>2, BreakSame DEF IgnoreSpaces

LEMMA XBegin == ASSUME XmlInv, Begin PROVE XmlInv'
<1>1. c # NUL
  BY DEF Begin, In
<1>2. CASE Break(SkipTo("BEGIN_NODE"), p)
  <2>1. CanSkip(top, "BEGIN_NODE")
    BY DEF CanSkip, Named
  <2> QED BY <1>1, <1>2, <2>1, TopSkip, XmlBreakHere
<1>3. CASE Continue(From("PCDATA", p))
  <2>1. FrameOk(From("PCDATA", p), p, Chars) /\ From("PCDATA", p).parentname = top.parentname
    BY XmlSame, TopFrom DEF CanStart, Named
  <2> QED BY <1>3, <2>1, XmlContinue
<1> QED BY <1>2, <1>3 DEF Begin

LEMMA XPcData == ASSUME XmlInv, PcData PROVE XmlInv'
<1>1. c # NUL
  BY DEF PcData, In
<1>2. CASE Break([SkipTo("BEGIN_NODE") EXCEPT !.nsubs = @ + 1], p)
  <2> DEFINE g == SkipToAnother(top, "BEGIN_NODE", top.nsubs + 1)
  <2>1. g = [SkipTo("BEGIN_NODE") EXCEPT !.nsubs = @ + 1]
    BY DEF SkipTo, SkipToAnother
  <2>2. FrameOk(g, p + 1, Chars) /\ g.parentname = top.parentname
    BY TopSkip DEF CanSkip, Named
  <2>3. Break(g, p)
    BY <1>2, <2>1
  <2> HIDE DEF g
  <2> QED BY <1>1, <2>2, <2>3, XmlBreakHere
<1> QED BY <1>1, <1>2, BreakSame DEF PcData

LEMMA Failed == ASSUME XmlInv, Fail PROVE XmlInv'
BY XmlUnchanged DEF Fail

\* What an activation may rely on in a state.
LEMMA TopHas ==
    ASSUME XmlInv
    PROVE  /\ top.state \in Named => top.nodename # << >>
           /\ top.state \in Closing => top.parentname # << >>
           /\ top.state \in Cutting => top.start >= 1
           /\ top.state = "ATTRIB_VAL" => top.start + 1 <= p
           /\ "IGNORE_SPACES" \notin Named \cup Closing \cup Cutting
<1>1. "IGNORE_SPACES" \notin Named \cup Closing \cup Cutting
  BY DEF Named, Closing, Cutting
<1>2. Heading(top) = IF top.state = "IGNORE_SPACES" THEN top.next ELSE top.state
  BY DEF Heading
<1>3. top.state = "ATTRIB_VAL" => top.start < p
  BY XmlSame DEF FrameOk
<1>4. top.state = "ATTRIB_VAL" => top.start + 1 <= p
  BY XmlSame, <1>3
<1> QED BY <1>1, <1>2, <1>4, XmlSame DEF FrameOk

\* A jump over characters that have been looked at.
LEMMA XmlJump ==
    ASSUME XmlInv, c # NUL, NEW k \in 1 .. 3,
           \A i \in 1 .. k : Char(p + i) \notin {NUL, Newline},
           NEW f, Break(f, p + k), FrameOk(f, p + k + 1, Chars), f.parentname = top.parentname
    PROVE  XmlInv'
<1>1. p \in Nat /\ p \in 1 .. Len(doc.text) /\ Len(doc.text) \in Nat /\ k \in Nat
  BY XmlFacts
<1>2. ASSUME NEW i \in p + 1 .. p + k
      PROVE  i <= Len(doc.text) /\ doc.text[i] # Newline
  <2>1. i - p \in 1 .. k /\ p + (i - p) = i
    BY <1>1
  <2>2. Char(i) \notin {NUL, Newline}
    BY <2>1
  <2> QED BY <2>2 DEF Char
<1>3. p + k \in p + 1 .. p + k
  BY <1>1
<1>4. p + k \in p .. Len(doc.text)
  BY <1>1, <1>2, <1>3
<1>5. p <= Len(doc.text)
  BY <1>1
<1> QED BY <1>2, <1>4, <1>5, XmlBreak

LEMMA Characters ==
    /\ NUL = "NUL" /\ Newline = "nl"
    /\ \A k \in 1 .. 1 : k = 1
    /\ \A k \in 1 .. 2 : k = 1 \/ k = 2
    /\ \A k \in 1 .. 3 : k = 1 \/ k = 2 \/ k = 3
BY DEF NUL, Newline

LEMMA XCData == ASSUME XmlInv, CData PROVE XmlInv'
<1>1. c # NUL
  BY DEF CData, In
<1>2. CASE /\ Char(p + 1) = "]" /\ Char(p + 2) = ">"
           /\ Break([To("BEGIN") EXCEPT !.nsubs = @ + 1], p + 2)
  <2> DEFINE g == ToAnother(top, "BEGIN", top.nsubs + 1)
  <2>1. g = [To("BEGIN") EXCEPT !.nsubs = @ + 1]
    BY DEF To, ToAnother
  <2>2. p + 2 + 1 \in Nat /\ p <= p + 2 + 1
    BY XmlSame
  <2>3. FrameOk(g, p + 2 + 1, Chars) /\ g.parentname = top.parentname
    BY <2>2, TopTo
  <2>4. Break(g, p + 2)
    BY <1>2, <2>1
  <2>5. \A i \in 1 .. 2 : Char(p + i) \notin {NUL, Newline}
    BY <1>2, Characters
  <2> HIDE DEF g
  <2> QED BY <1>1, <2>3, <2>4, <2>5, XmlJump
<1> QED BY <1>1, <1>2, BreakSame DEF CData

LEMMA XBeginBang == ASSUME XmlInv, BeginBang PROVE XmlInv'
<1>1. c # NUL /\ p \in Nat /\ p >= 1
  BY XmlSame DEF BeginBang, In
<1>2. CASE /\ Char(p + 1) = "[" /\ Char(p + 2) = "CDATA" /\ Char(p + 3) = "["
           /\ Break(From("CDATA", p + 4), p + 3)
  <2>1. \A i \in 1 .. 3 : Char(p + i) \notin {NUL, Newline}
    BY <1>2, Characters
  <2>2. p + 3 + 1 \in Nat /\ p <= p + 3 + 1 /\ CanStart(top, "CDATA", p + 4, p + 3 + 1)
    BY <1>1 DEF CanStart, Named
  <2>3. /\ FrameOk(From("CDATA", p + 4), p + 3 + 1, Chars)
        /\ From("CDATA", p + 4).parentname = top.parentname
    BY <2>2, TopFrom
  <2> QED BY <1>1, <1>2, <2>1, <2>3, XmlJump
<1>3. CASE Char(p + 1) = "DOCTYPE" /\ Break(From("DOCTYPE", p + 2), p + 1)
  <2>1. \A i \in 1 .. 1 : Char(p + i) \notin {NUL, Newline}
    BY <1>3, Characters
  <2>2. p + 1 + 1 \in Nat /\ p <= p + 1 + 1 /\ CanStart(top, "DOCTYPE", p + 2, p + 1 + 1)
    BY <1>1 DEF CanStart, Named
  <2>3. /\ FrameOk(From("DOCTYPE", p + 2), p + 1 + 1, Chars)
        /\ From("DOCTYPE", p + 2).parentname = top.parentname
    BY <2>2, TopFrom
  <2> QED BY <1>1, <1>3, <2>1, <2>3, XmlJump
<1>4. CASE /\ Char(p + 1) = "-" /\ Char(p + 2) = "-"
           /\ Break(From("COMMENT", p + 3), p + 2)
  <2>1. \A i \in 1 .. 2 : Char(p + i) \notin {NUL, Newline}
    BY <1>4, Characters
  <2>2. p + 2 + 1 \in Nat /\ p <= p + 2 + 1 /\ CanStart(top, "COMMENT", p + 3, p + 2 + 1)
    BY <1>1 DEF CanStart, Named
  <2>3. /\ FrameOk(From("COMMENT", p + 3), p + 2 + 1, Chars)
        /\ From("COMMENT", p + 3).parentname = top.parentname
    BY <2>2, TopFrom
  <2> QED BY <1>1, <1>4, <2>1, <2>3, XmlJump
<1> QED BY <1>2, <1>3, <1>4, Failed DEF BeginBang

LEMMA XBeginNode == ASSUME XmlInv, BeginNode PROVE XmlInv'
<1>1. c # NUL /\ p \in Nat /\ p >= 1
  BY XmlSame DEF BeginNode, In
<1>2. CASE Break(From("HEADER", p), p)
  <2>1. p + 1 \in Nat /\ p <= p + 1 /\ CanStart(top, "HEADER", p, p + 1)
    BY <1>1 DEF CanStart, Named
  <2> QED BY <1>1, <1>2, <2>1, TopFrom, XmlBreakHere
<1>3. CASE top.parentname # TopLevel /\ Break([SkipTo("CLOSE") EXCEPT !.start = p + 1], p)
  <2> DEFINE f == top
             g == SkipFrom(f, "CLOSE", p + 1)
  <2>1. g = [SkipTo("CLOSE") EXCEPT !.start = p + 1]
    BY DEF SkipTo, SkipFrom
  <2>2. f \in Frames(Chars) /\ f.parentname # << >> /\ "CLOSE" \in States /\ p + 1 \in Nat
    BY <1>1, <1>3, XmlSame DEF States, TopLevel
  <2> HIDE DEF f
  <2>3. g \in Frames(Chars) /\ Agrees(g, f, "IGNORE_SPACES", "CLOSE", p + 1, f.nodename)
    BY <2>2, Edited
  <2>4. Break(g, p)
    BY <1>3, <2>1
  <2> HIDE DEF g
  <2>5. p + 1 >= 1 /\ p + 1 <= p + 1
    BY <1>1
  <2>6. FrameOk(g, p + 1, Chars) /\ g.parentname = f.parentname
    BY <2>2, <2>3, <2>5 DEF FrameOk, Agrees, Heading, Resumed, Named
  <2> QED BY <1>1, <2>4, <2>6, XmlBreakHere DEF f
<1>4. CASE Continue(From("TAG_NAME", p))
  <2>1. p <= p /\ CanStart(top, "TAG_NAME", p, p)
    BY <1>1 DEF CanStart, Named
  <2> QED BY <1>1, <1>4, <2>1, TopFrom, XmlContinue
<1> QED BY <1>2, <1>3, <1>4, Failed DEF BeginNode

LEMMA XTagName == ASSUME XmlInv, TagName PROVE XmlInv'
<1>1. c # NUL /\ top.state = "TAG_NAME"
  BY DEF TagName, In
<1>2. CASE /\ p # top.start
           /\ Continue([SkipTo("BODY") EXCEPT !.nodename = Slice(top.start, p),
                                                  !.attribs = {}])
  <2> DEFINE f == top
             name == Slice(f.start, p)
             g == Element(f, "BODY", name, {})
  <2>1. g = [SkipTo("BODY") EXCEPT !.nodename = Slice(top.start, p), !.attribs = {}]
    BY DEF SkipTo, Element
  <2>2. f.start >= 1 /\ f.start \in Nat /\ f.start <= p /\ f.start < p
    BY <1>1, <1>2, XmlSame, TopHas DEF Cutting
  <2>3. name \in Seq(Chars) /\ name # << >>
    BY <2>2, Sliced
  <2>4. /\ f \in Frames(Chars) /\ FrameOk(f, p, Chars) /\ "BODY" \in States
        /\ {} \in SUBSET (Seq(Chars) \X Seq(Chars))
    BY XmlSame DEF States
  <2>5. Continue(g)
    BY <1>2, <2>1
  <2> HIDE DEF f, name
  <2>6. g \in Frames(Chars) /\ Agrees(g, f, "IGNORE_SPACES", "BODY", f.start, name)
    BY <2>3, <2>4, Edited
  <2> HIDE DEF g
  <2>7. FrameOk(g, p, Chars) /\ g.parentname = f.parentname
    BY <2>2, <2>3, <2>4, <2>6 DEF FrameOk, Agrees, Heading, Resumed, Closing, Cutting
  <2> QED BY <2>5, <2>7, XmlContinue DEF f
<1> QED BY <1>1, <1>2, BreakSame, Failed DEF TagName

LEMMA XBody == ASSUME XmlInv, NodeBody PROVE XmlInv'
<1>1. c # NUL /\ top.state = "BODY" /\ p \in Nat /\ p >= 1
  BY XmlSame DEF NodeBody, In
<1>2. top.nodename # << >>
  BY <1>1, TopHas DEF Named
<1>3. ASSUME NEW st \in {"WAIT_END", "CHILDS"},
             Break([top EXCEPT !.state = st, !.nsubs = @ + 1], p)
      PROVE  XmlInv'
  <2> DEFINE g == ToAnother(top, st, top.nsubs + 1)
  <2>1. g = [top EXCEPT !.state = st, !.nsubs = @ + 1]
    BY DEF ToAnother
  <2>2. p + 1 \in Nat /\ p <= p + 1 /\ st \in {"BEGIN", "WAIT_END", "CHILDS"}
    BY <1>1
  <2>3. FrameOk(g, p + 1, Chars) /\ g.parentname = top.parentname
    BY <1>2, <2>2, TopTo
  <2>4. Break(g, p)
    BY <1>3, <2>1
  <2> HIDE DEF g
  <2> QED BY <1>1, <2>3, <2>4, XmlBreakHere
<1>4. CASE Break([top EXCEPT !.state = IF c = "/" THEN "WAIT_END" ELSE "CHILDS",
                                 !.nsubs = @ + 1], p)
  <2>1. PICK st \in {"WAIT_END", "CHILDS"} : st = IF c = "/" THEN "WAIT_END" ELSE "CHILDS"
    OBVIOUS
  <2>2. Break([top EXCEPT !.state = st, !.nsubs = @ + 1], p)
    BY <1>4, <2>1
  <2> QED BY <1>3, <2>2
<1>5. CASE Continue(From("ATTRIB_NAME", p))
  <2>1. p <= p /\ CanStart(top, "ATTRIB_NAME", p, p)
    BY <1>1, <1>2 DEF CanStart
  <2> QED BY <1>1, <1>5, <2>1, TopFrom, XmlContinue
<1> QED BY <1>4, <1>5 DEF NodeBody

LEMMA XAttribName == ASSUME XmlInv, AttribName PROVE XmlInv'
<1>1. c # NUL /\ top.state = "ATTRIB_NAME"
  BY DEF AttribName, In
<1>2. CASE Continue([SkipTo("EQUALS") EXCEPT !.aname = Slice(top.start, p)])
  <2> DEFINE name == Slice(top.start, p)
             g == Attribute(top, "EQUALS", name)
  <2>1. g = [SkipTo("EQUALS") EXCEPT !.aname = Slice(top.start, p)]
    BY DEF SkipTo, Attribute
  <2>2. name \in Seq(Chars)
    BY <1>1, XmlSame, TopHas, Sliced DEF Cutting
  <2>3. CanSkip(top, "EQUALS")
    BY <1>1, TopHas DEF CanSkip, Named
  <2>4. Continue(g)
    BY <1>2, <2>1
  <2> HIDE DEF name
  <2>5. FrameOk(g, p, Chars) /\ g.parentname = top.parentname
    BY <2>2, <2>3, TopSkip
  <2> HIDE DEF g
  <2> QED BY <2>4, <2>5, XmlContinue
<1> QED BY <1>1, <1>2, BreakSame, Failed DEF AttribName

LEMMA XEquals == ASSUME XmlInv, Equals PROVE XmlInv'
<1>1. c # NUL /\ top.state = "EQUALS"
  BY DEF Equals, In
<1>2. CASE Break(SkipTo("ATTVAL_BEGIN"), p)
  <2>1. CanSkip(top, "ATTVAL_BEGIN")
    BY <1>1, TopHas DEF CanSkip, Named
  <2> QED BY <1>1, <1>2, <2>1, TopSkip, XmlBreakHere
<1> QED BY <1>2, Failed DEF Equals

LEMMA XAttvalBegin == ASSUME XmlInv, AttvalBegin PROVE XmlInv'
<1>1. c # NUL /\ top.state = "ATTVAL_BEGIN" /\ p \in Nat /\ p >= 1
  BY XmlSame DEF AttvalBegin, In
<1>2. CASE Break(From("ATTRIB_VAL", p), p)
  <2>1. p + 1 \in Nat /\ p <= p + 1 /\ CanStart(top, "ATTRIB_VAL", p, p + 1)
    BY <1>1, TopHas DEF CanStart, Named
  <2> QED BY <1>1, <1>2, <2>1, TopFrom, XmlBreakHere
<1> QED BY <1>2, Failed DEF AttvalBegin

LEMMA XAttribVal == ASSUME XmlInv, AttribVal PROVE XmlInv'
<1>1. c # NUL /\ top.state = "ATTRIB_VAL"
  BY DEF AttribVal, In
<1>2. CASE Break([SkipTo("BODY") EXCEPT
                      !.attribs = @ \cup {<<top.aname, Slice(top.start + 1, p)>>}], p)
  <2> DEFINE value == Slice(top.start + 1, p)
             a == top.attribs \cup {<<top.aname, value>>}
             g == Value(top, "BODY", a)
  <2>1. g = [SkipTo("BODY") EXCEPT
               !.attribs = @ \cup {<<top.aname, Slice(top.start + 1, p)>>}]
    BY DEF SkipTo, Value
  <2>2. top.start + 1 \in Nat /\ top.start + 1 >= 1 /\ top.start + 1 <= p
    BY <1>1, XmlSame, TopHas
  <2>3. value \in Seq(Chars)
    BY <2>2, Sliced
  <2> HIDE DEF value
  <2>4. a \in SUBSET (Seq(Chars) \X Seq(Chars))
    BY <2>3, XmlSame
  <2>5. CanSkip(top, "BODY")
    BY <1>1, TopHas DEF CanSkip, Named
  <2>6. Break(g, p)
    BY <1>2, <2>1 DEF value
  <2> HIDE DEF a
  <2>7. FrameOk(g, p + 1, Chars) /\ g.parentname = top.parentname
    BY <2>4, <2>5, TopSkip
  <2> HIDE DEF g
  <2> QED BY <1>1, <2>6, <2>7, XmlBreakHere
<1> QED BY <1>1, <1>2, BreakSame DEF AttribVal

LEMMA XChilds == ASSUME XmlInv, Childs PROVE XmlInv'
<1>1. /\ top.state = "CHILDS" /\ doc' = doc /\ p' = p /\ line' = line
      /\ activations' = <<Frame(top.nodename)>> \o activations
  BY DEF Childs, In
<1>2. Chars' = Chars
  BY <1>1 DEF Chars
<1> DEFINE S == Chars
           s == activations
<1>3. StackOk(s, p, S) /\ Head(s).state = "CHILDS" /\ p \in Nat
  BY <1>1, XmlSame DEF XmlInv, top
<1>4. activations' = <<Frame(Head(s).nodename)>> \o s
  BY <1>1 DEF top
<1> HIDE DEF S, s
<1>5. StackOk(<<Frame(Head(s).nodename)>> \o s, p, S)
  BY ONLY <1>3, StackCall
<1>6. StackOk(activations', p', Chars')
  BY <1>1, <1>2, <1>4, <1>5 DEF S
<1>7. PlaceInv'
  BY <1>1, <1>2 DEF XmlInv, PlaceInv
<1> QED BY <1>6, <1>7 DEF XmlInv

LEMMA XWaitEnd == ASSUME XmlInv, WaitEnd PROVE XmlInv'
<1>1. c # NUL
  BY DEF WaitEnd, In
<1>2. CASE Break(To("BEGIN"), p)
  <2>1. p + 1 \in Nat /\ p <= p + 1
    BY XmlSame
  <2>2. FrameOk(To("BEGIN"), p + 1, Chars) /\ To("BEGIN").parentname = top.parentname
    BY <2>1, TopTo
  <2> QED BY <1>1, <1>2, <2>2, XmlBreakHere
<1> QED BY <1>2, Failed DEF WaitEnd

LEMMA XWaitEndRet == ASSUME XmlInv, WaitEndRet PROVE XmlInv'
<1>1. c # NUL /\ top.state = "WAIT_END_RET" /\ p \in Nat /\ p >= 1
  BY XmlSame DEF WaitEndRet, In
<1>2. top.parentname # << >>
  BY <1>1, TopHas DEF Closing
<1>3. CASE /\ activations' = <<[activations[2] EXCEPT !.state = "BEGIN", !.start = p]>>
                             \o Tail(Tail(activations))
           /\ p' = p + 1 /\ doc' = doc
           /\ line' = IF Char(p + 1) = Newline THEN line + 1 ELSE line
  <2> DEFINE S == Chars
             s == activations
  <2>1. StackOk(s, p, S) /\ Head(s).parentname # << >> /\ p \in Nat
    BY <1>1, <1>2 DEF XmlInv, top
  <2>2. p \in p .. Len(doc.text) /\ p <= Len(doc.text) /\ \A i \in p + 1 .. p : FALSE
    BY <1>1, XmlFacts
  <2>3. PlaceInv' /\ Chars' = Chars
    BY <1>3, <2>2, PlaceNext
  <2> HIDE DEF S, s
  <2>4. StackOk(<<[s[2] EXCEPT !.state = "BEGIN", !.start = p]>> \o Tail(Tail(s)), p + 1, S)
    BY ONLY <2>1, StackReturn
  <2> QED BY <1>3, <2>3, <2>4 DEF XmlInv, S, s
<1> QED BY <1>3, Failed DEF WaitEndRet

LEMMA XClose == ASSUME XmlInv, Close PROVE XmlInv'
<1>1. c # NUL /\ top.state = "CLOSE"
  BY DEF Close, In
<1>2. CASE Continue(SkipTo("WAIT_END_RET"))
  <2>1. CanSkip(top, "WAIT_END_RET")
    BY <1>1, TopHas DEF CanSkip, Closing, Named
  <2> QED BY <1>2, <2>1, TopSkip, XmlContinue
<1> QED BY <1>1, <1>2, BreakSame, Failed DEF Close

LEMMA XComment == ASSUME XmlInv, Comment PROVE XmlInv'
<1>1. c # NUL
  BY DEF Comment, In
<1>2. CASE Char(p + 1) = "-" /\ Char(p + 2) = ">" /\ Break(To("BEGIN"), p + 2)
  <2>1. p + 2 + 1 \in Nat /\ p <= p + 2 + 1
    BY XmlSame
  <2>2. FrameOk(To("BEGIN"), p + 2 + 1, Chars) /\ To("BEGIN").parentname = top.parentname
    BY <2>1, TopTo
  <2>3. \A i \in 1 .. 2 : Char(p + i) \notin {NUL, Newline}
    BY <1>2, Characters
  <2> QED BY <1>1, <1>2, <2>2, <2>3, XmlJump
<1> QED BY <1>1, <1>2, BreakSame DEF Comment

LEMMA XDoctype == ASSUME XmlInv, Doctype PROVE XmlInv'
<1>1. c # NUL
  BY DEF Doctype, In
<1>2. CASE Break(To("BEGIN"), p)
  <2>1. p + 1 \in Nat /\ p <= p + 1
    BY XmlSame
  <2>2. FrameOk(To("BEGIN"), p + 1, Chars) /\ To("BEGIN").parentname = top.parentname
    BY <2>1, TopTo
  <2> QED BY <1>1, <1>2, <2>2, XmlBreakHere
<1>3. ASSUME NEW d \in {-1, 0, 1}, Break([top EXCEPT !.nbrackets = @ + d], p)
      PROVE  XmlInv'
  <2> DEFINE f == top
             b == top.nbrackets + d
             g == Nested(f, b)
  <2>1. b \in Int
    BY XmlSame
  <2>2. f \in Frames(Chars) /\ FrameOk(f, p + 1, Chars)
    BY XmlSame
  <2>3. f.state = "ATTRIB_VAL" => f.start < p + 1
    BY <2>2 DEF FrameOk
  <2>4. Break(g, p)
    BY <1>3 DEF Nested
  <2> HIDE DEF f, b
  <2>5. g \in Frames(Chars) /\ Agrees(g, f, f.state, f.next, f.start, f.nodename)
    BY <2>1, <2>2, Edited
  <2> HIDE DEF g
  <2>6. FrameOk(g, p + 1, Chars) /\ g.parentname = f.parentname
    BY <2>2, <2>3, <2>5 DEF FrameOk, Agrees, Heading
  <2> QED BY <1>1, <2>4, <2>6, XmlBreakHere DEF f
<1>4. CASE LET delta == CASE c = "[" -> 1 [] c = "]" -> -1 [] OTHER -> 0
           IN Break([top EXCEPT !.nbrackets = @ + delta], p)
  <2>1. PICK d \in {-1, 0, 1} : d = CASE c = "[" -> 1 [] c = "]" -> -1 [] OTHER -> 0
    OBVIOUS
  <2>2. Break([top EXCEPT !.nbrackets = @ + d], p)
    BY <1>4, <2>1
  <2> QED BY <1>3, <2>2
<1> QED BY <1>2, <1>4 DEF Doctype

LEMMA XHeader == ASSUME XmlInv, Header PROVE XmlInv'
<1>1. c # NUL
  BY DEF Header, In
<1>2. CASE Char(p + 1) = ">" /\ Break(To("BEGIN"), p + 1)
  <2>1. p + 1 + 1 \in Nat /\ p <= p + 1 + 1
    BY XmlSame
  <2>2. FrameOk(To("BEGIN"), p + 1 + 1, Chars) /\ To("BEGIN").parentname = top.parentname
    BY <2>1, TopTo
  <2>3. \A i \in 1 .. 1 : Char(p + i) \notin {NUL, Newline}
    BY <1>2, Characters
  <2> QED BY <1>1, <1>2, <2>2, <2>3, XmlJump
<1> QED BY <1>1, <1>2, BreakSame DEF Header

LEMMA XEndOfText == ASSUME XmlInv, EndOfText PROVE XmlInv'
<1>1. CASE UNCHANGED <<doc, p, line, activations>>
  BY <1>1, XmlUnchanged
<1> QED BY <1>1, Failed DEF EndOfText

LEMMA XmlInvInit == XmlInit => XmlInv
<1> SUFFICES ASSUME XmlInit PROVE XmlInv
  OBVIOUS
<1>1. /\ doc \in Documents /\ p = 1 /\ line = 0 /\ activations = <<Frame(<< >>)>>
      /\ doc.text \in Seq(Chars)
  BY DocumentsAssumption DEF XmlInit, TopLevel, Chars
<1>2. Breaks(doc.text, 1) = {}
  BY DEF Breaks
<1>3. PlaceInv
  <2>1. Len(doc.text) \in Nat
    BY <1>1
  <2>2. 1 \in 1 .. Len(doc.text) + 1
    BY <2>1
  <2> QED BY <1>1, <1>2, <2>2, FS_EmptySet DEF PlaceInv
<1>4. FrameOk(Frame(<< >>), 1, Chars) /\ Frame(<< >>).parentname = << >>
  <2> DEFINE T == Seq(Chars)
             A == SUBSET (Seq(Chars) \X Seq(Chars))
             Q == States
             f == Frame(<< >>)
  <2>1. << >> \in T /\ {} \in A /\ "BEGIN" \in Q
    BY DEF States
  <2> HIDE DEF T, A, Q
  <2>2. f \in Records(Q, Nat, Int, T, A)
    BY <2>1 DEF Frame, Records
  <2>3. f.state = "BEGIN" /\ f.next = "BEGIN" /\ f.start = 0 /\ f.parentname = << >>
    BY DEF Frame
  <2>4. f \in Frames(Chars)
    BY <2>2 DEF Frames, T, A, Q
  <2> HIDE DEF f
  <2>5. FrameOk(f, 1, Chars)
    BY <2>3, <2>4 DEF FrameOk, Heading, Named, Closing, Cutting, Resumed
  <2> QED BY <2>3, <2>5 DEF f
<1>5. StackOk(activations, p, Chars)
  <2> DEFINE f == Frame(<< >>)
             s == <<f>>
  <2>1. FrameOk(f, 1, Chars) /\ f.parentname = << >> /\ f \in Frames(Chars)
    BY <1>4 DEF FrameOk
  <2> HIDE DEF f
  <2>2. s \in Seq(Frames(Chars)) /\ s # << >> /\ Len(s) = 1 /\ s[1] = f
    BY <2>1
  <2>3. activations = s /\ p = 1
    BY <1>1 DEF f
  <2> HIDE DEF s
  <2>4. (\A i \in 1 .. 1 : i = 1) /\ (\A i \in 1 .. 1 - 1 : FALSE)
    OBVIOUS
  <2> QED BY <2>1, <2>2, <2>3, <2>4 DEF StackOk
<1> QED BY <1>3, <1>5 DEF XmlInv

LEMMA XmlStep == XmlInv /\ [XmlNext]_(xmlVars) => XmlInv'
<1> SUFFICES ASSUME XmlInv, [XmlNext]_(xmlVars) PROVE XmlInv'
  OBVIOUS
<1>1. CASE UNCHANGED xmlVars
  BY <1>1, XmlUnchanged DEF xmlVars
<1>2. CASE XmlNext
  BY <1>2, XIgnoreSpaces, XBegin, XPcData, XCData, XBeginBang, XBeginNode, XTagName, XBody,
     XAttribName, XEquals, XAttvalBegin, XAttribVal, XChilds, XWaitEnd, XWaitEndRet, XClose,
     XComment, XDoctype, XHeader, XEndOfText DEF XmlNext
<1> QED BY <1>1, <1>2

LEMMA XmlCorrect ==
    ASSUME XmlInv
    PROVE  PlaceIsKept /\ SlicesAreOfTheText /\ CallersWait
<1>1. PlaceIsKept
  <2>1. p \in Nat /\ Len(doc.text) \in Nat /\ p <= Len(doc.text) + 1
    BY XmlFacts DEF XmlInv, PlaceInv
  <2>2. \A i : Char(i) = Newline <=> i <= Len(doc.text) /\ doc.text[i] = Newline
    BY DEF Char, NUL, Newline
  <2> DEFINE D == {i \in 2 .. p : Char(i) = Newline}
  <2>3. D = Breaks(doc.text, p)
    BY <2>2 DEF Breaks
  <2>4. PlaceIsKept <=> p <= Len(doc.text) + 1 /\ line = Cardinality(D)
    BY DEF PlaceIsKept
  <2> HIDE DEF D
  <2>5. line = Cardinality(D)
    BY <2>3 DEF XmlInv, PlaceInv
  <2> QED BY <2>1, <2>4, <2>5
<1>2. SlicesAreOfTheText
  <2>1. top.state \in Cutting => top.start \in 1 .. p
    BY TopHas, XmlSame
  <2> QED BY <2>1, TopHas DEF SlicesAreOfTheText
<1>3. CallersWait
  BY DEF XmlInv, StackOk, Called, CallersWait, TopLevel
<1> QED BY <1>1, <1>2, <1>3

\* The parser never passes the end of the text, and the line it would name in an error
\* message counts every line break from the second character up to where it is, once
\* (one that is the first character is never counted).
THEOREM XmlPlaceIsKept == XmlSpec => []PlaceIsKept
<1>1. XmlInv => PlaceIsKept
  BY XmlCorrect
<1>2. XmlInit => XmlInv
  BY XmlInvInit
<1> QED BY <1>1, <1>2, XmlStep, PTL DEF XmlSpec

\* Every name, value and text the parser cuts out of the document lies in it.
THEOREM XmlSlicesAreOfTheText == XmlSpec => []SlicesAreOfTheText
<1>1. XmlInv => SlicesAreOfTheText
  BY XmlCorrect
<1>2. XmlInit => XmlInv
  BY XmlInvInit
<1> QED BY <1>1, <1>2, XmlStep, PTL DEF XmlSpec

\* An end tag always has a caller to return to: the activation that waits with the
\* element whose contents have been read.
THEOREM XmlCallersWait == XmlSpec => []CallersWait
<1>1. XmlInv => CallersWait
  BY XmlCorrect
<1>2. XmlInit => XmlInv
  BY XmlInvInit
<1> QED BY <1>1, <1>2, XmlStep, PTL DEF XmlSpec
=============================================================================
