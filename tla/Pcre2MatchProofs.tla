-------------------------- MODULE Pcre2MatchProofs --------------------------
(***************************************************************************)
(* Proofs about Pcre2Match, for any regular expressions, groups and depth: *)
(* what matches allocate is freed, callouts reach their own match, results *)
(* are the match's own, and what a match uses after a callout is valid.    *)
(***************************************************************************)
EXTENDS Pcre2Match, SequenceTheorems, TLAPS

(* A match with a callout has a context of its own, the copy of its depth, *)
(* whose callback is set to it; the contexts shared through a regular      *)
(* expression never get one.                                               *)
ContextsOwn ==
  /\ \A i \in 1 .. Depth :
       frames[i].context = IF frames[i].cof THEN Copy(i) ELSE Shared(frames[i].rex)
  /\ \A i \in 1 .. Depth : frames[i].cof => callback[Copy(i)] = i
  /\ \A r \in Rexs : callback[Shared(r)] = NoOne

(* Neither what OCaml code refers to nor what a match refers to was        *)
(* finalised, and only a match with a callout can have had values moved.   *)
CodeKept ==
  /\ refs \cap freed = {}
  /\ \A i \in 1 .. Depth : frames[i].rex \notin freed

ValuesMoved ==
  \A i \in 1 .. Depth :
    /\ frames[i].stale \cap Roots = {}
    /\ frames[i].stale # {} => frames[i].cof

(* Without callouts in pcre2_dfa_match no match has both.                  *)
NoDfaCallout ==
  DfaCallouts = FALSE => \A i \in 1 .. Depth : frames[i].cof => ~frames[i].dfa

(* What a match is called with does not change while it runs.              *)
SameMatch(f, g) ==
  f.rex = g.rex /\ f.cof = g.cof /\ f.dfa = g.dfa /\ f.start = g.start /\ f.context = g.context

-----------------------------------------------------------------------------
(* The four things that happen to the stack of matches.                    *)
LEMMA FrameTypes ==
  ASSUME NEW r \in Rexs, NEW cof \in BOOLEAN, NEW dfa \in BOOLEAN, NEW start \in Starts,
         NEW context \in Contexts
  PROVE  Frame(r, cof, dfa, start, context) \in FrameType
  BY Pcre2Assumption DEF Frame, FrameType, NoOne, Exceptions, Kept

LEMMA Depths ==
  ASSUME TypeOK
  PROVE  /\ Depth \in 0 .. MaxDepth /\ Depth \in Nat /\ MaxDepth \in Nat
         /\ \A i \in 1 .. Depth : frames[i] \in FrameType
         /\ Depth > 0 => Depth \in 1 .. Depth /\ Top \in FrameType
  BY Pcre2Assumption DEF TypeOK, Depth, Top

LEMMA Pushed ==
  ASSUME TypeOK, NEW frame \in FrameType, frames' = Append(frames, frame)
  PROVE  /\ frames' \in Seq(FrameType)
         /\ Depth' = Depth + 1
         /\ \A i \in 1 .. Depth : frames'[i] = frames[i]
         /\ frames'[Depth + 1] = frame
  BY DEF TypeOK, Depth

LEMMA PoppedFrames ==
  ASSUME TypeOK, Depth > 0, frames' = Popped
  PROVE  /\ frames' \in Seq(FrameType)
         /\ Depth' = Depth - 1
         /\ \A i \in 1 .. Depth - 1 : frames'[i] = frames[i]
  <1>1. /\ frames \in Seq(FrameType) /\ Len(frames) \in Nat
        /\ \A i \in 1 .. Len(frames) : frames[i] \in FrameType
    BY DEF TypeOK
  <1>2. frames' = SubSeq(frames, 1, Len(frames) - 1) /\ Len(frames) > 0
    BY DEF Popped, Depth
  <1>3. /\ SubSeq(frames, 1, Len(frames) - 1) \in Seq(FrameType)
        /\ Len(SubSeq(frames, 1, Len(frames) - 1)) =
             IF 1 <= Len(frames) - 1 THEN Len(frames) - 1 - 1 + 1 ELSE 0
        /\ \A i \in 1 .. Len(frames) - 1 - 1 + 1 :
             SubSeq(frames, 1, Len(frames) - 1)[i] = frames[1 + i - 1]
    <2>1. 1 \in Int /\ Len(frames) - 1 \in Int
      BY <1>1
    <2>2. \A i \in 1 .. Len(frames) - 1 : frames[i] \in FrameType
      BY <1>1
    <2> QED BY <2>1, <2>2, SubSeqProperties
  <1>4. Len(SubSeq(frames, 1, Len(frames) - 1)) = Len(frames) - 1
    <2>1. \A n \in Nat : n > 0 => (IF 1 <= n - 1 THEN n - 1 - 1 + 1 ELSE 0) = n - 1
      OBVIOUS
    <2>2. Len(frames) \in Nat /\ Len(frames) > 0
      BY <1>1, <1>2
    <2> QED BY <2>1, <2>2, <1>3
  <1>5. ASSUME NEW i \in 1 .. Len(frames) - 1
        PROVE  SubSeq(frames, 1, Len(frames) - 1)[i] = frames[i]
    <2>1. i \in 1 .. Len(frames) - 1 - 1 + 1 /\ 1 + i - 1 = i
      BY <1>1
    <2> QED BY <2>1, <1>3
  <1> QED BY <1>2, <1>3, <1>4, <1>5 DEF Depth

LEMMA SetFrames ==
  ASSUME TypeOK, Depth > 0, NEW frame \in FrameType, frames' = SetTop(frame)
  PROVE  /\ frames' \in Seq(FrameType)
         /\ Depth' = Depth
         /\ \A i \in 1 .. Depth : frames'[i] = IF i = Depth THEN frame ELSE frames[i]
  BY DEF TypeOK, Depth, SetTop

LEMMA MappedFrames ==
  ASSUME TypeOK, NEW F, frames' = [i \in 1 .. Depth |-> F[i]],
         \A i \in 1 .. Depth : F[i] \in FrameType
  PROVE  /\ frames' \in Seq(FrameType)
         /\ Depth' = Depth
         /\ \A i \in 1 .. Depth : frames'[i] = F[i]
  BY DEF TypeOK, Depth

(* Where OCaml code runs, all matches are in their callouts.               *)
LEMMA OcamlRunning ==
  ASSUME TypeOK, OcamlRuns
  PROVE  \A i \in 1 .. Depth : frames[i].pc = "callout"
  <1>1. Depth \in Nat
    BY Depths
  <1>2. \A i \in 1 .. Depth : i < Depth => frames[i].pc = "callout"
    BY DEF TypeOK
  <1>3. Depth > 0 => frames[Depth].pc = "callout"
    BY DEF OcamlRuns, Top
  <1> QED BY <1>1, <1>2, <1>3

LEMMA ContextTypes ==
  ASSUME TypeOK
  PROVE  /\ \A r \in Rexs : Shared(r) \in Contexts
         /\ \A d \in 1 .. MaxDepth : Copy(d) \in Contexts
         /\ \A r, d : Shared(r) # Copy(d)
         /\ \A d, e : Copy(d) = Copy(e) <=> d = e
  BY DEF Contexts, Shared, Copy

-----------------------------------------------------------------------------
(* Types.                                                                  *)
LEMMA TypeInit == Init => TypeOK
  BY Pcre2Assumption
  DEF Init, TypeOK, Depth, NoOne, Exceptions

LEMMA StartTypes ==
  ASSUME TypeOK, NEW r \in Rexs, NEW dfa \in BOOLEAN, NEW start \in Starts,
         StartPlain(r, dfa, start) \/ StartWithCallout(r, dfa, start)
  PROVE  TypeOK'
  <1>1. Depth + 1 \in 1 .. MaxDepth
    <2>1. Depth < MaxDepth
      BY DEF StartPlain, StartWithCallout, MayStart
    <2>2. Depth \in Nat /\ MaxDepth \in Nat
      BY Depths
    <2> QED BY <2>1, <2>2
  <1>2. PICK cof \in BOOLEAN, context \in Contexts :
          frames' = Append(frames, Frame(r, cof, dfa, start, context))
    BY <1>1, ContextTypes DEF StartPlain, StartWithCallout
  <1>3. /\ frames' \in Seq(FrameType) /\ Depth' = Depth + 1
        /\ \A i \in 1 .. Depth : frames'[i] = frames[i]
    BY <1>2, FrameTypes, Pushed
  <1>4. \A i \in 1 .. Depth : frames[i].pc = "callout"
    <2>1. OcamlRuns
      BY DEF StartPlain, StartWithCallout, MayStart
    <2> QED BY <2>1, OcamlRunning
  <1>5. callback' \in [Contexts -> 0 .. MaxDepth]
    <2>1. Depth + 1 \in 0 .. MaxDepth
      BY <1>1, Depths
    <2> QED BY <2>1 DEF TypeOK, StartPlain, StartWithCallout
  <1>6. \A i \in 1 .. Depth' : i < Depth' => frames'[i].pc = "callout"
    BY <1>3, <1>4, Depths
  <1>7. Depth' <= MaxDepth
    BY <1>1, <1>3, Depths
  <1>8. refs' \subseteq Rexs /\ freed' \subseteq Rexs /\ pending' \in Exceptions \cup {"none"}
    BY DEF TypeOK, StartPlain, StartWithCallout
  <1> QED BY <1>3, <1>5, <1>6, <1>7, <1>8 DEF TypeOK

LEMMA SameDepthTypes ==
  ASSUME TypeOK, frames' \in Seq(FrameType), Depth' = Depth,
         \A i \in 1 .. Depth : i < Depth => frames'[i].pc = "callout",
         refs' \subseteq Rexs, freed' \subseteq Rexs, pending' \in Exceptions \cup {"none"},
         UNCHANGED callback
  PROVE  TypeOK'
  BY DEF TypeOK

LEMMA PoppedTypes ==
  ASSUME TypeOK, Depth > 0, frames' = Popped, pending' \in Exceptions \cup {"none"},
         UNCHANGED <<refs, freed, callback>>
  PROVE  TypeOK'
  <1>1. /\ frames' \in Seq(FrameType) /\ Depth' = Depth - 1
        /\ \A i \in 1 .. Depth - 1 : frames'[i] = frames[i]
    BY PoppedFrames
  <1>2. Depth \in Nat /\ MaxDepth \in Nat /\ Depth <= MaxDepth
    BY Depths DEF TypeOK
  <1>3. Depth' <= MaxDepth
    BY <1>1, <1>2
  <1>4. \A i \in 1 .. Depth' : i < Depth' => frames'[i].pc = "callout"
    BY <1>1, <1>2 DEF TypeOK
  <1> QED BY <1>1, <1>3, <1>4 DEF TypeOK

LEMMA CollectedFrames ==
  ASSUME TypeOK, Collect
  PROVE  /\ frames' \in Seq(FrameType) /\ Depth' = Depth
         /\ \A i \in 1 .. Depth :
              frames'[i] = [frames[i] EXCEPT !.stale = @ \cup (Kept \ Roots)]
  <1> DEFINE F == [i \in 1 .. Depth |-> [frames[i] EXCEPT !.stale = @ \cup (Kept \ Roots)]]
  <1>1. \A i \in 1 .. Depth : F[i] \in FrameType
    BY Depths DEF FrameType
  <1>2. frames' = [i \in 1 .. Depth |-> F[i]]
    BY DEF Collect
  <1>3. \A i \in 1 .. Depth : F[i] = [frames[i] EXCEPT !.stale = @ \cup (Kept \ Roots)]
    OBVIOUS
  <1> HIDE DEF F
  <1> QED BY <1>1, <1>2, <1>3, MappedFrames

(* A callout writes the array of the match that owns it, and only this.    *)
LEMMA OvectorType ==
  ASSUME NEW start \in Starts, NEW caps \in Captures, NEW count \in Nat,
         NEW old \in [GroupNumbers -> Int]
  PROVE  copy_ovector(start, caps, count, old) \in [GroupNumbers -> Int]
  <1>1. \A g \in GroupNumbers : caps[g] \in Int
    <2>1. Unset \in Int
      BY DEF Unset
    <2>2. \A g \in GroupNumbers : caps[g] \in Offsets \cup {Unset}
      BY DEF Captures
    <2>3. Offsets \subseteq Int
      BY Pcre2Assumption
    <2> QED BY <2>1, <2>2, <2>3
  <1>2. start \in Int
    BY Pcre2Assumption
  <1>3. \A g \in GroupNumbers : caps[g] + start \in Int
    BY <1>1, <1>2
  <1> QED BY <1>3 DEF copy_ovector

LEMMA CalledFrames ==
  ASSUME TypeOK, Callout
  PROVE  /\ Depth > 0 /\ Top.pc = "matching" /\ callback[Top.context] # NoOne
         /\ frames' \in Seq(FrameType) /\ Depth' = Depth
         /\ \A i \in 1 .. Depth :
              /\ SameMatch(frames'[i], frames[i]) /\ frames'[i].stale = frames[i].stale
              /\ i = Depth => frames'[i].pc = "callout" /\ frames'[i].cod = callback[Top.context]
              /\ i # Depth => frames'[i].pc = frames[i].pc /\ frames'[i].cod = frames[i].cod
  <1> DEFINE owner == callback[Top.context]
             called == [Top EXCEPT !.pc = "callout", !.cod = owner]
             Mine(i) == IF i = Depth THEN called ELSE frames[i]
  <1>1. Depth > 0 /\ Top.pc = "matching" /\ owner # NoOne
    BY DEF Callout
  <1>2. PICK caps \in Captures, capture_top \in 1 .. Groups + 1 :
          frames' = [i \in 1 .. Depth |->
            IF i # owner THEN Mine(i)
            ELSE [Mine(i) EXCEPT !.ovec = copy_ovector(Mine(i).start, caps, capture_top, @)]]
    BY DEF Callout
  <1> DEFINE F == [i \in 1 .. Depth |->
            IF i # owner THEN Mine(i)
            ELSE [Mine(i) EXCEPT !.ovec = copy_ovector(Mine(i).start, caps, capture_top, @)]]
  <1>3. owner \in 0 .. MaxDepth
    BY <1>1, Depths DEF TypeOK, FrameType
  <1>4. called \in FrameType
    BY <1>1, <1>3, Depths DEF FrameType
  <1>5. \A i \in 1 .. Depth : Mine(i) \in FrameType
    BY <1>4, Depths
  <1>6. capture_top \in Nat
    BY Pcre2Assumption
  <1>7. ASSUME NEW i \in 1 .. Depth
        PROVE  /\ F[i] \in FrameType
               /\ SameMatch(F[i], Mine(i)) /\ F[i].stale = Mine(i).stale
               /\ F[i].pc = Mine(i).pc /\ F[i].cod = Mine(i).cod
    <2>1. CASE i # owner
      <3>1. F[i] = Mine(i)
        BY <2>1
      <3> QED BY <3>1, <1>5 DEF SameMatch
    <2>2. CASE i = owner
      <3> DEFINE mine == Mine(i)
                 new == copy_ovector(mine.start, caps, capture_top, mine.ovec)
      <3>1. F[i] = [mine EXCEPT !.ovec = new]
        BY <2>2
      <3>2. mine \in FrameType
        BY <1>5
      <3> HIDE DEF F, mine
      <3>3. mine.start \in Starts /\ mine.ovec \in [GroupNumbers -> Int]
        BY <3>2 DEF FrameType
      <3>4. new \in [GroupNumbers -> Int]
        BY <3>3, <1>6, OvectorType
      <3> HIDE DEF new
      <3>5. F[i] \in FrameType /\ SameMatch(F[i], mine) /\ F[i].stale = mine.stale
            /\ F[i].pc = mine.pc /\ F[i].cod = mine.cod
        BY <3>1, <3>2, <3>4 DEF FrameType, SameMatch
      <3> QED BY <3>5 DEF mine
    <2> QED BY <2>1, <2>2
  <1>8. frames' = [i \in 1 .. Depth |-> F[i]]
    BY <1>2
  <1>9. ASSUME NEW i \in 1 .. Depth
        PROVE  /\ SameMatch(Mine(i), frames[i]) /\ Mine(i).stale = frames[i].stale
               /\ i = Depth => Mine(i).pc = "callout" /\ Mine(i).cod = owner
               /\ i # Depth => Mine(i).pc = frames[i].pc /\ Mine(i).cod = frames[i].cod
    <2>1. frames[i] \in FrameType /\ Top \in FrameType
      BY <1>1, Depths
    <2> QED BY <2>1 DEF SameMatch, Top, FrameType
  <1> HIDE DEF F, Mine
  <1>10. /\ frames' \in Seq(FrameType) /\ Depth' = Depth
         /\ \A i \in 1 .. Depth : frames'[i] = F[i]
    BY <1>7, <1>8, MappedFrames
  <1> QED BY <1>1, <1>7, <1>9, <1>10 DEF SameMatch

LEMMA RaisedFrame ==
  ASSUME TypeOK, NEW exn \in Exceptions, CalloutRaises(exn)
  PROVE  \E pc \in {"matching", "failing"} :
           frames' = SetTop([Top EXCEPT !.pc = pc, !.exn = exn])
  <1> DEFINE pc == IF FirstField(exn) = RegisteredBacktrack THEN "matching" ELSE "failing"
  <1>1. frames' = SetTop([Top EXCEPT !.pc = pc, !.exn = exn])
    BY DEF CalloutRaises
  <1>2. pc \in {"matching", "failing"}
    OBVIOUS
  <1> HIDE DEF pc
  <1> QED BY <1>1, <1>2

LEMMA ResumedFrames ==
  ASSUME TypeOK, CalloutReturns \/ \E exn \in Exceptions : CalloutRaises(exn)
  PROVE  /\ Depth > 0 /\ OcamlRuns
         /\ frames' \in Seq(FrameType) /\ Depth' = Depth
         /\ \A i \in 1 .. Depth :
              /\ SameMatch(frames'[i], frames[i]) /\ frames'[i].stale = frames[i].stale
              /\ i = Depth => frames'[i].pc \in {"matching", "failing"}
              /\ i # Depth => frames'[i] = frames[i]
  <1>1. Depth > 0 /\ OcamlRuns
    BY DEF CalloutReturns, CalloutRaises
  <1>2. Top \in FrameType
    BY <1>1, Depths
  <1> DEFINE Resumed(frame) ==
               /\ frames' = SetTop(frame)
               /\ SameMatch(frame, Top) /\ frame.stale = Top.stale
               /\ frame.pc \in {"matching", "failing"}
  <1>3. \E frame \in FrameType : Resumed(frame)
    <2>1. CASE CalloutReturns
      <3> DEFINE frame == [Top EXCEPT !.pc = "matching", !.cod = NoOne]
      <3>1. frames' = SetTop(frame)
        BY <2>1 DEF CalloutReturns
      <3>2. NoOne \in 0 .. MaxDepth
        BY Pcre2Assumption DEF NoOne
      <3>3. frame \in FrameType /\ SameMatch(frame, Top) /\ frame.stale = Top.stale
            /\ frame.pc = "matching"
        BY <1>2, <3>2 DEF FrameType, SameMatch
      <3> HIDE DEF frame
      <3> QED BY <3>1, <3>3
    <2>2. ASSUME NEW exn \in Exceptions, CalloutRaises(exn) PROVE \E frame \in FrameType : Resumed(frame)
      <3>1. PICK pc \in {"matching", "failing"} :
              frames' = SetTop([Top EXCEPT !.pc = pc, !.exn = exn])
        BY <2>2, RaisedFrame
      <3> DEFINE frame == [Top EXCEPT !.pc = pc, !.exn = exn]
      <3>2. frame \in FrameType /\ SameMatch(frame, Top) /\ frame.stale = Top.stale
            /\ frame.pc = pc
        BY <1>2 DEF FrameType, SameMatch
      <3>3. frames' = SetTop(frame)
        BY <3>1
      <3> HIDE DEF frame
      <3> QED BY <3>2, <3>3
    <2> QED BY <2>1, <2>2
  <1>4. PICK frame \in FrameType :
          /\ frames' = SetTop(frame)
          /\ SameMatch(frame, Top) /\ frame.stale = Top.stale
          /\ frame.pc \in {"matching", "failing"}
    BY <1>3
  <1>5. /\ frames' \in Seq(FrameType) /\ Depth' = Depth
        /\ \A i \in 1 .. Depth : frames'[i] = IF i = Depth THEN frame ELSE frames[i]
    BY <1>1, <1>4, SetFrames
  <1>6. SameMatch(frame, frames[Depth]) /\ frame.stale = frames[Depth].stale
    BY <1>4 DEF Top
  <1> QED BY <1>1, <1>4, <1>5, <1>6 DEF SameMatch

(* The steps of a match: it starts, ends, or stays on the stack.           *)
Stays ==
  \/ UNCHANGED vars \/ Catch \/ \E r \in Rexs : Forget(r)
  \/ Collect \/ Callout \/ CalloutReturns \/ \E exn \in Exceptions : CalloutRaises(exn)

Ends == MatchSucceeds \/ MatchFails

LEMMA StepKinds ==
  ASSUME [Next]_vars
  PROVE  \/ Stays \/ Ends
         \/ \E r \in Rexs, dfa \in BOOLEAN, start \in Starts :
              StartPlain(r, dfa, start) \/ StartWithCallout(r, dfa, start)
  BY DEF Next, Stays, Ends

LEMMA StayingFrames ==
  ASSUME TypeOK, Stays
  PROVE  /\ frames' \in Seq(FrameType) /\ Depth' = Depth /\ UNCHANGED <<mem, callback>>
         /\ \A i \in 1 .. Depth : SameMatch(frames'[i], frames[i])
  <1>1. CASE UNCHANGED frames
    <2>1. UNCHANGED <<mem, callback>>
      BY DEF Stays, vars, Catch, Forget, Collect, Callout, CalloutReturns, CalloutRaises
    <2> QED BY <1>1, <2>1 DEF TypeOK, Depth, SameMatch
  <1>2. CASE Collect
    <2>1. /\ frames' \in Seq(FrameType) /\ Depth' = Depth
          /\ \A i \in 1 .. Depth :
               frames'[i] = [frames[i] EXCEPT !.stale = @ \cup (Kept \ Roots)]
      BY <1>2, CollectedFrames
    <2>2. \A i \in 1 .. Depth : SameMatch(frames'[i], frames[i])
      BY <2>1, Depths DEF SameMatch, FrameType
    <2> QED BY <1>2, <2>1, <2>2 DEF Collect
  <1>3. CASE Callout
    BY <1>3, CalledFrames DEF Callout
  <1>4. CASE CalloutReturns \/ \E exn \in Exceptions : CalloutRaises(exn)
    <2>1. UNCHANGED <<mem, callback>>
      BY <1>4 DEF CalloutReturns, CalloutRaises
    <2> QED BY <1>4, <2>1, ResumedFrames
  <1> QED BY <1>1, <1>2, <1>3, <1>4 DEF Stays, vars, Catch, Forget

LEMMA TypeStep ==
  ASSUME TypeOK, [Next]_vars
  PROVE  TypeOK'
  <1>1. CASE Stays
    <2>1. /\ frames' \in Seq(FrameType) /\ Depth' = Depth /\ UNCHANGED callback
      BY <1>1, StayingFrames
    <2>2. refs' \subseteq Rexs /\ freed' \subseteq Rexs
      BY <1>1 DEF TypeOK, Stays, vars, Catch, Forget, Collect, Callout, CalloutReturns, CalloutRaises
    <2>3. pending' \in Exceptions \cup {"none"}
      BY <1>1 DEF TypeOK, Stays, vars, Catch, Forget, Collect, Callout, CalloutReturns, CalloutRaises
    <2>4. \A i \in 1 .. Depth : i < Depth => frames'[i].pc = "callout"
      <3>1. \A i \in 1 .. Depth : i < Depth => i # Depth /\ frames[i].pc = "callout"
        BY Depths DEF TypeOK
      <3>2. CASE UNCHANGED frames
        BY <3>1, <3>2
      <3>3. CASE Collect
        BY <3>1, <3>3, CollectedFrames, Depths DEF FrameType
      <3>4. CASE Callout
        BY <3>1, <3>4, CalledFrames
      <3>5. CASE CalloutReturns \/ \E exn \in Exceptions : CalloutRaises(exn)
        BY <3>1, <3>5, ResumedFrames
      <3> QED BY <1>1, <3>2, <3>3, <3>4, <3>5 DEF Stays, vars, Catch, Forget
    <2> QED BY <2>1, <2>2, <2>3, <2>4, SameDepthTypes
  <1>2. CASE Ends
    <2>1. Depth > 0 /\ frames' = Popped /\ UNCHANGED <<refs, freed, callback>>
      BY <1>2 DEF Ends, MatchSucceeds, MatchFails
    <2>2. pending' \in Exceptions \cup {"none"}
      <3>1. Top.exn \in Exceptions \cup {"none"}
        BY <2>1, Depths DEF FrameType
      <3> QED BY <1>2, <3>1 DEF Ends, MatchSucceeds, MatchFails, TypeOK, Exceptions
    <2> QED BY <2>1, <2>2, PoppedTypes
  <1> QED BY <1>1, <1>2, StepKinds, StartTypes

(* The stub's state keeps its types, and only the innermost match runs: a  *)
(* match with another inside it is in its callout.                         *)
THEOREM TypeCorrect == Spec => []TypeOK
  <1>1. Init => TypeOK
    BY TypeInit
  <1>2. TypeOK /\ [Next]_vars => TypeOK'
    BY TypeStep
  <1> QED BY <1>1, <1>2, PTL DEF Spec

-----------------------------------------------------------------------------
(* The frame a match starts with, and what is left when one ends.          *)
LEMMA NewMatch ==
  ASSUME TypeOK, NEW r \in Rexs, NEW dfa \in BOOLEAN, NEW start \in Starts,
         StartPlain(r, dfa, start) \/ StartWithCallout(r, dfa, start)
  PROVE  \E cof \in BOOLEAN :
           /\ cof /\ dfa => DfaCallouts
           /\ Depth' = Depth + 1 /\ Depth + 1 \in 1 .. MaxDepth
           /\ \A i \in 1 .. Depth : frames'[i] = frames[i]
           /\ frames'[Depth + 1] = Frame(r, cof, dfa, start,
                                         IF cof THEN Copy(Depth + 1) ELSE Shared(r))
           /\ mem' = mem \cup Blocks(Depth + 1, cof, dfa)
           /\ callback' = IF cof THEN [callback EXCEPT ![Copy(Depth + 1)] = Depth + 1]
                          ELSE callback
  <1>1. Depth + 1 \in 1 .. MaxDepth
    <2>1. Depth < MaxDepth
      BY DEF StartPlain, StartWithCallout, MayStart
    <2>2. Depth \in Nat /\ MaxDepth \in Nat
      BY Depths
    <2> QED BY <2>1, <2>2
  <1>2. ASSUME NEW cof \in BOOLEAN, NEW context \in Contexts,
               frames' = Append(frames, Frame(r, cof, dfa, start, context))
        PROVE  /\ Depth' = Depth + 1
               /\ \A i \in 1 .. Depth : frames'[i] = frames[i]
               /\ frames'[Depth + 1] = Frame(r, cof, dfa, start, context)
    BY <1>2, FrameTypes, Pushed
  <1>3. CASE StartWithCallout(r, dfa, start)
    <2>1. Copy(Depth + 1) \in Contexts
      BY <1>1, ContextTypes
    <2>2. /\ TRUE /\ dfa => DfaCallouts
          /\ frames' = Append(frames, Frame(r, TRUE, dfa, start, Copy(Depth + 1)))
          /\ mem' = mem \cup Blocks(Depth + 1, TRUE, dfa)
          /\ callback' = [callback EXCEPT ![Copy(Depth + 1)] = Depth + 1]
      BY <1>3 DEF StartWithCallout
    <2>3. /\ Depth' = Depth + 1
          /\ \A i \in 1 .. Depth : frames'[i] = frames[i]
          /\ frames'[Depth + 1] = Frame(r, TRUE, dfa, start, Copy(Depth + 1))
      BY <1>2, <2>1, <2>2
    <2> QED BY <1>1, <2>2, <2>3
  <1>4. CASE StartPlain(r, dfa, start)
    <2>1. Shared(r) \in Contexts
      BY ContextTypes
    <2>2. /\ frames' = Append(frames, Frame(r, FALSE, dfa, start, Shared(r)))
          /\ mem' = mem \cup Blocks(Depth + 1, FALSE, dfa)
          /\ callback' = callback
      BY <1>4 DEF StartPlain
    <2>3. /\ Depth' = Depth + 1
          /\ \A i \in 1 .. Depth : frames'[i] = frames[i]
          /\ frames'[Depth + 1] = Frame(r, FALSE, dfa, start, Shared(r))
      BY <1>2, <2>1, <2>2
    <2> QED BY <1>1, <2>2, <2>3
  <1> QED BY <1>3, <1>4

LEMMA EndedMatch ==
  ASSUME TypeOK, Ends
  PROVE  /\ Depth > 0 /\ Depth' = Depth - 1 /\ UNCHANGED <<refs, freed, callback>>
         /\ \A i \in 1 .. Depth - 1 : frames'[i] = frames[i] /\ i \in 1 .. Depth /\ i # Depth
  <1>1. Depth > 0 /\ frames' = Popped /\ UNCHANGED <<refs, freed, callback>>
    BY DEF Ends, MatchSucceeds, MatchFails
  <1>2. Depth \in Nat
    BY Depths
  <1> QED BY <1>1, <1>2, PoppedFrames

(* A match number is at most the depth before, or the new one.             *)
LEMMA Numbers ==
  ASSUME TypeOK, Depth' = Depth + 1
  PROVE  \A i \in 1 .. Depth' : i \in 1 .. Depth \/ i = Depth + 1
  <1>1. Depth \in Nat
    BY Depths
  <1> QED BY <1>1

-----------------------------------------------------------------------------
(* Callouts.                                                               *)
CalloutInv == ContextsOwn /\ OwnCallouts

LEMMA ContextsStep ==
  ASSUME TypeOK, ContextsOwn, [Next]_vars
  PROVE  ContextsOwn'
  <1>1. CASE Stays
    BY <1>1, StayingFrames DEF ContextsOwn, SameMatch
  <1>2. CASE Ends
    <2>1. /\ Depth' = Depth - 1 /\ UNCHANGED callback
          /\ \A i \in 1 .. Depth - 1 : frames'[i] = frames[i] /\ i \in 1 .. Depth
      BY <1>2, EndedMatch
    <2> QED BY <2>1 DEF ContextsOwn
  <1>3. ASSUME NEW r \in Rexs, NEW dfa \in BOOLEAN, NEW start \in Starts,
               StartPlain(r, dfa, start) \/ StartWithCallout(r, dfa, start)
        PROVE  ContextsOwn'
    <2>1. PICK cof \in BOOLEAN :
            /\ Depth' = Depth + 1 /\ Depth + 1 \in 1 .. MaxDepth
            /\ \A i \in 1 .. Depth : frames'[i] = frames[i]
            /\ frames'[Depth + 1] = Frame(r, cof, dfa, start,
                                          IF cof THEN Copy(Depth + 1) ELSE Shared(r))
            /\ callback' = IF cof THEN [callback EXCEPT ![Copy(Depth + 1)] = Depth + 1]
                           ELSE callback
      BY <1>3, NewMatch
    <2>2. /\ frames'[Depth + 1].cof = cof /\ frames'[Depth + 1].rex = r
          /\ frames'[Depth + 1].context = IF cof THEN Copy(Depth + 1) ELSE Shared(r)
      BY <2>1 DEF Frame
    <2>3. cof => callback'[Copy(Depth + 1)] = Depth + 1
      BY <2>1, ContextTypes DEF TypeOK
    <2>4. \A c \in Contexts : c # Copy(Depth + 1) => callback'[c] = callback[c]
      BY <2>1 DEF TypeOK
    <2>5. \A i \in 1 .. Depth : i # Depth + 1 /\ i \in 1 .. MaxDepth
      <3>1. Depth \in Nat /\ MaxDepth \in Nat /\ Depth <= MaxDepth
        BY Depths DEF TypeOK
      <3> QED BY <3>1
    <2>6. \A i \in 1 .. Depth : callback'[Copy(i)] = callback[Copy(i)]
      BY <2>4, <2>5, ContextTypes
    <2>7. \A x \in Rexs : callback'[Shared(x)] = callback[Shared(x)]
      BY <2>4, ContextTypes
    <2>8. \A i \in 1 .. Depth' : i \in 1 .. Depth \/ i = Depth + 1
      BY <2>1, Numbers
    <2>9. \A i \in 1 .. Depth' :
            /\ frames'[i].context = IF frames'[i].cof THEN Copy(i) ELSE Shared(frames'[i].rex)
            /\ frames'[i].cof => callback'[Copy(i)] = i
      BY <2>1, <2>2, <2>3, <2>6, <2>8 DEF ContextsOwn
    <2> QED BY <2>7, <2>9 DEF ContextsOwn
  <1> QED BY <1>1, <1>2, <1>3, StepKinds

LEMMA OwnCalloutsStep ==
  ASSUME TypeOK, CalloutInv, [Next]_vars
  PROVE  OwnCallouts'
  <1>1. CASE UNCHANGED frames
    BY <1>1 DEF CalloutInv, OwnCallouts, Depth
  <1>2. CASE Collect
    <2>1. \A i \in 1 .. Depth : /\ frames'[i].pc = frames[i].pc /\ frames'[i].cof = frames[i].cof
                               /\ frames'[i].cod = frames[i].cod
      BY <1>2, CollectedFrames, Depths DEF FrameType
    <2> QED BY <1>2, <2>1, CollectedFrames DEF CalloutInv, OwnCallouts
  <1>3. CASE Callout
    <2>1. /\ Depth' = Depth /\ Depth \in 1 .. Depth
          /\ callback[Top.context] # NoOne
          /\ \A i \in 1 .. Depth :
               /\ SameMatch(frames'[i], frames[i])
               /\ i = Depth => frames'[i].pc = "callout" /\ frames'[i].cod = callback[Top.context]
               /\ i # Depth => frames'[i].pc = frames[i].pc /\ frames'[i].cod = frames[i].cod
      BY <1>3, CalledFrames, Depths
    <2>2. Top.rex \in Rexs
      BY <2>1, Depths DEF Top, FrameType
    <2>3. Top.cof /\ callback[Top.context] = Depth
      BY <2>1, <2>2 DEF CalloutInv, ContextsOwn, Top
    <2> QED BY <2>1, <2>3 DEF CalloutInv, OwnCallouts, SameMatch, Top
  <1>4. CASE CalloutReturns \/ \E exn \in Exceptions : CalloutRaises(exn)
    BY <1>4, ResumedFrames DEF CalloutInv, OwnCallouts
  <1>5. CASE Ends
    BY <1>5, EndedMatch DEF CalloutInv, OwnCallouts
  <1>6. ASSUME NEW r \in Rexs, NEW dfa \in BOOLEAN, NEW start \in Starts,
               StartPlain(r, dfa, start) \/ StartWithCallout(r, dfa, start)
        PROVE  OwnCallouts'
    <2>1. PICK cof \in BOOLEAN :
            /\ Depth' = Depth + 1
            /\ \A i \in 1 .. Depth : frames'[i] = frames[i]
            /\ frames'[Depth + 1] = Frame(r, cof, dfa, start,
                                          IF cof THEN Copy(Depth + 1) ELSE Shared(r))
      BY <1>6, NewMatch
    <2>2. \A i \in 1 .. Depth' : i \in 1 .. Depth \/ i = Depth + 1
      BY <2>1, Numbers
    <2>3. frames'[Depth + 1].pc = "matching"
      BY <2>1 DEF Frame
    <2> QED BY <2>1, <2>2, <2>3 DEF CalloutInv, OwnCallouts
  <1> QED BY <1>1, <1>2, <1>3, <1>4, <1>5, <1>6, StepKinds DEF Stays, vars, Catch, Forget

LEMMA CalloutInit == Init => CalloutInv
  <1> SUFFICES ASSUME Init PROVE CalloutInv
    OBVIOUS
  <1>1. Depth = 0 /\ 1 .. Depth = {}
    BY DEF Init, Depth
  <1>2. \A r \in Rexs : callback[Shared(r)] = NoOne
    BY DEF Init, Contexts
  <1> QED BY <1>1, <1>2 DEF CalloutInv, ContextsOwn, OwnCallouts

(* A callout is called for the match it was given to and for no other,     *)
(* however matches are nested and whichever regular expressions they share *)
(* (ccontext and new_mcontext in pcre2_match_stub0).                       *)
THEOREM CalloutsOwn == Spec => []OwnCallouts
  <1>1. Init => CalloutInv
    BY CalloutInit
  <1>2. TypeOK /\ CalloutInv /\ [Next]_vars => CalloutInv'
    BY ContextsStep, OwnCalloutsStep DEF CalloutInv
  <1>3. CalloutInv => OwnCallouts
    BY DEF CalloutInv
  <1> QED BY <1>1, <1>2, <1>3, TypeCorrect, PTL DEF Spec

-----------------------------------------------------------------------------
(* Blocks: those of matches at different depths are different.             *)
LEMMA BlocksDiffer ==
  /\ \A d, e, cof, dfa, cof2, dfa2 :
       d # e => Blocks(d, cof, dfa) \cap Blocks(e, cof2, dfa2) = {}
  /\ \A d, frame : FreedOnMatch(d, frame) = Blocks(d, frame.cof, frame.dfa)
  /\ \A d, frame : FreedOnError(d, frame) = Blocks(d, frame.cof, frame.dfa)
  <1>1. \A d, cof, dfa : \A x \in Blocks(d, cof, dfa) : x[1] = d
    BY DEF Blocks
  <1>2. \A d, frame : FreedOnMatch(d, frame) = Blocks(d, frame.cof, frame.dfa)
    BY DEF FreedOnMatch, Blocks
  <1>3. \A d, frame : FreedOnError(d, frame) = Blocks(d, frame.cof, frame.dfa)
    BY DEF FreedOnError, Blocks
  <1> QED BY <1>1, <1>2, <1>3

OfMatch(i) == Blocks(i, frames[i].cof, frames[i].dfa)

LEMMA BlocksAsMembers ==
  /\ BlocksOfMatches <=> \A x : x \in mem <=> \E i \in 1 .. Depth : x \in OfMatch(i)
  /\ BlocksOfMatches' <=> \A x : x \in mem' <=> \E i \in 1 .. Depth' : x \in OfMatch(i)'
  BY DEF BlocksOfMatches, OfMatch

LEMMA BlocksStep ==
  ASSUME TypeOK, BlocksOfMatches, [Next]_vars
  PROVE  BlocksOfMatches'
  <1>1. CASE Stays
    <2>1. /\ Depth' = Depth /\ mem' = mem
          /\ \A i \in 1 .. Depth : SameMatch(frames'[i], frames[i])
      BY <1>1, StayingFrames
    <2>2. \A i \in 1 .. Depth : OfMatch(i)' = OfMatch(i)
      BY <2>1 DEF OfMatch, SameMatch
    <2> QED BY <2>1, <2>2, BlocksAsMembers
  <1>2. CASE Ends
    <2>1. /\ Depth > 0 /\ Depth' = Depth - 1
          /\ \A i \in 1 .. Depth - 1 : frames'[i] = frames[i] /\ i \in 1 .. Depth /\ i # Depth
      BY <1>2, EndedMatch
    <2>2. mem' = mem \ OfMatch(Depth)
      BY <1>2, BlocksDiffer DEF Ends, MatchSucceeds, MatchFails, OfMatch, Top
    <2>3. \A i \in 1 .. Depth' : OfMatch(i)' = OfMatch(i)
      BY <2>1 DEF OfMatch
    <2>4. \A i \in 1 .. Depth : i \in 1 .. Depth' \/ i = Depth
      BY <2>1, Depths
    <2>5. \A i \in 1 .. Depth' : i \in 1 .. Depth /\ OfMatch(i) \cap OfMatch(Depth) = {}
      BY <2>1, BlocksDiffer DEF OfMatch
    <2> QED BY <2>2, <2>3, <2>4, <2>5, BlocksAsMembers
  <1>3. ASSUME NEW r \in Rexs, NEW dfa \in BOOLEAN, NEW start \in Starts,
               StartPlain(r, dfa, start) \/ StartWithCallout(r, dfa, start)
        PROVE  BlocksOfMatches'
    <2>1. PICK cof \in BOOLEAN :
            /\ Depth' = Depth + 1
            /\ \A i \in 1 .. Depth : frames'[i] = frames[i]
            /\ frames'[Depth + 1] = Frame(r, cof, dfa, start,
                                          IF cof THEN Copy(Depth + 1) ELSE Shared(r))
            /\ mem' = mem \cup Blocks(Depth + 1, cof, dfa)
      BY <1>3, NewMatch
    <2>2. frames'[Depth + 1].cof = cof /\ frames'[Depth + 1].dfa = dfa
      BY <2>1 DEF Frame
    <2>3. \A i : i = Depth + 1 => mem' = mem \cup OfMatch(i)'
      BY <2>1, <2>2 DEF OfMatch
    <2>4. \A i \in 1 .. Depth : OfMatch(i)' = OfMatch(i)
      BY <2>1 DEF OfMatch
    <2>5. \A i \in 1 .. Depth' : i \in 1 .. Depth \/ i = Depth + 1
      BY <2>1, Numbers
    <2>6. Depth + 1 \in 1 .. Depth' /\ \A i \in 1 .. Depth : i \in 1 .. Depth'
      BY <2>1, Depths
    <2> QED BY <2>3, <2>4, <2>5, <2>6, BlocksAsMembers
  <1> QED BY <1>1, <1>2, <1>3, StepKinds

(* The blocks in C are those of the matches under way, whether matches end *)
(* with a result, an error, or an exception of a callout that ends several *)
(* of them (the frees before every return of pcre2_match_stub0).           *)
THEOREM BlocksFreed == Spec => []BlocksOfMatches
  <1>1. Init => BlocksOfMatches
    <2> SUFFICES ASSUME Init PROVE BlocksOfMatches
      OBVIOUS
    <2>1. mem = {} /\ 1 .. Depth = {}
      BY DEF Init, Depth
    <2> QED BY <2>1, BlocksAsMembers
  <1>2. TypeOK /\ BlocksOfMatches /\ [Next]_vars => BlocksOfMatches'
    BY BlocksStep
  <1> QED BY <1>1, <1>2, TypeCorrect, PTL DEF Spec

-----------------------------------------------------------------------------
(* Values.                                                                 *)
ValuesInv == CodeKept /\ ValuesMoved /\ NoDfaCallout

LEMMA CodeStep ==
  ASSUME TypeOK, CodeKept, [Next]_vars
  PROVE  CodeKept'
  <1>1. CASE Collect
    <2>1. /\ Depth' = Depth /\ UNCHANGED refs
          /\ \A i \in 1 .. Depth : SameMatch(frames'[i], frames[i])
      BY <1>1, StayingFrames DEF Stays, Collect
    <2>2. refs \subseteq Reached /\ \A i \in 1 .. Depth : frames[i].rex \in Reached
      BY DEF Reached, Roots
    <2>3. freed' = freed \cup (Rexs \ Reached)
      BY <1>1 DEF Collect
    <2> QED BY <2>1, <2>2, <2>3 DEF CodeKept, SameMatch
  <1>2. CASE Stays /\ ~Collect
    <2>1. freed' = freed /\ refs' \subseteq refs
      BY <1>2 DEF Stays, vars, Catch, Forget, Callout, CalloutReturns, CalloutRaises
    <2>2. Depth' = Depth /\ \A i \in 1 .. Depth : SameMatch(frames'[i], frames[i])
      BY <1>2, StayingFrames
    <2> QED BY <2>1, <2>2 DEF CodeKept, SameMatch
  <1>3. CASE Ends
    BY <1>3, EndedMatch DEF CodeKept
  <1>4. ASSUME NEW r \in Rexs, NEW dfa \in BOOLEAN, NEW start \in Starts,
               StartPlain(r, dfa, start) \/ StartWithCallout(r, dfa, start)
        PROVE  CodeKept'
    <2>1. PICK cof \in BOOLEAN :
            /\ Depth' = Depth + 1
            /\ \A i \in 1 .. Depth : frames'[i] = frames[i]
            /\ frames'[Depth + 1] = Frame(r, cof, dfa, start,
                                          IF cof THEN Copy(Depth + 1) ELSE Shared(r))
      BY <1>4, NewMatch
    <2>2. frames'[Depth + 1].rex = r
      BY <2>1 DEF Frame
    <2>3. r \in refs /\ UNCHANGED <<refs, freed>>
      BY <1>4 DEF StartPlain, StartWithCallout, MayStart
    <2>4. \A i \in 1 .. Depth' : i \in 1 .. Depth \/ i = Depth + 1
      BY <2>1, Numbers
    <2> QED BY <2>1, <2>2, <2>3, <2>4 DEF CodeKept
  <1> QED BY <1>1, <1>2, <1>3, <1>4, StepKinds

LEMMA ValuesStep ==
  ASSUME TypeOK, OwnCallouts, ValuesMoved, [Next]_vars
  PROVE  ValuesMoved'
  <1>1. CASE Collect
    <2>1. OcamlRuns
      BY <1>1 DEF Collect
    <2>2. \A i \in 1 .. Depth : frames[i].cof
      BY <2>1, OcamlRunning DEF OwnCallouts
    <2>3. Depth' = Depth
          /\ \A i \in 1 .. Depth :
               frames'[i] = [frames[i] EXCEPT !.stale = @ \cup (Kept \ Roots)]
      BY <1>1, CollectedFrames
    <2>4. \A i \in 1 .. Depth : /\ frames'[i].stale = frames[i].stale \cup (Kept \ Roots)
                               /\ frames'[i].cof = frames[i].cof
      BY <2>3, Depths DEF FrameType
    <2> QED BY <2>2, <2>3, <2>4 DEF ValuesMoved
  <1>2. CASE Stays /\ ~Collect
    <2>1. Depth' = Depth /\ \A i \in 1 .. Depth : SameMatch(frames'[i], frames[i])
      BY <1>2, StayingFrames
    <2>2. \A i \in 1 .. Depth : frames'[i].stale = frames[i].stale
      <3>1. CASE UNCHANGED frames
        BY <3>1
      <3>2. CASE Callout
        BY <3>2, CalledFrames
      <3>3. CASE CalloutReturns \/ \E exn \in Exceptions : CalloutRaises(exn)
        BY <3>3, ResumedFrames
      <3> QED BY <1>2, <3>1, <3>2, <3>3 DEF Stays, vars, Catch, Forget
    <2> QED BY <2>1, <2>2 DEF ValuesMoved, SameMatch
  <1>3. CASE Ends
    BY <1>3, EndedMatch DEF ValuesMoved
  <1>4. ASSUME NEW r \in Rexs, NEW dfa \in BOOLEAN, NEW start \in Starts,
               StartPlain(r, dfa, start) \/ StartWithCallout(r, dfa, start)
        PROVE  ValuesMoved'
    <2>1. PICK cof \in BOOLEAN :
            /\ Depth' = Depth + 1
            /\ \A i \in 1 .. Depth : frames'[i] = frames[i]
            /\ frames'[Depth + 1] = Frame(r, cof, dfa, start,
                                          IF cof THEN Copy(Depth + 1) ELSE Shared(r))
      BY <1>4, NewMatch
    <2>2. frames'[Depth + 1].stale = {}
      BY <2>1 DEF Frame
    <2>3. \A i \in 1 .. Depth' : i \in 1 .. Depth \/ i = Depth + 1
      BY <2>1, Numbers
    <2> QED BY <2>1, <2>2, <2>3 DEF ValuesMoved
  <1> QED BY <1>1, <1>2, <1>3, <1>4, StepKinds

LEMMA DfaStep ==
  ASSUME TypeOK, NoDfaCallout, [Next]_vars
  PROVE  NoDfaCallout'
  <1>1. CASE Stays
    BY <1>1, StayingFrames DEF NoDfaCallout, SameMatch
  <1>2. CASE Ends
    BY <1>2, EndedMatch DEF NoDfaCallout
  <1>3. ASSUME NEW r \in Rexs, NEW dfa \in BOOLEAN, NEW start \in Starts,
               StartPlain(r, dfa, start) \/ StartWithCallout(r, dfa, start)
        PROVE  NoDfaCallout'
    <2>1. PICK cof \in BOOLEAN :
            /\ cof /\ dfa => DfaCallouts
            /\ Depth' = Depth + 1
            /\ \A i \in 1 .. Depth : frames'[i] = frames[i]
            /\ frames'[Depth + 1] = Frame(r, cof, dfa, start,
                                          IF cof THEN Copy(Depth + 1) ELSE Shared(r))
      BY <1>3, NewMatch
    <2>2. frames'[Depth + 1].cof = cof /\ frames'[Depth + 1].dfa = dfa
      BY <2>1 DEF Frame
    <2>3. \A i \in 1 .. Depth' : i \in 1 .. Depth \/ i = Depth + 1
      BY <2>1, Numbers
    <2> QED BY <2>1, <2>2, <2>3 DEF NoDfaCallout
  <1> QED BY <1>1, <1>2, <1>3, StepKinds

LEMMA ValidPointers ==
  ASSUME TypeOK, ValuesInv, DfaCallouts = FALSE
  PROVE  PointersValid
  <1>1. ASSUME NEW i \in 1 .. Depth
        PROVE  Uses(frames[i]) \cap frames[i].stale = {}
    <2>1. frames[i].stale \subseteq {"subj", "workspace"}
      BY Depths DEF ValuesInv, ValuesMoved, FrameType, Kept, Roots
    <2>2. CASE frames[i].cof
      <3>1. ~frames[i].dfa
        BY <2>2 DEF ValuesInv, NoDfaCallout
      <3>2. "subj" \notin Uses(frames[i]) /\ "workspace" \notin Uses(frames[i])
        BY <2>2, <3>1 DEF Uses
      <3> QED BY <2>1, <3>2
    <2>3. CASE ~frames[i].cof
      BY <2>3 DEF ValuesInv, ValuesMoved
    <2> QED BY <2>2, <2>3
  <1> QED BY <1>1 DEF ValuesInv, CodeKept, PointersValid

(* What a match uses after a callout is where the stub believes it to be,  *)
(* and its compiled code has not been finalised, as long as                *)
(* pcre2_dfa_match is not called with a callout (the roots and copies of   *)
(* pcre2_match_stub0).                                                     *)
THEOREM PointersStayValid == DfaCallouts = FALSE => (Spec => []PointersValid)
  <1> SUFFICES ASSUME DfaCallouts = FALSE PROVE Spec => []PointersValid
    OBVIOUS
  <1>1. Init => ValuesInv
    <2> SUFFICES ASSUME Init PROVE ValuesInv
      OBVIOUS
    <2>1. 1 .. Depth = {} /\ freed = {}
      BY DEF Init, Depth
    <2> QED BY <2>1 DEF ValuesInv, CodeKept, ValuesMoved, NoDfaCallout
  <1>2. TypeOK /\ OwnCallouts /\ ValuesInv /\ [Next]_vars => ValuesInv'
    BY CodeStep, ValuesStep, DfaStep DEF ValuesInv
  <1>3. TypeOK /\ ValuesInv => PointersValid
    BY ValidPointers
  <1> QED BY <1>1, <1>2, <1>3, TypeCorrect, CalloutsOwn, PTL DEF Spec

-----------------------------------------------------------------------------
(* Results.                                                                *)
LEMMA MatchResult ==
  ASSUME TypeOK, MatchSucceeds
  PROVE  ResultGroups'
  <1>1. Top.start \in Int
    <2>1. Depth > 0
      BY DEF MatchSucceeds
    <2>2. Top.start \in Starts
      BY <2>1, Depths DEF FrameType
    <2>3. \A start \in Starts : start \in Int
      BY Pcre2Assumption
    <2> QED BY <2>2, <2>3
  <1>2. PICK caps \in Captures, ret \in 0 .. Groups + 1 :
          /\ Reported(caps, ret, Top.dfa)
          /\ last' = [ret |-> ret, start |-> Top.start, caps |-> caps,
                      ovec |-> handle_pcre2_match_result(Top, caps, ret)]
    BY DEF MatchSucceeds
  <1> SUFFICES ASSUME ret > 0 PROVE ResultGroups'
    BY <1>2 DEF ResultGroups
  <1>2a. \A g \in GroupNumbers : g >= ret => caps[g] = Unset
    BY <1>2 DEF Reported
  <1>3. /\ last'.ret = ret /\ last'.start = Top.start /\ last'.caps = caps
        /\ last'.ovec = handle_pcre2_match_result(Top, caps, ret)
    BY <1>2
  <1>4. ASSUME NEW g \in GroupNumbers
        PROVE  /\ caps[g] # Unset => last'.ovec[g] = Top.start + caps[g]
               /\ caps[g] = Unset /\ (Top.start = 0 \/ g >= ret) => last'.ovec[g] = NoGroup
    <2>1. g \in Int /\ ret \in Int
      BY Pcre2Assumption DEF GroupNumbers
    <2>2. caps[g] \in Int
      <3>1. Unset \in Int
        BY DEF Unset
      <3>2. caps[g] \in Offsets \cup {Unset}
        BY DEF Captures
      <3>3. Offsets \subseteq Int
        BY Pcre2Assumption
      <3> QED BY <3>1, <3>2, <3>3
    <2>3. last'.ovec[g] = IF g < ret THEN caps[g] + Top.start ELSE NoGroup
      BY <1>3 DEF handle_pcre2_match_result, copy_ovector
    <2>4. CASE g < ret
      <3>1. caps[g] + Top.start = Top.start + caps[g]
        BY <1>1, <2>2
      <3>2. ~(g >= ret)
        BY <2>1, <2>4
      <3>3. caps[g] = Unset /\ Top.start = 0 => caps[g] + Top.start = NoGroup
        BY DEF Unset, NoGroup
      <3> QED BY <2>3, <2>4, <3>1, <3>2, <3>3
    <2>5. CASE ~(g < ret)
      <3>1. caps[g] = Unset
        BY <1>2a, <2>1, <2>5
      <3> QED BY <2>3, <2>5, <3>1
    <2> QED BY <2>4, <2>5
  <1> QED BY <1>3, <1>4 DEF ResultGroups

(* Whatever the callouts were shown before, the result of a match that     *)
(* reports ret > 0 groups has these groups and none after the last that    *)
(* matched (handle_pcre2_match_result).  ret = 0, a pcre2_dfa_match with   *)
(* more matches than room, is excluded: its result is what was there.      *)
THEOREM ResultsOwn == Spec => []ResultGroups
  <1>1. Init => ResultGroups
    BY DEF Init, ResultGroups, NoResult
  <1>2. TypeOK /\ ResultGroups /\ [Next]_vars => ResultGroups'
    <2> SUFFICES ASSUME TypeOK, ResultGroups, [Next]_vars PROVE ResultGroups'
      OBVIOUS
    <2>1. CASE MatchSucceeds
      BY <2>1, MatchResult
    <2>2. CASE ~MatchSucceeds
      <3>1. last' = last \/ last' = NoResult
        BY <2>2 DEF Next, vars, Catch, Forget, Collect, StartPlain, StartWithCallout, Callout,
                    CalloutReturns, CalloutRaises, MatchFails
      <3> QED BY <3>1 DEF ResultGroups, NoResult
    <2> QED BY <2>1, <2>2
  <1> QED BY <1>1, <1>2, TypeCorrect, PTL DEF Spec
=============================================================================
