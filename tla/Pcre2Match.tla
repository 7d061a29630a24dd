------------------------------ MODULE Pcre2Match ----------------------------
(***************************************************************************)
(* A match of the PCRE2 binding (libs/pcre2/pcre2_stubs.c) and what the    *)
(* OCaml code that runs inside it, in a callout, may do: match again, with *)
(* the same regular expression or another, forget a regular expression,    *)
(* collect garbage, raise.                                                 *)
(*                                                                         *)
(* OCaml values move when garbage is collected, and what the stub keeps of *)
(* them is valid only if it is a registered root or was copied; what it    *)
(* allocates in C must be freed on every way out.                          *)
(***************************************************************************)
EXTENDS Integers, Sequences

CONSTANTS Rexs,        \* compiled regular expressions
          Groups,      \* the number of the last group
          Starts,      \* where subjects start: subj_start
          Offsets,     \* bound: the offsets the matcher reports
          MaxDepth,    \* bound: matches inside one another
          DfaCallouts  \* whether pcre2_dfa_match is called with a callout

ASSUME Pcre2Assumption ==
  /\ Groups \in Nat /\ MaxDepth \in Nat
  /\ Starts \subseteq Nat /\ Offsets \subseteq Nat
  /\ DfaCallouts \in BOOLEAN

GroupNumbers == 0 .. Groups
Unset == -1           \* PCRE2_UNSET, all bits one
NoGroup == -1         \* what OCaml takes for a group that did not match
NoOne == 0

Shared(r) == <<"shared", r>>    \* the mcontext of a regexp
Copy(d) == <<"copy", d>>        \* the new_mcontext of a match
Contexts == {Shared(r) : r \in Rexs} \cup {Copy(d) : d \in 1 .. MaxDepth}

VARIABLES
  frames,     \* the matches under way, the innermost last
  refs,       \* the regular expressions OCaml code refers to
  freed,      \* those that were finalised
  mem,        \* the blocks matches have allocated in C: <<depth, what>>
  callback,   \* the match whose cod a context's callout is called with
  pending,    \* the exception OCaml code has got from a match, or "none"
  last        \* the result OCaml code has just got from a match

vars == <<frames, refs, freed, mem, callback, pending, last>>

Depth == Len(frames)
Top == frames[Depth]
SetTop(frame) == [frames EXCEPT ![Depth] = frame]
Popped == SubSeq(frames, 1, Depth - 1)

NoResult == [ret |-> -1]

Init ==
  /\ frames = << >>
  /\ refs = Rexs
  /\ freed = {}
  /\ mem = {}
  /\ callback = [c \in Contexts |-> NoOne]
  /\ pending = "none"
  /\ last = NoResult

-----------------------------------------------------------------------------
(* OCaml code, external: between matches and in callouts.                  *)
OcamlRuns == Depth > 0 => Top.pc = "callout"

Forget(r) ==
  /\ OcamlRuns /\ pending = "none" /\ r \in refs
  /\ refs' = refs \ {r}
  /\ last' = NoResult
  /\ UNCHANGED <<frames, freed, mem, callback, pending>>

Catch ==
  /\ OcamlRuns /\ pending # "none"
  /\ pending' = "none"
  /\ UNCHANGED <<frames, refs, freed, mem, callback, last>>

(* The values a match keeps, and those it has registered as roots while a  *)
(* callout may run.  v_subj is a root only until v_substrings holds it.    *)
Kept == {"rex", "cof", "substrings", "ovec", "subj", "workspace"}
\* Mutant of Roots: v_rex is not registered while callouts run.
RootsWithoutRex == {"cof", "substrings", "ovec"}

Roots == {"rex", "cof", "substrings", "ovec"}

(* The collector moves what it keeps, roots are told, and finalises the    *)
(* rest: pcre2_dealloc_regexp frees the code and the context.              *)
Reached == refs \cup {frames[i].rex : i \in {j \in 1 .. Depth : "rex" \in Roots}}

Collect ==
  /\ OcamlRuns
  /\ freed' = freed \cup (Rexs \ Reached)
  /\ frames' = [i \in 1 .. Depth |-> [frames[i] EXCEPT !.stale = @ \cup (Kept \ Roots)]]
  /\ last' = NoResult
  /\ UNCHANGED <<refs, mem, callback, pending>>

-----------------------------------------------------------------------------
(* The stub up to the call of the matcher.  Without a callout nothing can  *)
(* run meanwhile and the values are used where they are; with one, the     *)
(* subject and the context are copied, and the copy gets the callout.      *)
Blocks(d, cof, dfa) ==
  {<<d, "match_data">>}
    \cup (IF cof THEN {<<d, "subj">>, <<d, "context">>} ELSE {})
    \cup (IF cof /\ dfa THEN {<<d, "workspace">>} ELSE {})

Frame(r, cof, dfa, start, context) ==
  [rex |-> r, cof |-> cof, dfa |-> dfa, start |-> start, context |-> context,
   pc |-> "matching", cod |-> NoOne, exn |-> "none", stale |-> {},
   ovec |-> [g \in GroupNumbers |-> 0]]

MayStart(r) == OcamlRuns /\ pending = "none" /\ r \in refs /\ Depth < MaxDepth

(* The position and the start of the subject are in the subject: the stub  *)
(* raises Invalid_argument, with nothing allocated yet, when they are not. *)
StartPlain(r, dfa, start) ==
  /\ MayStart(r)
  /\ frames' = Append(frames, Frame(r, FALSE, dfa, start, Shared(r)))
  /\ mem' = mem \cup Blocks(Depth + 1, FALSE, dfa)
  /\ last' = NoResult
  /\ UNCHANGED <<refs, freed, callback, pending>>

\* Mutant of StartWithCallout: the callout is set on the regexp's own context.
StartWithSharedContext(r, dfa, start) ==
  /\ MayStart(r)
  /\ dfa => DfaCallouts
  /\ frames' = Append(frames, Frame(r, TRUE, dfa, start, Shared(r)))
  /\ mem' = mem \cup Blocks(Depth + 1, TRUE, dfa)
  /\ callback' = [callback EXCEPT ![Shared(r)] = Depth + 1]
  /\ last' = NoResult
  /\ UNCHANGED <<refs, freed, pending>>

(* The allocation of v_substrings may collect, which does to the values of *)
(* the other matches what a Collect just before does (of this match only   *)
(* v_workspace is no root).  It is done with v_substrings already a root   *)
(* and not yet set; what a collector makes of such a root is not modelled. *)
StartWithCallout(r, dfa, start) ==
  /\ MayStart(r)
  /\ dfa => DfaCallouts
  /\ frames' = Append(frames, Frame(r, TRUE, dfa, start, Copy(Depth + 1)))
  /\ mem' = mem \cup Blocks(Depth + 1, TRUE, dfa)
  /\ callback' = [callback EXCEPT ![Copy(Depth + 1)] = Depth + 1]
  /\ last' = NoResult
  /\ UNCHANGED <<refs, freed, pending>>

-----------------------------------------------------------------------------
(* The matcher, external: it calls out where its context has a callout,    *)
(* with the groups captured so far, and ends with a match or an error.     *)
Captures == [GroupNumbers -> Offsets \cup {Unset}]

copy_ovector(start, caps, count, old) ==
  [g \in GroupNumbers |-> IF g < count THEN caps[g] + start ELSE old[g]]

(* The handler fills the array of the match its cod belongs to.  The group *)
(* of the whole match is not set yet.                                      *)
Callout ==
  /\ Depth > 0 /\ Top.pc = "matching"
  /\ LET owner == callback[Top.context]
         called == [Top EXCEPT !.pc = "callout", !.cod = owner]
     IN /\ owner # NoOne
        /\ \E caps \in Captures, capture_top \in 1 .. Groups + 1 :
             /\ caps[0] = Unset
             /\ \A g \in GroupNumbers : g >= capture_top => caps[g] = Unset
             /\ frames' = [i \in 1 .. Depth |->
                  LET frame == IF i = Depth THEN called ELSE frames[i]
                  IN IF i # owner THEN frame
                     ELSE [frame EXCEPT !.ovec = copy_ovector(frame.start, caps, capture_top, @)]]
  /\ last' = NoResult
  /\ UNCHANGED <<refs, freed, mem, callback, pending>>

CalloutReturns ==
  /\ Depth > 0 /\ OcamlRuns /\ pending = "none"
  /\ frames' = SetTop([Top EXCEPT !.pc = "matching", !.cod = NoOne])
  /\ last' = NoResult
  /\ UNCHANGED <<refs, freed, mem, callback, pending>>

(* A callout raises.  The handler compares the first field of the value    *)
(* raised with the exception registered as Backtrack.  Backtrack has no    *)
(* argument: the value raised is the exception itself, and its first field *)
(* its name; only of an exception with arguments is it the exception.      *)
FirstField(exn) == IF exn = "error" THEN "Error" ELSE "a name"
RegisteredBacktrack == "Backtrack"

CalloutRaises(exn) ==
  /\ Depth > 0 /\ OcamlRuns
  /\ pending \in {"none", exn}
  /\ frames' = SetTop([Top EXCEPT
       !.pc = IF FirstField(exn) = RegisteredBacktrack THEN "matching" ELSE "failing",
       !.exn = exn])
  /\ pending' = "none"
  /\ last' = NoResult
  /\ UNCHANGED <<refs, freed, mem, callback>>

\* Mutant of handle_pcre2_match_result: the groups after the last are not cleared.
MatchResultUncleared(frame, caps, ret) == copy_ovector(frame.start, caps, ret, frame.ovec)

(* What a success leaves in the array: the ret groups reported, and no     *)
(* group after them.  With ret = 0 nothing is copied, and subgroups2_1     *)
(* wraps around to a place far behind the array, so nothing is cleared     *)
(* either: what the caller or the callouts have written stays.             *)
handle_pcre2_match_result(frame, caps, ret) ==
  [g \in GroupNumbers |->
     IF g < ret THEN copy_ovector(frame.start, caps, ret, frame.ovec)[g]
     ELSE IF ret = 0 THEN frame.ovec[g]
     ELSE NoGroup]

FreedOnMatch(d, frame) ==
  {<<d, "match_data">>}
    \cup (IF frame.cof THEN {<<d, "subj">>, <<d, "context">>} ELSE {})
    \cup (IF frame.cof /\ frame.dfa THEN {<<d, "workspace">>} ELSE {})

(* What the matcher reports: ret groups, the last of them set.  The match  *)
(* data has room for the groups of the pattern; pcre2_dfa_match, which     *)
(* reports the matches it has found, the longest first, returns 0 when     *)
(* there are more of them than that.                                       *)
Reported(caps, ret, dfa) ==
  /\ caps[0] # Unset
  /\ \/ /\ ret > 0 /\ caps[ret - 1] # Unset
        /\ \A g \in GroupNumbers : g >= ret => caps[g] = Unset
     \/ ret = 0 /\ dfa /\ \A g \in GroupNumbers : caps[g] # Unset

MatchSucceeds ==
  /\ Depth > 0 /\ Top.pc = "matching"
  /\ \E caps \in Captures, ret \in 0 .. Groups + 1 :
       /\ Reported(caps, ret, Top.dfa)
       /\ last' = [ret |-> ret, start |-> Top.start, caps |-> caps,
                   ovec |-> handle_pcre2_match_result(Top, caps, ret)]
  /\ mem' = mem \ FreedOnMatch(Depth, Top)
  /\ frames' = Popped
  /\ UNCHANGED <<refs, freed, callback, pending>>

\* Mutant of FreedOnError: match_data is freed only where the match succeeds.
FreedOnErrorNotData(d, frame) ==
  (IF frame.cof THEN {<<d, "subj">>, <<d, "context">>} ELSE {})
    \cup (IF frame.cof /\ frame.dfa THEN {<<d, "workspace">>} ELSE {})

(* It reports an error, a callout's among them, and the stub raises.       *)
FreedOnError(d, frame) ==
  {<<d, "match_data">>}
    \cup (IF frame.cof THEN {<<d, "subj">>, <<d, "context">>} ELSE {})
    \cup (IF frame.cof /\ frame.dfa THEN {<<d, "workspace">>} ELSE {})

MatchFails ==
  /\ Depth > 0 /\ Top.pc \in {"matching", "failing"}
  /\ pending' = IF Top.pc = "failing" THEN Top.exn ELSE "error"
  /\ mem' = mem \ FreedOnError(Depth, Top)
  /\ frames' = Popped
  /\ last' = NoResult
  /\ UNCHANGED <<refs, freed, callback>>

-----------------------------------------------------------------------------
Exceptions == {"Backtrack", "user", "error"}

Next ==
  \/ \E r \in Rexs : Forget(r)
  \/ Catch \/ Collect
  \/ \E r \in Rexs, dfa \in BOOLEAN, start \in Starts :
       StartPlain(r, dfa, start) \/ StartWithCallout(r, dfa, start)
  \/ Callout \/ CalloutReturns \/ MatchSucceeds \/ MatchFails
  \/ \E exn \in Exceptions : CalloutRaises(exn)

Spec == Init /\ [][Next]_vars

-----------------------------------------------------------------------------
FrameType ==
  [rex : Rexs, cof : BOOLEAN, dfa : BOOLEAN, start : Starts, context : Contexts,
   pc : {"matching", "callout", "failing"}, cod : 0 .. MaxDepth,
   exn : Exceptions \cup {"none"}, stale : SUBSET Kept, ovec : [GroupNumbers -> Int]]

TypeOK ==
  /\ frames \in Seq(FrameType) /\ Depth <= MaxDepth
  /\ \A i \in 1 .. Depth : i < Depth => frames[i].pc = "callout"
  /\ refs \subseteq Rexs /\ freed \subseteq Rexs
  /\ pending \in Exceptions \cup {"none"}
  /\ callback \in [Contexts -> 0 .. MaxDepth]

(* When a callout has run and the match goes on, what it uses is still     *)
(* there: the compiled code was not finalised though OCaml forgot it, and  *)
(* no value it writes to or reads from was moved behind its back.          *)
Uses(frame) ==
  {"rex", "ovec"}
    \cup (IF frame.cof THEN {"cof", "substrings"} ELSE {"subj"})
    \cup (IF frame.dfa THEN {"workspace"} ELSE {})

PointersValid ==
  \A i \in 1 .. Depth : frames[i].pc # "callout" =>
    frames[i].rex \notin freed /\ Uses(frames[i]) \cap frames[i].stale = {}

(* What is allocated in C belongs to a match under way, and all of it is   *)
(* there: nothing leaks when matches end in an exception that passes       *)
(* through several of them, and nothing is freed under an outer match.     *)
BlocksOfMatches ==
  mem = UNION {Blocks(i, frames[i].cof, frames[i].dfa) : i \in 1 .. Depth}

(* A callout is called for the match it was given to, and for no other:    *)
(* not for a match without one on the same regular expression, and after   *)
(* an inner match on that expression still for the outer one.              *)
OwnCallouts ==
  \A i \in 1 .. Depth : frames[i].pc = "callout" => frames[i].cof /\ frames[i].cod = i

(* Whatever the callouts of the match were shown, its result has its own   *)
(* groups: those that matched at their place in the whole subject, and no  *)
(* others.  In a subject that starts later the latter holds of the groups  *)
(* after the last that matched only (see UnsetIsNoGroup), and a DFA match  *)
(* that found more than it has room for has no groups at all (see          *)
(* SuccessHasGroups).                                                      *)
ResultGroups ==
  last.ret > 0 =>
    \A g \in GroupNumbers :
      /\ last.caps[g] # Unset => last.ovec[g] = last.start + last.caps[g]
      /\ last.caps[g] = Unset /\ (last.start = 0 \/ g >= last.ret) => last.ovec[g] = NoGroup

(* Every match that succeeds gives OCaml the place where it matched: what  *)
(* pcre2_dfa_match of pcre2.ml returns to its caller.                      *)
SuccessHasGroups ==
  last # NoResult => last.ovec[0] = last.start + last.caps[0]

(* The same of every group: what Pcre2.split and full_split read as        *)
(* NoGroup when they match from a later start.                             *)
UnsetIsNoGroup ==
  last # NoResult =>
    \A g \in GroupNumbers : last.caps[g] = Unset => last.ovec[g] = NoGroup

(* A callout that raises Backtrack makes the matcher try something else.   *)
BacktrackGoesOn ==
  [][\A i \in 1 .. Depth : i \in DOMAIN frames' /\ frames[i].pc # "failing" /\ frames'[i].exn = "Backtrack"
       => frames'[i].pc # "failing"]_vars
=============================================================================
