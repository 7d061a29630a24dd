----------------------------- MODULE XmlParser -----------------------------
(***************************************************************************)
(* The event-driven XML parser of std/cpp/NativeXmlImport.cpp.             *)
(*                                                                         *)
(* do_parse_xml is a loop over characters with a switch over 18 states; it *)
(* calls itself for the contents of an element.  An action here is one     *)
(* iteration of the loop, one action per state; activations has a frame    *)
(* for every call that has not returned.                                   *)
(*                                                                         *)
(* A character is a member of a small alphabet.  "CDATA" and "DOCTYPE" are *)
(* one symbol each, for the letters of the keyword in any case.            *)
(***************************************************************************)
EXTENDS Integers, SequencesExt, FiniteSets

CONSTANTS Documents,   \* the inputs: [text |-> characters, parts |-> what they spell]
          NameChars,   \* the characters is_valid_char accepts
          Fold(_)      \* a name without the case strcmpi ignores

ASSUME DocumentsAssumption ==   \* the texts are sequences
  \A d \in Documents : d.text \in Seq(ToSet(d.text))

VARIABLES doc,      \* the document given to parse_xml
          p,        \* the pointer into it, from 1; one past its end is the NUL
          line,     \* *line
          activations,  \* of do_parse_xml, last first
          events,   \* the calls made on the NativeXmlState, in order
          cur,      \* how deep NativeXmlState.cur is
          status    \* "parsing", "returned" or "error" (hx::Throw)

xmlVars == <<doc, p, line, activations, events, cur, status>>

NUL == "NUL"
Newline == "nl"
Spaces == {" ", Newline}
Char(i) == IF i <= Len(doc.text) THEN doc.text[i] ELSE NUL
c == Char(p)
Slice(from, upto) == SubSeq(doc.text, from, upto - 1)

(* The locals of an activation; at the top parentname is the null String.  *)
TopLevel == <<>>
Frame(parentname) ==
  [state |-> "BEGIN", next |-> "BEGIN", start |-> 0, nsubs |-> 0, nbrackets |-> 0,
   aname |-> <<>>, attribs |-> {}, nodename |-> <<>>, parentname |-> parentname]

top == Head(activations)

XmlInit ==
  /\ doc \in Documents
  /\ p = 1
  /\ line = 0
  /\ activations = <<Frame(TopLevel)>>
  /\ events = <<>>
  /\ cur = 0
  /\ status = "parsing"

-----------------------------------------------------------------------------
(* How an iteration ends: break goes on to the next character, continue    *)
(* looks at this one again in another state, ERROR throws.                 *)
Break(frame, from) ==
  /\ activations' = <<frame>> \o Tail(activations)
  /\ p' = from + 1
  /\ line' = IF Char(from + 1) = Newline THEN line + 1 ELSE line
  /\ UNCHANGED <<doc, status>>

Continue(frame) ==
  /\ activations' = <<frame>> \o Tail(activations)
  /\ UNCHANGED <<doc, p, line, status, events, cur>>

Fail == status' = "error" /\ UNCHANGED <<doc, p, line, activations, events, cur>>

Quiet == UNCHANGED <<events, cur>>

(* The methods of NativeXmlState: xml descends, done climbs.               *)
Emit(kind, data) ==
  /\ events' = Append(events, [kind |-> kind, data |-> data])
  /\ cur' = CASE kind = "xml" -> cur + 1 [] kind = "done" -> cur - 1 [] OTHER -> cur

To(state) == [top EXCEPT !.state = state]
From(state, start) == [top EXCEPT !.state = state, !.start = start]
SkipTo(next) == [top EXCEPT !.state = "IGNORE_SPACES", !.next = next]

In(state) == status = "parsing" /\ c # NUL /\ top.state = state

-----------------------------------------------------------------------------
IgnoreSpaces ==
  /\ In("IGNORE_SPACES")
  /\ IF c \in Spaces THEN Break(top, p) /\ Quiet ELSE Continue(To(top.next))

Begin ==
  /\ In("BEGIN")
  /\ IF c = "<" THEN Break(SkipTo("BEGIN_NODE"), p) /\ Quiet ELSE Continue(From("PCDATA", p))

PcData ==
  /\ In("PCDATA")
  /\ IF c = "<"
     THEN /\ Break([SkipTo("BEGIN_NODE") EXCEPT !.nsubs = @ + 1], p)
          /\ Emit("pcdata", Slice(top.start, p))
     ELSE Break(top, p) /\ Quiet

\* Mutant of CData: the section ends at "]]" whatever follows.
CDataLoose ==
  /\ In("CDATA")
  /\ IF c = "]" /\ Char(p + 1) = "]"
     THEN /\ Break([To("BEGIN") EXCEPT !.nsubs = @ + 1], p + 2)
          /\ Emit("cdata", Slice(top.start, p))
     ELSE Break(top, p) /\ Quiet

CData ==
  /\ In("CDATA")
  /\ IF c = "]" /\ Char(p + 1) = "]" /\ Char(p + 2) = ">"
     THEN /\ Break([To("BEGIN") EXCEPT !.nsubs = @ + 1], p + 2)
          /\ Emit("cdata", Slice(top.start, p))
     ELSE Break(top, p) /\ Quiet

(* BEGIN_NODE, at a '!': a section, a doctype or a comment.                *)
BeginBang ==
  /\ In("BEGIN_NODE") /\ c = "!"
  /\ \/ /\ Char(p + 1) = "["
        /\ IF Char(p + 2) = "CDATA" /\ Char(p + 3) = "["
           THEN Break(From("CDATA", p + 4), p + 3) /\ Quiet
           ELSE Fail
     \/ /\ Char(p + 1) \in {"D", "DOCTYPE"}
        /\ IF Char(p + 1) = "DOCTYPE"
           THEN Break(From("DOCTYPE", p + 2), p + 1) /\ Quiet
           ELSE Fail
     \/ /\ Char(p + 1) \notin {"[", "D", "DOCTYPE"}
        /\ IF Char(p + 1) = "-" /\ Char(p + 2) = "-"
           THEN Break(From("COMMENT", p + 3), p + 2) /\ Quiet
           ELSE Fail

BeginNode ==
  /\ In("BEGIN_NODE") /\ c # "!"
  /\ \/ c = "?" /\ Break(From("HEADER", p), p) /\ Quiet
     \/ /\ c = "/"
        /\ IF top.parentname = TopLevel
           THEN Fail
           ELSE Break([SkipTo("CLOSE") EXCEPT !.start = p + 1], p) /\ Quiet
     \/ c \notin {"?", "/"} /\ Continue(From("TAG_NAME", p))

TagName ==
  /\ In("TAG_NAME")
  /\ IF c \in NameChars THEN Break(top, p) /\ Quiet
     ELSE IF p = top.start THEN Fail
     ELSE Continue([SkipTo("BODY") EXCEPT !.nodename = Slice(top.start, p), !.attribs = {}])

\* Mutant of NodeBody: an element is not counted among the children of its parent.
NodeBodyUncounted ==
  /\ In("BODY")
  /\ \/ /\ c \in {"/", ">"}
        /\ Break([top EXCEPT !.state = IF c = "/" THEN "WAIT_END" ELSE "CHILDS"], p)
        /\ Emit("xml", <<top.nodename, top.attribs>>)
     \/ c \notin {"/", ">"} /\ Continue(From("ATTRIB_NAME", p))

NodeBody ==
  /\ In("BODY")
  /\ \/ /\ c \in {"/", ">"}
        /\ Break([top EXCEPT !.state = IF c = "/" THEN "WAIT_END" ELSE "CHILDS",
                             !.nsubs = @ + 1], p)
        /\ Emit("xml", <<top.nodename, top.attribs>>)
     \/ c \notin {"/", ">"} /\ Continue(From("ATTRIB_NAME", p))

AttribName ==
  /\ In("ATTRIB_NAME")
  /\ LET aname == Slice(top.start, p)
     IN IF c \in NameChars THEN Break(top, p) /\ Quiet
        ELSE IF top.start = p \/ \E a \in top.attribs : a[1] = aname THEN Fail
        ELSE Continue([SkipTo("EQUALS") EXCEPT !.aname = aname])

Equals ==
  /\ In("EQUALS")
  /\ IF c = "=" THEN Break(SkipTo("ATTVAL_BEGIN"), p) /\ Quiet ELSE Fail

AttvalBegin ==
  /\ In("ATTVAL_BEGIN")
  /\ IF c \in {"\"", "'"} THEN Break(From("ATTRIB_VAL", p), p) /\ Quiet ELSE Fail

(* The value ends at the quote it began with.                              *)
AttribVal ==
  /\ In("ATTRIB_VAL")
  /\ Quiet
  /\ IF c = Char(top.start)
     THEN Break([SkipTo("BODY") EXCEPT
                   !.attribs = @ \cup {<<top.aname, Slice(top.start + 1, p)>>}], p)
     ELSE Break(top, p)

(* The contents of an element: a call of do_parse_xml at this character.   *)
Childs ==
  /\ In("CHILDS")
  /\ activations' = <<Frame(top.nodename)>> \o activations
  /\ UNCHANGED <<doc, p, line, status, events, cur>>

WaitEnd ==
  /\ In("WAIT_END")
  /\ IF c = ">" THEN Break(To("BEGIN"), p) /\ Emit("done", <<>>) ELSE Fail

(* The end of the contents: the activation returns to its caller, which is *)
(* in CHILDS, begins anew and goes on after the '>'.                       *)
WaitEndRet ==
  /\ In("WAIT_END_RET")
  /\ IF c = ">"
     THEN /\ IF top.nsubs = 0 THEN Emit("pcdata", <<>>) ELSE Quiet
          /\ LET caller == [activations[2] EXCEPT !.state = "BEGIN", !.start = p]
             IN activations' = <<caller>> \o Tail(Tail(activations))
          /\ p' = p + 1
          /\ line' = IF Char(p + 1) = Newline THEN line + 1 ELSE line
          /\ UNCHANGED <<doc, status>>
     ELSE Fail

\* Mutant of Close: the names of the two tags are compared with their case.
CloseWithCase ==
  /\ In("CLOSE")
  /\ IF c \in NameChars THEN Break(top, p) /\ Quiet
     ELSE IF p = top.start \/ top.parentname # Slice(top.start, p) THEN Fail
     ELSE Continue(SkipTo("WAIT_END_RET"))

Close ==
  /\ In("CLOSE")
  /\ IF c \in NameChars THEN Break(top, p) /\ Quiet
     ELSE IF p = top.start \/ Fold(top.parentname) # Fold(Slice(top.start, p)) THEN Fail
     ELSE Continue(SkipTo("WAIT_END_RET"))

Comment ==
  /\ In("COMMENT")
  /\ IF c = "-" /\ Char(p + 1) = "-" /\ Char(p + 2) = ">"
     THEN Break(To("BEGIN"), p + 2) /\ Emit("comment", Slice(top.start, p))
     ELSE Break(top, p) /\ Quiet

Doctype ==
  /\ In("DOCTYPE")
  /\ IF c = ">" /\ top.nbrackets = 0
     THEN Break(To("BEGIN"), p) /\ Emit("doctype", Slice(top.start, p))
     ELSE LET delta == CASE c = "[" -> 1 [] c = "]" -> -1 [] OTHER -> 0
          IN Break([top EXCEPT !.nbrackets = @ + delta], p) /\ Quiet

(* The second '?' belongs to the text of the comment.                      *)
Header ==
  /\ In("HEADER")
  /\ IF c = "?" /\ Char(p + 1) = ">"
     THEN Break(To("BEGIN"), p + 1) /\ Emit("comment", Slice(top.start, p + 1))
     ELSE Break(top, p) /\ Quiet

(* After the loop.  Only the outermost activation may end here, and only   *)
(* between two nodes or in text.                                           *)
EndOfText ==
  /\ status = "parsing" /\ c = NUL
  /\ LET start == IF top.state = "BEGIN" THEN p ELSE top.start
     IN IF top.parentname = TopLevel /\ top.state \in {"BEGIN", "PCDATA"}
        THEN /\ status' = "returned"
             /\ IF p # start \/ top.nsubs = 0 THEN Emit("pcdata", Slice(start, p)) ELSE Quiet
             /\ UNCHANGED <<doc, p, line, activations>>
        ELSE Fail

XmlNext ==
  \/ IgnoreSpaces \/ Begin \/ PcData \/ CData \/ BeginBang \/ BeginNode
  \/ TagName \/ NodeBody \/ AttribName \/ Equals \/ AttvalBegin \/ AttribVal
  \/ Childs \/ WaitEnd \/ WaitEndRet \/ Close
  \/ Comment \/ Doctype \/ Header \/ EndOfText

XmlSpec == XmlInit /\ [][XmlNext]_xmlVars /\ WF_xmlVars(XmlNext)

-----------------------------------------------------------------------------
(* What a document means, read off its parts: the markup and the texts it  *)
(* was put together from, each [kind, name, data].  It is a fold over the  *)
(* parts, with the elements that are open and the text that is pending.    *)
Outermost == [name |-> TopLevel, nsubs |-> 0]
NothingRead == [ok |-> TRUE, open |-> <<Outermost>>, text |-> <<>>, out |-> <<>>]

Event(kind, data) == [kind |-> kind, data |-> data]
Add(r, event, subs) ==
  [r EXCEPT !.out = Append(@, event), !.open[1].nsubs = @ + subs]

WithText(r) ==
  IF r.text = <<>> THEN r
  ELSE [Add(r, Event("pcdata", r.text), 1) EXCEPT !.text = <<>>]

Reading(r, part) ==
  LET q == WithText(r)
      element == Event("xml", <<part.name, part.data>>)
      inner == q.open[1]
      closed == IF inner.nsubs = 0 THEN Add(q, Event("pcdata", <<>>), 0) ELSE q
  IN CASE ~r.ok -> r
       [] part.kind = "text"  -> [r EXCEPT !.text = @ \o part.data]
       [] part.kind = "open"  -> [Add(q, element, 1) EXCEPT
                                    !.open = <<[name |-> part.name, nsubs |-> 0]>> \o @]
       [] part.kind = "empty" -> Add(q, element, 1)
       [] part.kind = "close" /\ Len(q.open) > 1 /\ Fold(inner.name) = Fold(part.name) ->
            [closed EXCEPT !.open = Tail(@)]
       [] part.kind \in {"comment", "doctype"} -> Add(q, Event(part.kind, part.data), 0)
       [] part.kind = "cdata" -> Add(q, Event("cdata", part.data), 1)
       [] OTHER -> [r EXCEPT !.ok = FALSE]

Meaning ==
  LET r == FoldLeft(Reading, NothingRead, doc.parts)
  IN [ok  |-> r.ok /\ Len(r.open) = 1,
      out |-> IF r.text # <<>> \/ r.open[1].nsubs = 0
              THEN Append(r.out, Event("pcdata", r.text)) ELSE r.out]

(* parse_xml returns for the documents whose parts are whole and whose     *)
(* elements are closed by a tag of their own name, and throws for the      *)
(* others; either way it comes to an end.                                  *)
AcceptsWellFormed == <>(status = IF Meaning.ok THEN "returned" ELSE "error")

(* The calls made on the NativeXmlState name every element, attribute and  *)
(* text of the document, in order and with exactly its characters; an      *)
(* element without contents gets an empty text.                            *)
EventsMatchDocument ==
  status = "returned" =>
    SelectSeq(events, LAMBDA e : e.kind # "done") = Meaning.out

(* However far the parser looks ahead, jumps or calls itself, it stops at  *)
(* the NUL, and the line an error message would name counts every line     *)
(* break from the second character up to here once.  One that is the first *)
(* character is never counted: the loop looks for a line break only after  *)
(* it has moved on (NativeXmlImport.cpp:99, 333-335).                      *)
PlaceIsKept ==
  /\ p <= Len(doc.text) + 1
  /\ line = Cardinality({i \in 2..p : Char(i) = Newline})

(* The line is the number of line breaks up to here.                       *)
EveryBreakCounted == line = Cardinality({i \in 1..p : Char(i) = Newline})

(* A text that is cut out of the document, from start to here, begins in   *)
(* it and does not end before it begins: at no character does a state see  *)
(* the start another state, or another activation, has left.               *)
Cutting == {"PCDATA", "CDATA", "TAG_NAME", "ATTRIB_NAME", "ATTRIB_VAL", "CLOSE",
            "COMMENT", "DOCTYPE", "HEADER"}
SlicesAreOfTheText ==
  /\ top.state \in Cutting => top.start \in 1..p
  /\ top.state = "ATTRIB_VAL" => top.start + 1 <= p

(* Every activation below the top waits in CHILDS for the one above it,    *)
(* which reads the contents of that very element, and only the outermost   *)
(* reads no element: an end tag always has a caller to return to.          *)
CallersWait ==
  /\ activations # <<>>
  /\ activations[Len(activations)].parentname = TopLevel
  /\ \A i \in 1..Len(activations) - 1 :
       /\ activations[i + 1].state = "CHILDS"
       /\ activations[i].parentname = activations[i + 1].nodename
       /\ activations[i].parentname # TopLevel

(* NativeXmlImport.cpp:368: done() is called when an XML node is closed,   *)
(* so at the end the NativeXmlState is back at the document.               *)
EveryNodeDone == status = "returned" => cur = 0
=============================================================================
