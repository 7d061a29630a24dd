---------------------------- MODULE MCXmlParser ----------------------------
(* Documents put together from parts, whole and broken ones.               *)
EXTENDS XmlParser, TLC

CONSTANTS MaxParts,   \* bound: parts of a document over all kinds
          MaxCore     \* bound: parts of a document of tags and text only

MCNameChars == {"a", "A", "b", "x", "-", "D", "CDATA", "DOCTYPE"}

(* A and a differ only in case.                                            *)
MCFold(name) == [i \in DOMAIN name |-> IF name[i] = "A" THEN "a" ELSE name[i]]

Part(kind, name, data, text) == [kind |-> kind, name |-> name, data |-> data, text |-> text]

CoreParts ==
  { Part("open", <<"a">>, {}, <<"<", "a", ">">>),
    Part("close", <<"A">>, {}, <<"<", "/", "A", " ", ">">>),
    Part("open", <<"b">>, {<<<<"x">>, <<">", "nl", "'">>>>},
         <<"<", " ", "b", " ", "x", "=", "\"", ">", "nl", "'", "\"", ">">>),
    Part("close", <<"b">>, {}, <<"<", "/", "b", ">">>),
    Part("text", <<>>, <<"a", "nl">>, <<"a", "nl">>) }

OtherParts ==
  { Part("text", <<>>, <<"nl", "b">>, <<"nl", "b">>),
    Part("empty", <<"a", "-">>, {<<<<"x">>, <<>>>>, <<<<"a">>, <<"\"">>>>},
         <<"<", "a", "-", " ", "x", "=", "'", "'", "a", "=", "'", "\"", "'", "/", ">">>),
    Part("comment", <<>>, <<"-", ">", "-">>,
         <<"<", "!", "-", "-", "-", ">", "-", "-", "-", ">">>),
    Part("comment", <<>>, <<"?", "a", "nl", ">", "?">>, <<"<", "?", "a", "nl", ">", "?", ">">>),
    Part("doctype", <<>>, <<" ", "[", ">", "]">>, <<"<", "!", "DOCTYPE", " ", "[", ">", "]", ">">>),
    Part("cdata", <<>>, <<"]", "<">>, <<"<", "!", "[", "CDATA", "[", "]", "<", "]", "]", ">">>) }

Whole == CoreParts \cup OtherParts

Broken(text) == Part("broken", <<>>, {}, text)
BrokenParts ==
  { Broken(t) : t \in {
      <<"<", "a", " ", "x", "=", "'", "'", "x", "=", "'", "'", ">">>,  \* the attribute twice
      <<"<", "a", " ", "x", ">">>, <<"<", "a", " ", "x", "=", "a", ">">>,
      <<"<", "a", " ", "=", ">">>, <<"<", "a", "/", "a">>,
      <<"<", "=">>, <<"<", "/", ">">>, <<"<", "/", "a", "<", ">">>,
      <<"<", "!", "-", ">">>, <<"<", "!", "D">>, <<"<", "!", "[", "x">> } }

(* The beginnings of a part, for documents that end in the middle of one.  *)
Cut ==
  UNION { { Broken(SubSeq(part.text, 1, n)) : n \in 1..Len(part.text) - 1 } :
            part \in {q \in Whole : q.kind # "text"} }

Document(parts) ==
  [parts |-> parts, text |-> FoldLeft(LAMBDA t, part : t \o part.text, <<>>, parts)]

MCDocuments ==
  { Document(parts) :
      parts \in SeqOf(Whole, MaxParts)
                \cup SeqOf(CoreParts, MaxCore)
                \cup { s \o <<b>> : s \in SeqOf(CoreParts, 2), b \in Cut \cup BrokenParts }
                \cup { <<b>> \o s : s \in SeqOf(CoreParts, 1), b \in BrokenParts } }
=============================================================================
