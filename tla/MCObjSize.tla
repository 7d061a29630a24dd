----------------------------- MODULE MCObjSize -----------------------------
(* Small heaps of every shape that makes the two walks meet shared blocks, *)
(* cycles, opaque blocks and excluded blocks, and long lists whose colours *)
(* need the repeat forms of the log.                                       *)
EXTENDS ObjSize

CONSTANT ListLengths   \* bound: the lengths of the lists

Block(fields, opaque, color) == [fields |-> fields, opaque |-> opaque, color |-> color]

(* A root with three fields over two other blocks that point anywhere.     *)
SmallHeaps ==
  { << Block(f1, FALSE, c[1]), Block(f2, FALSE, c[2]), Block(f3, o, c[3]) >> :
      f1 \in {<<2, 3, 2>>, <<3, 2, NoBlock>>, <<NoBlock, 2, 3>>, <<2, 2, 3>>, <<3, NoBlock, 3>>},
      f2 \in {<<NoBlock>>, <<3, 1>>, <<3, NoBlock, 2>>, <<1>>},
      f3 \in {<<1>>, <<2>>, <<NoBlock, 2, 2>>},
      o \in BOOLEAN,
      c \in { <<Col_white, Col_white, Col_gray>>, <<Col_black, Col_white, Col_black>>,
              <<Col_black, Col_gray, Col_white>> } }

SmallCalls ==
  [ heap : SmallHeaps, v : {1}, scan : {<<>>, <<3>>, <<2, 3>>, <<3, 3>>}, reach : {<<3>>} ]
  \cup
  [ heap : SmallHeaps, v : {NoBlock, 2}, scan : {<<2>>, <<>>}, reach : {<<1, 3>>} ]

(* A list of n cells: the first k of them of one colour, the others of     *)
(* another one.                                                            *)
List(n, k, first, others) ==
  [ i \in 1..n |-> Block(IF i < n THEN <<NoBlock, i + 1>> ELSE <<NoBlock, NoBlock>>,
                         FALSE, IF i <= k THEN first ELSE others) ]

LongCalls ==
  [ heap : { List(n, k, first, others) :
               n \in ListLengths, k \in {0, 1, 40},
               first \in {Col_white, Col_black}, others \in {Col_white, Col_black} },
    v : {1}, scan : {<<>>, <<2>>}, reach : {<<2>>} ]

MCCalls == SmallCalls \cup LongCalls
=============================================================================
