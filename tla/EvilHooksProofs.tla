--------------------------- MODULE EvilHooksProofs ---------------------------
(***************************************************************************)
(* Proofs about EvilHooks, for any mods, conspiracies, kinds of hooks and  *)
(* headers: the mods a file asks for come first on the lists of hooks, and *)
(* mods that have hooks on every list are gone in the next file.           *)
(***************************************************************************)
EXTENDS EvilHooks, SequenceTheorems, FiniteSetTheorems, TLAPS

(***************************************************************************)
(* Type correctness.                                                       *)
(***************************************************************************)
FileType == [evil : BOOLEAN, asked : Seq(Mods), left : Seq(Mods),
             first : Seq(Owner), read : BOOLEAN, open : BOOLEAN]

\* What TypeOK says of the file, and of the other variables.
FileOK == /\ file \in FileType
          /\ Installed \in Nat
          /\ \A i \in 1 .. Len(file.left) : file.left[i] = file.asked[Installed + i]
          /\ ~file.open => file = NoFile
          /\ ~file.evil => file.asked = << >>

\* A file of mods of which none is installed yet, or that has no header.
LEMMA FreshFile ==
    ASSUME NEW f \in FileType, file' = f, f.left = f.asked, f.open \/ f = NoFile,
           f.evil \/ f.asked = << >>
    PROVE  FileOK' /\ Installed' = 0
<1>1. Len(f.asked) \in Nat BY DEF FileType
<1>2. Installed' = 0 BY <1>1 DEF Installed
<1>3. QED BY <1>2 DEF FileOK, FileType

LEMMA NoFileType == NoFile \in FileType /\ NoFile.left = << >> /\ NoFile.asked = << >>
BY DEF NoFile, FileType

LEMMA AskingFile ==
    ASSUME NEW asked \in Seq(Mods), NEW first \in Seq(Owner), NEW evil \in BOOLEAN,
           NEW read \in BOOLEAN
    PROVE  [evil |-> evil, asked |-> asked, left |-> asked, first |-> first, read |-> read,
            open |-> TRUE] \in FileType
BY DEF FileType

LEMMA Shifted ==
    ASSUME NEW l \in Nat, NEW a \in Nat, NEW n \in Nat, n = a - l, l > 0
    PROVE  /\ n + 1 \in 1 .. a
           /\ \A i \in 1 .. l - 1 : i + 1 \in 1 .. l /\ n + (i + 1) = (n + 1) + i
OBVIOUS

\* One more of the mods is installed.
LEMMA NextLeft ==
    ASSUME FileOK, file.left # << >>, file' = [file EXCEPT !.left = Tail(@)]
    PROVE  /\ FileOK' /\ Installed' = Installed + 1 /\ file'.asked = file.asked
           /\ Installed + 1 \in 1 .. Len(file.asked)
           /\ Head(file.left) = file.asked[Installed + 1] /\ Head(file.left) \in Mods
           /\ file.open /\ file.evil
<1>1. /\ file.left \in Seq(Mods) /\ file.asked \in Seq(Mods)
      /\ Len(file.left) \in Nat /\ Len(file.asked) \in Nat /\ Len(file.left) > 0
      /\ Tail(file.left) \in Seq(Mods) /\ Len(Tail(file.left)) = Len(file.left) - 1
      /\ \A i \in 1 .. Len(file.left) - 1 : Tail(file.left)[i] = file.left[i + 1]
      /\ Head(file.left) = file.left[1] /\ Head(file.left) \in Mods
  BY DEF FileOK, FileType
<1>2. /\ file' \in FileType /\ file'.asked = file.asked /\ file'.left = Tail(file.left)
      /\ file'.open = file.open /\ file'.evil = file.evil
  BY <1>1 DEF FileOK, FileType
<1>3. Installed \in Nat /\ Installed = Len(file.asked) - Len(file.left) BY DEF FileOK, Installed
<1>15. /\ Len(file.left) \in Nat /\ Len(file.asked) \in Nat /\ Len(file.left) > 0 /\ Installed \in Nat
       /\ Installed = Len(file.asked) - Len(file.left)
  BY <1>1, <1>3
<1>4. Installed' = Installed + 1
  <2>1. Installed' = Len(file.asked) - (Len(file.left) - 1) BY <1>1, <1>2 DEF Installed
  <2>2. QED BY <1>1, <1>3, <2>1
<1>5. \A i \in 1 .. Len(file.left) - 1 :
        i + 1 \in 1 .. Len(file.left) /\ Installed + (i + 1) = (Installed + 1) + i
  BY <1>15, Shifted
<1>6. \A i \in 1 .. Len(file'.left) : file'.left[i] = file'.asked[Installed' + i]
  BY <1>1, <1>2, <1>4, <1>5 DEF FileOK
<1>7. file.open
  BY <1>1, NoFileType DEF FileOK
<1>8. file.evil
  <2>1. Len(file.asked) # 0 BY <1>1, <1>3
  <2>2. Len(<< >>) = 0 BY EmptySeq
  <2>3. QED BY <2>1, <2>2 DEF FileOK
<1>9. Installed + 1 \in 1 .. Len(file.asked) BY <1>15, Shifted
<1>10. 1 \in 1 .. Len(file.left) BY <1>1
<1>11. Head(file.left) = file.asked[Installed + 1] BY <1>1, <1>10 DEF FileOK
<1>12. Installed' \in Nat BY <1>3, <1>4
<1>13. FileOK' BY <1>2, <1>6, <1>7, <1>8, <1>12 DEF FileOK
<1>14. QED BY <1>1, <1>2, <1>4, <1>7, <1>8, <1>9, <1>11, <1>13

\* What a step does to the file: nothing that matters to the mods it asks for, a fresh
\* one (or none), or the next of its mods.
LEMMA FileStep ==
    ASSUME TypeOK, Next
    PROVE  /\ FileOK'
           /\ \/ Installed' = 0
              \/ hooks' = hooks /\ Installed' = Installed /\ file'.asked = file.asked
              \/ InstallMod
<1>0. /\ FileOK /\ hooks \in [Kinds -> Seq(Owner)] /\ defaults \in Seq(Mods)
      /\ hooks[Transmuter] \in Seq(Owner)
  BY EvilAssumption DEF TypeOK, FileOK, FileType
<1>1. file' = file => FileOK' /\ Installed' = Installed BY <1>0 DEF FileOK, Installed
<1>2. file' = NoFile => FileOK' /\ Installed' = 0
  BY NoFileType, FreshFile
<1>3. CASE Request \/ EvilInit \/ EndRequest
  BY <1>1, <1>3 DEF Request, EvilInit, EndRequest
<1>4. CASE RunConspiracy
  <2>1. file' = file /\ file = NoFile BY <1>0, <1>4 DEF RunConspiracy, FileOK
  <2>2. QED BY <1>2, <2>1
<1>5. CASE UnknownMod \/ EndFile \/ FailFile
  BY <1>2, <1>5 DEF UnknownMod, EndFile, FailFile
<1>6. CASE InstallMod
  <2>1. file.left # << >> /\ file' = [file EXCEPT !.left = Tail(@)] BY <1>6 DEF InstallMod
  <2>2. QED BY <1>0, <1>6, <2>1, NextLeft
<1>7. CASE ReadToken
  <2>1. /\ file' = [file EXCEPT !.first = hooks[Transmuter], !.read = TRUE]
        /\ file.open /\ hooks' = hooks
    BY <1>7 DEF ReadToken, InBody
  <2>2. file' \in FileType BY <1>0, <2>1 DEF FileOK, FileType
  <2>3. /\ file'.asked = file.asked /\ file'.left = file.left /\ file'.open = file.open
        /\ file'.evil = file.evil
    BY <1>0, <2>1 DEF FileOK, FileType
  <2>4. Installed' = Installed BY <2>3 DEF Installed
  <2>5. FileOK' BY <1>0, <2>1, <2>2, <2>3, <2>4 DEF FileOK
  <2>6. QED BY <2>1, <2>3, <2>4, <2>5
<1>8. CASE StartFile
  <2>1. CASE file' = [evil |-> FALSE, asked |-> << >>, left |-> << >>,
                      first |-> hooks[Transmuter], read |-> TRUE, open |-> TRUE]
    <3>1. << >> \in Seq(Mods) OBVIOUS
    <3>2. file' \in FileType BY <1>0, <2>1, <3>1 DEF FileType
    <3>3. QED BY <2>1, <3>2, FreshFile
  <2>2. ASSUME NEW args \in Headers, NEW asked, asked = IF args = << >> THEN defaults ELSE args,
               file' = [evil |-> TRUE, asked |-> asked, left |-> asked,
                        first |-> IF args = << >> THEN hooks[Transmuter] ELSE << >>,
                        read |-> args = << >>, open |-> TRUE]
        PROVE  FileOK' /\ Installed' = 0
    <3>1. asked \in Seq(Mods) BY <1>0, <2>2, EvilAssumption
    <3>2. (IF args = << >> THEN hooks[Transmuter] ELSE << >>) \in Seq(Owner) BY <1>0
    <3>3. (args = << >>) \in BOOLEAN OBVIOUS
    <3>4. file' \in FileType BY <2>2, <3>1, <3>2, <3>3, AskingFile
    <3>5. file'.left = file'.asked /\ file'.open /\ file'.evil BY <2>2
    <3>6. QED BY <3>4, <3>5, FreshFile
  <2>3. QED BY <1>8, <2>1, <2>2 DEF StartFile
<1>9. QED BY <1>3, <1>4, <1>5, <1>6, <1>7, <1>8 DEF Next

LEMMA TypeInit == Init => TypeOK
<1> SUFFICES ASSUME Init PROVE TypeOK
  OBVIOUS
<1>1. /\ << >> \in Seq(Mods) /\ << >> \in Seq(Conspiracies) /\ << >> \in Seq(Owner)
      /\ 0 \in 0 .. MaxRequests /\ 0 \in 0 .. MaxFiles
  BY EvilAssumption
<1>2. file \in FileType /\ file.left = << >> /\ file.asked = << >> /\ file = NoFile
  BY NoFileType DEF Init
<1>3. Installed = 0 /\ Len(file.left) = 0 BY <1>2, EmptySeq DEF Installed
<1>4. hooks \in [Kinds -> Seq(Owner)] BY <1>1 DEF Init
<1>5. ~file.open BY <1>2 DEF NoFile
<1>6. defaults \in Seq(Mods) \ {<< >>} BY EvilAssumption DEF Init
<1>7. \A i \in 1 .. Len(file.left) : file.left[i] = file.asked[Installed + i] BY <1>3
<1>8. mods \subseteq Mods /\ hasMods \in BOOLEAN /\ phase = "idle" /\ todo = << >>
      /\ conspiracies = << >> /\ requests = 0 /\ files = 0
  BY DEF Init
<1>9. Installed \in Nat BY <1>3
<1> HIDE DEF Init
<1>10. QED BY <1>1, <1>2, <1>4, <1>5, <1>6, <1>7, <1>8, <1>9 DEF TypeOK, FileType

LEMMA TypeStep == TypeOK /\ [Next]_vars => TypeOK'
<1> SUFFICES ASSUME TypeOK, Next PROVE TypeOK'
  <2>1. TypeOK /\ UNCHANGED vars => TypeOK' BY DEF TypeOK, vars, Installed
  <2>2. QED BY <2>1
<1>1. FileOK' BY FileStep
<1>2. /\ mods \subseteq Mods /\ hooks \in [Kinds -> Seq(Owner)] /\ hasMods \in BOOLEAN
      /\ defaults \in Seq(Mods) \ {<< >>} /\ conspiracies \in Seq(Conspiracies)
      /\ phase \in {"idle", "conspire", "typing"} /\ todo \in Seq(Conspiracies)
      /\ phase # "conspire" => todo = << >>
      /\ phase = "idle" => ~file.open
      /\ requests \in 0 .. MaxRequests /\ files \in 0 .. MaxFiles /\ FileOK
  BY DEF TypeOK, FileOK, FileType
<1>3. \A o \in Owner : \A s \in Seq(Owner) : <<o>> \o s \in Seq(Owner) BY ConcatProperties
<1>4. mods' \subseteq Mods
  <2>1. CASE RunConspiracy
    <3>1. Head(todo) \in Conspiracies BY <1>2, <2>1 DEF RunConspiracy
    <3>2. QED BY <1>2, <2>1, <3>1, EvilAssumption DEF RunConspiracy
  <2>2. QED
    BY <1>2, <2>1, EvilAssumption DEF Next, Request, EvilInit, EndRequest, StartFile,
       InstallMod, UnknownMod, ReadToken, EndFile, FailFile
<1>5. hooks' \in [Kinds -> Seq(Owner)]
  <2>1. CASE RunConspiracy
    <3>1. Head(todo) \in Owner BY <1>2, <2>1 DEF RunConspiracy, Owner
    <3>2. hooks' = [k \in Kinds |-> IF k \in Quick[Head(todo)] THEN <<Head(todo)>> \o hooks[k]
                                                              ELSE hooks[k]]
      BY <2>1 DEF RunConspiracy
    <3>3. QED BY <1>2, <1>3, <3>1, <3>2
  <2>2. CASE InstallMod
    <3>1. Head(file.left) \in Owner BY <1>2, <2>2 DEF InstallMod, Owner
    <3>2. hooks' = [k \in Kinds |-> IF k \in Offers[Head(file.left)]
                                    THEN <<Head(file.left)>> \o hooks[k] ELSE hooks[k]]
      BY <2>2 DEF InstallMod, Applied
    <3>3. QED BY <1>2, <1>3, <3>1, <3>2
  <2>3. CASE StartFile BY <1>2, <2>3 DEF StartFile, Cleared
  <2>4. QED
    BY <1>2, <2>1, <2>2, <2>3 DEF Next, Request, EvilInit, EndRequest, UnknownMod, ReadToken,
       EndFile, FailFile
<1>6. hasMods' \in BOOLEAN
  BY <1>2 DEF Next, Request, EvilInit, EndRequest, UnknownMod, ReadToken, EndFile, FailFile,
              RunConspiracy, StartFile, InstallMod
<1>7. defaults' \in Seq(Mods) \ {<< >>}
  BY <1>2, EvilAssumption DEF Next, Request, EvilInit, EndRequest, UnknownMod, ReadToken,
     EndFile, FailFile, RunConspiracy, StartFile, InstallMod
<1>8. conspiracies' \in Seq(Conspiracies) /\ todo' \in Seq(Conspiracies)
  <2>1. CASE Request
    <3>1. \A c \in Conspiracies : <<c>> \o conspiracies \in Seq(Conspiracies)
      BY <1>2, ConcatProperties
    <3>2. QED BY <1>2, <2>1, <3>1 DEF Request
  <2>2. CASE RunConspiracy BY <1>2, <2>2 DEF RunConspiracy
  <2>3. << >> \in Seq(Conspiracies) OBVIOUS
  <2>4. QED
    BY <1>2, <2>1, <2>2, <2>3 DEF Next, EvilInit, EndRequest, UnknownMod, ReadToken, EndFile,
       FailFile, StartFile, InstallMod
<1>9. /\ phase' \in {"idle", "conspire", "typing"}
      /\ phase' # "conspire" => todo' = << >>
  BY <1>2 DEF Next, Request, EvilInit, EndRequest, UnknownMod, ReadToken, EndFile, FailFile,
              RunConspiracy, StartFile, InstallMod
<1>10. requests' \in 0 .. MaxRequests /\ files' \in 0 .. MaxFiles
  BY <1>2, EvilAssumption DEF Next, Request, EvilInit, EndRequest, UnknownMod, ReadToken,
     EndFile, FailFile, RunConspiracy, StartFile, InstallMod
<1>11. phase' = "idle" => ~file'.open
  <2>1. NoFile.open = FALSE BY DEF NoFile
  <2>2. CASE InstallMod
    <3>1. phase' = phase /\ file'.open = file.open BY <1>2, <2>2 DEF InstallMod, FileOK, FileType
    <3>2. QED BY <1>2, <3>1
  <2>3. CASE ReadToken
    <3>1. phase' = phase /\ file'.open = file.open BY <1>2, <2>3 DEF ReadToken, FileOK, FileType
    <3>2. QED BY <1>2, <3>1
  <2>4. QED
    BY <1>2, <2>1, <2>2, <2>3 DEF Next, Request, EvilInit, EndRequest, UnknownMod, EndFile,
       FailFile, RunConspiracy, StartFile
<1>12. QED BY <1>1, <1>4, <1>5, <1>6, <1>7, <1>8, <1>9, <1>10, <1>11
           DEF TypeOK, FileOK, FileType

\* The lists hold mods and conspiracies, and what is left of a header are its last mods.
THEOREM TypeCorrect == Spec => []TypeOK
BY TypeInit, TypeStep, PTL DEF Spec

-----------------------------------------------------------------------------
(***************************************************************************)
(* The mods a file asks for come first.  While the header is installed,    *)
(* the lists are led by the mods installed so far.                         *)
(***************************************************************************)
LEMMA LaterType ==
    ASSUME NEW asked, NEW k, NEW i \in Nat, NEW n \in Nat
    PROVE  /\ IsFiniteSet(Later(asked, k, i, n)) /\ Cardinality(Later(asked, k, i, n)) \in Nat
           /\ i = n => Cardinality(Later(asked, k, i, n)) = 0
<1>1. IsFiniteSet(i + 1 .. n) BY FS_Interval
<1>2. Later(asked, k, i, n) \in SUBSET (i + 1 .. n) BY DEF Later
<1>3. IsFiniteSet(Later(asked, k, i, n)) BY <1>1, <1>2, FS_Subset
<1>4. i = n => i + 1 .. n = {} OBVIOUS
<1>5. i = n => Later(asked, k, i, n) = {} BY <1>2, <1>4
<1>6. QED BY <1>3, <1>5, FS_CardinalityType, FS_EmptySet

\* A later mod moves those before it by one place, if it offers hooks of the kind.
LEMMA OneLater ==
    ASSUME NEW asked, NEW k, NEW n \in Nat, NEW i \in 1 .. n
    PROVE  Cardinality(Later(asked, k, i, n + 1)) =
             IF k \in Offers[asked[n + 1]] THEN Cardinality(Later(asked, k, i, n)) + 1
                                           ELSE Cardinality(Later(asked, k, i, n))
<1>1. i + 1 .. n + 1 = (i + 1 .. n) \cup {n + 1} /\ n + 1 \notin i + 1 .. n OBVIOUS
<1>2. CASE k \in Offers[asked[n + 1]]
  <2>1. Later(asked, k, i, n + 1) = Later(asked, k, i, n) \cup {n + 1}
    BY <1>1, <1>2 DEF Later
  <2>2. n + 1 \notin Later(asked, k, i, n) BY <1>1 DEF Later
  <2>3. IsFiniteSet(Later(asked, k, i, n)) BY LaterType
  <2>4. QED BY <1>2, <2>1, <2>2, <2>3, FS_AddElement
<1>3. CASE k \notin Offers[asked[n + 1]]
  <2>1. Later(asked, k, i, n + 1) = Later(asked, k, i, n) BY <1>1, <1>3 DEF Later
  <2>2. QED BY <1>3, <2>1
<1>4. QED BY <1>2, <1>3

\* What is put in front of a list.
LEMMA PutFirst ==
    ASSUME NEW S, NEW s \in Seq(S), NEW x \in S
    PROVE  /\ <<x>> \o s \in Seq(S) /\ Len(s) \in Nat /\ Len(<<x>> \o s) = Len(s) + 1
           /\ (<<x>> \o s)[1] = x
           /\ \A i \in 1 .. Len(s) : (<<x>> \o s)[i + 1] = s[i]
<1>1. <<x>> \in Seq(S) /\ Len(<<x>>) = 1 /\ <<x>>[1] = x OBVIOUS
<1>2. Len(s) \in Nat OBVIOUS
<1>3. /\ <<x>> \o s \in Seq(S) /\ Len(<<x>> \o s) = 1 + Len(s)
      /\ \A i \in 1 .. 1 + Len(s) : (<<x>> \o s)[i] = IF i <= 1 THEN <<x>>[i] ELSE s[i - 1]
  BY <1>1, ConcatProperties
<1>4. \A i \in 1 .. Len(s) : i + 1 \in 1 .. 1 + Len(s) /\ ~(i + 1 <= 1) /\ (i + 1) - 1 = i
  BY <1>2
<1>5. 1 \in 1 .. 1 + Len(s) BY <1>2
<1>6. QED BY <1>1, <1>2, <1>3, <1>4, <1>5

\* apply_mod of the next mod: the list is led by one mod more.
LEMMA LedByNext ==
    ASSUME NEW list \in Seq(Owner), NEW asked \in Seq(Mods), NEW k, NEW n \in Nat,
           n + 1 \in 1 .. Len(asked), LedBy(list, asked, k, n),
           NEW new, new = IF k \in Offers[asked[n + 1]] THEN <<asked[n + 1]>> \o list ELSE list
    PROVE  LedBy(new, asked, k, n + 1)
<1> SUFFICES ASSUME NEW i \in 1 .. n + 1, k \in Offers[asked[i]]
             PROVE  /\ Cardinality(Later(asked, k, i, n + 1)) + 1 <= Len(new)
                    /\ new[Cardinality(Later(asked, k, i, n + 1)) + 1] = asked[i]
  BY DEF LedBy
<1>0. asked[n + 1] \in Owner /\ Len(list) \in Nat BY DEF Owner
<1>1. CASE i = n + 1
  <2>1. Cardinality(Later(asked, k, i, n + 1)) = 0 BY <1>1, LaterType
  <2>2. new = <<asked[n + 1]>> \o list BY <1>1
  <2>3. Len(new) = Len(list) + 1 /\ new[1] = asked[n + 1] BY <1>0, <2>2, PutFirst
  <2>4. QED BY <1>0, <1>1, <2>1, <2>3
<1>2. CASE i # n + 1
  <2> DEFINE place == Cardinality(Later(asked, k, i, n)) + 1
  <2>1. i \in 1 .. n /\ i \in Nat BY <1>2
  <2>2. Cardinality(Later(asked, k, i, n)) \in Nat BY <2>1, LaterType
  <2>3. place \in 1 .. Len(list) /\ list[place] = asked[i]
    <3>1. place <= Len(list) /\ list[place] = asked[i] BY <2>1 DEF LedBy
    <3>2. QED BY <1>0, <2>2, <3>1
  <2>4. CASE k \in Offers[asked[n + 1]]
    <3>1. Cardinality(Later(asked, k, i, n + 1)) + 1 = place + 1 BY <2>1, <2>4, OneLater
    <3>2. new = <<asked[n + 1]>> \o list BY <2>4
    <3> HIDE DEF place
    <3>3. Len(new) = Len(list) + 1 /\ new[place + 1] = list[place]
      BY <1>0, <2>3, <3>2, PutFirst
    <3>4. place + 1 <= Len(list) + 1 BY <1>0, <2>3
    <3>5. QED BY <2>3, <3>1, <3>3, <3>4
  <2>5. CASE k \notin Offers[asked[n + 1]]
    <3>1. Cardinality(Later(asked, k, i, n + 1)) + 1 = place BY <2>1, <2>5, OneLater
    <3>2. new = list BY <2>5
    <3> HIDE DEF place
    <3>3. place <= Len(list) BY <1>0, <2>3
    <3>4. QED BY <2>3, <3>1, <3>2, <3>3
  <2>6. QED BY <2>4, <2>5
<1>3. QED BY <1>1, <1>2

InstallInv == TypeOK /\ \A k \in Kinds : LedBy(hooks[k], file.asked, k, Installed)

LEMMA InstallStep == InstallInv /\ [Next]_vars => InstallInv'
<1> SUFFICES ASSUME InstallInv, Next PROVE \A k \in Kinds : LedBy(hooks'[k], file'.asked, k, Installed')
  <2>1. InstallInv /\ UNCHANGED vars => InstallInv'
    <3> SUFFICES ASSUME InstallInv, UNCHANGED vars PROVE InstallInv'
      OBVIOUS
    <3>1. TypeOK' BY TypeStep DEF InstallInv
    <3>2. hooks' = hooks /\ file' = file BY DEF vars
    <3>3. Installed' = Installed BY <3>2 DEF Installed
    <3>4. QED BY <3>1, <3>2, <3>3 DEF InstallInv
  <2>2. QED BY <2>1, TypeStep DEF InstallInv
<1> TAKE k \in Kinds
<1>0. TypeOK /\ FileOK /\ LedBy(hooks[k], file.asked, k, Installed) /\ hooks[k] \in Seq(Owner)
  BY DEF InstallInv, TypeOK, FileOK, FileType
<1>1. CASE Installed' = 0
  <2>1. 1 .. 0 = {} OBVIOUS
  <2>2. QED BY <1>1, <2>1 DEF LedBy
<1>2. CASE hooks' = hooks /\ Installed' = Installed /\ file'.asked = file.asked
  BY <1>0, <1>2
<1>3. CASE InstallMod
  <2>1. file.left # << >> /\ file' = [file EXCEPT !.left = Tail(@)] BY <1>3 DEF InstallMod
  <2>2. /\ Installed' = Installed + 1 /\ file'.asked = file.asked
        /\ Installed + 1 \in 1 .. Len(file.asked)
        /\ Head(file.left) = file.asked[Installed + 1]
    BY <1>0, <2>1, NextLeft
  <2>3. hooks'[k] = IF k \in Offers[Head(file.left)] THEN <<Head(file.left)>> \o hooks[k]
                                                     ELSE hooks[k]
    BY <1>3 DEF InstallMod, Applied
  <2>4. Installed \in Nat /\ file.asked \in Seq(Mods) BY <1>0 DEF FileOK, FileType
  <2>5. QED BY <1>0, <2>2, <2>3, <2>4, LedByNext
<1>4. QED BY <1>0, <1>1, <1>2, <1>3, FileStep

\* In the body of a file that begins with #evil the mods it asks for come before every
\* hook left by earlier files and by conspiracies, one named later before one named
\* earlier, whatever was parsed or failed before.
THEOREM AskedFirst == Spec => []AskedModsFirst
<1>1. Init => InstallInv
  <2> SUFFICES ASSUME Init PROVE \A k \in Kinds : LedBy(hooks[k], file.asked, k, Installed)
    BY TypeInit DEF InstallInv
  <2>1. file.left = << >> /\ file.asked = << >> BY NoFileType DEF Init
  <2>2. Installed = 0 /\ 1 .. 0 = {} BY <2>1, EmptySeq DEF Installed
  <2>3. QED BY <2>2 DEF LedBy
<1>2. InstallInv => AskedModsFirst
  <2> SUFFICES ASSUME InstallInv, file.left = << >>
               PROVE  \A k \in Kinds : LedBy(hooks[k], file.asked, k, Len(file.asked))
    BY DEF AskedModsFirst, InBody
  <2>1. Len(file.left) = 0 BY EmptySeq
  <2>2. file.asked \in Seq(Mods) BY DEF InstallInv, TypeOK
  <2>3. Len(file.asked) \in Nat BY <2>2
  <2>4. Installed = Len(file.asked) BY <2>1, <2>3 DEF Installed
  <2>5. QED BY <2>4 DEF InstallInv
<1>3. QED BY <1>1, <1>2, InstallStep, PTL DEF Spec

-----------------------------------------------------------------------------
(***************************************************************************)
(* Mods that together have hooks on every list are cleared by the next     *)
(* file: as long as has_mods is not set, one list holds no mod's hook.     *)
(***************************************************************************)
OnlyConspiracies(list) == ToSet(list) \cap Mods = {}

ClearInv == /\ TypeOK
            /\ ~hasMods => \E k \in Kinds : OnlyConspiracies(hooks[k])
            /\ file.open /\ ~file.evil => ~hasMods

LEMMA Emptied == OnlyConspiracies(<< >>)
<1>1. ToSet(<< >>) = {} BY EmptySeq DEF ToSet
<1>2. QED BY <1>1 DEF OnlyConspiracies

\* A quick hook in front of a list adds no mod to it.
LEMMA QuickHookAdded ==
    ASSUME NEW s \in Seq(Owner), NEW c \in Conspiracies, OnlyConspiracies(s)
    PROVE  OnlyConspiracies(<<c>> \o s)
<1> SUFFICES ASSUME NEW m \in Mods, NEW i \in 1 .. Len(<<c>> \o s), (<<c>> \o s)[i] = m
             PROVE  FALSE
  BY DEF OnlyConspiracies, ToSet
<1>0. c \in Owner /\ c # m BY EvilAssumption DEF Owner
<1> DEFINE new == <<c>> \o s
<1>1. /\ Len(s) \in Nat /\ Len(new) = Len(s) + 1 /\ new[1] = c
      /\ \A j \in 1 .. Len(s) : new[j + 1] = s[j]
  BY <1>0, PutFirst
<1>2. i \in 1 .. Len(new) /\ new[i] = m OBVIOUS
<1> HIDE DEF new
<1>3. i # 1 BY <1>0, <1>1, <1>2
<1>4. i - 1 \in 1 .. Len(s) /\ (i - 1) + 1 = i BY <1>1, <1>2, <1>3
<1>5. s[i - 1] = m BY <1>1, <1>2, <1>4
<1>6. QED BY <1>4, <1>5 DEF OnlyConspiracies, ToSet

LEMMA ClearStep == ClearInv /\ [Next]_vars => ClearInv'
<1> SUFFICES ASSUME ClearInv, Next
             PROVE  /\ ~hasMods' => \E k \in Kinds : OnlyConspiracies(hooks'[k])
                    /\ file'.open /\ ~file'.evil => ~hasMods'
  <2>1. ClearInv /\ UNCHANGED vars => ClearInv' BY TypeStep DEF ClearInv, vars
  <2>2. QED BY <2>1, TypeStep DEF ClearInv
<1>0. TypeOK /\ FileOK /\ hooks \in [Kinds -> Seq(Owner)] /\ Transmuter \in Kinds /\ hasMods \in BOOLEAN
  BY EvilAssumption DEF ClearInv, TypeOK, FileOK, FileType
<1>1. ~NoFile.open BY DEF NoFile
<1>2. CASE hooks' = hooks /\ hasMods' = hasMods /\ (file' = file \/ file' = NoFile)
  BY <1>1, <1>2 DEF ClearInv
<1>3. CASE RunConspiracy
  <2>1. Head(todo) \in Conspiracies BY <1>0, <1>3 DEF RunConspiracy, TypeOK
  <2>2. /\ hasMods' = hasMods /\ file' = file
        /\ hooks' = [k \in Kinds |-> IF k \in Quick[Head(todo)] THEN <<Head(todo)>> \o hooks[k]
                                                                ELSE hooks[k]]
    BY <1>3 DEF RunConspiracy
  <2>3. \A k \in Kinds : OnlyConspiracies(hooks[k]) => OnlyConspiracies(hooks'[k])
    BY <1>0, <2>1, <2>2, QuickHookAdded
  <2>4. QED BY <2>2, <2>3 DEF ClearInv
<1>4. CASE StartFile
  <2>1. hasMods' = FALSE /\ hooks' = Cleared BY <1>4 DEF StartFile
  <2>2. CASE hasMods
    <3>1. hooks'[Transmuter] = << >> BY <1>0, <2>1, <2>2 DEF Cleared
    <3>2. QED BY <1>0, <2>1, <3>1, Emptied
  <2>3. CASE ~hasMods
    <3>1. hooks' = hooks BY <2>1, <2>3 DEF Cleared
    <3>2. QED BY <2>1, <2>3, <3>1 DEF ClearInv
  <2>4. QED BY <2>2, <2>3
<1>5. CASE InstallMod
  <2>1. /\ file.left # << >> /\ file' = [file EXCEPT !.left = Tail(@)]
        /\ hasMods' = (hasMods \/ HasAnyHooks(hooks'))
    BY <1>5 DEF InstallMod
  <2>2. file.evil /\ file'.evil = file.evil
    BY <1>0, <2>1, NextLeft DEF FileOK, FileType
  <2>3. ~hasMods' => \E k \in Kinds : hooks'[k] = << >> BY <2>1 DEF HasAnyHooks
  <2>4. QED BY <2>2, <2>3, Emptied
<1>6. CASE ReadToken
  <2>1. /\ hooks' = hooks /\ hasMods' = hasMods
        /\ file' = [file EXCEPT !.first = hooks[Transmuter], !.read = TRUE]
    BY <1>6 DEF ReadToken
  <2>2. file'.open = file.open /\ file'.evil = file.evil BY <1>0, <2>1 DEF FileOK, FileType
  <2>3. QED BY <2>1, <2>2 DEF ClearInv
<1>7. QED
  BY <1>2, <1>3, <1>4, <1>5, <1>6 DEF Next, Request, EvilInit, EndRequest, UnknownMod, EndFile,
     FailFile

\* Mods that together have hooks on every list do not outlive the file that asked for
\* them, whatever failed or was registered meanwhile: a file without #evil finds a list
\* with no mod's hook, because has_mods is set by the mod that fills the last list.
THEOREM CompleteSetsCleared == Spec => []CompleteSetsAreCleared
<1>1. Init => ClearInv
  <2> SUFFICES ASSUME Init PROVE ClearInv
    OBVIOUS
  <2>1. hooks[Transmuter] = << >> /\ ~file.open /\ Transmuter \in Kinds
    BY EvilAssumption DEF Init, NoFile
  <2>2. QED BY <2>1, TypeInit, Emptied DEF ClearInv
<1>2. ClearInv => CompleteSetsAreCleared
  BY DEF ClearInv, CompleteSetsAreCleared, InBody, OnlyConspiracies
<1>3. QED BY <1>1, <1>2, ClearStep, PTL DEF Spec
=============================================================================
