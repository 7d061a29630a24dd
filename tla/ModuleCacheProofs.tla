------------------------- MODULE ModuleCacheProofs -------------------------
(***************************************************************************)
(* Proofs about ModuleCache, for any modules with any dependencies, and    *)
(* any number of requests and changes: what check_module accepts can be    *)
(* reused, and what a request has loaded fits together.                    *)
(***************************************************************************)
EXTENDS ModuleCache, SequenceTheorems, TLAPS

(* Files get newer, and one that is shadowed stays shadowed.               *)
FilesAge ==
    /\ \A m \in Modules : disk[m].hides < disk[m].time
    /\ typing => \A m \in Modules :
         /\ started[m] \in File
         /\ started[m].hides < started[m].time /\ started[m].time <= disk[m].time
         /\ started[m].hides # 0 => disk[m].hides = started[m].hides
         /\ started[m].hides = 0 /\ disk[m].hides # 0 => disk[m].hides >= started[m].time

(* The cache is from earlier compilations.                                 *)
CacheEarlier ==
    /\ typing => compilation_step >= 1
    /\ \A m \in Modules : cache[m] # None =>
         /\ cache[m].checked <= compilation_step
         /\ cache[m].born <= compilation_step
         /\ typing => cache[m].born < compilation_step

(* What a request reuses is what is cached, and what it has typed will     *)
(* not be reused.                                                          *)
ContextFitsCache ==
    /\ ~typing => context = NoModules
    /\ \A m \in Modules : IsReused(m) =>
         /\ cache[m] # None /\ changed # None
         /\ cache[m].file = context[m].file /\ cache[m].born = context[m].born
    /\ \A m \in Modules : IsTyped(m) => cache[m] = None \/ cache[m].state = "bad"

(* Modules that were accepted in this compilation are in the context.      *)
AcceptedReused ==
    typing => \A m \in Modules :
      cache[m] # None /\ cache[m].state = "good" /\ cache[m].checked = compilation_step
        => IsReused(m)

(* The walk of check_module: what it has passed is assumed to be clean, is *)
(* part of what the root depends on, and depends on nothing else but on    *)
(* what is left to check.                                                  *)
Passed == Checking \cup unknown
Root == stack[1].m
Clean(m) == m \in Passed \/ IsReused(m)

WalkOK ==
    /\ stack = << >> => unknown = {}
    /\ stack # << >> => typing /\ changed # None /\ context[Root] = None
    /\ \A m \in Passed :
         /\ m \in Reach(Root)
         /\ cache[m] # None /\ cache[m].state = "unknown" /\ cache[m].checked = compilation_step

WalkClosed ==
    /\ \A m \in unknown : \A d \in cache[m].file.imports : Clean(d)
    /\ \A i \in 1 .. Len(stack) :
         /\ stack[i].deps \subseteq cache[stack[i].m].file.imports
         /\ \A d \in cache[stack[i].m].file.imports \ stack[i].deps : Clean(d)

(* What it has passed is not older than the files when the request came,   *)
(* nor shadowed in a directory known to have changed.                      *)
NotOlder(file, then) ==
    file.time >= IF then.hides # 0 /\ file.hides = 0 THEN then.hides ELSE then.time

WalkCurrent ==
    \A m \in Passed :
      /\ NotOlder(cache[m].file, started[m])
      /\ changed = TRUE /\ started[m].hides # 0 => cache[m].file.hides # 0

Fits ==
    /\ CacheEarlier /\ DependenciesCached /\ ContextFitsCache /\ AcceptedReused
    /\ OneGeneration /\ CleanMeansUnchanged /\ ShadowsNoticed
Walk == WalkOK /\ WalkClosed /\ UnknownIsCurrent /\ WalkCurrent
IInv == TypeOK /\ FilesAge /\ Fits /\ Walk

-----------------------------------------------------------------------------
(* The stack of check_module. *)

Frame == [m : Modules, deps : SUBSET Modules]

LEMMA Ends ==
    ASSUME NEW s \in Seq(Frame), s # << >>
    PROVE  /\ Len(s) \in Nat \ {0} /\ 1 \in 1 .. Len(s) /\ Len(s) \in 1 .. Len(s)
           /\ Last(s) = s[Len(s)] /\ Head(s) = s[1]
           /\ \A i \in 1 .. Len(s) : s[i] \in Frame /\ s[i].m \in Modules /\ s[i].deps \subseteq Modules
<1>1. Len(s) \in Nat \ {0}
  BY EmptySeq, LenProperties
<1>2. \A i \in 1 .. Len(s) : s[i] \in Frame
  BY ElementOfSeq
<1>. QED
  BY <1>1, <1>2 DEF Last, Frame

(* The stack when the dependency d of its top has been looked at.          *)
LeftAt(s, d) == [s EXCEPT ![Len(s)].deps = @ \ {d}]

LEMMA OneLess ==
    ASSUME NEW s \in Seq(Frame), s # << >>, NEW d \in Modules
    PROVE  /\ LeftAt(s, d) \in Seq(Frame) /\ Len(LeftAt(s, d)) = Len(s)
           /\ \A i \in 1 .. Len(s) :
                /\ LeftAt(s, d)[i].m = s[i].m
                /\ LeftAt(s, d)[i].deps = IF i = Len(s) THEN s[i].deps \ {d} ELSE s[i].deps
<1>. DEFINE t == LeftAt(s, d)
<1>1. /\ Len(s) \in 1 .. Len(s) /\ Len(s) \in Nat
      /\ \A i \in 1 .. Len(s) : s[i] \in Frame
  BY Ends
<1>2. s \in [1 .. Len(s) -> Frame]
  BY LenProperties, <1>1
<1>3. t \in [1 .. Len(s) -> Frame]
  BY <1>1, <1>2 DEF Frame, LeftAt
<1>4. t \in Seq(Frame) /\ Len(t) = Len(s)
  BY <1>1, <1>3, IsASeq, LenProperties
<1>5. \A i \in 1 .. Len(s) : /\ t[i].m = s[i].m
                             /\ t[i].deps = IF i = Len(s) THEN s[i].deps \ {d} ELSE s[i].deps
  BY <1>1, <1>2 DEF Frame, LeftAt
<1>. HIDE DEF t
<1>. QED
  BY <1>4, <1>5 DEF t

LEMMA OneMore ==
    ASSUME NEW s \in Seq(Frame), NEW f \in Frame
    PROVE  /\ Append(s, f) \in Seq(Frame) /\ Len(Append(s, f)) = Len(s) + 1
           /\ \A i \in 1 .. Len(s) : Append(s, f)[i] = s[i]
           /\ Append(s, f)[Len(s) + 1] = f
  BY AppendProperties

LEMMA Shorter ==
    ASSUME NEW s \in Seq(Frame), Len(s) > 1
    PROVE  /\ Front(s) \in Seq(Frame) /\ Len(Front(s)) = Len(s) - 1 /\ Front(s) # << >>
           /\ \A i \in 1 .. Len(s) - 1 : Front(s)[i] = s[i]
<1>1. Len(s) \in Nat /\ Len(s) - 1 \in Nat /\ Len(s) - 1 >= 1
  BY LenProperties
<1>2. \A i \in 1 .. Len(s) - 1 : i \in 1 .. Len(s) /\ s[i] \in Frame
  BY <1>1, ElementOfSeq
<1>3. Front(s) = [i \in 1 .. Len(s) - 1 |-> s[i]]
  BY <1>1 DEF Front
<1>4. Front(s) \in Seq(Frame) /\ Len(Front(s)) = Len(s) - 1
  BY <1>1, <1>2, <1>3, IsASeq, LenProperties
<1>5. \A i \in 1 .. Len(s) - 1 : Front(s)[i] = s[i]
  BY <1>3
<1>6. Front(s) # << >>
  BY <1>1, <1>4
<1>. QED
  BY <1>4, <1>5, <1>6

-----------------------------------------------------------------------------
(* What a module depends on. *)

Closed(S) == \A y \in S : cache[y] = None \/ cache[y].file.imports \subseteq S

LEMMA ReachSelf == ASSUME NEW m \in Modules PROVE m \in Reach(m)
  BY DEF Reach

LEMMA ReachInside ==
    ASSUME NEW m \in Modules, NEW S \in SUBSET Modules, m \in S, Closed(S)
    PROVE  Reach(m) \subseteq S
  BY DEF Reach, Closed

LEMMA ReachStep ==
    ASSUME NEW m \in Modules, NEW y \in Reach(m), cache[y] # None,
           NEW d \in cache[y].file.imports, d \in Modules
    PROVE  d \in Reach(m)
  BY DEF Reach

(* What the steps of check_module do to the cache: no module comes, goes   *)
(* or becomes another.                                                     *)
ModulesKept ==
    \A x \in Modules :
      /\ cache[x] # None <=> cache'[x] # None
      /\ cache[x] # None => cache'[x].file = cache[x].file /\ cache'[x].born = cache[x].born

LEMMA ReachKept == ASSUME NEW m \in Modules, ModulesKept PROVE Reach(m)' = Reach(m)
<1>1. \A S \in SUBSET Modules :
        (\A y \in S : cache'[y] = None \/ cache'[y].file.imports \subseteq S)
          <=> (\A y \in S : cache[y] = None \/ cache[y].file.imports \subseteq S)
  BY DEF ModulesKept
<1>. QED
  BY <1>1 DEF Reach

-----------------------------------------------------------------------------
(* The modules of the cache, and their states. *)

LEMMA CachedModule ==
    ASSUME TypeOK, NEW x \in Modules, cache[x] # None
    PROVE  /\ cache[x] \in Module
           /\ cache[x].file \in File /\ cache[x].file.time \in Nat /\ cache[x].file.hides \in Nat
           /\ cache[x].file.imports \subseteq Modules
           /\ cache[x].born \in Nat /\ cache[x].checked \in Nat
  BY CacheAssumption DEF TypeOK, Module, File

LEMMA LoadedModule ==
    ASSUME TypeOK, NEW x \in Modules, context[x] # None
    PROVE  /\ context[x] \in Loaded
           /\ context[x].file \in File /\ context[x].file.time \in Nat
           /\ context[x].file.hides \in Nat /\ context[x].file.imports \subseteq Modules
           /\ context[x].born \in Nat
  BY CacheAssumption DEF TypeOK, Loaded, File

(* What Marked, Refused, Accepted and Taint do to a module.                *)
MarkedAs(x, s, c) ==
    /\ cache'[x] \in Module
    /\ cache'[x].file = cache[x].file /\ cache'[x].born = cache[x].born
    /\ cache'[x].state = s /\ cache'[x].checked = c

LEMMA RecordedAs ==
    ASSUME NEW x \in Modules, cache[x] \in Module, NEW s \in {"good", "unknown", "bad"},
           NEW c \in 0 .. MaxRequests, cache'[x] = [cache[x] EXCEPT !.state = s, !.checked = c]
    PROVE  MarkedAs(x, s, c) /\ cache'[x] # None
  BY NoneAssumption DEF MarkedAs, Module

LEMMA MarkedOne ==
    ASSUME TypeOK, NEW m \in Modules, NEW s \in {"good", "unknown", "bad"}, cache[m] # None,
           cache' = Marked(m, s)
    PROVE  /\ ModulesKept /\ MarkedAs(m, s, compilation_step)
           /\ \A x \in Modules \ {m} : cache'[x] = cache[x]
           /\ cache' \in [Modules -> Module \cup {None}]
<1>1. cache \in [Modules -> Module \cup {None}] /\ cache[m] \in Module
      /\ compilation_step \in 0 .. MaxRequests
  BY CachedModule DEF TypeOK
<1>2. DEFINE r == [cache[m] EXCEPT !.state = s, !.checked = compilation_step]
<1>3. r \in Module /\ r.file = cache[m].file /\ r.born = cache[m].born
      /\ r.state = s /\ r.checked = compilation_step
  BY <1>1 DEF Module
<1>4. cache' = [cache EXCEPT ![m] = r]
  BY <1>1 DEF Marked
<1>. HIDE DEF r
<1>5. cache'[m] = r /\ \A x \in Modules \ {m} : cache'[x] = cache[x]
  BY <1>1, <1>4
<1>6. r # None
  BY <1>3, NoneAssumption
<1>. QED
  BY <1>1, <1>3, <1>4, <1>5, <1>6 DEF ModulesKept, MarkedAs

LEMMA TaintedOne ==
    ASSUME TypeOK, NEW m \in Modules, Taint(m)
    PROVE  /\ ModulesKept /\ MarkedAs(m, "bad", cache[m].checked)
           /\ \A x \in Modules \ {m} : cache'[x] = cache[x]
           /\ cache' \in [Modules -> Module \cup {None}]
<1>1. cache \in [Modules -> Module \cup {None}] /\ cache[m] \in Module
  BY CachedModule DEF TypeOK, Taint
<1>2. DEFINE r == [cache[m] EXCEPT !.state = "bad"]
<1>3. r \in Module /\ r.file = cache[m].file /\ r.born = cache[m].born
      /\ r.state = "bad" /\ r.checked = cache[m].checked
  BY <1>1 DEF Module
<1>4. cache' = [cache EXCEPT ![m] = r]
  BY <1>1 DEF Taint
<1>. HIDE DEF r
<1>5. cache'[m] = r /\ \A x \in Modules \ {m} : cache'[x] = cache[x]
  BY <1>1, <1>4
<1>6. r # None
  BY <1>3, NoneAssumption
<1>. QED
  BY <1>1, <1>3, <1>4, <1>5, <1>6 DEF ModulesKept, MarkedAs, Taint

LEMMA RefusedAll ==
    ASSUME TypeOK, CacheEarlier, typing, NEW d \in Modules, cache[d] # None,
           \A x \in Passed : x \in Modules /\ cache[x] # None, cache' = Refused(d)
    PROVE  /\ ModulesKept
           /\ \A x \in Checking \cup {d} : MarkedAs(x, "bad", compilation_step)
           /\ \A x \in unknown \ (Checking \cup {d}) : MarkedAs(x, "good", compilation_step - 1)
           /\ \A x \in Modules \ (Passed \cup {d}) : cache'[x] = cache[x]
           /\ cache' \in [Modules -> Module \cup {None}]
<1>1. /\ cache \in [Modules -> Module \cup {None}]
      /\ compilation_step \in 0 .. MaxRequests /\ compilation_step - 1 \in 0 .. MaxRequests
  BY CacheAssumption DEF TypeOK, CacheEarlier
<1>2. \A x \in Passed \cup {d} : x \in Modules /\ cache[x] # None /\ cache[x] \in Module
  BY CachedModule
<1>3. ASSUME NEW x \in Checking \cup {d}
      PROVE  MarkedAs(x, "bad", compilation_step) /\ cache'[x] # None
  <2>1. x \in Modules /\ cache[x] \in Module
    BY <1>2 DEF Passed
  <2>2. cache'[x] = Marked(x, "bad")[x]
    BY <2>1 DEF Refused
  <2>3. cache'[x] = [cache[x] EXCEPT !.state = "bad", !.checked = compilation_step]
    BY <1>1, <2>1, <2>2 DEF Marked
  <2>. QED
    BY <1>1, <2>1, <2>3, RecordedAs
<1>4. ASSUME NEW x \in unknown \ (Checking \cup {d})
      PROVE  MarkedAs(x, "good", compilation_step - 1) /\ cache'[x] # None
  <2>1. x \in Modules /\ cache[x] \in Module
    BY <1>2 DEF Passed
  <2>2. cache'[x] = [cache[x] EXCEPT !.state = "good", !.checked = compilation_step - 1]
    BY <2>1 DEF Refused
  <2>. QED
    BY <1>1, <2>1, <2>2, RecordedAs
<1>5. \A x \in Modules \ (Passed \cup {d}) : cache'[x] = cache[x]
  BY DEF Refused, Passed
<1>6. ModulesKept
  BY <1>2, <1>3, <1>4, <1>5 DEF ModulesKept, MarkedAs, Passed
<1>7. cache' = [x \in Modules |-> cache'[x]]
  BY DEF Refused
<1>8. \A x \in Modules : cache'[x] \in Module \cup {None}
  BY <1>1, <1>3, <1>4, <1>5 DEF MarkedAs, Passed
<1>9. cache' \in [Modules -> Module \cup {None}]
  BY <1>7, <1>8
<1>. QED
  BY <1>3, <1>4, <1>5, <1>6, <1>9

LEMMA AcceptedAll ==
    ASSUME TypeOK, stack # << >>, \A x \in Passed : x \in Modules /\ cache[x] # None,
           cache' = Accepted, Len(stack) = 1
    PROVE  /\ ModulesKept /\ \A x \in Passed : MarkedAs(x, "good", cache[x].checked)
           /\ \A x \in Modules \ Passed : cache'[x] = cache[x]
           /\ cache' \in [Modules -> Module \cup {None}]
<1>1. cache \in [Modules -> Module \cup {None}] /\ stack \in Seq(Frame)
  BY DEF TypeOK, Frame
<1>2. Passed = unknown \cup {Top.m}
  BY <1>1, Ends DEF Passed, Checking, Top
<1>3. ASSUME NEW x \in Passed PROVE MarkedAs(x, "good", cache[x].checked) /\ cache'[x] # None
  <2>1. x \in Modules /\ cache[x] \in Module
    BY CachedModule
  <2>2. cache'[x] = [cache[x] EXCEPT !.state = "good"]
    BY <1>2, <2>1 DEF Accepted
  <2>3. cache[x].checked \in 0 .. MaxRequests
    BY <2>1 DEF Module
  <2>. QED
    BY <2>1, <2>2, <2>3, NoneAssumption DEF MarkedAs, Module
<1>4. \A x \in Modules \ Passed : cache'[x] = cache[x]
  BY <1>2 DEF Accepted
<1>5. ModulesKept
  BY <1>3, <1>4 DEF ModulesKept, MarkedAs
<1>6. cache' = [x \in Modules |-> cache'[x]]
  BY DEF Accepted
<1>7. \A x \in Modules : cache'[x] \in Module \cup {None}
  BY <1>1, <1>3, <1>4 DEF MarkedAs
<1>8. cache' \in [Modules -> Module \cup {None}]
  BY <1>6, <1>7
<1>. QED
  BY <1>3, <1>4, <1>5, <1>8

-----------------------------------------------------------------------------
(* Steps inside a request that mark modules, and at most type new ones. *)

CacheMarked ==
    /\ ModulesKept /\ cache' \in [Modules -> Module \cup {None}]
    /\ \A x \in Modules : cache[x] # None =>
         /\ cache[x].state = "bad" => cache'[x].state = "bad"
         /\ cache'[x].checked <= compilation_step
         /\ cache'[x].state = "good" /\ cache'[x].checked = compilation_step
              => cache[x].state = "good" /\ cache[x].checked = compilation_step

OnlyTypes ==
    /\ context' \in [Modules -> Loaded \cup {None}]
    /\ UNCHANGED <<started, compilation_step, typing>>
    /\ changed # None => changed' = changed
    /\ \A x \in Modules :
         \/ context'[x] = context[x]
         \/ /\ typing /\ context[x] = None
            /\ context'[x] = [file |-> disk[x], born |-> compilation_step]
            /\ cache'[x] = None \/ cache'[x].state = "bad"

LEMMA NewFacts ==
    ASSUME TypeOK, FilesAge, typing, NEW x \in Modules
    PROVE  NotOlder(disk[x], started[x])
<1>1. /\ disk[x].time \in Nat /\ disk[x].hides \in Nat
      /\ started[x].time \in Nat /\ started[x].hides \in Nat
  BY DEF TypeOK, FilesAge, File
<1>2. /\ started[x].time <= disk[x].time
      /\ started[x].hides # 0 => disk[x].hides = started[x].hides
  BY DEF FilesAge
<1>. QED
  BY <1>1, <1>2 DEF NotOlder

LEMMA MarkingFits ==
    ASSUME TypeOK, FilesAge, Fits, CacheMarked, OnlyTypes
    PROVE  Fits'
<1>1. /\ started' = started /\ compilation_step' = compilation_step /\ typing' = typing
      /\ compilation_step \in Nat
  BY CacheAssumption DEF OnlyTypes, TypeOK
<1>2. CacheEarlier'
  BY <1>1 DEF Fits, CacheEarlier, CacheMarked, ModulesKept
<1>3. DependenciesCached'
  <2>1. \A m \in Modules : cache[m] # None => cache[m].file.imports \subseteq Modules
    BY CachedModule
  <2>. QED
    BY <2>1 DEF Fits, DependenciesCached, CacheMarked, ModulesKept
<1>4. ASSUME NEW x \in Modules, IsReused(x)'
      PROVE  context'[x] = context[x] /\ IsReused(x)
  <2>1. context'[x].born # compilation_step /\ context'[x] # None
    BY <1>1, <1>4 DEF IsReused
  <2>2. context'[x] = context[x]
    BY <2>1 DEF OnlyTypes
  <2>. QED
    BY <2>1, <2>2 DEF IsReused
<1>5. ASSUME NEW x \in Modules, IsReused(x)
      PROVE  context'[x] = context[x] /\ IsReused(x)'
  BY <1>1, <1>5 DEF OnlyTypes, IsReused
<1>6. ContextFitsCache'
  <2>1. ~typing => context' = NoModules
    <3>1. ~typing => context = NoModules
      BY DEF Fits, ContextFitsCache
    <3>2. ~typing => \A x \in Modules : context'[x] = context[x]
      BY DEF OnlyTypes
    <3>. QED
      BY <3>1, <3>2 DEF NoModules, OnlyTypes
  <2>2. ASSUME NEW x \in Modules, IsReused(x)'
        PROVE  /\ cache'[x] # None /\ changed' # None
               /\ cache'[x].file = context'[x].file /\ cache'[x].born = context'[x].born
    <3>1. /\ context'[x] = context[x] /\ cache[x] # None /\ changed # None
          /\ cache[x].file = context[x].file /\ cache[x].born = context[x].born
      BY <1>4, <2>2 DEF Fits, ContextFitsCache
    <3>. QED
      BY <3>1 DEF OnlyTypes, CacheMarked, ModulesKept
  <2>3. ASSUME NEW x \in Modules, IsTyped(x)'
        PROVE  cache'[x] = None \/ cache'[x].state = "bad"
    <3>1. CASE context'[x] = context[x]
      <4>1. cache[x] = None \/ cache[x].state = "bad"
        BY <1>1, <2>3, <3>1 DEF Fits, ContextFitsCache, IsTyped
      <4>. QED
        BY <4>1 DEF CacheMarked, ModulesKept
    <3>2. CASE context'[x] # context[x]
      BY <3>2 DEF OnlyTypes
    <3>. QED
      BY <3>1, <3>2
  <2>. QED
    BY <1>1, <2>1, <2>2, <2>3 DEF ContextFitsCache
<1>7. AcceptedReused'
  BY <1>1, <1>5 DEF Fits, AcceptedReused, CacheMarked, ModulesKept
<1>8. OneGeneration'
  <2>. SUFFICES ASSUME NEW m \in Modules, IsReused(m)', NEW d \in context'[m].file.imports
                PROVE  IsReused(d)'
    BY DEF OneGeneration
  <2>1. context'[m] = context[m] /\ IsReused(m)
    BY <1>4
  <2>2. d \in Modules /\ IsReused(d)
    BY <2>1, LoadedModule DEF Fits, OneGeneration, IsReused
  <2>. QED
    BY <2>2, <1>5
<1>9. CleanMeansUnchanged'
  <2>. SUFFICES ASSUME NEW m \in Modules, context'[m] # None
                PROVE  NotOlder(context'[m].file, started[m])
    BY <1>1 DEF CleanMeansUnchanged, TimeThen, NotOlder
  <2>1. CASE context'[m] = context[m]
    BY <2>1 DEF Fits, CleanMeansUnchanged, TimeThen, NotOlder
  <2>2. CASE context'[m] # context[m]
    <3>1. typing /\ context'[m] = [file |-> disk[m], born |-> compilation_step]
      BY <2>2 DEF OnlyTypes
    <3>2. context'[m].file = disk[m]
      BY <3>1
    <3>. QED
      BY <3>1, <3>2, NewFacts
  <2>. QED
    BY <2>1, <2>2
<1>10. ShadowsNoticed'
  <2>. SUFFICES ASSUME changed' = TRUE, NEW m \in Modules, IsReused(m)', started[m].hides # 0
                PROVE  context'[m].file.hides # 0
    BY <1>1 DEF ShadowsNoticed
  <2>1. context'[m] = context[m] /\ IsReused(m)
    BY <1>4
  <2>2. changed = TRUE
    BY <2>1 DEF Fits, ContextFitsCache, OnlyTypes
  <2>. QED
    BY <2>1, <2>2 DEF Fits, ShadowsNoticed
<1>. QED
  BY <1>2, <1>3, <1>6, <1>7, <1>8, <1>9, <1>10 DEF Fits

LEMMA SameCache == ASSUME TypeOK, CacheEarlier, cache' = cache PROVE CacheMarked
  BY DEF TypeOK, CacheEarlier, CacheMarked, ModulesKept

LEMMA OneMarked ==
    ASSUME TypeOK, CacheEarlier, NEW m \in Modules, NEW s \in {"unknown", "bad"},
           cache[m] # None, cache' = Marked(m, s),
           s = "unknown" => cache[m].state # "bad"
    PROVE  CacheMarked
<1>1. /\ ModulesKept /\ MarkedAs(m, s, compilation_step)
      /\ \A x \in Modules \ {m} : cache'[x] = cache[x]
      /\ cache' \in [Modules -> Module \cup {None}]
  BY MarkedOne
<1>2. compilation_step \in Nat
  BY CacheAssumption DEF TypeOK
<1>. QED
  BY <1>1, <1>2 DEF CacheMarked, MarkedAs, CacheEarlier

LEMMA TaintMarked ==
    ASSUME TypeOK, CacheEarlier, NEW m \in Modules, Taint(m) PROVE CacheMarked
<1>1. /\ ModulesKept /\ MarkedAs(m, "bad", cache[m].checked)
      /\ \A x \in Modules \ {m} : cache'[x] = cache[x]
      /\ cache' \in [Modules -> Module \cup {None}]
  BY TaintedOne
<1>. QED
  BY <1>1 DEF CacheMarked, MarkedAs, CacheEarlier

LEMMA RefusedMarked ==
    ASSUME TypeOK, CacheEarlier, WalkOK, typing, NEW d \in Modules, cache[d] # None,
           Passed \subseteq Modules, cache' = Refused(d)
    PROVE  CacheMarked
<1>1. /\ ModulesKept
      /\ \A x \in Checking \cup {d} : MarkedAs(x, "bad", compilation_step)
      /\ \A x \in unknown \ (Checking \cup {d}) : MarkedAs(x, "good", compilation_step - 1)
      /\ \A x \in Modules \ (Passed \cup {d}) : cache'[x] = cache[x]
      /\ cache' \in [Modules -> Module \cup {None}]
  BY RefusedAll DEF WalkOK
<1>2. compilation_step \in Nat
  BY CacheAssumption DEF TypeOK
<1>3. compilation_step - 1 # compilation_step /\ compilation_step - 1 <= compilation_step
      /\ compilation_step <= compilation_step
  BY <1>2
<1>4. \A x \in Passed : cache[x].state = "unknown"
  BY DEF WalkOK
<1>5. ASSUME NEW x \in Modules, cache[x] # None
      PROVE  /\ cache[x].state = "bad" => cache'[x].state = "bad"
             /\ cache'[x].checked <= compilation_step
             /\ cache'[x].state = "good" /\ cache'[x].checked = compilation_step
                  => cache[x].state = "good" /\ cache[x].checked = compilation_step
  <2>1. CASE x \in Checking \cup {d}
    BY <1>1, <1>3, <2>1 DEF MarkedAs
  <2>2. CASE x \in unknown \ (Checking \cup {d})
    BY <1>1, <1>3, <1>4, <2>2 DEF MarkedAs, Passed
  <2>3. CASE x \notin Passed \cup {d}
    BY <1>1, <1>5, <2>3 DEF CacheEarlier
  <2>. QED
    BY <2>1, <2>2, <2>3 DEF Passed
<1>. QED
  BY <1>1, <1>5 DEF CacheMarked

LEMMA Looked ==
    ASSUME TypeOK, LookAtDirectories
    PROVE  /\ changed' \in BOOLEAN /\ changed' # None /\ c_mtime' \in 0 .. dirTime
           /\ changed' = ChangedDirectories /\ (changed # None => changed' = changed)
<1>1. None \notin BOOLEAN
  BY NoneAssumption
<1>2. changed \in BOOLEAN \cup {None} /\ c_mtime \in 0 .. dirTime /\ dirTime \in Nat
  BY DEF TypeOK
<1>3. ChangedDirectories \in BOOLEAN /\ (changed # None => ChangedDirectories = changed)
  BY <1>2 DEF ChangedDirectories
<1>4. changed' = ChangedDirectories
  BY DEF LookAtDirectories
<1>5. c_mtime' = dirTime \/ c_mtime' = c_mtime
  BY DEF LookAtDirectories
<1>6. c_mtime' \in 0 .. dirTime
  BY <1>2, <1>5
<1>. QED
  BY <1>1, <1>3, <1>4, <1>6

LEMMA TypesOne ==
    ASSUME TypeOK, CacheEarlier, typing, NEW m \in Modules, context[m] = None,
           context' = Typed(m), UNCHANGED <<started, compilation_step, typing>>,
           changed # None => changed' = changed,
           cache'[m] = None \/ cache'[m].state = "bad"
    PROVE  OnlyTypes
<1>1. /\ context \in [Modules -> Loaded \cup {None}] /\ disk[m] \in File
      /\ compilation_step \in 1 .. MaxRequests
  BY CacheAssumption DEF TypeOK, CacheEarlier
<1>2. [file |-> disk[m], born |-> compilation_step] \in Loaded
  BY <1>1 DEF Loaded
<1>3. /\ context' \in [Modules -> Loaded \cup {None}]
      /\ context'[m] = [file |-> disk[m], born |-> compilation_step]
      /\ \A x \in Modules \ {m} : context'[x] = context[x]
  BY <1>1, <1>2 DEF Typed
<1>. QED
  BY <1>3 DEF OnlyTypes

LEMMA TypesNone ==
    ASSUME TypeOK, UNCHANGED <<started, compilation_step, typing, context>>,
           changed # None => changed' = changed
    PROVE  OnlyTypes
  BY DEF OnlyTypes, TypeOK

LEMMA WalkModules ==
    ASSUME TypeOK
    PROVE  /\ Passed \subseteq Modules /\ stack \in Seq(Frame)
           /\ stack # << >> => typing /\ Top = stack[Len(stack)] /\ Top.m \in Checking
                              /\ Top.deps \subseteq Modules /\ Root \in Checking /\ Root \in Modules
           /\ stack = << >> => Checking = {}
<1>1. stack \in Seq(Frame) /\ unknown \subseteq Modules
  BY DEF TypeOK, Frame
<1>2. stack = << >> => Checking = {}
  BY DEF Checking
<1>3. ASSUME stack # << >>
      PROVE /\ Checking \subseteq Modules /\ Top = stack[Len(stack)] /\ Top.m \in Checking
            /\ Top.deps \subseteq Modules /\ Root \in Checking
  BY <1>1, <1>3, Ends DEF Checking, Top, Root
<1>. QED
  BY <1>1, <1>2, <1>3 DEF Passed, TypeOK

(* A module whose check is over for this compilation, and that is not      *)
(* dirty, has been accepted or is assumed to be clean.                     *)
LEMMA SettledClean ==
    ASSUME IInv, typing, NEW m \in Modules, cache[m] # None, Settled(m), ~Dirty(m)
    PROVE  Clean(m)
<1>1. cache[m].state # "bad" /\ cache[m].checked = compilation_step
  BY DEF Settled, Dirty
<1>2. cache[m].state \in {"good", "unknown"}
  BY <1>1, CachedModule DEF IInv, Module
<1>3. CASE cache[m].state = "good"
  BY <1>1, <1>3 DEF IInv, Fits, AcceptedReused, Clean
<1>4. CASE cache[m].state = "unknown"
  BY <1>4 DEF IInv, Walk, UnknownIsCurrent, Clean, Passed
<1>. QED
  BY <1>2, <1>3, <1>4

(* The dependencies that check_module still has to look at are cached.     *)
LEMMA DepsCached ==
    ASSUME IInv, stack # << >>, NEW d \in Top.deps
    PROVE  d \in Modules /\ cache[d] # None /\ d \in cache[Top.m].file.imports
<1>1. /\ stack \in Seq(Frame) /\ Top = stack[Len(stack)] /\ Len(stack) \in 1 .. Len(stack)
      /\ Top.m \in Modules /\ Top.deps \subseteq Modules /\ Top.m \in Passed
  BY WalkModules, Ends DEF IInv, Passed
<1>2. cache[Top.m] # None /\ d \in cache[Top.m].file.imports
  BY <1>1 DEF IInv, Walk, WalkOK, WalkClosed
<1>. QED
  BY <1>1, <1>2 DEF IInv, Fits, DependenciesCached

(* What StartCheck begins with has not been checked in this compilation.   *)
LEMMA StartsUnsettled ==
    ASSUME IInv, NEW m \in Modules, StartCheck(m)
    PROVE  ~Settled(m) /\ Passed = {}
<1>1. stack = << >> /\ typing /\ m \in Wanted /\ cache[m] # None /\ ~Dirty(m)
  BY DEF StartCheck
<1>2. Passed = {}
  BY <1>1, WalkModules DEF IInv, Walk, WalkOK, Passed
<1>3. ~IsReused(m)
  BY <1>1 DEF Wanted, IsReused
<1>. QED
  BY <1>1, <1>2, <1>3, SettledClean DEF Clean

-----------------------------------------------------------------------------
(* What the request has loaded fits together: one step per action. *)

(* The steps of a request but the last of a check.                         *)
MarkingStep ==
    \E m \in Modules :
      \/ Edit(m) \/ Taint(m) \/ LoadNew(m) \/ LoadDirty(m) \/ StartCheck(m)
      \/ SkipDependency(m) \/ EnterDependency(m) \/ DirtyDependency(m) \/ LeaveDependency

LEMMA MarkingSteps == ASSUME IInv, MarkingStep PROVE CacheMarked /\ OnlyTypes
<1>0. /\ TypeOK /\ CacheEarlier /\ WalkOK /\ DependenciesCached
      /\ \A x \in Passed : cache[x] # None
  BY DEF IInv, Fits, Walk, WalkOK
<1>1. PICK m \in Modules :
        \/ Edit(m) \/ Taint(m) \/ LoadNew(m) \/ LoadDirty(m) \/ StartCheck(m)
        \/ SkipDependency(m) \/ EnterDependency(m) \/ DirtyDependency(m) \/ LeaveDependency
  BY DEF MarkingStep
<1>2. CASE Edit(m) \/ LeaveDependency \/ SkipDependency(m)
  <2>1. cache' = cache /\ UNCHANGED <<started, compilation_step, typing, context, changed>>
    BY <1>2 DEF Edit, LeaveDependency, SkipDependency, server, request, history
  <2>. QED
    BY <1>0, <2>1, SameCache, TypesNone
<1>3. CASE Taint(m)
  <2>1. UNCHANGED <<started, compilation_step, typing, context, changed>>
    BY <1>3 DEF Taint, request
  <2>. QED
    BY <1>0, <1>3, <2>1, TaintMarked, TypesNone
<1>4. CASE LoadNew(m)
  <2>1. /\ cache' = cache /\ UNCHANGED <<started, compilation_step, typing, changed>>
        /\ typing /\ context[m] = None /\ context' = Typed(m) /\ cache[m] = None
    BY <1>4 DEF LoadNew, server, request, history, Wanted
  <2>. QED
    BY <1>0, <2>1, SameCache, TypesOne
<1>5. CASE LoadDirty(m)
  <2>1. /\ UNCHANGED <<started, compilation_step, typing>> /\ typing /\ context[m] = None
        /\ context' = Typed(m) /\ cache[m] # None /\ cache' = Marked(m, "bad")
    BY <1>5 DEF LoadDirty, history, Wanted
  <2>2. changed # None => changed' = changed
    BY <1>0, <1>5, Looked DEF LoadDirty
  <2>3. cache'[m].state = "bad"
    BY <1>0, <2>1, MarkedOne DEF MarkedAs
  <2>. QED
    BY <1>0, <2>1, <2>2, <2>3, OneMarked, TypesOne
<1>6. CASE StartCheck(m)
  <2>1. ~Settled(m)
    BY <1>6, StartsUnsettled
  <2>2. /\ UNCHANGED <<started, compilation_step, typing, context>>
        /\ cache[m] # None /\ cache' = Marked(m, "unknown") /\ LookAtDirectories
    BY <1>6, <2>1 DEF StartCheck, history
  <2>3. cache[m].state # "bad"
    BY <2>1 DEF Settled
  <2>. QED
    BY <1>0, <2>2, <2>3, OneMarked, TypesNone, Looked
<1>7. CASE EnterDependency(m)
  <2>1. /\ UNCHANGED <<started, compilation_step, typing, context>> /\ ~Settled(m)
        /\ cache' = Marked(m, "unknown") /\ LookAtDirectories /\ stack # << >> /\ m \in Top.deps
    BY <1>7 DEF EnterDependency, history
  <2>2. cache[m].state # "bad"
    BY <2>1 DEF Settled
  <2>3. cache[m] # None
    BY <2>1, DepsCached DEF IInv
  <2>. QED
    BY <1>0, <2>1, <2>2, <2>3, OneMarked, TypesNone, Looked
<1>8. CASE DirtyDependency(m)
  <2>1. /\ UNCHANGED <<started, compilation_step, typing>> /\ stack # << >> /\ m \in Top.deps
        /\ cache' = Refused(m) /\ context' = Typed(Head(stack).m)
    BY <1>8 DEF DirtyDependency, history
  <2>2. changed # None => changed' = changed
    BY <1>0, <1>8, Looked DEF DirtyDependency
  <2>3. cache[m] # None
    BY <2>1, DepsCached
  <2>4. /\ typing /\ Head(stack).m = Root /\ Root \in Modules /\ Root \in Checking
        /\ Passed \subseteq Modules
    BY <1>0, <2>1, WalkModules, Ends DEF Root
  <2>5. context[Root] = None
    BY <1>0, <2>1 DEF WalkOK
  <2>6. cache'[Root].state = "bad"
    BY <1>0, <2>1, <2>3, <2>4, RefusedAll DEF MarkedAs
  <2>. QED
    BY <1>0, <2>1, <2>2, <2>3, <2>4, <2>5, <2>6, RefusedMarked, TypesOne
<1>. QED
  BY <1>1, <1>2, <1>3, <1>4, <1>5, <1>6, <1>7, <1>8

(* A check that ends accepts nothing but what it has passed, and finds the *)
(* rest of what the root depends on reused already.                        *)
LEMMA AllClean ==
    ASSUME IInv, Len(stack) = 1, Top.deps = {}
    PROVE  /\ stack # << >> /\ Root = Top.m /\ Root \in Passed /\ Passed \subseteq Modules
           /\ \A x \in Passed : x \in Reach(Root)
           /\ \A x \in Reach(Root) : x \in Modules /\ Clean(x) /\ cache[x] # None
<1>0. TypeOK /\ WalkOK /\ WalkClosed /\ OneGeneration /\ ContextFitsCache /\ DependenciesCached
  BY DEF IInv, Fits, Walk
<1>1. stack # << >>
  <2>1. Len(<< >>) = 0
    BY EmptySeq
  <2>. QED
    BY <2>1
<1>2. /\ Passed \subseteq Modules /\ Root \in Checking /\ Root \in Modules
      /\ Top = stack[1] /\ Checking = {Root} /\ Root = Top.m
  BY <1>0, <1>1, WalkModules DEF Checking, Root
<1>3. DEFINE S == {x \in Modules : Clean(x)}
<1>4. ASSUME NEW x \in S PROVE cache[x] # None /\ cache[x].file.imports \subseteq S
  <2>1. CASE x \in unknown
    <3>1. cache[x] # None /\ \A d \in cache[x].file.imports : Clean(d)
      BY <1>0, <2>1 DEF WalkOK, WalkClosed, Passed
    <3>. QED
      BY <1>0, <3>1, CachedModule
  <2>2. CASE x \in Checking
    <3>1. cache[x] # None
      BY <1>0, <2>2 DEF WalkOK, Passed
    <3>2. 1 \in 1 .. Len(stack) /\ stack[1].deps = {} /\ stack[1].m = x
      BY <1>2, <2>2
    <3>3. \A d \in cache[stack[1].m].file.imports \ stack[1].deps : Clean(d)
      BY <1>0, <3>2 DEF WalkClosed
    <3>4. \A d \in cache[x].file.imports : Clean(d)
      BY <3>2, <3>3
    <3>. QED
      BY <1>0, <3>1, <3>4, CachedModule
  <2>3. CASE IsReused(x)
    <3>1. cache[x] # None /\ cache[x].file = context[x].file
      BY <1>0, <2>3 DEF ContextFitsCache
    <3>2. \A d \in cache[x].file.imports : IsReused(d)
      BY <1>0, <2>3, <3>1 DEF OneGeneration
    <3>. QED
      BY <1>0, <3>1, <3>2, CachedModule DEF Clean
  <2>. QED
    BY <2>1, <2>2, <2>3 DEF Clean, Passed
<1>5. Root \in S /\ S \in SUBSET Modules
  BY <1>2 DEF Clean, Passed
<1>6. Closed(S)
  BY <1>4 DEF Closed
<1>. HIDE DEF S
<1>7. Reach(Root) \subseteq S
  BY <1>2, <1>5, <1>6, ReachInside
<1>8. \A x \in S : x \in Modules /\ Clean(x)
  BY DEF S
<1>9. \A x \in Passed : x \in Reach(Root)
  BY <1>0 DEF WalkOK
<1>. QED
  BY <1>1, <1>2, <1>4, <1>7, <1>8, <1>9 DEF Passed

(* add_modules puts into the context what it has not, and leaves alone     *)
(* what it has.                                                            *)
LEMMA Adds ==
    ASSUME IInv, FinishCheck
    PROVE  /\ Len(stack) = 1 /\ Top.deps = {} /\ Root = Top.m /\ typing
           /\ context' \in [Modules -> Loaded \cup {None}]
           /\ \A x \in Reach(Root) :
                /\ context'[x] = [file |-> cache[x].file, born |-> cache[x].born]
                /\ context'[x] # None /\ cache[x].born # compilation_step
                /\ context[x] # None => context'[x] = context[x]
                /\ x \in Passed \/ IsReused(x)
           /\ \A x \in Modules \ Reach(Root) : context'[x] = context[x]
<1>0. TypeOK /\ WalkOK /\ CacheEarlier /\ ContextFitsCache
  BY DEF IInv, Fits, Walk
<1>1. Len(stack) = 1 /\ Top.deps = {} /\ context' = Reused(Top.m)
  BY DEF FinishCheck
<1>2. /\ stack # << >> /\ Root = Top.m
      /\ \A x \in Reach(Root) : x \in Modules /\ Clean(x) /\ cache[x] # None
  BY <1>1, AllClean
<1>3. typing
  BY <1>0, <1>2, WalkModules
<1>4. \A x \in Reach(Root) : context'[x] = [file |-> cache[x].file, born |-> cache[x].born]
  BY <1>1, <1>2 DEF Reused
<1>5. \A x \in Modules \ Reach(Root) : context'[x] = context[x]
  BY <1>1, <1>2 DEF Reused
<1>6. ASSUME NEW x \in Reach(Root)
      PROVE  /\ [file |-> cache[x].file, born |-> cache[x].born] \in Loaded
             /\ cache[x].born # compilation_step
  <2>1. cache[x] \in Module
    BY <1>0, <1>2, CachedModule
  <2>2. cache[x].born \in 1 .. MaxRequests /\ cache[x].file \in File
    BY <2>1 DEF Module
  <2>3. cache[x].born < compilation_step /\ compilation_step \in Nat
    BY <1>0, <1>2, <1>3, CacheAssumption DEF CacheEarlier, TypeOK
  <2>. QED
    BY <2>2, <2>3, CacheAssumption DEF Loaded
<1>7. ASSUME NEW x \in Reach(Root), context[x] # None
      PROVE  context'[x] = context[x]
  <2>1. IsReused(x)
    <3>1. CASE x \in Passed
      <4>1. cache[x].state = "unknown"
        BY <1>0, <3>1 DEF WalkOK
      <4>2. ~IsTyped(x)
        BY <1>0, <1>2, <4>1 DEF ContextFitsCache
      <4>. QED
        BY <1>7, <4>2 DEF IsTyped, IsReused
    <3>. QED
      BY <1>2, <3>1 DEF Clean
  <2>2. cache[x].file = context[x].file /\ cache[x].born = context[x].born
    BY <1>0, <1>2, <2>1 DEF ContextFitsCache
  <2>3. context[x] = [file |-> context[x].file, born |-> context[x].born]
    <3>1. context[x] \in Loaded
      BY <1>0, <1>2, <1>7, LoadedModule
    <3>. QED
      BY <3>1 DEF Loaded
  <2>. QED
    BY <1>4, <2>2, <2>3
<1>8. context' \in [Modules -> Loaded \cup {None}]
  <2>1. context' = [x \in Modules |-> context'[x]]
    BY <1>1 DEF Reused
  <2>2. \A x \in Modules : context'[x] \in Loaded \cup {None}
    BY <1>0, <1>4, <1>5, <1>6 DEF TypeOK
  <2>. QED
    BY <2>1, <2>2
<1>9. \A x \in Reach(Root) : context'[x] # None
  BY <1>4, <1>6, NoneAssumption
<1>. QED
  BY <1>1, <1>2, <1>3, <1>4, <1>5, <1>6, <1>7, <1>8, <1>9 DEF Clean

LEMMA FinishFits == ASSUME IInv, FinishCheck PROVE Fits'
<1>0. /\ TypeOK /\ WalkOK /\ WalkCurrent /\ CacheEarlier /\ ContextFitsCache
      /\ DependenciesCached /\ AcceptedReused /\ OneGeneration
      /\ CleanMeansUnchanged /\ ShadowsNoticed
  BY DEF IInv, Fits, Walk
<1>1. /\ UNCHANGED <<compilation_step, changed, typing, started>> /\ cache' = Accepted
  BY DEF FinishCheck, history
<1>2. /\ Len(stack) = 1 /\ Top.deps = {} /\ Root = Top.m /\ typing
      /\ \A x \in Reach(Root) :
           /\ context'[x] = [file |-> cache[x].file, born |-> cache[x].born]
           /\ context'[x] # None /\ cache[x].born # compilation_step
           /\ context[x] # None => context'[x] = context[x]
           /\ x \in Passed \/ IsReused(x)
      /\ \A x \in Modules \ Reach(Root) : context'[x] = context[x]
  BY Adds
<1>3. /\ stack # << >> /\ Passed \subseteq Modules /\ Root \in Modules
      /\ \A x \in Passed : x \in Reach(Root)
      /\ \A x \in Reach(Root) : x \in Modules /\ cache[x] # None
  BY <1>2, AllClean
<1>4. /\ ModulesKept /\ \A x \in Passed : MarkedAs(x, "good", cache[x].checked)
      /\ \A x \in Modules \ Passed : cache'[x] = cache[x]
  BY <1>0, <1>1, <1>2, <1>3, AcceptedAll DEF WalkOK
<1>5. \A x \in Reach(Root) : /\ context'[x].file = cache[x].file
                             /\ context'[x].born = cache[x].born /\ IsReused(x)'
  <2>. TAKE x \in Reach(Root)
  <2>1. context'[x].file = cache[x].file /\ context'[x].born = cache[x].born
    <3>1. context'[x] = [file |-> cache[x].file, born |-> cache[x].born]
      BY <1>2
    <3>. QED
      BY <3>1
  <2>2. context'[x] # None /\ context'[x].born # compilation_step
    BY <1>2, <2>1
  <2>. QED
    BY <1>1, <2>1, <2>2 DEF IsReused
<1>6. \A x \in Modules \ Reach(Root) : /\ context'[x] = context[x] /\ IsReused(x)' = IsReused(x)
                                       /\ IsTyped(x)' = IsTyped(x)
  BY <1>1, <1>2 DEF IsReused, IsTyped
<1>7. changed # None /\ changed' # None
  BY <1>0, <1>1, <1>3 DEF WalkOK
<1>8. CacheEarlier'
  BY <1>0, <1>1, <1>4 DEF CacheEarlier, ModulesKept, MarkedAs
<1>9. DependenciesCached'
  <2>1. \A m \in Modules : cache[m] # None => cache[m].file.imports \subseteq Modules
    BY <1>0, CachedModule
  <2>. QED
    BY <1>0, <1>4, <2>1 DEF DependenciesCached, ModulesKept
<1>10. ContextFitsCache'
  <2>1. ASSUME NEW x \in Modules, IsReused(x)'
        PROVE  cache'[x] # None /\ cache'[x].file = context'[x].file
               /\ cache'[x].born = context'[x].born
    <3>1. CASE x \in Reach(Root)
      BY <1>3, <1>4, <1>5, <3>1 DEF ModulesKept
    <3>2. CASE x \notin Reach(Root)
      BY <1>0, <1>4, <1>6, <2>1, <3>2 DEF ContextFitsCache, ModulesKept
    <3>. QED
      BY <3>1, <3>2
  <2>2. ASSUME NEW x \in Modules, IsTyped(x)'
        PROVE  cache'[x] = None \/ cache'[x].state = "bad"
    <3>1. x \notin Reach(Root)
      BY <1>5, <2>2 DEF IsReused, IsTyped
    <3>2. IsTyped(x) /\ x \notin Passed
      BY <1>3, <1>6, <2>2, <3>1
    <3>. QED
      BY <1>0, <1>4, <3>2 DEF ContextFitsCache
  <2>. QED
    BY <1>1, <1>2, <1>7, <2>1, <2>2 DEF ContextFitsCache
<1>11. AcceptedReused'
  <2>. SUFFICES ASSUME NEW x \in Modules, cache'[x] # None, cache'[x].state = "good",
                       cache'[x].checked = compilation_step
                PROVE  IsReused(x)'
    BY <1>1 DEF AcceptedReused
  <2>1. CASE x \in Reach(Root)
    BY <1>5, <2>1
  <2>2. CASE x \notin Reach(Root)
    <3>1. cache'[x] = cache[x]
      BY <1>3, <1>4, <2>2
    <3>2. IsReused(x)
      BY <1>0, <1>2, <3>1 DEF AcceptedReused
    <3>. QED
      BY <1>6, <2>2, <3>2
  <2>. QED
    BY <2>1, <2>2
<1>12. OneGeneration'
  <2>. SUFFICES ASSUME NEW m \in Modules, IsReused(m)', NEW d \in context'[m].file.imports
                PROVE  IsReused(d)'
    BY DEF OneGeneration
  <2>1. CASE m \in Reach(Root)
    <3>1. d \in cache[m].file.imports /\ d \in Modules
      BY <1>0, <1>3, <1>5, <2>1, CachedModule
    <3>2. d \in Reach(Root)
      BY <1>3, <2>1, <3>1, ReachStep
    <3>. QED
      BY <1>5, <3>2
  <2>2. CASE m \notin Reach(Root)
    <3>1. IsReused(m) /\ context'[m] = context[m]
      BY <1>6, <2>2
    <3>2. d \in Modules /\ IsReused(d)
      BY <1>0, <3>1, LoadedModule DEF OneGeneration, IsReused
    <3>. QED
      BY <1>5, <1>6, <3>2
  <2>. QED
    BY <2>1, <2>2
<1>13. ASSUME NEW x \in Reach(Root)
       PROVE  /\ NotOlder(cache[x].file, started[x])
              /\ changed = TRUE /\ started[x].hides # 0 => cache[x].file.hides # 0
  <2>1. CASE x \in Passed
    BY <1>0, <2>1 DEF WalkCurrent
  <2>2. CASE IsReused(x)
    <3>1. cache[x].file = context[x].file /\ context[x] # None /\ x \in Modules
      BY <1>0, <1>3, <2>2 DEF ContextFitsCache, IsReused
    <3>. QED
      BY <1>0, <2>2, <3>1 DEF CleanMeansUnchanged, ShadowsNoticed, TimeThen, NotOlder
  <2>. QED
    BY <1>2, <2>1, <2>2
<1>14. CleanMeansUnchanged'
  <2>. SUFFICES ASSUME NEW m \in Modules, context'[m] # None
                PROVE  NotOlder(context'[m].file, started[m])
    BY <1>1 DEF CleanMeansUnchanged, TimeThen, NotOlder
  <2>1. CASE m \in Reach(Root)
    BY <1>5, <1>13, <2>1
  <2>2. CASE m \notin Reach(Root)
    BY <1>0, <1>6, <2>2 DEF CleanMeansUnchanged, TimeThen, NotOlder
  <2>. QED
    BY <2>1, <2>2
<1>15. ShadowsNoticed'
  <2>. SUFFICES ASSUME changed = TRUE, NEW m \in Modules, IsReused(m)', started[m].hides # 0
                PROVE  context'[m].file.hides # 0
    BY <1>1 DEF ShadowsNoticed
  <2>1. CASE m \in Reach(Root)
    BY <1>5, <1>13, <2>1
  <2>2. CASE m \notin Reach(Root)
    BY <1>0, <1>6, <2>2 DEF ShadowsNoticed
  <2>. QED
    BY <2>1, <2>2
<1>. QED
  BY <1>8, <1>9, <1>10, <1>11, <1>12, <1>14, <1>15 DEF Fits

LEMMA RequestFits == ASSUME IInv, NEW m \in Modules, Request(m) PROVE Fits'
<1>0. /\ TypeOK /\ CacheEarlier /\ DependenciesCached
  BY DEF IInv, Fits
<1>1. /\ cache' = cache /\ context' = NoModules /\ typing' = TRUE
      /\ compilation_step' = compilation_step + 1 /\ compilation_step \in Nat
  BY <1>0, CacheAssumption DEF Request, TypeOK
<1>2. \A x \in Modules : ~IsReused(x)' /\ ~IsTyped(x)' /\ context'[x] = None
  BY <1>1 DEF NoModules, IsReused, IsTyped
<1>3. CacheEarlier'
  <2>1. \A x \in Modules : cache[x] # None => cache[x].checked \in Nat /\ cache[x].born \in Nat
    BY <1>0, CachedModule
  <2>. QED
    BY <1>0, <1>1, <2>1 DEF CacheEarlier
<1>4. AcceptedReused'
  <2>1. \A x \in Modules : cache[x] # None => cache[x].checked < compilation_step + 1
    BY <1>0, <1>1, CachedModule DEF CacheEarlier
  <2>2. \A x \in Modules : cache[x] # None => cache[x].checked # compilation_step + 1
    BY <1>0, <1>1, <2>1, CachedModule
  <2>. QED
    BY <1>1, <2>2 DEF AcceptedReused
<1>5. DependenciesCached'
  BY <1>0, <1>1 DEF DependenciesCached
<1>6. ContextFitsCache'
  BY <1>1, <1>2 DEF ContextFitsCache
<1>. QED
  BY <1>2, <1>3, <1>4, <1>5, <1>6
  DEF Fits, OneGeneration, CleanMeansUnchanged, ShadowsNoticed

(* After a request there is no context.                                    *)
LEMMA EndFits ==
    ASSUME TypeOK, EndRequest, CacheEarlier', DependenciesCached' PROVE Fits'
<1>1. context' = NoModules /\ typing' = FALSE
  BY DEF EndRequest
<1>2. \A x \in Modules : ~IsReused(x)' /\ ~IsTyped(x)' /\ context'[x] = None
  BY <1>1 DEF NoModules, IsReused, IsTyped
<1>. QED
  BY <1>1, <1>2 DEF Fits, ContextFitsCache, AcceptedReused, OneGeneration, CleanMeansUnchanged,
                    ShadowsNoticed

LEMMA FailFits == ASSUME IInv, Fail PROVE Fits'
<1>1. cache' = cache /\ EndRequest /\ compilation_step' = compilation_step /\ typing' = FALSE
  BY DEF Fail, EndRequest
<1>2. CacheEarlier' /\ DependenciesCached'
  BY <1>1 DEF IInv, Fits, CacheEarlier, DependenciesCached
<1>. QED
  BY <1>1, <1>2, EndFits DEF IInv

(* cache_context: what the new modules of a request depend on is in the    *)
(* cache too, new or as before.                                            *)
LEMMA CachedAll ==
    ASSUME IInv, Succeed
    PROVE  /\ cache' \in [Modules -> Module \cup {None}]
           /\ \A x \in Modules :
                IF IsTyped(x) THEN /\ cache'[x] \in Module /\ cache'[x] # None
                                   /\ cache'[x].file = context[x].file
                                   /\ cache'[x].born = compilation_step
                                   /\ cache'[x].state = "good" /\ cache'[x].checked = 0
                              ELSE cache'[x] = cache[x]
<1>0. TypeOK /\ CacheEarlier
  BY DEF IInv, Fits
<1>1. cache' = Cached /\ typing
  BY DEF Succeed
<1>2. compilation_step \in 1 .. MaxRequests /\ 0 \in 0 .. MaxRequests
  BY <1>0, <1>1, CacheAssumption DEF TypeOK, CacheEarlier
<1>3. \A x \in Modules : IsTyped(x) => cache'[x] = NewModule(x)
  BY <1>1 DEF Cached
<1>4. \A x \in Modules : ~IsTyped(x) => cache'[x] = cache[x]
  BY <1>1 DEF Cached
<1>5. ASSUME NEW x \in Modules, IsTyped(x)
      PROVE  /\ cache'[x] \in Module /\ cache'[x].file = context[x].file
             /\ cache'[x].born = compilation_step
             /\ cache'[x].state = "good" /\ cache'[x].checked = 0
  <2>1. context[x].file \in File
    BY <1>0, <1>5, LoadedModule DEF IsTyped
  <2>2. cache'[x] = [file |-> context[x].file, born |-> compilation_step,
                     state |-> "good", checked |-> 0]
    BY <1>3, <1>5 DEF NewModule
  <2>. QED
    BY <1>2, <2>1, <2>2 DEF Module
<1>6. cache' = [x \in Modules |-> cache'[x]]
  BY <1>1 DEF Cached
<1>7. \A x \in Modules : cache'[x] \in Module \cup {None}
  BY <1>0, <1>4, <1>5 DEF TypeOK
<1>8. cache' \in [Modules -> Module \cup {None}]
  BY <1>6, <1>7
<1>. QED
  BY <1>4, <1>5, <1>8, NoneAssumption

LEMMA SucceedFits == ASSUME IInv, Succeed PROVE Fits'
<1>0. TypeOK /\ CacheEarlier /\ DependenciesCached /\ ContextFitsCache /\ OneGeneration
  BY DEF IInv, Fits
<1>1. EndRequest /\ compilation_step' = compilation_step /\ typing' = FALSE /\ Wanted = {}
      /\ compilation_step \in Nat
  BY <1>0, CacheAssumption DEF Succeed, EndRequest, TypeOK
<1>2. \A x \in Modules :
        IF IsTyped(x) THEN /\ cache'[x] \in Module /\ cache'[x] # None
                           /\ cache'[x].file = context[x].file /\ cache'[x].born = compilation_step
                           /\ cache'[x].state = "good" /\ cache'[x].checked = 0
                      ELSE cache'[x] = cache[x]
  BY CachedAll
<1>3. CacheEarlier'
  BY <1>0, <1>1, <1>2 DEF CacheEarlier
<1>4. DependenciesCached'
  <2>. SUFFICES ASSUME NEW m \in Modules, cache'[m] # None, NEW d \in cache'[m].file.imports
                PROVE  cache'[d] # None
    BY DEF DependenciesCached
  <2>1. CASE IsTyped(m)
    <3>1. context[m] # None /\ d \in context[m].file.imports /\ d \in Modules
      BY <1>0, <1>2, <2>1, LoadedModule DEF IsTyped
    <3>2. context[d] # None
      BY <1>1, <3>1 DEF Wanted
    <3>3. CASE IsTyped(d)
      BY <1>2, <3>1, <3>3
    <3>4. CASE ~IsTyped(d)
      BY <1>0, <1>2, <3>1, <3>2, <3>4 DEF ContextFitsCache, IsTyped, IsReused
    <3>. QED
      BY <3>3, <3>4
  <2>2. CASE ~IsTyped(m)
    <3>1. cache'[m] = cache[m] /\ d \in Modules /\ cache[d] # None
      BY <1>0, <1>2, <2>2, CachedModule DEF DependenciesCached
    <3>. QED
      BY <1>2, <3>1
  <2>. QED
    BY <2>1, <2>2
<1>. QED
  BY <1>0, <1>1, <1>3, <1>4, EndFits

-----------------------------------------------------------------------------
(* What check_module has passed is clean: one lemma per kind of step. *)

LEMMA WalkEmpty ==
    ASSUME stack' = << >>, unknown' = {},
           \A x \in Modules : cache'[x] = None \/ cache'[x].state # "unknown"
    PROVE  Walk'
<1>1. Checking' = {} /\ Passed' = {} /\ Len(stack') = 0
  BY DEF Checking, Passed
<1>2. WalkOK'
  BY <1>1 DEF WalkOK
<1>3. WalkClosed'
  BY <1>1 DEF WalkClosed
<1>4. UnknownIsCurrent'
  BY DEF UnknownIsCurrent
<1>5. WalkCurrent'
  BY <1>1 DEF WalkCurrent
<1>. QED
  BY <1>2, <1>3, <1>4, <1>5 DEF Walk

(* A module whose own file has not changed.                                *)
LEMMA FreshCurrent ==
    ASSUME TypeOK, FilesAge, typing, NEW m \in Modules, cache[m] # None,
           ~Settled(m), ~Dirty(m)
    PROVE  /\ NotOlder(cache[m].file, started[m])
           /\ ChangedDirectories /\ started[m].hides # 0 => cache[m].file.hides # 0
<1>1. /\ disk[m].time \in Nat /\ disk[m].hides \in Nat
      /\ started[m].time \in Nat /\ started[m].hides \in Nat
      /\ cache[m].file.time \in Nat /\ cache[m].file.hides \in Nat
  BY CachedModule DEF TypeOK, FilesAge, File
<1>2. /\ disk[m].hides < disk[m].time
      /\ started[m].hides < started[m].time /\ started[m].time <= disk[m].time
      /\ started[m].hides # 0 => disk[m].hides = started[m].hides
      /\ started[m].hides = 0 /\ disk[m].hides # 0 => disk[m].hides >= started[m].time
  BY DEF FilesAge
<1>3. /\ FileTime(m) = cache[m].file.time
      /\ ~(ChangedDirectories /\ disk[m].hides # 0 /\ disk[m].time > cache[m].file.time)
  BY DEF Dirty, Shadowed, FileChanged
<1>4. cache[m].file.time = IF disk[m].hides # 0 /\ cache[m].file.hides = 0
                           THEN disk[m].hides ELSE disk[m].time
  BY <1>3 DEF FileTime
<1>5. cache[m].file.time >= IF started[m].hides # 0 /\ cache[m].file.hides = 0
                            THEN started[m].hides ELSE started[m].time
  BY <1>1, <1>2, <1>4
<1>6. ChangedDirectories /\ started[m].hides # 0 => cache[m].file.hides # 0
  BY <1>1, <1>2, <1>3, <1>4
<1>. QED
  BY <1>5, <1>6 DEF NotOlder

LEMMA StartWalks == ASSUME IInv, NEW m \in Modules, StartCheck(m) PROVE Walk'
<1>0. TypeOK /\ FilesAge /\ UnknownIsCurrent /\ compilation_step' = compilation_step
  BY DEF IInv, Walk, StartCheck
<1>1. ~Settled(m) /\ Passed = {}
  BY StartsUnsettled
<1>2. /\ typing /\ typing' = typing /\ stack = << >> /\ m \in Wanted /\ cache[m] # None /\ ~Dirty(m)
      /\ LookAtDirectories /\ cache' = Marked(m, "unknown")
      /\ stack' = <<[m |-> m, deps |-> cache[m].file.imports]>>
      /\ context' = context /\ unknown' = unknown /\ started' = started
  BY <1>1 DEF StartCheck, history
<1>3. unknown = {} /\ context[m] = None
  BY <1>1, <1>2 DEF Passed, Wanted
<1>4. /\ Len(stack') = 1 /\ stack' # << >>
      /\ stack'[1].m = m /\ stack'[1].deps = cache[m].file.imports
  BY <1>2
<1>5. Checking' = {m} /\ Passed' = {m} /\ Root' = m
  BY <1>2, <1>3, <1>4 DEF Checking, Passed, Root
<1>6. /\ ModulesKept /\ MarkedAs(m, "unknown", compilation_step)
      /\ \A x \in Modules \ {m} : cache'[x] = cache[x]
  BY <1>0, <1>2, MarkedOne
<1>7. changed' # None /\ changed' = ChangedDirectories
  BY <1>0, <1>2, Looked
<1>8. WalkOK'
  <2>1. m \in Reach(m)'
    BY <1>6, ReachSelf, ReachKept
  <2>2. cache'[m] # None /\ cache'[m].state = "unknown" /\ cache'[m].checked = compilation_step'
    BY <1>0, <1>2, <1>6 DEF ModulesKept, MarkedAs
  <2>3. \A x \in Passed' : x = m
    BY <1>5
  <2>4. \A x : x = m => x \in Reach(Root)'
    BY <1>5, <2>1 DEF Reach
  <2>. QED
    BY <1>2, <1>3, <1>4, <1>5, <1>7, <2>2, <2>3, <2>4 DEF WalkOK
<1>9. WalkClosed'
  <2>1. \A i \in 1 .. Len(stack') : stack'[i].m = m /\ stack'[i].deps = cache'[m].file.imports
    BY <1>2, <1>4, <1>6 DEF ModulesKept
  <2>. QED
    BY <1>2, <1>3, <2>1 DEF WalkClosed
<1>10. UnknownIsCurrent'
  <2>. SUFFICES ASSUME NEW x \in Modules, cache'[x] # None, cache'[x].state = "unknown"
                PROVE  x \in Checking' \cup unknown' /\ cache'[x].checked = compilation_step
    BY <1>0 DEF UnknownIsCurrent
  <2>1. x = m
    BY <1>0, <1>1, <1>6 DEF UnknownIsCurrent, Passed
  <2>. QED
    BY <1>5, <1>6, <2>1 DEF MarkedAs
<1>11. WalkCurrent'
  <2>1. /\ NotOlder(cache[m].file, started[m])
        /\ ChangedDirectories /\ started[m].hides # 0 => cache[m].file.hides # 0
    BY <1>0, <1>1, <1>2, FreshCurrent
  <2>2. cache'[m].file = cache[m].file
    BY <1>6 DEF MarkedAs
  <2>. QED
    BY <1>2, <1>5, <1>7, <2>1, <2>2 DEF WalkCurrent, NotOlder
<1>. QED
  BY <1>8, <1>9, <1>10, <1>11 DEF Walk

LEMMA SkipWalks == ASSUME IInv, NEW d \in Modules, SkipDependency(d) PROVE Walk'
<1>0. /\ TypeOK /\ WalkOK /\ WalkClosed /\ UnknownIsCurrent /\ WalkCurrent /\ stack \in Seq(Frame)
  BY DEF IInv, Walk, TypeOK, Frame
<1>1. /\ stack # << >> /\ d \in Top.deps /\ Settled(d) /\ ~Dirty(d)
      /\ stack' = [stack EXCEPT ![Len(stack)].deps = @ \ {d}]
      /\ UNCHANGED <<cache, context, changed, typing, unknown, started, compilation_step>>
  BY DEF SkipDependency, server, request, history
<1>2. typing /\ cache[d] # None
  BY <1>0, <1>1, WalkModules, DepsCached
<1>3. Clean(d)
  BY <1>1, <1>2, SettledClean
<1>4. /\ Len(stack') = Len(stack) /\ stack' # << >>
      /\ \A i \in 1 .. Len(stack) :
           /\ stack'[i].m = stack[i].m
           /\ stack'[i].deps = IF i = Len(stack) THEN stack[i].deps \ {d} ELSE stack[i].deps
  <2>1. Len(<< >>) = 0 /\ Len(stack) # 0
    BY <1>0, <1>1, EmptySeq
  <2>2. /\ Len(stack') = Len(stack)
        /\ \A i \in 1 .. Len(stack) :
             /\ stack'[i].m = stack[i].m
             /\ stack'[i].deps = IF i = Len(stack) THEN stack[i].deps \ {d} ELSE stack[i].deps
    <3>1. stack \in Seq(Frame) /\ stack # << >>
      BY <1>0, <1>1
    <3>2. stack' = LeftAt(stack, d)
      BY <1>1 DEF LeftAt
    <3>. QED
      BY <3>1, <3>2, OneLess
  <2>. QED
    BY <2>1, <2>2
<1>5. 1 \in 1 .. Len(stack)
  BY <1>0, <1>1, Ends
<1>6. Checking' = Checking /\ Root' = Root /\ Passed' = Passed
  BY <1>1, <1>4, <1>5 DEF Checking, Root, Passed
<1>7. \A x : Clean(x)' <=> Clean(x)
  BY <1>1, <1>6 DEF Clean, IsReused
<1>8. WalkOK'
  BY <1>0, <1>1, <1>4, <1>6 DEF WalkOK, Reach
<1>9. WalkClosed'
  BY <1>0, <1>1, <1>3, <1>4, <1>7 DEF WalkClosed
<1>10. UnknownIsCurrent' /\ WalkCurrent'
  BY <1>0, <1>1, <1>6 DEF UnknownIsCurrent, WalkCurrent
<1>. QED
  BY <1>8, <1>9, <1>10 DEF Walk

(* The stack of EnterDependency, and the modules on a stack.               *)
StackOf(s, d, f) == Append(LeftAt(s, d), f)
MsOf(s) == {s[i].m : i \in 1 .. Len(s)}

LEMMA Entered ==
    ASSUME NEW s \in Seq(Frame), s # << >>, NEW d \in Modules, NEW f \in Frame
    PROVE  /\ StackOf(s, d, f) \in Seq(Frame) /\ Len(StackOf(s, d, f)) = Len(s) + 1
           /\ StackOf(s, d, f) # << >>
           /\ StackOf(s, d, f)[Len(s) + 1] = f
           /\ MsOf(StackOf(s, d, f)) = MsOf(s) \cup {f.m}
<1>. DEFINE u == LeftAt(s, d)  t == StackOf(s, d, f)
<1>0. Len(s) \in Nat
  BY LenProperties
<1>1. /\ u \in Seq(Frame) /\ Len(u) = Len(s) /\ Len(s) \in Nat
      /\ \A i \in 1 .. Len(s) :
           /\ u[i].m = s[i].m
           /\ u[i].deps = IF i = Len(s) THEN s[i].deps \ {d} ELSE s[i].deps
  <2>1. /\ LeftAt(s, d) \in Seq(Frame) /\ Len(LeftAt(s, d)) = Len(s)
        /\ \A i \in 1 .. Len(s) :
             /\ LeftAt(s, d)[i].m = s[i].m
             /\ LeftAt(s, d)[i].deps = IF i = Len(s) THEN s[i].deps \ {d} ELSE s[i].deps
    BY OneLess
  <2>. QED
    BY <1>0, <2>1
<1>. HIDE DEF u
<1>2. /\ t \in Seq(Frame) /\ Len(t) = Len(s) + 1
      /\ \A i \in 1 .. Len(s) : t[i] = u[i]
      /\ t[Len(s) + 1] = f
  BY <1>1, OneMore DEF StackOf, u
<1>. HIDE DEF t
<1>3. /\ \A i \in 1 .. Len(s) + 1 : i \in 1 .. Len(s) \/ i = Len(s) + 1
      /\ \A i \in 1 .. Len(s) : i \in 1 .. Len(s) + 1
      /\ Len(s) + 1 \in 1 .. Len(s) + 1
  BY <1>1
<1>4. \A i \in 1 .. Len(s) : t[i].m = s[i].m
  BY <1>1, <1>2
<1>5. MsOf(t) = MsOf(s) \cup {f.m}
  BY <1>2, <1>3, <1>4 DEF MsOf
<1>6. t # << >>
  <2>1. Len(<< >>) = 0 /\ Len(t) # 0
    BY <1>1, <1>2, EmptySeq
  <2>. QED
    BY <2>1
<1>. QED
  BY <1>1, <1>2, <1>5, <1>6 DEF t, u

LEMMA EnteredAt ==
    ASSUME NEW s \in Seq(Frame), s # << >>, NEW d \in Modules, NEW f \in Frame,
           NEW i \in 1 .. Len(s)
    PROVE  /\ StackOf(s, d, f)[i].m = s[i].m
           /\ StackOf(s, d, f)[i].deps = IF i = Len(s) THEN s[i].deps \ {d} ELSE s[i].deps
<1>. DEFINE u == LeftAt(s, d)
<1>1. u \in Seq(Frame) /\ Len(u) = Len(s)
  BY OneLess
<1>2. u[i].m = s[i].m /\ u[i].deps = IF i = Len(s) THEN s[i].deps \ {d} ELSE s[i].deps
  BY OneLess
<1>. HIDE DEF u
<1>3. Append(u, f)[i] = u[i]
  BY <1>1, OneMore
<1>. QED
  BY <1>2, <1>3 DEF StackOf, u

LEMMA EnterWalks == ASSUME IInv, NEW d \in Modules, EnterDependency(d) PROVE Walk'
<1>0. /\ TypeOK /\ FilesAge /\ WalkOK /\ WalkClosed /\ UnknownIsCurrent /\ WalkCurrent
      /\ stack \in Seq(Frame)
  BY DEF IInv, Walk, TypeOK, Frame
<1>. DEFINE f == [m |-> d, deps |-> cache[d].file.imports]
<1>1. /\ stack # << >> /\ d \in Top.deps /\ ~Settled(d) /\ ~Dirty(d) /\ LookAtDirectories
      /\ cache' = Marked(d, "unknown") /\ stack' = StackOf(stack, d, f)
      /\ UNCHANGED <<context, typing, unknown, started, compilation_step>>
  BY DEF EnterDependency, history, LeftAt, StackOf
<1>2. /\ typing /\ cache[d] # None /\ d \in cache[Top.m].file.imports
      /\ Top.m \in Passed /\ Passed \subseteq Modules /\ Root \in Modules
  BY <1>0, <1>1, WalkModules, DepsCached DEF Passed
<1>3. f \in Frame /\ f.m = d /\ f.deps = cache[d].file.imports
  BY <1>0, <1>2, CachedModule DEF Frame
<1>4. d \notin Passed
  BY <1>0, <1>1 DEF WalkOK, Settled
<1>5. /\ ModulesKept /\ MarkedAs(d, "unknown", compilation_step)
      /\ \A x \in Modules \ {d} : cache'[x] = cache[x]
  BY <1>0, <1>1, <1>2, MarkedOne
<1>6. changed' = changed /\ changed # None /\ changed = ChangedDirectories
  BY <1>0, <1>1, Looked DEF WalkOK
<1>. HIDE DEF f
<1>7. /\ Len(stack') = Len(stack) + 1 /\ stack' # << >> /\ Len(stack) \in Nat
      /\ \A i \in 1 .. Len(stack) :
           /\ stack'[i].m = stack[i].m
           /\ stack'[i].deps = IF i = Len(stack) THEN stack[i].deps \ {d} ELSE stack[i].deps
      /\ stack'[Len(stack) + 1] = f
      /\ MsOf(stack') = MsOf(stack) \cup {d}
  <2>1. /\ StackOf(stack, d, f) \in Seq(Frame) /\ Len(StackOf(stack, d, f)) = Len(stack) + 1
        /\ StackOf(stack, d, f) # << >>
        /\ \A i \in 1 .. Len(stack) :
             /\ StackOf(stack, d, f)[i].m = stack[i].m
             /\ StackOf(stack, d, f)[i].deps
                  = IF i = Len(stack) THEN stack[i].deps \ {d} ELSE stack[i].deps
        /\ StackOf(stack, d, f)[Len(stack) + 1] = f
        /\ MsOf(StackOf(stack, d, f)) = MsOf(stack) \cup {f.m}
    <3>1. stack \in Seq(Frame) /\ stack # << >> /\ f \in Frame
      BY <1>0, <1>1, <1>3
    <3>2. /\ StackOf(stack, d, f) \in Seq(Frame)
          /\ Len(StackOf(stack, d, f)) = Len(stack) + 1 /\ StackOf(stack, d, f) # << >>
          /\ StackOf(stack, d, f)[Len(stack) + 1] = f
          /\ MsOf(StackOf(stack, d, f)) = MsOf(stack) \cup {f.m}
      BY <3>1, Entered
    <3>3. \A i \in 1 .. Len(stack) :
            /\ StackOf(stack, d, f)[i].m = stack[i].m
            /\ StackOf(stack, d, f)[i].deps
                 = IF i = Len(stack) THEN stack[i].deps \ {d} ELSE stack[i].deps
      BY <3>1, EnteredAt
    <3>. QED
      BY <3>2, <3>3
  <2>2. Len(stack) \in Nat
    BY <1>0, LenProperties
  <2>. QED
    BY <1>1, <1>3, <2>1, <2>2
<1>8. 1 \in 1 .. Len(stack)
  BY <1>0, <1>1, Ends
<1>9. Checking' = Checking \cup {d} /\ Root' = Root /\ Passed' = Passed \cup {d}
  BY <1>1, <1>7, <1>8 DEF Checking, Root, Passed, MsOf
<1>10. /\ \A x : Clean(x) => Clean(x)'
       /\ Clean(d)'
  BY <1>1, <1>9 DEF Clean, IsReused
<1>11. WalkOK'
  <2>1. Reach(Root)' = Reach(Root)
    <3>1. \A r \in Modules : Reach(r)' = Reach(r)
      BY <1>5, ReachKept
    <3>2. \A r : r = Root => Reach(Root)' = Reach(r)'
      BY <1>9 DEF Reach
    <3>. QED
      BY <1>2, <3>1, <3>2
  <2>2. d \in Reach(Root)
    BY <1>0, <1>2, ReachStep DEF WalkOK
  <2>3. ASSUME NEW x \in Passed'
        PROVE  /\ x \in Reach(Root)' /\ cache'[x] # None
               /\ cache'[x].state = "unknown" /\ cache'[x].checked = compilation_step
    <3>1. CASE x = d
      BY <1>2, <1>5, <2>1, <2>2, <3>1 DEF ModulesKept, MarkedAs
    <3>2. CASE x \in Passed
      BY <1>0, <1>2, <1>4, <1>5, <2>1, <3>2 DEF WalkOK
    <3>. QED
      BY <1>9, <3>1, <3>2
  <2>. QED
    BY <1>0, <1>1, <1>2, <1>6, <1>7, <1>9, <2>3 DEF WalkOK
<1>12. WalkClosed'
  <2>1. \A m \in unknown' : \A e \in cache'[m].file.imports : Clean(e)'
    <3>1. \A m \in unknown : m \in Modules /\ cache'[m].file = cache[m].file
      BY <1>0, <1>2, <1>5 DEF WalkOK, ModulesKept, Passed
    <3>. QED
      BY <1>0, <1>1, <1>10, <3>1 DEF WalkClosed
  <2>2. ASSUME NEW i \in 1 .. Len(stack')
        PROVE  /\ stack'[i].deps \subseteq cache'[stack'[i].m].file.imports
               /\ \A e \in cache'[stack'[i].m].file.imports \ stack'[i].deps : Clean(e)'
    <3>1. CASE i = Len(stack) + 1
      BY <1>2, <1>3, <1>5, <1>7, <3>1 DEF ModulesKept
    <3>2. CASE i \in 1 .. Len(stack)
      <4>1. /\ stack'[i].m = stack[i].m /\ stack[i].m \in Passed
            /\ stack'[i].deps \subseteq stack[i].deps /\ stack[i].deps \subseteq stack'[i].deps \cup {d}
        BY <1>7, <3>2 DEF Passed, Checking
      <4>2. cache'[stack[i].m].file = cache[stack[i].m].file
        BY <1>0, <1>2, <1>5, <4>1 DEF WalkOK, ModulesKept
      <4>3. /\ stack[i].deps \subseteq cache[stack[i].m].file.imports
            /\ \A e \in cache[stack[i].m].file.imports \ stack[i].deps : Clean(e)
        BY <1>0, <3>2 DEF WalkClosed
      <4>. QED
        BY <1>10, <4>1, <4>2, <4>3
    <3>3. i \in 1 .. Len(stack) \/ i = Len(stack) + 1
      BY <1>7
    <3>. QED
      BY <3>1, <3>2, <3>3
  <2>. QED
    BY <2>1, <2>2 DEF WalkClosed
<1>13. UnknownIsCurrent'
  <2>. SUFFICES ASSUME NEW x \in Modules, cache'[x] # None, cache'[x].state = "unknown"
                PROVE  x \in Passed' /\ cache'[x].checked = compilation_step
    BY <1>1 DEF UnknownIsCurrent, Passed
  <2>1. CASE x = d
    BY <1>5, <1>9, <2>1 DEF MarkedAs
  <2>2. CASE x # d
    BY <1>0, <1>5, <1>9, <2>2 DEF UnknownIsCurrent, Passed
  <2>. QED
    BY <2>1, <2>2
<1>14. WalkCurrent'
  <2>1. /\ NotOlder(cache[d].file, started[d])
        /\ changed = TRUE /\ started[d].hides # 0 => cache[d].file.hides # 0
    BY <1>0, <1>1, <1>2, <1>6, FreshCurrent
  <2>2. \A x \in Passed' : x \in Modules /\ cache'[x].file = cache[x].file
    BY <1>0, <1>2, <1>5, <1>9 DEF WalkOK, ModulesKept
  <2>. QED
    BY <1>0, <1>1, <1>6, <1>9, <2>1, <2>2 DEF WalkCurrent, NotOlder
<1>. QED
  BY <1>11, <1>12, <1>13, <1>14 DEF Walk

LEMMA LeaveWalks == ASSUME IInv, LeaveDependency PROVE Walk'
<1>0. /\ TypeOK /\ WalkOK /\ WalkClosed /\ UnknownIsCurrent /\ WalkCurrent /\ stack \in Seq(Frame)
  BY DEF IInv, Walk, TypeOK, Frame
<1>1. /\ Len(stack) > 1 /\ Top.deps = {} /\ unknown' = unknown \cup {Top.m} /\ stack' = Front(stack)
      /\ UNCHANGED <<cache, context, changed, typing, started, compilation_step>>
  BY DEF LeaveDependency, server, request, history
<1>2. /\ Len(stack) \in Nat /\ Len(stack') = Len(stack) - 1 /\ stack' # << >>
      /\ \A i \in 1 .. Len(stack) - 1 : stack'[i] = stack[i]
  BY <1>0, <1>1, Shorter, LenProperties
<1>3. /\ 1 \in 1 .. Len(stack) - 1 /\ Len(stack) \in 1 .. Len(stack)
      /\ \A i \in 1 .. Len(stack) : i \in 1 .. Len(stack) - 1 \/ i = Len(stack)
      /\ \A i \in 1 .. Len(stack) - 1 : i \in 1 .. Len(stack)
  BY <1>1, <1>2
<1>4. stack # << >> /\ Top = stack[Len(stack)]
  <2>1. Len(<< >>) = 0 /\ Len(stack) # 0
    BY <1>1, <1>2, EmptySeq
  <2>. QED
    BY <1>0, <2>1, WalkModules
<1>5. Checking = Checking' \cup {Top.m}
  BY <1>2, <1>3, <1>4 DEF Checking
<1>6. Root' = Root /\ Passed' = Passed
  BY <1>1, <1>2, <1>3, <1>5 DEF Root, Passed
<1>7. \A x : Clean(x)' <=> Clean(x)
  BY <1>1, <1>6 DEF Clean, IsReused
<1>8. WalkOK'
  BY <1>0, <1>1, <1>2, <1>4, <1>6 DEF WalkOK, Reach
<1>9. WalkClosed'
  <2>1. \A d \in cache[Top.m].file.imports : Clean(d)
    BY <1>0, <1>1, <1>3, <1>4 DEF WalkClosed
  <2>2. \A m \in unknown' : \A d \in cache'[m].file.imports : Clean(d)'
    BY <1>0, <1>1, <1>7, <2>1 DEF WalkClosed
  <2>3. \A i \in 1 .. Len(stack') :
          /\ stack'[i].deps \subseteq cache'[stack'[i].m].file.imports
          /\ \A d \in cache'[stack'[i].m].file.imports \ stack'[i].deps : Clean(d)'
    BY <1>0, <1>1, <1>2, <1>3, <1>7 DEF WalkClosed
  <2>. QED
    BY <2>2, <2>3 DEF WalkClosed
<1>10. UnknownIsCurrent' /\ WalkCurrent'
  <2>1. Checking' \cup unknown' = Checking \cup unknown
    BY <1>6 DEF Passed
  <2>. QED
    BY <1>0, <1>1, <1>6, <2>1 DEF UnknownIsCurrent, WalkCurrent
<1>. QED
  BY <1>8, <1>9, <1>10 DEF Walk

LEMMA NoneUnknown ==
    ASSUME IInv, stack = << >>
    PROVE  /\ unknown = {}
           /\ \A x \in Modules : cache[x] = None \/ cache[x].state # "unknown"
<1>1. unknown = {} /\ Checking = {}
  BY WalkModules DEF IInv, Walk, WalkOK
<1>. QED
  BY <1>1 DEF IInv, Walk, UnknownIsCurrent

(* The other steps leave no check behind.                                  *)
LEMMA LoadWalks ==
    ASSUME IInv, NEW m \in Modules,
           Taint(m) \/ LoadNew(m) \/ LoadDirty(m) \/ Request(m) \/ DirtyDependency(m)
    PROVE  Walk'
<1>0. /\ TypeOK /\ CacheEarlier /\ WalkOK /\ UnknownIsCurrent
      /\ \A x \in Passed : cache[x] # None
  BY DEF IInv, Fits, Walk, WalkOK
<1>1. CASE Taint(m) \/ LoadNew(m) \/ LoadDirty(m) \/ Request(m)
  <2>1. stack = << >> /\ stack' = << >> /\ unknown' = unknown
    BY <1>0, <1>1 DEF Taint, LoadNew, LoadDirty, Request, check, TypeOK
  <2>2. unknown' = {} /\ \A x \in Modules : cache[x] = None \/ cache[x].state # "unknown"
    BY <2>1, NoneUnknown
  <2>3. CASE LoadNew(m) \/ Request(m)
    <3>1. cache' = cache
      BY <2>3 DEF LoadNew, server, Request
    <3>. QED
      BY <2>1, <2>2, <3>1, WalkEmpty
  <2>4. CASE Taint(m)
    <3>1. \A x \in Modules : IF x = m THEN cache'[x].state = "bad" ELSE cache'[x] = cache[x]
      BY <1>0, <2>4, TaintedOne DEF MarkedAs
    <3>. QED
      BY <2>1, <2>2, <3>1, WalkEmpty
  <2>5. CASE LoadDirty(m)
    <3>1. cache[m] # None /\ cache' = Marked(m, "bad")
      BY <2>5 DEF LoadDirty
    <3>2. \A x \in Modules : IF x = m THEN cache'[x].state = "bad" ELSE cache'[x] = cache[x]
      BY <1>0, <3>1, MarkedOne DEF MarkedAs
    <3>. QED
      BY <2>1, <2>2, <3>2, WalkEmpty
  <2>. QED
    BY <1>1, <2>3, <2>4, <2>5
<1>2. CASE DirtyDependency(m)
  <2>1. /\ stack # << >> /\ m \in Top.deps /\ stack' = << >> /\ unknown' = {}
        /\ cache' = Refused(m)
    BY <1>2 DEF DirtyDependency
  <2>2. cache[m] # None /\ typing /\ Passed \subseteq Modules
    BY <1>0, <2>1, DepsCached, WalkModules
  <2>3. /\ \A x \in Checking \cup {m} : MarkedAs(x, "bad", compilation_step)
        /\ \A x \in unknown \ (Checking \cup {m}) : MarkedAs(x, "good", compilation_step - 1)
        /\ \A x \in Modules \ (Passed \cup {m}) : cache'[x] = cache[x]
    BY <1>0, <2>1, <2>2, RefusedAll
  <2>4. \A x \in Modules : cache'[x] = None \/ cache'[x].state # "unknown"
    BY <1>0, <2>3 DEF MarkedAs, UnknownIsCurrent, Passed
  <2>. QED
    BY <2>1, <2>4, WalkEmpty
<1>. QED
  BY <1>1, <1>2

LEMMA EndWalks == ASSUME IInv, FinishCheck \/ Succeed \/ Fail PROVE Walk'
<1>0. /\ TypeOK /\ WalkOK /\ UnknownIsCurrent
      /\ \A x \in Passed : cache[x] # None
  BY DEF IInv, Walk, WalkOK
<1>1. CASE Succeed \/ Fail
  <2>1. stack = << >> /\ stack' = << >> /\ unknown' = unknown
    BY <1>1 DEF Succeed, Fail, EndRequest, check
  <2>2. unknown' = {} /\ \A x \in Modules : cache[x] = None \/ cache[x].state # "unknown"
    BY <2>1, NoneUnknown
  <2>3. \A x \in Modules : cache'[x].state = "good" \/ cache'[x] = cache[x]
    BY <1>1, CachedAll DEF Fail
  <2>. QED
    BY <2>1, <2>2, <2>3, WalkEmpty
<1>2. CASE FinishCheck
  <2>1. Len(stack) = 1 /\ Top.deps = {} /\ stack' = << >> /\ unknown' = {} /\ cache' = Accepted
    BY <1>2 DEF FinishCheck
  <2>2. stack # << >> /\ Passed \subseteq Modules
    BY <2>1, AllClean
  <2>3. /\ \A x \in Passed : MarkedAs(x, "good", cache[x].checked)
        /\ \A x \in Modules \ Passed : cache'[x] = cache[x]
    BY <1>0, <2>1, <2>2, AcceptedAll
  <2>4. \A x \in Modules : cache'[x] = None \/ cache'[x].state # "unknown"
    BY <1>0, <2>3 DEF MarkedAs, UnknownIsCurrent, Passed
  <2>. QED
    BY <2>1, <2>4, WalkEmpty
<1>. QED
  BY <1>1, <1>2

-----------------------------------------------------------------------------
(* Files and types. *)

LEMMA EditAges == ASSUME TypeOK, FilesAge, NEW m \in Modules, Edit(m) PROVE FilesAge'
<1>1. /\ typing' = typing /\ started' = started
      /\ \A x \in Modules \ {m} : disk'[x] = disk[x]
      /\ disk'[m].time = disk[m].time + 1
      /\ \/ disk'[m].hides = disk[m].hides
         \/ disk[m].hides = 0 /\ disk'[m].hides = disk[m].time
  BY DEF TypeOK, Edit, request, File
<1>2. disk[m].time \in Nat /\ disk[m].hides \in Nat
  BY DEF TypeOK, File
<1>3. typing => started[m].time \in Nat /\ started[m].hides \in Nat
  BY DEF FilesAge, File
<1>4. disk[m].hides < disk[m].time
  BY DEF FilesAge
<1>5. disk'[m].hides < disk'[m].time
  BY <1>1, <1>2, <1>4
<1>6. typing =>
        /\ started[m].time <= disk[m].time
        /\ started[m].hides # 0 => disk[m].hides = started[m].hides
        /\ started[m].hides = 0 /\ disk[m].hides # 0 => disk[m].hides >= started[m].time
  BY DEF FilesAge
<1>7. typing =>
        /\ started[m].time <= disk'[m].time
        /\ started[m].hides # 0 => disk'[m].hides = started[m].hides
        /\ started[m].hides = 0 /\ disk'[m].hides # 0 => disk'[m].hides >= started[m].time
  BY <1>1, <1>2, <1>3, <1>6
<1>. QED
  BY <1>1, <1>5, <1>7 DEF FilesAge

LEMMA RequestAges == ASSUME TypeOK, FilesAge, NEW m \in Modules, Request(m) PROVE FilesAge'
<1>1. disk' = disk /\ started' = disk
  BY DEF Request, files
<1>2. \A x \in Modules : disk[x] \in File /\ disk[x].time \in Nat /\ disk[x].hides \in Nat
                         /\ disk[x].hides < disk[x].time
  BY DEF TypeOK, File, FilesAge
<1>3. \A x \in Modules : disk[x].time <= disk[x].time
                         /\ (disk[x].hides = 0 \/ disk[x].hides # 0)
  BY <1>2
<1>. QED
  BY <1>1, <1>2, <1>3 DEF FilesAge

LEMMA NextAges == ASSUME IInv, [Next]_vars PROVE FilesAge'
<1>0. TypeOK /\ FilesAge
  BY DEF IInv
<1>1. CASE \E m \in Modules : Edit(m)
  BY <1>0, <1>1, EditAges
<1>2. CASE \E m \in Modules : Request(m)
  BY <1>0, <1>2, RequestAges
<1>3. CASE Succeed \/ Fail
  <2>1. disk' = disk /\ typing' = FALSE
    BY <1>3 DEF Succeed, Fail, EndRequest, files
  <2>. QED
    BY <1>0, <2>1 DEF FilesAge
<1>4. CASE \/ UNCHANGED vars
           \/ \E m \in Modules : \/ Taint(m) \/ LoadNew(m) \/ LoadDirty(m) \/ StartCheck(m)
                                 \/ SkipDependency(m) \/ EnterDependency(m) \/ DirtyDependency(m)
           \/ LeaveDependency \/ FinishCheck
  <2>1. disk' = disk /\ typing' = typing /\ started' = started
    BY <1>4 DEF vars, Taint, LoadNew, LoadDirty, StartCheck, SkipDependency, EnterDependency,
                DirtyDependency, LeaveDependency, FinishCheck, files, request, history
  <2>. QED
    BY <1>0, <2>1 DEF FilesAge
<1>. QED
  BY <1>1, <1>2, <1>3, <1>4 DEF Next, CheckStep

(* The parts of TypeOK: what is on disk, in the cache, and in a request.   *)
DiskOK == /\ disk \in [Modules -> File] /\ started \in [Modules -> File \cup {None}]
          /\ dirTime \in Nat \ {0} /\ c_mtime \in 0 .. dirTime
CacheOK == /\ cache \in [Modules -> Module \cup {None}]
           /\ context \in [Modules -> Loaded \cup {None}] /\ compilation_step \in 0 .. MaxRequests
RequestOK == /\ asked \in Modules \cup {None} /\ changed \in BOOLEAN \cup {None}
             /\ typing \in BOOLEAN /\ calm \in BOOLEAN /\ stale \subseteq Modules
WalkTyped == /\ stack \in Seq([m : Modules, deps : SUBSET Modules]) /\ unknown \subseteq Modules
             /\ ~typing => stack = << >> /\ unknown = {}

LEMMA Parts == TypeOK <=> DiskOK /\ CacheOK /\ RequestOK /\ WalkTyped
  BY DEF TypeOK, DiskOK, CacheOK, RequestOK, WalkTyped

LEMMA NoModulesTyped ==
    NoModules \in [Modules -> Loaded \cup {None}] /\ NoModules \in [Modules -> File \cup {None}]
  BY DEF NoModules

LEMMA DiskTyped == ASSUME IInv, [Next]_vars PROVE DiskOK'
<1>0. DiskOK /\ TypeOK
  BY Parts DEF IInv
<1>1. ASSUME NEW m \in Modules, Edit(m) PROVE DiskOK'
  <2>1. /\ UNCHANGED <<started, c_mtime>> /\ dirTime' \in {dirTime, dirTime + 1}
        /\ \E i \in SUBSET Modules :
             \/ disk' = [disk EXCEPT ![m].time = @ + 1, ![m].imports = i]
             \/ disk' = [disk EXCEPT ![m] = [time |-> @.time + 1, imports |-> i,
                                             hides |-> @.time]]
    BY <1>1 DEF Edit, server
  <2>2. PICK i \in SUBSET Modules :
             \/ disk' = [disk EXCEPT ![m].time = @ + 1, ![m].imports = i]
             \/ disk' = [disk EXCEPT ![m] = [time |-> @.time + 1, imports |-> i,
                                             hides |-> @.time]]
    BY <2>1
  <2>3. disk[m] \in File /\ disk[m].time \in Nat \ {0} /\ disk[m].time + 1 \in Nat \ {0}
    BY <1>0 DEF DiskOK, File
  <2>4. disk' \in [Modules -> File]
    BY <1>0, <2>2, <2>3 DEF DiskOK, File
  <2>5. dirTime' \in Nat \ {0} /\ c_mtime' \in 0 .. dirTime'
    BY <1>0, <2>1 DEF DiskOK
  <2>. QED
    BY <1>0, <2>1, <2>4, <2>5 DEF DiskOK
<1>2. ASSUME NEW m \in Modules, Request(m) PROVE DiskOK'
  BY <1>0, <1>2 DEF DiskOK, Request, files
<1>3. ASSUME Succeed \/ Fail PROVE DiskOK'
  <2>1. /\ disk' = disk /\ dirTime' = dirTime /\ started' = NoModules
        /\ c_mtime' \in {c_mtime, dirTime}
    BY <1>3 DEF Succeed, Fail, EndRequest, RunDelays, files
  <2>. QED
    BY <1>0, <2>1, NoModulesTyped DEF DiskOK
<1>4. ASSUME NEW m \in Modules, \/ LoadDirty(m) \/ StartCheck(m) \/ EnterDependency(m)
                                \/ DirtyDependency(m)
      PROVE DiskOK'
  <2>1. disk' = disk /\ dirTime' = dirTime /\ started' = started
    BY <1>4 DEF LoadDirty, StartCheck, EnterDependency, DirtyDependency, files, history
  <2>2. c_mtime' = c_mtime \/ LookAtDirectories
    BY <1>4 DEF LoadDirty, StartCheck, EnterDependency, DirtyDependency
  <2>3. c_mtime' \in 0 .. dirTime
    BY <1>0, <2>2, Looked DEF DiskOK
  <2>. QED
    BY <1>0, <2>1, <2>3 DEF DiskOK
<1>5. ASSUME \/ UNCHANGED vars \/ LeaveDependency \/ FinishCheck
             \/ \E m \in Modules : Taint(m) \/ LoadNew(m) \/ SkipDependency(m)
      PROVE DiskOK'
  <2>1. UNCHANGED <<disk, dirTime, started, c_mtime>>
    BY <1>5 DEF vars, LeaveDependency, FinishCheck, Taint, LoadNew, SkipDependency,
                files, history, server
  <2>. QED
    BY <1>0, <2>1 DEF DiskOK
<1>. QED
  BY <1>1, <1>2, <1>3, <1>4, <1>5 DEF Next, CheckStep

LEMMA CacheTyped == ASSUME IInv, [Next]_vars PROVE CacheOK'
<1>0. CacheOK /\ TypeOK
  BY Parts DEF IInv
<1>1. CASE MarkingStep
  BY <1>0, <1>1, MarkingSteps DEF CacheOK, CacheMarked, OnlyTypes
<1>2. CASE FinishCheck
  <2>1. context' \in [Modules -> Loaded \cup {None}] /\ Len(stack) = 1 /\ Top.deps = {}
    BY <1>2, Adds
  <2>2. stack # << >> /\ \A x \in Passed : x \in Modules /\ cache[x] # None
    BY <2>1, AllClean DEF IInv, Walk, WalkOK
  <2>3. cache' = Accepted /\ compilation_step' = compilation_step
    BY <1>2 DEF FinishCheck
  <2>4. cache' \in [Modules -> Module \cup {None}]
    BY <1>0, <2>1, <2>2, <2>3, AcceptedAll
  <2>. QED
    BY <1>0, <2>1, <2>3, <2>4 DEF CacheOK
<1>3. CASE \E m \in Modules : Request(m)
  <2>1. cache' = cache /\ context' = NoModules
        /\ compilation_step' = compilation_step + 1 /\ compilation_step < MaxRequests
    BY <1>3 DEF Request
  <2>2. compilation_step' \in 0 .. MaxRequests
    BY <1>0, <2>1, CacheAssumption DEF CacheOK
  <2>. QED
    BY <1>0, <2>1, <2>2, NoModulesTyped DEF CacheOK
<1>4. CASE Succeed
  <2>1. context' = NoModules /\ compilation_step' = compilation_step
    BY <1>4 DEF Succeed, EndRequest
  <2>. QED
    BY <1>0, <1>4, <2>1, CachedAll, NoModulesTyped DEF CacheOK
<1>5. CASE Fail
  <2>1. context' = NoModules /\ compilation_step' = compilation_step /\ cache' = cache
    BY <1>5 DEF Fail, EndRequest
  <2>. QED
    BY <1>0, <2>1, NoModulesTyped DEF CacheOK
<1>6. CASE UNCHANGED vars
  BY <1>0, <1>6 DEF CacheOK, vars, server, request
<1>7. LeaveDependency => MarkingStep
  <2>1. LeaveDependency => \E m \in Modules : TRUE
    BY <1>0, Shorter, WalkModules DEF LeaveDependency, TypeOK, Frame
  <2>. QED
    BY <2>1 DEF MarkingStep
<1>. QED
  BY <1>1, <1>2, <1>3, <1>4, <1>5, <1>6, <1>7 DEF Next, CheckStep, MarkingStep

LEMMA RequestTyped == ASSUME IInv, [Next]_vars PROVE RequestOK'
<1>0. RequestOK /\ TypeOK
  BY Parts DEF IInv
<1>1. ASSUME NEW m \in Modules, Edit(m) \/ Taint(m) PROVE RequestOK'
  BY <1>0, <1>1 DEF RequestOK, Edit, Taint, request
<1>2. ASSUME NEW m \in Modules, Request(m) PROVE RequestOK'
  <2>1. /\ asked' = m /\ changed' = None /\ typing' = TRUE /\ stale' = stale
        /\ calm' = \A x \in Reach(m) :
                     cache[x] # None /\ cache[x].state = "good" /\ disk[x] = cache[x].file
    BY <1>2 DEF Request
  <2>2. calm' \in BOOLEAN
    BY <2>1
  <2>. QED
    BY <1>0, <2>1, <2>2 DEF RequestOK
<1>3. ASSUME Succeed \/ Fail PROVE RequestOK'
  <2>1. asked' = None /\ changed' = None /\ typing' = FALSE /\ calm' = FALSE
    BY <1>3 DEF Succeed, Fail, EndRequest
  <2>2. stale' \subseteq Modules
    BY <1>0, <1>3 DEF Succeed, Fail, RequestOK
  <2>. QED
    BY <2>1, <2>2 DEF RequestOK
<1>4. ASSUME NEW m \in Modules, \/ LoadDirty(m) \/ StartCheck(m) \/ EnterDependency(m)
                                \/ DirtyDependency(m)
      PROVE RequestOK'
  <2>1. asked' = asked /\ typing' = typing /\ calm' = calm /\ stale' = stale
    BY <1>4 DEF LoadDirty, StartCheck, EnterDependency, DirtyDependency, history
  <2>2. changed' = changed \/ LookAtDirectories
    BY <1>4 DEF LoadDirty, StartCheck, EnterDependency, DirtyDependency
  <2>3. changed' \in BOOLEAN \cup {None}
    BY <1>0, <2>2, Looked DEF RequestOK
  <2>. QED
    BY <1>0, <2>1, <2>3 DEF RequestOK
<1>5. ASSUME \/ UNCHANGED vars \/ LeaveDependency \/ FinishCheck
             \/ \E m \in Modules : LoadNew(m) \/ SkipDependency(m)
      PROVE RequestOK'
  <2>1. UNCHANGED <<asked, changed, typing, calm, stale>>
    BY <1>5 DEF vars, LeaveDependency, FinishCheck, LoadNew, SkipDependency, request, history
  <2>. QED
    BY <1>0, <2>1 DEF RequestOK
<1>. QED
  BY <1>1, <1>2, <1>3, <1>4, <1>5 DEF Next, CheckStep

LEMMA WalkTypedNext == ASSUME IInv, [Next]_vars PROVE WalkTyped'
<1>0. WalkTyped /\ TypeOK /\ stack \in Seq(Frame)
  BY Parts DEF IInv, WalkTyped, Frame
<1>. SUFFICES ASSUME TRUE
              PROVE  /\ stack' \in Seq(Frame) /\ unknown' \subseteq Modules
                     /\ ~typing' => stack' = << >> /\ unknown' = {}
  BY DEF WalkTyped, Frame
<1>1. ASSUME \/ UNCHANGED vars
             \/ \E m \in Modules : Edit(m) \/ Taint(m) \/ LoadNew(m) \/ LoadDirty(m)
      PROVE  UNCHANGED <<stack, unknown, typing>>
  BY <1>1 DEF vars, check, request, Edit, Taint, LoadNew, LoadDirty
<1>2. ASSUME FinishCheck \/ \E m \in Modules : DirtyDependency(m)
      PROVE  stack' = << >> /\ unknown' = {}
  BY <1>2 DEF FinishCheck, DirtyDependency
<1>3. ASSUME \/ Succeed \/ Fail \/ \E m \in Modules : Request(m)
      PROVE  stack' = << >> /\ unknown' = {}
  <2>1. stack' = stack /\ unknown' = unknown /\ stack = << >>
    BY <1>0, <1>3 DEF Succeed, Fail, EndRequest, Request, check, WalkTyped
  <2>. QED
    BY <2>1, NoneUnknown
<1>4. ASSUME NEW m \in Modules, StartCheck(m)
      PROVE  stack' \in Seq(Frame) /\ unknown' \subseteq Modules /\ typing'
  <2>1. /\ stack' = <<[m |-> m, deps |-> cache[m].file.imports]>>
        /\ unknown' = unknown /\ typing' = typing /\ typing /\ cache[m] # None
    BY <1>4, StartsUnsettled DEF StartCheck
  <2>2. [m |-> m, deps |-> cache[m].file.imports] \in Frame
    BY <1>0, <2>1, CachedModule DEF Frame
  <2>. QED
    BY <1>0, <2>1, <2>2 DEF WalkTyped
<1>5. ASSUME NEW d \in Modules, SkipDependency(d)
      PROVE  stack' \in Seq(Frame) /\ unknown' \subseteq Modules /\ typing'
  <2>1. stack' = LeftAt(stack, d) /\ stack # << >> /\ unknown' = unknown /\ typing' = typing
    BY <1>5 DEF SkipDependency, LeftAt, request
  <2>2. typing
    BY <1>0, <2>1, WalkModules
  <2>3. LeftAt(stack, d) \in Seq(Frame)
    BY <1>0, <2>1, OneLess
  <2>. QED
    BY <1>0, <2>1, <2>2, <2>3 DEF WalkTyped
<1>6. ASSUME NEW d \in Modules, EnterDependency(d)
      PROVE  stack' \in Seq(Frame) /\ unknown' \subseteq Modules /\ typing'
  <2>. DEFINE f == [m |-> d, deps |-> cache[d].file.imports]
  <2>1. /\ stack' = StackOf(stack, d, f) /\ stack # << >> /\ d \in Top.deps
        /\ unknown' = unknown /\ typing' = typing
    BY <1>6 DEF EnterDependency, LeftAt, StackOf
  <2>2. typing /\ cache[d] # None
    BY <1>0, <2>1, WalkModules, DepsCached
  <2>3. f \in Frame
    BY <1>0, <2>2, CachedModule DEF Frame
  <2>. HIDE DEF f
  <2>4. StackOf(stack, d, f) \in Seq(Frame)
    BY <1>0, <2>1, <2>3, Entered
  <2>. QED
    BY <1>0, <2>1, <2>2, <2>4 DEF WalkTyped
<1>7. ASSUME LeaveDependency
      PROVE  stack' \in Seq(Frame) /\ unknown' \subseteq Modules /\ typing'
  <2>1. /\ Len(stack) > 1 /\ stack' = Front(stack) /\ unknown' = unknown \cup {Top.m}
        /\ typing' = typing
    BY <1>7 DEF LeaveDependency, request
  <2>2. stack' \in Seq(Frame)
    BY <1>0, <2>1, Shorter
  <2>3. stack # << >>
    <3>1. Len(<< >>) = 0
      BY EmptySeq
    <3>. QED
      BY <2>1, <3>1
  <2>4. typing /\ Top.m \in Modules
    BY <1>0, <2>3, WalkModules DEF Passed
  <2>. QED
    BY <1>0, <2>1, <2>2, <2>4 DEF WalkTyped
<1>. QED
  BY <1>0, <1>1, <1>2, <1>3, <1>4, <1>5, <1>6, <1>7, EmptySeq DEF Next, CheckStep, WalkTyped

-----------------------------------------------------------------------------
(* The invariant, and what follows from it. *)

LEMMA InitInvariant == Init => IInv
<1>. SUFFICES ASSUME Init PROVE IInv
  OBVIOUS
<1>0. /\ \A m \in Modules : cache[m] = None /\ context[m] = None
      /\ stack = << >> /\ unknown = {} /\ typing = FALSE /\ stack \in Seq(Frame)
      /\ context = NoModules
  BY EmptySeq DEF Init, NoModules
<1>1. TypeOK
  <2>1. DiskOK
    <3>1. disk \in [Modules -> [time : {1}, imports : SUBSET Modules, hides : {0}]]
      BY DEF Init
    <3>2. disk \in [Modules -> File]
      BY <3>1 DEF File
    <3>3. dirTime \in Nat \ {0} /\ c_mtime \in 0 .. dirTime
      BY DEF Init, Unlisted
    <3>. QED
      BY <3>2, <3>3, NoModulesTyped DEF Init, DiskOK
  <2>2. CacheOK
    <3>1. compilation_step \in 0 .. MaxRequests
      BY CacheAssumption DEF Init
    <3>2. cache \in [Modules -> Module \cup {None}]
      BY DEF Init, NoModules
    <3>. QED
      BY <3>1, <3>2, NoModulesTyped DEF Init, CacheOK
  <2>3. RequestOK
    BY DEF Init, RequestOK
  <2>4. WalkTyped
    BY <1>0 DEF WalkTyped, Frame
  <2>. QED
    BY <2>1, <2>2, <2>3, <2>4, Parts
<1>2. FilesAge
  <2>1. \A m \in Modules : disk[m].time = 1 /\ disk[m].hides = 0
    BY DEF Init
  <2>. QED
    BY <1>0, <2>1 DEF FilesAge
<1>3. Checking = {} /\ Passed = {}
  BY <1>0, WalkModules, <1>1 DEF Passed
<1>4. \A m \in Modules : ~IsReused(m) /\ ~IsTyped(m)
  BY <1>0 DEF IsReused, IsTyped
<1>5. Fits
  BY <1>0, <1>4 DEF Fits, CacheEarlier, DependenciesCached, ContextFitsCache, AcceptedReused,
                    OneGeneration, CleanMeansUnchanged, ShadowsNoticed
<1>6. Walk
  <2>1. Len(stack) = 0
    BY <1>0, EmptySeq
  <2>2. WalkClosed
    BY <1>0, <2>1 DEF WalkClosed
  <2>. QED
    BY <1>0, <1>3, <2>2 DEF Walk, WalkOK, UnknownIsCurrent, WalkCurrent
<1>. QED
  BY <1>1, <1>2, <1>5, <1>6 DEF IInv

LEMMA StutterFits == ASSUME IInv, UNCHANGED vars PROVE Fits' /\ Walk'
<1>1. UNCHANGED <<disk, cache, compilation_step, context, changed, typing, started, stack, unknown>>
  BY DEF vars, files, server, request, check, history
<1>2. Fits'
  BY <1>1 DEF IInv, Fits, CacheEarlier, DependenciesCached, ContextFitsCache, AcceptedReused,
              OneGeneration, CleanMeansUnchanged, ShadowsNoticed, IsReused, IsTyped, TimeThen
<1>3. Walk'
  BY <1>1 DEF IInv, Walk, WalkOK, WalkClosed, UnknownIsCurrent, WalkCurrent,
              Passed, Checking, Root, Reach, Clean, IsReused, NotOlder
<1>. QED
  BY <1>2, <1>3

LEMMA EditWalks == ASSUME IInv, NEW m \in Modules, Edit(m) PROVE Walk'
<1>1. UNCHANGED <<cache, compilation_step, context, changed, typing, started, stack, unknown>>
  BY DEF Edit, server, request, check
<1>. QED
  BY <1>1 DEF IInv, Walk, WalkOK, WalkClosed, UnknownIsCurrent, WalkCurrent,
              Passed, Checking, Root, Reach, Clean, IsReused, NotOlder

LEMMA NextInvariant == ASSUME IInv, [Next]_vars PROVE IInv'
<1>1. TypeOK'
  <2>1. DiskOK' /\ CacheOK' /\ RequestOK' /\ WalkTyped'
    BY DiskTyped, CacheTyped, RequestTyped, WalkTypedNext
  <2>. QED
    BY <2>1 DEF TypeOK, DiskOK, CacheOK, RequestOK, WalkTyped
<1>2. FilesAge'
  BY NextAges
<1>3. ASSUME MarkingStep PROVE Fits'
  BY <1>3, MarkingSteps, MarkingFits DEF IInv
<1>4. LeaveDependency => \E m \in Modules : TRUE
  <2>1. LeaveDependency => Len(stack) > 1
    BY DEF LeaveDependency
  <2>2. stack # << >> => \E m \in Modules : TRUE
    BY WalkModules DEF IInv
  <2>3. Len(stack) > 1 => stack # << >>
    <3>1. Len(<< >>) = 0
      BY EmptySeq
    <3>. QED
      BY <3>1
  <2>. QED
    BY <2>1, <2>2, <2>3
<1>5. (\E m \in Modules :
        \/ Edit(m) \/ Taint(m) \/ LoadNew(m) \/ LoadDirty(m) \/ StartCheck(m)
        \/ SkipDependency(m) \/ EnterDependency(m) \/ DirtyDependency(m)) \/ LeaveDependency
          => MarkingStep
  BY <1>4 DEF MarkingStep
<1>6. Fits'
  BY <1>3, <1>5, FinishFits, RequestFits, SucceedFits, FailFits, StutterFits DEF Next, CheckStep
<1>7. Walk'
  BY EditWalks, StartWalks, SkipWalks, EnterWalks, LeaveWalks, LoadWalks, EndWalks, StutterFits
  DEF Next, CheckStep
<1>. QED
  BY <1>1, <1>2, <1>6, <1>7 DEF IInv

LEMMA Invariant == Spec => []IInv
<1>. QED
  BY InitInvariant, NextInvariant, PTL DEF Spec

(* Every variable keeps its type.  Behind it: the mark that a failed check *)
(* takes back is not below zero, and what is walked is cached.             *)
THEOREM TypeCorrect == Spec => []TypeOK
<1>1. IInv => TypeOK
  BY DEF IInv
<1>. QED
  BY <1>1, Invariant, PTL

(* find_module in check_dependencies and add_modules never raises          *)
(* Not_found: what a cached module depends on is cached.                   *)
THEOREM AlwaysFound == Spec => []DependenciesCached
<1>1. IInv => DependenciesCached
  BY DEF IInv, Fits
<1>. QED
  BY <1>1, Invariant, PTL

(* A module in the unknown state is part of the check that is going on:    *)
(* the assertion of check_module holds, and no check leaves one behind.    *)
THEOREM UnknownInCheck == Spec => []UnknownIsCurrent
<1>1. IInv => UnknownIsCurrent
  BY DEF IInv, Walk
<1>. QED
  BY <1>1, Invariant, PTL

(* What is taken from the cache depends on nothing that was typed again,   *)
(* whatever the cycles between modules.                                    *)
THEOREM SameGeneration == Spec => []OneGeneration
<1>1. IInv => OneGeneration
  BY DEF IInv, Fits
<1>. QED
  BY <1>1, Invariant, PTL

(* No request works with a file older than it was when the request came.   *)
THEOREM NeverOlder == Spec => []CleanMeansUnchanged
<1>1. IInv => CleanMeansUnchanged
  BY DEF IInv, Fits
<1>. QED
  BY <1>1, Invariant, PTL

(* Once a request knows that the directory changed it reuses no shadowed   *)
(* module.                                                                 *)
THEOREM ShadowsSeen == Spec => []ShadowsNoticed
<1>1. IInv => ShadowsNoticed
  BY DEF IInv, Fits
<1>. QED
  BY <1>1, Invariant, PTL

(* A request never replaces a module that it has loaded: neither typing    *)
(* nor add_modules.                                                        *)
THEOREM NeverReplaced == Spec => ModulesStay
<1>1. ASSUME IInv, [Next]_vars
      PROVE  [\A m \in Modules : typing' /\ context[m] # None => context'[m] = context[m]]_vars
  <2>. SUFFICES ASSUME typing', NEW m \in Modules, context[m] # None
                PROVE  context'[m] = context[m]
    OBVIOUS
  <2>1. CASE MarkingStep
    BY <2>1, <1>1, MarkingSteps DEF OnlyTypes
  <2>2. CASE FinishCheck
    BY <2>2, <1>1, Adds
  <2>3. CASE \E x \in Modules : Request(x)
    <3>1. ~typing
      BY <2>3 DEF Request
    <3>2. context = NoModules
      BY <1>1, <3>1 DEF IInv, Fits, ContextFitsCache
    <3>. QED
      BY <3>2 DEF NoModules
  <2>4. CASE Succeed \/ Fail
    BY <2>4 DEF Succeed, Fail, EndRequest
  <2>5. CASE UNCHANGED vars
    BY <2>5 DEF vars, request
  <2>6. LeaveDependency => MarkingStep
    BY DEF MarkingStep
  <2>. QED
    BY <1>1, <2>1, <2>2, <2>3, <2>4, <2>5, <2>6 DEF Next, CheckStep, MarkingStep
<1>. QED
  BY <1>1, Invariant, PTL DEF Spec, ModulesStay

-----------------------------------------------------------------------------
(* A request that finds its part of the cache up to date. *)

(* What such a request can reach is in the cache as it is on disk, and is  *)
(* all that it looks at.                                                   *)
CalmCache ==
    calm =>
      /\ typing /\ asked \in Modules /\ Passed \subseteq Reach(asked)
      /\ \A x \in Reach(asked) :
           cache[x] # None /\ cache[x].state # "bad" /\ disk[x] = cache[x].file
      /\ \A m \in Modules : context[m] # None => m \in Reach(asked) /\ IsReused(m)

CInv == IInv /\ CalmCache

LEMMA CalmNotDirty ==
    ASSUME CInv, calm, NEW x \in Reach(asked) PROVE ~Dirty(x) /\ cache[x] # None /\ x \in Modules
<1>1. x \in Modules /\ cache[x] # None /\ cache[x].state # "bad" /\ disk[x] = cache[x].file
  BY DEF CInv, CalmCache, Reach
<1>2. FileTime(x) = cache[x].file.time
  BY <1>1 DEF FileTime
<1>3. cache[x].file.time \in Nat
  BY <1>1, CachedModule DEF CInv, IInv
<1>4. ~Shadowed(x)
  BY <1>1, <1>3 DEF Shadowed
<1>. QED
  BY <1>1, <1>2, <1>4 DEF Dirty, FileChanged

LEMMA CalmWanted == ASSUME CInv, calm, NEW m \in Wanted PROVE m \in Reach(asked)
<1>1. m \in Modules /\ asked \in Modules
  BY DEF CInv, CalmCache, Wanted
<1>2. CASE m = asked
  BY <1>1, <1>2, ReachSelf
<1>3. CASE \E x \in Modules : context[x] # None /\ m \in context[x].file.imports
  <2>1. PICK x \in Modules : context[x] # None /\ m \in context[x].file.imports
    BY <1>3
  <2>2. x \in Reach(asked) /\ IsReused(x)
    BY <2>1 DEF CInv, CalmCache
  <2>3. cache[x] # None /\ cache[x].file = context[x].file
    BY <2>2 DEF CInv, IInv, Fits, ContextFitsCache
  <2>. QED
    BY <1>1, <2>1, <2>2, <2>3, ReachStep
<1>. QED
  BY <1>2, <1>3 DEF Wanted

LEMMA CalmDependency ==
    ASSUME CInv, calm, stack # << >>, NEW d \in Top.deps PROVE d \in Reach(asked)
<1>1. /\ d \in Modules /\ d \in cache[Top.m].file.imports /\ Top.m \in Passed
      /\ cache[Top.m] # None
  BY DepsCached, WalkModules DEF CInv, IInv, Walk, WalkOK, Passed
<1>. QED
  BY <1>1, ReachStep DEF CInv, CalmCache

LEMMA CalmInit == Init => CInv
  BY InitInvariant DEF Init, CInv, CalmCache

(* The steps that neither mark nor load anything but what is reached.      *)
LEMMA CalmKept ==
    ASSUME CInv, calm, UNCHANGED <<typing, asked, disk, compilation_step>>, ModulesKept,
           \A x \in Reach(asked) : cache'[x].state # "bad",
           Passed' \subseteq Reach(asked),
           \A x \in Modules : context'[x] # None => x \in Reach(asked) /\ IsReused(x)'
    PROVE  CalmCache'
<1>1. asked \in Modules /\ asked' = asked
  BY DEF CInv, CalmCache
<1>2. Reach(asked)' = Reach(asked)
  <2>1. \A r \in Modules : Reach(r)' = Reach(r)
    BY ReachKept
  <2>2. \A r : r = asked => Reach(asked)' = Reach(r)'
    BY <1>1 DEF Reach
  <2>. QED
    BY <1>1, <2>1, <2>2
<1>3. \A x \in Reach(asked) : x \in Modules
  BY DEF Reach
<1>4. \A x \in Reach(asked) : cache'[x] # None /\ disk'[x] = cache'[x].file
  BY <1>3 DEF CInv, CalmCache, ModulesKept
<1>. QED
  BY <1>1, <1>2, <1>4 DEF CInv, CalmCache

LEMMA CalmNext == ASSUME CInv, [Next]_vars PROVE CInv'
<1>0. IInv /\ IInv' /\ TypeOK
  BY NextInvariant DEF CInv, IInv
<1>. SUFFICES CalmCache'
  BY <1>0 DEF CInv
<1>1. CASE \E m \in Modules : Edit(m) \/ Taint(m)
  BY <1>1 DEF Edit, Taint, CalmCache
<1>2. CASE Succeed \/ Fail
  BY <1>2 DEF Succeed, Fail, EndRequest, CalmCache
<1>3. ASSUME NEW m \in Modules, Request(m) PROVE CalmCache'
  <2>. SUFFICES ASSUME calm' PROVE CalmCache'
    BY DEF CalmCache
  <2>1. /\ asked' = m /\ typing' /\ cache' = cache /\ disk' = disk /\ context' = NoModules
        /\ stack = << >> /\ stack' = << >> /\ unknown' = unknown
        /\ \A x \in Reach(m) :
             cache[x] # None /\ cache[x].state = "good" /\ disk[x] = cache[x].file
    BY <1>0, <1>3 DEF Request, check, files, TypeOK
  <2>2. Reach(asked)' = Reach(m)
    BY <2>1 DEF Reach
  <2>3. Passed' = {}
    BY <1>0, <2>1, NoneUnknown DEF Passed, Checking
  <2>. QED
    BY <2>1, <2>2, <2>3 DEF CalmCache, NoModules
<1>4. CASE calm /\ \E m \in Modules : LoadNew(m) \/ LoadDirty(m)
  <2>1. PICK m \in Modules : LoadNew(m) \/ LoadDirty(m)
    BY <1>4
  <2>2. m \in Wanted /\ (cache[m] = None \/ Dirty(m))
    BY <2>1 DEF LoadNew, LoadDirty
  <2>. QED
    BY <1>4, <2>2, CalmWanted, CalmNotDirty
<1>5. CASE calm /\ \E m \in Modules : DirtyDependency(m)
  <2>1. PICK m \in Modules : DirtyDependency(m)
    BY <1>5
  <2>2. stack # << >> /\ m \in Top.deps /\ Dirty(m)
    BY <2>1 DEF DirtyDependency
  <2>. QED
    BY <1>5, <2>2, CalmDependency, CalmNotDirty
<1>6. ASSUME calm, NEW m \in Modules, StartCheck(m) \/ EnterDependency(m) PROVE CalmCache'
  <2>1. /\ cache' = Marked(m, "unknown") /\ m \in Reach(asked)
        /\ UNCHANGED <<typing, asked, disk, compilation_step, context, unknown>>
    <3>1. ASSUME StartCheck(m) PROVE m \in Wanted /\ ~Settled(m)
      BY <1>0, <3>1, StartsUnsettled DEF StartCheck
    <3>2. ASSUME EnterDependency(m) PROVE stack # << >> /\ m \in Top.deps
      BY <3>2 DEF EnterDependency
    <3>3. m \in Reach(asked)
      BY <1>6, <3>1, <3>2, CalmWanted, CalmDependency
    <3>. QED
      BY <1>6, <3>1, <3>3 DEF StartCheck, EnterDependency, files
  <2>2. cache[m] # None
    BY <1>6, <2>1, CalmNotDirty
  <2>3. /\ ModulesKept /\ MarkedAs(m, "unknown", compilation_step)
        /\ \A x \in Modules \ {m} : cache'[x] = cache[x]
    BY <1>0, <2>1, <2>2, MarkedOne
  <2>4. \A x \in Reach(asked) : cache'[x].state # "bad"
    BY <1>6, <2>3 DEF CInv, CalmCache, MarkedAs, Reach
  <2>5. Passed' \subseteq Passed \cup {m}
    <3>1. CASE StartCheck(m)
      <4>1. stack' = <<[m |-> m, deps |-> cache[m].file.imports]>>
        BY <1>0, <3>1, StartsUnsettled DEF StartCheck
      <4>2. Len(stack') = 1 /\ stack'[1].m = m
        BY <4>1
      <4>. QED
        BY <2>1, <4>2 DEF Passed, Checking
    <3>2. CASE EnterDependency(m)
      <4>. DEFINE f == [m |-> m, deps |-> cache[m].file.imports]
      <4>1. /\ stack' = StackOf(stack, m, f) /\ stack # << >> /\ stack \in Seq(Frame)
        BY <1>0, <3>2 DEF EnterDependency, StackOf, LeftAt, TypeOK, Frame
      <4>2. f \in Frame /\ f.m = m
        BY <1>0, <2>2, CachedModule DEF Frame
      <4>. HIDE DEF f
      <4>3. MsOf(StackOf(stack, m, f)) = MsOf(stack) \cup {f.m}
        BY <4>1, <4>2, Entered
      <4>4. MsOf(stack') = MsOf(stack) \cup {m}
        BY <4>1, <4>2, <4>3
      <4>. QED
        BY <2>1, <4>4 DEF Passed, Checking, MsOf
    <3>. QED
      BY <1>6, <3>1, <3>2
  <2>6. Passed' \subseteq Reach(asked)
    BY <1>6, <2>1, <2>5 DEF CInv, CalmCache
  <2>7. \A x \in Modules : context'[x] # None => x \in Reach(asked) /\ IsReused(x)'
    BY <1>6, <2>1 DEF CInv, CalmCache, IsReused
  <2>. QED
    BY <1>6, <2>1, <2>3, <2>4, <2>6, <2>7, CalmKept
<1>7. ASSUME calm, \/ LeaveDependency \/ UNCHANGED vars
                   \/ \E m \in Modules : SkipDependency(m)
      PROVE CalmCache'
  <2>1. UNCHANGED <<typing, asked, disk, compilation_step, context, cache>>
    BY <1>7 DEF LeaveDependency, SkipDependency, vars, files, server, request
  <2>2. ModulesKept /\ \A x \in Reach(asked) : cache'[x].state # "bad"
    BY <1>7, <2>1 DEF ModulesKept, CInv, CalmCache
  <2>3. Passed' \subseteq Reach(asked)
    <3>1. CASE UNCHANGED vars
      BY <1>7, <3>1 DEF vars, check, Passed, Checking, CInv, CalmCache
    <3>2. CASE \E m \in Modules : SkipDependency(m)
      <4>1. PICK d \in Modules : SkipDependency(d)
        BY <3>2
      <4>2. /\ stack' = LeftAt(stack, d) /\ stack # << >> /\ stack \in Seq(Frame)
            /\ unknown' = unknown
        BY <1>0, <4>1 DEF SkipDependency, LeftAt, TypeOK, Frame
      <4>3. /\ Len(LeftAt(stack, d)) = Len(stack)
            /\ \A i \in 1 .. Len(stack) : LeftAt(stack, d)[i].m = stack[i].m
        BY <4>2, OneLess
      <4>4. Passed' = Passed
        BY <4>2, <4>3 DEF Passed, Checking
      <4>. QED
        BY <1>7, <4>4 DEF CInv, CalmCache
    <3>3. CASE LeaveDependency
      <4>1. /\ Len(stack) > 1 /\ stack' = Front(stack) /\ unknown' = unknown \cup {Top.m}
            /\ stack \in Seq(Frame)
        BY <1>0, <3>3 DEF LeaveDependency, TypeOK, Frame
      <4>2. /\ Len(stack) \in Nat /\ Len(stack') = Len(stack) - 1
            /\ \A i \in 1 .. Len(stack) - 1 : stack'[i] = stack[i]
        BY <4>1, Shorter, LenProperties
      <4>3. \A i \in 1 .. Len(stack) - 1 : i \in 1 .. Len(stack)
        BY <4>2
      <4>4. stack # << >>
        <5>1. Len(<< >>) = 0
          BY EmptySeq
        <5>. QED
          BY <4>1, <5>1
      <4>5. Top.m \in Checking
        BY <1>0, <4>4, WalkModules
      <4>6. Passed' \subseteq Passed
        BY <4>1, <4>2, <4>3, <4>5 DEF Passed, Checking
      <4>. QED
        BY <1>7, <4>6 DEF CInv, CalmCache
    <3>. QED
      BY <1>7, <3>1, <3>2, <3>3
  <2>4. \A x \in Modules : context'[x] # None => x \in Reach(asked) /\ IsReused(x)'
    BY <1>7, <2>1 DEF CInv, CalmCache, IsReused
  <2>. QED
    BY <1>7, <2>1, <2>2, <2>3, <2>4, CalmKept
<1>8. ASSUME calm, FinishCheck PROVE CalmCache'
  <2>1. /\ UNCHANGED <<typing, asked, disk, compilation_step>> /\ cache' = Accepted
        /\ stack' = << >> /\ unknown' = {}
    BY <1>8 DEF FinishCheck, files
  <2>2. /\ Len(stack) = 1 /\ Top.deps = {}
        /\ \A x \in Reach(Root) :
             /\ context'[x] = [file |-> cache[x].file, born |-> cache[x].born]
             /\ context'[x] # None /\ cache[x].born # compilation_step
        /\ \A x \in Modules \ Reach(Root) : context'[x] = context[x]
    BY <1>0, <1>8, Adds
  <2>3. /\ stack # << >> /\ Root \in Passed /\ Passed \subseteq Modules
        /\ \A x \in Passed : cache[x] # None
    BY <1>0, <2>2, AllClean DEF IInv, Walk, WalkOK
  <2>4. /\ ModulesKept /\ \A x \in Passed : MarkedAs(x, "good", cache[x].checked)
        /\ \A x \in Modules \ Passed : cache'[x] = cache[x]
    BY <1>0, <2>1, <2>2, <2>3, AcceptedAll
  <2>5. \A x \in Reach(asked) : cache'[x].state # "bad"
    BY <1>8, <2>4 DEF CInv, CalmCache, MarkedAs, Reach
  <2>6. Passed' = {}
    BY <2>1 DEF Passed, Checking
  <2>7. Reach(Root) \subseteq Reach(asked)
    <3>1. Root \in Modules /\ Root \in Reach(asked) /\ Reach(asked) \in SUBSET Modules
      BY <1>8, <2>3 DEF CInv, CalmCache, Reach
    <3>2. Closed(Reach(asked))
      <4>1. \A y \in Reach(asked) : cache[y] # None => cache[y].file.imports \subseteq Modules
        BY <1>0, <3>1, CachedModule
      <4>. QED
        BY <1>8, <4>1, ReachStep DEF Closed, CInv, CalmCache
    <3>. QED
      BY <3>1, <3>2, ReachInside
  <2>8. ASSUME NEW x \in Modules, context'[x] # None PROVE x \in Reach(asked) /\ IsReused(x)'
    <3>1. CASE x \in Reach(Root)
      <4>1. context'[x].born = cache[x].born /\ cache[x].born # compilation_step
        <5>1. context'[x] = [file |-> cache[x].file, born |-> cache[x].born]
          BY <2>2, <3>1
        <5>. QED
          BY <2>2, <3>1, <5>1
      <4>. QED
        BY <2>1, <2>7, <2>8, <3>1, <4>1 DEF IsReused
    <3>2. CASE x \notin Reach(Root)
      <4>1. context'[x] = context[x]
        BY <2>2, <3>2
      <4>. QED
        BY <1>8, <2>1, <2>8, <4>1 DEF CInv, CalmCache, IsReused
    <3>. QED
      BY <3>1, <3>2
  <2>. QED
    BY <1>8, <2>1, <2>4, <2>5, <2>6, <2>8, CalmKept
<1>9. ~calm /\ ~(\E m \in Modules : Request(m)) => ~calm'
  <2>1. TypeOK /\ TypeOK'
    BY <1>0 DEF IInv
  <2>. QED
    BY <2>1 DEF Next, CheckStep, vars, history, Edit, Taint, LoadNew, LoadDirty, StartCheck,
       SkipDependency, EnterDependency, DirtyDependency, LeaveDependency, FinishCheck,
       Succeed, Fail, EndRequest
<1>10. ~calm' => CalmCache'
  BY DEF CalmCache
<1>. QED
  BY <1>1, <1>2, <1>3, <1>4, <1>5, <1>6, <1>7, <1>8, <1>9, <1>10 DEF Next, CheckStep

(* A request that finds everything it needs in the cache, unchanged and    *)
(* not tainted, types nothing again, cyclic dependencies included.         *)
THEOREM CalmTypesNothing == Spec => []NothingTypedTwice
<1>1. CInv => NothingTypedTwice
  BY DEF CInv, CalmCache, NothingTypedTwice, IsTyped, IsReused
<1>. QED
  BY <1>1, CalmInit, CalmNext, PTL DEF Spec

=============================================================================
