---------------------------- MODULE ModuleCache ----------------------------
(***************************************************************************)
(* The module cache of the compilation server (compiler/server.ml): a      *)
(* request loads the modules its root needs, from the cache when           *)
(* check_module finds that they can be reused, else by typing them, and    *)
(* puts what it loaded into the cache if it succeeds.  Files change at any *)
(* moment, during a check too.  One signature with one class path of two   *)
(* directories; a file that appears in the first of them shadows the one   *)
(* in the second.  Modules have no check policy (that is the default).     *)
(***************************************************************************)
EXTENDS Naturals, FiniteSetsExt, SequencesExt

CONSTANTS
    Modules,        \* module paths
    None,           \* no module, or a question not asked
    MaxChanges, MaxRequests \* bounds on the changes to files and on requests

ASSUME CacheAssumption == MaxChanges \in Nat /\ MaxRequests \in Nat

Unlisted == 0       \* the directories of the class path are not in the cache yet

VARIABLES
    disk,           \* the file each path resolves to: its time, what it imports, and
                    \* `hides`, the time of the file it shadows (0 if it shadows none)
    dirTime,        \* the modification time of the first directory
    c_mtime,        \* the same in the cache, or Unlisted
    cache,          \* cc.modules: the module of each path, or None
    compilation_step,
    asked,          \* the root of the request
    context,        \* module_lut of the request: the module of each path, or None
    changed,        \* changed_directories: is the first directory one of them?
    stack,          \* check_module: the modules being checked, with what is left of each
    unknown,        \* unknown_state_modules
    typing,         \* is there a request?
    started,        \* history: disk when the request came
    calm,           \* history: the request found its part of the cache up to date
    stale           \* history: cached modules typed against one that was replaced

files == <<disk, dirTime>>
server == <<c_mtime, cache, compilation_step>>
request == <<asked, context, changed, typing>>
check == <<stack, unknown>>
history == <<started, calm, stale>>
vars == <<files, server, request, check, history>>

File == [time : Nat \ {0}, imports : SUBSET Modules, hides : Nat]
Loaded == [file : File, born : 1 .. MaxRequests]
Module == [file : File, born : 1 .. MaxRequests, state : {"good", "unknown", "bad"},
           checked : 0 .. MaxRequests]

\* None is no value of the program.
ASSUME NoneAssumption == None \notin Modules \cup BOOLEAN \cup File \cup Loaded \cup Module

TypeOK ==
    /\ disk \in [Modules -> File] /\ started \in [Modules -> File \cup {None}]
    /\ dirTime \in Nat \ {0} /\ c_mtime \in 0 .. dirTime
    /\ cache \in [Modules -> Module \cup {None}] /\ context \in [Modules -> Loaded \cup {None}]
    /\ compilation_step \in 0 .. MaxRequests
    /\ asked \in Modules \cup {None} /\ changed \in BOOLEAN \cup {None}
    /\ stack \in Seq([m : Modules, deps : SUBSET Modules]) /\ unknown \subseteq Modules
    /\ typing \in BOOLEAN /\ (~typing => stack = <<>> /\ unknown = {})
    /\ calm \in BOOLEAN /\ stale \subseteq Modules

NoModules == [m \in Modules |-> None]

Init ==
    /\ disk \in [Modules -> [time : {1}, imports : SUBSET Modules, hides : {0}]]
    /\ \A m \in Modules : m \notin disk[m].imports
    /\ dirTime = 1 /\ c_mtime = Unlisted
    /\ cache = NoModules /\ compilation_step = 0
    /\ asked = None /\ context = NoModules /\ changed = None /\ typing = FALSE
    /\ stack = <<>> /\ unknown = {}
    /\ started = NoModules /\ calm = FALSE /\ stale = {}

-----------------------------------------------------------------------------
(* Files *)

\* file_time of the file that the cached module m was typed from
FileTime(m) ==
    IF disk[m].hides # 0 /\ cache[m].file.hides = 0 THEN disk[m].hides ELSE disk[m].time

Changes == MapThenSumSet(LAMBDA x : disk[x].time - 1, Modules)

\* A file changes, or one appears that shadows it.
Edit(m) ==
    /\ Changes < MaxChanges
    /\ \E i \in SUBSET (Modules \ {m}) :
         \/ /\ disk' = [disk EXCEPT ![m].time = @ + 1, ![m].imports = i]
            /\ UNCHANGED dirTime
         \/ /\ disk[m].hides = 0
            /\ disk' = [disk EXCEPT ![m] = [time |-> @.time + 1, imports |-> i,
                                            hides |-> @.time]]
            /\ dirTime' = dirTime + 1
    /\ calm' = FALSE
    /\ UNCHANGED <<server, request, check, started, stale>>

\* taint_modules, for server/invalidate and for the display file: between requests or
\* in one, not in a check.
Taint(m) ==
    /\ stack = <<>> /\ cache[m] # None /\ cache[m].state # "bad"
    /\ cache' = [cache EXCEPT ![m].state = "bad"]
    /\ calm' = FALSE
    /\ UNCHANGED <<files, c_mtime, compilation_step, request, check, started, stale>>

-----------------------------------------------------------------------------
(* Checking *)

\* What get_changed_directories returns: it looks once per request, and a list made
\* at the end of the request that first asks is all it has to compare with.
ChangedDirectories ==
    IF changed # None THEN changed ELSE c_mtime # Unlisted /\ c_mtime < dirTime

LookAtDirectories ==
    /\ changed' = ChangedDirectories
    /\ c_mtime' = IF ChangedDirectories /\ changed = None THEN dirTime ELSE c_mtime

\* Mutant of Shadowed: the times are compared the wrong way round.
ShadowedByOlder(m) ==
    ChangedDirectories /\ disk[m].hides # 0 /\ disk[m].time < cache[m].file.time

\* check_module_shadowing
Shadowed(m) ==
    ChangedDirectories /\ disk[m].hides # 0 /\ disk[m].time > cache[m].file.time

\* check_file
FileChanged(m) == FileTime(m) # cache[m].file.time

\* The answer for m is known from this compilation, or m is dirty for good.
Settled(m) == cache[m].checked = compilation_step \/ cache[m].state = "bad"

\* Mutant of Dirty: a module that has been checked before is taken for clean.
DirtyOnce(m) == ~Settled(m) /\ (Shadowed(m) \/ FileChanged(m))

Dirty(m) == IF Settled(m) THEN cache[m].state = "bad" ELSE Shadowed(m) \/ FileChanged(m)

Marked(m, s) == [cache EXCEPT ![m].state = s, ![m].checked = compilation_step]

\* The modules m depends on in the cache, directly or not, and m itself.
Reach(m) == {x \in Modules : \A S \in SUBSET Modules :
               m \in S /\ (\A y \in S : cache[y] = None \/ cache[y].file.imports \subseteq S)
                   => x \in S}

Checking == {stack[i].m : i \in 1 .. Len(stack)}

\* m is typed: it is a new module, made from what its file says now.
Typed(m) == [context EXCEPT ![m] = [file |-> disk[m], born |-> compilation_step]]

\* What the request still has to load.
Wanted == {m \in Modules : /\ context[m] = None
                           /\ \/ m = asked
                              \/ \E x \in Modules : context[x] # None /\ m \in context[x].file.imports}

\* load_module' of a module that is not in the cache
LoadNew(m) ==
    /\ typing /\ stack = <<>> /\ m \in Wanted /\ cache[m] = None
    /\ context' = Typed(m)
    /\ UNCHANGED <<files, server, asked, changed, typing, check, history>>

\* check_module answers at once that m is dirty: it is typed again.
LoadDirty(m) ==
    /\ typing /\ stack = <<>> /\ m \in Wanted /\ cache[m] # None /\ Dirty(m)
    /\ IF Settled(m) THEN UNCHANGED <<changed, c_mtime>> ELSE LookAtDirectories
    /\ cache' = Marked(m, "bad")
    /\ context' = Typed(m)
    /\ UNCHANGED <<files, compilation_step, asked, typing, check, history>>

\* check_module begins with m, whose own file is as it was.  If m is known to be
\* clean there is nothing left to check.
StartCheck(m) ==
    /\ typing /\ stack = <<>> /\ m \in Wanted /\ cache[m] # None /\ ~Dirty(m)
    /\ IF Settled(m)
       THEN stack' = <<[m |-> m, deps |-> {}]>> /\ UNCHANGED <<cache, changed, c_mtime>>
       ELSE /\ LookAtDirectories
            /\ cache' = Marked(m, "unknown")
            /\ stack' = <<[m |-> m, deps |-> cache[m].file.imports]>>
    /\ UNCHANGED <<files, compilation_step, asked, context, typing, unknown, history>>

Top == Last(stack)

\* The next dependency is clean or assumed to be (it is being checked itself).
SkipDependency(d) ==
    /\ stack # <<>> /\ d \in Top.deps /\ Settled(d) /\ ~Dirty(d)
    /\ stack' = [stack EXCEPT ![Len(stack)].deps = @ \ {d}]
    /\ UNCHANGED <<files, server, request, unknown, history>>

\* The next dependency is checked in turn.
EnterDependency(d) ==
    /\ stack # <<>> /\ d \in Top.deps /\ ~Settled(d) /\ ~Dirty(d)
    /\ LookAtDirectories
    /\ cache' = Marked(d, "unknown")
    /\ stack' = Append([stack EXCEPT ![Len(stack)].deps = @ \ {d}],
                       [m |-> d, deps |-> cache[d].file.imports])
    /\ UNCHANGED <<files, compilation_step, asked, context, typing, unknown, history>>

\* Mutants of Refused: the modules assumed clean keep their mark, or their state.
RefusedWithMarks(d) ==
    [x \in Modules |->
       IF x \in Checking \cup {d} THEN Marked(x, "bad")[x]
       ELSE IF x \in unknown THEN [cache[x] EXCEPT !.state = "good"] ELSE cache[x]]
RefusedInDoubt(d) ==
    [x \in Modules |-> IF x \in Checking \cup {d} THEN Marked(x, "bad")[x] ELSE cache[x]]

\* The cache after a check that found d dirty: all that led to d is dirty, and what
\* was assumed clean on the way has to be checked again.
Refused(d) ==
    [x \in Modules |->
       IF x \in Checking \cup {d} THEN Marked(x, "bad")[x]
       ELSE IF x \in unknown
            THEN [cache[x] EXCEPT !.state = "good", !.checked = compilation_step - 1]
            ELSE cache[x]]

\* The next dependency is dirty: so is every module on the stack, by Dirty exceptions,
\* and the root is typed again.
DirtyDependency(d) ==
    /\ stack # <<>> /\ d \in Top.deps /\ Dirty(d)
    /\ IF Settled(d) THEN UNCHANGED <<changed, c_mtime>> ELSE LookAtDirectories
    /\ cache' = Refused(d)
    /\ context' = Typed(Head(stack).m)
    /\ stack' = <<>> /\ unknown' = {}
    /\ UNCHANGED <<files, compilation_step, asked, typing, history>>

\* All dependencies of a module inside the check are clean or assumed to be.
LeaveDependency ==
    /\ Len(stack) > 1 /\ Top.deps = {}
    /\ unknown' = unknown \cup {Top.m}
    /\ stack' = Front(stack)
    /\ UNCHANGED <<files, server, request, history>>

\* The cache after a check that found nothing dirty.
Accepted ==
    [x \in Modules |-> IF x \in unknown \cup {Top.m} THEN [cache[x] EXCEPT !.state = "good"]
                       ELSE cache[x]]

\* Mutant of Reused: the dependencies are left to be loaded when they are needed.
ReusedAlone(m) == [context EXCEPT ![m] = [file |-> cache[m].file, born |-> cache[m].born]]

\* add_modules
Reused(m) == [x \in Modules |-> IF x \in Reach(m)
                                THEN [file |-> cache[x].file, born |-> cache[x].born]
                                ELSE context[x]]

\* All dependencies of the root are clean: it is taken from the cache with them.
FinishCheck ==
    /\ Len(stack) = 1 /\ Top.deps = {}
    /\ cache' = Accepted
    /\ context' = Reused(Top.m)
    /\ stack' = <<>> /\ unknown' = {}
    /\ UNCHANGED <<files, c_mtime, compilation_step, asked, changed, typing, history>>

-----------------------------------------------------------------------------
(* Requests *)

\* process, reset and on_context_create
Request(m) ==
    /\ ~typing /\ compilation_step < MaxRequests
    /\ typing' = TRUE /\ asked' = m
    /\ compilation_step' = compilation_step + 1
    /\ context' = NoModules /\ changed' = None
    /\ started' = disk
    /\ calm' = \A x \in Reach(m) :
                 cache[x] # None /\ cache[x].state = "good" /\ disk[x] = cache[x].file
    /\ UNCHANGED <<files, c_mtime, cache, check, stale>>

\* The delay that get_changed_directories registers lists the directories.
RunDelays == c_mtime' = IF c_mtime = Unlisted /\ changed # None THEN dirTime ELSE c_mtime

IsTyped(m) == context[m] # None /\ context[m].born = compilation_step
IsReused(m) == context[m] # None /\ context[m].born # compilation_step

NewModule(m) == [file |-> context[m].file, born |-> compilation_step,
                 state |-> "good", checked |-> 0]

\* Mutant of Cached: only the module that was asked for is kept.
CachedRoot == [m \in Modules |-> IF IsTyped(m) /\ m = asked THEN NewModule(m) ELSE cache[m]]

\* The cache after cache_context. (A module that is reused is the cached one.)
Cached == [m \in Modules |-> IF IsTyped(m) THEN NewModule(m) ELSE cache[m]]

EndRequest ==
    /\ typing' = FALSE /\ asked' = None /\ context' = NoModules /\ changed' = None
    /\ started' = NoModules /\ calm' = FALSE /\ RunDelays
    /\ UNCHANGED <<files, compilation_step, check>>

\* after_compilation of a request that succeeds
Succeed ==
    /\ typing /\ stack = <<>> /\ Wanted = {}
    /\ cache' = Cached
    /\ stale' = {m \in Modules : /\ cache[m] # None /\ ~IsTyped(m)
                                 /\ \/ m \in stale
                                    \/ \E d \in cache[m].file.imports : IsTyped(d)}
    /\ EndRequest

\* An error, or a display request: nothing is cached.
Fail ==
    /\ typing /\ stack = <<>>
    /\ UNCHANGED <<cache, stale>>
    /\ EndRequest

CheckStep ==
    \/ \E m \in Modules : SkipDependency(m) \/ EnterDependency(m) \/ DirtyDependency(m)
    \/ LeaveDependency \/ FinishCheck

Next ==
    \/ \E m \in Modules : \/ Edit(m) \/ Taint(m) \/ Request(m)
                          \/ LoadNew(m) \/ LoadDirty(m) \/ StartCheck(m)
    \/ CheckStep \/ Succeed \/ Fail

Spec == Init /\ [][Next]_vars

-----------------------------------------------------------------------------
(* Properties *)

\* The same as FileTime for a module of the request.
TimeThen(m) ==
    IF started[m].hides # 0 /\ context[m].file.hides = 0 THEN started[m].hides ELSE started[m].time

\* check_module: a module is reused only if its file has not changed.  Whatever the
\* cycles, the checks that failed before and the edits on the way, what a request has
\* loaded is at least as recent as the file was when the request came.
CleanMeansUnchanged ==
    \A m \in Modules : context[m] # None => context[m].file.time >= TimeThen(m)

\* No module that a request has taken from the cache depends on one that the request
\* has typed again, or not loaded at all.
OneGeneration ==
    \A m \in Modules : IsReused(m) =>
        \A d \in context[m].file.imports : IsReused(d)

\* What a module is stays the same for the whole request: add_modules never puts a
\* cached module in the place of one that the request has typed.
ModulesStay ==
    [][\A m \in Modules : typing' /\ context[m] # None => context'[m] = context[m]]_vars

\* The assertion in check_module: an MSUnknown module has the mark of this compilation.
\* It is on the stack or in unknown_state_modules, and none is left after the check.
UnknownIsCurrent ==
    \A m \in Modules : cache[m] # None /\ cache[m].state = "unknown" =>
        m \in Checking \cup unknown /\ cache[m].checked = compilation_step

\* find_module in check_dependencies and add_modules never raises Not_found, which
\* would end check_module with modules in the unknown state.
DependenciesCached ==
    \A m \in Modules : cache[m] # None => \A d \in cache[m].file.imports : cache[d] # None

\* A request that finds everything it needs in the cache, unchanged and not tainted,
\* types nothing again, cyclic dependencies included.
NothingTypedTwice == calm => \A m \in Modules : ~IsTyped(m)

\* In a request that has noticed the change of the directory, no module is reused that
\* was shadowed when the request came.
ShadowsNoticed ==
    changed = TRUE => \A m \in Modules : IsReused(m) /\ started[m].hides # 0
                                            => context[m].file.hides # 0

\* The comment in get_changed_directories: no shadowing checks are needed as long as
\* the directories are not listed, since the context is new then.
NoShadowsWhenNew ==
    changed = FALSE => \A m \in Modules : IsReused(m) /\ started[m].hides # 0
                                            => context[m].file.hides # 0

\* A module of the cache that is reused was typed against the modules it is reused with.
TypedAgainstContext == \A m \in Modules : IsReused(m) => m \notin stale
=============================================================================
