----------------------------- MODULE EvilHooks -----------------------------
(***************************************************************************)
(* src/evil: the parser mods of Evil Haxe.  The compiler is one process    *)
(* that serves one request after the other (many in server mode); a        *)
(* request first runs the conspiracies and Evil.init(), which register     *)
(* mods and set up quick hooks, and parses files all along.  The hook      *)
(* lists, `defaults` and `conspiracies` are global variables of the        *)
(* process.  A hook is identified by the mod or the conspiracy it is of.   *)
(***************************************************************************)
EXTENDS Naturals, Sequences, FiniteSets, SequencesExt

CONSTANTS
    Mods,           \* names of mods
    Conspiracies,   \* paths given to --conspire
    Kinds,          \* kinds of hooks, one list each
    Transmuter,     \* the kind of the token transmuters
    Offers,         \* [Mods -> SUBSET Kinds]: the callbacks of a mod that are set
    Registers,      \* [Conspiracies -> SUBSET Mods]: its calls of addParserMod
    Quick,          \* [Conspiracies -> SUBSET Kinds]: its calls of onExpr, ...
    Builtin,        \* the mods Evil.init() registers
    FirstDefaults,  \* `defaults` when the process starts
    Headers,        \* the argument lists of #evil in the files that have it
    Arguments,      \* values given to --default-mods
    MaxRequests, MaxFiles   \* bounds on the requests and files of a behaviour

ASSUME EvilAssumption ==
    /\ Transmuter \in Kinds /\ Builtin \subseteq Mods
    /\ Offers \in [Mods -> SUBSET Kinds]
    /\ Registers \in [Conspiracies -> SUBSET Mods]
    /\ Quick \in [Conspiracies -> SUBSET Kinds]
    /\ FirstDefaults \in Seq(Mods) /\ FirstDefaults # <<>>
    /\ Headers \subseteq Seq(Mods) /\ Arguments \subseteq Seq(Mods) \ {<<>>}
    /\ Mods \cap Conspiracies = {}
    /\ MaxRequests \in Nat /\ MaxFiles \in Nat

VARIABLES
    mods,           \* the keys of EvilGlobalState.mods
    hooks,          \* the lists of hooks, the first is called first
    hasMods,        \* has_mods
    defaults, conspiracies,
    phase, todo,    \* of the request; the conspiracies left to run
    file,           \* the file being parsed, or NoFile
    requests, files \* how many so far

vars == <<mods, hooks, hasMods, defaults, conspiracies, phase, todo, file, requests, files>>

Owner == Mods \cup Conspiracies
NoFile == [evil |-> FALSE, asked |-> <<>>, left |-> <<>>, first |-> <<>>,
           read |-> FALSE, open |-> FALSE]

\* How many of the mods the header asks for have been installed.
Installed == Len(file.asked) - Len(file.left)

TypeOK ==
    /\ mods \subseteq Mods
    /\ hooks \in [Kinds -> Seq(Owner)] /\ hasMods \in BOOLEAN
    /\ defaults \in Seq(Mods) \ {<<>>} /\ conspiracies \in Seq(Conspiracies)
    /\ phase \in {"idle", "conspire", "typing"} /\ todo \in Seq(Conspiracies)
    /\ file \in [evil : BOOLEAN, asked : Seq(Mods), left : Seq(Mods),
                 first : Seq(Owner), read : BOOLEAN, open : BOOLEAN]
    /\ Installed \in Nat
    /\ \A i \in 1 .. Len(file.left) : file.left[i] = file.asked[Installed + i]
    /\ ~file.open => file = NoFile
    /\ ~file.evil => file.asked = <<>>
    /\ phase # "conspire" => todo = <<>>
    /\ phase = "idle" => ~file.open
    /\ requests \in 0 .. MaxRequests /\ files \in 0 .. MaxFiles

Init ==
    /\ mods = {} /\ hooks = [k \in Kinds |-> <<>>] /\ hasMods = FALSE
    /\ defaults = FirstDefaults /\ conspiracies = <<>>
    /\ phase = "idle" /\ todo = <<>> /\ file = NoFile
    /\ requests = 0 /\ files = 0

-----------------------------------------------------------------------------
(* A request *)

\* parse_args (set_default_mods, add_conspire), then on_compile_start.
Request ==
    /\ phase = "idle" /\ requests < MaxRequests
    /\ \/ UNCHANGED defaults
       \/ \E d \in Arguments : defaults' = d
    /\ \/ UNCHANGED conspiracies
       \/ \E c \in Conspiracies : conspiracies' = <<c>> \o conspiracies
    /\ phase' = "conspire"
    /\ todo' = conspiracies'
    /\ requests' = requests + 1
    /\ UNCHANGED <<mods, hooks, hasMods, file, files>>

\* The init function of a conspiracy: add_parser_mod and setup_hook.
RunConspiracy ==
    /\ phase = "conspire" /\ ~file.open /\ todo # <<>>
    /\ LET c == Head(todo)
       IN /\ mods' = mods \cup Registers[c]
          /\ hooks' = [k \in Kinds |-> IF k \in Quick[c] THEN <<c>> \o hooks[k] ELSE hooks[k]]
    /\ todo' = Tail(todo)
    /\ UNCHANGED <<hasMods, defaults, conspiracies, phase, file, requests, files>>

EvilInit ==
    /\ phase = "conspire" /\ ~file.open /\ todo = <<>>
    /\ mods' = mods \cup Builtin
    /\ phase' = "typing"
    /\ UNCHANGED <<hooks, hasMods, defaults, conspiracies, todo, file, requests, files>>

EndRequest ==
    /\ phase = "typing" /\ ~file.open
    /\ phase' = "idle"
    /\ UNCHANGED <<mods, hooks, hasMods, defaults, conspiracies, todo, file, requests, files>>

-----------------------------------------------------------------------------
(* A file *)

\* What clear_hooks leaves.
Cleared == IF hasMods THEN [k \in Kinds |-> <<>>] ELSE hooks

\* on_parse_file_start: parse_evil_header peeks at the first token, and at the one
\* after a bare #evil, before clear_hooks; what is peeked is transmuted already.
StartFile ==
    /\ phase # "idle" /\ ~file.open /\ files < MaxFiles
    /\ \/ file' = [evil |-> FALSE, asked |-> <<>>, left |-> <<>>,
                   first |-> hooks[Transmuter], read |-> TRUE, open |-> TRUE]
       \/ \E args \in Headers :
            LET asked == IF args = <<>> THEN defaults ELSE args
            IN file' = [evil |-> TRUE, asked |-> asked, left |-> asked,
                        first |-> IF args = <<>> THEN hooks[Transmuter] ELSE <<>>,
                        read |-> args = <<>>, open |-> TRUE]
    /\ hooks' = Cleared
    /\ hasMods' = FALSE
    /\ files' = files + 1
    /\ UNCHANGED <<mods, defaults, conspiracies, phase, todo, requests>>

\* Mutant of Applied: apply_mod puts the hooks behind the others.
AppliedLast(m) == [k \in Kinds |-> IF k \in Offers[m] THEN hooks[k] \o <<m>> ELSE hooks[k]]

\* apply_mod
Applied(m) == [k \in Kinds |-> IF k \in Offers[m] THEN <<m>> \o hooks[k] ELSE hooks[k]]

\* has_any_hooks, of the lists h: a conjunction over all of them.
HasAnyHooks(h) == \A k \in Kinds : h[k] # <<>>

\* Mutant of InstallMod: has_mods is set once the last of the mods is applied.
InstallModLast ==
    /\ file.left # <<>> /\ Head(file.left) \in mods
    /\ hooks' = Applied(Head(file.left))
    /\ hasMods' = (hasMods \/ (Len(file.left) = 1 /\ HasAnyHooks(hooks')))
    /\ file' = [file EXCEPT !.left = Tail(@)]
    /\ UNCHANGED <<mods, defaults, conspiracies, phase, todo, requests, files>>

\* install_mod of a mod that is registered
InstallMod ==
    /\ file.left # <<>> /\ Head(file.left) \in mods
    /\ hooks' = Applied(Head(file.left))
    /\ hasMods' = (hasMods \/ HasAnyHooks(hooks'))
    /\ file' = [file EXCEPT !.left = Tail(@)]
    /\ UNCHANGED <<mods, defaults, conspiracies, phase, todo, requests, files>>

\* install_mod raises Parser.Error, which ends the request.
UnknownMod ==
    /\ file.left # <<>> /\ Head(file.left) \notin mods
    /\ file' = NoFile /\ phase' = "idle" /\ todo' = <<>>
    /\ UNCHANGED <<mods, hooks, hasMods, defaults, conspiracies, requests, files>>

InBody == file.open /\ file.left = <<>>

\* The stream delivers the first token that the header has not peeked at.
ReadToken ==
    /\ InBody /\ ~file.read
    /\ file' = [file EXCEPT !.first = hooks[Transmuter], !.read = TRUE]
    /\ UNCHANGED <<mods, hooks, hasMods, defaults, conspiracies, phase, todo, requests, files>>

EndFile ==
    /\ InBody /\ file.read
    /\ file' = NoFile
    /\ UNCHANGED <<mods, hooks, hasMods, defaults, conspiracies, phase, todo, requests, files>>

\* A syntax error or an exception of a hook in the body ends the request.
FailFile ==
    /\ InBody /\ file.read
    /\ file' = NoFile /\ phase' = "idle" /\ todo' = <<>>
    /\ UNCHANGED <<mods, hooks, hasMods, defaults, conspiracies, requests, files>>

Next == \/ Request \/ RunConspiracy \/ EvilInit \/ EndRequest \/ StartFile \/ InstallMod
        \/ UnknownMod \/ ReadToken \/ EndFile \/ FailFile

Spec == Init /\ [][Next]_vars

-----------------------------------------------------------------------------
(* Properties *)

\* The mods of asked[i + 1], ..., asked[n] that offer hooks of kind k, by position.
Later(asked, k, i, n) == {j \in i + 1 .. n : k \in Offers[asked[j]]}

\* `list` begins with those of the first n mods of `asked` that offer hooks of kind k,
\* the last one first: each comes right after all that were named later.
LedBy(list, asked, k, n) ==
    \A i \in 1 .. n : k \in Offers[asked[i]] =>
        LET place == Cardinality(Later(asked, k, i, n)) + 1
        IN place <= Len(list) /\ list[place] = asked[i]

\* In the body of a file that begins with #evil the mods it asks for come before
\* every hook that is left from earlier files and from conspiracies, a mod named
\* later before one named earlier, whatever was parsed or failed before.
AskedModsFirst ==
    InBody => \A k \in Kinds : LedBy(hooks[k], file.asked, k, Len(file.asked))

\* Mods that together have hooks on every list do not outlive the file that asked for
\* them: has_mods is set by then, whether that file, one of its other mods or its
\* request failed, and whatever conspiracies added meanwhile, so that the next file
\* clears the lists.  A file without #evil finds a list with no mod's hook.  (Mods that
\* leave a list empty do stay: OnlyEvilFilesUseMods.)
CompleteSetsAreCleared ==
    InBody /\ ~file.evil => \E k \in Kinds : ToSet(hooks[k]) \cap Mods = {}

\* README.md: a module that wants to use mods must have #evil at the top.  In a file
\* without it no mod's hook is on a list.
OnlyEvilFilesUseMods ==
    InBody /\ ~file.evil => \A k \in Kinds : ToSet(hooks[k]) \cap Mods = {}

\* Evil.hx: a quick hook is applied globally to all Evil Haxe modules.  Once the
\* conspiracies have run, their hooks are on the lists in every #evil file.
QuickHooksAreGlobal ==
    InBody /\ file.evil /\ phase = "typing" =>
        \A c \in ToSet(conspiracies), k \in Kinds : k \in Quick[c] => c \in ToSet(hooks[k])

\* KotlinKeywords.hx: tokenTransmuter transforms tokens before they are processed.
\* The first token of the body of an #evil file goes through the file's own mods.
FirstTokenTransmuted ==
    InBody /\ file.evil /\ file.read =>
        LedBy(file.first, file.asked, Transmuter, Len(file.asked))
=============================================================================
