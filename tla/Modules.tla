------------------------------ MODULE Modules ------------------------------
(***************************************************************************)
(* Loading and initialising modules (cby/module.c, cby/loader.c, and       *)
(* native/module.c for a program without the interpreter).                 *)
(*                                                                         *)
(* A module is initialised on the stack of the thread that asks for it: a  *)
(* frame that enters the result into the module hash, a frame of its code  *)
(* with one slot for each import, and a frame that walks the imports, last *)
(* to first, and replaces the name in a slot by the value.  Modules come   *)
(* from the elements of the path, which are directories, archives or       *)
(* dynamic libraries.  Threads are switched where chiYield may be called.  *)
(***************************************************************************)
EXTENDS Naturals, Sequences, FiniteSets, SequencesExt

CONSTANTS
  MThreads,  \* threads that initialise modules
  MaxLoads   \* bound on the modules that are initialised

VARIABLES
  system,      \* "interp" or "native"
  path,        \* ml.path: elements with their contents
  moduleHash,  \* the entries: name and value, in the order of insertion
  mthread,     \* thread |-> its stack and what it does
  archives,    \* ml.cache: the archives that are open
  loads        \* how many modules have been initialised

vars == <<system, path, moduleHash, mthread, archives, loads>>

(* The modules: two that import others, in a diamond.                      *)
Name == 1 .. 4
Imports == <<<<2, 3>>, <<4>>, <<4>>, <<>>>>
Fail == [name |-> 0, serial |-> 0]

-----------------------------------------------------------------------------
(* generic/sort.h: quicksort with Hoare's partition; short sequences are   *)
(* sorted by insertion.  The pivot is the first element, whatever has been *)
(* swapped there.                                                          *)
Cutoff == 3  \* CHI_QUICK_SORT_CUTOFF
SortedUp(a) == \A i \in 1 .. Len(a) - 1 : a[i] <= a[i + 1]
InsertSorted(a, x) ==
  LET n == Cardinality({i \in DOMAIN a : a[i] <= x})
  IN  SubSeq(a, 1, n) \o <<x>> \o SubSeq(a, n + 1, Len(a))
InsertSort(a) == FoldLeft(InsertSorted, <<>>, a)

Partition(s) ==
  LET Swapped[a \in Seq(Name), p \in Nat, q \in Nat] ==
        LET right == CHOOSE i \in p + 1 .. Len(a) : a[i] >= a[1] /\ \A j \in p + 1 .. i - 1 : a[j] < a[1]
            left == CHOOSE i \in 1 .. q - 1 : a[i] <= a[1] /\ \A j \in i + 1 .. q - 1 : a[j] > a[1]
        IN  IF right >= left THEN [a |-> a, at |-> left]
            ELSE Swapped[[a EXCEPT ![right] = a[left], ![left] = a[right]], right, left]
  IN  Swapped[s, 0, Len(s) + 1]

Sort(s) ==
  LET Sorted[a \in Seq(Name)] ==
        IF SortedUp(a) THEN a
        ELSE IF Len(a) < Cutoff THEN InsertSort(a)
        ELSE LET part == Partition(a)
             IN  Sorted[SubSeq(part.a, 1, part.at)] \o Sorted[SubSeq(part.a, part.at + 1, Len(a))]
  IN  Sorted[s]

(* loadNativeModule: binary search in the sorted registry, from 0.         *)
Registered(registry, name) ==
  LET Search[first \in 0 .. Len(registry), last \in 0 .. Len(registry)] ==
        LET mid == first + (last - first) \div 2
            there == registry[mid + 1]
        IN  IF name = there THEN TRUE
            ELSE IF name < there /\ first < mid THEN Search[first, mid - 1]
            ELSE IF name > there /\ mid < last THEN Search[mid + 1, last]
            ELSE FALSE
  IN  Search[0, Len(registry) - 1]

(* What loading a file gives (parseModule).                                *)
File == {"ok", "corrupt", "missing"}
Dir(f) == [kind |-> "dir", files |-> [n \in Name |-> IF n = 4 THEN f ELSE "ok"]]
Archive(open, f) == [kind |-> "archive", open |-> open, files |-> [n \in Name |-> f]]
Library(registry) == [kind |-> "library", registry |-> registry]

(* chiSortModuleRegistry sorts the registry a library is built with.       *)
Registries == {r \in [1 .. 4 -> Name] : IsInjective(r)} \cup {<<4, 2>>}
Paths == {<<Archive(open, f), Dir(g)>> : open \in BOOLEAN, f \in File, g \in File}
           \cup {<<Library(Sort(r)), Dir("ok")>> : r \in Registries}

(* loadLibraryModule: whether the module has been loaded.                  *)
InLibrary(e, name) ==
  IF e.kind = "archive" THEN e.open /\ e.files[name] = "ok" ELSE Registered(e.registry, name)

(* cbyModuleLoadByName: the first library that has the module, the first   *)
(* directory that has a file, even if that file is no good.                *)
Provides(e, name) ==
  IF e.kind = "dir" THEN e.files[name] # "missing" ELSE InLibrary(e, name)
Loadable(name) ==
  \E i \in DOMAIN path :
    /\ Provides(path[i], name) /\ \A j \in 1 .. i - 1 : ~Provides(path[j], name)
    /\ path[i].kind = "dir" => path[i].files[name] = "ok"

(* loadArchive, for each archive up to the element the module is found in. *)
Asked(name) == {i \in DOMAIN path : \A j \in 1 .. i - 1 : ~Provides(path[j], name)}
Opened(name) == archives \cup {i \in Asked(name) : path[i].kind = "archive" /\ path[i].open}

-----------------------------------------------------------------------------
(* findModule: the first entry of the name.                                *)
Entries(name) == {i \in DOMAIN moduleHash : moduleHash[i].name = name}
First(name) == CHOOSE i \in Entries(name) : \A j \in Entries(name) : i <= j
Found(name) == Entries(name) # {}
Value(name) == moduleHash[First(name)].value

Init ==
  /\ system \in {"interp", "native"}
  /\ path \in Paths
  /\ system = "native" => path = <<Archive(FALSE, "ok"), Dir("ok")>>
  /\ moduleHash = <<>>
  /\ mthread = [t \in MThreads |-> [stack |-> <<>>, does |-> "idle", arg |-> Fail]]
  /\ archives = {}
  /\ loads = 0

Becomes(t, stack, does, arg) ==
  mthread' = [mthread EXCEPT ![t] = [stack |-> stack, does |-> does, arg |-> arg]]
Stack(t) == mthread[t].stack
Does(t, what) == mthread[t].does = what
Top(t) == Last(Stack(t))
TopIs(t, kind) == Stack(t) # <<>> /\ Top(t).kind = kind

(* loadModule, with the given stack: the value of the module, the module   *)
(* to be initialised, or an exception.                                     *)
LoadModule(t, stack, name) ==
  \/ /\ Found(name)
     /\ Becomes(t, stack, "return", Value(name))
     /\ UNCHANGED archives
  \/ /\ ~Found(name)
     /\ Becomes(t, stack, IF Loadable(name) THEN "init" ELSE "throw", [name |-> name, serial |-> 0])
     /\ archives' = Opened(name)

(* interpreterMain; a module that cannot be loaded is an exception.        *)
Main(t, name) ==
  /\ system = "interp" /\ Does(t, "idle") /\ loads < MaxLoads
  /\ Becomes(t, <<>>, IF Loadable(name) THEN "init" ELSE "throw", [name |-> name, serial |-> 0])
  /\ archives' = Opened(name)
  /\ UNCHANGED <<system, path, moduleHash, loads>>

(* z_System__EntryPoints: rt->fail if the module cannot be loaded.         *)
EntryPoints(t, name) ==
  /\ system = "interp" /\ Does(t, "idle") /\ loads < MaxLoads
  /\ IF Found(name) \/ Loadable(name) THEN LoadModule(t, <<>>, name)
     ELSE Becomes(t, <<>>, "return", Fail) /\ archives' = Opened(name)
  /\ UNCHANGED <<system, path, moduleHash, loads>>

(* A native program starts with the initialisation of a module.            *)
NativeMain(t, name) ==
  /\ system = "native" /\ Does(t, "idle") /\ loads < MaxLoads
  /\ Becomes(t, <<>>, "init", [name |-> name, serial |-> 0])
  /\ UNCHANGED <<system, path, moduleHash, archives, loads>>

ModuleFrame(name) == [kind |-> "module", name |-> name]
Code(name, slots) == [kind |-> "code", name |-> name, slots |-> slots]
ImportFrame(i) == [kind |-> "import", index |-> i]
Named(name) == [name |-> name, serial |-> 0]
Prepared(t, name) ==
  Stack(t) \o <<ModuleFrame(name), Code(name, [i \in DOMAIN Imports[name] |-> Named(Imports[name][i])])>>

(* Broken: the hash is not looked at again.                                *)
ModuleInit_unchecked(t) ==
  /\ system = "interp" /\ Does(t, "init")
  /\ LET name == mthread[t].arg.name
         imports == Imports[name]
     IN  \/ /\ imports = <<>>
            /\ Becomes(t, Prepared(t, name), "return", Fail)
            /\ UNCHANGED archives
         \/ /\ imports # <<>>
            /\ LoadModule(t, Append(Prepared(t, name), ImportFrame(Len(imports))), Last(imports))
  /\ UNCHANGED <<system, path, moduleHash, loads>>

(* cbyModuleInit: the module may have been initialised since it was asked  *)
(* for.  The frames are pushed and the last import is loaded.              *)
ModuleInit(t) ==
  /\ system = "interp" /\ Does(t, "init")
  /\ LET name == mthread[t].arg.name
         imports == Imports[name]
     IN  \/ /\ Found(name)
            /\ Becomes(t, Stack(t), "return", Value(name))
            /\ UNCHANGED archives
         \/ /\ ~Found(name) /\ imports = <<>>
            /\ Becomes(t, Prepared(t, name), "return", Fail)
            /\ UNCHANGED archives
         \/ /\ ~Found(name) /\ imports # <<>>
            /\ LoadModule(t, Append(Prepared(t, name), ImportFrame(Len(imports))), Last(imports))
  /\ UNCHANGED <<system, path, moduleHash, loads>>

(* chiInitModule *)
NativeInit(t) ==
  /\ system = "native" /\ Does(t, "init")
  /\ LET name == mthread[t].arg.name
         imports == Imports[name]
     IN  IF Found(name) THEN Becomes(t, Stack(t), "return", Value(name))
         ELSE IF imports = <<>> THEN Becomes(t, Prepared(t, name), "return", Fail)
         ELSE Becomes(t, Append(Prepared(t, name), ImportFrame(Len(imports))), "init", Named(Last(imports)))
  /\ UNCHANGED <<system, path, moduleHash, archives, loads>>

(* The stack with the value in the slot, and with the frame of the next    *)
(* import or without.                                                      *)
Stored(t) ==
  LET i == Top(t).index
      rest == [Front(Stack(t)) EXCEPT ![Len(Stack(t)) - 1].slots[i] = mthread[t].arg]
  IN  IF i = 1 THEN rest ELSE Append(rest, ImportFrame(i - 1))
NextImport(t) == Stack(t)[Len(Stack(t)) - 1].slots[Top(t).index - 1]

(* interpInitImportCont *)
Import(t) ==
  /\ system = "interp" /\ Does(t, "return") /\ TopIs(t, "import")
  /\ \/ /\ Top(t).index = 1
        /\ Becomes(t, Stored(t), "return", mthread[t].arg)
        /\ UNCHANGED archives
     \/ /\ Top(t).index # 1
        /\ LoadModule(t, Stored(t), NextImport(t).name)
  /\ UNCHANGED <<system, path, moduleHash, loads>>

(* initImportCont *)
NativeImport(t) ==
  /\ system = "native" /\ Does(t, "return") /\ TopIs(t, "import")
  /\ IF Top(t).index = 1 THEN Becomes(t, Stored(t), "return", mthread[t].arg)
     ELSE Becomes(t, Stored(t), "init", NextImport(t))
  /\ UNCHANGED <<system, path, moduleHash, archives, loads>>

(* The code of the module runs, external to this model: its value is a new *)
(* one, or it throws.  The value keeps what the module has imported.       *)
Run(t) ==
  /\ Does(t, "return") /\ TopIs(t, "code")
  /\ \/ /\ Becomes(t, Front(Stack(t)), "return",
                   [name |-> Top(t).name, serial |-> loads + 1, slots |-> Top(t).slots])
        /\ loads' = loads + 1
     \/ /\ Becomes(t, Stack(t), "throw", Fail)
        /\ UNCHANGED loads
  /\ UNCHANGED <<system, path, moduleHash, archives>>

Entered(t) == Append(moduleHash, [name |-> Top(t).name, value |-> mthread[t].arg])

(* interpInitModuleCont *)
ModuleEnd(t) ==
  /\ system = "interp" /\ Does(t, "return") /\ TopIs(t, "module")
  /\ moduleHash' = Entered(t)
  /\ Becomes(t, Front(Stack(t)), "return", mthread[t].arg)
  /\ UNCHANGED <<system, path, archives, loads>>

(* initModuleCont *)
NativeEnd(t) ==
  /\ system = "native" /\ Does(t, "return") /\ TopIs(t, "module")
  /\ moduleHash' = Entered(t)
  /\ Becomes(t, Front(Stack(t)), "return", mthread[t].arg)
  /\ UNCHANGED <<system, path, archives, loads>>

(* The thread has what it asked for; an exception unwinds all of it.       *)
Finish(t) ==
  /\ \/ Does(t, "return") /\ Stack(t) = <<>>
     \/ Does(t, "throw")
  /\ Becomes(t, <<>>, "idle", Fail)
  /\ UNCHANGED <<system, path, moduleHash, archives, loads>>

(* cbyModuleUnload *)
Unload(t, name) ==
  /\ system = "interp" /\ Does(t, "idle") /\ Found(name)
  /\ moduleHash' = RemoveAt(moduleHash, First(name))
  /\ UNCHANGED <<system, path, mthread, archives, loads>>

Next ==
  \E t \in MThreads :
    \/ \E name \in Name : Main(t, name) \/ EntryPoints(t, name) \/ NativeMain(t, name) \/ Unload(t, name)
    \/ ModuleInit(t) \/ NativeInit(t) \/ Import(t) \/ NativeImport(t)
    \/ Run(t) \/ ModuleEnd(t) \/ NativeEnd(t) \/ Finish(t)

Spec == Init /\ [][Next]_vars

-----------------------------------------------------------------------------
(* Every module in the hash was initialised with the values of its own     *)
(* imports, in their order, each of them finished before it.               *)
ImportsReady ==
  \A i \in DOMAIN moduleHash :
    LET v == moduleHash[i].value
    IN  /\ v.name = moduleHash[i].name
        /\ Len(v.slots) = Len(Imports[v.name])
        /\ \A k \in DOMAIN v.slots : /\ v.slots[k].name = Imports[v.name][k]
                                     /\ v.slots[k].serial \in 1 .. v.serial - 1

(* With one thread a module is initialised once, however often it is       *)
(* imported: it has one entry, and until a module is unloaded all that     *)
(* import it share its value.  (Two threads may initialise a module at the *)
(* same time: its second entry is hidden by the first.)                    *)
InitOnce ==
  Cardinality(MThreads) = 1 =>
    \A i, j \in DOMAIN moduleHash : moduleHash[i].name = moduleHash[j].name => i = j

(* A registry is searched successfully for exactly its modules.            *)
RegistryFound ==
  \A i \in DOMAIN path : path[i].kind = "library" =>
    \A name \in Name : Registered(path[i].registry, name) <=> name \in Range(path[i].registry)

=============================================================================
