----------------------------- MODULE BuildStore -----------------------------
(***************************************************************************)
(* The shared output directory of `tyu build`: the source-keyed objects,   *)
(* their obligation artifacts, the verdict slots under .tyu-verify and the *)
(* build cache build.json, as the steps of concurrent builds leave them    *)
(* (crates/tyu/src/build.rs, cache.rs, graph.rs, verify.rs).               *)
(*                                                                         *)
(* Contents are abstracted to what the build tells apart: a fingerprint    *)
(* is the set of source versions it hashes, an object or an echo is the    *)
(* fingerprint it was compiled from and whether the stack guards were      *)
(* elided.  File times are kept relatively: older[b] holds the artifacts   *)
(* whose modification time precedes the start of build b.                  *)
(***************************************************************************)
EXTENDS Naturals, Sequences, FiniteSets, SequencesExt, Functions

CONSTANTS Builders,    \* processes that may run `tyu build` on one out-dir
          Programs,    \* root files given on the command line
          Files,       \* source files
          Graph,       \* program |-> its files, dependencies first
          NameOf,      \* file |-> the module name it declares
          Imports,     \* file |-> the files it imports, transitively
          Versions,    \* contents a source file may have
          Envs,        \* verification environments (proof files, toolchain, model)
          Requests,    \* values of --elide-stack-guards
          Discharged,  \* programs whose stack-budget(main) verdict is discharged
          MaxBuilds,   \* bound on the builds started
          MaxEdits,    \* bound on source edits and environment changes
          Torn,        \* a build.json that does not parse
          Empty,       \* the placeholder verdicts file without records
          None

(* resolve_graph: every file after the files it imports, each once. *)
IsBuildOrder(order) == \A i \in DOMAIN order :
    /\ Imports[order[i]] \subseteq {order[j] : j \in 1..(i - 1)}
    /\ order[i] \notin {order[j] : j \in 1..(i - 1)}

ASSUME GraphAssumption ==
    /\ Graph \in [Programs -> Seq(Files)]
    /\ \A p \in Programs : IsBuildOrder(Graph[p])
    /\ \A p \in Programs : Graph[p] # <<>>
    /\ Imports \in [Files -> SUBSET Files] /\ Versions # {}
    /\ Requests \subseteq BOOLEAN /\ Discharged \subseteq Programs

(* Fingerprints, what langc writes, and scratch directories; a directory   *)
(* that is not there is none of these.                                     *)
Fingerprints == [own : Files \X Versions, deps : SUBSET (Files \X Versions)]
Outputs == [from : Fingerprints, elided : BOOLEAN]
ScratchDirs == [content : Outputs \cup {None}, dir : SUBSET Builders, out : SUBSET Builders]

ASSUME StoreAssumption == None \notin ScratchDirs

VARIABLES source,   \* file |-> version on disk
          env,      \* the verification environment on disk
          objects,  \* <Module>-<inputs_fp>.o      (partial function)
          obls,     \* <Module>-<inputs_fp>.obl.json
          slots,    \* .tyu-verify/<Module>-<inputs_fp><env>.verdicts.json
          disk,     \* build.json: a set of records, or Torn
          scratch,  \* builder |-> its .langc-scratch-<pid> directory
          builds,   \* builder |-> local state of its build
          older,    \* builder |-> artifacts that predate its build
          started, edits

files == <<objects, obls, slots, disk, scratch, older>>
vars == <<source, env, files, builds, started, edits>>

InputsFpOwn(f, h) == [own |-> <<f, h[f]>>, deps |-> {}]
TransitiveHashes(f, h) == {<<g, h[g]>> : g \in Imports[f]}

(* inputs_fingerprint: own content hash and the transitive hashes. *)
InputsFp(f, h) == [own |-> <<f, h[f]>>, deps |-> TransitiveHashes(f, h)]

ObjectName(f, fp) == <<NameOf[f], fp>>
SlotByModule(n, e) == <<n[1], None, e>>
SlotName(n, e) == <<n[1], n[2], e>>

(* A cache record; its key is (compiler_fp, inputs_fp). *)
Rec(b, f, fp) == [elide |-> builds[b].elide, fp |-> fp, object |-> ObjectName(f, fp)]

(* BuildCache::load: an unreadable file is an empty cache. *)
Loaded == IF disk = Torn THEN {} ELSE disk

Put(fun, name, value) ==
    [n \in DOMAIN fun \cup {name} |-> IF n = name THEN value ELSE fun[n]]
Drop(fun, gone) == Restrict(fun, DOMAIN fun \ gone)

Fresh == [pc |-> "idle", prog |-> None, elide |-> FALSE, env |-> None,
          cache |-> {}, hash |-> <<>>, next |-> 1, image |-> <<>>,
          echoes |-> <<>>, decision |-> FALSE, overlapped |-> FALSE,
          settled |-> FALSE]

Init == /\ source \in [Files -> {CHOOSE v \in Versions : TRUE}]
        /\ env = CHOOSE e \in Envs : TRUE
        /\ objects = <<>> /\ obls = <<>> /\ slots = <<>> /\ disk = {}
        /\ scratch = [b \in Builders |-> None]
        /\ builds = [b \in Builders |-> Fresh]
        /\ older = [b \in Builders |-> {}]
        /\ started = 0 /\ edits = 0

Ended == {"idle", "done", "failed", "refused"}
Running == {b \in Builders : builds[b].pc \notin Ended}

Goto(b, pc) == builds' = [builds EXCEPT ![b].pc = pc]
File(b) == Graph[builds[b].prog][builds[b].next]
Fp(b) == InputsFp(File(b), builds[b].hash)
Object(b) == ObjectName(File(b), Fp(b))
Slot(b) == SlotName(Object(b), builds[b].env)
----------------------------------------------------------------------------
(* The environment slug of every verdict slot of one build. *)
VerifyEnvKey == env

(* build_resolved up to build_started: everything on disk predates b.      *)
(* A scratch directory, or its outputs, may predate b too.                 *)
Start(b, p, e) ==
    /\ builds[b].pc \in Ended /\ started < MaxBuilds
    /\ started' = started + 1
    /\ builds' = [c \in Builders |->
          IF c = b
          THEN [Fresh EXCEPT !.pc = "prepare", !.prog = p, !.elide = e, !.env = VerifyEnvKey,
                             !.overlapped = Running # {}]
          ELSE [builds[c] EXCEPT !.settled = FALSE,
                                 !.overlapped = @ \/ c \in Running]]
    /\ older' = [older EXCEPT ![b] = DOMAIN objects \cup DOMAIN slots]
    /\ scratch' = [c \in Builders |->
          IF c = b THEN None
          ELSE IF scratch[c] = None THEN None
          ELSE [scratch[c] EXCEPT !.dir = @ \cup {b}, !.out = @ \cup {b}]]
    /\ UNCHANGED <<source, env, objects, obls, slots, disk, edits>>

(* Pass 1 of --elide-stack-guards: one verdict for the whole image. *)
ElisionDecision(b) == builds[b].elide /\ builds[b].prog \in Discharged

(* Load the cache, take the image-level elision decision (pass 1), hash    *)
(* every source of the graph.                                              *)
Prepare(b) ==
    /\ builds[b].pc = "prepare"
    /\ builds' = [builds EXCEPT
          ![b].pc = "lookup", ![b].cache = Loaded, ![b].hash = source,
          ![b].decision = ElisionDecision(b)]
    /\ UNCHANGED <<source, env, files, started, edits>>

HitOnRecord(b) == Rec(b, File(b), Fp(b)) \in builds[b].cache
(* The cache test of compile_module: a record, its object and a readable   *)
(* verdicts slot.  The empty placeholder is readable.                      *)
Hit(b) == /\ Rec(b, File(b), Fp(b)) \in builds[b].cache
          /\ Object(b) \in DOMAIN objects
          /\ Slot(b) \in DOMAIN slots

Advance(b) ==
    builds' = [builds EXCEPT
       ![b].next = @ + 1,
       ![b].pc = IF builds[b].next = Len(Graph[builds[b].prog]) THEN "link" ELSE "lookup"]

UseCached(b) ==
    /\ builds[b].pc = "lookup" /\ Hit(b)
    /\ Advance(b)
    /\ UNCHANGED <<source, env, files, started, edits>>

(* ensure_verdicts_cache_file: a missing slot becomes an empty verdicts    *)
(* file.                                                                   *)
EnsureSlot(b) ==
    IF Slot(b) \in DOMAIN slots
    THEN UNCHANGED <<slots, older>>
    ELSE /\ slots' = Put(slots, Slot(b), Empty)
         /\ older' = [c \in Builders |-> older[c] \ {Slot(b)}]

(* A miss: create the scratch directory and make sure the slot exists.     *)
Miss(b) ==
    /\ builds[b].pc = "lookup" /\ ~Hit(b)
    /\ scratch' = [scratch EXCEPT ![b] = [content |-> None, dir |-> {}, out |-> {}]]
    /\ EnsureSlot(b)
    /\ Goto(b, "compile")
    /\ UNCHANGED <<source, env, objects, obls, disk, started, edits>>

(* langc reads the sources as they are now and writes object, obligations  *)
(* and echo into the scratch directory.                                    *)
Compile(b) ==
    /\ builds[b].pc = "compile" /\ scratch[b] # None
    /\ scratch' = [scratch EXCEPT ![b] =
          [content |-> [from |-> InputsFp(File(b), source), elided |-> builds[b].decision],
           dir |-> {}, out |-> {}]]
    /\ Goto(b, "object")
    /\ UNCHANGED <<source, env, objects, obls, slots, disk, older, started, edits>>

(* langc fails: the scratch directory goes, the slot stays.                *)
CompileRefused(b) ==
    /\ builds[b].pc = "compile" /\ scratch[b] # None
    /\ scratch' = [scratch EXCEPT ![b] = None]
    /\ Goto(b, "refused")
    /\ UNCHANGED <<source, env, objects, obls, slots, disk, older, started, edits>>

(* rename keeps the modification time of what langc wrote, and touches the *)
(* scratch directory.                                                      *)
Rehomed(b, name) == [c \in Builders |->
    IF c # b /\ c \in scratch[b].out THEN older[c] \cup {name} ELSE older[c] \ {name}]

RehomeObject(b) ==
    /\ builds[b].pc = "object" /\ scratch[b] # None
    /\ objects' = Put(objects, Object(b), scratch[b].content)
    /\ older' = Rehomed(b, Object(b))
    /\ scratch' = [scratch EXCEPT ![b].dir = {}]
    /\ Goto(b, "obl")
    /\ UNCHANGED <<source, env, obls, slots, disk, started, edits>>

RehomeObl(b) ==
    /\ builds[b].pc = "obl" /\ scratch[b] # None
    /\ obls' = Put(obls, Object(b), scratch[b].content)
    /\ scratch' = [scratch EXCEPT ![b].dir = {}]
    /\ Goto(b, "echo")
    /\ UNCHANGED <<source, env, objects, slots, disk, older, started, edits>>

(* The echo replaces the slot, and the scratch directory is removed.       *)
RehomeEcho(b) ==
    /\ builds[b].pc = "echo" /\ scratch[b] # None
    /\ slots' = Put(slots, Slot(b), scratch[b].content)
    /\ older' = Rehomed(b, Slot(b))
    /\ scratch' = [scratch EXCEPT ![b] = None]
    /\ Goto(b, "insert")
    /\ UNCHANGED <<source, env, objects, obls, disk, started, edits>>

(* Another build removed the scratch directory: langc, or a rename out of  *)
(* it, fails.                                                              *)
ScratchLost(b) ==
    /\ builds[b].pc \in {"compile", "object", "obl", "echo"} /\ scratch[b] = None
    /\ Goto(b, "failed")
    /\ UNCHANGED <<source, env, files, started, edits>>

(* BuildCache::insert, and the final cache.save: fs::write truncates the   *)
(* file first.                                                             *)
SaveBegin(b) ==
    /\ builds[b].pc \in {"insert", "save"}
    /\ disk' = Torn
    /\ builds' = [builds EXCEPT
          ![b].cache = IF builds[b].pc = "insert" THEN @ \cup {Rec(b, File(b), Fp(b))} ELSE @,
          ![b].pc = IF @ = "insert" THEN "inserting" ELSE "saving"]
    /\ UNCHANGED <<source, env, objects, obls, slots, scratch, older, started, edits>>

(* The bytes arrive.  Over a file another build completed in between, the  *)
(* shorter of two documents leaves a tail of the longer one behind.        *)
SaveEnd(b) ==
    /\ builds[b].pc \in {"inserting", "saving"}
    /\ disk' \in {builds[b].cache} \cup (IF disk = Torn THEN {} ELSE {Torn})
    /\ IF builds[b].pc = "inserting" THEN Advance(b) ELSE Goto(b, "report")
    /\ UNCHANGED <<source, env, objects, obls, slots, scratch, older, started, edits>>

Linked(b) == [i \in DOMAIN Graph[builds[b].prog] |->
    LET f == Graph[builds[b].prog][i] IN ObjectName(f, InputsFp(f, builds[b].hash))]

(* Link and pack read every module object. *)
Link(b) ==
    /\ builds[b].pc = "link"
    /\ LET names == Linked(b) IN
       IF Range(names) \subseteq DOMAIN objects
       THEN builds' = [builds EXCEPT ![b].pc = "prune",
               ![b].image = [i \in DOMAIN names |-> objects[names[i]]]]
       ELSE Goto(b, "failed")
    /\ UNCHANGED <<source, env, files, started, edits>>
----------------------------------------------------------------------------
(* prune_out_dir *)
BuiltNames(b) == {NameOf[f] : f \in Range(Graph[builds[b].prog])}
Current(b) == Range(Linked(b))
Expected(b) == {SlotName(n, builds[b].env) : n \in Current(b)}
Present(recs, names) == {r \in recs : r.object \in names}
Referenced(b) == {r.object : r \in Present(builds[b].cache, DOMAIN objects)}

DeadObjects(b) == {n \in DOMAIN objects \cap older[b] :
    /\ n \notin Current(b)
    /\ n[1] \in BuiltNames(b) \/ n \notin Referenced(b)}
DeadObls(b) == {n \in DOMAIN obls \cap older[b] :
    n \notin Current(b) /\ n[1] \in BuiltNames(b)}
DeadSlotsUnexpected(b) == {s \in DOMAIN slots :
    \/ <<s[1], s[2]>> \in Current(b)
    \/ s[1] \in BuiltNames(b)
    \/ s \in older[b]}
DeadSlots(b) == {s \in DOMAIN slots \ Expected(b) :
    \/ <<s[1], s[2]>> \in Current(b)
    \/ s[1] \in BuiltNames(b)
    \/ s \in older[b]}

Prune(b) ==
    /\ builds[b].pc = "prune"
    /\ objects' = Drop(objects, DeadObjects(b))
    /\ obls' = Drop(obls, DeadObls(b))
    /\ slots' = Drop(slots, DeadSlots(b))
    /\ scratch' = [c \in Builders |->
          IF scratch[c] # None /\ b \in scratch[c].dir THEN None ELSE scratch[c]]
    /\ builds' = [builds EXCEPT ![b].pc = "save",
          ![b].cache = Present(@, DOMAIN objects \ DeadObjects(b))]
    /\ UNCHANGED <<source, env, disk, older, started, edits>>

(* compose_and_write_report: a module without artifact or echo falls back; *)
(* the policy gate may still refuse the build once the report is written.  *)
Report(b) ==
    /\ builds[b].pc = "report"
    /\ LET names == Linked(b)
           Echo(n) == LET s == SlotName(n, builds[b].env) IN
              IF n \in DOMAIN obls /\ s \in DOMAIN slots THEN slots[s] ELSE None
       IN \E verdict \in {"done", "refused"} :
          builds' = [builds EXCEPT ![b].pc = verdict, ![b].settled = TRUE,
             ![b].echoes = [i \in DOMAIN names |-> Echo(names[i])]]
    /\ UNCHANGED <<source, env, files, started, edits>>

(* The process dies: its files stay as they are. *)
Crash(b) ==
    /\ b \in Running
    /\ builds' = [builds EXCEPT ![b] = Fresh]
    /\ scratch' = [scratch EXCEPT ![b] = None]
    /\ UNCHANGED <<source, env, objects, obls, slots, disk, older, started, edits>>

(* Sources and proof files change between builds only. *)
Unsettled == [b \in Builders |-> [builds[b] EXCEPT !.settled = FALSE]]
EditSource(f, v) ==
    /\ Running = {} /\ edits < MaxEdits /\ source[f] # v
    /\ source' = [source EXCEPT ![f] = v]
    /\ edits' = edits + 1 /\ builds' = Unsettled
    /\ UNCHANGED <<env, files, started>>
ChangeEnv(e) ==
    /\ Running = {} /\ edits < MaxEdits /\ env # e
    /\ env' = e /\ edits' = edits + 1 /\ builds' = Unsettled
    /\ UNCHANGED <<source, files, started>>

Step(b) == \/ Prepare(b) \/ UseCached(b) \/ Miss(b) \/ Compile(b) \/ CompileRefused(b)
           \/ RehomeObject(b) \/ RehomeObl(b) \/ RehomeEcho(b) \/ ScratchLost(b)
           \/ SaveBegin(b) \/ SaveEnd(b) \/ Link(b) \/ Prune(b) \/ Report(b)

Next == \/ \E b \in Builders, p \in Programs, e \in Requests : Start(b, p, e)
        \/ \E b \in Builders : Step(b)
        \/ \E b \in Builders : Crash(b)
        \/ \E f \in Files, v \in Versions : EditSource(f, v)
        \/ \E e \in Envs : ChangeEnv(e)

Spec == Init /\ [][Next]_vars
----------------------------------------------------------------------------
Done(b) == builds[b].pc = "done"

(* An image is linked from objects that were compiled from exactly the     *)
(* sources, own and imported, that its build hashed: whatever stale        *)
(* objects, lost cache updates, prunes and crashes other builds left       *)
(* behind (compile_module, prune_out_dir).                                 *)
InputsOf(b, i) == [own |-> <<Graph[builds[b].prog][i], builds[b].hash[Graph[builds[b].prog][i]]>>,
                   deps |-> TransitiveHashes(Graph[builds[b].prog][i], builds[b].hash)]

LinkedFresh == \A b \in Builders : \A i \in DOMAIN builds[b].image :
    builds[b].image[i].from = InputsOf(b, i)

(* The echo a report accounts for a module was written by a compilation    *)
(* of the same sources with the same guards as the linked object, or is    *)
(* the empty placeholder, or is missing and falls back (compose).          *)
EchoOfImage == \A b \in Builders : Done(b) =>
    \A i \in DOMAIN builds[b].echoes :
        builds[b].echoes[i] \in {builds[b].image[i], Empty, None}

(* No debris of crashed or refused builds makes a later build fail: a      *)
(* build dies on a missing artifact only if another one ran at the same    *)
(* time (prune_out_dir runs against in-flight builds).                     *)
SoloNeverFails == \A b \in Builders : builds[b].pc = "failed" => builds[b].overlapped

(* After a build that ran alone, the same build again finds every module   *)
(* in the cache: neither its own prune nor the final save takes back what  *)
(* it needs.                                                               *)
RebuildIsCached == \A b \in Builders :
    Done(b) /\ builds[b].settled /\ ~builds[b].overlapped =>
        \A i \in DOMAIN Linked(b) :
            LET n == Linked(b)[i] IN
            /\ n \in DOMAIN objects
            /\ SlotName(n, builds[b].env) \in DOMAIN slots
            /\ [elide |-> builds[b].elide, fp |-> n[2], object |-> n] \in Loaded

(* A report never accounts an image with an echo that is not the one of    *)
(* its compilation ("self-healing, never a stale-echo report",             *)
(* compile_module).                                                        *)
NoStaleEcho == \A b \in Builders : Done(b) /\ ~builds[b].overlapped =>
    \A i \in DOMAIN builds[b].echoes : builds[b].echoes[i] = builds[b].image[i]

(* The guards are elided in all modules of an image or in none ("One       *)
(* decision for the whole image", build_resolved).                         *)
OneDecisionPerImage == \A b \in Builders : \A i \in DOMAIN builds[b].image :
    builds[b].image[i].elided = builds[b].decision
=============================================================================
