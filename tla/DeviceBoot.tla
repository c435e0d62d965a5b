----------------------------- MODULE DeviceBoot -----------------------------
(***************************************************************************)
(* The firmware's boot path on top of the loader: __lang_load_and_run of   *)
(* crates/loader-core/src/boot.rs with the modpack scanner of modpack.rs.  *)
(* Every blob of the embedded modpack is parsed before the first one is    *)
(* loaded; the modules are then loaded in embed order; the first refusal   *)
(* resets the arena and traps; otherwise `main' is looked up and called.   *)
(* The firmware's own symbol table is registered in the initial state.     *)
(***************************************************************************)
EXTENDS Loader

CONSTANTS
  Packs,       \* modpacks an image may embed: sequences of blobs
  PackCap      \* MODPACK_MAX_MODULES (64)

\* A blob is [prefix, parses, mod]: whether its length prefix is sound,
\* whether Container::parse accepts it, and the module it then holds.
ASSUME PackAssumption ==
  /\ PackCap \in Nat
  /\ Packs \subseteq Seq([prefix : BOOLEAN, parses : BOOLEAN, mod : Modules])

VARIABLES
  pack,        \* the .modpack section
  pos,         \* ModpackIter.pos: the next blob
  containers,  \* the parsed containers
  nth,         \* the container the load loop has reached
  phase,       \* "parse", "load", "loading" or "halted"
  halt         \* how boot ended: "none" yet, "trap" or "main"

bootVars == <<pack, pos, containers, nth, phase, halt>>
allVars == <<loaderVars, bootVars>>

\* platform.mark() before anything is allocated.
ArenaMark == 1

BootInit ==
  /\ LoaderInit /\ tier \in {0, 1}
  /\ pack \in Packs /\ pos = 1
  /\ containers = << >> /\ nth = 1
  /\ phase = "parse" /\ halt = "none"

\* ModpackIter::next_blob: a short or zero length prefix ends the scan just
\* as the end of the section does.
BlobAt(n) == n <= Len(pack) /\ pack[n].prefix

Trap ==
  /\ phase' = "halted" /\ halt' = "trap"
  /\ UNCHANGED <<pack, pos, containers, nth>>

\* Mutant of ResetAndTrap: the load loop starts again on the fresh arena.
ResetAndRetry ==
  /\ phase' = "load" /\ cursor' = ArenaMark
  /\ UNCHANGED <<pack, pos, containers, nth, halt>>
  /\ UNCHANGED <<tier, tables, pc, mod, idx, symMark, apMark, base, result, history>>

ResetAndTrap ==
  /\ Trap /\ cursor' = ArenaMark
  /\ UNCHANGED <<tier, tables, pc, mod, idx, symMark, apMark, base, result, history>>

ParseBlob ==
  /\ phase = "parse" /\ BlobAt(pos)
  /\ Len(containers) < PackCap /\ pack[pos].parses
  /\ containers' = Append(containers, pack[pos].mod)
  /\ pos' = pos + 1
  /\ UNCHANGED <<loaderVars, pack, nth, phase, halt>>

\* More blobs than containers: trap without a reset.
TooManyBlobs ==
  /\ phase = "parse" /\ BlobAt(pos) /\ Len(containers) >= PackCap
  /\ Trap /\ UNCHANGED loaderVars

ParseFails ==
  /\ phase = "parse" /\ BlobAt(pos)
  /\ Len(containers) < PackCap /\ ~pack[pos].parses
  /\ ResetAndTrap

ParseEnds ==
  /\ phase = "parse" /\ ~BlobAt(pos) /\ containers # << >>
  /\ phase' = "load"
  /\ UNCHANGED <<loaderVars, pack, pos, containers, nth, halt>>

NoBlob ==
  /\ phase = "parse" /\ ~BlobAt(pos) /\ containers = << >>
  /\ ResetAndTrap

LoadNext ==
  /\ phase = "load" /\ nth <= Len(containers)
  /\ LoadModule(containers[nth])
  /\ phase' = "loading"
  /\ UNCHANGED <<pack, pos, containers, nth, halt>>

Loading ==
  /\ phase = "loading" /\ LoadStep
  /\ UNCHANGED bootVars

\* Mutant of Refused: an error of load_module is not looked at.
RefusedNever == FALSE

Refused == result # "ok"

LoadFails ==
  /\ phase = "loading" /\ pc = "idle" /\ Refused
  /\ ResetAndTrap

LoadSucceeds ==
  /\ phase = "loading" /\ pc = "idle" /\ ~Refused
  /\ phase' = "load" /\ nth' = nth + 1
  /\ UNCHANGED <<loaderVars, pack, pos, containers, halt>>

CallMain ==
  /\ phase = "load" /\ nth > Len(containers) /\ Lookup("hmain") # {}
  /\ phase' = "halted" /\ halt' = "main"
  /\ UNCHANGED <<loaderVars, pack, pos, containers, nth>>

NoMain ==
  /\ phase = "load" /\ nth > Len(containers) /\ Lookup("hmain") = {}
  /\ Trap /\ UNCHANGED loaderVars

Halted == phase = "halted" /\ UNCHANGED allVars

BootStep ==
  \/ ParseBlob \/ TooManyBlobs \/ ParseFails \/ ParseEnds \/ NoBlob
  \/ LoadNext \/ Loading \/ LoadFails \/ LoadSucceeds
  \/ CallMain \/ NoMain

BootNext == BootStep \/ Halted

\* The processor executes boot code until it has halted.
BootSpec == BootInit /\ [][BootNext]_allVars /\ WF_allVars(BootStep)

-----------------------------------------------------------------------------
\* The call of the init word of a loaded module, if it has one.
InitCall(l) == IF l.mod.init THEN << l.base >> ELSE << >>

\* Main runs only on the whole image: every container that was parsed has
\* been loaded, in embed order; every init word ran exactly once and in that
\* order; and the words main's module imports come from earlier modules.
MainRunsOnWholeImage ==
  halt = "main" =>
    /\ [i \in DOMAIN live |-> live[i].mod] = containers
    /\ [i \in DOMAIN inited |-> inited[i].base] =
         FlattenSeq([i \in DOMAIN live |-> InitCall(live[i])])
    /\ \A l \in links : l.to < l.from

\* Boot ends: main is called or the board traps, whatever the pack holds.
BootEnds == <>(halt # "none")

\* boot.rs on modpack_blobs: "An empty or malformed modpack yields nothing -
\* the caller traps on the empty case": an image with a bad length prefix
\* never reaches main.
MalformedPackTraps ==
  halt = "main" => \A i \in DOMAIN pack : pack[i].prefix
=============================================================================
