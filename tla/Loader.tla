------------------------------- MODULE Loader -------------------------------
(***************************************************************************)
(* The module loader: load_module of crates/loader-core/src/load.rs with   *)
(* the symbol map (symbols.rs), the aperture registry (apertures.rs) and   *)
(* the bump arena of the device platform (boot.rs).                        *)
(*                                                                         *)
(* A load is a long transaction over four tables, any step of which may    *)
(* refuse the module; the two rollback guards then shorten the symbol map  *)
(* and the registry to the lengths they had when the guards were made.     *)
(* Each step of load_module is an action, and the loops over apertures,    *)
(* sections, relocations and exports take one action per entry, so that a  *)
(* failure can fall between any two entries.                               *)
(*                                                                         *)
(* A container is abstracted to what the steps ask of it; `faults' holds   *)
(* the checks on its contents alone that it fails.  Memory is counted in   *)
(* units of LOADHEAP_ALIGN bytes.                                          *)
(***************************************************************************)
EXTENDS Integers, Sequences, SequencesExt

CONSTANTS
  Modules,     \* the containers a caller may load
  Board,       \* the ids of the board's aperture table
  Firmware,    \* the symbols registered before the first load
  SymCap,      \* entries of SymMap (256)
  LoadedCap,   \* entries of LoadedSet (64)
  ApCap,       \* entries of ApertureRegistry (APERTURE_CAP)
  HeapUnits,   \* size of the load heap
  Scratch      \* size of a decryption scratch region

ASSUME LoaderAssumption ==
  /\ SymCap \in Nat /\ LoadedCap \in Nat /\ ApCap \in Nat
  /\ HeapUnits \in Nat /\ Scratch \in Nat
  /\ Firmware \in Seq([hash : STRING, name : STRING, addr : {0}])
  /\ Len(Firmware) <= SymCap

\* The code section comes first and is always placed, also when it is empty;
\* the firmware's symbols went through register_with_hash, which refuses a
\* second entry with the same hash.
ASSUME ModuleAssumption ==
  /\ Modules # {}
  /\ \A m \in Modules :
       /\ m.uses \in Seq(Nat)
       /\ m.sections \in Seq(Nat) /\ m.sections # << >>
       /\ m.exports \in Seq([hash : STRING, name : STRING])
  /\ \A i, j \in DOMAIN Firmware : Firmware[i].hash = Firmware[j].hash => i = j

VARIABLES
  tier,      \* platform.trust_level(): 0, 1 or 2
  symmap,    \* global_map: the registered symbols, oldest first
  loaded,    \* loaded_set: the identities of the loaded modules
  registry,  \* aperture_registry: the bound aperture ids
  cursor,    \* bump cursor of the arena
  pc,        \* the step of load_module that comes next
  mod,       \* the container being loaded
  idx,       \* entry the loop of this step has reached
  symMark,   \* RollbackGuard.saved_len
  apMark,    \* ApertureRollbackGuard.mark
  base,      \* code_base
  result,    \* what the last load_module returned
  live,      \* history: the LoadedModules returned, in order
  links,     \* history: import sites patched, [from, to : code bases]
  inited,    \* history: the __lang_mod_init calls, [id, base], in order
  entryCursor \* history: cursor when the load began

tables == <<symmap, loaded, registry>>
history == <<live, links, inited, entryCursor>>
loaderVars == <<tier, tables, cursor, pc, mod, idx, symMark, apMark, base,
                result, history>>

Tiers == 0 .. 2

\* The value of mod while no load is under way.
NoModule == CHOOSE m \in Modules : TRUE

LoaderInit ==
  /\ tier \in Tiers
  /\ symmap = Firmware
  /\ loaded = << >> /\ registry = << >>
  /\ cursor = 1
  /\ pc = "idle" /\ mod = NoModule
  /\ idx = 1 /\ symMark = 0 /\ apMark = 0 /\ base = 0
  /\ result = "none"
  /\ live = << >> /\ links = {} /\ inited = << >> /\ entryCursor = 1

\* The error of the first failing check of a sequence of checks.
FirstError(checks) ==
  LET failing == {i \in DOMAIN checks : checks[i].fails}
  IN  IF failing = {} THEN "none"
      ELSE checks[CHOOSE i \in failing : \A j \in failing : i <= j].err

Check(fails, err) == [fails |-> fails, err |-> err]

\* From<u32> for LoadError: every number of the symbol map and of the
\* platform becomes BadContainer.
FromU32(code) == "BadContainer"

\* load_module returns: its local variables are gone.
Return(res) ==
  /\ pc' = "idle" /\ result' = res
  /\ mod' = NoModule /\ idx' = 1 /\ symMark' = 0 /\ apMark' = 0 /\ base' = 0

\* Mutant of Prefix: the entries added by the refused load stay.
PrefixKeep(s, n) == s

Prefix(s, n) == SubSeq(s, 1, n)

\* load_module returns Err and drops both guards: the symbol map and the
\* registry are cut back.  Nothing is released to the platform.
Rollback ==
  /\ symmap' = Prefix(symmap, symMark)
  /\ registry' = Prefix(registry, apMark)

Abort(err) ==
  /\ Return(err) /\ Rollback
  /\ UNCHANGED <<tier, loaded, cursor, history>>

\* Mutant of AuthChecks: load-once is not enforced.
AuthChecksReload(m) ==
  << Check("abi" \in m.faults, "AbiMismatch"),
     Check("modinfo" \in m.faults, "BadContainer"),
     Check(m.signed /\ tier < 1, "SigInvalid"),
     Check(tier >= 1 /\ ~m.sigOk, "SigInvalid") >>

AuthChecks(m) ==
  << Check("abi" \in m.faults, "AbiMismatch"),
     Check("modinfo" \in m.faults, "BadContainer"),
     Check(m.id \in Range(loaded), "ModuleAlreadyLoaded"),
     Check(m.signed /\ tier < 1, "SigInvalid"),
     Check(tier >= 1 /\ ~m.sigOk, "SigInvalid") >>

Goto(step) == pc' = step /\ UNCHANGED result

\* The head of load_module: ABI, identity, load-once, signature.
LoadModule(m) ==
  /\ pc = "idle"
  /\ entryCursor' = cursor
  /\ LET err == FirstError(AuthChecks(m)) IN
       \/ /\ err = "none" /\ Goto("unwrap") /\ mod' = m
          /\ UNCHANGED <<idx, symMark, apMark, base>>
       \/ err # "none" /\ Return(err)
  /\ UNCHANGED <<tier, tables, cursor, live, links, inited>>

Fits(n) == cursor + n <= HeapUnits + 1

\* prepare_decryption: unwrap the content key, build the associated data in
\* a scratch region of the arena.
PrepareDecryption ==
  /\ pc = "unwrap"
  /\ LET err == FirstError(
             << Check(tier < 1, "EncRequiresSigned"),
                Check("encHeader" \in mod.faults, "EncBadHeader"),
                Check(mod.enc = "noKey", "EncNoKey"),
                Check(~Fits(Scratch), FromU32(5201)) >>)
     IN \/ /\ mod.enc = "plain" /\ Goto("validate")
           /\ UNCHANGED <<cursor, mod, idx, symMark, apMark, base>>
        \/ /\ mod.enc # "plain" /\ err = "none" /\ Goto("validate")
           /\ cursor' = cursor + Scratch
           /\ UNCHANGED <<mod, idx, symMark, apMark, base>>
        \/ /\ mod.enc # "plain" /\ err # "none" /\ Return(err)
           /\ UNCHANGED cursor
  /\ UNCHANGED <<tier, tables, history>>

ModinfoChecks(m) ==
  << Check("isr" \in m.faults, "ModuleDeclaresIsr"),
     Check("stackBudget" \in m.faults, "StackBoundUnverifiable"),
     Check("manifest" \in m.faults, "VerifyManifestMalformed"),
     Check("digest" \in m.faults, "VerifyManifestDigest"),
     Check("policy" \in m.faults, "VerifyPolicyReject") >>

\* validate_modinfo_for_load, validate_verify_manifest, then both guards.
Validate ==
  /\ pc = "validate"
  /\ LET err == FirstError(ModinfoChecks(mod)) IN
       \/ /\ err = "none" /\ Goto("bind")
          /\ symMark' = Len(symmap) /\ apMark' = Len(registry)
          /\ UNCHANGED <<tier, tables, cursor, mod, idx, base, history>>
       \/ /\ err # "none" /\ Return(err)
          /\ UNCHANGED <<tier, tables, cursor, history>>

\* bind_apertures, its checks on the whole aperture-use table.
BindApertures ==
  /\ pc = "bind"
  /\ LET err == FirstError(
             << Check("modinfoVer" \in mod.faults, "ModinfoVersionUnsupported"),
                Check("platformHash" \in mod.faults, "PlatformHashMismatch"),
                Check(Len(mod.uses) > ApCap, "ApertureTableMalformed"),
                Check(\E i, j \in DOMAIN mod.uses :
                        i # j /\ mod.uses[i] = mod.uses[j],
                      "ApertureTableMalformed") >>)
     IN \/ /\ err = "none" /\ Goto("reserve") /\ idx' = 1
           /\ UNCHANGED <<tier, tables, cursor, mod, symMark, apMark, base, history>>
        \/ err # "none" /\ Abort(err)

\* Mutant of ReserveChecks: ApertureRegistry::reserve without is_bound.
ReserveChecksShared(id) ==
  << Check(id \notin Board, "ApertureUnresolved"),
     Check("access" \in mod.faults, "ApertureTableMalformed"),
     Check(Len(registry) >= ApCap, "ApertureConflict") >>

ReserveChecks(id) ==
  << Check(id \notin Board, "ApertureUnresolved"),
     Check("access" \in mod.faults, "ApertureTableMalformed"),
     Check(id \in Range(registry), "ApertureConflict"),
     Check(Len(registry) >= ApCap, "ApertureConflict") >>

\* One round of the resolution loop of bind_apertures, and its end.
ReserveAperture ==
  /\ pc = "reserve"
  /\ \/ /\ idx > Len(mod.uses)
        /\ Goto("place") /\ idx' = 1
        /\ UNCHANGED <<tier, tables, cursor, mod, symMark, apMark, base, history>>
     \/ /\ idx <= Len(mod.uses)
        /\ LET err == FirstError(ReserveChecks(mod.uses[idx])) IN
             \/ /\ err = "none" /\ Goto("reserve") /\ idx' = idx + 1
                /\ registry' = Append(registry, mod.uses[idx])
                /\ UNCHANGED <<tier, symmap, loaded, cursor, mod, symMark,
                               apMark, base, history>>
             \/ err # "none" /\ Abort(err)

\* place_sections: code, then rodata, then data and bss.
PlaceSection ==
  /\ pc = "place"
  /\ \/ /\ idx > Len(mod.sections)
        /\ Goto("decrypt") /\ UNCHANGED <<cursor, idx, base>>
        /\ UNCHANGED <<tier, tables, mod, symMark, apMark, history>>
     \/ /\ idx <= Len(mod.sections) /\ Fits(mod.sections[idx])
        /\ Goto("place") /\ idx' = idx + 1
        /\ cursor' = cursor + mod.sections[idx]
        /\ base' = IF idx = 1 THEN cursor ELSE base
        /\ UNCHANGED <<tier, tables, mod, symMark, apMark, history>>
     \/ /\ idx <= Len(mod.sections) /\ ~Fits(mod.sections[idx])
        /\ Abort(FromU32(5201))

\* decrypt_sections: through a second scratch region.
DecryptSections ==
  /\ pc = "decrypt"
  /\ \/ /\ mod.enc = "plain"
        /\ Goto("reloc") /\ idx' = 1 /\ UNCHANGED cursor
        /\ UNCHANGED <<tier, tables, mod, symMark, apMark, base, history>>
     \/ /\ mod.enc = "sealed" /\ Fits(Scratch)
        /\ Goto("reloc") /\ idx' = 1 /\ cursor' = cursor + Scratch
        /\ UNCHANGED <<tier, tables, mod, symMark, apMark, base, history>>
     \/ /\ mod.enc # "plain" /\ ~Fits(Scratch)
        /\ Abort(FromU32(5201))
     \/ \* the scratch region is allocated before the tag is checked
        /\ mod.enc = "tampered" /\ Fits(Scratch)
        /\ cursor' = cursor + Scratch
        /\ Return("EncAuthFail") /\ Rollback
        /\ UNCHANGED <<tier, loaded, history>>

\* Mutant of Lookup: the last entry is taken instead of the matching one.
LookupLast(h) == {Len(symmap)} \ {0}

\* SymMap::lookup_by_hash: the positions of the entries with this hash.
Lookup(h) == {i \in DOMAIN symmap : symmap[i].hash = h}

RelocChecks(r) ==
  << Check("relocSite" \in mod.faults, "BadContainer"),
     Check(r.kind = "aperture" /\ r.ref \notin Range(mod.uses),
           "ApertureUnresolved"),
     Check(r.kind = "aperture" /\ "siteBase" \in mod.faults,
           "ApertureBaseMismatch"),
     Check(r.kind # "aperture" /\ Lookup(r.ref) = {}, "SymbolUnresolved"),
     Check(r.kind = "unsupported", "RelocUnsupported") >>

\* One round of apply_import_relocations, and its end.
ApplyRelocation ==
  /\ pc = "reloc"
  /\ \/ /\ idx > Len(mod.relocs)
        /\ Goto("exec") /\ UNCHANGED <<idx, links>>
        /\ UNCHANGED <<tier, tables, cursor, mod, symMark, apMark, base,
                       live, inited, entryCursor>>
     \/ /\ idx <= Len(mod.relocs)
        /\ LET r == mod.relocs[idx]
               err == FirstError(RelocChecks(r)) IN
             \/ /\ err = "none" /\ Goto("reloc") /\ idx' = idx + 1
                /\ links' = IF r.kind = "aperture" THEN links
                            ELSE links \cup
                                 {[from |-> base, hash |-> r.ref,
                                   to |-> symmap[CHOOSE i \in Lookup(r.ref) :
                                            \A j \in Lookup(r.ref) : i <= j].addr]}
                /\ UNCHANGED <<tier, tables, cursor, mod, symMark, apMark,
                               base, live, inited, entryCursor>>
             \/ err # "none" /\ Abort(err)

\* platform.make_exec succeeds.
MakeExec ==
  /\ pc = "exec" /\ Goto("init")
  /\ UNCHANGED <<tier, tables, cursor, mod, idx, symMark, apMark, base, history>>

\* platform.make_exec fails; only hosted platforms do that.
MakeExecFails ==
  /\ pc = "exec" /\ Abort(FromU32(5201))

\* run_init_if_present: the module's own code runs, before its exports are
\* registered and before the last checks.
RunInit ==
  /\ pc = "init" /\ Goto("export") /\ idx' = 1
  /\ inited' = IF mod.init THEN Append(inited, [id |-> mod.id, base |-> base])
             ELSE inited
  /\ UNCHANGED <<tier, tables, cursor, mod, symMark, apMark, base,
                 live, links, entryCursor>>

\* Mutant of RegisterChecks: names are compared, hashes are not.
RegisterChecksByName(e) ==
  << Check(\E i \in DOMAIN symmap : symmap[i].name # "" /\ symmap[i].name = e.name,
           FromU32(5206)),
     Check(Len(symmap) >= SymCap, FromU32(5209)) >>

\* SymMap::register_with_hash.  Runtime symbols have no name.
RegisterChecks(e) ==
  << Check(\E i \in DOMAIN symmap : symmap[i].name # "" /\ symmap[i].name = e.name,
           FromU32(5206)),
     Check(\E i \in DOMAIN symmap : symmap[i].hash = e.hash, FromU32(5207)),
     Check(Len(symmap) >= SymCap, FromU32(5209)) >>

\* Every export is registered at code_base (module_fn_addr).
Entry(e, addr) == [hash |-> e.hash, name |-> e.name, addr |-> addr]

\* One round of register_exports, and its end.
RegisterExport ==
  /\ pc = "export"
  /\ \/ /\ idx > Len(mod.exports)
        /\ Goto("recheck") /\ UNCHANGED <<symmap, idx>>
        /\ UNCHANGED <<tier, loaded, registry, cursor, mod, symMark, apMark,
                       base, history>>
     \/ /\ idx <= Len(mod.exports)
        /\ LET err == FirstError(RegisterChecks(mod.exports[idx])) IN
             \/ /\ err = "none" /\ Goto("export") /\ idx' = idx + 1
                /\ symmap' = Append(symmap, Entry(mod.exports[idx], base))
                /\ UNCHANGED <<tier, loaded, registry, cursor, mod, symMark,
                               apMark, base, history>>
             \/ err # "none" /\ Abort(err)

\* verify_trust_two_stack_bounds, check_resource_sharing.
FinalChecks ==
  /\ pc = "recheck"
  /\ LET err == FirstError(
             << Check(tier >= 2 /\ "rederive" \in mod.faults,
                      "StackBoundUnverifiable"),
                Check("sharing" \in mod.faults, "ResourceSharingMismatch") >>)
     IN \/ /\ err = "none" /\ Goto("commit")
           /\ UNCHANGED <<tier, tables, cursor, mod, idx, symMark, apMark,
                          base, history>>
        \/ err # "none" /\ Abort(err)

\* LoadedSet::insert, then both guards are disarmed.  A full set answers
\* ModuleAlreadyLoaded.
Commit ==
  /\ pc = "commit"
  /\ \/ /\ mod.id \notin Range(loaded) /\ Len(loaded) < LoadedCap
        /\ loaded' = Append(loaded, mod.id)
        /\ live' = Append(live, [mod |-> mod, base |-> base])
        /\ Return("ok")
        /\ UNCHANGED <<tier, symmap, registry, cursor, links, inited,
                       entryCursor>>
     \/ /\ mod.id \in Range(loaded) \/ Len(loaded) >= LoadedCap
        /\ Abort("ModuleAlreadyLoaded")

LoadStep ==
  \/ PrepareDecryption \/ Validate \/ BindApertures \/ ReserveAperture
  \/ PlaceSection \/ DecryptSections \/ ApplyRelocation \/ MakeExec
  \/ RunInit \/ RegisterExport \/ FinalChecks \/ Commit

\* A caller may go on loading after a refusal.
LoaderNext ==
  \/ \E m \in Modules : LoadModule(m)
  \/ LoadStep
  \/ MakeExecFails

LoaderSpec == LoaderInit /\ [][LoaderNext]_loaderVars

-----------------------------------------------------------------------------
Steps == {"idle", "unwrap", "validate", "bind", "reserve", "place", "decrypt",
          "reloc", "exec", "init", "export", "recheck", "commit"}

\* Type invariant; the tables stay within their fixed arrays and the bump
\* cursor within the heap, however many loads were refused before.
LoaderTypeOK ==
  /\ tier \in Tiers /\ pc \in Steps /\ mod \in Modules /\ idx \in Nat \ {0}
  /\ \A i \in DOMAIN symmap : DOMAIN symmap[i] = {"hash", "name", "addr"}
  /\ Len(symmap) <= SymCap /\ Len(loaded) <= LoadedCap
  /\ Len(registry) <= ApCap /\ Range(registry) \subseteq Board
  /\ symMark \in Nat /\ apMark \in Nat
  /\ cursor \in 1 .. HeapUnits + 1 /\ base \in 0 .. HeapUnits + 1

ExportsOf(l) == [i \in DOMAIN l.mod.exports |-> Entry(l.mod.exports[i], l.base)]

\* "Failure leaves no half-loaded state" (book, ch. 13): between loads the
\* symbol map, the aperture registry and the loaded set are exactly the
\* firmware's symbols followed by what each successful load contributed, in
\* load order; a refused load, wherever it stopped, leaves no trace in them
\* and takes nothing of an earlier load away.
LoadsAreAtomic ==
  pc = "idle" =>
    /\ symmap = Firmware \o FlattenSeq([i \in DOMAIN live |-> ExportsOf(live[i])])
    /\ registry = FlattenSeq([i \in DOMAIN live |-> live[i].mod.uses])
    /\ loaded = [i \in DOMAIN live |-> live[i].mod.id]

\* A symbol hash names one address, also in the middle of a load: two
\* exports never share a hash, by the same name or by a collision.
OneAddressPerHash ==
  \A i, j \in DOMAIN symmap : symmap[i].hash = symmap[j].hash => i = j

\* An MMIO aperture is bound at most once (decision D-9 of apertures.rs).
ApertureExclusive ==
  \A i, j \in DOMAIN registry : registry[i] = registry[j] => i = j

\* An import that was patched into placed code points at the firmware or at
\* the code of a module whose load succeeded and which exports that hash:
\* never at a refused module, and never at the importing module itself.
LinksPointToLoaded ==
  \A l \in links :
    \/ \E i \in DOMAIN Firmware : Firmware[i].hash = l.hash /\ l.to = Firmware[i].addr
    \/ \E i \in DOMAIN live :
         /\ live[i].base = l.to /\ l.to < l.from
         /\ \E e \in DOMAIN live[i].mod.exports : live[i].mod.exports[e].hash = l.hash

\* Load-once: no two loaded modules have one identity, and once a module is
\* loaded no container of that identity runs its init word again.  The test
\* of LoadedSet::insert alone would come too late for the second part.
LoadedOnce ==
  /\ \A i, j \in DOMAIN live : live[i].mod.id = live[j].mod.id => i = j
  /\ \A i, j \in DOMAIN inited :
       i < j /\ inited[i].id = inited[j].id =>
         \A k \in DOMAIN live : live[k].base # inited[i].base

\* load_module's contract (load.rs): "On failure ... any allocated memory is
\* released via the platform".
RefusalFreesMemory ==
  pc = "idle" /\ result \notin {"none", "ok"} => cursor = entryCursor

\* platform.rs on verify_policy: "Enforcement happens before any allocation
\* (E6502 on failure ...)".
PolicyBeforeAllocation ==
  pc = "idle" /\ result = "VerifyPolicyReject" => cursor = entryCursor

\* load.rs: "transactional rollback, `__lang_mod_init` hook, load-once
\* enforcement, failure atomicity": only modules that end up loaded, or
\* whose load still runs, have had their init word called.
RefusedNeverRan ==
  \A i \in DOMAIN inited :
    \/ pc # "idle" /\ inited[i].base = base
    \/ \E j \in DOMAIN live : live[j].base = inited[i].base

\* symbols.rs: a duplicate name is E_SYMBOL_CONFLICT 5206 and a collision
\* 5207; load_module reports a conflict of exports as one.
ConflictIsReported ==
  [][(pc = "export" /\ pc' = "idle"
      /\ \E i \in DOMAIN symmap : symmap[i].hash = mod.exports[idx].hash)
       => result' = "SymbolConflict"]_loaderVars

\* symbols.rs on SymEntry: `addr' is the "address ... of the symbol in the
\* loaded module's memory": two words of one module are at two addresses.
EachExportItsAddress ==
  \A i, j \in DOMAIN symmap : symmap[i].addr > 0 /\ symmap[i].addr = symmap[j].addr => i = j
=============================================================================
