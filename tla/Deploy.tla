------------------------------- MODULE Deploy -------------------------------
(***************************************************************************)
(* `tyu deploy`: build, policy gates, packed / encrypted / signed          *)
(* artifacts, the certification package beside the image and its           *)
(* verification, then the deploy steps (crates/tyu/src/deploy.rs,          *)
(* cert.rs, vm_summary.rs), with the process dying between any two writes. *)
(*                                                                         *)
(* Files are abstracted to what they were made from: a packed module to    *)
(* its name, the version of its source and the policy its manifest         *)
(* declares (only its own object is packed); a summary to a version and a  *)
(* policy; an image to its module, a nonce (encryption is randomised) and  *)
(* whether it is signed; a digest to the value digested.  Deploy always    *)
(* builds with verification on, so every module has a summary.             *)
(***************************************************************************)
EXTENDS Naturals, FiniteSets, SequencesExt

CONSTANTS Deployers,  \* processes that may run `tyu deploy` on one out-dir
          Programs, Modules,
          Graph,      \* program |-> its modules, dependencies first
          Stem,       \* program |-> file stem of its root source
          Versions,
          Edited,     \* modules whose source changes between deploys
          OpenAt,     \* <<module, version>> pairs with an open obligation
          Policies,   \* values of --verify-policy: "open-ok", "no-open"
          Modes,      \* "static", "dynamic"
          Encrypting, Signing,  \* values of the flags
          MaxDeploys, \* bound on the deploys started
          None

ASSUME DeployAssumption ==
    /\ Graph \in [Programs -> Seq(Modules)]
    /\ \A p \in Programs : Graph[p] # <<>>
    /\ OpenAt \subseteq Modules \X Versions /\ Edited \subseteq Modules
    /\ Encrypting \subseteq BOOLEAN /\ Signing \subseteq BOOLEAN

VARIABLES source,     \* module |-> version
          lmods,      \* <out>/<Module>.lmod
          summaries,  \* <out>/.tyu-verify/<Module>.vm.json
          packed,     \* <out>/deploy/<stem>.lmod
          encrypted,  \* <out>/deploy/encrypted.lmod
          signed,     \* <out>/deploy/signed.lmod
          members,    \* files of signed.lmod.tyucert, without the next two
          index,      \* .../cert.json
          sig,        \* .../package.sig
          job, started

out == <<lmods, summaries>>
artifacts == <<packed, encrypted, signed>>
package == <<members, index, sig>>
vars == <<source, out, artifacts, package, job, started>>

Root(p) == Last(Graph[p])
Callees(p) == Range(Front(Graph[p]))
Put(fun, k, v) == [x \in DOMAIN fun \cup {k} |-> IF x = k THEN v ELSE fun[x]]

Idle == [pc |-> "idle", prog |-> None, policy |-> None, mode |-> None,
         enc |-> FALSE, sign |-> FALSE, lmod |-> None, module |-> None, image |-> None,
         index |-> None, built |-> <<>>, shipped |-> None, latest |-> FALSE, n |-> 0]
Ended == {"idle", "refused", "shipped"}

Init == /\ source \in [Modules -> {CHOOSE v \in Versions : TRUE}]
        /\ lmods = <<>> /\ summaries = <<>>
        /\ packed = <<>> /\ encrypted = None /\ signed = None
        /\ members = {} /\ index = None /\ sig = None
        /\ job = [d \in Deployers |-> Idle] /\ started = 0

Goto(d, pc) == job' = [job EXCEPT ![d].pc = pc]
----------------------------------------------------------------------------
(* write_module_summaries and pack_final_lmod: the manifest declares the   *)
(* policy the build was asked for.                                         *)
Declared(policy) == IF policy = "open-ok" THEN None ELSE policy
Packed(m, policy) == [module |-> m, ver |-> source[m], policy |-> Declared(policy)]

(* The report's open obligations, over every module of the image. *)
OpenOfRoot(p) == {m \in {Root(p)} : <<m, source[m]>> \in OpenAt}
OpenOf(p) == {m \in Range(Graph[p]) : <<m, source[m]>> \in OpenAt}
Enforced(p, policy) == policy = "open-ok" \/ OpenOf(p) = {}

Summary(m, policy) == [ver |-> source[m], policy |-> policy]
Summarised(p, policy) ==
    [m \in DOMAIN summaries \cup Range(Graph[p]) |->
        IF m \in Range(Graph[p]) THEN Summary(m, policy) ELSE summaries[m]]

(* build_resolved: summaries and packed modules are written, then the      *)
(* policy gate of enforce_policy may refuse the build.                     *)
Build(d, p, policy, mode, enc, sign) ==
    /\ job[d].pc \in Ended /\ started < MaxDeploys
    /\ started' = started + 1
    /\ summaries' = Summarised(p, policy)
    /\ LET shipped == IF mode = "dynamic" THEN Range(Graph[p]) ELSE {Root(p)} IN
       lmods' = [m \in DOMAIN lmods \cup shipped |->
          IF m \in shipped THEN Packed(m, policy) ELSE lmods[m]]
    /\ job' = [c \in Deployers |->
          IF c # d THEN [job[c] EXCEPT !.latest = FALSE]
          ELSE [Idle EXCEPT !.prog = p, !.policy = policy, !.mode = mode,
                   !.enc = enc, !.sign = sign, !.n = started + 1,
                   !.built = [m \in Range(Graph[p]) |-> source[m]],
                   !.pc = IF Enforced(p, policy) THEN "gate" ELSE "refused"]]
    /\ UNCHANGED <<source, artifacts, package>>

(* read_deploy_lmod: the built root module; in dynamic mode <stem>.lmod,   *)
(* or the only .lmod of the out-dir.                                       *)
DeployLmod(d) ==
    LET p == job[d].prog IN
    IF job[d].mode = "static" THEN lmods[Root(p)]
    ELSE IF Stem[p] \in DOMAIN lmods THEN lmods[Stem[p]]
    ELSE IF Cardinality(DOMAIN lmods) = 1 THEN lmods[CHOOSE m \in DOMAIN lmods : TRUE]
    ELSE None

(* check_deploy_policy: the root's manifest; check_image_pairing: the      *)
(* summary of every callee.                                                *)
Satisfies(policy, require) == require = "open-ok" \/ policy = require
ManifestGate(d, l) == l.policy # None /\ Satisfies(l.policy, job[d].policy)
PairingGate(d) ==
    \A m \in Callees(job[d].prog) :
        m \in DOMAIN summaries /\ Satisfies(summaries[m].policy, job[d].policy)

Gate(d) ==
    /\ job[d].pc = "gate"
    /\ LET l == DeployLmod(d) IN
       IF l # None /\ (job[d].policy = "open-ok" \/ (ManifestGate(d, l) /\ PairingGate(d)))
       THEN job' = [job EXCEPT ![d].pc = "packed", ![d].lmod = l]
       ELSE Goto(d, "refused")
    /\ UNCHANGED <<source, out, artifacts, package, started>>

WritePacked(d) ==
    /\ job[d].pc = "packed"
    /\ packed' = Put(packed, Stem[job[d].prog], job[d].lmod)
    /\ Goto(d, "encrypted")
    /\ UNCHANGED <<source, out, encrypted, signed, package, started>>

(* The packed module is read back; encryption draws a fresh key and nonce. *)
WriteEncrypted(d) ==
    /\ job[d].pc = "encrypted"
    /\ LET e == [lmod |-> packed[Stem[job[d].prog]],
                 nonce |-> IF job[d].enc THEN job[d].n ELSE 0, signed |-> FALSE] IN
       /\ encrypted' = e
       /\ job' = [job EXCEPT ![d].pc = "signed", ![d].image = e]
    /\ UNCHANGED <<source, out, packed, signed, package, started>>

(* Sign what was encrypted, or copy the encrypted file. *)
WriteSigned(d) ==
    /\ job[d].pc = "signed"
    /\ signed' = IF job[d].sign THEN [job[d].image EXCEPT !.signed = TRUE] ELSE encrypted
    /\ Goto(d, "stage")
    /\ UNCHANGED <<source, out, packed, encrypted, package, started>>

(* assemble_for_deploy up to the writes: image and packed module are read  *)
(* back from disk.  The index holds the image digest, the state of every   *)
(* module from its summary and the digest of the packed module's manifest. *)
(* A verdicts member carries no record: obligation artifacts and harvest   *)
(* documents are looked for under names no build writes.                   *)
Members(p) == Range(Graph[p]) \cup {"evidence"}
Stage(d) ==
    /\ job[d].pc = "stage"
    /\ LET p == job[d].prog
           module == packed[Stem[p]]
       IN job' = [job EXCEPT ![d].pc = "members", ![d].image = signed, ![d].module = module,
             ![d].index = [image |-> signed, root |-> Root(p), policy |-> job[d].policy,
                           modules |-> [m \in Range(Graph[p]) |-> summaries[m].ver],
                           members |-> Members(p),
                           manifest |-> IF module.policy = None THEN None ELSE module]]
    /\ UNCHANGED <<source, out, artifacts, package, started>>

(* write_if_changed, one member after the other. *)
Missing(d) == job[d].index.members \ members
WriteMember(d, k) ==
    /\ job[d].pc = "members" /\ k \in Missing(d)
    /\ members' = members \cup {k}
    /\ UNCHANGED <<source, out, artifacts, index, sig, job, started>>

WriteIndex(d) ==
    /\ job[d].pc = "members" /\ Missing(d) = {}
    /\ index' = job[d].index
    /\ Goto(d, IF job[d].sign THEN "sig" ELSE "check")
    /\ UNCHANGED <<source, out, artifacts, members, sig, started>>

WriteSigIfNone(d) ==
    /\ job[d].pc = "sig"
    /\ sig' = IF sig = None THEN job[d].index ELSE sig
    /\ Goto(d, "check")
    /\ UNCHANGED <<source, out, artifacts, members, index, started>>

(* write_package_sig: a MAC of the package digest. *)
WriteSig(d) ==
    /\ job[d].pc = "sig"
    /\ sig' = job[d].index
    /\ Goto(d, "check")
    /\ UNCHANGED <<source, out, artifacts, members, index, started>>
----------------------------------------------------------------------------
(* verify_package_inner: B4 (signature, when a key is given), B1 (image    *)
(* digest), B2 (manifest digest of the module bytes), B3 (members).        *)
B4(keyed) == index # None /\ (keyed => sig = index)
B1Any(image) == image # None
B1(image) == image = index.image
B2(module) == index.manifest # None => module = index.manifest
B3 == index.members \subseteq members
Accepts(image, module, keyed) == B4(keyed) /\ B1(image) /\ B2(module) /\ B3

(* The pre-ship check of FR-21. *)
CheckPackage(d) ==
    /\ job[d].pc = "check"
    /\ Goto(d, IF Accepts(signed, job[d].module, FALSE) THEN "ship" ELSE "refused")
    /\ UNCHANGED <<source, out, artifacts, package, started>>

(* run_deploy_steps: the recipe is given the path of the signed image. *)
Ship(d) ==
    /\ job[d].pc = "ship"
    /\ job' = [job EXCEPT ![d].pc = "shipped", ![d].shipped = signed, ![d].latest = TRUE]
    /\ UNCHANGED <<source, out, artifacts, package, started>>

Crash(d) ==
    /\ job[d].pc \notin Ended
    /\ job' = [job EXCEPT ![d] = Idle]
    /\ UNCHANGED <<source, out, artifacts, package, started>>

Edit(m, v) ==
    /\ \A d \in Deployers : job[d].pc \in Ended
    /\ source[m] # v /\ started < MaxDeploys
    /\ source' = [source EXCEPT ![m] = v]
    /\ UNCHANGED <<out, artifacts, package, job, started>>

Step(d) == \/ Gate(d) \/ WritePacked(d) \/ WriteEncrypted(d) \/ WriteSigned(d) \/ Stage(d)
           \/ \E k \in Modules \cup {"evidence"} : WriteMember(d, k)
           \/ WriteIndex(d) \/ WriteSig(d) \/ CheckPackage(d) \/ Ship(d)

Next == \/ \E d \in Deployers, p \in Programs, q \in Policies, m \in Modes,
              e \in Encrypting, s \in Signing : Build(d, p, q, m, e, s)
        \/ \E d \in Deployers : Step(d)
        \/ \E d \in Deployers : Crash(d)
        \/ \E m \in Edited, v \in Versions : Edit(m, v)

Spec == Init /\ [][Next]_vars
----------------------------------------------------------------------------
(* An auditor who accepts the package on disk, at any moment, holds the    *)
(* verification state of the very module version the image beside it was   *)
(* packed from, and the policy the package claims is the one the image's   *)
(* manifest declares: no crash between the writes of one deploy over the   *)
(* package of another pairs a package with "some other build" (B1..B4).    *)
PackageBinds ==
    signed # None /\ Accepts(signed, signed.lmod, FALSE) =>
        /\ index.root = signed.lmod.module
        /\ index.modules[index.root] = signed.lmod.ver
        /\ signed.lmod.policy = Declared(index.policy)

(* What a deploy ships is the root it built, and under a requiring policy  *)
(* no module of its graph has an open obligation, whatever a refused or a  *)
(* dead deploy left in the out-dir (enforce_policy, check_deploy_policy,   *)
(* check_image_pairing, read_deploy_lmod).                                 *)
ShipsOwnPolicy == \A d \in Deployers : job[d].pc = "shipped" =>
    LET l == job[d].shipped.lmod
        built == job[d].built
    IN /\ l.module = Root(job[d].prog) /\ l.ver = built[l.module]
       /\ job[d].policy # "open-ok" => \A m \in DOMAIN built : <<m, built[m]>> \notin OpenAt

(* After a deploy the auditor accepts the package, with the key too when   *)
(* the deploy signed: no signature or member of an earlier deploy stays in *)
(* its way (assemble_for_deploy).                                          *)
ShippedIsAuditable == \A d \in Deployers : job[d].pc = "shipped" /\ job[d].latest =>
    Accepts(signed, signed.lmod, job[d].sign)
=============================================================================
