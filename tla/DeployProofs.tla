---------------------------- MODULE DeployProofs ----------------------------
(***************************************************************************)
(* Proofs about Deploy: one deploy at a time on an out-dir, of any number  *)
(* of programs and modules, with any number of crashes and edits.          *)
(***************************************************************************)
EXTENDS Deploy, FiniteSetTheorems, TLAPS

\* The package is not locked: the theorems are about one process at a time.
OneDeployer == \A c, d \in Deployers : c = d

\* In dynamic mode the packed module is looked for under the stem of the root
\* source, which must not be the name of another module.
StemsNameRoots == \A p \in Programs : Stem[p] \in Modules => Stem[p] = Root(p)

Pcs == {"idle", "refused", "shipped", "gate", "packed", "encrypted", "signed", "stage",
        "members", "sig", "check", "ship"}

\* Every job has the fields of Idle.
Fields == {"pc", "prog", "policy", "mode", "enc", "sign", "lmod", "module", "image", "index",
           "built", "shipped", "latest", "n"}
Shaped(j) == DOMAIN j = Fields /\ j.pc \in Pcs
Shape == job = [d \in Deployers |-> job[d]] /\ \A d \in Deployers : Shaped(job[d])

\* The packed module a job's own build wrote.
Own(j) == [module |-> Root(j.prog), ver |-> j.built[Root(j.prog)], policy |-> Declared(j.policy)]

\* A build that passed the policy gate of the build.
BuiltInv(j) == j.pc \notin {"idle", "refused"} =>
  /\ j.prog \in Programs /\ DOMAIN j.built = Range(Graph[j.prog])
  /\ j.policy # "open-ok" => \A m \in DOMAIN j.built : <<m, j.built[m]>> \notin OpenAt

\* What the build left in the out-dir, until the index is staged.
OutInv(j) == j.pc \in {"gate", "packed", "encrypted", "signed", "stage"} =>
  \A m \in Range(Graph[j.prog]) : summaries[m].ver = j.built[m]
GateInv(j) == j.pc = "gate" =>
  Root(j.prog) \in DOMAIN lmods /\ lmods[Root(j.prog)] = Own(j)

\* The module on its way through the artifacts.
ArtifactInv(j) ==
  /\ j.pc = "packed" => j.lmod = Own(j)
  /\ j.pc \in {"encrypted", "signed", "stage"} => packed[Stem[j.prog]] = Own(j)
  /\ j.pc = "signed" =>
       /\ j.image = encrypted
       /\ encrypted = [lmod |-> Own(j), nonce |-> encrypted.nonce, signed |-> encrypted.signed]
  /\ j.pc = "stage" => signed.lmod = Own(j)

\* The staged index is that of the image on disk.
StagedInv(j) == j.pc \in {"members", "sig", "check", "ship", "shipped"} =>
  /\ signed.lmod = Own(j) /\ j.module = Own(j)
  /\ j.index.image = signed /\ j.index.root = Root(j.prog) /\ j.index.policy = j.policy
  /\ j.index.modules[Root(j.prog)] = j.built[Root(j.prog)]
  /\ j.index.manifest \in {None, Own(j)}
WrittenInv(j) ==
  /\ j.pc \in {"sig", "check", "ship", "shipped"} =>
       index = j.index /\ index.members \subseteq members
  /\ j.pc \in {"check", "ship", "shipped"} /\ j.sign => sig = index
  /\ j.pc \in {"ship", "shipped"} => index # None
  /\ j.pc = "shipped" => j.shipped = signed

JobInv(j) ==
  BuiltInv(j) /\ OutInv(j) /\ GateInv(j) /\ ArtifactInv(j) /\ StagedInv(j) /\ WrittenInv(j)

\* Every module the out-dir keeps has a name of the project.
LmodsInv == DOMAIN lmods \subseteq Modules /\ IsFiniteSet(DOMAIN lmods)

\* The index on disk agrees with the image it was staged for, whatever image
\* is beside it.
IndexInv == index # None =>
  /\ index.root = index.image.lmod.module
  /\ index.modules[index.root] = index.image.lmod.ver
  /\ index.image.lmod.policy = Declared(index.policy)

DeployInv == Shape /\ LmodsInv /\ IndexInv /\ \A d \in Deployers : JobInv(job[d])
-----------------------------------------------------------------------------
\* The root of a program is one of its modules, of which there are finitely
\* many.
LEMMA RootFacts ==
  ASSUME NEW p \in Programs
  PROVE  /\ Root(p) \in Range(Graph[p]) /\ Range(Graph[p]) \subseteq Modules
         /\ IsFiniteSet(Range(Graph[p]))
<1>1. Graph[p] \in Seq(Modules) /\ Graph[p] # <<>>
  BY DeployAssumption
<1>2. Len(Graph[p]) \in Nat \ {0} /\ DOMAIN Graph[p] = 1 .. Len(Graph[p])
  BY <1>1
<1>3. Root(p) = Graph[p][Len(Graph[p])]
  BY DEF Root, Last
<1>4. \A i \in DOMAIN Graph[p] : Graph[p][i] \in Modules
  BY <1>1, <1>2
<1>5. IsFiniteSet(DOMAIN Graph[p])
  BY <1>2, FS_Interval
<1>6. IsFiniteSet(Range(Graph[p]))
  <2>1. Graph[p] \in [DOMAIN Graph[p] -> Range(Graph[p])]
    BY <1>1, <1>2 DEF Range
  <2>2. Graph[p] \in Surjection(DOMAIN Graph[p], Range(Graph[p]))
    BY <2>1 DEF Range, Surjection
  <2> QED BY <1>5, <2>2, FS_Surjection
<1> QED BY <1>2, <1>3, <1>4, <1>6 DEF Range

\* The step of one process leaves the job it writes.
LEMMA JobSet ==
  ASSUME Shape, OneDeployer, NEW d \in Deployers, NEW r, Shaped(r), job' = [job EXCEPT ![d] = r]
  PROVE  Shape' /\ job'[d] = r
BY DEF Shape, OneDeployer

\* What holds of the process that steps holds of all.
LEMMA OnlyJob ==
  ASSUME OneDeployer, NEW d \in Deployers, JobInv(job[d])'
  PROVE  (\A c \in Deployers : JobInv(job[c]))'
BY DEF OneDeployer

\* Two jobs agree on everything but their place.
SameJob(j, k) ==
  /\ k.prog = j.prog /\ k.policy = j.policy /\ k.mode = j.mode /\ k.enc = j.enc
  /\ k.sign = j.sign /\ k.lmod = j.lmod /\ k.module = j.module /\ k.image = j.image
  /\ k.index = j.index /\ k.built = j.built /\ k.shipped = j.shipped
  /\ k.latest = j.latest /\ k.n = j.n

\* A step that only moves the place.
LEMMA GotoFields ==
  ASSUME Shape, OneDeployer, NEW d \in Deployers, NEW pc \in Pcs, Goto(d, pc)
  PROVE  Shape' /\ job'[d].pc = pc /\ SameJob(job[d], job'[d])
<1> DEFINE r == [job[d] EXCEPT !.pc = pc]
<1>1. Shaped(job[d])
  BY DEF Shape
<1>2. Shaped(r) /\ r.pc = pc /\ SameJob(job[d], r)
  BY <1>1 DEF Shaped, SameJob, Fields
<1>3. job' = [job EXCEPT ![d] = r]
  BY DEF Goto
<1> HIDE DEF r
<1>4. Shape' /\ job'[d] = r
  BY <1>2, <1>3, JobSet
<1> QED BY <1>2, <1>4

\* A refused or dead deploy promises nothing.
LEMMA StoppedJob ==
  ASSUME OneDeployer, NEW d \in Deployers, job'[d].pc \in {"idle", "refused"}
  PROVE  (\A c \in Deployers : JobInv(job[c]))'
<1>1. JobInv(job[d])'
  BY DEF JobInv, BuiltInv, OutInv, GateInv, ArtifactInv, StagedInv, WrittenInv
<1> QED BY <1>1, OnlyJob

\* The build: its modules and summaries are those of the sources it read, and
\* it goes on only if the policy holds of them.
LEMMA BuildInv ==
  ASSUME DeployInv, OneDeployer, NEW d \in Deployers, NEW p \in Programs, NEW policy, NEW mode,
         NEW enc, NEW sign, Build(d, p, policy, mode, enc, sign)
  PROVE  DeployInv'
<1> DEFINE shipped == IF mode = "dynamic" THEN Range(Graph[p]) ELSE {Root(p)}
           b == [m \in Range(Graph[p]) |-> source[m]]
           q == IF Enforced(p, policy) THEN "gate" ELSE "refused"
           i == started + 1
           r == [Idle EXCEPT !.prog = p, !.policy = policy, !.mode = mode, !.enc = enc,
                   !.sign = sign, !.n = i, !.built = b, !.pc = q]
<1>1. /\ lmods' = [m \in DOMAIN lmods \cup shipped |->
                      IF m \in shipped THEN Packed(m, policy) ELSE lmods[m]]
      /\ summaries' = Summarised(p, policy)
      /\ job' = [c \in Deployers |-> IF c # d THEN [job[c] EXCEPT !.latest = FALSE] ELSE r]
      /\ UNCHANGED <<index, members, sig, signed, packed, encrypted, source>>
  BY DEF Build, artifacts, package
<1>2. /\ Root(p) \in Range(Graph[p]) /\ Range(Graph[p]) \subseteq Modules
      /\ IsFiniteSet(Range(Graph[p]))
  BY RootFacts
<1>3. Root(p) \in shipped /\ shipped \subseteq Modules /\ IsFiniteSet(shipped)
  BY <1>2, FS_Singleton
<1>4. /\ Shaped(r) /\ r.prog = p /\ r.policy = policy
      /\ r.built = [m \in Range(Graph[p]) |-> source[m]]
      /\ r.pc = IF Enforced(p, policy) THEN "gate" ELSE "refused"
  <2>1. q \in Pcs
    BY DEF Pcs
  <2> HIDE DEF b, q, i
  <2>2. /\ DOMAIN r = Fields /\ r.prog = p /\ r.policy = policy /\ r.built = b /\ r.pc = q
    BY DEF Idle, Fields
  <2> QED BY <2>1, <2>2 DEF b, q, Shaped
<1> HIDE DEF shipped, r, i
<1>5. job' = [c \in Deployers |-> r]
  BY <1>1 DEF OneDeployer
<1>6. Shape' /\ job'[d] = r
  BY <1>4, <1>5 DEF Shape
<1>7. LmodsInv'
  <2>1. DOMAIN lmods' = DOMAIN lmods \cup shipped
    BY <1>1
  <2> QED BY <1>3, <2>1, FS_Union DEF DeployInv, LmodsInv
<1>8. IndexInv'
  BY <1>1 DEF DeployInv, IndexInv
<1>9. CASE Enforced(p, policy)
  <2>1. Own(r) = Packed(Root(p), policy)
    BY <1>2, <1>4 DEF Own, Packed
  <2>2. lmods'[Root(p)] = Packed(Root(p), policy) /\ Root(p) \in DOMAIN lmods'
    BY <1>1, <1>3
  <2>3. \A m \in Range(Graph[p]) : summaries'[m].ver = source[m]
    BY <1>1 DEF Summarised, Summary
  <2>4. policy # "open-ok" => \A m \in Range(Graph[p]) : <<m, source[m]>> \notin OpenAt
    BY <1>9 DEF Enforced, OpenOf
  <2>5. r.pc = "gate" /\ DOMAIN r.built = Range(Graph[p])
        /\ \A m \in Range(Graph[p]) : r.built[m] = source[m]
    BY <1>4, <1>9
  <2>6. JobInv(job[d])'
    BY <1>4, <1>6, <2>1, <2>2, <2>3, <2>4, <2>5
    DEF JobInv, BuiltInv, OutInv, GateInv, ArtifactInv, StagedInv, WrittenInv, Own
  <2> QED BY <1>6, <1>7, <1>8, <2>6, OnlyJob DEF DeployInv
<1>10. CASE ~Enforced(p, policy)
  <2>1. job'[d].pc = "refused"
    BY <1>4, <1>6, <1>10
  <2> QED BY <1>6, <1>7, <1>8, <2>1, StoppedJob DEF DeployInv
<1> QED BY <1>9, <1>10

\* The gate lets through the module of the job's own build, or nothing: in
\* dynamic mode the stem names the root, or the root's is the only module.
LEMMA GateOwn ==
  ASSUME DeployInv, StemsNameRoots, NEW d \in Deployers, job[d].pc = "gate", DeployLmod(d) # None
  PROVE  DeployLmod(d) = Own(job[d])
<1> DEFINE p == job[d].prog
<1>1. /\ p \in Programs /\ Root(p) \in DOMAIN lmods /\ lmods[Root(p)] = Own(job[d])
      /\ DOMAIN lmods \subseteq Modules /\ IsFiniteSet(DOMAIN lmods)
  BY DEF DeployInv, JobInv, BuiltInv, GateInv, LmodsInv
<1> HIDE DEF p
<1>2. CASE Stem[p] \in DOMAIN lmods
  <2>1. Stem[p] = Root(p)
    BY <1>1, <1>2 DEF StemsNameRoots
  <2> QED BY <1>1, <1>2, <2>1 DEF DeployLmod, p
<1>3. CASE Cardinality(DOMAIN lmods) = 1
  <2>1. PICK x : DOMAIN lmods = {x}
    BY <1>1, <1>3, FS_Singleton
  <2>2. (CHOOSE m \in DOMAIN lmods : TRUE) = Root(p)
    BY <1>1, <2>1
  <2> QED BY <1>1, <1>2, <2>2 DEF DeployLmod, p
<1> QED BY <1>1, <1>2, <1>3 DEF DeployLmod, p

\* The gate of the deploy takes the module it found.
LEMMA GateStep ==
  ASSUME DeployInv, OneDeployer, StemsNameRoots, NEW d \in Deployers, Gate(d)
  PROVE  DeployInv'
<1>1. /\ job[d].pc = "gate" /\ JobInv(job[d]) /\ Shape /\ Shaped(job[d])
      /\ UNCHANGED <<summaries, lmods, packed, encrypted, signed, members, index, sig, source>>
  BY DEF Gate, DeployInv, Shape, out, artifacts, package
<1>2. LmodsInv' /\ IndexInv'
  BY <1>1 DEF DeployInv, LmodsInv, IndexInv
<1>3. CASE Goto(d, "refused")
  <2>1. Shape' /\ job'[d].pc = "refused"
    BY <1>1, <1>3, GotoFields DEF Pcs
  <2> QED BY <1>2, <2>1, StoppedJob DEF DeployInv
<1>4. CASE ~Goto(d, "refused")
  <2> DEFINE l == DeployLmod(d)
             r == [job[d] EXCEPT !.pc = "packed", !.lmod = l]
  <2>1. l # None /\ job' = [job EXCEPT ![d].pc = "packed", ![d].lmod = l]
    BY <1>4 DEF Gate
  <2>2. l = Own(job[d])
    BY <1>1, <2>1, GateOwn
  <2> HIDE DEF l
  <2>3. job' = [job EXCEPT ![d] = r]
    BY <2>1
  <2>4. /\ Shaped(r) /\ r.pc = "packed" /\ r.lmod = l /\ r.prog = job[d].prog
        /\ r.policy = job[d].policy /\ r.built = job[d].built
    BY <1>1 DEF Shaped, Fields, Pcs
  <2> HIDE DEF r
  <2>5. Shape' /\ job'[d] = r
    BY <1>1, <2>3, <2>4, JobSet
  <2>6. JobInv(job[d])'
    BY <1>1, <2>2, <2>4, <2>5
    DEF JobInv, BuiltInv, OutInv, GateInv, ArtifactInv, StagedInv, WrittenInv, Own
  <2> QED BY <1>2, <2>5, <2>6, OnlyJob DEF DeployInv
<1> QED BY <1>3, <1>4

\* The packed module is written under the stem of the program.
LEMMA PackedStep ==
  ASSUME DeployInv, OneDeployer, NEW d \in Deployers, WritePacked(d)
  PROVE  DeployInv'
<1>1. /\ job[d].pc = "packed" /\ JobInv(job[d]) /\ Shape /\ Goto(d, "encrypted")
      /\ packed' = Put(packed, Stem[job[d].prog], job[d].lmod)
      /\ UNCHANGED <<summaries, lmods, encrypted, signed, members, index, sig, source>>
  BY DEF WritePacked, DeployInv, out, package
<1>2. Shape' /\ job'[d].pc = "encrypted" /\ SameJob(job[d], job'[d])
  BY <1>1, GotoFields DEF Pcs
<1>3. packed'[Stem[job[d].prog]] = Own(job[d])
  BY <1>1 DEF Put, JobInv, ArtifactInv
<1>4. JobInv(job[d])'
  BY <1>1, <1>2, <1>3
  DEF JobInv, BuiltInv, OutInv, GateInv, ArtifactInv, StagedInv, WrittenInv, Own, SameJob
<1>5. LmodsInv' /\ IndexInv'
  BY <1>1 DEF DeployInv, LmodsInv, IndexInv
<1> QED BY <1>2, <1>4, <1>5, OnlyJob DEF DeployInv

\* The encrypted image is of the packed module that was read back.
LEMMA EncryptedStep ==
  ASSUME DeployInv, OneDeployer, NEW d \in Deployers, WriteEncrypted(d)
  PROVE  DeployInv'
<1> DEFINE x == IF job[d].enc THEN job[d].n ELSE 0
           e == [lmod |-> packed[Stem[job[d].prog]], nonce |-> x, signed |-> FALSE]
           r == [job[d] EXCEPT !.pc = "signed", !.image = e]
<1>1. /\ job[d].pc = "encrypted" /\ JobInv(job[d]) /\ Shape /\ Shaped(job[d])
      /\ encrypted' = e /\ job' = [job EXCEPT ![d].pc = "signed", ![d].image = e]
      /\ UNCHANGED <<summaries, lmods, packed, signed, members, index, sig, source>>
  BY DEF WriteEncrypted, DeployInv, Shape, out, package
<1>2. packed[Stem[job[d].prog]] = Own(job[d])
  BY <1>1 DEF JobInv, ArtifactInv
<1> HIDE DEF x
<1>3. e = [lmod |-> Own(job[d]), nonce |-> e.nonce, signed |-> e.signed]
  BY <1>2
<1> HIDE DEF e
<1>4. job' = [job EXCEPT ![d] = r]
  BY <1>1
<1>5. /\ Shaped(r) /\ r.pc = "signed" /\ r.image = e /\ r.prog = job[d].prog
      /\ r.policy = job[d].policy /\ r.built = job[d].built
  BY <1>1 DEF Shaped, Fields, Pcs
<1> HIDE DEF r
<1>6. Shape' /\ job'[d] = r
  BY <1>1, <1>4, <1>5, JobSet
<1>7. JobInv(job[d])'
  BY <1>1, <1>2, <1>3, <1>5, <1>6, ZenonT(40)
  DEF JobInv, BuiltInv, OutInv, GateInv, ArtifactInv, StagedInv, WrittenInv, Own
<1>8. LmodsInv' /\ IndexInv'
  BY <1>1 DEF DeployInv, LmodsInv, IndexInv
<1> QED BY <1>6, <1>7, <1>8, OnlyJob DEF DeployInv

\* Signed or copied, the image is of the same module.
LEMMA SignedStep ==
  ASSUME DeployInv, OneDeployer, NEW d \in Deployers, WriteSigned(d)
  PROVE  DeployInv'
<1>1. /\ job[d].pc = "signed" /\ JobInv(job[d]) /\ Shape /\ Goto(d, "stage")
      /\ signed' = IF job[d].sign THEN [job[d].image EXCEPT !.signed = TRUE] ELSE encrypted
      /\ UNCHANGED <<summaries, lmods, packed, encrypted, members, index, sig, source>>
  BY DEF WriteSigned, DeployInv, out, package
<1>2. Shape' /\ job'[d].pc = "stage" /\ SameJob(job[d], job'[d])
  BY <1>1, GotoFields DEF Pcs
<1>3. signed'.lmod = Own(job[d])
  <2>1. /\ job[d].image = encrypted
        /\ encrypted = [lmod |-> Own(job[d]), nonce |-> encrypted.nonce,
                        signed |-> encrypted.signed]
    BY <1>1 DEF JobInv, ArtifactInv
  <2> QED BY <1>1, <2>1
<1>4. packed'[Stem[job[d].prog]] = Own(job[d])
  BY <1>1 DEF JobInv, ArtifactInv
<1>5. JobInv(job[d])'
  BY <1>1, <1>2, <1>3, <1>4
  DEF JobInv, BuiltInv, OutInv, GateInv, ArtifactInv, StagedInv, WrittenInv, Own, SameJob
<1>6. LmodsInv' /\ IndexInv'
  BY <1>1 DEF DeployInv, LmodsInv, IndexInv
<1> QED BY <1>2, <1>5, <1>6, OnlyJob DEF DeployInv

\* The index is staged for the image and the module read back from disk.
LEMMA StageStep ==
  ASSUME DeployInv, OneDeployer, NEW d \in Deployers, Stage(d)
  PROVE  DeployInv'
<1> DEFINE p == job[d].prog
           module == packed[Stem[p]]
           vers == [m \in Range(Graph[p]) |-> summaries[m].ver]
           man == IF module.policy = None THEN None ELSE module
           files == Members(p)
           i == [image |-> signed, root |-> Root(p), policy |-> job[d].policy,
                 modules |-> vers, members |-> files, manifest |-> man]
           r == [job[d] EXCEPT !.pc = "members", !.image = signed, !.module = module, !.index = i]
<1>1. /\ job[d].pc = "stage" /\ JobInv(job[d]) /\ Shape /\ Shaped(job[d])
      /\ job' = [job EXCEPT ![d].pc = "members", ![d].image = signed, ![d].module = module,
                            ![d].index = i]
      /\ UNCHANGED <<summaries, lmods, packed, encrypted, signed, members, index, sig, source>>
  BY DEF Stage, DeployInv, Shape, out, artifacts, package
<1>2. /\ module = Own(job[d]) /\ signed.lmod = Own(job[d]) /\ p \in Programs
      /\ \A m \in Range(Graph[p]) : summaries[m].ver = job[d].built[m]
  BY <1>1 DEF JobInv, ArtifactInv, OutInv, BuiltInv
<1>3. vers[Root(p)] = job[d].built[Root(p)] /\ man \in {None, Own(job[d])}
  BY <1>2, RootFacts
<1> HIDE DEF vers, man, files, module
<1>4. /\ i.image = signed /\ i.root = Root(p) /\ i.policy = job[d].policy
      /\ i.modules = vers /\ i.manifest = man
  OBVIOUS
<1> HIDE DEF i
<1>5. job' = [job EXCEPT ![d] = r]
  BY <1>1
<1>6. /\ Shaped(r) /\ r.pc = "members" /\ r.module = module /\ r.index = i
      /\ r.prog = job[d].prog /\ r.policy = job[d].policy /\ r.built = job[d].built
  BY <1>1 DEF Shaped, Fields, Pcs
<1> HIDE DEF r
<1>7. Shape' /\ job'[d] = r
  BY <1>1, <1>5, <1>6, JobSet
<1>8. Own(r) = Own(job[d])
  BY <1>6 DEF Own
<1>9. JobInv(job[d])'
  BY <1>1, <1>2, <1>3, <1>4, <1>6, <1>7, <1>8
  DEF JobInv, BuiltInv, OutInv, GateInv, ArtifactInv, StagedInv, WrittenInv
<1>10. LmodsInv' /\ IndexInv'
  BY <1>1 DEF DeployInv, LmodsInv, IndexInv
<1> QED BY <1>7, <1>9, <1>10, OnlyJob DEF DeployInv

\* A member more does not disturb what is staged or written.
LEMMA MemberStep ==
  ASSUME DeployInv, OneDeployer, NEW d \in Deployers, NEW k, WriteMember(d, k)
  PROVE  DeployInv'
<1>1. /\ job[d].pc = "members" /\ JobInv(job[d]) /\ job' = job /\ members' = members \cup {k}
      /\ UNCHANGED <<summaries, lmods, packed, encrypted, signed, index, sig, source>>
  BY DEF WriteMember, DeployInv, out, artifacts
<1>2. JobInv(job[d])'
  BY <1>1 DEF JobInv, BuiltInv, OutInv, GateInv, ArtifactInv, StagedInv, WrittenInv, Own
<1>3. LmodsInv' /\ IndexInv' /\ Shape'
  BY <1>1 DEF DeployInv, LmodsInv, IndexInv, Shape, Shaped
<1> QED BY <1>2, <1>3, OnlyJob DEF DeployInv

\* The index goes to disk when every member is there, and agrees with the
\* image that was read when it was staged.
LEMMA IndexStep ==
  ASSUME DeployInv, OneDeployer, NEW d \in Deployers, WriteIndex(d)
  PROVE  DeployInv'
<1> DEFINE q == IF job[d].sign THEN "sig" ELSE "check"
<1>1. /\ job[d].pc = "members" /\ JobInv(job[d]) /\ Shape /\ Goto(d, q)
      /\ Missing(d) = {} /\ index' = job[d].index
      /\ UNCHANGED <<summaries, lmods, packed, encrypted, signed, members, sig, source>>
  BY DEF WriteIndex, DeployInv, out, artifacts
<1>2. q \in Pcs /\ (q = "sig" \/ (q = "check" /\ ~job[d].sign))
  BY DEF Pcs
<1> HIDE DEF q
<1>3. Shape' /\ job'[d].pc = q /\ SameJob(job[d], job'[d])
  BY <1>1, <1>2, GotoFields
<1>4. job[d].index.members \subseteq members
  BY <1>1 DEF Missing
<1>5. StagedInv(job[d]) /\ BuiltInv(job[d])
  BY <1>1 DEF JobInv
<1>6. JobInv(job[d])'
  BY <1>1, <1>2, <1>3, <1>4, <1>5
  DEF JobInv, BuiltInv, OutInv, GateInv, ArtifactInv, StagedInv, WrittenInv, Own, SameJob
<1>7. IndexInv'
  <2>1. /\ index'.image = signed /\ signed.lmod = Own(job[d])
        /\ index'.root = Root(job[d].prog) /\ index'.policy = job[d].policy
        /\ index'.modules[Root(job[d].prog)] = job[d].built[Root(job[d].prog)]
    BY <1>1, <1>5 DEF StagedInv
  <2> QED BY <2>1 DEF IndexInv, Own
<1>8. LmodsInv'
  BY <1>1 DEF DeployInv, LmodsInv
<1> QED BY <1>3, <1>6, <1>7, <1>8, OnlyJob DEF DeployInv

\* The signature is of the index this deploy wrote.
LEMMA SigStep ==
  ASSUME DeployInv, OneDeployer, NEW d \in Deployers, WriteSig(d)
  PROVE  DeployInv'
<1>1. /\ job[d].pc = "sig" /\ JobInv(job[d]) /\ Shape /\ Goto(d, "check")
      /\ sig' = job[d].index
      /\ UNCHANGED <<summaries, lmods, packed, encrypted, signed, members, index, source>>
  BY DEF WriteSig, DeployInv, out, artifacts
<1>2. Shape' /\ job'[d].pc = "check" /\ SameJob(job[d], job'[d])
  BY <1>1, GotoFields DEF Pcs
<1>3. JobInv(job[d])'
  BY <1>1, <1>2
  DEF JobInv, BuiltInv, OutInv, GateInv, ArtifactInv, StagedInv, WrittenInv, Own, SameJob
<1>4. LmodsInv' /\ IndexInv'
  BY <1>1 DEF DeployInv, LmodsInv, IndexInv
<1> QED BY <1>2, <1>3, <1>4, OnlyJob DEF DeployInv

\* The check before the deploy steps finds an index.
LEMMA CheckStep ==
  ASSUME DeployInv, OneDeployer, NEW d \in Deployers, CheckPackage(d)
  PROVE  DeployInv'
<1>1. /\ job[d].pc = "check" /\ JobInv(job[d]) /\ Shape
      /\ UNCHANGED <<summaries, lmods, packed, encrypted, signed, members, index, sig, source>>
  BY DEF CheckPackage, DeployInv, out, artifacts, package
<1>2. LmodsInv' /\ IndexInv'
  BY <1>1 DEF DeployInv, LmodsInv, IndexInv
<1>3. CASE Goto(d, "refused")
  <2>1. Shape' /\ job'[d].pc = "refused"
    BY <1>1, <1>3, GotoFields DEF Pcs
  <2> QED BY <1>2, <2>1, StoppedJob DEF DeployInv
<1>4. CASE Goto(d, "ship") /\ index # None
  <2>1. Shape' /\ job'[d].pc = "ship" /\ SameJob(job[d], job'[d])
    BY <1>1, <1>4, GotoFields DEF Pcs
  <2>2. JobInv(job[d])'
    BY <1>1, <1>4, <2>1
    DEF JobInv, BuiltInv, OutInv, GateInv, ArtifactInv, StagedInv, WrittenInv, Own, SameJob
  <2> QED BY <1>2, <2>1, <2>2, OnlyJob DEF DeployInv
<1> QED BY <1>3, <1>4 DEF CheckPackage, Accepts, B4

\* The deploy steps are given the image on disk.
LEMMA ShipStep ==
  ASSUME DeployInv, OneDeployer, NEW d \in Deployers, Ship(d)
  PROVE  DeployInv'
<1> DEFINE r == [job[d] EXCEPT !.pc = "shipped", !.shipped = signed, !.latest = TRUE]
<1>1. /\ job[d].pc = "ship" /\ JobInv(job[d]) /\ Shape /\ Shaped(job[d])
      /\ job' = [job EXCEPT ![d].pc = "shipped", ![d].shipped = signed, ![d].latest = TRUE]
      /\ UNCHANGED <<summaries, lmods, packed, encrypted, signed, members, index, sig, source>>
  BY DEF Ship, DeployInv, Shape, out, artifacts, package
<1>2. job' = [job EXCEPT ![d] = r]
  BY <1>1
<1>3. /\ Shaped(r) /\ r.pc = "shipped" /\ r.shipped = signed /\ r.prog = job[d].prog
      /\ r.policy = job[d].policy /\ r.built = job[d].built /\ r.index = job[d].index
      /\ r.module = job[d].module /\ r.sign = job[d].sign
  BY <1>1 DEF Shaped, Fields, Pcs
<1> HIDE DEF r
<1>4. Shape' /\ job'[d] = r
  BY <1>1, <1>2, <1>3, JobSet
<1>5. JobInv(job[d])'
  BY <1>1, <1>3, <1>4
  DEF JobInv, BuiltInv, OutInv, GateInv, ArtifactInv, StagedInv, WrittenInv, Own
<1>6. LmodsInv' /\ IndexInv'
  BY <1>1 DEF DeployInv, LmodsInv, IndexInv
<1> QED BY <1>4, <1>5, <1>6, OnlyJob DEF DeployInv

\* A deploy dies; what it left on disk still agrees.
LEMMA CrashStep ==
  ASSUME DeployInv, OneDeployer, NEW d \in Deployers, Crash(d)
  PROVE  DeployInv'
<1>1. /\ Shape /\ job' = [job EXCEPT ![d] = Idle] /\ UNCHANGED <<lmods, index>>
  BY DEF Crash, DeployInv, out, package
<1>2. Shaped(Idle) /\ Idle.pc = "idle"
  BY DEF Shaped, Idle, Fields, Pcs
<1>3. Shape' /\ job'[d] = Idle
  BY <1>1, <1>2, JobSet
<1>4. LmodsInv' /\ IndexInv'
  BY <1>1 DEF DeployInv, LmodsInv, IndexInv
<1> QED BY <1>2, <1>3, <1>4, StoppedJob DEF DeployInv

\* Sources are edited between deploys.
LEMMA EditStep ==
  ASSUME DeployInv, NEW m, NEW v, Edit(m, v)
  PROVE  DeployInv'
<1>1. /\ \A d \in Deployers : job[d].pc \in Ended
      /\ UNCHANGED <<summaries, lmods, packed, encrypted, signed, members, index, sig, job>>
  BY DEF Edit, out, artifacts, package
<1>2. LmodsInv' /\ IndexInv' /\ Shape'
  BY <1>1 DEF DeployInv, LmodsInv, IndexInv, Shape, Shaped
<1>3. ASSUME NEW d \in Deployers PROVE JobInv(job[d])'
  <2>1. JobInv(job[d]) /\ job'[d] = job[d]
    BY <1>1 DEF DeployInv
  <2> QED
    BY <1>1, <2>1
    DEF JobInv, BuiltInv, OutInv, GateInv, ArtifactInv, StagedInv, WrittenInv, Own, Ended
<1> QED BY <1>2, <1>3 DEF DeployInv

\* Nothing is claimed of the out-dir before the first deploy.
LEMMA DeployInit == Init => DeployInv
<1> SUFFICES ASSUME Init PROVE DeployInv
  OBVIOUS
<1>1. job = [d \in Deployers |-> Idle] /\ lmods = <<>> /\ index = None
  BY DEF Init
<1>2. Shaped(Idle) /\ Idle.pc = "idle"
  BY DEF Shaped, Idle, Fields, Pcs
<1>3. Shape
  BY <1>1, <1>2 DEF Shape
<1>4. DOMAIN lmods = {}
  BY <1>1
<1>5. LmodsInv /\ IndexInv
  BY <1>1, <1>4, FS_EmptySet DEF LmodsInv, IndexInv
<1>6. \A d \in Deployers : JobInv(job[d])
  BY <1>1, <1>2 DEF JobInv, BuiltInv, OutInv, GateInv, ArtifactInv, StagedInv, WrittenInv
<1> QED BY <1>3, <1>5, <1>6 DEF DeployInv

\* Every step of a deploy, and whatever happens between deploys.
LEMMA DeployStep ==
  ASSUME OneDeployer, StemsNameRoots, DeployInv, [Next]_vars
  PROVE  DeployInv'
<1>1. ASSUME NEW d \in Deployers, Step(d) PROVE DeployInv'
  BY <1>1, GateStep, PackedStep, EncryptedStep, SignedStep, StageStep, MemberStep, IndexStep,
     SigStep, CheckStep, ShipStep DEF Step
<1>2. CASE UNCHANGED vars
  BY <1>2 DEF vars, out, artifacts, package, DeployInv, LmodsInv, IndexInv, Shape, Shaped, JobInv,
     BuiltInv, OutInv, GateInv, ArtifactInv, StagedInv, WrittenInv, Own
<1> QED BY <1>1, <1>2, BuildInv, CrashStep, EditStep DEF Next

\* With one deploy at a time, no mixture of finished, refused and dead
\* deploys leaves an index on disk that speaks of another build than its image.
THEOREM DeployInvariant ==
  ASSUME OneDeployer, StemsNameRoots
  PROVE  Spec => []DeployInv
<1>1. Init => DeployInv
  BY DeployInit
<1>2. DeployInv /\ [Next]_vars => DeployInv'
  BY DeployStep
<1> QED BY <1>1, <1>2, PTL DEF Spec

\* An auditor who accepts the package on disk holds the state of the very
\* version the image was packed from, under the policy its manifest declares.
THEOREM AcceptedPackagesBind ==
  ASSUME OneDeployer, StemsNameRoots
  PROVE  Spec => []PackageBinds
<1>1. DeployInv => PackageBinds
  BY DEF DeployInv, IndexInv, PackageBinds, Accepts, B1, B4
<1> QED BY <1>1, DeployInvariant, PTL

\* A deploy ships the root it built, and no open obligation under a policy
\* that forbids them.
THEOREM DeploysShipTheirPolicy ==
  ASSUME OneDeployer, StemsNameRoots
  PROVE  Spec => []ShipsOwnPolicy
<1>1. DeployInv => ShipsOwnPolicy
  <2> SUFFICES ASSUME DeployInv, NEW d \in Deployers, job[d].pc = "shipped"
               PROVE  /\ job[d].shipped.lmod.module = Root(job[d].prog)
                      /\ job[d].shipped.lmod.ver = job[d].built[job[d].shipped.lmod.module]
                      /\ job[d].policy # "open-ok" =>
                           \A m \in DOMAIN job[d].built : <<m, job[d].built[m]>> \notin OpenAt
    BY DEF ShipsOwnPolicy
  <2>1. BuiltInv(job[d]) /\ StagedInv(job[d]) /\ WrittenInv(job[d])
    BY DEF DeployInv, JobInv
  <2>2. job[d].shipped.lmod = Own(job[d])
    BY <2>1 DEF StagedInv, WrittenInv
  <2> QED BY <2>1, <2>2 DEF BuiltInv, Own
<1> QED BY <1>1, DeployInvariant, PTL

\* After a deploy the package passes the audit, with the key too when the
\* deploy signed.
THEOREM ShippedPackagesPass ==
  ASSUME OneDeployer, StemsNameRoots
  PROVE  Spec => []ShippedIsAuditable
<1>1. DeployInv => ShippedIsAuditable
  <2> SUFFICES ASSUME DeployInv, NEW d \in Deployers, job[d].pc = "shipped"
               PROVE  Accepts(signed, signed.lmod, job[d].sign)
    BY DEF ShippedIsAuditable
  <2>1. StagedInv(job[d]) /\ WrittenInv(job[d])
    BY DEF DeployInv, JobInv
  <2>2. B4(job[d].sign) /\ B1(signed) /\ B2(signed.lmod) /\ B3
    BY <2>1 DEF StagedInv, WrittenInv, B1, B2, B3, B4
  <2> QED BY <2>2 DEF Accepts
<1> QED BY <1>1, DeployInvariant, PTL
=============================================================================
