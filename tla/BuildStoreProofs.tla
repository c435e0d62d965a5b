-------------------------- MODULE BuildStoreProofs --------------------------
(***************************************************************************)
(* Proofs about BuildStore, for any number of builders, programs and       *)
(* source files: what is linked, what is reported, and what a build that   *)
(* ran alone leaves for the next one.                                      *)
(***************************************************************************)
EXTENDS BuildStore, TLAPS

Pcs == {"idle", "done", "failed", "refused", "prepare", "lookup", "compile", "object", "obl",
        "echo", "insert", "inserting", "link", "prune", "save", "saving", "report"}
\* The places at which a build is with one of its modules, and after the last.
AtModule == {"lookup", "compile", "object", "obl", "echo", "insert", "inserting"}
AfterModules == {"link", "prune", "save", "saving", "report"}

\* Every build has the fields of Fresh.
Fields == {"pc", "prog", "elide", "env", "cache", "hash", "next", "image", "echoes", "decision",
           "overlapped", "settled"}
Shaped(j) == DOMAIN j = Fields /\ j.pc \in Pcs
Shape == builds = [b \in Builders |-> builds[b]] /\ \A b \in Builders : Shaped(builds[b])

\* What a build fixes when it starts, and when it has read the sources.
Fixed(j, k) == k.prog = j.prog /\ k.elide = j.elide /\ k.env = j.env /\ k.overlapped = j.overlapped
Read(j, k) == Fixed(j, k) /\ k.hash = j.hash /\ k.decision = j.decision
OthersKept(b) == \A c \in Builders : c # b => builds'[c] = builds[c]

\* A cache holds records, which a file that does not parse is not.
Records == [elide : BOOLEAN, fp : Fingerprints,
            object : {NameOf[f] : f \in Files} \X Fingerprints]
TornIsNoCache == Torn \notin SUBSET Records

\* All builds take the same elision decision: the flag is never given, say,
\* or always and every program is discharged.
Elided == \E e \in Requests, p \in Programs : e /\ p \in Discharged
OneDecision == \A e \in Requests, p \in Programs : (e /\ p \in Discharged) <=> Elided

\* langc made x of the sources with fingerprint fp, with the guards of the
\* decision if there is but one.
Made(x, fp) == x \in Outputs /\ x.from = fp /\ (OneDecision => x.elided = Elided)

TypesOf(b) == LET j == builds[b] IN
  /\ j.next \in Nat \ {0} /\ j.elide \in BOOLEAN /\ j.decision \in BOOLEAN
  /\ j.cache \subseteq Records

\* Where a build is, and that the sources are still those it hashed.
PlaceInv(b) == LET j == builds[b] IN
  /\ j.pc \notin Ended => j.prog \in Programs /\ j.elide \in Requests
  /\ j.pc = "prepare" => j.image = <<>> /\ j.next = 1
  /\ j.pc \in AtModule => j.next \in 1 .. Len(Graph[j.prog])
  /\ j.pc \in AfterModules => j.next = Len(Graph[j.prog]) + 1
  /\ j.pc \in AtModule \cup AfterModules =>
       j.hash = source /\ (OneDecision => j.decision = Elided)

\* An artifact is made of the sources its name says.
ObjectsInv == \A n \in DOMAIN objects : Made(objects[n], n[2])
SlotsInv == \A s \in DOMAIN slots : slots[s] = Empty \/ Made(slots[s], s[2])
ScratchInv(b) ==
  builds[b].pc \in {"object", "obl", "echo"} /\ scratch[b] # None =>
    Made(scratch[b].content, Fp(b))

\* An image, and the echoes reported of it, are made of the sources hashed.
ImageInv(b) == LET j == builds[b] IN
  /\ \A i \in DOMAIN j.image : Made(j.image[i], InputsOf(b, i))
  /\ j.pc \in (AfterModules \cup {"done"}) \ {"link"} => DOMAIN j.image = DOMAIN Graph[j.prog]
EchoInv(b) == LET j == builds[b] IN
  j.pc = "done" =>
    /\ DOMAIN j.echoes = DOMAIN Graph[j.prog]
    /\ \A i \in DOMAIN j.echoes : j.echoes[i] \in {Empty, None} \/ Made(j.echoes[i], InputsOf(b, i))

BuilderInv(b) == TypesOf(b) /\ PlaceInv(b) /\ ScratchInv(b) /\ ImageInv(b) /\ EchoInv(b)
FilesInv ==
  /\ source \in [Files -> Versions] /\ scratch \in [Builders -> ScratchDirs \cup {None}]
  /\ disk = Torn \/ disk \subseteq Records
  /\ ObjectsInv /\ SlotsInv
StoreInv == Shape /\ FilesInv /\ \A b \in Builders : BuilderInv(b)

\* What the next build looks for: object, verdicts and record of a module.
Stored(b, i) == LET n == Linked(b)[i] IN
  /\ n \in DOMAIN objects /\ SlotName(n, builds[b].env) \in DOMAIN slots
  /\ [elide |-> builds[b].elide, fp |-> n[2], object |-> n] \in builds[b].cache

\* A build that has run alone so far finds everything it has made.
SoloInv(b) == LET j == builds[b] IN
  ~j.overlapped =>
    /\ j.pc # "failed"
    /\ j.pc \notin Ended \/ j.settled => \A c \in Builders : c # b => builds[c].pc \in Ended
    /\ j.pc \in {"compile", "object", "obl", "echo"} => scratch[b] # None
    /\ j.pc \in AtModule => \A i \in 1 .. j.next - 1 : Stored(b, i)
    /\ j.pc \in {"obl", "echo", "insert", "inserting"} => Object(b) \in DOMAIN objects
    /\ j.pc \in {"insert", "inserting"} => Slot(b) \in DOMAIN slots
    /\ j.pc = "inserting" => Rec(b, File(b), Fp(b)) \in j.cache
    /\ j.pc \in {"inserting", "saving"} => disk = Torn
    /\ j.pc = "report" => disk = j.cache
    /\ j.pc = "done" /\ j.settled => disk = j.cache
    /\ j.pc \in AfterModules \/ (j.pc = "done" /\ j.settled) =>
         \A i \in DOMAIN Linked(b) : Stored(b, i)
SoloRuns == \A b \in Builders : SoloInv(b)

\* A step of one build leaves the record it writes, and the other builds.
LEMMA BuildSet ==
  ASSUME Shape, NEW b \in Builders, NEW r, Shaped(r), builds' = [builds EXCEPT ![b] = r]
  PROVE  Shape' /\ builds'[b] = r /\ OthersKept(b)
BY DEF Shape, OthersKept

\* A step that only moves the place.
LEMMA GotoFields ==
  ASSUME Shape, NEW b \in Builders, NEW pc \in Pcs, Goto(b, pc)
  PROVE  LET j == builds[b]
             k == builds'[b]
         IN  /\ Shape' /\ OthersKept(b) /\ k.pc = pc /\ Read(j, k)
             /\ k.next = j.next /\ k.cache = j.cache /\ k.image = j.image
             /\ k.echoes = j.echoes /\ k.settled = j.settled
<1> DEFINE r == [builds[b] EXCEPT !.pc = pc]
<1>1. Shaped(builds[b])
  BY DEF Shape
<1>2. /\ Shaped(r) /\ r.pc = pc /\ Read(builds[b], r) /\ r.next = builds[b].next
      /\ r.cache = builds[b].cache /\ r.image = builds[b].image /\ r.echoes = builds[b].echoes
      /\ r.settled = builds[b].settled
  BY <1>1 DEF Shaped, Fields, Read, Fixed
<1>3. builds' = [builds EXCEPT ![b] = r]
  BY DEF Goto
<1> HIDE DEF r
<1> QED BY <1>2, <1>3, BuildSet

\* The next module, or the linker.
LEMMA AdvanceFields ==
  ASSUME Shape, NEW b \in Builders, Advance(b)
  PROVE  LET j == builds[b]
             k == builds'[b]
         IN  /\ Shape' /\ OthersKept(b) /\ Read(j, k) /\ k.next = j.next + 1
             /\ k.pc = IF j.next = Len(Graph[j.prog]) THEN "link" ELSE "lookup"
             /\ k.cache = j.cache /\ k.image = j.image
             /\ k.echoes = j.echoes /\ k.settled = j.settled
<1> DEFINE q == IF builds[b].next = Len(Graph[builds[b].prog]) THEN "link" ELSE "lookup"
           r == [builds[b] EXCEPT !.next = @ + 1, !.pc = q]
<1>1. Shaped(builds[b]) /\ q \in Pcs
  BY DEF Shape, Pcs
<1>3. builds' = [builds EXCEPT ![b] = r]
  BY DEF Advance
<1> HIDE DEF q
<1>2. /\ Shaped(r) /\ r.pc = q /\ Read(builds[b], r) /\ r.next = builds[b].next + 1
      /\ r.cache = builds[b].cache /\ r.image = builds[b].image /\ r.echoes = builds[b].echoes
      /\ r.settled = builds[b].settled
  BY <1>1 DEF Shaped, Fields, Read, Fixed
<1> HIDE DEF r
<1> QED BY <1>2, <1>3, BuildSet DEF q

\* The cache is loaded and the sources are hashed.
LEMMA PrepareFields ==
  ASSUME Shape, NEW b \in Builders, Prepare(b)
  PROVE  LET j == builds[b]
             k == builds'[b]
         IN  /\ Shape' /\ OthersKept(b) /\ Fixed(j, k) /\ k.pc = "lookup" /\ k.cache = Loaded
             /\ k.hash = source /\ k.decision = ElisionDecision(b) /\ k.next = j.next
             /\ k.image = j.image /\ k.echoes = j.echoes /\ k.settled = j.settled
<1> DEFINE l == Loaded
           e == ElisionDecision(b)
           r == [builds[b] EXCEPT !.pc = "lookup", !.cache = l, !.hash = source, !.decision = e]
<1>1. Shaped(builds[b])
  BY DEF Shape
<1>3. builds' = [builds EXCEPT ![b] = r]
  BY DEF Prepare
<1> HIDE DEF l, e
<1>2. /\ Shaped(r) /\ r.pc = "lookup" /\ Fixed(builds[b], r) /\ r.next = builds[b].next
      /\ r.cache = l /\ r.hash = source /\ r.decision = e
      /\ r.image = builds[b].image /\ r.echoes = builds[b].echoes
      /\ r.settled = builds[b].settled
  BY <1>1 DEF Shaped, Fields, Fixed, Pcs
<1> HIDE DEF r
<1> QED BY <1>2, <1>3, BuildSet DEF l, e

\* A save begins with the record of the module, when there is one.
LEMMA SaveFields ==
  ASSUME Shape, NEW b \in Builders, SaveBegin(b)
  PROVE  LET j == builds[b]
             k == builds'[b]
         IN  /\ Shape' /\ OthersKept(b) /\ Read(j, k) /\ k.next = j.next
             /\ k.pc = IF j.pc = "insert" THEN "inserting" ELSE "saving"
             /\ k.cache = IF j.pc = "insert" THEN j.cache \cup {Rec(b, File(b), Fp(b))}
                          ELSE j.cache
             /\ k.image = j.image /\ k.echoes = j.echoes /\ k.settled = j.settled
<1> DEFINE c == IF builds[b].pc = "insert" THEN builds[b].cache \cup {Rec(b, File(b), Fp(b))}
                ELSE builds[b].cache
           q == IF builds[b].pc = "insert" THEN "inserting" ELSE "saving"
           r == [builds[b] EXCEPT !.cache = c, !.pc = q]
<1>1. Shaped(builds[b]) /\ q \in Pcs
  BY DEF Shape, Pcs
<1>3. builds' = [builds EXCEPT ![b] = r]
  BY DEF SaveBegin
<1> HIDE DEF c, q
<1>2. /\ Shaped(r) /\ r.pc = q /\ Read(builds[b], r) /\ r.next = builds[b].next
      /\ r.cache = c /\ r.image = builds[b].image /\ r.echoes = builds[b].echoes
      /\ r.settled = builds[b].settled
  BY <1>1 DEF Shaped, Fields, Read, Fixed
<1> HIDE DEF r
<1> QED BY <1>2, <1>3, BuildSet DEF c, q

\* The image is linked from the objects, or an object is missing.
LEMMA LinkFields ==
  ASSUME Shape, NEW b \in Builders, Link(b), Range(Linked(b)) \subseteq DOMAIN objects
  PROVE  LET j == builds[b]
             k == builds'[b]
         IN  /\ Shape' /\ OthersKept(b) /\ Read(j, k) /\ k.next = j.next /\ k.pc = "prune"
             /\ k.image = [i \in DOMAIN Linked(b) |-> objects[Linked(b)[i]]]
             /\ k.cache = j.cache /\ k.echoes = j.echoes /\ k.settled = j.settled
<1> DEFINE m == [i \in DOMAIN Linked(b) |-> objects[Linked(b)[i]]]
           r == [builds[b] EXCEPT !.pc = "prune", !.image = m]
<1>1. Shaped(builds[b])
  BY DEF Shape
<1>3. builds' = [builds EXCEPT ![b] = r]
  BY DEF Link
<1> HIDE DEF m
<1>2. /\ Shaped(r) /\ r.pc = "prune" /\ Read(builds[b], r) /\ r.next = builds[b].next
      /\ r.cache = builds[b].cache /\ r.image = m /\ r.echoes = builds[b].echoes
      /\ r.settled = builds[b].settled
  BY <1>1 DEF Shaped, Fields, Read, Fixed, Pcs
<1> HIDE DEF r
<1> QED BY <1>2, <1>3, BuildSet DEF m

\* The cache keeps the records whose object is there.
LEMMA PruneFields ==
  ASSUME Shape, NEW b \in Builders, Prune(b)
  PROVE  LET j == builds[b]
             k == builds'[b]
         IN  /\ Shape' /\ OthersKept(b) /\ Read(j, k) /\ k.next = j.next /\ k.pc = "save"
             /\ k.cache = Present(j.cache, DOMAIN objects \ DeadObjects(b))
             /\ k.image = j.image /\ k.echoes = j.echoes /\ k.settled = j.settled
<1> DEFINE c == Present(builds[b].cache, DOMAIN objects \ DeadObjects(b))
           r == [builds[b] EXCEPT !.pc = "save", !.cache = c]
<1>1. Shaped(builds[b])
  BY DEF Shape
<1>3. builds' = [builds EXCEPT ![b] = r]
  BY DEF Prune
<1> HIDE DEF c
<1>2. /\ Shaped(r) /\ r.pc = "save" /\ Read(builds[b], r) /\ r.next = builds[b].next
      /\ r.cache = c /\ r.image = builds[b].image /\ r.echoes = builds[b].echoes
      /\ r.settled = builds[b].settled
  BY <1>1 DEF Shaped, Fields, Read, Fixed, Pcs
<1> HIDE DEF r
<1> QED BY <1>2, <1>3, BuildSet DEF c
-----------------------------------------------------------------------------
\* The files of a program.
LEMMA GraphFacts ==
  ASSUME NEW p \in Programs
  PROVE  /\ Len(Graph[p]) \in Nat \ {0} /\ DOMAIN Graph[p] = 1 .. Len(Graph[p])
         /\ \A i \in 1 .. Len(Graph[p]) : Graph[p][i] \in Files
BY GraphAssumption

\* A fingerprint of sources.
LEMMA FingerprintType ==
  ASSUME NEW f \in Files, NEW h \in [Files -> Versions]
  PROVE  InputsFp(f, h) \in Fingerprints
<1>1. <<f, h[f]>> \in Files \X Versions
  OBVIOUS
<1>2. TransitiveHashes(f, h) \in SUBSET (Files \X Versions)
  <2>1. Imports[f] \subseteq Files
    BY GraphAssumption
  <2>2. \A g \in Imports[f] : <<g, h[g]>> \in Files \X Versions
    BY <2>1
  <2> QED BY <2>2, Zenon DEF TransitiveHashes
<1> DEFINE o == <<f, h[f]>>
           t == TransitiveHashes(f, h)
<1>3. InputsFp(f, h) = [own |-> o, deps |-> t]
  BY DEF InputsFp
<1> HIDE DEF o, t
<1> QED BY <1>1, <1>2, <1>3 DEF Fingerprints, o, t

\* The object of a module of the graph is named after its inputs, and the
\* object of the module at hand is one of them.
LEMMA LinkedFacts ==
  ASSUME NEW b \in Builders, builds[b].prog \in Programs
  PROVE  /\ DOMAIN Linked(b) = DOMAIN Graph[builds[b].prog]
         /\ \A i \in DOMAIN Graph[builds[b].prog] :
              Linked(b)[i] = <<NameOf[Graph[builds[b].prog][i]], InputsOf(b, i)>>
         /\ Fp(b) = InputsOf(b, builds[b].next)
         /\ Object(b) = <<NameOf[File(b)], Fp(b)>> /\ File(b) = Graph[builds[b].prog][builds[b].next]
         /\ Slot(b) = <<Object(b)[1], Object(b)[2], builds[b].env>> /\ Slot(b)[2] = Fp(b)
         /\ Object(b)[2] = Fp(b)
BY DEF Linked, ObjectName, InputsFp, InputsOf, Fp, File, Object, Slot, SlotName

\* The fingerprint of the module at hand.
LEMMA FpType ==
  ASSUME StoreInv, NEW b \in Builders, builds[b].pc \in AtModule
  PROVE  /\ builds[b].prog \in Programs /\ File(b) \in Files /\ Fp(b) \in Fingerprints
         /\ builds[b].hash = source /\ Fp(b) = InputsFp(File(b), source)
         /\ Rec(b, File(b), Fp(b)) \in Records
<1>1. /\ builds[b].prog \in Programs /\ builds[b].next \in 1 .. Len(Graph[builds[b].prog])
      /\ builds[b].hash = source /\ source \in [Files -> Versions]
      /\ builds[b].elide \in BOOLEAN
  BY DEF StoreInv, BuilderInv, PlaceInv, TypesOf, FilesInv, AtModule, Ended
<1>2. File(b) \in Files
  BY <1>1, GraphFacts DEF File
<1>3. Fp(b) = InputsFp(File(b), source) /\ Fp(b) \in Fingerprints
  BY <1>1, <1>2, FingerprintType DEF Fp
<1>4. Rec(b, File(b), Fp(b)) \in Records
  <2>1. ObjectName(File(b), Fp(b)) \in {NameOf[f] : f \in Files} \X Fingerprints
    BY <1>2, <1>3 DEF ObjectName
  <2> HIDE DEF ObjectName
  <2> QED BY <1>1, <1>3, <2>1 DEF Rec, Records
<1> QED BY <1>1, <1>2, <1>3, <1>4

\* A build that does not step, and whose directory stays or is removed.
LEMMA OtherBuilder ==
  ASSUME StoreInv, NEW c \in Builders, builds'[c] = builds[c], source' = source,
         scratch'[c] \in {scratch[c], None}
  PROVE  BuilderInv(c)'
<1>1. BuilderInv(c)
  BY DEF StoreInv
<1>2. TypesOf(c)' /\ PlaceInv(c)'
  BY <1>1 DEF BuilderInv, TypesOf, PlaceInv
<1>3. ScratchInv(c)'
  BY <1>1 DEF BuilderInv, ScratchInv, Fp, File
<1>4. ImageInv(c)' /\ EchoInv(c)'
  BY <1>1 DEF BuilderInv, ImageInv, EchoInv, InputsOf
<1> QED BY <1>2, <1>3, <1>4 DEF BuilderInv

\* The step of one build preserves what holds of all, if it preserves what
\* holds of it and of the files.
LEMMA OneBuilder ==
  ASSUME StoreInv, NEW b \in Builders, Shape', OthersKept(b), source' = source,
         \A c \in Builders : c # b => scratch'[c] \in {scratch[c], None},
         FilesInv', BuilderInv(b)'
  PROVE  StoreInv'
<1>1. ASSUME NEW c \in Builders, c # b PROVE BuilderInv(c)'
  BY <1>1, OtherBuilder DEF OthersKept
<1> QED BY <1>1 DEF StoreInv

\* A step that changes neither files nor directories.
LEMMA FilesKept ==
  ASSUME FilesInv, UNCHANGED <<source, objects, slots, scratch, disk>>
  PROVE  FilesInv'
BY DEF FilesInv, ObjectsInv, SlotsInv

\* The elision decision of a build that has read the sources.
LEMMA PrepareStep ==
  ASSUME StoreInv, NEW b \in Builders, Prepare(b)
  PROVE  StoreInv'
<1> DEFINE j == builds[b]
           k == builds'[b]
<1>1. /\ j.pc = "prepare" /\ Shape /\ FilesInv /\ BuilderInv(b)
      /\ UNCHANGED <<source, objects, slots, scratch, disk>>
  BY DEF Prepare, StoreInv, files
<1>2. /\ Shape' /\ OthersKept(b) /\ Fixed(j, k) /\ k.pc = "lookup" /\ k.cache = Loaded
      /\ k.hash = source /\ k.decision = ElisionDecision(b) /\ k.next = j.next
      /\ k.image = j.image /\ k.echoes = j.echoes /\ k.settled = j.settled
  BY <1>1, PrepareFields
<1>3. j.prog \in Programs /\ j.elide \in Requests /\ j.image = <<>> /\ j.next = 1
  BY <1>1 DEF BuilderInv, PlaceInv, Ended
<1>4. ElisionDecision(b) \in BOOLEAN /\ (OneDecision => ElisionDecision(b) = Elided)
  <2>1. j.elide \in BOOLEAN /\ Elided \in BOOLEAN
    BY <1>1, Zenon DEF BuilderInv, TypesOf, Elided
  <2>2. ElisionDecision(b) \in BOOLEAN
    BY <2>1, Zenon DEF ElisionDecision
  <2>3. OneDecision => (ElisionDecision(b) <=> Elided)
    BY <1>3 DEF OneDecision, ElisionDecision
  <2> QED BY <2>1, <2>2, <2>3, Zenon
<1>5. Loaded \subseteq Records
  BY <1>1 DEF Loaded, FilesInv
<1>6. TypesOf(b)' /\ PlaceInv(b)'
  <2>1. TypesOf(b)'
    BY <1>1, <1>2, <1>4, <1>5 DEF BuilderInv, TypesOf, Fixed
  <2>2. k.next \in 1 .. Len(Graph[k.prog])
    BY <1>2, <1>3, GraphFacts DEF Fixed
  <2> QED
    BY <1>1, <1>2, <1>3, <1>4, <2>1, <2>2 DEF PlaceInv, Fixed, AtModule, AfterModules, Ended
<1>7. ScratchInv(b)' /\ ImageInv(b)' /\ EchoInv(b)'
  <2>1. DOMAIN k.image = {}
    BY <1>2, <1>3
  <2> QED BY <1>2, <2>1 DEF ScratchInv, ImageInv, EchoInv, AfterModules
<1> QED BY <1>1, <1>2, <1>6, <1>7, FilesKept, OneBuilder DEF BuilderInv

\* Removing files from a directory.
LEMMA DropFacts ==
  ASSUME NEW fun, NEW gone
  PROVE  /\ DOMAIN Drop(fun, gone) = DOMAIN fun \ gone
         /\ \A n \in DOMAIN fun \ gone : Drop(fun, gone)[n] = fun[n]
<1>1. DOMAIN fun \cap (DOMAIN fun \ gone) = DOMAIN fun \ gone
  OBVIOUS
<1> QED BY <1>1 DEF Drop, Restrict

\* A build that stays with its module, or stays behind the last, keeps what
\* holds of it.
LEMMA SameModule ==
  ASSUME NEW b \in Builders, BuilderInv(b), source' = source, Read(builds[b], builds'[b]),
         builds'[b].next = builds[b].next, builds'[b].image = builds[b].image,
         builds'[b].cache \subseteq Records, builds[b].pc \notin Ended,
         builds'[b].pc \notin {"prepare", "done"},
         builds'[b].pc \in AtModule => builds[b].pc \in AtModule,
         builds'[b].pc \in AfterModules => builds[b].pc \in AfterModules,
         builds'[b].pc \in AfterModules \ {"link"} => builds[b].pc \in AfterModules \ {"link"}
  PROVE  TypesOf(b)' /\ PlaceInv(b)' /\ ImageInv(b)' /\ EchoInv(b)'
<1>1. TypesOf(b)' /\ PlaceInv(b)'
  BY DEF BuilderInv, TypesOf, PlaceInv, Read, Fixed
<1>2. ImageInv(b)' /\ EchoInv(b)'
  BY DEF BuilderInv, ImageInv, EchoInv, Read, Fixed, InputsOf
<1> QED BY <1>1, <1>2

\* A build that goes on to the next module, or to the linker.
LEMMA NextModule ==
  ASSUME NEW b \in Builders, StoreInv, source' = source, Advance(b), builds[b].pc \in AtModule
  PROVE  Shape' /\ OthersKept(b) /\ BuilderInv(b)'
<1> DEFINE j == builds[b]
           k == builds'[b]
<1>1. Shape /\ BuilderInv(b)
  BY DEF StoreInv
<1>2. /\ Shape' /\ OthersKept(b) /\ Read(j, k) /\ k.next = j.next + 1
      /\ k.pc = IF j.next = Len(Graph[j.prog]) THEN "link" ELSE "lookup"
      /\ k.cache = j.cache /\ k.image = j.image /\ k.echoes = j.echoes
  BY <1>1, AdvanceFields
<1>3. /\ j.prog \in Programs /\ j.elide \in Requests /\ j.next \in 1 .. Len(Graph[j.prog])
      /\ j.hash = source /\ (OneDecision => j.decision = Elided)
  BY <1>1 DEF BuilderInv, PlaceInv, AtModule, Ended
<1>4. Len(Graph[j.prog]) \in Nat
  BY <1>3, GraphFacts
<1>5. TypesOf(b)'
  BY <1>1, <1>2 DEF BuilderInv, TypesOf, Read, Fixed
<1>6. PlaceInv(b)'
  <2>1. CASE j.next = Len(Graph[j.prog])
    BY <1>2, <1>3, <2>1 DEF PlaceInv, Read, Fixed, AtModule, AfterModules, Ended
  <2>2. CASE j.next # Len(Graph[j.prog])
    <3>1. j.next + 1 \in 1 .. Len(Graph[j.prog])
      BY <1>3, <1>4, <2>2
    <3> QED BY <1>2, <1>3, <2>2, <3>1 DEF PlaceInv, Read, Fixed, AtModule, AfterModules, Ended
  <2> QED BY <2>1, <2>2
<1>7. ScratchInv(b)' /\ ImageInv(b)' /\ EchoInv(b)'
  BY <1>1, <1>2 DEF BuilderInv, ScratchInv, ImageInv, EchoInv, Read, Fixed, InputsOf, AfterModules
<1> QED BY <1>2, <1>5, <1>6, <1>7 DEF BuilderInv

\* A module found in the cache.
LEMMA CachedStep ==
  ASSUME StoreInv, NEW b \in Builders, UseCached(b)
  PROVE  StoreInv'
<1>1. /\ builds[b].pc \in AtModule /\ Advance(b) /\ FilesInv
      /\ UNCHANGED <<source, objects, slots, scratch, disk>>
  BY DEF UseCached, StoreInv, files, AtModule
<1> QED BY <1>1, NextModule, FilesKept, OneBuilder

\* A module not in the cache: the directory is made, and the slot if missing.
LEMMA MissStep ==
  ASSUME StoreInv, NEW b \in Builders, Miss(b)
  PROVE  StoreInv'
<1> DEFINE r == [content |-> None, dir |-> {}, out |-> {}]
<1>1. /\ builds[b].pc = "lookup" /\ Goto(b, "compile") /\ Shape /\ FilesInv /\ BuilderInv(b)
      /\ scratch' = [scratch EXCEPT ![b] = r] /\ UNCHANGED <<source, objects, disk>>
  BY DEF Miss, StoreInv
<1>2. /\ Shape' /\ OthersKept(b) /\ builds'[b].pc = "compile" /\ Read(builds[b], builds'[b])
      /\ builds'[b].next = builds[b].next /\ builds'[b].cache = builds[b].cache
      /\ builds'[b].image = builds[b].image
  BY <1>1, GotoFields DEF Pcs
<1>3. r \in ScratchDirs
  BY DEF ScratchDirs
<1> HIDE DEF r
<1>4. /\ scratch' \in [Builders -> ScratchDirs \cup {None}]
      /\ \A c \in Builders : c # b => scratch'[c] = scratch[c]
  BY <1>1, <1>3 DEF FilesInv
<1>5. SlotsInv'
  <2>1. CASE slots' = slots
    BY <1>1, <2>1 DEF FilesInv, SlotsInv
  <2>2. CASE slots' = Put(slots, Slot(b), Empty)
    <3>1. DOMAIN slots' = DOMAIN slots \cup {Slot(b)} /\ slots'[Slot(b)] = Empty
      BY <2>2 DEF Put
    <3>2. \A s \in DOMAIN slots : s # Slot(b) => slots'[s] = slots[s]
      BY <2>2 DEF Put
    <3> QED BY <1>1, <3>1, <3>2 DEF FilesInv, SlotsInv
  <2> QED BY <2>1, <2>2 DEF Miss, EnsureSlot
<1>6. FilesInv'
  BY <1>1, <1>4, <1>5 DEF FilesInv, ObjectsInv
<1>7. ScratchInv(b)'
  BY <1>2 DEF ScratchInv
<1>8. TypesOf(b)' /\ PlaceInv(b)' /\ ImageInv(b)' /\ EchoInv(b)'
  BY <1>1, <1>2, SameModule DEF AtModule, AfterModules, Ended, BuilderInv, TypesOf
<1> QED BY <1>1, <1>2, <1>4, <1>6, <1>7, <1>8, OneBuilder DEF BuilderInv

\* langc compiles the sources, which are still those the build hashed.
LEMMA CompileStep ==
  ASSUME StoreInv, NEW b \in Builders, Compile(b)
  PROVE  StoreInv'
<1> DEFINE x == [from |-> InputsFp(File(b), source), elided |-> builds[b].decision]
           r == [content |-> x, dir |-> {}, out |-> {}]
<1>1. /\ builds[b].pc = "compile" /\ Goto(b, "object") /\ Shape /\ FilesInv /\ BuilderInv(b)
      /\ scratch' = [scratch EXCEPT ![b] = r] /\ UNCHANGED <<source, objects, slots, disk>>
  BY DEF Compile, StoreInv
<1>2. /\ Shape' /\ OthersKept(b) /\ builds'[b].pc = "object" /\ Read(builds[b], builds'[b])
      /\ builds'[b].next = builds[b].next /\ builds'[b].cache = builds[b].cache
      /\ builds'[b].image = builds[b].image
  BY <1>1, GotoFields DEF Pcs
<1>3. /\ Fp(b) \in Fingerprints /\ Fp(b) = InputsFp(File(b), source)
      /\ builds[b].decision \in BOOLEAN /\ (OneDecision => builds[b].decision = Elided)
  BY <1>1, FpType DEF BuilderInv, TypesOf, PlaceInv, AtModule
<1>4. Made(x, Fp(b))
  <2>1. x = [from |-> Fp(b), elided |-> builds[b].decision]
    BY <1>3
  <2> HIDE DEF x
  <2> QED BY <1>3, <2>1 DEF Made, Outputs
<1> HIDE DEF x
<1>5. r \in ScratchDirs /\ r.content = x
  BY <1>4 DEF ScratchDirs, Made
<1> HIDE DEF r
<1>6. /\ scratch' \in [Builders -> ScratchDirs \cup {None}] /\ scratch'[b] = r
      /\ \A c \in Builders : c # b => scratch'[c] = scratch[c]
  BY <1>1, <1>5 DEF FilesInv
<1>7. FilesInv'
  BY <1>1, <1>6 DEF FilesInv, ObjectsInv, SlotsInv
<1>8. ScratchInv(b)'
  <2>1. Fp(b)' = Fp(b)
    BY <1>2 DEF Fp, File, Read, Fixed
  <2> QED BY <1>4, <1>5, <1>6, <2>1 DEF ScratchInv
<1>9. TypesOf(b)' /\ PlaceInv(b)' /\ ImageInv(b)' /\ EchoInv(b)'
  BY <1>1, <1>2, SameModule DEF AtModule, AfterModules, Ended, BuilderInv, TypesOf
<1> QED BY <1>1, <1>2, <1>6, <1>7, <1>8, <1>9, OneBuilder DEF BuilderInv

\* A build that stops without a result.
LEMMA StoppedStep ==
  ASSUME StoreInv, NEW b \in Builders, NEW pc \in {"failed", "refused"}, Goto(b, pc),
         builds[b].pc \notin Ended, UNCHANGED <<source, objects, slots, disk>>,
         scratch' = scratch \/ scratch' = [scratch EXCEPT ![b] = None]
  PROVE  StoreInv'
<1>1. Shape /\ FilesInv /\ BuilderInv(b)
  BY DEF StoreInv
<1>2. /\ Shape' /\ OthersKept(b) /\ builds'[b].pc = pc /\ Read(builds[b], builds'[b])
      /\ builds'[b].next = builds[b].next /\ builds'[b].cache = builds[b].cache
      /\ builds'[b].image = builds[b].image
  BY <1>1, GotoFields DEF Pcs
<1>3. /\ scratch' \in [Builders -> ScratchDirs \cup {None}]
      /\ \A c \in Builders : c # b => scratch'[c] = scratch[c]
  BY <1>1 DEF FilesInv
<1>4. FilesInv'
  BY <1>1, <1>3 DEF FilesInv, ObjectsInv, SlotsInv
<1>5. ScratchInv(b)'
  BY <1>2 DEF ScratchInv
<1>6. TypesOf(b)' /\ PlaceInv(b)' /\ ImageInv(b)' /\ EchoInv(b)'
  BY <1>1, <1>2, SameModule DEF AtModule, AfterModules, Ended, BuilderInv, TypesOf
<1> QED BY <1>1, <1>2, <1>3, <1>4, <1>5, <1>6, OneBuilder DEF BuilderInv

\* A rename out of the directory of b leaves what else is in it.
ScratchKept(b) ==
  /\ scratch' \in [Builders -> ScratchDirs \cup {None}]
  /\ scratch'[b].content = scratch[b].content /\ scratch'[b] # None
  /\ \A c \in Builders : c # b => scratch'[c] = scratch[c]

\* A rename out of a directory leaves what else is in it.
\* A rename out of a directory leaves what else is in it.
LEMMA ScratchTouched ==
  ASSUME FilesInv, NEW b \in Builders, scratch[b] # None,
         scratch' = [scratch EXCEPT ![b].dir = {}]
  PROVE  ScratchKept(b)
<1> DEFINE x == scratch[b]
           r == [x EXCEPT !.dir = {}]
<1>1. x \in ScratchDirs /\ scratch \in [Builders -> ScratchDirs \cup {None}]
  BY DEF FilesInv
<1>2. r \in ScratchDirs /\ r.content = x.content
  BY <1>1 DEF ScratchDirs
<1>3. r # None
  BY <1>2, StoreAssumption
<1>4. scratch' = [scratch EXCEPT ![b] = r]
  OBVIOUS
<1> HIDE DEF r
<1> QED BY <1>1, <1>2, <1>3, <1>4 DEF ScratchKept

\* The inputs of the module at hand stay.
LEMMA SameFp ==
  ASSUME NEW b \in Builders, Read(builds[b], builds'[b]), builds'[b].next = builds[b].next
  PROVE  Fp(b)' = Fp(b)
BY DEF Fp, File, Read, Fixed

\* An artifact of the scratch directory is renamed into the output directory.
LEMMA RehomeObjectStep ==
  ASSUME StoreInv, NEW b \in Builders, RehomeObject(b)
  PROVE  StoreInv'
<1>1. /\ builds[b].pc = "object" /\ Goto(b, "obl") /\ Shape /\ FilesInv /\ BuilderInv(b)
      /\ scratch[b] # None /\ UNCHANGED <<source, slots, disk>>
      /\ scratch' = [scratch EXCEPT ![b].dir = {}]
      /\ objects' = Put(objects, Object(b), scratch[b].content)
  BY DEF RehomeObject, StoreInv
<1>2. /\ Shape' /\ OthersKept(b) /\ builds'[b].pc = "obl" /\ Read(builds[b], builds'[b])
      /\ builds'[b].next = builds[b].next /\ builds'[b].cache = builds[b].cache
      /\ builds'[b].image = builds[b].image
  BY <1>1, GotoFields DEF Pcs
<1>3. Made(scratch[b].content, Fp(b)) /\ Object(b)[2] = Fp(b)
  BY <1>1, FpType, LinkedFacts DEF BuilderInv, ScratchInv, AtModule
<1>4. ScratchKept(b)
  BY <1>1, ScratchTouched
<1>5. ObjectsInv'
  <2>1. DOMAIN objects' = DOMAIN objects \cup {Object(b)} /\ objects'[Object(b)] = scratch[b].content
    BY <1>1 DEF Put
  <2>2. \A n \in DOMAIN objects : n # Object(b) => objects'[n] = objects[n]
    BY <1>1 DEF Put
  <2> QED BY <1>1, <1>3, <2>1, <2>2 DEF FilesInv, ObjectsInv
<1>6. FilesInv'
  BY <1>1, <1>4, <1>5 DEF FilesInv, SlotsInv, ScratchKept
<1>7. ScratchInv(b)'
  BY <1>2, <1>3, <1>4, SameFp DEF ScratchInv, ScratchKept
<1>8. TypesOf(b)' /\ PlaceInv(b)' /\ ImageInv(b)' /\ EchoInv(b)'
  BY <1>1, <1>2, SameModule DEF AtModule, AfterModules, Ended, BuilderInv, TypesOf
<1> QED BY <1>1, <1>2, <1>4, <1>6, <1>7, <1>8, OneBuilder DEF BuilderInv, ScratchKept

\* The obligations are renamed next.
LEMMA RehomeOblStep ==
  ASSUME StoreInv, NEW b \in Builders, RehomeObl(b)
  PROVE  StoreInv'
<1>1. /\ builds[b].pc = "obl" /\ Goto(b, "echo") /\ Shape /\ FilesInv /\ BuilderInv(b)
      /\ scratch[b] # None /\ UNCHANGED <<source, objects, slots, disk>>
      /\ scratch' = [scratch EXCEPT ![b].dir = {}]
  BY DEF RehomeObl, StoreInv
<1>2. /\ Shape' /\ OthersKept(b) /\ builds'[b].pc = "echo" /\ Read(builds[b], builds'[b])
      /\ builds'[b].next = builds[b].next /\ builds'[b].cache = builds[b].cache
      /\ builds'[b].image = builds[b].image
  BY <1>1, GotoFields DEF Pcs
<1>3. Made(scratch[b].content, Fp(b))
  BY <1>1 DEF BuilderInv, ScratchInv
<1>4. ScratchKept(b)
  BY <1>1, ScratchTouched
<1>5. FilesInv'
  BY <1>1, <1>4 DEF FilesInv, ObjectsInv, SlotsInv, ScratchKept
<1>6. ScratchInv(b)'
  BY <1>2, <1>3, <1>4, SameFp DEF ScratchInv, ScratchKept
<1>7. TypesOf(b)' /\ PlaceInv(b)' /\ ImageInv(b)' /\ EchoInv(b)'
  BY <1>1, <1>2, SameModule DEF AtModule, AfterModules, Ended, BuilderInv, TypesOf
<1> QED BY <1>1, <1>2, <1>4, <1>5, <1>6, <1>7, OneBuilder DEF BuilderInv, ScratchKept

\* The echo replaces the slot, and the directory is removed.
LEMMA RehomeEchoStep ==
  ASSUME StoreInv, NEW b \in Builders, RehomeEcho(b)
  PROVE  StoreInv'
<1>1. /\ builds[b].pc = "echo" /\ Goto(b, "insert") /\ Shape /\ FilesInv /\ BuilderInv(b)
      /\ scratch[b] # None /\ UNCHANGED <<source, objects, disk>>
      /\ scratch' = [scratch EXCEPT ![b] = None]
      /\ slots' = Put(slots, Slot(b), scratch[b].content)
  BY DEF RehomeEcho, StoreInv
<1>2. /\ Shape' /\ OthersKept(b) /\ builds'[b].pc = "insert" /\ Read(builds[b], builds'[b])
      /\ builds'[b].next = builds[b].next /\ builds'[b].cache = builds[b].cache
      /\ builds'[b].image = builds[b].image
  BY <1>1, GotoFields DEF Pcs
<1>3. Made(scratch[b].content, Fp(b)) /\ Slot(b)[2] = Fp(b)
  BY <1>1, FpType, LinkedFacts DEF BuilderInv, ScratchInv, AtModule
<1>4. /\ scratch' \in [Builders -> ScratchDirs \cup {None}]
      /\ \A c \in Builders : c # b => scratch'[c] = scratch[c]
  BY <1>1 DEF FilesInv
<1>5. SlotsInv'
  <2>1. DOMAIN slots' = DOMAIN slots \cup {Slot(b)} /\ slots'[Slot(b)] = scratch[b].content
    BY <1>1 DEF Put
  <2>2. \A n \in DOMAIN slots : n # Slot(b) => slots'[n] = slots[n]
    BY <1>1 DEF Put
  <2> QED BY <1>1, <1>3, <2>1, <2>2 DEF FilesInv, SlotsInv
<1>6. FilesInv'
  BY <1>1, <1>4, <1>5 DEF FilesInv, ObjectsInv
<1>7. ScratchInv(b)'
  BY <1>2 DEF ScratchInv
<1>8. TypesOf(b)' /\ PlaceInv(b)' /\ ImageInv(b)' /\ EchoInv(b)'
  BY <1>1, <1>2, SameModule DEF AtModule, AfterModules, Ended, BuilderInv, TypesOf
<1> QED BY <1>1, <1>2, <1>4, <1>6, <1>7, <1>8, OneBuilder DEF BuilderInv

\* A save truncates build.json.
LEMMA SaveBeginStep ==
  ASSUME StoreInv, NEW b \in Builders, SaveBegin(b)
  PROVE  StoreInv'
<1>1. /\ builds[b].pc \in {"insert", "save"} /\ disk' = Torn /\ Shape /\ FilesInv
      /\ BuilderInv(b) /\ UNCHANGED <<source, objects, slots, scratch>>
  BY DEF SaveBegin, StoreInv
<1> DEFINE j == builds[b]
           k == builds'[b]
<1>2. /\ Shape' /\ OthersKept(b) /\ Read(j, k) /\ k.next = j.next /\ k.image = j.image
      /\ k.pc = IF j.pc = "insert" THEN "inserting" ELSE "saving"
      /\ k.cache = IF j.pc = "insert" THEN j.cache \cup {Rec(b, File(b), Fp(b))} ELSE j.cache
  BY <1>1, SaveFields
<1>3. builds'[b].cache \subseteq Records
  <2>1. builds[b].pc = "insert" => Rec(b, File(b), Fp(b)) \in Records
    BY FpType DEF AtModule
  <2> QED BY <1>1, <1>2, <2>1 DEF BuilderInv, TypesOf
<1>4. FilesInv'
  BY <1>1 DEF FilesInv, ObjectsInv, SlotsInv
<1>5. ScratchInv(b)'
  BY <1>2 DEF ScratchInv
<1>6. TypesOf(b)' /\ PlaceInv(b)' /\ ImageInv(b)' /\ EchoInv(b)'
  <2>1. \/ j.pc = "insert" /\ k.pc = "inserting"
        \/ j.pc = "save" /\ k.pc = "saving"
    BY <1>1, <1>2
  <2> QED
    BY <1>1, <1>2, <1>3, <2>1, SameModule DEF AtModule, AfterModules, Ended
<1> QED BY <1>1, <1>2, <1>4, <1>5, <1>6, OneBuilder DEF BuilderInv

\* The bytes of a save arrive, over what is there.
LEMMA SaveEndStep ==
  ASSUME StoreInv, NEW b \in Builders, SaveEnd(b)
  PROVE  StoreInv'
<1>1. /\ builds[b].pc \in {"inserting", "saving"} /\ disk' \in {builds[b].cache, Torn} /\ Shape
      /\ FilesInv /\ BuilderInv(b) /\ UNCHANGED <<source, objects, slots, scratch>>
  BY DEF SaveEnd, StoreInv
<1>2. FilesInv'
  BY <1>1 DEF FilesInv, ObjectsInv, SlotsInv, BuilderInv, TypesOf
<1>3. CASE builds[b].pc = "inserting"
  <2>1. Advance(b) /\ builds[b].pc \in AtModule
    BY <1>3 DEF SaveEnd, AtModule
  <2> QED BY <1>1, <1>2, <2>1, NextModule, OneBuilder
<1>4. CASE builds[b].pc = "saving"
  <2>1. Goto(b, "report")
    BY <1>4 DEF SaveEnd
  <2>2. /\ Shape' /\ OthersKept(b) /\ builds'[b].pc = "report" /\ Read(builds[b], builds'[b])
        /\ builds'[b].next = builds[b].next /\ builds'[b].cache = builds[b].cache
        /\ builds'[b].image = builds[b].image
    BY <1>1, <2>1, GotoFields DEF Pcs
  <2>3. ScratchInv(b)'
    BY <2>2 DEF ScratchInv
  <2>4. TypesOf(b)' /\ PlaceInv(b)' /\ ImageInv(b)' /\ EchoInv(b)'
    BY <1>1, <1>4, <2>2, SameModule DEF AtModule, AfterModules, Ended, BuilderInv, TypesOf
  <2> QED BY <1>1, <1>2, <2>2, <2>3, <2>4, OneBuilder DEF BuilderInv
<1> QED BY <1>1, <1>3, <1>4

\* The image is linked, or a module object is missing.
LEMMA LinkStep ==
  ASSUME StoreInv, NEW b \in Builders, Link(b)
  PROVE  StoreInv'
<1> DEFINE j == builds[b]
           k == builds'[b]
<1>1. /\ j.pc = "link" /\ Shape /\ FilesInv /\ BuilderInv(b)
      /\ UNCHANGED <<source, objects, slots, disk, scratch>>
  BY DEF Link, StoreInv, files
<1>2. CASE ~(Range(Linked(b)) \subseteq DOMAIN objects)
  BY <1>1, <1>2, StoppedStep DEF Link, Ended
<1>3. CASE Range(Linked(b)) \subseteq DOMAIN objects
  <2>1. /\ Shape' /\ OthersKept(b) /\ Read(j, k) /\ k.next = j.next /\ k.pc = "prune"
        /\ k.image = [i \in DOMAIN Linked(b) |-> objects[Linked(b)[i]]]
        /\ k.cache = j.cache
    BY <1>1, <1>3, LinkFields
  <2>2. j.prog \in Programs
    BY <1>1 DEF BuilderInv, PlaceInv, Ended
  <2>3. DOMAIN k.image = DOMAIN Graph[j.prog]
    BY <2>1, <2>2, LinkedFacts
  <2>4. ASSUME NEW i \in DOMAIN k.image PROVE Made(k.image[i], InputsOf(b, i)')
    <3>1. i \in DOMAIN Linked(b) /\ i \in DOMAIN Graph[j.prog] /\ k.image[i] = objects[Linked(b)[i]]
      BY <2>1, <2>2, <2>4, LinkedFacts
    <3>2. Linked(b)[i] \in DOMAIN objects
      BY <1>3, <3>1 DEF Range
    <3>3. Linked(b)[i][2] = InputsOf(b, i)
      BY <2>2, <3>1, LinkedFacts
    <3>4. InputsOf(b, i)' = InputsOf(b, i)
      BY <2>1 DEF Read, Fixed, InputsOf
    <3> QED BY <1>1, <3>1, <3>2, <3>3, <3>4 DEF FilesInv, ObjectsInv
  <2>5. TypesOf(b)' /\ PlaceInv(b)'
    BY <1>1, <2>1 DEF BuilderInv, TypesOf, PlaceInv, Read, Fixed, AtModule, AfterModules, Ended
  <2>6. ImageInv(b)'
    BY <2>1, <2>3, <2>4 DEF ImageInv, Read, Fixed
  <2>7. ScratchInv(b)' /\ EchoInv(b)'
    BY <2>1 DEF ScratchInv, EchoInv
  <2> QED BY <1>1, <2>1, <2>5, <2>6, <2>7, FilesKept, OneBuilder DEF BuilderInv
<1> QED BY <1>2, <1>3

\* Pruning removes artifacts, and directories of other builds.
LEMMA PruneStep ==
  ASSUME StoreInv, NEW b \in Builders, Prune(b)
  PROVE  StoreInv'
<1> DEFINE j == builds[b]
           k == builds'[b]
<1>1. /\ j.pc = "prune" /\ Shape /\ FilesInv /\ BuilderInv(b) /\ UNCHANGED <<source, disk>>
      /\ objects' = Drop(objects, DeadObjects(b)) /\ slots' = Drop(slots, DeadSlots(b))
  BY DEF Prune, StoreInv
<1>2. /\ Shape' /\ OthersKept(b) /\ Read(j, k) /\ k.next = j.next /\ k.pc = "save"
      /\ k.cache = Present(j.cache, DOMAIN objects \ DeadObjects(b)) /\ k.image = j.image
  BY <1>1, PruneFields
<1>3. /\ \A c \in Builders : scratch'[c] \in {scratch[c], None}
      /\ scratch' \in [Builders -> ScratchDirs \cup {None}]
  BY <1>1 DEF Prune, FilesInv
<1>4. ObjectsInv' /\ SlotsInv'
  <2>1. DOMAIN objects' \subseteq DOMAIN objects /\ \A n \in DOMAIN objects' : objects'[n] = objects[n]
    BY <1>1 DEF Drop, Restrict
  <2>2. DOMAIN slots' \subseteq DOMAIN slots /\ \A s \in DOMAIN slots' : slots'[s] = slots[s]
    BY <1>1 DEF Drop, Restrict
  <2> QED BY <1>1, <2>1, <2>2 DEF FilesInv, ObjectsInv, SlotsInv
<1>5. FilesInv'
  BY <1>1, <1>3, <1>4 DEF FilesInv
<1>6. ScratchInv(b)'
  BY <1>2 DEF ScratchInv
<1>7. k.cache \subseteq Records
  BY <1>1, <1>2 DEF BuilderInv, TypesOf, Present
<1>8. TypesOf(b)' /\ PlaceInv(b)' /\ ImageInv(b)' /\ EchoInv(b)'
  BY <1>1, <1>2, <1>7, SameModule DEF AtModule, AfterModules, Ended
<1> QED BY <1>1, <1>2, <1>3, <1>5, <1>6, <1>8, OneBuilder DEF BuilderInv

\* The echo the report of b accounts for the object n.
EchoFor(b, n) == LET s == SlotName(n, builds[b].env) IN
  IF n \in DOMAIN obls /\ s \in DOMAIN slots THEN slots[s] ELSE None

\* A report is composed, with an echo for every module.
LEMMA ReportFields ==
  ASSUME Shape, NEW b \in Builders, Report(b)
  PROVE  LET j == builds[b]
             k == builds'[b]
         IN  /\ Shape' /\ OthersKept(b) /\ Read(j, k) /\ k.next = j.next
             /\ k.pc \in {"done", "refused"} /\ k.settled = TRUE
             /\ k.echoes = [i \in DOMAIN Linked(b) |-> EchoFor(b, Linked(b)[i])]
             /\ k.cache = j.cache /\ k.image = j.image
<1> DEFINE m == [i \in DOMAIN Linked(b) |-> EchoFor(b, Linked(b)[i])]
           r(v) == [builds[b] EXCEPT !.pc = v, !.settled = TRUE, !.echoes = m]
<1>1. Shaped(builds[b])
  BY DEF Shape
<1>3. PICK v \in {"done", "refused"} : builds' = [builds EXCEPT ![b] = r(v)]
  BY DEF Report, EchoFor
<1> HIDE DEF m
<1>2. /\ Shaped(r(v)) /\ r(v).pc = v /\ Read(builds[b], r(v)) /\ r(v).next = builds[b].next
      /\ r(v).cache = builds[b].cache /\ r(v).echoes = m /\ r(v).image = builds[b].image
      /\ r(v).settled = TRUE
  BY <1>1 DEF Shaped, Fields, Read, Fixed, Pcs
<1> HIDE DEF r
<1> QED BY <1>2, <1>3, BuildSet DEF m

\* The echoes are those of the slots of the modules.
LEMMA ReportStep ==
  ASSUME StoreInv, NEW b \in Builders, Report(b)
  PROVE  StoreInv'
<1> DEFINE j == builds[b]
           k == builds'[b]
<1>1. /\ j.pc = "report" /\ Shape /\ FilesInv /\ BuilderInv(b)
      /\ UNCHANGED <<source, objects, slots, disk, scratch>>
  BY DEF Report, StoreInv, files
<1>2. /\ Shape' /\ OthersKept(b) /\ Read(j, k) /\ k.next = j.next
      /\ k.pc \in {"done", "refused"} /\ k.cache = j.cache /\ k.image = j.image
      /\ k.echoes = [i \in DOMAIN Linked(b) |-> EchoFor(b, Linked(b)[i])]
  BY <1>1, ReportFields
<1>3. j.prog \in Programs
  BY <1>1 DEF BuilderInv, PlaceInv, Ended
<1>4. DOMAIN k.echoes = DOMAIN Graph[j.prog]
  BY <1>2, <1>3, LinkedFacts
<1>5. ASSUME NEW i \in DOMAIN k.echoes
      PROVE  k.echoes[i] \in {Empty, None} \/ Made(k.echoes[i], InputsOf(b, i)')
  <2>1. /\ i \in DOMAIN Graph[j.prog] /\ k.echoes[i] = EchoFor(b, Linked(b)[i])
    BY <1>2, <1>4, <1>5
  <2>2. Linked(b)[i][2] = InputsOf(b, i)
    BY <1>3, <2>1, LinkedFacts
  <2>3. InputsOf(b, i)' = InputsOf(b, i)
    BY <1>2 DEF Read, Fixed, InputsOf
  <2> DEFINE n == Linked(b)[i]
             s == SlotName(n, builds[b].env)
  <2>4. s[2] = n[2]
    BY DEF SlotName
  <2> HIDE DEF n, s
  <2>5. k.echoes[i] = IF n \in DOMAIN obls /\ s \in DOMAIN slots THEN slots[s] ELSE None
    BY <2>1 DEF EchoFor, n, s
  <2>6. s[2] = InputsOf(b, i)'
    BY <2>2, <2>3, <2>4 DEF n
  <2> QED BY <1>1, <2>5, <2>6 DEF FilesInv, SlotsInv
<1>6. TypesOf(b)' /\ PlaceInv(b)'
  BY <1>1, <1>2 DEF BuilderInv, TypesOf, PlaceInv, Read, Fixed, AtModule, AfterModules, Ended
<1>7. ImageInv(b)'
  BY <1>1, <1>2 DEF BuilderInv, ImageInv, Read, Fixed, InputsOf, AfterModules
<1>8. EchoInv(b)'
  BY <1>2, <1>4, <1>5 DEF EchoInv, Read, Fixed
<1>9. ScratchInv(b)'
  BY <1>2 DEF ScratchInv
<1> QED BY <1>1, <1>2, <1>6, <1>7, <1>8, <1>9, FilesKept, OneBuilder DEF BuilderInv
-----------------------------------------------------------------------------
\* What other processes leave of a build: all but what it knows of them.
Kept(j, k) ==
  /\ k.pc = j.pc /\ k.prog = j.prog /\ k.elide = j.elide /\ k.env = j.env /\ k.hash = j.hash
  /\ k.decision = j.decision /\ k.next = j.next /\ k.cache = j.cache /\ k.image = j.image
  /\ k.echoes = j.echoes

\* A build keeps its invariant while others start and sources change.
LEMMA KeptBuilder ==
  ASSUME NEW c \in Builders, BuilderInv(c), Kept(builds[c], builds'[c]),
         source' = source \/ builds[c].pc \in Ended,
         scratch'[c] # None => scratch[c] # None /\ scratch'[c].content = scratch[c].content
  PROVE  BuilderInv(c)'
<1>1. TypesOf(c)' /\ PlaceInv(c)'
  BY DEF BuilderInv, TypesOf, PlaceInv, Kept, Ended, AtModule, AfterModules
<1>2. ScratchInv(c)'
  BY DEF BuilderInv, ScratchInv, Kept, Fp, File, Ended
<1>3. ImageInv(c)' /\ EchoInv(c)'
  BY DEF BuilderInv, ImageInv, EchoInv, Kept, InputsOf
<1> QED BY <1>1, <1>2, <1>3 DEF BuilderInv

\* A build begins; the others learn of it.
LEMMA StartFields ==
  ASSUME Shape, NEW b \in Builders, NEW p \in Programs, NEW e \in Requests, Start(b, p, e)
  PROVE  LET k == builds'[b]
         IN  /\ Shape' /\ k.pc = "prepare" /\ k.prog = p /\ k.elide = e /\ k.cache = {}
             /\ k.next = 1 /\ k.image = <<>> /\ k.decision = FALSE /\ k.settled = FALSE
             /\ k.overlapped = (Running # {})
             /\ \A c \in Builders : c # b =>
                  /\ Kept(builds[c], builds'[c]) /\ builds'[c].settled = FALSE
                  /\ builds'[c].overlapped = (builds[c].overlapped \/ c \in Running)
<1> DEFINE o == Running # {}
           a == env
           r == [Fresh EXCEPT !.pc = "prepare", !.prog = p, !.elide = e, !.env = a,
                              !.overlapped = o]
           s(c) == [builds[c] EXCEPT !.settled = FALSE, !.overlapped = @ \/ c \in Running]
<1>1. builds' = [c \in Builders |-> IF c = b THEN r ELSE s(c)]
  BY DEF Start, VerifyEnvKey
<1> HIDE DEF o, a
<1>2. /\ Shaped(r) /\ r.pc = "prepare" /\ r.prog = p /\ r.elide = e /\ r.cache = {} /\ r.next = 1
      /\ r.image = <<>> /\ r.decision = FALSE /\ r.settled = FALSE /\ r.overlapped = o
  BY DEF Shaped, Fields, Fresh, Pcs
<1>3. ASSUME NEW c \in Builders
      PROVE  /\ Shaped(s(c)) /\ Kept(builds[c], s(c)) /\ s(c).settled = FALSE
             /\ s(c).overlapped = (builds[c].overlapped \/ c \in Running)
  <2> DEFINE w == builds[c].overlapped \/ c \in Running
  <2>1. Shaped(builds[c]) /\ s(c) = [builds[c] EXCEPT !.settled = FALSE, !.overlapped = w]
    BY DEF Shape
  <2> HIDE DEF w
  <2>2. /\ Shaped([builds[c] EXCEPT !.settled = FALSE, !.overlapped = w])
        /\ Kept(builds[c], [builds[c] EXCEPT !.settled = FALSE, !.overlapped = w])
        /\ [builds[c] EXCEPT !.settled = FALSE, !.overlapped = w].settled = FALSE
        /\ [builds[c] EXCEPT !.settled = FALSE, !.overlapped = w].overlapped = w
    BY <2>1 DEF Shaped, Fields, Kept
  <2> HIDE DEF s
  <2> QED BY <2>1, <2>2 DEF w
<1> HIDE DEF r, s
<1>4. builds'[b] = r /\ \A c \in Builders : c # b => builds'[c] = s(c)
  BY <1>1
<1>5. Shape'
  BY <1>1, <1>2, <1>3, <1>4 DEF Shape
<1> QED BY <1>2, <1>3, <1>4, <1>5 DEF o

\* A build starts; directories of others only age.
LEMMA StartStep ==
  ASSUME StoreInv, NEW b \in Builders, NEW p \in Programs, NEW e \in Requests, Start(b, p, e)
  PROVE  StoreInv'
<1> DEFINE k == builds'[b]
<1>1. Shape /\ FilesInv /\ UNCHANGED <<source, objects, slots, disk>>
  BY DEF Start, StoreInv
<1>2. /\ Shape' /\ k.pc = "prepare" /\ k.prog = p /\ k.elide = e /\ k.cache = {}
      /\ k.next = 1 /\ k.image = <<>> /\ k.decision = FALSE
      /\ \A c \in Builders : c # b => Kept(builds[c], builds'[c])
  BY <1>1, StartFields
<1>3. ASSUME NEW c \in Builders
      PROVE  /\ scratch'[c] \in ScratchDirs \cup {None}
             /\ c # b /\ scratch'[c] # None =>
                  scratch[c] # None /\ scratch'[c].content = scratch[c].content
  <2> DEFINE x == scratch[c]
             y == [x EXCEPT !.dir = @ \cup {b}, !.out = @ \cup {b}]
  <2>1. x \in ScratchDirs \cup {None}
    BY <1>1 DEF FilesInv
  <2>2. x # None => y \in ScratchDirs /\ y.content = x.content
    BY <2>1 DEF ScratchDirs
  <2>3. scratch'[c] = IF c = b THEN None ELSE IF x = None THEN None ELSE y
    BY DEF Start
  <2> HIDE DEF x, y
  <2> QED BY <2>2, <2>3 DEF x
<1>4. scratch' = [c \in Builders |-> scratch'[c]]
  BY DEF Start
<1>5. FilesInv'
  BY <1>1, <1>3, <1>4 DEF FilesInv, ObjectsInv, SlotsInv
<1>6. ASSUME NEW c \in Builders, c # b PROVE BuilderInv(c)'
  <2>1. BuilderInv(c)
    BY DEF StoreInv
  <2> QED BY <1>1, <1>2, <1>3, <1>6, <2>1, KeptBuilder
<1>7. BuilderInv(b)'
  <2>1. k.elide \in BOOLEAN
    BY <1>2, GraphAssumption
  <2>2. k.decision \in BOOLEAN
    BY <1>2
  <2>3. TypesOf(b)'
    BY <1>2, <2>1, <2>2 DEF TypesOf
  <2>4. PlaceInv(b)'
    BY <1>2 DEF PlaceInv, AtModule, AfterModules, Ended
  <2>5. ScratchInv(b)' /\ ImageInv(b)' /\ EchoInv(b)'
    BY <1>2 DEF ScratchInv, ImageInv, EchoInv, AfterModules
  <2> QED BY <2>3, <2>4, <2>5 DEF BuilderInv
<1> QED BY <1>2, <1>5, <1>6, <1>7 DEF StoreInv

\* What holds of a build that has not started.
LEMMA FreshInv ==
  ASSUME NEW b \in Builders, builds[b] = Fresh
  PROVE  Shaped(builds[b]) /\ BuilderInv(b)
<1>1. /\ Shaped(Fresh) /\ Fresh.pc = "idle" /\ Fresh.next = 1 /\ Fresh.elide = FALSE
      /\ Fresh.decision = FALSE /\ Fresh.cache = {} /\ Fresh.image = <<>>
  BY DEF Fresh, Shaped, Fields, Pcs
<1>2. TypesOf(b) /\ PlaceInv(b)
  BY DEF TypesOf, PlaceInv, AtModule, AfterModules, Ended, Fresh
<1>3. ScratchInv(b) /\ ImageInv(b) /\ EchoInv(b)
  BY <1>1 DEF ScratchInv, ImageInv, EchoInv, AfterModules
<1> QED BY <1>1, <1>2, <1>3 DEF BuilderInv

\* The process of a build dies.
LEMMA CrashStep ==
  ASSUME StoreInv, NEW b \in Builders, Crash(b)
  PROVE  StoreInv'
<1>1. /\ Shape /\ FilesInv /\ UNCHANGED <<source, objects, slots, disk>>
      /\ builds' = [builds EXCEPT ![b] = Fresh] /\ scratch' = [scratch EXCEPT ![b] = None]
  BY DEF Crash, StoreInv
<1>2. builds'[b] = Fresh
  BY <1>1 DEF Shape
<1>3. Shaped(Fresh)
  BY DEF Fresh, Shaped, Fields, Pcs
<1>4. Shape' /\ OthersKept(b)
  BY <1>1, <1>3, BuildSet
<1>5. BuilderInv(b)'
  <2>1. TypesOf(b)' /\ PlaceInv(b)'
    BY <1>2 DEF TypesOf, PlaceInv, AtModule, AfterModules, Ended, Fresh
  <2>2. ScratchInv(b)' /\ ImageInv(b)' /\ EchoInv(b)'
    BY <1>2 DEF ScratchInv, ImageInv, EchoInv, AfterModules, Fresh
  <2> QED BY <2>1, <2>2 DEF BuilderInv
<1>6. /\ scratch' \in [Builders -> ScratchDirs \cup {None}]
      /\ \A c \in Builders : c # b => scratch'[c] = scratch[c]
  BY <1>1 DEF FilesInv
<1>7. FilesInv'
  BY <1>1, <1>6 DEF FilesInv, ObjectsInv, SlotsInv
<1> QED BY <1>1, <1>4, <1>5, <1>6, <1>7, OneBuilder

\* A source or the environment changes while no build runs.
LEMMA UnsettledFields ==
  ASSUME Shape, builds' = Unsettled
  PROVE  /\ Shape'
         /\ \A c \in Builders : /\ Kept(builds[c], builds'[c]) /\ builds'[c].settled = FALSE
                                /\ builds'[c].overlapped = builds[c].overlapped
<1> DEFINE s(c) == [builds[c] EXCEPT !.settled = FALSE]
<1>1. builds' = [c \in Builders |-> s(c)]
  BY DEF Unsettled
<1>2. ASSUME NEW c \in Builders
      PROVE  /\ Shaped(s(c)) /\ Kept(builds[c], s(c)) /\ s(c).settled = FALSE
             /\ s(c).overlapped = builds[c].overlapped
  BY DEF Shape, Shaped, Fields, Kept
<1> HIDE DEF s
<1> QED BY <1>1, <1>2 DEF Shape

\* A change between builds keeps the invariant.
\* A change between builds keeps the invariant.
LEMMA ChangeStep ==
  ASSUME StoreInv, Running = {}, builds' = Unsettled, source' \in [Files -> Versions],
         UNCHANGED files
  PROVE  StoreInv'
<1>1. Shape /\ FilesInv /\ UNCHANGED <<objects, slots, disk, scratch>>
  BY DEF StoreInv, files
<1>2. FilesInv'
  BY <1>1 DEF FilesInv, ObjectsInv, SlotsInv
<1>3. ASSUME NEW c \in Builders PROVE BuilderInv(c)'
  <2>1. BuilderInv(c) /\ builds[c].pc \in Ended
    BY DEF StoreInv, Running
  <2> QED BY <1>1, <2>1, KeptBuilder, UnsettledFields
<1> QED BY <1>1, <1>2, <1>3, UnsettledFields DEF StoreInv

\* One step of any build.
LEMMA BuilderStep ==
  ASSUME StoreInv, NEW b \in Builders, Step(b)
  PROVE  StoreInv'
<1>1. ASSUME CompileRefused(b) PROVE StoreInv'
  BY <1>1, StoppedStep DEF CompileRefused, Ended
<1>2. ASSUME ScratchLost(b) PROVE StoreInv'
  BY <1>2, StoppedStep DEF ScratchLost, Ended, files
<1> QED
  BY <1>1, <1>2, PrepareStep, CachedStep, MissStep, CompileStep, RehomeObjectStep,
     RehomeOblStep, RehomeEchoStep, SaveBeginStep, SaveEndStep, LinkStep, PruneStep,
     ReportStep DEF Step

\* Nothing has been built.
LEMMA StoreInit == Init => StoreInv
<1> SUFFICES ASSUME Init PROVE StoreInv
  OBVIOUS
<1>1. ASSUME NEW b \in Builders PROVE Shaped(builds[b]) /\ BuilderInv(b)
  <2>1. builds[b] = Fresh
    BY DEF Init
  <2> QED BY <2>1, FreshInv
<1>2. Shape
  BY <1>1 DEF Init, Shape
<1>3. FilesInv
  <2>1. (CHOOSE v \in Versions : TRUE) \in Versions
    BY GraphAssumption
  <2>2. source \in [Files -> Versions]
    BY <2>1 DEF Init
  <2>3. scratch \in [Builders -> ScratchDirs \cup {None}]
    BY DEF Init
  <2>4. DOMAIN objects = {} /\ DOMAIN slots = {} /\ disk = {}
    BY DEF Init
  <2> QED BY <2>2, <2>3, <2>4 DEF FilesInv, ObjectsInv, SlotsInv
<1> QED BY <1>1, <1>2, <1>3 DEF StoreInv

\* Every step keeps the invariant.
LEMMA StoreStep == StoreInv /\ [Next]_vars => StoreInv'
<1> SUFFICES ASSUME StoreInv, [Next]_vars PROVE StoreInv'
  OBVIOUS
<1>1. ASSUME NEW f \in Files, NEW v \in Versions, EditSource(f, v) PROVE StoreInv'
  <2>1. source' \in [Files -> Versions]
    BY <1>1 DEF EditSource, StoreInv, FilesInv
  <2> QED BY <1>1, <2>1, ChangeStep DEF EditSource
<1>2. ASSUME NEW e \in Envs, ChangeEnv(e) PROVE StoreInv'
  <2>1. source' \in [Files -> Versions]
    BY <1>2 DEF ChangeEnv, StoreInv, FilesInv
  <2> QED BY <1>2, <2>1, ChangeStep DEF ChangeEnv
<1>3. ASSUME UNCHANGED vars PROVE StoreInv'
  <2>1. Shape /\ FilesInv /\ UNCHANGED <<source, objects, slots, scratch, disk, builds>>
    BY <1>3 DEF vars, files, StoreInv
  <2>2. Shape' /\ FilesInv'
    BY <2>1, FilesKept DEF Shape
  <2>3. ASSUME NEW c \in Builders PROVE BuilderInv(c)'
    <3>1. builds'[c] = builds[c] /\ scratch'[c] = scratch[c]
      BY <2>1
    <3> QED BY <2>1, <3>1, OtherBuilder
  <2> QED BY <2>2, <2>3 DEF StoreInv
<1> QED BY <1>1, <1>2, <1>3, StartStep, BuilderStep, CrashStep DEF Next

\* An object, a verdict slot, an image and a report hold what was compiled of
\* the sources their names say, whatever builds crash, race or are refused.
THEOREM StoreInvariant == Spec => []StoreInv
<1> QED BY StoreInit, StoreStep, PTL DEF Spec

\* What is linked was compiled of the sources the build hashed.
THEOREM ImagesAreFresh == Spec => []LinkedFresh
<1>1. StoreInv => LinkedFresh
  BY DEF StoreInv, BuilderInv, ImageInv, LinkedFresh, Made
<1> QED BY <1>1, StoreInvariant, PTL

\* While all builds take one elision decision, the echo of a report is that of
\* the linked object, or the placeholder, or missing.
THEOREM EchoesTellImages == ASSUME OneDecision PROVE Spec => []EchoOfImage
<1>1. ASSUME NEW x, NEW y, NEW fp, Made(x, fp), Made(y, fp) PROVE x = y
  BY <1>1, OneDecision DEF Made, Outputs
<1>2. StoreInv => EchoOfImage
  <2> SUFFICES ASSUME StoreInv, NEW b \in Builders, Done(b), NEW i \in DOMAIN builds[b].echoes
               PROVE  builds[b].echoes[i] \in {builds[b].image[i], Empty, None}
    BY DEF EchoOfImage
  <2>1. BuilderInv(b) /\ builds[b].pc = "done"
    BY DEF StoreInv, Done
  <2>2. i \in DOMAIN builds[b].image
    BY <2>1 DEF BuilderInv, ImageInv, EchoInv
  <2>3. Made(builds[b].image[i], InputsOf(b, i))
    BY <2>1, <2>2 DEF BuilderInv, ImageInv
  <2>4. \/ builds[b].echoes[i] \in {Empty, None}
        \/ Made(builds[b].echoes[i], InputsOf(b, i))
    BY <2>1 DEF BuilderInv, EchoInv
  <2> QED BY <1>1, <2>3, <2>4
<1> QED BY <1>2, StoreInvariant, PTL
-----------------------------------------------------------------------------
\* While a build runs, or has just ended alone, nothing that holds of the
\* builds that ran alone before it can be undone.
LEMMA SoloOthers ==
  ASSUME SoloRuns, NEW b \in Builders, builds[b].pc \notin Ended, OthersKept(b), SoloInv(b)'
  PROVE  SoloRuns'
<1>1. ASSUME NEW c \in Builders, c # b PROVE SoloInv(c)'
  <2>1. SoloInv(c) /\ builds'[c] = builds[c]
    BY <1>1 DEF SoloRuns, OthersKept
  <2>2. ~builds[c].overlapped =>
          builds[c].pc \in Ended /\ ~builds[c].settled /\ builds[c].pc # "failed"
    BY <1>1, <2>1 DEF SoloInv
  <2>3. builds[c].pc \in Ended => builds[c].pc \notin AtModule \cup AfterModules
    BY DEF Ended, AtModule, AfterModules
  <2> QED BY <2>1, <2>2, <2>3 DEF SoloInv, AtModule, AfterModules
<1> QED BY <1>1 DEF SoloRuns

\* The others have all ended while a build that runs alone steps.
LEMMA SoloAlone ==
  ASSUME SoloRuns, NEW b \in Builders, builds[b].pc \notin Ended, OthersKept(b),
         ~builds[b].overlapped
  PROVE  /\ \A c \in Builders : c # b => builds'[c].pc \in Ended
         /\ \A c \in Builders : c # b => builds[c].pc \in Ended
BY DEF SoloRuns, SoloInv, OthersKept

\* The modules of the image and the module at hand do not move with the place.
LEMMA LinkedKept ==
  ASSUME NEW b \in Builders, Read(builds[b], builds'[b])
  PROVE  /\ Linked(b)' = Linked(b)
         /\ builds'[b].next = builds[b].next =>
              /\ Object(b)' = Object(b) /\ Slot(b)' = Slot(b)
              /\ Rec(b, File(b), Fp(b))' = Rec(b, File(b), Fp(b))
BY DEF Linked, Read, Fixed, File, Fp, Object, Slot, Rec

\* What is stored stays stored while artifacts and records are only added.
LEMMA StoredKept ==
  ASSUME NEW b \in Builders, Read(builds[b], builds'[b]), NEW i, Stored(b, i),
         DOMAIN objects \subseteq DOMAIN objects', DOMAIN slots \subseteq DOMAIN slots',
         builds[b].cache \subseteq builds'[b].cache
  PROVE  Stored(b, i)'
<1>1. Linked(b)' = Linked(b) /\ builds'[b].env = builds[b].env /\ builds'[b].elide = builds[b].elide
  BY LinkedKept DEF Read, Fixed
<1> QED BY <1>1 DEF Stored

\* A module with its object, its slot and its record is stored.
LEMMA StoredHere ==
  ASSUME StoreInv, NEW b \in Builders, builds[b].pc \in AtModule,
         Object(b) \in DOMAIN objects, Slot(b) \in DOMAIN slots,
         Rec(b, File(b), Fp(b)) \in builds[b].cache
  PROVE  Stored(b, builds[b].next)
<1>1. builds[b].prog \in Programs /\ builds[b].next \in 1 .. Len(Graph[builds[b].prog])
  BY DEF StoreInv, BuilderInv, PlaceInv, AtModule, Ended
<1>2. Linked(b)[builds[b].next] = Object(b) /\ Object(b)[2] = Fp(b)
  BY <1>1, GraphFacts, LinkedFacts, SMTT(30)
<1>3. Slot(b) = SlotName(Object(b), builds[b].env)
  BY DEF Slot
<1>4. Rec(b, File(b), Fp(b)) = [elide |-> builds[b].elide, fp |-> Fp(b), object |-> Object(b)]
  BY DEF Rec, Object
<1> QED BY <1>2, <1>3, <1>4 DEF Stored

\* A build that runs alone goes on to its next module with this one stored.
LEMMA SoloNext ==
  ASSUME StoreInv, SoloRuns, NEW b \in Builders, builds[b].pc \in AtModule, Advance(b),
         UNCHANGED <<objects, slots>>,
         ~builds[b].overlapped => Stored(b, builds[b].next)
  PROVE  OthersKept(b) /\ SoloInv(b)'
<1> DEFINE j == builds[b]
           k == builds'[b]
<1>1. Shape /\ BuilderInv(b) /\ SoloInv(b) /\ j.pc \notin Ended
  BY DEF StoreInv, SoloRuns, AtModule, Ended
<1>2. /\ OthersKept(b) /\ Read(j, k) /\ k.next = j.next + 1 /\ k.cache = j.cache
      /\ k.pc = IF j.next = Len(Graph[j.prog]) THEN "link" ELSE "lookup"
  BY <1>1, AdvanceFields
<1>3. /\ j.prog \in Programs /\ j.next \in 1 .. Len(Graph[j.prog])
      /\ Len(Graph[j.prog]) \in Nat /\ DOMAIN Linked(b) = 1 .. Len(Graph[j.prog])
  BY <1>1, GraphFacts, LinkedFacts DEF BuilderInv, PlaceInv
<1>4. ASSUME ~k.overlapped
      PROVE  /\ \A c \in Builders : c # b => builds'[c].pc \in Ended
             /\ \A i \in 1 .. k.next - 1 : Stored(b, i)'
  <2>1. ~j.overlapped
    BY <1>2, <1>4 DEF Read, Fixed
  <2>2. \A i \in 1 .. j.next - 1 : Stored(b, i)
    BY <1>1, <2>1 DEF SoloInv
  <2>3. ASSUME NEW i \in 1 .. k.next - 1 PROVE Stored(b, i)
    <3>1. i \in 1 .. j.next - 1 \/ i = j.next
      BY <1>2, <1>3
    <3> QED BY <2>1, <2>2, <3>1
  <2> QED BY <1>1, <1>2, <2>1, <2>3, SoloAlone, StoredKept
<1>5. k.pc = "link" => \A i \in DOMAIN Linked(b)' : i \in 1 .. k.next - 1
  BY <1>2, <1>3, LinkedKept
<1>6. k.pc \in {"link", "lookup"}
  BY <1>2
<1> QED BY <1>2, <1>4, <1>5, <1>6 DEF SoloInv, AtModule, AfterModules, Ended

\* A build that stays with its module, or behind the last one, and adds to
\* what is there.
LEMMA SoloSame ==
  ASSUME SoloRuns, NEW b \in Builders, builds[b].pc \notin Ended, OthersKept(b),
         Read(builds[b], builds'[b]), builds'[b].next = builds[b].next,
         DOMAIN objects \subseteq DOMAIN objects', DOMAIN slots \subseteq DOMAIN slots',
         builds[b].cache \subseteq builds'[b].cache, ~builds'[b].overlapped
  PROVE  /\ ~builds[b].overlapped
         /\ \A c \in Builders : c # b => builds'[c].pc \in Ended
         /\ builds[b].pc \in AtModule => \A i \in 1 .. builds'[b].next - 1 : Stored(b, i)'
         /\ builds[b].pc \in AfterModules => \A i \in DOMAIN Linked(b)' : Stored(b, i)'
<1>1. ~builds[b].overlapped /\ SoloInv(b)
  BY DEF Read, Fixed, SoloRuns
<1>2. builds[b].pc \in AtModule => \A i \in 1 .. builds[b].next - 1 : Stored(b, i)
  BY <1>1 DEF SoloInv
<1>3. builds[b].pc \in AfterModules => \A i \in DOMAIN Linked(b) : Stored(b, i)
  BY <1>1 DEF SoloInv
<1>4. \A i : Stored(b, i) => Stored(b, i)'
  BY StoredKept
<1> QED BY <1>1, <1>2, <1>3, <1>4, SoloAlone, LinkedKept

\* The build begins with no module done.
LEMMA SoloPrepare ==
  ASSUME StoreInv, SoloRuns, NEW b \in Builders, Prepare(b)
  PROVE  OthersKept(b) /\ SoloInv(b)'
<1> DEFINE j == builds[b]
           k == builds'[b]
<1>1. j.pc = "prepare" /\ Shape /\ BuilderInv(b)
  BY DEF Prepare, StoreInv
<1>2. OthersKept(b) /\ Fixed(j, k) /\ k.pc = "lookup" /\ k.next = j.next
  BY <1>1, PrepareFields
<1>3. j.next = 1 /\ j.pc \notin Ended
  BY <1>1 DEF BuilderInv, PlaceInv, Ended
<1>4. ~k.overlapped => \A c \in Builders : c # b => builds'[c].pc \in Ended
  BY <1>2, <1>3, SoloAlone DEF Fixed
<1>5. \A i \in 1 .. k.next - 1 : FALSE
  BY <1>2, <1>3
<1> QED BY <1>2, <1>4, <1>5 DEF SoloInv, AtModule, AfterModules, Ended

\* A module in the cache is stored.
LEMMA SoloCached ==
  ASSUME StoreInv, SoloRuns, NEW b \in Builders, UseCached(b)
  PROVE  OthersKept(b) /\ SoloInv(b)'
<1>1. builds[b].pc \in AtModule /\ Advance(b) /\ Hit(b) /\ UNCHANGED <<objects, slots>>
  BY DEF UseCached, files, AtModule
<1>2. Stored(b, builds[b].next)
  BY <1>1, StoredHere DEF Hit
<1> QED BY <1>1, <1>2, SoloNext

\* The directory of a compilation, the object, the obligations and the echo
\* are there one after the other.
LEMMA SoloCompiling ==
  ASSUME StoreInv, SoloRuns, NEW b \in Builders,
         \/ Miss(b) \/ Compile(b) \/ RehomeObject(b) \/ RehomeObl(b) \/ RehomeEcho(b)
  PROVE  OthersKept(b) /\ SoloInv(b)'
<1> DEFINE j == builds[b]
           k == builds'[b]
<1>1. Shape /\ FilesInv /\ SoloInv(b)
  BY DEF StoreInv, SoloRuns
<1>2. /\ j.pc \in {"lookup", "compile", "object", "obl", "echo"}
      /\ k.pc \in {"compile", "object", "obl", "echo", "insert"}
      /\ OthersKept(b) /\ Read(j, k) /\ k.next = j.next /\ k.cache = j.cache
      /\ \/ j.pc = "lookup" /\ k.pc = "compile"
         \/ j.pc = "compile" /\ k.pc = "object"
         \/ j.pc = "object" /\ k.pc = "obl"
         \/ j.pc = "obl" /\ k.pc = "echo"
         \/ j.pc = "echo" /\ k.pc = "insert"
  <2>1. PICK q \in Pcs :
          /\ Goto(b, q)
          /\ \/ j.pc = "lookup" /\ q = "compile"
             \/ j.pc = "compile" /\ q = "object"
             \/ j.pc = "object" /\ q = "obl"
             \/ j.pc = "obl" /\ q = "echo"
             \/ j.pc = "echo" /\ q = "insert"
    BY DEF Pcs, Miss, Compile, RehomeObject, RehomeObl, RehomeEcho
  <2>2. /\ OthersKept(b) /\ k.pc = q /\ Read(j, k) /\ k.next = j.next /\ k.cache = j.cache
    BY <1>1, <2>1, GotoFields
  <2> QED BY <2>1, <2>2
<1>3. DOMAIN objects \subseteq DOMAIN objects' /\ DOMAIN slots \subseteq DOMAIN slots'
  BY DEF Miss, EnsureSlot, Compile, RehomeObject, RehomeObl, RehomeEcho, Put
<1>4. k.pc # "insert" => scratch'[b] # None
  <2>1. ASSUME Miss(b) PROVE scratch'[b] # None
    <3> DEFINE r == [content |-> None, dir |-> {}, out |-> {}]
    <3>1. r \in ScratchDirs
      BY DEF ScratchDirs
    <3>2. scratch' = [scratch EXCEPT ![b] = r]
      BY <2>1 DEF Miss
    <3> HIDE DEF r
    <3> QED BY <1>1, <3>1, <3>2, StoreAssumption DEF FilesInv
  <2>2. ASSUME Compile(b) PROVE scratch'[b] # None
    <3> DEFINE x == [from |-> InputsFp(File(b), source), elided |-> builds[b].decision]
               r == [content |-> x, dir |-> {}, out |-> {}]
    <3>1. scratch' = [scratch EXCEPT ![b] = r]
      BY <2>2 DEF Compile
    <3>2. x \in Outputs
      <4>1. InputsFp(File(b), source) \in Fingerprints /\ builds[b].decision \in BOOLEAN
        BY <2>2, FpType DEF Compile, AtModule, StoreInv, BuilderInv, TypesOf
      <4> QED BY <4>1 DEF Outputs
    <3> HIDE DEF x
    <3>3. r \in ScratchDirs
      BY <3>2 DEF ScratchDirs
    <3> HIDE DEF r
    <3> QED BY <1>1, <3>1, <3>3, StoreAssumption DEF FilesInv
  <2>3. ASSUME RehomeObject(b) \/ RehomeObl(b) PROVE scratch'[b] # None
    BY <1>1, <2>3, ScratchTouched DEF RehomeObject, RehomeObl, ScratchKept
  <2>4. ASSUME RehomeEcho(b) PROVE k.pc = "insert"
    BY <1>1, <2>4, GotoFields DEF RehomeEcho, Pcs
  <2> QED BY <2>1, <2>2, <2>3, <2>4
<1>5. j.pc = "object" => Object(b) \in DOMAIN objects'
  BY DEF Miss, Compile, RehomeObject, RehomeObl, RehomeEcho, Put
<1>6. j.pc = "echo" => Slot(b) \in DOMAIN slots'
  BY DEF Miss, Compile, RehomeObject, RehomeObl, RehomeEcho, Put
<1>7. Object(b)' = Object(b) /\ Slot(b)' = Slot(b)
  BY <1>2, LinkedKept
<1>8. ASSUME ~k.overlapped PROVE SoloInv(b)'
  <2>1. j.pc \notin Ended /\ j.pc \in AtModule
    BY <1>2 DEF Ended, AtModule
  <2>2. /\ \A c \in Builders : c # b => builds'[c].pc \in Ended
        /\ \A i \in 1 .. k.next - 1 : Stored(b, i)'
        /\ ~j.overlapped
    BY <1>2, <1>3, <1>8, <2>1, SoloSame
  <2>3. k.pc \in {"obl", "echo", "insert"} => Object(b) \in DOMAIN objects'
    <3>1. j.pc \in {"obl", "echo"} => Object(b) \in DOMAIN objects
      BY <1>1, <2>2 DEF SoloInv
    <3>2. k.pc \in {"obl", "echo", "insert"} => j.pc \in {"object", "obl", "echo"}
      BY <1>2
    <3> QED BY <1>3, <1>5, <3>1, <3>2
  <2> QED BY <1>2, <1>4, <1>6, <1>7, <2>2, <2>3 DEF SoloInv, AfterModules
<1> QED BY <1>2, <1>8 DEF SoloInv

\* A build that runs alone does not lose its directory.
LEMMA SoloStopped ==
  ASSUME StoreInv, SoloRuns, NEW b \in Builders, CompileRefused(b) \/ ScratchLost(b)
  PROVE  OthersKept(b) /\ SoloInv(b)'
<1> DEFINE j == builds[b]
           k == builds'[b]
<1>1. Shape /\ SoloInv(b)
  BY DEF StoreInv, SoloRuns
<1>2. /\ OthersKept(b) /\ Read(j, k) /\ k.pc \in {"refused", "failed"} /\ j.pc \notin Ended
      /\ k.pc = "failed" => ScratchLost(b)
  BY <1>1, GotoFields DEF Pcs, CompileRefused, ScratchLost, Ended
<1>3. ScratchLost(b) => j.overlapped
  BY <1>1 DEF SoloInv, ScratchLost
<1>4. ~k.overlapped => k.pc # "failed" /\ \A c \in Builders : c # b => builds'[c].pc \in Ended
  BY <1>2, <1>3, SoloAlone DEF Read, Fixed
<1> QED BY <1>2, <1>4 DEF SoloInv, AtModule, AfterModules

\* The record is in the cache before the cache is on disk.
LEMMA SoloSaveBegin ==
  ASSUME StoreInv, SoloRuns, NEW b \in Builders, SaveBegin(b)
  PROVE  OthersKept(b) /\ SoloInv(b)'
<1> DEFINE j == builds[b]
           k == builds'[b]
<1>1. Shape /\ SoloInv(b) /\ j.pc \in {"insert", "save"} /\ disk' = Torn
      /\ UNCHANGED <<objects, slots>>
  BY DEF StoreInv, SoloRuns, SaveBegin
<1>2. /\ OthersKept(b) /\ Read(j, k) /\ k.next = j.next
      /\ k.pc = IF j.pc = "insert" THEN "inserting" ELSE "saving"
      /\ k.cache = IF j.pc = "insert" THEN j.cache \cup {Rec(b, File(b), Fp(b))} ELSE j.cache
  BY <1>1, SaveFields
<1>3. Object(b)' = Object(b) /\ Slot(b)' = Slot(b)
      /\ Rec(b, File(b), Fp(b))' = Rec(b, File(b), Fp(b))
  BY <1>2, LinkedKept
<1>4. ASSUME ~k.overlapped PROVE SoloInv(b)'
  <2>1. j.pc \notin Ended /\ j.cache \subseteq k.cache
    BY <1>1, <1>2 DEF Ended
  <2>2. /\ ~j.overlapped /\ \A c \in Builders : c # b => builds'[c].pc \in Ended
        /\ j.pc \in AtModule => \A i \in 1 .. k.next - 1 : Stored(b, i)'
        /\ j.pc \in AfterModules => \A i \in DOMAIN Linked(b)' : Stored(b, i)'
    BY <1>1, <1>2, <1>4, <2>1, SoloSame
  <2>3. CASE j.pc = "insert"
    <3>1. k.pc = "inserting" /\ Rec(b, File(b), Fp(b)) \in k.cache
      BY <1>2, <2>3
    <3>2. Object(b) \in DOMAIN objects /\ Slot(b) \in DOMAIN slots
      BY <1>1, <2>2, <2>3 DEF SoloInv
    <3> QED BY <1>1, <1>3, <2>2, <2>3, <3>1, <3>2 DEF SoloInv, AtModule, AfterModules
  <2>4. CASE j.pc = "save"
    <3>1. k.pc = "saving"
      BY <1>2, <2>4
    <3> QED BY <1>1, <2>2, <2>4, <3>1 DEF SoloInv, AtModule, AfterModules
  <2> QED BY <1>1, <2>3, <2>4
<1> QED BY <1>2, <1>4 DEF SoloInv

\* Nobody else has written build.json while the bytes were on their way.
LEMMA SoloSaveEnd ==
  ASSUME StoreInv, SoloRuns, NEW b \in Builders, SaveEnd(b)
  PROVE  OthersKept(b) /\ SoloInv(b)'
<1> DEFINE j == builds[b]
           k == builds'[b]
<1>1. /\ Shape /\ SoloInv(b) /\ j.pc \in {"inserting", "saving"} /\ UNCHANGED <<objects, slots>>
      /\ disk' \in {j.cache} \cup (IF disk = Torn THEN {} ELSE {Torn})
  BY DEF StoreInv, SoloRuns, SaveEnd
<1>2. CASE j.pc = "inserting"
  <2>1. Advance(b) /\ j.pc \in AtModule
    BY <1>2 DEF SaveEnd, AtModule
  <2>2. ~j.overlapped => Stored(b, j.next)
    BY <1>1, <1>2, <2>1, StoredHere DEF SoloInv
  <2> QED BY <1>1, <2>1, <2>2, SoloNext
<1>3. CASE j.pc = "saving"
  <2>1. /\ OthersKept(b) /\ Read(j, k) /\ k.next = j.next /\ k.cache = j.cache
        /\ k.pc = "report"
    BY <1>1, <1>3, GotoFields DEF SaveEnd, Pcs
  <2>2. ASSUME ~k.overlapped PROVE SoloInv(b)'
    <3>1. j.pc \notin Ended /\ j.pc \in AfterModules
      BY <1>3 DEF Ended, AfterModules
    <3>2. /\ ~j.overlapped /\ \A c \in Builders : c # b => builds'[c].pc \in Ended
          /\ \A i \in DOMAIN Linked(b)' : Stored(b, i)'
      BY <1>1, <2>1, <2>2, <3>1, SoloSame
    <3>3. disk' = k.cache
      BY <1>1, <1>3, <2>1, <3>2 DEF SoloInv
    <3> QED BY <2>1, <3>2, <3>3 DEF SoloInv, AtModule, AfterModules
  <2> QED BY <2>1, <2>2 DEF SoloInv
<1> QED BY <1>1, <1>2, <1>3

\* No module object is missing when the image is linked.
LEMMA SoloLink ==
  ASSUME StoreInv, SoloRuns, NEW b \in Builders, Link(b)
  PROVE  OthersKept(b) /\ SoloInv(b)'
<1> DEFINE j == builds[b]
           k == builds'[b]
<1>1. Shape /\ SoloInv(b) /\ j.pc = "link" /\ UNCHANGED <<objects, slots, disk>>
  BY DEF StoreInv, SoloRuns, Link, files
<1>2. j.pc \notin Ended /\ j.pc \in AfterModules
  BY <1>1 DEF Ended, AfterModules
<1>3. CASE Range(Linked(b)) \subseteq DOMAIN objects
  <2>1. OthersKept(b) /\ Read(j, k) /\ k.next = j.next /\ k.pc = "prune" /\ k.cache = j.cache
    BY <1>1, <1>3, LinkFields
  <2>2. ~k.overlapped => /\ \A c \in Builders : c # b => builds'[c].pc \in Ended
                         /\ \A i \in DOMAIN Linked(b)' : Stored(b, i)'
    BY <1>1, <1>2, <2>1, SoloSame
  <2> QED BY <2>1, <2>2 DEF SoloInv, AtModule, AfterModules
<1>4. CASE ~(Range(Linked(b)) \subseteq DOMAIN objects)
  <2>1. OthersKept(b) /\ Read(j, k)
    BY <1>1, <1>4, GotoFields DEF Link, Pcs
  <2>2. j.overlapped
    <3>1. PICK i \in DOMAIN Linked(b) : Linked(b)[i] \notin DOMAIN objects
      BY <1>4 DEF Range
    <3> QED BY <1>1, <1>2, <3>1 DEF SoloInv, Stored
  <2> QED BY <2>1, <2>2 DEF SoloInv, Read, Fixed
<1> QED BY <1>3, <1>4

\* A prune leaves the artifacts and the records of its own modules.
LEMMA SoloPrune ==
  ASSUME StoreInv, SoloRuns, NEW b \in Builders, Prune(b)
  PROVE  OthersKept(b) /\ SoloInv(b)'
<1> DEFINE j == builds[b]
           k == builds'[b]
<1>1. /\ Shape /\ SoloInv(b) /\ j.pc = "prune"
      /\ DOMAIN objects' = DOMAIN objects \ DeadObjects(b)
      /\ DOMAIN slots' = DOMAIN slots \ DeadSlots(b)
  BY DropFacts DEF StoreInv, SoloRuns, Prune
<1>2. /\ OthersKept(b) /\ Read(j, k) /\ k.pc = "save"
      /\ k.cache = Present(j.cache, DOMAIN objects \ DeadObjects(b))
  BY <1>1, PruneFields
<1>3. ASSUME ~k.overlapped PROVE SoloInv(b)'
  <2>1. ~j.overlapped /\ j.pc \notin Ended /\ j.pc \in AfterModules
    BY <1>1, <1>2, <1>3 DEF Read, Fixed, Ended, AfterModules
  <2>2. \A c \in Builders : c # b => builds'[c].pc \in Ended
    BY <1>2, <2>1, SoloAlone
  <2>3. ASSUME NEW i \in DOMAIN Linked(b) PROVE Stored(b, i)'
    <3> DEFINE n == Linked(b)[i]
               r == [elide |-> j.elide, fp |-> n[2], object |-> n]
               s == SlotName(n, j.env)
    <3>1. n \in DOMAIN objects /\ s \in DOMAIN slots /\ r \in j.cache
      BY <1>1, <2>1 DEF SoloInv, Stored
    <3>2. n \in Current(b) /\ s \in Expected(b)
      BY DEF Current, Expected, Range
    <3>3. n \notin DeadObjects(b) /\ s \notin DeadSlots(b)
      BY <3>2 DEF DeadObjects, DeadSlots
    <3>4. r.object = n
      OBVIOUS
    <3>5. r \in k.cache
      BY <1>2, <3>1, <3>3, <3>4 DEF Present
    <3>6. Linked(b)' = Linked(b) /\ k.elide = j.elide /\ k.env = j.env
      BY <1>2, LinkedKept DEF Read, Fixed
    <3> QED BY <1>1, <3>1, <3>3, <3>5, <3>6 DEF Stored
  <2>4. Linked(b)' = Linked(b)
    BY <1>2, LinkedKept
  <2> QED BY <1>2, <2>2, <2>3, <2>4 DEF SoloInv, AtModule, AfterModules
<1> QED BY <1>2, <1>3 DEF SoloInv

\* A build ends with what the next one will look for.
LEMMA SoloReport ==
  ASSUME StoreInv, SoloRuns, NEW b \in Builders, Report(b)
  PROVE  OthersKept(b) /\ SoloInv(b)'
<1> DEFINE j == builds[b]
           k == builds'[b]
<1>1. Shape /\ SoloInv(b) /\ j.pc = "report" /\ UNCHANGED <<objects, slots, disk>>
  BY DEF StoreInv, SoloRuns, Report, files
<1>2. j.pc \notin Ended /\ j.pc \in AfterModules
  BY <1>1 DEF Ended, AfterModules
<1>3. /\ OthersKept(b) /\ Read(j, k) /\ k.next = j.next /\ k.pc \in {"done", "refused"}
      /\ k.cache = j.cache
  BY <1>1, ReportFields
<1>4. ASSUME ~k.overlapped PROVE SoloInv(b)'
  <2>1. /\ ~j.overlapped /\ \A c \in Builders : c # b => builds'[c].pc \in Ended
        /\ \A i \in DOMAIN Linked(b)' : Stored(b, i)'
    BY <1>1, <1>2, <1>3, <1>4, SoloSame
  <2>2. disk' = k.cache
    BY <1>1, <1>3, <2>1 DEF SoloInv
  <2> QED BY <1>3, <2>1, <2>2 DEF SoloInv, AtModule, AfterModules
<1> QED BY <1>3, <1>4 DEF SoloInv

\* A build that starts while another runs does not run alone, nor does that.
LEMMA SoloStart ==
  ASSUME StoreInv, SoloRuns, NEW b \in Builders, NEW p \in Programs, NEW e \in Requests,
         Start(b, p, e)
  PROVE  SoloRuns'
<1> DEFINE k == builds'[b]
<1>1. Shape /\ builds[b].pc \in Ended
  BY DEF StoreInv, Start
<1>2. /\ k.pc = "prepare" /\ k.settled = FALSE /\ k.overlapped = (Running # {})
      /\ \A c \in Builders : c # b =>
           /\ Kept(builds[c], builds'[c]) /\ builds'[c].settled = FALSE
           /\ builds'[c].overlapped = (builds[c].overlapped \/ c \in Running)
  BY <1>1, StartFields
<1>3. SoloInv(b)'
  <2>1. ~k.overlapped => \A c \in Builders : c # b => builds'[c].pc \in Ended
    BY <1>2 DEF Running, Kept
  <2> QED BY <1>2, <2>1 DEF SoloInv, AtModule, AfterModules
<1>4. ASSUME NEW c \in Builders, c # b PROVE SoloInv(c)'
  <2> DEFINE l == builds'[c]
  <2>1. /\ l.pc = builds[c].pc /\ l.settled = FALSE
        /\ ~l.overlapped => ~builds[c].overlapped /\ builds[c].pc \in Ended
    BY <1>2, <1>4 DEF Kept, Running
  <2>2. ~l.overlapped => l.pc # "failed" /\ l.pc \in Ended
    BY <2>1 DEF SoloRuns, SoloInv
  <2> QED BY <2>1, <2>2 DEF SoloInv, Ended, AtModule, AfterModules
<1> QED BY <1>3, <1>4 DEF SoloRuns

\* After a change no build that ran alone is taken for the last one.
LEMMA SoloChange ==
  ASSUME StoreInv, SoloRuns, Running = {}, builds' = Unsettled
  PROVE  SoloRuns'
<1>1. ASSUME NEW c \in Builders PROVE SoloInv(c)'
  <2>1. /\ builds'[c].pc = builds[c].pc /\ builds'[c].settled = FALSE
        /\ builds'[c].overlapped = builds[c].overlapped
    BY UnsettledFields DEF Kept, StoreInv
  <2>2. builds[c].pc \in Ended
    BY DEF Running
  <2>3. ~builds[c].overlapped => builds[c].pc # "failed"
    BY DEF SoloRuns, SoloInv
  <2> QED BY <2>1, <2>2, <2>3 DEF SoloInv, Ended, AtModule, AfterModules
<1> QED BY <1>1 DEF SoloRuns

\* Every step keeps what holds of builds that run alone.
LEMMA SoloStep == StoreInv /\ SoloRuns /\ [Next]_vars => SoloRuns'
<1> SUFFICES ASSUME StoreInv, SoloRuns, [Next]_vars PROVE SoloRuns'
  OBVIOUS
<1>1. ASSUME NEW b \in Builders, Step(b) PROVE SoloRuns'
  <2>1. builds[b].pc \notin Ended
    BY <1>1 DEF Step, Prepare, UseCached, Miss, Compile, CompileRefused, RehomeObject, RehomeObl,
       RehomeEcho, ScratchLost, SaveBegin, SaveEnd, Link, Prune, Report, Ended
  <2>2. OthersKept(b) /\ SoloInv(b)'
    BY <1>1, SoloPrepare, SoloCached, SoloCompiling, SoloStopped, SoloSaveBegin, SoloSaveEnd,
       SoloLink, SoloPrune, SoloReport DEF Step
  <2> QED BY <2>1, <2>2, SoloOthers
<1>2. ASSUME NEW b \in Builders, Crash(b) PROVE SoloRuns'
  <2>1. Shape /\ builds[b].pc \notin Ended /\ builds' = [builds EXCEPT ![b] = Fresh]
    BY <1>2 DEF Crash, Running, StoreInv
  <2>2. Shaped(Fresh)
    BY DEF Fresh, Shaped, Fields, Pcs
  <2>3. OthersKept(b) /\ builds'[b] = Fresh
    BY <2>1, <2>2, BuildSet
  <2>4. SoloInv(b)'
    BY <2>3 DEF SoloInv, Fresh, AtModule, AfterModules, Ended
  <2> QED BY <2>1, <2>3, <2>4, SoloOthers
<1>3. ASSUME NEW f \in Files, NEW v \in Versions, EditSource(f, v) PROVE SoloRuns'
  BY <1>3, SoloChange DEF EditSource
<1>4. ASSUME NEW e \in Envs, ChangeEnv(e) PROVE SoloRuns'
  BY <1>4, SoloChange DEF ChangeEnv
<1>5. ASSUME UNCHANGED vars PROVE SoloRuns'
  <2>1. UNCHANGED <<builds, objects, slots, scratch, disk>>
    BY <1>5 DEF vars, files
  <2>2. ASSUME NEW c \in Builders PROVE SoloInv(c)'
    BY <2>1, ZenonT(40) DEF SoloRuns, SoloInv, Stored, Linked, Object, Slot, Rec, File, Fp
  <2> QED BY <2>2 DEF SoloRuns
<1> QED BY <1>1, <1>2, <1>3, <1>4, <1>5, SoloStart DEF Next

\* No build has started.
LEMMA SoloInit == Init => SoloRuns
BY DEF Init, SoloRuns, SoloInv, Fresh, Ended, AtModule, AfterModules

\* A build that no other overlapped finds all that it has made.
THEOREM SoloInvariant == Spec => []SoloRuns
BY SoloInit, SoloStep, StoreInvariant, PTL DEF Spec

\* A build fails over a missing artifact only if another build ran with it.
THEOREM AloneBuildsSurvive == Spec => []SoloNeverFails
<1>1. SoloRuns => SoloNeverFails
  BY DEF SoloRuns, SoloInv, SoloNeverFails
<1> QED BY <1>1, SoloInvariant, PTL

\* After a build that ran alone, the same build finds every module cached.
THEOREM RebuildsAreCached == ASSUME TornIsNoCache PROVE Spec => []RebuildIsCached
<1>1. StoreInv /\ SoloRuns => RebuildIsCached
  <2> SUFFICES ASSUME StoreInv, SoloRuns, NEW b \in Builders, Done(b), builds[b].settled,
                      ~builds[b].overlapped, NEW i \in DOMAIN Linked(b)
               PROVE  LET n == Linked(b)[i] IN
                      /\ n \in DOMAIN objects /\ SlotName(n, builds[b].env) \in DOMAIN slots
                      /\ [elide |-> builds[b].elide, fp |-> n[2], object |-> n] \in Loaded
    BY DEF RebuildIsCached
  <2>1. disk = builds[b].cache /\ Stored(b, i)
    BY DEF SoloRuns, SoloInv, Done
  <2>2. disk # Torn
    BY <2>1, TornIsNoCache DEF StoreInv, BuilderInv, TypesOf, TornIsNoCache
  <2> QED BY <2>1, <2>2 DEF Stored, Loaded
<1> QED BY <1>1, StoreInvariant, SoloInvariant, PTL
=============================================================================
