---------------------------- MODULE MCDeviceBoot ----------------------------
(***************************************************************************)
(* Images of up to four blobs: library, its user and a module that        *)
(* collides, each of them signed or not, sound, unparsable or truncated.   *)
(***************************************************************************)
EXTENDS DeviceBoot, MCLoader

BootModules ==
  LET bodies == {LibOf(m) : m \in {Plain, Signed}} \cup
                {UserOf(m) : m \in {Plain, Signed}} \cup
                {CollideOf(Signed), CollideOf(Plain)}
  IN bodies \cup {Sealed(Signed, "sealed"),
                  Bad(Plain, "policy")}

BlobKinds == [prefix : BOOLEAN, parses : BOOLEAN, mod : BootModules]

\* A truncated or unparsable blob holds no module worth telling apart.
Blobs == {b \in BlobKinds : (b.prefix /\ b.parses) \/ b.mod = LibOf(Plain)}

BootPacks ==
  UNION {[1 .. n -> Blobs] : n \in 0 .. 3} \cup
  {[i \in 1 .. 4 |-> b] : b \in Blobs}
=============================================================================
