------------------------------ MODULE MCLoader ------------------------------
(***************************************************************************)
(* Containers for TLC: a chain of good modules, pairs that conflict in a   *)
(* symbol, a hash, an aperture or a name, and one container per check.     *)
(***************************************************************************)
EXTENDS Loader

Sym(n, h) == [name |-> n, hash |-> h]

Plain == [id |-> "a", signed |-> FALSE, sigOk |-> FALSE, enc |-> "plain",
          faults |-> {}, uses |-> << >>, sections |-> <<1>>,
          relocs |-> << >>, exports |-> << >>, init |-> FALSE]

Signed == [Plain EXCEPT !.signed = TRUE, !.sigOk = TRUE]

Import(h) == [kind |-> "symbol", ref |-> h]
ApBase(a) == [kind |-> "aperture", ref |-> a]

\* The library module: two apertures, two exports, an init word.
LibOf(m) == [m EXCEPT !.uses = <<1, 2>>, !.init = TRUE, !.sections = <<1, 1>>,
               !.relocs = <<Import("hp"), ApBase(2)>>,
               !.exports = <<Sym("f", "hf"), Sym("g", "hg")>>]

\* A user of f.
UserOf(m) == [m EXCEPT !.id = "b", !.relocs = <<Import("hf")>>,
                !.init = TRUE,
                !.exports = <<Sym("main", "hmain")>>]

\* Exports a fresh word and then one whose hash is taken by g.
CollideOf(m) == [m EXCEPT !.id = "c", !.uses = <<3>>, !.init = TRUE,
                   !.exports = <<Sym("k", "hk"), Sym("q", "hg")>>]

\* Binds a free aperture and then one that the library holds.
GrabOf(m) == [m EXCEPT !.id = "d", !.uses = <<3, 1>>,
                !.exports = <<Sym("d", "hd")>>]

TwoWordsOf(m) == [m EXCEPT !.id = "n",
                    !.exports = <<Sym("n", "hn"), Sym("o", "ho")>>]

Faulty == {"abi", "modinfo", "isr", "stackBudget", "manifest", "digest",
           "policy", "modinfoVer", "platformHash", "rederive", "sharing"}

Bad(m, f) == [m EXCEPT !.id = "e", !.faults = {f}, !.uses = <<3>>,
                !.exports = <<Sym("e", "he")>>]

Sealed(m, how) == [m EXCEPT !.id = "e", !.enc = how, !.uses = <<3>>]

MCModules ==
  { LibOf(Plain), LibOf(Signed), UserOf(Plain), UserOf(Signed),
    CollideOf(Plain), CollideOf(Signed), GrabOf(Signed),
    [LibOf(Signed) EXCEPT !.sigOk = FALSE],
    TwoWordsOf(Plain), TwoWordsOf(Signed),
    [Plain EXCEPT !.id = "x", !.uses = <<3, 3>>],
    [Signed EXCEPT !.id = "x", !.uses = <<9>>],
    [Signed EXCEPT !.id = "x", !.uses = <<3>>, !.faults = {"access"}],
    [Signed EXCEPT !.id = "x", !.relocs = <<Import("hnone")>>],
    [Signed EXCEPT !.id = "x", !.relocs = <<ApBase(3)>>],
    [Signed EXCEPT !.id = "x", !.uses = <<3>>, !.relocs = <<ApBase(3)>>,
                   !.faults = {"siteBase"}],
    [Signed EXCEPT !.id = "x", !.relocs = <<Import("hp")>>, !.faults = {"relocSite"}],
    [Signed EXCEPT !.id = "x", !.relocs = <<[kind |-> "unsupported", ref |-> "hp"]>>] }
  \cup { Bad(Signed, f) : f \in Faulty }
  \cup { Bad(Plain, f) : f \in {"policy", "rederive", "sharing"} }
  \cup { Sealed(Signed, how) : how \in {"noKey", "tampered", "sealed"} }
  \cup { Sealed(Plain, "sealed"),
         [Sealed(Signed, "sealed") EXCEPT !.faults = {"policy"}],
         [Sealed(Signed, "sealed") EXCEPT !.faults = {"encHeader"}] }

MCBoard == {1, 2, 3}
MCFirmware == <<[hash |-> "hp", name |-> "", addr |-> 0]>>
=============================================================================
