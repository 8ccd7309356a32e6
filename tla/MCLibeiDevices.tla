--------------------------- MODULE MCLibeiDevices ---------------------------
(***************************************************************************)
(* Instances of LibeiDevices for TLC: two keyboards of different layouts,  *)
(* one of them a pointer as well, and an absolute pointer.                 *)
(***************************************************************************)
EXTENDS LibeiDevices

CONSTANTS combo, plain, tablet

At(code, level) == [code |-> code, level |-> level]
TwoLayouts ==
    [us |-> [Shift_L |-> At("shift", 0), a |-> At("k1", 0), A |-> At("k1", 1), q |-> At("k2", 0)],
     fr |-> [Shift_L |-> At("shift", 0), a |-> At("k2", 0), A |-> At("k2", 1), q |-> At("k1", 0)]]

SomeCaps == (combo :> {"keyboard", "pointer", "button"}) @@ (plain :> {"keyboard"})
                @@ (tablet :> {"abs", "button"})
SomeLayouts == (combo :> "us") @@ (plain :> "fr") @@ (tablet :> "none")

KeyOf(what, dir) == [op |-> "key", what |-> what, dir |-> dir]
Button(dir) == [op |-> "point", slot |-> "pointer", what |-> "left", dir |-> dir]
SomeRequests ==
    {KeyOf("a", "PressRelease"), KeyOf("A", "Press"), KeyOf("A", "Release"),
     [op |-> "text", what |-> <<"A", "x", "q">>], [op |-> "text", what |-> <<"x">>],
     Button("PressRelease"),
     [op |-> "point", slot |-> "abs", what |-> None, dir |-> ""]}

Symmetry == Permutations(Callers)
==============================================================================
