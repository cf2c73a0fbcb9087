----------------------------- MODULE MCCommands -----------------------------
(***************************************************************************)
(* Commands with three names to call, "none" and an empty name: every      *)
(* DoCall graph over them with every choice of sections, some Sequences,   *)
(* and some settings of delays and repeats.                                *)
(***************************************************************************)
EXTENDS Commands

CONSTANT Junk   \* a setting that is no integer

MCRampUp == -1

MCName == {"_start", "a", "b", "none", ""}

Blank == [s \in Section |-> Unset]

(* Every DoCall graph; "none" may have a section and a DoCall, too.        *)
Chains ==
  [sequence  : {<< >>},
   defined   : SUBSET {"_start", "a", "b", "none"},
   call      : {c \in [Name -> {"_start", "a", "b", "none", ""}] : c["none"] = "a" /\ c[""] = ""},
   malformed : {{}, {"b"}},
   delay     : {[Blank EXCEPT !["b"] = 3]},
   repeat    : {Blank}]

Sequences2 ==
  [sequence  : {<<"a">>, <<"a", "b">>, <<"b", "a", "b">>, <<"a", "", "b">>, <<"a", "none", "b">>},
   defined   : SUBSET {"a", "b", "none", "default"},
   call      : {[n \in Name |-> ""]},
   malformed : {{}, {"a"}},
   delay     : {[Blank EXCEPT !["b"] = b, !["default"] = d] : b \in {Unset, Junk, 7, -20}, d \in {Unset, 4}},
   repeat    : {Blank, [Blank EXCEPT !["a"] = 5, !["default"] = 2], [Blank EXCEPT !["b"] = -1]}]

MCConfig == Chains \cup Sequences2
=============================================================================
