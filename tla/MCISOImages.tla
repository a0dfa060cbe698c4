---------------------------- MODULE MCISOImages ----------------------------
(***************************************************************************)
(* Instances of ISOImages for TLC: kernel lines with a separator, without  *)
(* one, and with the text of an argument, and lines that are none; "seed"  *)
(* is a path without ".iso".                                               *)
(***************************************************************************)
EXTENDS ISOImages, TLC

CONSTANTS seed, seedISO, a, b

MCPath == {seed, seedISO}
MCWithISO == [p \in Path |-> seedISO]
MCWord == {"linux", "linuxefi", "---", "splash", "set", "auto", "noauto", "ds"}
MCInstaller == << <<"set">>, <<"linux", "---", "splash">>, <<>>,
                  <<"linuxefi", "noauto">>, <<"linux", "noauto", "ds", "---">> >>

\* The texts have words in common, and one has a separator of its own.
MCWords == a :> <<"auto", "ds">> @@ b :> <<"auto", "---", "ds">>
\* "noauto" ends with the text of "auto".
MCHolding == [x \in Arg |-> [k \in DOMAIN MCWords[x] |->
               IF k = 1 THEN {"auto", "noauto"} ELSE {MCWords[x][k]}]]
MCSymmetry == Permutations(Call)
=============================================================================
