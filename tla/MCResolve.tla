----------------------------- MODULE MCResolve -----------------------------
(***************************************************************************)
(* An instance of Resolve for TLC: the maintained catalog, and images with *)
(* every list of up to three variants.  An image is called by its kind and *)
(* its variants.                                                           *)
(***************************************************************************)
EXTENDS Resolve

LOCAL INSTANCE ArtifactCatalog

MCArch == {"amd64", "arm64"}

Shapes == [family : Families \cup {Any}, arch : MCArch \cup {Any}, kind : {Any},
           locator : {""}, format : {"iso"}]
Lists == UNION {[1..n -> Shapes] : n \in 0..3}
Listed == {[kind |-> "url", variants |-> list] : list \in Lists}

MCCatalog == [source \in Maintained \cup Listed |-> source]
MCBoxes == [box \in {[kind |-> "vagrant", variants |-> <<>>]} |-> "org/box"]
MCUnknown == {[kind |-> "", variants |-> <<>>]}
=============================================================================
