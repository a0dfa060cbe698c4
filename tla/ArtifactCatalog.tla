-------------------------- MODULE ArtifactCatalog --------------------------
(***************************************************************************)
(* The maintained image list (core/artifact/resolve.go, Catalog).  The     *)
(* eight boxes of the Vagrant registry have one shape and are one entry.   *)
(***************************************************************************)
CONSTANT Any

LOCAL V(family, arch, kind, locator, format) ==
  [family |-> family, arch |-> arch, kind |-> kind, locator |-> locator,
   format |-> format]

LOCAL Source(kind, variants) == [kind |-> kind, variants |-> variants]

Talos == Source("github_asset",
  <<V("virtualbox", Any, Any, "siderolabs/talos", "iso"),
    V("vmware", Any, "talos_factory", "vanilla", "ova")>>)

TalosISO == Source("github_asset", <<V(Any, Any, Any, "siderolabs/talos", "iso")>>)

WindowsDev == Source("url",
  <<V("virtualbox", "amd64", Any, "windev_VM_virtualbox", "ova"),
    V("vmware", "amd64", Any, "windev_VM_vmware", "ova")>>)

UbuntuCloud == Source("ubuntu_cloud", <<V(Any, Any, Any, "", "ova")>>)

TurnkeyCore == Source("url", <<V(Any, "amd64", Any, "turnkey-core-18.1", "ova")>>)

Vagrant(box) == Source("vagrant", <<V(Any, Any, Any, box, "ovf")>>)

Maintained == {Talos, TalosISO, WindowsDev, UbuntuCloud, TurnkeyCore,
               Vagrant("bento/ubuntu-24.04")}
=============================================================================
