-------------------------- MODULE MCFetchArtifact --------------------------
(***************************************************************************)
(* Instances of FetchArtifact for TLC, with artifacts that Resolve returns *)
(* for images of the maintained catalog.                                   *)
(***************************************************************************)
EXTENDS FetchArtifact

LOCAL R(source, channel, locator, asset, format, provider) ==
  [source |-> source, channel |-> channel, locator |-> locator, asset |-> asset,
   format |-> format, provider |-> provider, arch |-> "amd64"]

TalosOVA == R("talos", "talos_factory", <<"vanilla">>, "vmware-amd64.ova", "ova", "")
UbuntuCloud == R("ubuntu-cloud", "ubuntu_cloud", <<>>, "", "ova", "")

\* One box for two hypervisors.
Box(provider) == R("ubuntu", "vagrant", <<"bento", "ubuntu-24.04">>, "", "ovf", provider)
BoxVBox == Box("virtualbox")
BoxVMware == Box("vmware_desktop")

\* Two images under one name.
Windows(url) == R("windows-dev", "url", <<url>>, "", "ova", "")
WindowsVBox == Windows("windev_VM_virtualbox")
WindowsVMware == Windows("windev_VM_vmware")

MCArtifacts == {TalosOVA, UbuntuCloud, BoxVBox, BoxVMware, WindowsVBox, WindowsVMware}
MCDigested == {UbuntuCloud, BoxVBox}
MCBox == {BoxVMware}

\* Ubuntu's URL is the one that keeps its name from release to release.
MCReleases == [o \in Origins |-> IF o = Origin(UbuntuCloud) THEN 2 ELSE 1]
=============================================================================
