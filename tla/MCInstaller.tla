------------------------------ MODULE MCInstaller ------------------------------
(* Installer for TLC: the hosts and plans the runs consider, each with few     *)
(* enough components to be exhausted; between them they have them all.         *)
EXTENDS Installer

Wants(C) == [selected |-> C, force |-> FALSE, start |-> TRUE, customRoot |-> FALSE]

Legacy3   == {"none", "legacy", "own"}
Msi3      == {"none", "msi", "own"}
Packaged3 == {"none", "packaged", "own"}

NodeOnWindows ==
  [windows |-> TRUE, has |-> {"dig-node", "dig-relay"}, versions |-> {1, 2},
   regs |-> Legacy3, plans |-> {Wants({"dig-node"})}]

RelayOnWindows ==
  [windows |-> TRUE, has |-> {"dig-relay", "browser"}, versions |-> {1, 2},
   regs |-> Msi3, plans |-> {Wants({"dig-relay", "browser"})}]

ResolverOnUnix ==
  [windows |-> FALSE, has |-> {"dig-dns", "browser", "scheme", "dig-updater"},
   versions |-> {2}, regs |-> Legacy3, plans |-> {Wants({"dig-dns", "browser", "scheme"})}]

DesktopOnUnix ==
  [windows |-> FALSE, has |-> {"dig-node", "dig-app"}, versions |-> {2},
   regs |-> Packaged3, plans |-> {Wants({"dig-node", "dig-app"})}]

MCMachines == {NodeOnWindows, RelayOnWindows, ResolverOnUnix, DesktopOnUnix}

(* A command-line host: two runs, either over the tools or over the beacon,   *)
(* the second reinstalling it under a custom root with services left stopped. *)
CliOnWindows ==
  [windows |-> TRUE, has |-> {"dig-store", "browser"}, versions |-> {1},
   regs |-> Legacy3,
   plans |-> {Wants({"dig-store"}), Wants({"browser"}),
              [selected |-> {"dig-updater"}, force |-> TRUE, start |-> FALSE,
               customRoot |-> TRUE]}]

ForcedNodeOnWindows ==
  [windows |-> TRUE, has |-> {"dig-node"}, versions |-> {2}, regs |-> {"none", "own"},
   plans |-> {[selected |-> {"dig-node"}, force |-> TRUE, start |-> TRUE,
               customRoot |-> FALSE]}]

SmallMachines == {CliOnWindows, ForcedNodeOnWindows}

(* For the runs that look for a violation. *)
MsiNodeOnWindows ==
  [windows |-> TRUE, has |-> {"dig-node"}, versions |-> {1, 2}, regs |-> Msi3,
   plans |-> {Wants({"dig-node"})}]

NodeMachines == {MsiNodeOnWindows}
===========================================================================
