---------------------------- MODULE MCDiscovery ------------------------------
(* Two nodes.  A host has a disk that is empty, one that is a drive, or one *)
(* that was just pulled and that udev still knows.  The driver is installed *)
(* on the first node before discover is run, or while it runs.              *)
EXTENDS Discovery

CONSTANTS n1, n2, m1, u1

MCNodeOrder == <<n1, n2>>
Disk(name, uuid) == [devices |-> m1 :> HostDevice(name, {}, uuid, 1), mounts |-> {}]
MCFirstHost == Disk("sdb", NoUUID)
MCHosts == {Disk("sdb", NoUUID), Disk("sdb", u1), Disk(NoName, NoUUID)}
MCRunning == {{n2}, {n1, n2}}
MCSelections == {{}, {n1}}
=============================================================================
