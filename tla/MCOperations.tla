---------------------------- MODULE MCOperations -----------------------------
(* Two drives, of which the first has a volume and was repaired; the second  *)
(* came from DirectCSI, is cordoned and labelled.  The devices swap their    *)
(* names while the first one grows, the first one is pulled, or copied.  The *)
(* third drive, of the request to repair, is not there.                      *)
EXTENDS Operations

CONSTANTS d1, d2, d3, m1, m2, m3

Sd(letter) == <<Text("sd"), Letters(<<letter>>)>>
Disk(letter, uuid, total) == HostDevice(Sd(letter), {}, uuid, total)

MCDriveOrder == <<d1, d2>>
MCNodeName == <<Text("n1")>>
MCFirstLayout == (m1 :> Disk(2, d1, 3)) @@ (m2 :> Disk(3, d2, 3))
MCLayouts ==
  {MCFirstLayout,
   (m1 :> Disk(3, d1, 4)) @@ (m2 :> Disk(2, d2, 3)),
   m2 :> Disk(2, d2, 3),
   (m1 :> Disk(2, d1, 3)) @@ (m2 :> Disk(3, d2, 3)) @@ (m3 :> Disk(4, d1, 3))}

With(flags) == Arguments(FALSE, flags @@ NoFlags)
SdbToSdd == <<Text("sd"), Braces(<<Letters(<<2>>), Letters(<<4>>)>>)>>
MCRequests ==
  {Request("labelDrives", With("drives" :> {Sd(2)})),
   Request("unlabelDrives", With(("status" :> {"Ready"}) @@ ("ids" :> {d2}))),
   Request("labelVolumes", With(("drives" :> {Sd(2)}) @@ ("volumes" :> {d1}))),
   Request("cordon", With(("drives" :> {SdbToSdd}) @@ ("status" :> {"Ready"}))),
   Request("cordon", With(<< >>)),
   Request("uncordon", Arguments(TRUE, NoFlags)),
   Request("repair", With("ids" :> {d1, d3}))}
=============================================================================
