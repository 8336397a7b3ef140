----------------------------- MODULE Selection -------------------------------
(***************************************************************************)
(* Which objects a command is about: its flags, their validation, and the  *)
(* listers the selectors go to.                                            *)
(*                                                                         *)
(* Flags are a function from their names to the arguments given, of which  *)
(* those of ExpandedFlags may hold ellipses.  Bad is an argument the check *)
(* of the flag refuses: an unknown status, no UUID, a malformed label.     *)
(***************************************************************************)
EXTENDS Ellipsis, FiniteSets

CONSTANT Bad

ExpandedFlags == {"nodes", "drives", "pods", "podNSs"}
Flags == ExpandedFlags \cup {"status", "ids", "labels", "volumes"}
DriveFlags == {"nodes", "drives", "status", "ids"}
VolumeFlags == {"nodes", "drives", "ids", "pods", "podNSs", "volumes"}

NoFlags == [f \in Flags |-> {}]
Arguments(all, flags) == [all |-> all, flags |-> flags]
Refusal == [err |-> TRUE, sel |-> NoFlags]
Accepted(sel) == [err |-> FALSE, sel |-> sel]

-----------------------------------------------------------------------------
(* Validation of the flags *)

\* validateNodeArgs, validateDriveNameArgs, validatePodNameArgs, validatePodNSArgs: no empty
\* name, and ellipses that can be expanded
ExpandableArgs(values) == \A v \in values : v # <<>> /\ Expandable(v)

\* validateDriveStatusArgs, validateDriveIDArgs, validateVolumeNameArgs,
\* validateVolumeStatusArgs, validateLabelArgs
KnownArgs(values) == Bad \notin values

ValidArgs(a, used) ==
  \A f \in used :
    IF f \in ExpandedFlags THEN ExpandableArgs(a.flags[f]) ELSE KnownArgs(a.flags[f])

\* The selectors made of the flags
Selectors(a, used) ==
  [f \in Flags |->
     CASE f \notin used -> {}
       [] f \in ExpandedFlags -> UNION {ToSet(Expand(v)) : v \in a.flags[f]}
       [] OTHER -> a.flags[f]]

Selecting(a, used) == a.all \/ \E f \in used : a.flags[f] # {}

\* What the commands that change something have in common: some flag must select, and
\* --all drops what the other flags say.  For each command: the flags it has, their
\* validation, and the selectors it passes on.
Require(a, used) ==
  IF ~ValidArgs(a, used) \/ ~Selecting(a, used) THEN Refusal
  ELSE Accepted(IF a.all THEN NoFlags ELSE Selectors(a, used))

validateCordonCmd(a) == Require(a, DriveFlags)
validateUncordonCmd(a) == Require(a, DriveFlags)
validateRemoveCmd(a) == Require(a, DriveFlags)
validateCleanCmd(a) == Require(a, VolumeFlags)

\* These have no --all.
validateSuspendDrivesCmd(a) == Require([a EXCEPT !.all = FALSE], DriveFlags \ {"status"})
validateResumeDrivesCmd(a) == Require([a EXCEPT !.all = FALSE], DriveFlags \ {"status"})
validateSuspendVolumesCmd(a) == Require([a EXCEPT !.all = FALSE], VolumeFlags \ {"ids"})
validateResumeVolumesCmd(a) == Require([a EXCEPT !.all = FALSE], VolumeFlags \ {"ids"})
validateRepairCmd(a) == Require([a EXCEPT !.all = FALSE], {"ids"})

\* validateListCmd and validateListDrivesArgs, validateListVolumesArgs: without a flag the
\* objects that are ready
ListOf(a, used) ==
  CASE ~ValidArgs(a, used) -> Refusal
    [] a.all -> Accepted(NoFlags)
    [] ~Selecting(a, used) -> Accepted([NoFlags EXCEPT !["status"] = {"Ready"}])
    [] OTHER -> Accepted(Selectors(a, used))

validateListDrivesArgs(a) == ListOf(a, DriveFlags \cup {"labels"})
\* --all of list volumes leaves the drive IDs.
validateListVolumesArgs(a) ==
  LET list == ListOf(a, VolumeFlags \cup {"status", "labels"})
  IN  IF a.all /\ ~list.err THEN Accepted([NoFlags EXCEPT !["ids"] = a.flags["ids"]]) ELSE list

\* The selectors are those of list, of which --all drops what is left; the default of list
\* does not count as a selection.
validateLabelDrivesCmd(a) ==
  IF Selecting(a, DriveFlags \cup {"labels"}) THEN validateListDrivesArgs(a) ELSE Refusal
validateLabelVolumesCmd(a) ==
  LET list == validateListVolumesArgs(a)
  IN  IF ~Selecting(a, VolumeFlags \cup {"status", "labels"}) \/ list.err THEN Refusal
      ELSE IF a.all THEN Accepted(NoFlags) ELSE list

-----------------------------------------------------------------------------
(* Listers.  An object is known by its attributes, named after the flags. *)

\* labelSelector: an attribute is one of the values of its selector, if there are any.
LabelMatch(o, sel, labelled) == \A f \in labelled : sel[f] = {} \/ o[f] \in sel[f]

\* Nothing but IDs is asked for: they are read one by one and nothing is listed.
getOnly(sel, id) == sel[id] # {} /\ \A f \in Flags \ {id} : sel[f] = {}

\* Objects sent as they are listed: those the selectors match, and of a wanted status or
\* asked for by ID
Listed(objects, sel, labelled, id) ==
  IF getOnly(sel, id) THEN {}
  ELSE {x \in DOMAIN objects :
          /\ LabelMatch(objects[x], sel, labelled)
          /\ x \in sel[id] \/ sel["status"] = {} \/ objects[x]["status"] \in sel["status"]}

\* IDs read one by one after that: those that did not come up in the list
Remaining(objects, sel, labelled, id) ==
  sel[id] \ (IF getOnly(sel, id) THEN {}
             ELSE {x \in DOMAIN objects : LabelMatch(objects[x], sel, labelled)})

DriveLabels == {"nodes", "drives", "labels"}
VolumeLabels == {"nodes", "drives", "ids", "pods", "podNSs", "labels"}

ListDrives(objects, sel) == Listed(objects, sel, DriveLabels, "ids")
RemainingDrives(objects, sel) == Remaining(objects, sel, DriveLabels, "ids")
ListVolumes(objects, sel) == Listed(objects, sel, VolumeLabels, "volumes")
RemainingVolumes(objects, sel) == Remaining(objects, sel, VolumeLabels, "volumes")

\* The promise of both: the objects named by ID, and those every other selector matches.
Selected(x, o, sel, labelled, id) ==
  \/ x \in sel[id]
  \/ ~getOnly(sel, id) /\ LabelMatch(o, sel, labelled)
     /\ (sel["status"] = {} \/ o["status"] \in sel["status"])

-----------------------------------------------------------------------------
(* Checks *)

\* Bounded arguments: with and without --all, and one or two flags with a good, an empty, a
\* malformed or no argument
SampleArguments ==
  LET good(f) == IF f \in ExpandedFlags THEN <<Text("n1")>> ELSE "x"
      poor(f) == IF f \in ExpandedFlags THEN <<Braces(<<Number(1), Invalid>>)>> ELSE Bad
      none(f) == IF f \in ExpandedFlags THEN <<>> ELSE Bad
      values(f) == {{}, {good(f)}, {good(f), poor(f)}, {none(f)}}
  IN  UNION {{Arguments(all, [NoFlags EXCEPT ![f] = v, ![g] = w]) : v \in values(f), w \in values(g)} :
               all \in BOOLEAN, f \in Flags, g \in Flags}

ChangingCommands(a) ==
  <<validateCordonCmd(a), validateUncordonCmd(a), validateRemoveCmd(a), validateCleanCmd(a),
    validateSuspendDrivesCmd(a), validateResumeDrivesCmd(a), validateSuspendVolumesCmd(a),
    validateResumeVolumesCmd(a), validateRepairCmd(a), validateLabelDrivesCmd(a),
    validateLabelVolumesCmd(a)>>

\* Empty selectors select everything: no command that changes objects goes on with them
\* unless --all was given, and none goes on with an argument its check refuses.
ASSUME AcceptedIsSelective ==
  \A a \in SampleArguments : \A i \in DOMAIN ChangingCommands(a) :
    LET r == ChangingCommands(a)[i]
    IN  ~r.err => /\ a.all \/ r.sel # NoFlags
                  /\ \A f \in Flags : Bad \notin r.sel[f]
=============================================================================
