---------------------------- MODULE TLPermissions ----------------------------
(***************************************************************************)
(* TileLink permission parameters as omnixtend-rs encodes them             *)
(* (tilelink_messages.rs): caps (ToT, ToB, ToN), grows (NtoB, NtoT, BtoT)  *)
(* and the prune/report changes a ProbeAck, Release or ReleaseData         *)
(* carries, with the helpers the cache uses to pick them.                  *)
(***************************************************************************)
EXTENDS Naturals

\* OmnixtendPermissionChangeCap
Caps == {"ToT", "ToB", "ToN"}

\* OmnixtendPermissionChangeGrow
Grows == {"NtoB", "NtoT", "BtoT"}

\* OmnixtendPermissionChangePrune and OmnixtendPermissionChangeReport
Prunes  == {"TtoB", "TtoN", "BtoN"}
Reports == {"TtoT", "BtoB", "NtoN"}
Changes == Prunes \cup Reports

\* get_resulting_permission: the cap a Grant for grow g leaves.
GetResultingPermission(g) == IF g = "NtoB" THEN "ToB" ELSE "ToT"

\* get_report_from_cap
GetReportFromCap(v) ==
    IF v = "ToB" THEN "BtoB" ELSE IF v = "ToT" THEN "TtoT" ELSE "NtoN"

\* get_permission_change_grow: every pair other than N->B and N->T is BtoT.
GetPermissionChangeGrow(cur, request) ==
    IF cur = "ToN" /\ request = "ToB" THEN "NtoB"
    ELSE IF cur = "ToN" /\ request = "ToT" THEN "NtoT"
    ELSE "BtoT"

\* get_permission_change: the change reported when a line with cap cur is
\* asked to go to request (a probe) or is released to request.
GetPermissionChange(cur, request) ==
    CASE cur = request                        -> GetReportFromCap(cur)
      [] cur = "ToN"                          -> "NtoN"
      [] cur = "ToT" /\ request = "ToB"       -> "TtoB"
      [] cur = "ToT" /\ request = "ToN"       -> "TtoN"
      [] OTHER                                -> "BtoN"

\* The cap a change leaves the client with, as a manager reads the param
\* of a ProbeAck or Release.
ChangeResult(c) ==
    CASE c \in {"TtoT"}                 -> "ToT"
      [] c \in {"TtoB", "BtoB"}         -> "ToB"
      [] OTHER                          -> "ToN"

=============================================================================
