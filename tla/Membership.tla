------------------------------ MODULE Membership ------------------------------
(***************************************************************************)
(* A node's view of the cluster's members                                  *)
(* (src/assets/stdlib/membership.js): what it has observed of each node,   *)
(* and the order in which one observation outranks another.  Names and     *)
(* addresses travel with an observation and decide nothing; they are left  *)
(* out.                                                                    *)
(***************************************************************************)
EXTENDS Integers

Severity == [Alive |-> 0, Suspect |-> 1, Dead |-> 2]

Statuses == DOMAIN Severity

Members == [status : Statuses, incarnation : Nat, creation : Nat]

\* A node the view has never heard of: any observation outranks it.
Unknown == [status |-> "Alive", incarnation |-> 0, creation |-> -1]

\* Does observation b win over a, of the same node?
Supersedes(b, a) ==
  \/ b.creation > a.creation
  \/ b.creation = a.creation /\ b.incarnation > a.incarnation
  \/ /\ b.creation = a.creation /\ b.incarnation = a.incarnation
     /\ Severity[b.status] >= Severity[a.status]

Winner(a, b) == IF Supersedes(b, a) THEN b ELSE a

Merge(view, other) ==
  [id \in DOMAIN view |-> IF other[id] = Unknown THEN view[id] ELSE Winner(view[id], other[id])]

\* A verdict on a node, of the life and incarnation it is known in.
Verdict(known, status) ==
  [status |-> status, incarnation |-> known.incarnation,
   creation |-> IF known = Unknown THEN 0 ELSE known.creation]
===============================================================================
