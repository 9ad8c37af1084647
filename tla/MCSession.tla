---- MODULE MCSession ----
(* Instances of Session for TLC: the disks of two servers. *)
EXTENDS Session

CONSTANTS a, b, c, d

Version(t) == {<<t, 0>>, <<t, 1>>}

\* A server without a storage directory; a newer version that is only half there, or
\* that each server has a half of; a file no server has whole; one that both have;
\* more names than come with one recv.
Disks == {
  <<[f \in {} |-> {}], (a :> Version(1)) @@ (b :> Version(2))>>,
  <<(a :> Version(1) \cup {<<4, 0>>}) @@ (b :> {<<2, 0>>}), (a :> {<<4, 1>>}) @@ (d :> Version(5))>>,
  <<(a :> Version(1)) @@ (b :> {<<2, 0>>}) @@ (c :> Version(3)), (a :> Version(1) \cup {<<4, 0>>})>> }

DiskLayouts == {[s \in 0..1 |-> x[s + 1]] : x \in Disks}
====
