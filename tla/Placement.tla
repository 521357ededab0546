----------------------------- MODULE Placement -----------------------------
(***************************************************************************)
(* Which segments finish3() can lay out as an OMF object file.  A field is *)
(* a relocation that has its place in the data, [offset, size]; the labels *)
(* are the offsets of the symbols the file makes global.                   *)
(***************************************************************************)
EXTENDS Naturals

End(f) == f.offset + f.size

Apart(f, g) == End(f) <= g.offset \/ End(g) <= f.offset

Inside(label, f) == f.offset < label /\ label < End(f)

(* No field overlaps another.                                              *)
Separate(unresolved, resolved) ==
  /\ \A f, g \in unresolved : f = g \/ Apart(f, g)
  /\ \A f, g \in resolved : f = g \/ Apart(f, g)
  /\ \A f \in unresolved, g \in resolved : Apart(f, g)

(* No label stands beyond the data or inside a field.                      *)
LabelsClear(size, labels, unresolved, resolved) ==
  \A label \in labels :
    label <= size /\ \A f \in unresolved \cup resolved : ~Inside(label, f)

(* The label between an unresolved field and a resolved one: the inner     *)
(* loop goes from the one to the other without a look at the labels.       *)
Skipped(labels, unresolved, resolved) ==
  \E label \in labels, f \in unresolved, g \in resolved :
    End(f) = label /\ label = g.offset

Fits(size, labels, unresolved, resolved) ==
  /\ Separate(unresolved, resolved)
  /\ LabelsClear(size, labels, unresolved, resolved)
  /\ ~Skipped(labels, unresolved, resolved)
=============================================================================
