----------------------------- MODULE Catalogue -----------------------------
(***************************************************************************)
(* What the parser of headers promises: the entries that the declarations  *)
(* of a header call for are found one after the other, in the order of the *)
(* header, each once and nothing else; then the lines of those that are to *)
(* be kept are published.  Of a header that cannot be read, what comes     *)
(* before the place is found, and nothing is published.                    *)
(***************************************************************************)
EXTENDS Integers, Sequences, SequencesExt

VARIABLES
  plan,      \* what the header calls for: entries, each with its lines
  readable,  \* whether all of the header can be read
  found,     \* entries found so far
  published  \* the lines published

vars == <<plan, readable, found, published>>

Init == found = <<>> /\ published = <<>>

Find ==
  /\ Len(found) < Len(plan)
  /\ found' = Append(found, plan[Len(found) + 1].entry)
  /\ UNCHANGED <<plan, readable, published>>

Publish ==
  /\ readable /\ Len(found) = Len(plan)
  /\ published' = FlattenSeq([i \in DOMAIN plan |-> plan[i].lines])
  /\ UNCHANGED <<plan, readable, found>>

Spec == Init /\ [][Find \/ Publish]_vars /\ WF_vars(Find) /\ WF_vars(Publish)
=============================================================================
