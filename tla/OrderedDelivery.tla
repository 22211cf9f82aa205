-------------------------- MODULE OrderedDelivery --------------------------
(***************************************************************************)
(* What the inbound half of the CDP transport promises (rules I9 and I22   *)
(* of the code's comments): frames take effect one at a time, in the order *)
(* they came off the wire, whatever their size and however long they take  *)
(* to decode.  Pipeline is the implementation.                             *)
(***************************************************************************)
EXTENDS Naturals, Sequences

CONSTANT Frames,              \* frames a browser can send
         Apply(_, _, _)       \* the effect of frame number n on a view

VARIABLES wire,               \* frames received so far
          delivered,          \* how many of them have taken effect
          view                \* what they did, seen by the rest of the runtime

vars == <<wire, delivered, view>>

Init(view0) == wire = <<>> /\ delivered = 0 /\ view = view0

Receive(f) ==
  /\ wire' = Append(wire, f)
  /\ UNCHANGED <<delivered, view>>

Deliver ==
  /\ delivered < Len(wire)
  /\ delivered' = delivered + 1
  /\ view' = Apply(view, delivered + 1, wire[delivered + 1])
  /\ UNCHANGED wire

Next == (\E f \in Frames : Receive(f)) \/ Deliver
=============================================================================
