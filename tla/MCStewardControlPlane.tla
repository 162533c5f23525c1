----------------------- MODULE MCStewardControlPlane -----------------------
(***************************************************************************)
(* Constants for model-checking StewardControlPlane.                       *)
(***************************************************************************)
EXTENDS ControlPlaneRefinement

\* The reference never changes.
NoMoves == {}

\* Any change of the reference.
AllMoves == Locations \X Locations
=============================================================================
