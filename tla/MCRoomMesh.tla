---- MODULE MCRoomMesh ----
(* RoomMesh with three receivers, whose numbers are the order of            *)
(* their peer ids.                                                          *)
EXTENDS RoomMesh
ThreeReceivers == {1, 2, 3}
(* The middle one offers to one receiver and is offered to by the other.    *)
OwnerAndMiddle == {Owner, 2}
====
