------------------------------ MODULE MCPaging ------------------------------
EXTENDS Paging

MCPositions == [time : Times, id : Ids]

(* Texts of one to four bytes, with bits everywhere. *)
MCText == [p \in MCPositions |->
              LET full == <<170 + p.id, 90 * p.time + 7, 255 - p.id, 128 + p.time>>
              IN  SubSeq(full, 1, 1 + ((p.time + p.id) % 4))]
=============================================================================
